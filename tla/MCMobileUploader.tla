-------------------------- MODULE MCMobileUploader --------------------------
(* Instances of MobileUploader for TLC. *)
EXTENDS MobileUploader, TLC

CameraAtRest ==
  /\ \A c \in Recordings : camera[c] = "idle"
  /\ held \union completion \union overlapped = {}

Busy == {i \in Items : status[i] # "none"}

\* Lost answers and a list that could not be read meet any uploads, with the camera at rest;
\* the camera films beside two items at most, and overlapping starts of it beside one.  The
\* third item may be the file of a recording.  A step that is cut off here has another outcome
\* that is not, so fairness never asks for it.
MCNext ==
  /\ Next
  /\ \/ CameraAtRest'
     \/ Cardinality(Busy') <= 2 /\ unread' = {} /\ \A i \in Items : lost'[i] = {}
  /\ overlapped' = {} \/ Cardinality(Busy') <= 1

MCFairSpec == Init /\ [][MCNext]_vars /\ Fairness
=============================================================================
