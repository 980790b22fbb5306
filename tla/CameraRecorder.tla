--------------------------- MODULE CameraRecorder ---------------------------
(***************************************************************************)
(* The camera of the upload page (camera-video-recorder.ts, and the two    *)
(* handlers of its button in use-mobile-uploader.ts).  start awaits the    *)
(* camera between its look at the active recording and its assignment, and *)
(* the events of a MediaRecorder arrive whenever they like.  Whether a     *)
(* recording got any data is left open until it is finished.               *)
(***************************************************************************)
CONSTANTS
  Recordings,  \* calls of start, and the files that come of them
  None         \* no recording, no upload

ASSUME CameraConstants == None \notin Recordings

VARIABLES
  camera,       \* how far each recording is
  held,         \* recordings whose capture is not released
  active,       \* DefaultCameraVideoRecorder.active
  completion,   \* recordings with a stop() that is not settled
  failed,       \* whether active.failure is set
  isRecording,  \* what the button does
  overlapped    \* history: recordings whose start was under way together with another one

cameraVars == <<camera, held, active, completion, failed, isRecording, overlapped>>

\* "requesting": start awaits requestCapture; "inactive": the stop event is to come.
CameraInit ==
  /\ camera = [c \in Recordings |-> "idle"]
  /\ held = {} /\ completion = {}
  /\ active = None /\ failed = FALSE /\ isRecording = FALSE
  /\ overlapped = {}

\* A reload drops the recordings, and the browser releases their tracks.
CameraGone ==
  /\ camera' = [c \in Recordings |-> "idle"]
  /\ held' = {} /\ completion' = {}
  /\ active' = None /\ failed' = FALSE /\ isRecording' = FALSE
  /\ overlapped' = {}

Goes(c, to) == camera' = [camera EXCEPT ![c] = to]

-----------------------------------------------------------------------------
(* start *)

\* The button asks for the camera again while the user is asked for permission.
Requesting == {c \in Recordings : camera[c] = "requesting"}

StartCamera(c) ==
  /\ ~isRecording /\ active = None
  /\ camera[c] = "idle" /\ c \notin held \union completion
  /\ Goes(c, "requesting")
  /\ overlapped' = IF Requesting = {} THEN overlapped \ {c}
                                     ELSE overlapped \union Requesting \union {c}
  /\ UNCHANGED <<held, active, completion, failed, isRecording>>

\* The user refuses, or the recorder cannot be made or started: the capture is released.
StartFails(c) ==
  /\ camera[c] = "requesting" /\ Goes(c, "idle")
  /\ UNCHANGED <<held, active, completion, failed, isRecording, overlapped>>

CaptureGranted(c) ==
  /\ camera[c] = "requesting" /\ Goes(c, "recording")
  /\ held' = held \union {c}
  /\ active' = c /\ failed' = FALSE /\ isRecording' = TRUE
  /\ UNCHANGED <<completion, overlapped>>

-----------------------------------------------------------------------------
(* The recorder's events, and stop *)

\* The tracks end: the camera is taken away, or its permission.
RecorderEnds(c) ==
  /\ camera[c] = "recording" /\ Goes(c, "inactive")
  /\ UNCHANGED <<held, active, completion, failed, isRecording, overlapped>>

\* onerror, which stops a recorder that is not inactive yet; the failure of a recording
\* that is not the active one is never read
RecorderErrors(c) ==
  /\ camera[c] \in {"recording", "inactive"} /\ Goes(c, "inactive")
  /\ failed' = (failed \/ active = c)
  /\ UNCHANGED <<held, active, completion, isRecording, overlapped>>

\* Mutant: a recording that failed keeps the camera.
Finish_KeepCapture(c) ==
  /\ active' = None /\ failed' = FALSE /\ isRecording' = FALSE
  /\ held' = (IF failed THEN held ELSE held \ {c}) /\ completion' = completion \ {c}
  /\ UNCHANGED overlapped

\* finish, for the active recording: a call to stop is settled, with the file or not;
\* without a call, onFailure tells the page.
Finish(c) ==
  /\ active' = None /\ failed' = FALSE /\ isRecording' = FALSE
  /\ held' = held \ {c} /\ completion' = completion \ {c}
  /\ UNCHANGED overlapped

StopCamera(c) ==
  /\ isRecording /\ active = c /\ c \notin completion /\ camera[c] = "recording"
  /\ Goes(c, "inactive") /\ completion' = completion \union {c}
  /\ UNCHANGED <<held, active, failed, isRecording, overlapped>>

\* The recorder is inactive already, and finish need not wait for its event.
StopInactive(c) ==
  /\ isRecording /\ active = c /\ c \notin completion /\ camera[c] = "inactive"
  /\ Finish(c) /\ UNCHANGED camera

\* A second stop is rejected, and the button returns before the first one is settled.
StopAgain ==
  /\ isRecording /\ active \in completion /\ isRecording' = FALSE
  /\ UNCHANGED <<camera, held, active, completion, failed, overlapped>>

\* onstop
RecorderStops(c) ==
  /\ camera[c] = "inactive" /\ active = c /\ Goes(c, "idle") /\ Finish(c)

\* onstop of a recording that is not the active one, or no longer
RecorderStopsLate(c) ==
  /\ camera[c] = "inactive" /\ active # c /\ Goes(c, "idle")
  /\ UNCHANGED <<held, active, completion, failed, isRecording, overlapped>>
=============================================================================
