------------------------------ MODULE MCClient ------------------------------
(***************************************************************************)
(* TLC instance of what an application drives: the local media controls,   *)
(* the recording hooks, the snapshots and the device lists.  They share no *)
(* state: every behaviour is of one of them, chosen by `part`.             *)
(***************************************************************************)
EXTENDS LocalMedia, RecordingClient, DeviceControls, ClientView, TLC

CONSTANT Part      \* the parts to check

VARIABLE part      \* the part this behaviour is of
partsVars == <<part, mediaVars, recordingVars, deviceVars, viewVars>>

\* Connections and devices differ at the beginning only in their own part.
PartsInit ==
  /\ part \in Part
  /\ MediaInit /\ RecordingInit /\ DeviceInit /\ ViewInit
  /\ part # "media" => present = {}
  /\ part # "devices" => plugged = {} /\ \A t \in Cam : facing[t] = "user"

PartsNext ==
  /\ UNCHANGED part
  /\ \/ part = "media" /\ MediaNext /\ UNCHANGED <<recordingVars, deviceVars, viewVars>>
     \/ part = "recording" /\ RecordingNext /\ UNCHANGED <<mediaVars, deviceVars, viewVars>>
     \/ part = "devices" /\ DeviceNext /\ UNCHANGED <<mediaVars, recordingVars, viewVars>>
     \/ part = "view" /\ ViewNext /\ UNCHANGED <<mediaVars, recordingVars, deviceVars>>
PartsSpec == PartsInit /\ [][PartsNext]_partsVars

----
Symmetry == Permutations(Party)
RecordingBound == part = "recording" => FewChunks

\* At rest every live capture is published or shared, every peer has what is published, and
\* the quality controller manages the tracks that are sent.
CaptureServed == CaptureAccounted /\ PeersServed /\ QualityFollows

\* Recording goes where and as the application asked, and stops when it says so.
RecordingAsAsked == AskedFor /\ StopStops

\* The snapshot shows the room, subscribers are told of every change, and a swapped track
\* keeps what was set.
SnapshotTrue == Fresh /\ Told /\ SwapKept

\* Device lists, facing modes and the raised hand end as the last calls asked.
DevicesSettle == ListFresh /\ FacingInOrder /\ HandAnnounced
=============================================================================
