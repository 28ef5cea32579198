---------------------------- MODULE DeviceControls ----------------------------
(***************************************************************************)
(* The device lists, the camera's facing mode and the raised hand of a      *)
(* client: packages/core/src/devices.ts (RoomDevicesFacade, listDevices,    *)
(* switchCamera, setFacingMode) and the device and hand parts of            *)
(* packages/core/src/controls/ControlsManager.ts.                           *)
(*                                                                          *)
(* A list is kept by each of two readers: "controls", the ControlsManager,  *)
(* which enumerates when the platform reports a change, and "facade", an    *)
(* application that calls room.devices.listDevices() on devices:changed.    *)
(* The platform's calls are awaited: an enumeration holds the devices of    *)
(* the moment it was asked for, applyConstraints takes effect on a track in *)
(* the order of the calls, and either may fail.                             *)
(***************************************************************************)
EXTENDS Naturals, Sequences, SequencesExt

CONSTANTS Dev,       \* devices
          Cams,      \* number of local camera tracks
          MaxUses    \* bound on calls, device changes and failures

\* With no camera track a call ends at once and changes nothing.
ASSUME DevicesAssumption == Cams \in Nat \ {0}

Cam == 1..Cams
Reader == {"controls", "facade"}
Modes == {"user", "environment"}

VARIABLES plugged,    \* the devices there are
          listening,  \* the readers subscribed to devicechange
          queries,    \* of a reader: enumerations under way, oldest first
          list,       \* of a reader: the list it holds
          late,       \* of a reader: an answer was overtaken by a newer one, or failed (history)
          facing,     \* of a track
          turns,      \* calls under way: [toggle, mode, at, next], at the track whose constraint `next` is awaited
          wanted,     \* facing modes if each call had run alone (history)
          mixed,      \* a toggle met another call, or a call failed (history)
          raising,    \* raiseHand() calls that await the reaction
          handRaised,
          told,       \* a raised hand was told to the room since it was last lowered (history)
          uses
lists == <<plugged, listening, queries, list, late>>
camera == <<facing, turns, wanted, mixed>>
hand == <<raising, handRaised, told>>
deviceVars == <<lists, camera, hand, uses>>

Used == uses < MaxUses /\ uses' = uses + 1

DeviceInit ==
  /\ plugged \in SUBSET Dev /\ listening = Reader
  /\ queries = [r \in Reader |-> <<>>] /\ list = [r \in Reader |-> plugged]
  /\ late = [r \in Reader |-> FALSE]
  /\ facing \in [Cam -> Modes] /\ turns = <<>> /\ wanted = facing /\ mixed = FALSE
  /\ raising = 0 /\ handRaised = FALSE /\ told = FALSE /\ uses = 0

---- \* device lists

\* The readers in `on` enumerate
Query(on) ==
  /\ queries' = [r \in Reader |-> IF r \in on THEN Append(queries[r], plugged') ELSE queries[r]]
  /\ late' = [r \in Reader |-> late[r] /\ ~(r \in on /\ queries[r] = <<>>)]

\* devicechange: every subscribed reader enumerates
Plug ==
  /\ Used /\ \E d \in Dev : plugged' = (plugged \ {d}) \cup ({d} \ plugged)
  /\ Query(listening) /\ UNCHANGED <<listening, list, camera, hand>>

listDevices(r) ==
  /\ Used /\ UNCHANGED <<plugged, listening, list, camera, hand>> /\ Query({r})

\* updateDevices: a list with the same key changes nothing; the facade hands its list on as it is
SameKey(r, found) == r = "controls" /\ found = list[r]
Found(r, i) ==
  /\ list' = IF SameKey(r, queries[r][i]) THEN list ELSE [list EXCEPT ![r] = queries[r][i]]
  /\ queries' = [queries EXCEPT ![r] = RemoveAt(@, i)]
  /\ late' = [late EXCEPT ![r] = @ \/ i > 1]
  /\ UNCHANGED <<plugged, listening, camera, hand, uses>>

EnumerationFails(r, i) ==
  /\ Used /\ queries' = [queries EXCEPT ![r] = RemoveAt(@, i)] /\ late' = [late EXCEPT ![r] = TRUE]
  /\ UNCHANGED <<plugged, listening, list, camera, hand>>

\* ControlsManager.dispose; RoomDevicesFacade.dispose, which Room.leave() calls
dispose(r) ==
  /\ Used /\ listening' = listening \ {r}
  /\ UNCHANGED <<plugged, queries, list, late, camera, hand>>

---- \* switchCamera, setFacingMode: applyConstraints is awaited for one track after the other

Flip(mode) == IF mode = "environment" THEN "user" ELSE "environment"

\* What a call asks of a track, read from the track when its turn comes
ModeOfFirst(toggle, mode, t) == IF toggle THEN Flip(facing[1]) ELSE mode
ModeFor(toggle, mode, t) == IF toggle THEN Flip(facing[t]) ELSE mode

Turn(toggle, mode) ==
  /\ Used
  /\ turns' = Append(turns, [toggle |-> toggle, mode |-> mode, at |-> 1,
                             next |-> ModeFor(toggle, mode, 1)])
  /\ wanted' = [t \in Cam |-> IF toggle THEN Flip(wanted[t]) ELSE mode]
  /\ mixed' = (mixed \/ (turns # <<>> /\ (toggle \/ \E k \in DOMAIN turns : turns[k].toggle)))
  /\ UNCHANGED <<lists, facing, hand>>
switchCamera == Turn(TRUE, "user")
setFacingMode == \E mode \in Modes : Turn(FALSE, mode)

\* The constraints of one track take effect in the order they were asked for
Applied(k) ==
  LET turn == turns[k] IN
  /\ \A j \in 1..(k - 1) : turns[j].at > turn.at
  /\ facing' = [facing EXCEPT ![turn.at] = turn.next]
  /\ turns' = IF turn.at = Cams THEN RemoveAt(turns, k)
              ELSE [turns EXCEPT ![k].at = @ + 1,
                                 ![k].next = ModeFor(turn.toggle, turn.mode, turn.at + 1)]
  /\ UNCHANGED <<lists, wanted, mixed, hand, uses>>

\* A camera that refuses the mode rejects the call: the tracks after it are left as they are
ApplyFails(k) ==
  /\ Used /\ \A j \in 1..(k - 1) : turns[j].at > turns[k].at
  /\ turns' = RemoveAt(turns, k) /\ mixed' = TRUE
  /\ UNCHANGED <<lists, facing, wanted, hand>>

---- \* raiseHand, lowerHand, toggleHand

\* The flag is set once the reaction is sent
Raise ==
  /\ raising' = raising + 1 /\ UNCHANGED <<handRaised, told>>
raiseHand == Used /\ Raise /\ UNCHANGED <<lists, camera>>

Raised ==
  /\ raising > 0 /\ raising' = raising - 1 /\ handRaised' = TRUE /\ told' = TRUE
  /\ UNCHANGED <<lists, camera, uses>>
ReactionFails ==
  /\ Used /\ raising > 0 /\ raising' = raising - 1
  /\ UNCHANGED <<handRaised, told, lists, camera>>

\* lowerHand tells nobody
Lower == handRaised' = FALSE /\ told' = FALSE /\ UNCHANGED raising
lowerHand ==
  /\ Used /\ handRaised /\ Lower /\ UNCHANGED <<lists, camera>>
toggleHand ==
  /\ Used /\ (IF handRaised THEN Lower ELSE Raise) /\ UNCHANGED <<lists, camera>>

DeviceNext ==
  \/ Plug
  \/ \E r \in Reader : listDevices(r) \/ dispose(r)
                       \/ \E i \in DOMAIN queries[r] : Found(r, i) \/ EnumerationFails(r, i)
  \/ switchCamera \/ setFacingMode
  \/ \E k \in DOMAIN turns : Applied(k) \/ ApplyFails(k)
  \/ raiseHand \/ Raised \/ ReactionFails \/ lowerHand \/ toggleHand
DeviceSpec == DeviceInit /\ [][DeviceNext]_deviceVars

----
\* A reader that listens and awaits nothing holds the devices that are plugged in, unless an
\* enumeration failed or answers overtook one another: listDevices and refreshDevices keep
\* whichever answer comes last.
ListFresh ==
  \A r \in listening : queries[r] = <<>> /\ ~late[r] => list[r] = plugged

\* Once no call is under way every camera faces as the calls ask one after the other; only a
\* toggle that meets another call, or a failure, may leave it otherwise (switchCamera reads the
\* mode before it awaits).
FacingInOrder == turns = <<>> /\ ~mixed => facing = wanted

\* A hand shown as raised has been told to the room since it was last lowered.
HandAnnounced == handRaised => told
=============================================================================
