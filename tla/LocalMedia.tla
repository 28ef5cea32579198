----------------------------- MODULE LocalMedia -----------------------------
(***************************************************************************)
(* The local media of one participant: ControlsManager                     *)
(* (packages/core/src/controls/ControlsManager.ts) over Room.publish and   *)
(* unpublish and the senders of the mesh, with the set of tracks the       *)
(* quality controller manages.                                             *)
(*                                                                         *)
(* A call is a task that runs from one await to the next; tasks and        *)
(* browser events interleave in any order.  Tracks are numbered by their   *)
(* acquisition, publications by the track they are made with.  The browser *)
(* and the peer connections are external: a device request may be refused, *)
(* replaceTrack and addTrack succeed.  Senders of one connection that      *)
(* carry the same track count as one.                                      *)
(***************************************************************************)
EXTENDS Integers, SequencesExt, FiniteSetsExt

CONSTANTS
  Party,       \* remote participants
  MaxTasks,   \* bound: calls under way at once
  MaxActs     \* bound: calls of the application, peers that come, screens ended

ASSUME MediaAssumption == MaxActs \in Nat

VARIABLES
  mutedFlag, \* micMutedFlag and cameraMutedFlag
  pubs,      \* the publication objects: source, track and muted flag
  listed,    \* LocalParticipant.publications, in order
  kinds,     \* the source each track was acquired for
  live, enabled,  \* tracks that capture; tracks whose `enabled' is true
  present,   \* participants with a peer connection
  sent,      \* tracks the senders of each connection carry
  managed,   \* RoomQualityController.videoTracks
  screen,    \* sharing flag, mode, track and publication of the screen share
  heard,     \* tracks whose 'ended' event stops the share
  said,      \* what the peers were last told of the share
  tasks,
  races,     \* what the exceptions of the properties refer to
  acts

tracks == <<kinds, live, enabled>>
mesh == <<present, sent>>
publications == <<pubs, listed, managed>>
share == <<screen, heard, said>>
mediaVars == <<mutedFlag, tracks, mesh, publications, share, tasks, races, acts>>

Device == {"microphone", "camera"}
TrackId == 1 .. MaxActs

MediaInit ==
  /\ mutedFlag = [s \in Device |-> FALSE]
  /\ pubs = [i \in TrackId |-> [src |-> "none", track |-> 0, muted |-> FALSE]]
  /\ listed = <<>> /\ managed = {}
  /\ kinds = <<>> /\ live = {} /\ enabled = {}
  /\ present \in SUBSET Party
  /\ sent = [p \in Party |-> {}]
  /\ screen = [flag |-> FALSE, mode |-> "none", track |-> 0, pub |-> 0]
  /\ heard = {} /\ said = "stop" /\ tasks = {}
  /\ races = [late |-> {}, clash |-> {}, overlap |-> FALSE, swapped |-> FALSE, gone |-> {},
              came |-> {}]
  /\ acts = 0

-----------------------------------------------------------------------------
(* Tasks.                                                                  *)

\* A task: `new' and `old' are tracks, `shown' the display track of a share
\* that stops, `was' the mute flag as read, `seen' the peers served.
NewTask ==
  [id |-> acts + 1, op |-> "", src |-> "", at |-> "", new |-> 0, old |-> 0,
   shown |-> 0, pub |-> 0, was |-> FALSE, seen |-> {}, todo |-> {}]

Act == acts < MaxActs /\ acts' = acts + 1
Become(k, next) == tasks' = (tasks \ {k}) \cup {next}
Return(k) == tasks' = tasks \ {k}

\* A camera call looks at the share and a share at the camera.
Touches(s) == IF s = "microphone" THEN {s} ELSE {"camera", "screen"}

\* A call goes on beyond its early returns; calls that overlap are remembered.
Enter(k) ==
  LET running == {o.src : o \in tasks}
  IN  /\ Cardinality(tasks) < MaxTasks
      /\ tasks' = tasks \cup {k}
      /\ races' = [races EXCEPT
                       !.clash = IF k.src \in running THEN @ \cup {k.src} ELSE @,
                       !.overlap = @ \/ running \cap Touches(k.src) # {}]

ReturnsAtOnce == UNCHANGED <<tasks, races>>

\* findPublication: the first one listed of that source that has a track.
Find(s) ==
  LET of == {n \in DOMAIN listed : pubs[listed[n]].src = s /\ pubs[listed[n]].track # 0}
  IN  IF of = {} THEN 0 ELSE listed[Min(of)]

\* The publications are a map: one is listed once at most
ListWithout(i) ==
  IF Contains(listed, i) THEN RemoveAt(listed, CHOOSE n \in DOMAIN listed : listed[n] = i)
  ELSE listed

\* The synchronous part of Room.unpublish.
Unlist(i) ==
  /\ listed' = ListWithout(i)
  /\ managed' = managed \ {pubs[i].track}

\* Everything but the tasks and their history, and nothing but it.
NothingElse == UNCHANGED <<mutedFlag, tracks, mesh, publications, share>>

-----------------------------------------------------------------------------
(* Calls of the application.                                               *)

\* startMicrophone, startCamera.
StartDevice(s) ==
  /\ Act
  /\ IF Find(s) # 0 THEN ReturnsAtOnce
     ELSE Enter([NewTask EXCEPT !.op = "start", !.src = s, !.at = "acquire"])
  /\ NothingElse

\* startScreenShare.
StartShare ==
  /\ Act
  /\ IF screen.flag THEN ReturnsAtOnce
     ELSE Enter([NewTask EXCEPT !.op = "share", !.src = "screen", !.at = "acquire"])
  /\ NothingElse

\* setMicrophoneDevice, setCameraDevice: the mute flag is read here, before
\* applyConstraints and a new acquisition are awaited.
SetDevice(s) ==
  /\ Act
  /\ IF Find(s) = 0 THEN ReturnsAtOnce
     ELSE Enter([NewTask EXCEPT !.op = "switch", !.src = s, !.at = "apply",
                   !.pub = Find(s), !.old = pubs[Find(s)].track, !.was = mutedFlag[s]])
  /\ NothingElse

\* The flag of s was read by a call that has still to apply or list it.
FlagTaken(s) ==
  \E k \in tasks : /\ k.src = s
                   /\ k.op = "switch" \/ (k.op = "start" /\ k.at = "publish")

\* setMicrophoneMuted, setCameraMuted.
SetDeviceMuted(s, m) ==
  LET i == Find(s)
  IN  /\ Act /\ m # mutedFlag[s]
      /\ mutedFlag' = [mutedFlag EXCEPT ![s] = m]
      /\ IF i = 0 THEN UNCHANGED <<pubs, enabled>>
         ELSE /\ pubs' = [pubs EXCEPT ![i].muted = m]
              /\ enabled' = IF m THEN enabled \ {pubs[i].track} ELSE enabled \cup {pubs[i].track}
      /\ races' = [races EXCEPT !.late = IF FlagTaken(s) THEN @ \cup {s} ELSE @ \ {s}]
      /\ UNCHANGED <<kinds, live, listed, managed, mesh, share, tasks>>

\* The synchronous part of stopScreenShare, run by task k: the camera is put
\* back on the senders the display track has, or its publication is withdrawn.
EndShare(k) ==
  LET c == Find("camera")
      t == screen.track
      replaced == screen.mode = "replace"
      withdrawn == ~replaced /\ screen.pub # 0
  IN  /\ screen' = [flag |-> FALSE, mode |-> "none", track |-> 0,
                    pub |-> IF withdrawn THEN 0 ELSE screen.pub]
      /\ IF withdrawn THEN Unlist(screen.pub) ELSE UNCHANGED <<listed, managed>>
      /\ Enter([k EXCEPT
           !.shown = t,
           !.at = IF replaced /\ t # 0 /\ c # 0 THEN "swap"
                  ELSE IF withdrawn THEN "remove" ELSE "announce",
           !.old = IF withdrawn THEN pubs[screen.pub].track ELSE t,
           !.new = IF c = 0 THEN 0 ELSE pubs[c].track,
           !.todo = present])

\* stopScreenShare.
StopShare ==
  /\ Act
  /\ IF screen.flag THEN EndShare([NewTask EXCEPT !.op = "unshare", !.src = "screen"])
     ELSE ReturnsAtOnce /\ UNCHANGED <<screen, listed, managed>>
  /\ UNCHANGED <<mutedFlag, tracks, mesh, pubs, heard, said>>

\* Room.unpublish begins for the publication task k has found.
BeginRemoval(k) == [k EXCEPT !.at = "remove", !.old = pubs[k.pub].track, !.seen = {}]

\* stopMicrophone, stopCamera: a share on the camera's senders ends first.
StopDevice(s) ==
  LET k == [NewTask EXCEPT !.op = "stop", !.src = s, !.pub = Find(s)]
  IN  /\ Act
      /\ IF Find(s) = 0 THEN ReturnsAtOnce /\ UNCHANGED <<screen, listed, managed>>
         ELSE IF s = "camera" /\ screen.mode = "replace" THEN EndShare(k)
         ELSE Enter(BeginRemoval(k)) /\ Unlist(k.pub) /\ UNCHANGED screen
      /\ UNCHANGED <<mutedFlag, tracks, mesh, pubs, heard, said>>

-----------------------------------------------------------------------------
(* The steps of the tasks.                                                 *)

\* applyConstraints: accepted, or rejected and a new track is asked for.
ApplyConstraints(k) ==
  /\ k.at = "apply"
  /\ \/ Return(k)
     \/ Become(k, [k EXCEPT !.at = "acquire"])
  /\ NothingElse /\ UNCHANGED <<races, acts>>

\* getUserMedia or getDisplayMedia refuses.
Refuse(k) ==
  /\ k.at = "acquire"
  /\ Return(k)
  /\ NothingElse /\ UNCHANGED <<races, acts>>

\* everyPeerSends.
EveryPeerSends(t) == present # {} /\ \A p \in present : t \in sent[p]

\* A device comes up as the flag says; the track of a switch is set later.
Enabled(k, t) ==
  IF k.op = "start" /\ mutedFlag[k.src] THEN enabled ELSE enabled \cup {t}

\* The track is there.  A share takes over the camera's senders if every peer
\* has one, and is published otherwise.
Acquire(k) ==
  LET t == Len(kinds) + 1
      c == Find("camera")
      replaces == k.op = "share" /\ c # 0 /\ EveryPeerSends(pubs[c].track)
  IN  /\ k.at = "acquire" /\ t \in TrackId
      /\ kinds' = Append(kinds, k.src)
      /\ live' = live \cup {t}
      /\ enabled' = Enabled(k, t)
      /\ Become(k, [k EXCEPT !.new = t,
                     !.at = IF k.op = "switch" \/ replaces THEN "swap" ELSE "publish",
                     !.old = IF replaces THEN pubs[c].track ELSE @,
                     !.todo = present])
      /\ UNCHANGED <<mutedFlag, mesh, publications, share, races, acts>>

\* The publish loop of the mesh: the next connection, one that came meanwhile too.
PublishTo(k, p) ==
  /\ k.at = "publish" /\ p \in present \ k.seen
  /\ sent' = [sent EXCEPT ![p] = @ \cup {k.new}]
  /\ Become(k, [k EXCEPT !.seen = @ \cup {p}])
  /\ UNCHANGED <<mutedFlag, tracks, present, publications, share, races, acts>>

\* Faulty variant: only the connections there were at the start are served.
ServedSnapshot(k) == (present \cap k.todo) \subseteq k.seen

\* The loop, over a map that may change, has been through all connections.
Served(k) == present \subseteq k.seen

\* The share is on: flag, mode, the 'ended' listener and the announcement.
Sharing(k, mode) ==
  /\ screen' = [flag |-> TRUE, mode |-> mode, track |-> k.new,
                pub |-> IF mode = "separate" THEN k.new ELSE screen.pub]
  /\ heard' = heard \cup {k.new}
  /\ said' = "start"

\* Faulty variant: the publication does not take the flag over.
FlagForgotten(k) == FALSE

\* The mute flag a new publication gets.
FlagNow(k) == k.src \in Device /\ mutedFlag[k.src]

\* The loop is over: the publication is listed and, if video, managed.
List(k) ==
  /\ k.at = "publish" /\ Served(k)
  /\ pubs' = [pubs EXCEPT ![k.new] = [src |-> k.src, track |-> k.new, muted |-> FlagNow(k)]]
  /\ listed' = Append(listed, k.new)
  /\ managed' = IF k.src = "microphone" THEN managed ELSE managed \cup {k.new}
  /\ IF k.op = "share" THEN Sharing(k, "separate") ELSE UNCHANGED share
  /\ Return(k)
  /\ UNCHANGED <<mutedFlag, tracks, mesh, races, acts>>

\* replaceSenders: one connection of those there were when it was called.
Swap(k, p) ==
  /\ k.at = "swap" /\ p \in k.todo
  /\ sent' = [sent EXCEPT ![p] =
                IF p \in present /\ k.old \in @ THEN (@ \ {k.old}) \cup {k.new} ELSE @]
  /\ Become(k, [k EXCEPT !.todo = @ \ {p}])
  /\ UNCHANGED <<mutedFlag, tracks, present, publications, share, races, acts>>

\* switchTrack ends: the publication has the new track, muted as the flag was
\* when the switch began.
Adopt(k) ==
  /\ live' = live \ {k.old}
  /\ pubs' = [pubs EXCEPT ![k.pub].track = k.new, ![k.pub].muted = k.was]
  /\ enabled' = IF k.was THEN enabled \ {k.new} ELSE enabled \cup {k.new}

\* All senders are swapped.
Swapped(k) ==
  /\ k.at = "swap" /\ k.todo = {}
  /\ CASE k.op = "switch" ->
            /\ Adopt(k) /\ Return(k)
            /\ races' = [races EXCEPT !.swapped = @ \/ k.src = "camera"]
            /\ UNCHANGED <<kinds, share>>
       [] k.op = "share" ->
            /\ Sharing(k, "replace") /\ Return(k)
            /\ UNCHANGED <<tracks, pubs, races>>
       [] OTHER ->
            /\ Become(k, [k EXCEPT !.at = "announce"])
            /\ UNCHANGED <<tracks, share, pubs, races>>
  /\ UNCHANGED <<mutedFlag, mesh, listed, managed, acts>>

\* The unpublish loop of the mesh.
RemoveFrom(k, p) ==
  /\ k.at = "remove" /\ p \in present \ k.seen
  /\ sent' = [sent EXCEPT ![p] = @ \ {k.old}]
  /\ Become(k, [k EXCEPT !.seen = @ \cup {p}])
  /\ UNCHANGED <<mutedFlag, tracks, present, publications, share, races, acts>>

\* A device stops with the track its publication has by now.
Stopped(k) == live \ {pubs[k.pub].track}

\* The loop is over; a share has still to stop its track and say so.
Removed(k) ==
  /\ k.at = "remove" /\ Served(k)
  /\ IF k.op = "stop" THEN live' = Stopped(k) /\ Return(k)
     ELSE Become(k, [k EXCEPT !.at = "announce"]) /\ UNCHANGED live
  /\ UNCHANGED <<mutedFlag, kinds, enabled, mesh, publications, share, races, acts>>

\* The display track stops and the stop is announced; stopCamera goes on.
Announce(k) ==
  /\ k.at = "announce"
  /\ live' = live \ {k.shown}
  /\ said' = "stop"
  /\ IF k.op = "stop" THEN Become(k, [k EXCEPT !.at = "restored"]) ELSE Return(k)
  /\ UNCHANGED <<mutedFlag, kinds, enabled, mesh, publications, screen, heard, races, acts>>

\* stopCamera withdraws the camera once the share is over.
Restored(k) ==
  /\ k.at = "restored"
  /\ Unlist(k.pub)
  /\ Become(k, BeginRemoval(k))
  /\ UNCHANGED <<mutedFlag, tracks, mesh, pubs, share, races, acts>>

-----------------------------------------------------------------------------
(* The browser and the mesh.                                               *)

\* The user ends the display capture; without the listener nobody hears it.
ScreenEnds(t) ==
  /\ Act
  /\ t \in live /\ kinds[t] = "screen"
  /\ live' = live \ {t}
  /\ IF t \in heard /\ screen.flag
     THEN EndShare([NewTask EXCEPT !.op = "unshare", !.src = "screen"])
     ELSE /\ races' = [races EXCEPT !.gone = IF t \in heard THEN @ ELSE @ \cup {t}]
          /\ UNCHANGED <<screen, listed, managed, tasks>>
  /\ UNCHANGED <<mutedFlag, kinds, enabled, mesh, pubs, heard, said>>

\* A listed track is not the one to be sent: a display track is in its place,
\* or another track is being put there.
StandIn ==
  \/ screen.mode = "replace"
  \/ \E k \in tasks : k.op \in {"share", "switch"} /\ k.at = "swap"

\* ensurePeer: a new connection gets the track of each listed publication; a
\* loop over the connections meets it again if it has been there before.
PartyComes(p) ==
  LET given == {pubs[listed[n]].track : n \in DOMAIN listed}
  IN  /\ Act /\ p \notin present
      /\ present' = present \cup {p}
      /\ sent' = [sent EXCEPT ![p] = given]
      /\ managed' = managed \cup {t \in given : kinds[t] # "microphone"}
      /\ tasks' = {[k EXCEPT !.seen = @ \ {p}] : k \in tasks}
      /\ races' = [races EXCEPT !.came = IF StandIn THEN @ \cup {p} ELSE @ \ {p}]
      /\ UNCHANGED <<mutedFlag, tracks, pubs, listed, share>>

\* handleRemoteLeave.
PartyLeaves(p) ==
  /\ Act /\ p \in present
  /\ present' = present \ {p}
  /\ sent' = [sent EXCEPT ![p] = {}]
  /\ UNCHANGED <<mutedFlag, tracks, publications, share, tasks, races>>

MediaNext ==
  \/ \E s \in Device : StartDevice(s)
  \/ \E s \in Device : StopDevice(s)
  \/ \E s \in Device : SetDevice(s)
  \/ \E s \in Device, m \in BOOLEAN : SetDeviceMuted(s, m)
  \/ StartShare
  \/ StopShare
  \/ \E k \in tasks : ApplyConstraints(k)
  \/ \E k \in tasks : Refuse(k)
  \/ \E k \in tasks : Acquire(k)
  \/ \E k \in tasks, p \in Party : PublishTo(k, p)
  \/ \E k \in tasks : List(k)
  \/ \E k \in tasks, p \in Party : Swap(k, p)
  \/ \E k \in tasks : Swapped(k)
  \/ \E k \in tasks, p \in Party : RemoveFrom(k, p)
  \/ \E k \in tasks : Removed(k)
  \/ \E k \in tasks : Announce(k)
  \/ \E k \in tasks : Restored(k)
  \/ \E t \in live : ScreenEnds(t)
  \/ \E p \in Party : PartyComes(p)
  \/ \E p \in Party : PartyLeaves(p)

MediaSpec == MediaInit /\ [][MediaNext]_mediaVars

-----------------------------------------------------------------------------
(* Properties.                                                             *)

NoneRuns == tasks = {}
Listed == {listed[n] : n \in DOMAIN listed}

\* A microphone or camera is muted when its flag says so: its publication is
\* marked and disabled, and no peer is sent a live enabled track of it but the
\* new one while a switch of device brings it in, and the old one while it is
\* withdrawn.  This fails only if the flag changed while a call that had read
\* it was still at work, or calls on the device overlapped.
MuteHonoured ==
  \A s \in Device \ (races.late \cup races.clash) :
    /\ \A i \in Listed : pubs[i].src = s =>
         pubs[i].muted = mutedFlag[s] /\ (pubs[i].track \in enabled) = ~mutedFlag[s]
    /\ mutedFlag[s] => \A p \in present : \A t \in sent[p] \cap live \cap enabled :
         kinds[t] = s =>
           \E k \in tasks : (k.at = "swap" /\ k.new = t) \/ (k.at = "remove" /\ k.old = t)

\* Nothing captures behind the user's back: when no call is under way each
\* live track is the one of a listed publication, or of the share, there is
\* one per device, and what is listed is live.  Only calls that overlapped on
\* one source leak a capture, and only a display capture that ended before it
\* was listened to is still shown as shared.
CaptureAccounted ==
  NoneRuns =>
    /\ \A t \in live : \/ kinds[t] \in races.clash
                       \/ \E i \in Listed : pubs[i].track = t
                       \/ screen.flag /\ screen.track = t
    /\ \A s \in Device \ races.clash :
         Cardinality({i \in Listed : pubs[i].src = s}) =< 1
    /\ \A i \in Listed : \/ pubs[i].track \in live
                         \/ pubs[i].src \in races.clash
                         \/ pubs[i].track \in races.gone
    /\ screen.flag => screen.track \in live \cup races.gone
                      \/ "screen" \in races.clash

\* What a peer is to be sent: the listed tracks, the display track in the
\* camera's place while it replaces it.
Wanted ==
  {IF screen.mode = "replace" /\ pubs[i].src = "camera" THEN screen.track
   ELSE pubs[i].track : i \in Listed}

\* When no call is under way every peer is sent what is published, the
\* camera again after a share, and was last told whether there is a share;
\* the exceptions are calls on camera and screen that overlapped, and a peer
\* that came while the share, or a new device, took a listed track's place.
PeersServed ==
  NoneRuns /\ ~races.overlap =>
    /\ \A p \in present \ races.came : sent[p] = Wanted
    /\ said = IF screen.flag THEN "start" ELSE "stop"

\* The quality controller manages the published video tracks and no others,
\* until a camera is switched to another device: the old track is never
\* detached and the new one never attached.
QualityFollows ==
  NoneRuns /\ ~races.swapped /\ ~races.overlap =>
    managed = {pubs[i].track : i \in {i \in Listed : pubs[i].src # "microphone"}}

=============================================================================
