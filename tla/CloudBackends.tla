----------------------------- MODULE CloudBackends -----------------------------
(***************************************************************************)
(* The signaling adapters over a service: SqliteBackend, PostgresBackend,  *)
(* FirebaseBackend, ConvexBackend and SupabaseBackend, as hooks of one     *)
(* BaseSignalingTransport.  p joins a room, shows its presence, beats,     *)
(* sends frames, leaves, disposes of its transport or crashes; q joins and *)
(* leaves the room at any time and keeps what it is handed.                *)
(*                                                                         *)
(* `kind' is the adapter of a behaviour.  A statement whose answer is      *)
(* awaited takes effect when it is issued: one connection carries them in  *)
(* that order.  Services keep the order of one writer, except Supabase's   *)
(* broadcasts.                                                             *)
(***************************************************************************)
EXTENDS Integers, Sequences, FiniteSets, SequencesExt

CONSTANTS
  Kind,       \* adapters explored
  Cap,        \* seenSignalIds never holds more (4096 in the code)
  Shed,       \* ids forgotten when it would (1024 in the code)
  MaxFrames,  \* bound: frames p sends
  MaxEvents   \* bound: joins, beats, leaves, crashes, lost connections

VARIABLES
  kind,     \* the adapter
  pst,      \* p: "out", "joining", "in", "leaving", "crashed", "disposed"
  step,     \* statements of doLeave() issued
  beat,     \* doSetPresence() has this to do after its await, or "none"
  set,      \* lastPresence is set
  row,      \* presence of p held by the service
  hook,     \* an onDisconnect update of p's row is armed
  sync,     \* a presence-sync request is on its way to p
  qst,      \* q: "out", "listening" (not attached yet), "attached", "in"
  pres,     \* presence messages and snapshots on their way to q
  view,     \* what q was told of p
  seen,     \* seenPresence of q has p
  touched,  \* the sweeper of q knows p
  sent,     \* frames p sent
  frames,   \* frames on their way to q
  ids,      \* ConvexBackend.seenSignalIds of q
  got,      \* frames q was handed since it joined
  from,     \* the first frame q is owed
  overlap,  \* a beat overlapped p's last leave or dispose
  blinked,  \* p's connection was lost since the last beat
  events

pvars == <<pst, step, beat, set>>
service == <<row, hook, sync, pres>>
qview == <<view, seen, touched>>
signals == <<sent, frames, ids, got, from>>
vars == <<kind, pvars, service, qst, qview, signals, overlap, blinked, events>>

Logged == kind \in {"firebase", "convex"}

Init ==
  /\ kind \in Kind
  /\ pst = "out" /\ step = 0 /\ beat = "none" /\ set = FALSE
  /\ row = "none" /\ hook = FALSE /\ sync = FALSE
  /\ qst = "out" /\ pres = <<>> /\ view = "none" /\ seen = FALSE /\ touched = FALSE
  /\ sent = 0 /\ frames = <<>> /\ ids = <<>> /\ got = <<>> /\ from = 1
  /\ overlap = FALSE /\ blinked = FALSE /\ events = 0

Event == events < MaxEvents /\ events' = events + 1

\* What is published goes to those who listen.
Post(v) == pres' = IF qst = "out" THEN pres ELSE Append(pres, v)
Write(v) == row' = v /\ Post(v)

-----------------------------------------------------------------------------
(* p: join(), setPresence() and the heartbeat.                             *)

Join ==
  /\ pst = "out" /\ Event
  /\ IF kind = "firebase" THEN pst' = "joining" /\ Write("online")
     ELSE pst' = "in" /\ UNCHANGED <<row, pres>>
  /\ overlap' = FALSE /\ blinked' = FALSE
  /\ UNCHANGED <<kind, step, beat, set, hook, sync, qst, qview, signals>>

\* FirebaseBackend: the row is set, now the hook.
JoinArmed ==
  /\ pst = "joining" /\ pst' = "in" /\ hook' = TRUE
  /\ UNCHANGED <<kind, step, beat, set, row, sync, pres, qst, qview, signals,
                 overlap, blinked, events>>

SqlitePresence == kind = "sqlite" /\ beat' = "none" /\ UNCHANGED row
  /\ IF pst = "in" THEN Post("online") ELSE UNCHANGED pres
PostgresPresence == kind = "postgres" /\ row' = "online" /\ beat' = "notify" /\ UNCHANGED pres
FirebasePresence == kind = "firebase" /\ Write("online") /\ beat' = "arm"
ConvexPresence == kind = "convex" /\ Write("online") /\ beat' = "none"
SupabasePresence == kind = "supabase" /\ beat' = "none"
  /\ IF pst = "in" THEN Write("online") ELSE UNCHANGED <<row, pres>>

DoSetPresence ==
  \/ SqlitePresence \/ PostgresPresence \/ FirebasePresence \/ ConvexPresence
  \/ SupabasePresence

\* The Room's setPresence('online') after join(), and the heartbeat, which
\* runs until leave() is through (bound: one call at a time).
Beat ==
  /\ beat = "none"
  /\ \/ pst = "in" /\ ~set /\ UNCHANGED events
     \/ pst \in {"in", "leaving"} /\ set /\ Event
  /\ set' = TRUE /\ blinked' = FALSE /\ DoSetPresence
  /\ overlap' = (overlap \/ pst = "leaving")
  /\ UNCHANGED <<kind, pst, step, hook, sync, qst, qview, signals>>

\* The first statement is answered: NOTIFY, or arm the hook again.
BeatGoesOn ==
  /\ beat # "none" /\ beat' = "none"
  /\ IF beat = "notify" THEN Post("online") /\ UNCHANGED hook
     ELSE hook' = TRUE /\ UNCHANGED pres
  /\ UNCHANGED <<kind, pst, step, set, row, sync, qst, qview, signals, overlap,
                 blinked, events>>

-----------------------------------------------------------------------------
(* p: leave(), dispose(), and what it does not get to do.                  *)

Leave ==
  /\ pst = "in" /\ Event
  /\ pst' = "leaving" /\ step' = 0 /\ overlap' = (beat # "none")
  /\ UNCHANGED <<kind, beat, set, service, qst, qview, signals, blinked>>

LeaveStep(k, n) == kind = k /\ pst = "leaving" /\ step = n /\ step' = n + 1

\* Posts the last frame, closes the channel.
SqliteLeave == LeaveStep("sqlite", 0) /\ Post("offline") /\ UNCHANGED <<row, hook>>

\* Faulty variant: nobody is told.
PostgresLeaveSilent ==
  \/ LeaveStep("postgres", 0) /\ UNCHANGED <<row, pres, hook>>
  \/ LeaveStep("postgres", 1) /\ row' = "none" /\ UNCHANGED <<pres, hook>>
  \/ LeaveStep("postgres", 2) /\ UNCHANGED <<row, pres, hook>>

\* UNLISTEN, DELETE, NOTIFY.
PostgresLeave ==
  \/ LeaveStep("postgres", 0) /\ UNCHANGED <<row, pres, hook>>
  \/ LeaveStep("postgres", 1) /\ row' = "none" /\ UNCHANGED <<pres, hook>>
  \/ LeaveStep("postgres", 2) /\ Post("offline") /\ UNCHANGED <<row, hook>>

FirebaseLeave ==
  \/ LeaveStep("firebase", 0) /\ hook' = FALSE /\ UNCHANGED <<row, pres>>
  \/ LeaveStep("firebase", 1) /\ Write("none") /\ UNCHANGED hook

ConvexLeave == LeaveStep("convex", 0) /\ Write("none") /\ UNCHANGED hook

\* unsubscribe() ends the presence; untrack() comes too late to matter.
SupabaseLeave == LeaveStep("supabase", 0) /\ Write("none") /\ UNCHANGED hook

DoLeave ==
  /\ SqliteLeave \/ PostgresLeave \/ FirebaseLeave \/ ConvexLeave \/ SupabaseLeave
  /\ UNCHANGED <<kind, pst, beat, set, sync, qst, qview, signals, overlap, blinked,
                 events>>

LastStep == [sqlite |-> 1, postgres |-> 3, firebase |-> 2, convex |-> 1, supabase |-> 1]

LeaveDone ==
  /\ pst = "leaving" /\ step = LastStep[kind]
  /\ pst' = "out" /\ set' = FALSE
  /\ UNCHANGED <<kind, step, beat, service, qst, qview, signals, overlap, blinked, events>>

FirebaseDispose == kind = "firebase" /\ hook' = FALSE /\ Write("none")
SupabaseDispose == kind = "supabase" /\ UNCHANGED hook
  /\ IF pst = "in" THEN Write("none") ELSE UNCHANGED <<row, pres>>
OtherDispose == kind \in {"sqlite", "postgres", "convex"} /\ UNCHANGED <<row, hook, pres>>

\* dispose() stops the heartbeat first; only two adapters take the presence back.
Dispose ==
  /\ pst \in {"in", "out"} /\ Event /\ pst' = "disposed"
  /\ FirebaseDispose \/ SupabaseDispose \/ OtherDispose
  /\ overlap' = (beat # "none" \/ (pst = "out" /\ overlap))
  /\ UNCHANGED <<kind, step, beat, set, sync, qst, qview, signals, blinked>>

Crash ==
  /\ pst \in {"joining", "in", "leaving"} /\ Event
  /\ pst' = "crashed" /\ beat' = "none"
  /\ UNCHANGED <<kind, step, set, service, qst, qview, signals, overlap, blinked>>

\* The service notices a lost connection: Firebase runs the hook, at most once,
\* Supabase ends the presence.  A connection of Firebase may also come back.
Noticed ==
  /\ \/ kind = "firebase" /\ hook /\ hook' = FALSE /\ Write("offline")
     \/ kind = "supabase" /\ pst = "crashed" /\ row = "online" /\ Write("none")
        /\ UNCHANGED hook
  /\ \/ pst = "crashed" /\ UNCHANGED <<blinked, events>>
     \/ pst \in {"in", "out"} /\ kind = "firebase" /\ Event /\ blinked' = TRUE
  /\ UNCHANGED <<kind, pvars, sync, qst, qview, signals, overlap>>

-----------------------------------------------------------------------------
(* q: join(), leave() and presence.                                        *)

SqliteJoin == kind = "sqlite" /\ qst' = "in"
  /\ pres' = <<>> /\ frames' = <<>> /\ sync' = (pst = "in")
PostgresJoin == kind = "postgres" /\ qst' = "listening"
  /\ pres' = <<>> /\ frames' = <<>> /\ UNCHANGED sync
FirebaseJoin == kind = "firebase" /\ qst' = "in"
  /\ pres' = <<row>> /\ frames' = [i \in 1..sent |-> i] /\ UNCHANGED sync
ConvexJoin == kind = "convex" /\ qst' = "in"
  /\ pres' = <<row>> /\ frames' = <<>> /\ UNCHANGED sync
SupabaseJoin == kind = "supabase" /\ qst' = "in"
  /\ pres' = (IF row = "online" THEN <<row>> ELSE <<>>) /\ frames' = <<>> /\ UNCHANGED sync

\* onUpdate(), onValue() and onChildAdded() start from what there is, a channel
\* from now on.
QJoin ==
  /\ qst = "out" /\ Event
  /\ SqliteJoin \/ PostgresJoin \/ FirebaseJoin \/ ConvexJoin \/ SupabaseJoin
  /\ from' = (IF Logged THEN 1 ELSE sent + 1) /\ ids' = <<>> /\ got' = <<>>
  /\ UNCHANGED <<kind, pvars, row, hook, qview, sent, overlap, blinked>>

\* PostgresBackend: what came between LISTEN and the handler is lost.
QAttach ==
  /\ qst = "listening" /\ qst' = "attached"
  /\ pres' = <<>> /\ frames' = <<>> /\ from' = sent + 1
  /\ UNCHANGED <<kind, pvars, row, hook, sync, qview, sent, ids, got, overlap,
                 blinked, events>>

\* The presence table stands in for the replay NOTIFY does not have.
QReplay ==
  /\ qst = "attached" /\ qst' = "in"
  /\ pres' = IF row = "online" THEN Append(pres, "online") ELSE pres
  /\ UNCHANGED <<kind, pvars, row, hook, sync, qview, signals, overlap, blinked, events>>

QLeave ==
  /\ qst = "in" /\ Event /\ qst' = "out"
  /\ pres' = <<>> /\ frames' = <<>> /\ sync' = FALSE
  /\ view' = "none" /\ seen' = FALSE /\ touched' = FALSE
  /\ UNCHANGED <<kind, pvars, row, hook, sent, ids, got, from, overlap, blinked>>

\* p answers a presence-sync request with what it shows.
Answers == pst = "in" /\ set

Sync ==
  /\ sync /\ sync' = FALSE
  /\ IF Answers THEN Post("online") ELSE UNCHANGED pres
  /\ UNCHANGED <<kind, pvars, row, hook, qst, qview, signals, overlap, blinked, events>>

Told(v) == view' = v /\ touched' = TRUE /\ UNCHANGED seen

SqliteTold(v) == kind = "sqlite" /\ Told(v)
PostgresTold(v) == kind = "postgres" /\ Told(v)

\* A snapshot is compared with the last one: a row that went is an offline.
RowTold(v) ==
  IF v # "none" THEN view' = v /\ touched' = TRUE /\ seen' = TRUE
  ELSE view' = (IF seen THEN "offline" ELSE view) /\ seen' = FALSE /\ UNCHANGED touched
FirebaseTold(v) == kind = "firebase" /\ RowTold(v)
ConvexTold(v) == kind = "convex" /\ RowTold(v)

\* The sweeper is never told.
SupabaseTold(v) == kind = "supabase" /\ UNCHANGED <<seen, touched>>
  /\ view' = IF v = "none" THEN "offline" ELSE v

QPresence ==
  /\ qst \in {"attached", "in"} /\ pres # <<>> /\ pres' = Tail(pres)
  /\ LET v == Head(pres) IN
       SqliteTold(v) \/ PostgresTold(v) \/ FirebaseTold(v) \/ ConvexTold(v) \/ SupabaseTold(v)
  /\ UNCHANGED <<kind, pvars, row, hook, sync, qst, signals, overlap, blinked, events>>

Silent == pst \in {"out", "crashed", "disposed"} /\ beat = "none" /\ pres = <<>> /\ ~sync

\* PresenceSweeper: beats of one who is there arrive within the timeout.
Sweep ==
  /\ touched /\ Silent /\ touched' = FALSE /\ view' = "offline"
  /\ UNCHANGED <<kind, pvars, service, qst, seen, signals, overlap, blinked, events>>

-----------------------------------------------------------------------------
(* Frames.                                                                 *)

\* A frame goes to those who listen; a row of Convex stays in the table.
Live(k) == kind = k /\ frames' = IF qst = "out" THEN frames ELSE Append(frames, sent + 1)
SqliteSend == Live("sqlite")
PostgresSend == Live("postgres")
FirebaseSend == Live("firebase")
SupabaseSend == Live("supabase")
ConvexSend == kind = "convex" /\ UNCHANGED frames

Send ==
  /\ pst = "in" /\ sent < MaxFrames /\ sent' = sent + 1
  /\ SqliteSend \/ PostgresSend \/ FirebaseSend \/ SupabaseSend \/ ConvexSend
  /\ UNCHANGED <<kind, pvars, service, qst, qview, ids, got, from, overlap, blinked, events>>

\* A frame arrives; Supabase has no order across broadcasts.
QFrame(i) ==
  /\ qst \in {"attached", "in"} /\ i \in DOMAIN frames
  /\ i = 1 \/ kind = "supabase"
  /\ got' = Append(got, frames[i]) /\ frames' = RemoveAt(frames, i)
  /\ UNCHANGED <<kind, pvars, service, qst, qview, sent, ids, from, overlap, blinked, events>>

\* The ids q has seen, the oldest of them forgotten at the cap.
Remembered(s, n) ==
  LET more == Append(s, n) IN
  IF Len(more) > Cap THEN SubSeq(more, Shed + 1, Len(more)) ELSE more

\* The rows of n frames in the order of their ids.
Sorted(n) == [i \in 1..n |-> i]

\* handleSignals(): the whole table comes on every change, in id order.
QRows ==
  LET hand(st, n) ==
        IF \E i \in DOMAIN st.ids : st.ids[i] = n THEN st
        ELSE [ids |-> Remembered(st.ids, n), got |-> Append(st.got, n)]
      res == FoldLeft(hand, [ids |-> ids, got |-> got], Sorted(sent))
  IN /\ kind = "convex" /\ qst = "in"
     /\ sent > 0 /\ ~(got # <<>> /\ Last(got) = sent)
     /\ ids' = res.ids /\ got' = res.got
     /\ UNCHANGED <<kind, pvars, service, qst, qview, sent, frames, from, overlap,
                    blinked, events>>

Next ==
  \/ Join \/ JoinArmed \/ Beat \/ BeatGoesOn \/ Leave \/ DoLeave \/ LeaveDone
  \/ Dispose \/ Crash \/ Noticed
  \/ QJoin \/ QAttach \/ QReplay \/ QLeave \/ Sync \/ QPresence \/ Sweep
  \/ Send \/ QRows \/ \E i \in DOMAIN frames : QFrame(i)

Spec == Init /\ [][Next]_vars

-----------------------------------------------------------------------------
(* Properties.                                                             *)

\* Once messages are through, p is shown online if it is there and shows its
\* presence, unless the service took it for gone since its last beat; and when
\* it is gone, it is shown online only as long as the sweeper of q, or a
\* service that has not noticed yet, will still correct that, which neither
\* needs to after a leave that no beat overlapped.
ShownAsIs ==
  qst = "in" /\ pres = <<>> /\ ~sync /\ beat = "none"
    => /\ pst = "in" /\ set /\ ~blinked => view = "online"
       /\ pst \in {"out", "crashed", "disposed"} /\ view = "online"
            => touched \/ (kind = "supabase" /\ pst = "crashed" /\ row = "online")
       /\ pst = "out" /\ ~overlap => view # "online"

\* q is handed the frames it is owed, all of them once nothing is in flight,
\* each new one right after the one before it where the adapter calls the
\* order guaranteed; and none twice before the table outgrew the ids q keeps.
FramesHanded ==
  LET before(i) == {got[j] : j \in 1..(i - 1)}
      next(i) == CHOOSE n \in from..(sent + 1) :
                   n \notin before(i) /\ \A m \in from..(n - 1) : m \in before(i)
  IN /\ \A i \in DOMAIN got :
          IF got[i] \in before(i) THEN kind = "convex" /\ sent > Cap
          ELSE kind = "supabase" \/ got[i] = next(i)
     /\ qst = "in" /\ frames = <<>> /\ (kind = "convex" => got # <<>> /\ Last(got) = sent)
          => \A n \in from..sent : \E i \in DOMAIN got : got[i] = n
=============================================================================
