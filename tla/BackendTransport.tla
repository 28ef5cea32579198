-------------------------- MODULE BackendTransport --------------------------
(***************************************************************************)
(* One BaseSignalingTransport (packages/transport/src/base.ts) with its    *)
(* stages, ICE coalescer, chunker and heartbeat, over the hooks of         *)
(* AppwriteBackend, which turns coalescing on by default.                  *)
(*                                                                         *)
(* The transport of p joins rooms 1, 2, ... one after the other.  A peer q *)
(* stays in room 1 and reassembles what it reads there.  A signal is a     *)
(* document of a room, which arrives in any order and, as other backends   *)
(* allow, more than once; presence is one document per room and user,      *)
(* created, touched by every beat and deleted on leave.  Hooks suspended   *)
(* at an await are `beat', `batch' and `sends'.                            *)
(***************************************************************************)
EXTENDS Integers, Sequences, FiniteSets

CONSTANTS
  MaxRooms,    \* bound: rooms p joins
  MaxMsgs,     \* bound: envelopes p emits
  MaxEvents,   \* bound: beats, leaves, repeated deliveries
  MaxItems,    \* IceCoalescerOptions.maxItems
  MaxGroups,   \* ChunkerOptions.maxGroups
  Parts        \* frames a large envelope is cut into

VARIABLES
  room,      \* BaseSignalingTransport.currentRoom, 0 for null
  joins,     \* rooms joined so far
  leaving,   \* leave() is at doLeave: "no", "unsubscribed", "deleted"
  online,    \* lastPresence is set and the heartbeat runs
  beat,      \* doSetPresence() suspended: the operation and its room
  ownDoc,    \* AppwriteBackend.ownPresenceDocId, as its room
  docs,      \* rooms that hold a presence document of p
  queue,     \* IceCoalescer.queue
  timer,     \* the coalescing window is open
  batch,     \* items of the flush under way, not sent yet
  flushing,  \* IceCoalescer.flushing
  sends,     \* chunked sends under way, with the next part of each
  msgs,      \* envelopes emitted so far, each [n, room, kind]
  wire,      \* signal documents not delivered yet
  groups,    \* ChunkAssembler.groups of q, oldest first
  shown,     \* envelopes q was handed
  evicted,   \* groups thrown out of q's assembler
  torn,      \* large envelopes whose send stopped or went to another room
  skipped,   \* a flush came while another one was under way
  overlap,   \* leave() overlapped a doSetPresence()
  events

presence == <<online, beat, ownDoc, docs>>
coalescer == <<queue, timer, batch, flushing, skipped>>
receiver == <<groups, shown, evicted>>
vars == <<room, joins, leaving, presence, coalescer, sends, msgs, wire, receiver,
          torn, overlap, events>>

NoBeat == [op |-> "none", room |-> 0]

Init ==
  /\ room = 0 /\ joins = 0 /\ leaving = "no"
  /\ online = FALSE /\ beat = NoBeat /\ ownDoc = 0 /\ docs = {}
  /\ queue = <<>> /\ timer = FALSE /\ batch = <<>> /\ flushing = FALSE
  /\ sends = {} /\ msgs = {} /\ wire = {}
  /\ groups = <<>> /\ shown = {} /\ evicted = {}
  /\ torn = {} /\ skipped = FALSE /\ overlap = FALSE /\ events = 0

Event == events < MaxEvents /\ events' = events + 1

-----------------------------------------------------------------------------
(* join(), setPresence() and leave().                                      *)

\* doSetPresence(): update the document we know of, else create one.
SetPresence(r) ==
  beat' = [op |-> IF ownDoc # 0 THEN "update" ELSE "create", room |-> r]

\* join(), and the Room's setPresence('online') that follows.
Join ==
  /\ room = 0 /\ joins < MaxRooms /\ beat = NoBeat
  /\ room' = joins + 1 /\ joins' = joins + 1
  /\ online' = TRUE /\ SetPresence(joins + 1)
  /\ UNCHANGED <<leaving, ownDoc, docs, coalescer, sends, msgs, wire, receiver,
                 torn, overlap, events>>

\* The heartbeat's interval (bound: not while its last call is suspended).
Beat ==
  /\ online /\ room # 0 /\ beat = NoBeat /\ Event
  /\ SetPresence(room)
  /\ overlap' = (overlap \/ leaving # "no")
  /\ UNCHANGED <<room, joins, leaving, online, ownDoc, docs, coalescer, sends,
                 msgs, wire, receiver, torn>>

\* updateDocument() answers: the document is touched; or it is gone, and
\* doSetPresence() runs again, which returns at once without a room.
BeatUpdated ==
  /\ beat.op = "update"
  /\ IF ownDoc \in docs
     THEN beat' = NoBeat /\ UNCHANGED ownDoc
     ELSE /\ ownDoc' = 0
          /\ beat' = IF room = 0 THEN NoBeat ELSE [op |-> "create", room |-> room]
  /\ UNCHANGED <<room, joins, leaving, online, docs, coalescer, sends, msgs, wire,
                 receiver, torn, overlap, events>>

\* createDocument() answers; the id is taken if the document exists.
BeatCreated ==
  /\ beat.op = "create" /\ beat' = NoBeat
  /\ docs' = docs \cup {beat.room}
  /\ ownDoc' = IF beat.room \in docs THEN ownDoc ELSE beat.room
  /\ UNCHANGED <<room, joins, leaving, online, coalescer, sends, msgs, wire,
                 receiver, torn, overlap, events>>

Leave ==
  /\ room # 0 /\ leaving = "no" /\ Event
  /\ leaving' = "unsubscribed"
  /\ overlap' = (overlap \/ beat # NoBeat)
  /\ UNCHANGED <<room, joins, presence, coalescer, sends, msgs, wire, receiver, torn>>

\* Faulty variant: the presence document stays.
LeaveDocKept ==
  /\ leaving = "unsubscribed" /\ leaving' = "deleted"
  /\ ownDoc' = 0
  /\ UNCHANGED <<room, joins, online, beat, docs, coalescer, sends, msgs, wire,
                 receiver, torn, overlap, events>>

\* doLeave() deletes the document it knows of, and waits for that.
LeaveDoc ==
  /\ leaving = "unsubscribed" /\ leaving' = "deleted"
  /\ docs' = docs \ {ownDoc} /\ ownDoc' = 0
  /\ UNCHANGED <<room, joins, online, beat, coalescer, sends, msgs, wire,
                 receiver, torn, overlap, events>>

\* Only then do the room and the heartbeat go; the coalescer is not told.
LeaveDone ==
  /\ leaving = "deleted" /\ leaving' = "no"
  /\ room' = 0 /\ online' = FALSE
  /\ UNCHANGED <<joins, beat, ownDoc, docs, coalescer, sends, msgs, wire,
                 receiver, torn, overlap, events>>

-----------------------------------------------------------------------------
(* The outbound stages.                                                    *)

Frame(m, i) == [msg |-> m, part |-> i, room |-> room]

\* flush(): nothing while another one is under way; the timer is not set again.
Flush(items, open) ==
  IF flushing \/ items = <<>>
  THEN /\ queue' = items /\ timer' = open
       /\ skipped' = (skipped \/ items # <<>>)
       /\ UNCHANGED <<batch, flushing>>
  ELSE /\ queue' = <<>> /\ timer' = FALSE /\ batch' = items /\ flushing' = TRUE
       /\ UNCHANGED skipped

\* push(): at maxItems flush, else make sure the window is open.
Push(m) ==
  LET items == Append(queue, m) IN
  IF Len(items) >= MaxItems THEN Flush(items, timer)
  ELSE /\ queue' = items /\ timer' = TRUE
       /\ UNCHANGED <<batch, flushing, skipped>>

\* emit(), for an envelope of the room the transport is in.  A candidate goes
\* to the coalescer, a large envelope in parts, one send after the other.
Emit(kind) ==
  LET m == [n |-> Cardinality(msgs) + 1, room |-> room, kind |-> kind] IN
  /\ room # 0 /\ Cardinality(msgs) < MaxMsgs
  /\ msgs' = msgs \cup {m}
  /\ IF kind = "ice" THEN Push(m) /\ UNCHANGED wire
     ELSE wire' = wire \cup {Frame(m, 1)} /\ UNCHANGED coalescer
  /\ sends' = IF kind = "large" THEN sends \cup {[msg |-> m, next |-> 2]} ELSE sends
  /\ UNCHANGED <<room, joins, leaving, presence, receiver, torn, overlap, events>>

\* The send of a part is back: the next one goes to the room p is in now; in
\* no room the hook throws, and emit() with it.
SendPart(s) ==
  /\ IF room = 0
     THEN sends' = sends \ {s} /\ UNCHANGED wire
     ELSE /\ wire' = wire \cup {Frame(s.msg, s.next)}
          /\ sends' = (sends \ {s}) \cup
               IF s.next = Parts THEN {} ELSE {[s EXCEPT !.next = @ + 1]}
  /\ torn' = IF room = s.msg.room THEN torn ELSE torn \cup {s.msg}
  /\ UNCHANGED <<room, joins, leaving, presence, coalescer, msgs, receiver,
                 overlap, events>>

TimerFires == timer /\ Flush(queue, FALSE)
  /\ UNCHANGED <<room, joins, leaving, presence, sends, msgs, wire, receiver, torn,
                 overlap, events>>

\* onFlush() sends one item after the other, in whatever room p is by now; if
\* the hook throws, the rest of the batch is lost.
SendItem ==
  /\ flushing
  /\ IF batch = <<>> THEN flushing' = FALSE /\ UNCHANGED <<batch, wire>>
     ELSE IF room = 0 THEN flushing' = FALSE /\ batch' = <<>> /\ UNCHANGED wire
     ELSE /\ wire' = wire \cup {Frame(Head(batch), 1)}
          /\ batch' = Tail(batch) /\ UNCHANGED flushing
  /\ UNCHANGED <<room, joins, leaving, presence, queue, timer, skipped, sends, msgs,
                 receiver, torn, overlap, events>>

-----------------------------------------------------------------------------
(* q: deliverFrame().                                                      *)

GroupOf(m) == {i \in DOMAIN groups : groups[i].msg = m}

Complete(parts) == Cardinality(parts) = Parts

\* ChunkAssembler.push(): a new group may push out the oldest one; a complete
\* group is handed over and forgotten.
PushPart(f) ==
  LET kept == SelectSeq(groups, LAMBDA g : g.msg # f.msg)
      opens == GroupOf(f.msg) = {}
      full == opens /\ Len(groups) >= MaxGroups
      rest == IF full THEN Tail(kept) ELSE kept
      parts == {f.part} \cup UNION {groups[i].parts : i \in GroupOf(f.msg)}
      added(g) == IF g.msg = f.msg THEN [g EXCEPT !.parts = parts] ELSE g
  IN /\ evicted' = IF full THEN evicted \cup {groups[1].msg} ELSE evicted
     /\ IF Complete(parts)
        THEN groups' = rest /\ shown' = shown \cup {f.msg}
        ELSE /\ groups' = IF opens THEN Append(rest, [msg |-> f.msg, parts |-> parts])
                          ELSE [i \in DOMAIN groups |-> added(groups[i])]
             /\ UNCHANGED shown

Deliver(f) ==
  /\ f.room = 1
  /\ \/ wire' = wire \ {f} /\ UNCHANGED events
     \/ Event /\ UNCHANGED wire
  /\ IF f.msg.kind = "large" THEN PushPart(f)
     ELSE shown' = shown \cup {f.msg} /\ UNCHANGED <<groups, evicted>>
  /\ UNCHANGED <<room, joins, leaving, presence, coalescer, sends, msgs, torn, overlap>>

Next ==
  \/ Join \/ Beat \/ BeatUpdated \/ BeatCreated \/ Leave \/ LeaveDoc \/ LeaveDone
  \/ TimerFires \/ SendItem
  \/ \E k \in {"ice", "small", "large"} : Emit(k)
  \/ \E s \in sends : SendPart(s)
  \/ \E f \in wire : Deliver(f)

Spec == Init /\ [][Next]_vars

-----------------------------------------------------------------------------
(* Properties.                                                             *)

\* A candidate is never lost while p stays in its room: it is queued, in the
\* batch under way, on record in that room or already with q.  And one that is
\* queued will be sent without another being pushed: the window is open or a
\* batch is under way, unless a flush once found another one under way.
CandidatesKept ==
  /\ \A m \in msgs : m.kind = "ice" /\ m.room = room
       => \/ m \in shown \/ \E i \in DOMAIN queue : queue[i] = m
          \/ \E i \in DOMAIN batch : batch[i] = m
          \/ \E f \in wire : f.msg = m /\ f.room = m.room
  /\ queue # <<>> => timer \/ flushing \/ skipped

\* q is handed a large envelope only when all its parts are on record, and once
\* nothing is in flight it has every large envelope that was sent out whole in
\* its room and never lost its place in the assembler.
Reassembled ==
  /\ \A m \in shown : m.kind = "large"
       => ~\E s \in sends : s.msg = m
  /\ (sends = {} /\ \A f \in wire : f.room # 1)
       => \A m \in msgs : m.kind = "large" /\ m.room = 1
            => m \in shown \/ m \in evicted \/ m \in torn

\* Once p has left and nothing is pending, no room shows it present, unless a
\* heartbeat overlapped the leave.
PresenceGone ==
  room = 0 /\ beat = NoBeat /\ ~overlap => docs = {}
=============================================================================
