-------------------------- MODULE RoomServerProofs --------------------------
(***************************************************************************)
(* Theorems about packages/server/src/core.ts and ws.ts, for every set of  *)
(* participants, connections and concurrent requests.                      *)
(***************************************************************************)
EXTENDS RoomServer, FiniteSetTheorems, TLAPS

\* The places where a handler holds the room row it read, those the close handler of a
\* socket passes through, and those where it has its participant's row.
RowPcs == {"joinSeen", "joinCount", "joinPut", "joinTouch", "leaveSeen",
           "leaveDelete", "leaveTouch", "roomWrite", "kickSeen", "kickDelete",
           "kickTouch"}
SeenPcs == {"leave", "leaveSeen", "leaveDelete", "leaveTouch", "log", "relay"}
DropPcs == {"idle", "leaveRead"} \cup SeenPcs

JoinOps == {"wsJoin", "restJoin"}
SignalOps == {"signal", "joinSignal", "leaveSignal"}
LeaveOps == {"wsLeave", "restLeave", "drop"}
JoinPcs == {"join", "joinSeen", "joinCount", "joinPut", "joinTouch", "joinList"}
LeavePcs == {"leaveRead", "leave", "leaveSeen", "leaveDelete", "leaveTouch"}
KickPcs == {"kick", "kickSeen", "kickDelete", "kickTouch"}

\* The steps an operation takes.
OpFits(pc, op) ==
    /\ pc = "policy" => op = "wsJoin"
    /\ pc \in JoinPcs => op \in JoinOps
    /\ pc = "signal" => op \in {"wsJoin"} \cup SignalOps
    /\ pc = "refresh" => op = "signal"
    /\ pc \in {"log", "relay"} => op \in {"wsJoin"} \cup SignalOps \cup LeaveOps
    /\ pc \in LeavePcs => op \in LeaveOps
    /\ pc \in {"roomRead", "roomWrite"} => op \in {"closeRoom", "lock", "unlock"}
    /\ pc \in KickPcs => op \in {"kick", "ban"}

\* What a handler in progress knows.
TaskOK(h, r) ==
    /\ r.pc # "idle" => r.pid \in Pid
    /\ r.pc \in RowPcs => r.row \in Row
    /\ OpFits(r.pc, r.op)
    /\ h \in Sock => r.pc \in DropPcs /\ (r.pc # "idle" => r.op = "drop")
    /\ r.pc # "idle" /\ r.op = "drop" => h \in Sock /\ r.sock = h
    /\ r.pc # "idle" /\ r.op \in {"wsJoin", "wsLeave"} => r.sock \in Sock
    /\ r.pc \in SeenPcs /\ r.op = "drop" => r.seen # None
    /\ r.pc = "refresh" => r.seen # None

TaskInv == \A h \in Handler : TaskOK(h, task[h])
IInv == TypeOK /\ TaskInv

USE ServerAssumption DEF Handler, At

LEMMA TaskFields ==
  ASSUME NEW r \in Task
  PROVE  /\ r.pc \in Pc /\ r.op \in AllOps \cup {"drop", None}
         /\ r.pid \in Pid \cup {None} /\ r.sock \in Sock \cup {None}
         /\ r.to \in Pid \cup {None}
         /\ r.row \in Row \cup {None} /\ r.seen \in Session \cup {None}
         /\ r.list \in SUBSET Pid /\ r.seq \in Nat
         /\ r = [pc |-> r.pc, op |-> r.op, pid |-> r.pid, sock |-> r.sock,
                 to |-> r.to, row |-> r.row, seen |-> r.seen, list |-> r.list, seq |-> r.seq]
BY DEF Task

LEMMA TaskUpdate ==
  ASSUME IInv, NEW h \in Handler, NEW r \in Task, TaskOK(h, r),
         task' = [task EXCEPT ![h] = r]
  PROVE  task' \in [Handler -> Task] /\ TaskInv'
<1>1. task \in [Handler -> Task]
  BY DEF IInv, TypeOK
<1>2. task' \in [Handler -> Task] /\ task'[h] = r
  BY <1>1
<1>3. ASSUME NEW k \in Handler PROVE TaskOK(k, task'[k])
  BY <1>1, <1>2 DEF IInv, TaskInv
<1>4. QED
  BY <1>2, <1>3 DEF TaskInv

LEMMA GotoStep ==
  ASSUME IInv, NEW h \in Handler, NEW pc \in Pc, Goto(h, pc), task[h].pc # "idle",
         pc \in RowPcs => task[h].row \in Row,
         OpFits(pc, task[h].op), pc # "refresh",
         h \in Sock => pc \in DropPcs,
         task[h].op = "drop" => task[h].seen # None
  PROVE  task' \in [Handler -> Task] /\ TaskInv'
<1> DEFINE r == [task[h] EXCEPT !.pc = pc]
<1>1. task[h] \in Task /\ TaskOK(h, task[h])
  BY DEF IInv, TypeOK, TaskInv
<1>2. r \in Task
  BY <1>1 DEF Task
<1>3. TaskOK(h, r)
  BY <1>1 DEF TaskOK, Task
<1>4. task' = [task EXCEPT ![h] = r]
  BY DEF Goto
<1>5. QED
  BY <1>2, <1>3, <1>4, TaskUpdate

LEMMA DoneStep ==
  ASSUME IInv, NEW h \in Handler, Done(h)
  PROVE  task' \in [Handler -> Task] /\ TaskInv'
<1>1. Idle \in Task
  BY DEF Idle, Task, Pc
<1>2. TaskOK(h, Idle)
  BY DEF TaskOK, Idle, RowPcs, DropPcs, SeenPcs, OpFits, JoinPcs, LeavePcs, KickPcs
<1>3. QED
  BY <1>1, <1>2, TaskUpdate DEF Done

\* A handler that has read the room row goes on at pc.
LEMMA ReadRowStep ==
  ASSUME IInv, NEW h \in Handler, NEW pc \in Pc, task[h].pc # "idle",
         task' = [task EXCEPT ![h].pc = pc, ![h].row = room],
         OpFits(pc, task[h].op), pc # "refresh",
         h \in Sock => pc \in DropPcs,
         task[h].op = "drop" => task[h].seen # None
  PROVE  task' \in [Handler -> Task] /\ TaskInv'
<1> DEFINE r == [task[h] EXCEPT !.pc = pc, !.row = room]
<1>1. task[h] \in Task /\ TaskOK(h, task[h]) /\ room \in Row
  BY DEF IInv, TypeOK, TaskInv
<1>2. r \in Task
  BY <1>1 DEF Task
<1>3. TaskOK(h, r)
  BY <1>1 DEF TaskOK, Task
<1>4. task' = [task EXCEPT ![h] = r]
  BY <1>1 DEF IInv, TypeOK, Task
<1>5. QED
  BY <1>2, <1>3, <1>4, TaskUpdate

\* A handler that has read its participant's row goes on at pc.
LEMMA ReadSeenStep ==
  ASSUME IInv, NEW h \in Handler, NEW pc \in Pc \ RowPcs, task[h].pc # "idle",
         task' = [task EXCEPT ![h].pc = pc, ![h].seen = roster[task[h].pid]],
         OpFits(pc, task[h].op), h \in Sock => pc \in DropPcs,
         task[h].op = "drop" \/ pc = "refresh" => roster[task[h].pid] # None
  PROVE  task' \in [Handler -> Task] /\ TaskInv'
<1> DEFINE r == [task[h] EXCEPT !.pc = pc, !.seen = roster[task[h].pid]]
<1>1. task[h] \in Task /\ TaskOK(h, task[h])
  BY DEF IInv, TypeOK, TaskInv
<1>2. roster[task[h].pid] \in Session \cup {None}
  BY <1>1 DEF IInv, TypeOK, TaskOK
<1>3. r \in Task
  BY <1>1, <1>2 DEF Task
<1>4. TaskOK(h, r)
  BY <1>1 DEF TaskOK, Task
<1>5. task' = [task EXCEPT ![h] = r]
  BY <1>1 DEF IInv, TypeOK, Task
<1>6. QED
  BY <1>3, <1>4, <1>5, TaskUpdate

\* A handler that has listed the participants goes on at pc.
LEMMA ReadListStep ==
  ASSUME IInv, NEW h \in Handler, NEW pc \in Pc \ RowPcs, task[h].pc # "idle",
         task' = [task EXCEPT ![h].pc = pc, ![h].list = Members],
         OpFits(pc, task[h].op), pc # "refresh",
         h \in Sock => pc \in DropPcs,
         task[h].op = "drop" => task[h].seen # None
  PROVE  task' \in [Handler -> Task] /\ TaskInv'
<1> DEFINE r == [task[h] EXCEPT !.pc = pc, !.list = Members]
<1>1. task[h] \in Task /\ TaskOK(h, task[h])
  BY DEF IInv, TypeOK, TaskInv
<1>2. Members \in SUBSET Pid
  BY DEF Members
<1>3. r \in Task
  BY <1>1, <1>2 DEF Task
<1>4. TaskOK(h, r)
  BY <1>1 DEF TaskOK, Task
<1>5. task' = [task EXCEPT ![h] = r]
  BY <1>1 DEF IInv, TypeOK, Task
<1>6. QED
  BY <1>3, <1>4, <1>5, TaskUpdate

\* A handler whose signal has been stored goes on at pc.
LEMMA PutStep ==
  ASSUME IInv, NEW h \in Handler, NEW pc \in Pc \ RowPcs, task[h].pc # "idle",
         task' = [task EXCEPT ![h].pc = pc, ![h].seq = Len(log) + 1],
         OpFits(pc, task[h].op), pc # "refresh",
         h \in Sock => pc \in DropPcs,
         task[h].op = "drop" => task[h].seen # None
  PROVE  task' \in [Handler -> Task] /\ TaskInv'
<1> DEFINE r == [task[h] EXCEPT !.pc = pc, !.seq = Len(log) + 1]
<1>1. task[h] \in Task /\ TaskOK(h, task[h])
  BY DEF IInv, TypeOK, TaskInv
<1>2. Len(log) + 1 \in Nat
  BY DEF IInv, TypeOK
<1>3. r \in Task
  BY <1>1, <1>2 DEF Task
<1>4. TaskOK(h, r)
  BY <1>1 DEF TaskOK, Task
<1>5. task' = [task EXCEPT ![h] = r]
  BY <1>1 DEF IInv, TypeOK, Task
<1>6. QED
  BY <1>3, <1>4, <1>5, TaskUpdate

LEMMA InitOK == Init => IInv
<1> SUFFICES ASSUME Init PROVE IInv
  OBVIOUS
<1>1. Idle \in Task
  BY DEF Idle, Task, Pc
<1>2. TypeOK
  BY <1>1 DEF Init, TypeOK, Row
<1>3. TaskInv
  BY DEF Init, TaskInv, TaskOK, Idle, RowPcs, DropPcs, SeenPcs, OpFits, JoinPcs, LeavePcs, KickPcs
<1>4. QED
  BY <1>2, <1>3 DEF IInv

\* Broadcasts keep the types of what the sockets have been sent.
LEMMA BroadcastTypes ==
  ASSUME TypeOK, NEW to, NEW p \in Pid, NEW n \in Nat
  PROVE  /\ TellJoin(to, p) => told' \in [Sock -> SUBSET Pid]
         /\ TellLeave(to, p) => told' \in [Sock -> SUBSET Pid]
         /\ Relayed(to, n) => got' \in [Sock -> SUBSET Nat]
<1>1. TellJoin(to, p) => told' \in [Sock -> SUBSET Pid]
  BY DEF TypeOK, TellJoin
<1>2. TellLeave(to, p) => told' \in [Sock -> SUBSET Pid]
  BY DEF TypeOK, TellLeave
<1>3. Relayed(to, n) => got' \in [Sock -> SUBSET Nat]
  BY DEF TypeOK, Relayed
<1>4. QED
  BY <1>1, <1>2, <1>3

LEMMA ArrivalsOK ==
  ASSUME IInv,
         \/ \E w \in Worker, op \in Ops, p \in Pid, s \in Sock \cup {None},
                   to \in Pid \cup {None} : Request(w, op, p, s, to)
         \/ \E s \in Sock : Drop(s)
  PROVE  IInv'
<1>1. CASE \E w \in Worker, op \in Ops, p \in Pid, s \in Sock \cup {None},
                   to \in Pid \cup {None} : Request(w, op, p, s, to)
  <2>1. PICK w \in Worker, op \in Ops, p \in Pid, s \in Sock \cup {None},
                   to \in Pid \cup {None} : Request(w, op, p, s, to)
    BY <1>1
  <2> DEFINE r == [Start(op, FirstStep[op], p, s) EXCEPT !.to = to]
  <2>2. op \in AllOps
    BY DEF AllOps
  <2>3. /\ FirstStep[op] \in Pc \ RowPcs
        /\ OpFits(FirstStep[op], op) /\ op # "drop" /\ FirstStep[op] # "refresh"
    BY <2>2 DEF FirstStep, AllOps, Pc, RowPcs, OpFits, JoinPcs, LeavePcs, KickPcs, JoinOps,
                SignalOps, LeaveOps
  <2>4. r \in Task
    BY <2>2, <2>3 DEF Start, Idle, Task
  <2>5. TaskOK(w, r)
    <3>1. op \in {"wsJoin", "wsLeave"} => s \in Sock
      BY <2>1 DEF Request, Sendable, IInv, TypeOK
    <3>2. /\ r.pc = FirstStep[op] /\ r.op = op /\ r.sock = s /\ r.pid = p
      BY DEF Start, Idle
    <3> HIDE DEF r
    <3> QED
      BY <2>3, <3>1, <3>2 DEF TaskOK
  <2>6. task' \in [Handler -> Task] /\ TaskInv'
    BY <2>1, <2>4, <2>5, TaskUpdate DEF Request
  <2>7. calls' \in 0..MaxCalls
    BY <2>1 DEF Request, IInv, TypeOK
  <2>8. QED
    BY <2>1, <2>6, <2>7 DEF Request, IInv, TypeOK, store, policy, relay, doubts
<1>2. CASE \E s \in Sock : Drop(s)
  <2>1. PICK s \in Sock : Drop(s)
    BY <1>2
  <2>2. task' \in [Handler -> Task] /\ TaskInv'
    <3>1. CASE hub[s] = None
      BY <2>1, <3>1 DEF Drop, IInv, TypeOK, TaskInv
    <3>2. CASE hub[s] # None
      <4> DEFINE r == Start("drop", "leaveRead", hub[s].pid, s)
      <4>1. hub[s].pid \in Pid
        BY <3>2 DEF IInv, TypeOK
      <4>2. r \in Task
        BY <4>1 DEF Start, Idle, Task, Pc
      <4>3. TaskOK(s, r)
        BY <4>1 DEF Start, Idle, TaskOK, RowPcs, DropPcs, SeenPcs, OpFits, JoinPcs, LeavePcs, KickPcs,
                    LeaveOps
      <4>4. QED
        BY <2>1, <3>2, <4>2, <4>3, TaskUpdate DEF Drop
    <3>3. QED
      BY <3>1, <3>2
  <2>3. QED
    BY <2>1, <2>2 DEF Drop, IInv, TypeOK, store, policy, doubts, Stranded
<1>3. QED
  BY <1>1, <1>2

\* Every step of a join keeps the invariant.
LEMMA JoinOK ==
  ASSUME IInv, NEW h \in Handler, JoinStep(h)
  PROVE  IInv'
<1>1. task[h] \in Task /\ TaskOK(h, task[h])
  BY DEF IInv, TypeOK, TaskInv
<1>2. CASE JoinPolicy(h)
  <2>1. task[h].pc # "idle" /\ task[h].pid \in Pid /\ h \notin Sock
    BY <1>1, <1>2 DEF JoinPolicy, TaskOK, DropPcs, SeenPcs
  <2>2. "join" \in Pc \ RowPcs
    BY DEF Pc, RowPcs, DropPcs, SeenPcs
  <2>3. OpFits("join", task[h].op)
    BY <1>1, <1>2 DEF JoinPolicy, TaskOK, OpFits, JoinPcs, LeavePcs, KickPcs, JoinOps, SignalOps, LeaveOps
  <2>4. task[h].op = "drop" => task[h].seen # None
    BY <1>1, <1>2 DEF JoinPolicy, TaskOK, DropPcs, SeenPcs, OpFits, JoinPcs, KickPcs, JoinOps
  <2>5. Done(h) \/ Goto(h, "join")
    BY <1>2 DEF JoinPolicy
  <2>6. task' \in [Handler -> Task] /\ TaskInv'
    BY <2>3, <2>1, <2>2, <2>4, <2>5, GotoStep, DoneStep
  <2>7. QED
    BY <1>2, <2>1, <2>6 DEF JoinPolicy, IInv, TypeOK, store, policy, relay, doubts
<1>3. CASE JoinRoom(h)
  <2>1. task[h].pc # "idle" /\ task[h].pid \in Pid /\ h \notin Sock
    BY <1>1, <1>3 DEF JoinRoom, TaskOK, DropPcs, SeenPcs
  <2>2. "joinSeen" \in Pc
    BY DEF Pc, RowPcs, DropPcs, SeenPcs
  <2>3. OpFits("joinSeen", task[h].op)
    BY <1>1, <1>3 DEF JoinRoom, TaskOK, OpFits, JoinPcs, LeavePcs, KickPcs, JoinOps, SignalOps, LeaveOps
  <2>4. task[h].op = "drop" => task[h].seen # None
    BY <1>1, <1>3 DEF JoinRoom, TaskOK, DropPcs, SeenPcs, OpFits, JoinPcs, KickPcs, JoinOps
  <2>5. Done(h) \/ task' = [task EXCEPT ![h].pc = "joinSeen", ![h].row = room]
    BY <1>3 DEF JoinRoom
  <2>6. task' \in [Handler -> Task] /\ TaskInv'
    BY <2>3, <2>1, <2>2, <2>4, <2>5, ReadRowStep, DoneStep
  <2>7. QED
    BY <1>3, <2>1, <2>6 DEF JoinRoom, IInv, TypeOK, store, policy, relay, doubts
<1>4. CASE JoinSeen(h)
  <2>1. task[h].pc # "idle" /\ task[h].pid \in Pid /\ h \notin Sock
    BY <1>1, <1>4 DEF JoinSeen, TaskOK, DropPcs, SeenPcs
  <2>2. "joinCount" \in Pc
    BY DEF Pc, RowPcs, DropPcs, SeenPcs
  <2>3. OpFits("joinCount", task[h].op)
    BY <1>1, <1>4 DEF JoinSeen, TaskOK, OpFits, JoinPcs, LeavePcs, KickPcs, JoinOps, SignalOps, LeaveOps
  <2>4. task[h].op = "drop" => task[h].seen # None
    BY <1>1, <1>4 DEF JoinSeen, TaskOK, DropPcs, SeenPcs, OpFits, JoinPcs, KickPcs, JoinOps
  <2>5. Done(h) \/ Goto(h, "joinCount")
    BY <1>4 DEF JoinSeen
  <2>6. task[h].row \in Row
    BY <1>1, <1>4 DEF JoinSeen, TaskOK, RowPcs
  <2>7. task' \in [Handler -> Task] /\ TaskInv'
    BY <2>3, <2>1, <2>2, <2>4, <2>5, <2>6, GotoStep, DoneStep
  <2>8. QED
    BY <1>4, <2>1, <2>7 DEF JoinSeen, IInv, TypeOK, store, policy, relay, doubts
<1>5. CASE JoinCount(h)
  <2>1. task[h].pc # "idle" /\ task[h].pid \in Pid /\ h \notin Sock
    BY <1>1, <1>5 DEF JoinCount, TaskOK, DropPcs, SeenPcs
  <2>2. "joinPut" \in Pc
    BY DEF Pc, RowPcs, DropPcs, SeenPcs
  <2>3. OpFits("joinPut", task[h].op)
    BY <1>1, <1>5 DEF JoinCount, TaskOK, OpFits, JoinPcs, LeavePcs, KickPcs, JoinOps, SignalOps, LeaveOps
  <2>4. task[h].op = "drop" => task[h].seen # None
    BY <1>1, <1>5 DEF JoinCount, TaskOK, DropPcs, SeenPcs, OpFits, JoinPcs, KickPcs, JoinOps
  <2>5. Done(h) \/ Goto(h, "joinPut")
    BY <1>5 DEF JoinCount
  <2>6. task[h].row \in Row
    BY <1>1, <1>5 DEF JoinCount, TaskOK, RowPcs
  <2>7. task' \in [Handler -> Task] /\ TaskInv'
    BY <2>3, <2>1, <2>2, <2>4, <2>5, <2>6, GotoStep, DoneStep
  <2>8. QED
    BY <1>5, <2>1, <2>7 DEF JoinCount, IInv, TypeOK, store, policy, relay, doubts
<1>6. CASE JoinPut(h)
  <2>1. task[h].pc # "idle" /\ task[h].pid \in Pid /\ h \notin Sock
    BY <1>1, <1>6 DEF JoinPut, TaskOK, DropPcs, SeenPcs
  <2>2. "joinTouch" \in Pc
    BY DEF Pc, RowPcs, DropPcs, SeenPcs
  <2>3. OpFits("joinTouch", task[h].op)
    BY <1>1, <1>6 DEF JoinPut, TaskOK, OpFits, JoinPcs, LeavePcs, KickPcs, JoinOps, SignalOps, LeaveOps
  <2>4. task[h].op = "drop" => task[h].seen # None
    BY <1>1, <1>6 DEF JoinPut, TaskOK, DropPcs, SeenPcs, OpFits, JoinPcs, KickPcs, JoinOps
  <2>5. Goto(h, "joinTouch")
    BY <1>6 DEF JoinPut
  <2>6. task[h].row \in Row
    BY <1>1, <1>6 DEF JoinPut, TaskOK, RowPcs
  <2>7. task' \in [Handler -> Task] /\ TaskInv'
    BY <2>3, <2>1, <2>2, <2>4, <2>5, <2>6, GotoStep
  <2>8. SessionOf(h) \in Session \cup {None}
    BY <1>1, TaskFields DEF SessionOf, Session
  <2>9. QED
    BY <1>6, <2>1, <2>7, <2>8 DEF JoinPut, IInv, TypeOK, store, policy, relay, doubts
<1>7. CASE JoinTouch(h)
  <2>1. task[h].pc # "idle" /\ task[h].pid \in Pid /\ h \notin Sock
    BY <1>1, <1>7 DEF JoinTouch, TaskOK, DropPcs, SeenPcs
  <2>2. "joinList" \in Pc \ RowPcs
    BY DEF Pc, RowPcs, DropPcs, SeenPcs
  <2>3. OpFits("joinList", task[h].op)
    BY <1>1, <1>7 DEF JoinTouch, TaskOK, OpFits, JoinPcs, LeavePcs, KickPcs, JoinOps, SignalOps, LeaveOps
  <2>4. task[h].op = "drop" => task[h].seen # None
    BY <1>1, <1>7 DEF JoinTouch, TaskOK, DropPcs, SeenPcs, OpFits, JoinPcs, KickPcs, JoinOps
  <2>5. Goto(h, "joinList")
    BY <1>7 DEF JoinTouch
  <2>6. task' \in [Handler -> Task] /\ TaskInv'
    BY <2>3, <2>1, <2>2, <2>4, <2>5, GotoStep
  <2>7. task[h].row \in Row
    BY <1>1, <1>7 DEF JoinTouch, TaskOK, RowPcs
  <2>8. QED
    BY <1>7, <2>1, <2>6, <2>7 DEF JoinTouch, IInv, TypeOK, store, policy, relay, doubts
<1>8. CASE JoinList(h)
  <2>1. task[h].pc # "idle" /\ task[h].pid \in Pid /\ h \notin Sock
    BY <1>1, <1>8 DEF JoinList, TaskOK, DropPcs, SeenPcs
  <2>2. "signal" \in Pc \ RowPcs
    BY DEF Pc, RowPcs, DropPcs, SeenPcs
  <2>3. Done(h) \/ OpFits("signal", task[h].op)
    BY <1>1, <1>8 DEF JoinList, TaskOK, OpFits, JoinPcs, LeavePcs, KickPcs, JoinOps
  <2>4. task[h].op = "drop" => task[h].seen # None
    BY <1>1, <1>8 DEF JoinList, TaskOK, DropPcs, SeenPcs, OpFits, JoinPcs, KickPcs, JoinOps
  <2>5. Done(h) \/ task' = [task EXCEPT ![h].pc = "signal", ![h].list = Members]
    BY <1>8 DEF JoinList
  <2>6. task' \in [Handler -> Task] /\ TaskInv'
    BY <2>3, <2>1, <2>2, <2>4, <2>5, ReadListStep, DoneStep
  <2>7. told' \in [Sock -> SUBSET Pid]
    BY <1>8, <2>1, BroadcastTypes DEF JoinList, IInv, TypeOK
  <2>8. hearsay' \subseteq Pid
    BY <1>8, <2>1 DEF JoinList, IInv, TypeOK, Announced
  <2>9. QED
    BY <1>8, <2>1, <2>6, <2>7, <2>8 DEF JoinList, IInv, TypeOK, store, policy, doubts
<1>9. CASE RelayJoin(h)
  <2>1. task[h].pc # "idle" /\ task[h].pid \in Pid
    BY <1>1, <1>9 DEF RelayJoin, TaskOK, DropPcs, SeenPcs
  <2>2. Done(h)
    BY <1>9 DEF RelayJoin
  <2>3. task' \in [Handler -> Task] /\ TaskInv'
    BY <2>1, <2>2, DoneStep
  <2>4. Bound(h) \in [pid : Pid, since : Nat]
    BY <2>1 DEF Bound, IInv, TypeOK
  <2>5. hub' \in [Sock -> [pid : Pid, since : Nat] \cup {None}]
    BY <1>9, <2>4 DEF RelayJoin, IInv, TypeOK
  <2>6. task[h].list \in SUBSET Pid /\ task[h].seq \in Nat
    BY <1>1, TaskFields
  <2>7. told' \in [Sock -> SUBSET Pid]
    BY <1>9, <2>1, <2>6 DEF RelayJoin, IInv, TypeOK
  <2>8. got' \in [Sock -> SUBSET Nat]
    BY <1>9, <2>1, <2>6, BroadcastTypes DEF RelayJoin, IInv
  <2>9. hearsay' \subseteq Pid /\ ghosts' \subseteq Sock
    BY <1>1, <1>9, <2>1 DEF RelayJoin, IInv, TypeOK, Outdated, TaskOK
  <2>10. QED
    BY <1>9, <2>1, <2>3, <2>5, <2>7, <2>8, <2>9 DEF RelayJoin, IInv, TypeOK, store, policy, doubts
<1>10. QED
  BY <1>2, <1>3, <1>4, <1>5, <1>6, <1>7, <1>8, <1>9 DEF JoinStep

LEMMA RumourTypes ==
  ASSUME TypeOK, NEW h \in Handler, task[h].pid \in Pid, Rumour(h)
  PROVE  told' \in [Sock -> SUBSET Pid] /\ hearsay' \subseteq Pid
<1>1. ASSUME NEW to, TellJoin(to, task[h].pid) \/ TellLeave(to, task[h].pid),
             NEW here \in BOOLEAN, Announced(task[h].pid, here)
      PROVE  told' \in [Sock -> SUBSET Pid] /\ hearsay' \subseteq Pid
  BY <1>1 DEF TypeOK, TellJoin, TellLeave, Announced
<1>2. told' = told /\ hearsay' = hearsay => told' \in [Sock -> SUBSET Pid] /\ hearsay' \subseteq Pid
  BY DEF TypeOK
<1> QED
  BY <1>1, <1>2 DEF Rumour

\* Every step of a signal keeps the invariant.
LEMMA SignalOK ==
  ASSUME IInv, NEW h \in Handler, SignalStep(h)
  PROVE  IInv'
<1>1. task[h] \in Task /\ TaskOK(h, task[h])
  BY DEF IInv, TypeOK, TaskInv
<1>2. CASE Signal(h)
  <2>1. task[h].pc # "idle" /\ task[h].pid \in Pid /\ h \notin Sock
    BY <1>1, <1>2 DEF Signal, TaskOK, DropPcs, SeenPcs
  <2>2. "log" \in Pc \ RowPcs /\ "refresh" \in Pc \ RowPcs
    BY DEF Pc, RowPcs, DropPcs, SeenPcs
  <2>3. OpFits("log", task[h].op)
    BY <1>1, <1>2 DEF Signal, TaskOK, OpFits, JoinPcs, LeavePcs, KickPcs, JoinOps, SignalOps, LeaveOps
  <2>4. task[h].op = "drop" => task[h].seen # None
    BY <1>1, <1>2 DEF Signal, TaskOK, DropPcs, SeenPcs, OpFits, JoinPcs, KickPcs, JoinOps
  <2>5. \/ Done(h) \/ Goto(h, "log")
        \/ /\ task' = [task EXCEPT ![h].pc = "refresh", ![h].seen = roster[task[h].pid]]
           /\ roster[task[h].pid] # None /\ OpFits("refresh", task[h].op)
    <3>1. task[h].op \in {"wsJoin", "signal", "joinSignal", "leaveSignal"}
      BY <1>1, <1>2 DEF Signal, TaskOK, OpFits, SignalOps
    <3> QED
      BY <1>2, <3>1 DEF Signal, OpFits, JoinPcs, LeavePcs, KickPcs
  <2>6. task' \in [Handler -> Task] /\ TaskInv'
    BY <2>3, <2>1, <2>2, <2>4, <2>5, GotoStep, ReadSeenStep, DoneStep
  <2>7. QED
    BY <1>2, <2>1, <2>6 DEF Signal, IInv, TypeOK, store, policy, relay, doubts
<1>3. CASE SignalRefresh(h)
  <2>1. task[h].pc # "idle" /\ task[h].pid \in Pid /\ h \notin Sock
    BY <1>1, <1>3 DEF SignalRefresh, TaskOK, DropPcs, SeenPcs
  <2>2. "log" \in Pc \ RowPcs
    BY DEF Pc, RowPcs, DropPcs, SeenPcs
  <2>3. OpFits("log", task[h].op)
    BY <1>1, <1>3 DEF SignalRefresh, TaskOK, OpFits, JoinPcs, LeavePcs, KickPcs, JoinOps, SignalOps, LeaveOps
  <2>4. task[h].op = "drop" => task[h].seen # None
    BY <1>1, <1>3 DEF SignalRefresh, TaskOK, DropPcs, SeenPcs, OpFits, JoinPcs, KickPcs, JoinOps
  <2>5. Goto(h, "log")
    BY <1>3 DEF SignalRefresh
  <2>6. task' \in [Handler -> Task] /\ TaskInv'
    BY <2>3, <2>1, <2>2, <2>4, <2>5, GotoStep
  <2>7. task[h].seen \in Session \cup {None}
    BY <1>1, TaskFields
  <2>8. QED
    BY <1>3, <2>1, <2>6, <2>7 DEF SignalRefresh, IInv, TypeOK, store, policy, relay, doubts
<1>4. CASE PutSignal(h)
  <2>1. task[h].pc # "idle" /\ task[h].pid \in Pid
    BY <1>1, <1>4 DEF PutSignal, TaskOK, DropPcs, SeenPcs
  <2>2. "relay" \in Pc \ RowPcs /\ "relay" \in DropPcs
    BY DEF Pc, RowPcs, DropPcs, SeenPcs
  <2>3. OpFits("relay", task[h].op)
    BY <1>1, <1>4 DEF PutSignal, TaskOK, OpFits, JoinPcs, LeavePcs, KickPcs, JoinOps, SignalOps, LeaveOps
  <2>4. task[h].op = "drop" => task[h].seen # None
    BY <1>1, <1>4 DEF PutSignal, TaskOK, DropPcs, SeenPcs, OpFits, JoinPcs, KickPcs, JoinOps
  <2>5. task' = [task EXCEPT ![h].pc = "relay", ![h].seq = Len(log) + 1]
    BY <1>4 DEF PutSignal
  <2>6. task' \in [Handler -> Task] /\ TaskInv'
    BY <2>3, <2>1, <2>2, <2>4, <2>5, PutStep
  <2>7. log' \in Seq([pid : Pid, to : Pid \cup {None}])
    <3>1. [pid |-> task[h].pid, to |-> task[h].to] \in [pid : Pid, to : Pid \cup {None}]
      BY <1>1, <2>1, TaskFields
    <3> QED
      BY <1>4, <3>1 DEF PutSignal, IInv, TypeOK
  <2>8. QED
    BY <1>4, <2>1, <2>6, <2>7 DEF PutSignal, IInv, TypeOK, store, policy, relay, doubts
<1>5. CASE RelaySignal(h)
  <2>1. task[h].pc # "idle" /\ task[h].pid \in Pid
    BY <1>1, <1>5 DEF RelaySignal, TaskOK, DropPcs, SeenPcs
  <2>2. Done(h)
    BY <1>5 DEF RelaySignal
  <2>3. task' \in [Handler -> Task] /\ TaskInv'
    BY <2>1, <2>2, DoneStep
  <2>4. task[h].seq \in Nat
    BY <1>1, TaskFields
  <2>5. got' \in [Sock -> SUBSET Nat]
    BY <1>5, <2>1, <2>4, BroadcastTypes DEF RelaySignal, IInv
  <2>6. told' \in [Sock -> SUBSET Pid] /\ hearsay' \subseteq Pid
    BY <1>5, <2>1, RumourTypes DEF RelaySignal, IInv
  <2>7. QED
    BY <1>5, <2>1, <2>3, <2>5, <2>6 DEF RelaySignal, IInv, TypeOK, store, policy, doubts
<1>6. QED
  BY <1>2, <1>3, <1>4, <1>5 DEF SignalStep

\* Every step of a leave, by whichever route, keeps the invariant.
LEMMA LeaveOK ==
  ASSUME IInv, NEW h \in Handler, LeaveStep(h)
  PROVE  IInv'
<1>1. task[h] \in Task /\ TaskOK(h, task[h])
  BY DEF IInv, TypeOK, TaskInv
<1>2. CASE LeaveRead(h)
  <2>1. task[h].pc # "idle" /\ task[h].pid \in Pid
    BY <1>1, <1>2 DEF LeaveRead, TaskOK, DropPcs, SeenPcs
  <2>2. "leave" \in Pc \ RowPcs /\ "leave" \in DropPcs
    BY DEF Pc, RowPcs, DropPcs, SeenPcs
  <2>3. OpFits("leave", task[h].op)
    BY <1>1, <1>2 DEF LeaveRead, TaskOK, OpFits, JoinPcs, LeavePcs, KickPcs, JoinOps, SignalOps, LeaveOps
  <2>4. Done(h) \/ (task[h].op = "drop" => roster[task[h].pid] # None)
    BY <1>2 DEF LeaveRead
  <2>5. Done(h) \/ task' = [task EXCEPT ![h].pc = "leave", ![h].seen = roster[task[h].pid]]
    BY <1>2 DEF LeaveRead
  <2>6. task' \in [Handler -> Task] /\ TaskInv'
    BY <2>3, <2>1, <2>2, <2>4, <2>5, ReadSeenStep, DoneStep
  <2>7. QED
    BY <1>2, <2>1, <2>6 DEF LeaveRead, IInv, TypeOK, store, policy, relay, doubts
<1>3. CASE LeaveRoom(h)
  <2>1. task[h].pc # "idle" /\ task[h].pid \in Pid
    BY <1>1, <1>3 DEF LeaveRoom, TaskOK, DropPcs, SeenPcs
  <2>2. "leaveSeen" \in Pc /\ "leaveSeen" \in DropPcs
    BY DEF Pc, RowPcs, DropPcs, SeenPcs
  <2>3. OpFits("leaveSeen", task[h].op)
    BY <1>1, <1>3 DEF LeaveRoom, TaskOK, OpFits, JoinPcs, LeavePcs, KickPcs, JoinOps, SignalOps, LeaveOps
  <2>4. task[h].op = "drop" => task[h].seen # None
    BY <1>1, <1>3 DEF LeaveRoom, TaskOK, DropPcs, SeenPcs, OpFits, JoinPcs, KickPcs, JoinOps
  <2>5. task' = [task EXCEPT ![h].pc = "leaveSeen", ![h].row = room]
    BY <1>3 DEF LeaveRoom
  <2>6. task' \in [Handler -> Task] /\ TaskInv'
    BY <2>3, <2>1, <2>2, <2>4, <2>5, ReadRowStep
  <2>7. QED
    BY <1>3, <2>1, <2>6 DEF LeaveRoom, IInv, TypeOK, store, policy, relay, doubts
<1>4. CASE LeaveSeen(h)
  <2>1. task[h].pc # "idle" /\ task[h].pid \in Pid
    BY <1>1, <1>4 DEF LeaveSeen, TaskOK, DropPcs, SeenPcs
  <2>2. "leaveDelete" \in Pc /\ "leaveDelete" \in DropPcs
    BY DEF Pc, RowPcs, DropPcs, SeenPcs
  <2>3. OpFits("leaveDelete", task[h].op)
    BY <1>1, <1>4 DEF LeaveSeen, TaskOK, OpFits, JoinPcs, LeavePcs, KickPcs, JoinOps, SignalOps, LeaveOps
  <2>4. task[h].op = "drop" => task[h].seen # None
    BY <1>1, <1>4 DEF LeaveSeen, TaskOK, DropPcs, SeenPcs, OpFits, JoinPcs, KickPcs, JoinOps
  <2>5. Done(h) \/ Goto(h, "leaveDelete")
    BY <1>4 DEF LeaveSeen
  <2>6. task[h].row \in Row
    BY <1>1, <1>4 DEF LeaveSeen, TaskOK, RowPcs
  <2>7. task' \in [Handler -> Task] /\ TaskInv'
    BY <2>3, <2>1, <2>2, <2>4, <2>5, <2>6, GotoStep, DoneStep
  <2>8. QED
    BY <1>4, <2>1, <2>7 DEF LeaveSeen, IInv, TypeOK, store, policy, relay, doubts
<1>5. CASE LeaveDelete(h)
  <2>1. task[h].pc # "idle" /\ task[h].pid \in Pid
    BY <1>1, <1>5 DEF LeaveDelete, TaskOK, DropPcs, SeenPcs
  <2>2. "leaveTouch" \in Pc /\ "leaveTouch" \in DropPcs
    BY DEF Pc, RowPcs, DropPcs, SeenPcs
  <2>3. OpFits("leaveTouch", task[h].op)
    BY <1>1, <1>5 DEF LeaveDelete, TaskOK, OpFits, JoinPcs, LeavePcs, KickPcs, JoinOps, SignalOps, LeaveOps
  <2>4. task[h].op = "drop" => task[h].seen # None
    BY <1>1, <1>5 DEF LeaveDelete, TaskOK, DropPcs, SeenPcs, OpFits, JoinPcs, KickPcs, JoinOps
  <2>5. Goto(h, "leaveTouch")
    BY <1>5 DEF LeaveDelete
  <2>6. task[h].row \in Row
    BY <1>1, <1>5 DEF LeaveDelete, TaskOK, RowPcs
  <2>7. task' \in [Handler -> Task] /\ TaskInv'
    BY <2>3, <2>1, <2>2, <2>4, <2>5, <2>6, GotoStep
  <2>8. QED
    BY <1>5, <2>1, <2>7 DEF LeaveDelete, IInv, TypeOK, store, policy, relay, doubts
<1>6. CASE LeaveTouch(h)
  <2>1. task[h].pc # "idle" /\ task[h].pid \in Pid
    BY <1>1, <1>6 DEF LeaveTouch, TaskOK, DropPcs, SeenPcs
  <2>2. "log" \in Pc \ RowPcs /\ "log" \in DropPcs
    BY DEF Pc, RowPcs, DropPcs, SeenPcs
  <2>3. OpFits("log", task[h].op)
    BY <1>1, <1>6 DEF LeaveTouch, TaskOK, OpFits, JoinPcs, LeavePcs, KickPcs, JoinOps, SignalOps, LeaveOps
  <2>4. task[h].op = "drop" => task[h].seen # None
    BY <1>1, <1>6 DEF LeaveTouch, TaskOK, DropPcs, SeenPcs, OpFits, JoinPcs, KickPcs, JoinOps
  <2>5. Done(h) \/ Goto(h, "log")
    BY <1>6 DEF LeaveTouch
  <2>6. task' \in [Handler -> Task] /\ TaskInv'
    BY <2>3, <2>1, <2>2, <2>4, <2>5, GotoStep, DoneStep
  <2>7. task[h].row \in Row
    BY <1>1, <1>6 DEF LeaveTouch, TaskOK, RowPcs
  <2>8. QED
    BY <1>6, <2>1, <2>6, <2>7 DEF LeaveTouch, IInv, TypeOK, store, policy, relay, doubts
<1>7. CASE RelayLeave(h)
  <2>1. task[h].pc # "idle" /\ task[h].pid \in Pid
    BY <1>1, <1>7 DEF RelayLeave, TaskOK, DropPcs, SeenPcs
  <2>2. Done(h)
    BY <1>7 DEF RelayLeave
  <2>3. task' \in [Handler -> Task] /\ TaskInv'
    BY <2>1, <2>2, DoneStep
  <2>4. task[h].seq \in Nat
    BY <1>1, TaskFields
  <2>5. hub' \in [Sock -> [pid : Pid, since : Nat] \cup {None}]
    BY <1>7 DEF RelayLeave, IInv, TypeOK
  <2>6. told' \in [Sock -> SUBSET Pid]
    BY <1>7, <2>1, BroadcastTypes DEF RelayLeave, IInv
  <2>7. got' \in [Sock -> SUBSET Nat]
    BY <1>7, <2>1, <2>4, BroadcastTypes DEF RelayLeave, IInv
  <2>8. hearsay' \subseteq Pid
    BY <1>7, <2>1 DEF RelayLeave, IInv, TypeOK, Announced
  <2>9. QED
    BY <1>7, <2>1, <2>3, <2>5, <2>6, <2>7, <2>8 DEF RelayLeave, IInv, TypeOK, store, policy, doubts
<1>8. QED
  BY <1>2, <1>3, <1>4, <1>5, <1>6, <1>7 DEF LeaveStep

\* Every administrative step keeps the invariant.
LEMMA AdminOK ==
  ASSUME IInv, NEW h \in Handler, AdminStep(h)
  PROVE  IInv'
<1>1. task[h] \in Task /\ TaskOK(h, task[h])
  BY DEF IInv, TypeOK, TaskInv
<1>2. CASE RoomRead(h)
  <2>1. task[h].pc # "idle" /\ task[h].pid \in Pid /\ h \notin Sock
    BY <1>1, <1>2 DEF RoomRead, TaskOK, DropPcs, SeenPcs
  <2>2. "roomWrite" \in Pc
    BY DEF Pc, RowPcs, DropPcs, SeenPcs
  <2>3. OpFits("roomWrite", task[h].op)
    BY <1>1, <1>2 DEF RoomRead, TaskOK, OpFits, JoinPcs, LeavePcs, KickPcs, JoinOps, SignalOps, LeaveOps
  <2>4. task[h].op = "drop" => task[h].seen # None
    BY <1>1, <1>2 DEF RoomRead, TaskOK, DropPcs, SeenPcs, OpFits, JoinPcs, KickPcs, JoinOps
  <2>5. task' = [task EXCEPT ![h].pc = "roomWrite", ![h].row = room]
    BY <1>2 DEF RoomRead
  <2>6. task[h].op \in {"closeRoom", "lock", "unlock"}
    BY <1>1, <1>2 DEF RoomRead, TaskOK, OpFits
  <2>7. task' \in [Handler -> Task] /\ TaskInv'
    BY <2>3, <2>1, <2>2, <2>4, <2>5, <2>6, ReadRowStep
  <2>8. QED
    BY <1>2, <2>1, <2>7 DEF RoomRead, IInv, TypeOK, store, policy, relay, doubts
<1>3. CASE RoomWrite(h)
  <2>1. task[h].pc # "idle" /\ task[h].pid \in Pid /\ h \notin Sock
    BY <1>1, <1>3 DEF RoomWrite, TaskOK, DropPcs, SeenPcs
  <2>2. Done(h)
    BY <1>3 DEF RoomWrite
  <2>3. task' \in [Handler -> Task] /\ TaskInv'
    BY <2>1, <2>2, DoneStep
  <2>4. task[h].row \in Row
    BY <1>1, <1>3 DEF RoomWrite, TaskOK, RowPcs
  <2>5. task[h].op \in {"closeRoom", "lock", "unlock"}
    BY <1>1, <1>3 DEF RoomWrite, TaskOK, OpFits
  <2>6. Patched(h) \in Row
    BY <2>4, <2>5 DEF Patched, Row
  <2>7. QED
    BY <1>3, <2>1, <2>3, <2>4, <2>5, <2>6 DEF RoomWrite, IInv, TypeOK, store, policy, relay, doubts
<1>4. CASE Kick(h)
  <2>1. task[h].pc # "idle" /\ task[h].pid \in Pid /\ h \notin Sock
    BY <1>1, <1>4 DEF Kick, TaskOK, DropPcs, SeenPcs
  <2>2. "kickSeen" \in Pc
    BY DEF Pc, RowPcs, DropPcs, SeenPcs
  <2>3. OpFits("kickSeen", task[h].op)
    BY <1>1, <1>4 DEF Kick, TaskOK, OpFits, JoinPcs, LeavePcs, KickPcs, JoinOps, SignalOps, LeaveOps
  <2>4. task[h].op = "drop" => task[h].seen # None
    BY <1>1, <1>4 DEF Kick, TaskOK, DropPcs, SeenPcs, OpFits, JoinPcs, KickPcs, JoinOps
  <2>5. task' = [task EXCEPT ![h].pc = "kickSeen", ![h].row = room]
    BY <1>4 DEF Kick
  <2>6. task' \in [Handler -> Task] /\ TaskInv'
    BY <2>3, <2>1, <2>2, <2>4, <2>5, ReadRowStep
  <2>7. QED
    BY <1>4, <2>1, <2>6 DEF Kick, IInv, TypeOK, store, relay, doubts
<1>5. CASE KickSeen(h)
  <2>1. task[h].pc # "idle" /\ task[h].pid \in Pid /\ h \notin Sock
    BY <1>1, <1>5 DEF KickSeen, TaskOK, DropPcs, SeenPcs
  <2>2. "kickDelete" \in Pc /\ "kickTouch" \in Pc
    BY DEF Pc, RowPcs, DropPcs, SeenPcs
  <2>3. OpFits("kickDelete", task[h].op) /\ OpFits("kickTouch", task[h].op)
    BY <1>1, <1>5 DEF KickSeen, TaskOK, OpFits, JoinPcs, LeavePcs, KickPcs, JoinOps, SignalOps, LeaveOps
  <2>4. task[h].op = "drop" => task[h].seen # None
    BY <1>1, <1>5 DEF KickSeen, TaskOK, DropPcs, SeenPcs, OpFits, JoinPcs, KickPcs, JoinOps
  <2>5. Done(h) \/ Goto(h, "kickDelete") \/ Goto(h, "kickTouch")
    BY <1>5 DEF KickSeen
  <2>6. task[h].row \in Row
    BY <1>1, <1>5 DEF KickSeen, TaskOK, RowPcs
  <2>7. task' \in [Handler -> Task] /\ TaskInv'
    BY <2>3, <2>1, <2>2, <2>4, <2>5, <2>6, GotoStep, DoneStep
  <2>8. QED
    BY <1>5, <2>1, <2>7 DEF KickSeen, IInv, TypeOK, store, policy, relay, doubts
<1>6. CASE KickDelete(h)
  <2>1. task[h].pc # "idle" /\ task[h].pid \in Pid /\ h \notin Sock
    BY <1>1, <1>6 DEF KickDelete, TaskOK, DropPcs, SeenPcs
  <2>2. "kickTouch" \in Pc
    BY DEF Pc, RowPcs, DropPcs, SeenPcs
  <2>3. OpFits("kickTouch", task[h].op)
    BY <1>1, <1>6 DEF KickDelete, TaskOK, OpFits, JoinPcs, LeavePcs, KickPcs, JoinOps, SignalOps, LeaveOps
  <2>4. task[h].op = "drop" => task[h].seen # None
    BY <1>1, <1>6 DEF KickDelete, TaskOK, DropPcs, SeenPcs, OpFits, JoinPcs, KickPcs, JoinOps
  <2>5. Goto(h, "kickTouch")
    BY <1>6 DEF KickDelete
  <2>6. task[h].row \in Row
    BY <1>1, <1>6 DEF KickDelete, TaskOK, RowPcs
  <2>7. task' \in [Handler -> Task] /\ TaskInv'
    BY <2>3, <2>1, <2>2, <2>4, <2>5, <2>6, GotoStep
  <2>8. QED
    BY <1>6, <2>1, <2>7 DEF KickDelete, IInv, TypeOK, store, policy, relay, doubts
<1>7. CASE KickTouch(h)
  <2>1. task[h].pc # "idle" /\ task[h].pid \in Pid /\ h \notin Sock
    BY <1>1, <1>7 DEF KickTouch, TaskOK, DropPcs, SeenPcs
  <2>2. Done(h)
    BY <1>7 DEF KickTouch
  <2>3. task' \in [Handler -> Task] /\ TaskInv'
    BY <2>1, <2>2, DoneStep
  <2>4. task[h].row \in Row
    BY <1>1, <1>7 DEF KickTouch, TaskOK, RowPcs
  <2>5. told' \in [Sock -> SUBSET Pid]
    BY <1>7, <2>1, BroadcastTypes DEF KickTouch, IInv, TypeOK
  <2>6. hearsay' \subseteq Pid
    BY <1>7, <2>1 DEF KickTouch, IInv, TypeOK, Announced
  <2>7. QED
    BY <1>7, <2>1, <2>3, <2>4, <2>5, <2>6 DEF KickTouch, IInv, TypeOK, policy, doubts
<1>8. CASE Lift(h)
  <2>1. task[h].pc # "idle" /\ task[h].pid \in Pid /\ h \notin Sock
    BY <1>1, <1>8 DEF Lift, TaskOK, DropPcs, SeenPcs
  <2>2. Done(h)
    BY <1>8 DEF Lift
  <2>3. task' \in [Handler -> Task] /\ TaskInv'
    BY <2>1, <2>2, DoneStep
  <2>4. QED
    BY <1>8, <2>1, <2>3 DEF Lift, IInv, TypeOK, store, relay, doubts
<1>9. QED
  BY <1>2, <1>3, <1>4, <1>5, <1>6, <1>7, <1>8 DEF AdminStep

LEMMA NextOK == IInv /\ [Next]_vars => IInv'
<1> SUFFICES ASSUME IInv, [Next]_vars PROVE IInv'
  OBVIOUS
<1>1. CASE Next
  BY <1>1, ArrivalsOK, JoinOK, SignalOK, LeaveOK, AdminOK DEF Next, Step
<1>2. CASE UNCHANGED vars
  BY <1>2 DEF vars, store, policy, relay, doubts, IInv, TypeOK, TaskInv, TaskOK
<1>3. QED
  BY <1>1, <1>2

\* Every Store row, hub binding and suspended handler keeps its type.
THEOREM TypeCorrect == Spec => []TypeOK
<1>1. Init => IInv
  BY InitOK
<1>2. IInv /\ [Next]_vars => IInv'
  BY NextOK
<1>3. IInv => TypeOK
  BY DEF IInv
<1>4. QED
  BY <1>1, <1>2, <1>3, PTL DEF Spec

-----------------------------------------------------------------------------
(* Capacity under interleaving.  Crowd is who is in the room or about to   *)
(* be written into it; only the count in joinRoom lets it grow, and then   *)
(* it is bounded by the handlers there are.                                *)

Writing == {"joinPut", "refresh"}
Crowd == Members \cup Pending

LEMMA CrowdFinite ==
  ASSUME IInv
  PROVE  /\ IsFiniteSet(Members) /\ IsFiniteSet(Crowd)
         /\ Crowd \subseteq Pid
         /\ Cardinality(Members) \in Nat /\ Cardinality(Crowd) \in Nat
<1>1. Pending \subseteq Pid
  BY DEF IInv, TaskInv, TaskOK, Pending
<1>2. Members \in SUBSET Pid /\ Crowd \in SUBSET Pid
  BY <1>1 DEF Members, Crowd
<1>3. QED
  BY <1>2, FS_Subset, FS_CardinalityType

PendingIn(t) == {t[h].pid : h \in {k \in Handler : t[k].pc \in Writing}}

\* The handlers about to write a row are requests, so there are at most as
\* many participants about to be written as there are workers.
LEMMA PendingBounded ==
  ASSUME NEW t, \A s \in Sock : t[s].pc \notin Writing
  PROVE  IsFiniteSet(PendingIn(t)) /\ Cardinality(PendingIn(t)) <= Cardinality(Worker)
<1> DEFINE W == {w \in Worker : t[w].pc \in Writing}
           f == [w \in W |-> t[w].pid]
<1>1. PendingIn(t) = {t[h].pid : h \in W}
  BY DEF PendingIn
<1>2. f \in Surjection(W, PendingIn(t))
  BY <1>1 DEF Surjection
<1>3. IsFiniteSet(W) /\ Cardinality(W) <= Cardinality(Worker)
  BY FS_Subset
<1>4. IsFiniteSet(PendingIn(t)) /\ Cardinality(PendingIn(t)) <= Cardinality(W)
  BY <1>2, <1>3, FS_Surjection
<1>5. Cardinality(W) \in Nat /\ Cardinality(Worker) \in Nat /\ Cardinality(PendingIn(t)) \in Nat
  BY <1>3, <1>4, FS_CardinalityType
<1>6. QED
  BY <1>3, <1>4, <1>5

\* A step of one handler that only writes a row it was about to write, or
\* only gets ready to write a participant who is there, adds nobody.
LEMMA NobodyNew ==
  ASSUME NEW h \in Handler,
         \A k \in Handler \ {h} : task'[k] = task[k],
         \A p \in Pid : roster'[p] # None => p \in Crowd,
         task'[h].pc \in Writing => task'[h].pid \in Members
  PROVE  Crowd' \subseteq Crowd
<1>1. Members' \subseteq Crowd
  BY DEF Members
<1>2. Pending' \subseteq Crowd
  <2>1. ASSUME NEW k \in Handler, task'[k].pc \in Writing PROVE task'[k].pid \in Crowd
    BY <2>1 DEF Crowd, Pending, Writing
  <2>2. QED
    BY <2>1 DEF Pending, Writing
<1>3. QED
  BY <1>1, <1>2 DEF Crowd

LEMMA JoinCrowd ==
  ASSUME IInv, NEW h \in Handler, JoinStep(h), ~JoinCount(h)
  PROVE  Crowd' \subseteq Crowd
<1>1. task \in [Handler -> Task] /\ roster \in [Pid -> Session \cup {None}] /\ task[h] \in Task /\ TaskOK(h, task[h])
  BY DEF IInv, TypeOK, TaskInv
<1>2. \A p \in Pid : roster[p] # None => p \in Crowd
  BY DEF Members, Crowd
<1>3. CASE JoinPolicy(h)
  <2>1. task'[h].pc \notin Writing /\ \A k \in Handler \ {h} : task'[k] = task[k]
    BY <1>1, <1>3 DEF JoinPolicy, Goto, Done, Idle, Task, Writing
  <2>2. roster' = roster
    BY <1>3 DEF JoinPolicy, store
  <2>3. QED
    BY <1>2, <2>1, <2>2, NobodyNew
<1>4. CASE JoinRoom(h)
  <2>1. task'[h].pc \notin Writing /\ \A k \in Handler \ {h} : task'[k] = task[k]
    BY <1>1, <1>4 DEF JoinRoom, Goto, Done, Idle, Task, Writing
  <2>2. roster' = roster
    BY <1>4 DEF JoinRoom, store
  <2>3. QED
    BY <1>2, <2>1, <2>2, NobodyNew
<1>5. CASE JoinSeen(h)
  <2>1. task'[h].pc \notin Writing /\ \A k \in Handler \ {h} : task'[k] = task[k]
    BY <1>1, <1>5 DEF JoinSeen, Goto, Done, Idle, Task, Writing
  <2>2. roster' = roster
    BY <1>5 DEF JoinSeen, store
  <2>3. QED
    BY <1>2, <2>1, <2>2, NobodyNew
<1>6. CASE JoinPut(h)
  <2>1. task'[h].pc \notin Writing /\ \A k \in Handler \ {h} : task'[k] = task[k]
    BY <1>1, <1>6 DEF JoinPut, Goto, Task, Writing
  <2>2. task[h].pid \in Crowd
    BY <1>6 DEF JoinPut, Crowd, Pending
  <2>3. \A p \in Pid : roster'[p] # None => p = task[h].pid \/ roster[p] # None
    BY <1>1, <1>6 DEF JoinPut
  <2>4. QED
    BY <1>2, <2>1, <2>2, <2>3, NobodyNew
<1>7. CASE JoinTouch(h)
  <2>1. task'[h].pc \notin Writing /\ \A k \in Handler \ {h} : task'[k] = task[k]
    BY <1>1, <1>7 DEF JoinTouch, Goto, Done, Idle, Task, Writing
  <2>2. roster' = roster
    BY <1>7 DEF JoinTouch, store
  <2>3. QED
    BY <1>2, <2>1, <2>2, NobodyNew
<1>8. CASE JoinList(h)
  <2>1. task'[h].pc \notin Writing /\ \A k \in Handler \ {h} : task'[k] = task[k]
    <3>1. CASE Done(h)
      BY <1>1, <3>1 DEF Done, Idle, Writing
    <3>2. CASE task' = [task EXCEPT ![h].pc = "signal", ![h].list = Members]
      BY <1>1, <3>2 DEF Task, Writing
    <3> QED
      BY <1>8, <3>1, <3>2 DEF JoinList
  <2>2. roster' = roster
    BY <1>8 DEF JoinList, store
  <2>3. QED
    BY <1>2, <2>1, <2>2, NobodyNew
<1>9. CASE RelayJoin(h)
  <2>1. task'[h].pc \notin Writing /\ \A k \in Handler \ {h} : task'[k] = task[k]
    BY <1>1, <1>9 DEF RelayJoin, Goto, Done, Idle, Task, Writing
  <2>2. roster' = roster
    BY <1>9 DEF RelayJoin, store
  <2>3. QED
    BY <1>2, <2>1, <2>2, NobodyNew
<1>10. QED
  BY <1>3, <1>4, <1>5, <1>6, <1>7, <1>8, <1>9 DEF JoinStep

LEMMA SignalCrowd ==
  ASSUME IInv, NEW h \in Handler, SignalStep(h)
  PROVE  Crowd' \subseteq Crowd
<1>1. task \in [Handler -> Task] /\ roster \in [Pid -> Session \cup {None}] /\ task[h] \in Task /\ TaskOK(h, task[h])
  BY DEF IInv, TypeOK, TaskInv
<1>2. \A p \in Pid : roster[p] # None => p \in Crowd
  BY DEF Members, Crowd
<1>3. CASE Signal(h)
  <2>1. task[h].pid \in Pid
    BY <1>1, <1>3 DEF Signal, TaskOK
  <2>2. /\ task'[h].pc \in Writing => task'[h].pid \in Members
        /\ \A k \in Handler \ {h} : task'[k] = task[k]
    BY <1>1, <1>3, <2>1 DEF Signal, Goto, Done, Idle, Task, Writing, Members
  <2>3. roster' = roster
    BY <1>3 DEF Signal, store
  <2>4. QED
    BY <1>2, <2>2, <2>3, NobodyNew
<1>4. CASE SignalRefresh(h)
  <2>1. task'[h].pc \notin Writing /\ \A k \in Handler \ {h} : task'[k] = task[k]
    BY <1>1, <1>4 DEF SignalRefresh, Goto, Task, Writing
  <2>2. task[h].pid \in Crowd
    BY <1>4 DEF SignalRefresh, Crowd, Pending
  <2>3. \A p \in Pid : roster'[p] # None => p = task[h].pid \/ roster[p] # None
    BY <1>1, <1>4 DEF SignalRefresh
  <2>4. QED
    BY <1>2, <2>1, <2>2, <2>3, NobodyNew
<1>5. CASE PutSignal(h)
  <2>1. task'[h].pc \notin Writing /\ \A k \in Handler \ {h} : task'[k] = task[k]
    BY <1>1, <1>5 DEF PutSignal, Goto, Done, Idle, Task, Writing
  <2>2. roster' = roster
    BY <1>5 DEF PutSignal, store
  <2>3. QED
    BY <1>2, <2>1, <2>2, NobodyNew
<1>6. CASE RelaySignal(h)
  <2>1. task'[h].pc \notin Writing /\ \A k \in Handler \ {h} : task'[k] = task[k]
    BY <1>1, <1>6 DEF RelaySignal, Goto, Done, Idle, Task, Writing
  <2>2. roster' = roster
    BY <1>6 DEF RelaySignal, store
  <2>3. QED
    BY <1>2, <2>1, <2>2, NobodyNew
<1>7. QED
  BY <1>3, <1>4, <1>5, <1>6 DEF SignalStep

LEMMA LeaveCrowd ==
  ASSUME IInv, NEW h \in Handler, LeaveStep(h)
  PROVE  Crowd' \subseteq Crowd
<1>1. task \in [Handler -> Task] /\ roster \in [Pid -> Session \cup {None}] /\ task[h] \in Task /\ TaskOK(h, task[h])
  BY DEF IInv, TypeOK, TaskInv
<1>2. \A p \in Pid : roster[p] # None => p \in Crowd
  BY DEF Members, Crowd
<1>3. CASE LeaveRead(h)
  <2>1. task'[h].pc \notin Writing /\ \A k \in Handler \ {h} : task'[k] = task[k]
    BY <1>1, <1>3 DEF LeaveRead, Goto, Done, Idle, Task, Writing
  <2>2. roster' = roster
    BY <1>3 DEF LeaveRead, store
  <2>3. QED
    BY <1>2, <2>1, <2>2, NobodyNew
<1>4. CASE LeaveRoom(h)
  <2>1. task'[h].pc \notin Writing /\ \A k \in Handler \ {h} : task'[k] = task[k]
    BY <1>1, <1>4 DEF LeaveRoom, Goto, Done, Idle, Task, Writing
  <2>2. roster' = roster
    BY <1>4 DEF LeaveRoom, store
  <2>3. QED
    BY <1>2, <2>1, <2>2, NobodyNew
<1>5. CASE LeaveSeen(h)
  <2>1. task'[h].pc \notin Writing /\ \A k \in Handler \ {h} : task'[k] = task[k]
    BY <1>1, <1>5 DEF LeaveSeen, Goto, Done, Idle, Task, Writing
  <2>2. roster' = roster
    BY <1>5 DEF LeaveSeen, store
  <2>3. QED
    BY <1>2, <2>1, <2>2, NobodyNew
<1>6. CASE LeaveDelete(h)
  <2>1. task'[h].pc \notin Writing /\ \A k \in Handler \ {h} : task'[k] = task[k]
    BY <1>1, <1>6 DEF LeaveDelete, Goto, Task, Writing
  <2>2. \A p \in Pid : roster'[p] # None => roster[p] # None
    BY <1>1, <1>6 DEF LeaveDelete
  <2>3. QED
    BY <1>2, <2>1, <2>2, NobodyNew
<1>7. CASE LeaveTouch(h)
  <2>1. task'[h].pc \notin Writing /\ \A k \in Handler \ {h} : task'[k] = task[k]
    BY <1>1, <1>7 DEF LeaveTouch, Goto, Done, Idle, Task, Writing
  <2>2. roster' = roster
    BY <1>7 DEF LeaveTouch, store
  <2>3. QED
    BY <1>2, <2>1, <2>2, NobodyNew
<1>8. CASE RelayLeave(h)
  <2>1. task'[h].pc \notin Writing /\ \A k \in Handler \ {h} : task'[k] = task[k]
    BY <1>1, <1>8 DEF RelayLeave, Goto, Done, Idle, Task, Writing
  <2>2. roster' = roster
    BY <1>8 DEF RelayLeave, store
  <2>3. QED
    BY <1>2, <2>1, <2>2, NobodyNew
<1>9. QED
  BY <1>3, <1>4, <1>5, <1>6, <1>7, <1>8 DEF LeaveStep

LEMMA AdminCrowd ==
  ASSUME IInv, NEW h \in Handler, AdminStep(h)
  PROVE  Crowd' \subseteq Crowd
<1>1. task \in [Handler -> Task] /\ roster \in [Pid -> Session \cup {None}] /\ task[h] \in Task /\ TaskOK(h, task[h])
  BY DEF IInv, TypeOK, TaskInv
<1>2. \A p \in Pid : roster[p] # None => p \in Crowd
  BY DEF Members, Crowd
<1>3. CASE RoomRead(h)
  <2>1. task'[h].pc \notin Writing /\ \A k \in Handler \ {h} : task'[k] = task[k]
    BY <1>1, <1>3 DEF RoomRead, Goto, Done, Idle, Task, Writing
  <2>2. roster' = roster
    BY <1>3 DEF RoomRead, store
  <2>3. QED
    BY <1>2, <2>1, <2>2, NobodyNew
<1>4. CASE RoomWrite(h)
  <2>1. task'[h].pc \notin Writing /\ \A k \in Handler \ {h} : task'[k] = task[k]
    BY <1>1, <1>4 DEF RoomWrite, Goto, Done, Idle, Task, Writing
  <2>2. roster' = roster
    BY <1>4 DEF RoomWrite, store
  <2>3. QED
    BY <1>2, <2>1, <2>2, NobodyNew
<1>5. CASE Kick(h)
  <2>1. task'[h].pc \notin Writing /\ \A k \in Handler \ {h} : task'[k] = task[k]
    BY <1>1, <1>5 DEF Kick, Goto, Done, Idle, Task, Writing
  <2>2. roster' = roster
    BY <1>5 DEF Kick, store
  <2>3. QED
    BY <1>2, <2>1, <2>2, NobodyNew
<1>6. CASE KickSeen(h)
  <2>1. task'[h].pc \notin Writing /\ \A k \in Handler \ {h} : task'[k] = task[k]
    BY <1>1, <1>6 DEF KickSeen, Goto, Done, Idle, Task, Writing
  <2>2. roster' = roster
    BY <1>6 DEF KickSeen, store
  <2>3. QED
    BY <1>2, <2>1, <2>2, NobodyNew
<1>7. CASE KickDelete(h)
  <2>1. task'[h].pc \notin Writing /\ \A k \in Handler \ {h} : task'[k] = task[k]
    BY <1>1, <1>7 DEF KickDelete, Goto, Task, Writing
  <2>2. \A p \in Pid : roster'[p] # None => roster[p] # None
    BY <1>1, <1>7 DEF KickDelete
  <2>3. QED
    BY <1>2, <2>1, <2>2, NobodyNew
<1>8. CASE KickTouch(h)
  <2>1. task'[h].pc \notin Writing /\ \A k \in Handler \ {h} : task'[k] = task[k]
    BY <1>1, <1>8 DEF KickTouch, Goto, Done, Idle, Task, Writing
  <2>2. roster' = roster
    BY <1>8 DEF KickTouch, store
  <2>3. QED
    BY <1>2, <2>1, <2>2, NobodyNew
<1>9. CASE Lift(h)
  <2>1. task'[h].pc \notin Writing /\ \A k \in Handler \ {h} : task'[k] = task[k]
    BY <1>1, <1>9 DEF Lift, Goto, Done, Idle, Task, Writing
  <2>2. roster' = roster
    BY <1>9 DEF Lift, store
  <2>3. QED
    BY <1>2, <2>1, <2>2, NobodyNew
<1>10. QED
  BY <1>3, <1>4, <1>5, <1>6, <1>7, <1>8, <1>9 DEF AdminStep

\* A request or a drop only starts a handler.
LEMMA ArrivalCrowd ==
  ASSUME IInv,
         \/ \E w \in Worker, op \in Ops, p \in Pid, s \in Sock \cup {None},
                   to \in Pid \cup {None} : Request(w, op, p, s, to)
         \/ \E s \in Sock : Drop(s)
  PROVE  Crowd' \subseteq Crowd
<1>1. task \in [Handler -> Task] /\ \A p \in Pid : roster[p] # None => p \in Crowd
  BY DEF IInv, TypeOK, Members, Crowd
<1>2. CASE \E w \in Worker, op \in Ops, p \in Pid, s \in Sock \cup {None},
                   to \in Pid \cup {None} : Request(w, op, p, s, to)
  <2>1. PICK w \in Worker, op \in Ops, p \in Pid, s \in Sock \cup {None},
                   to \in Pid \cup {None} : Request(w, op, p, s, to)
    BY <1>2
  <2>2. FirstStep[op] \notin Writing
    <3>1. op \in AllOps
      OBVIOUS
    <3> HIDE ServerAssumption
    <3> QED
      BY <3>1 DEF FirstStep, AllOps, Writing
  <2>3. task'[w].pc \notin Writing /\ \A k \in Handler \ {w} : task'[k] = task[k]
    BY <1>1, <2>1, <2>2 DEF Request, Start, Idle
  <2>4. QED
    BY <1>1, <2>1, <2>3, NobodyNew DEF Request, store
<1>3. CASE \E s \in Sock : Drop(s)
  <2>1. PICK s \in Sock : Drop(s)
    BY <1>3
  <2>2. task[s].pc \notin Writing
    BY DEF IInv, TaskInv, TaskOK, DropPcs, SeenPcs, Writing
  <2>3. task'[s].pc \notin Writing /\ \A k \in Handler \ {s} : task'[k] = task[k]
    BY <1>1, <2>1, <2>2 DEF Drop, Start, Idle, Writing
  <2>4. QED
    BY <1>1, <2>1, <2>3, NobodyNew DEF Drop, store
<1>4. QED
  BY <1>2, <1>3

\* The step that may add somebody: joinRoom's count.
LEMMA CountBounds ==
  ASSUME IInv, IInv', OvershootBounded, NEW h \in Handler, JoinCount(h)
  PROVE  OvershootBounded'
<1>1. roster' = roster /\ Members' = Members
  BY DEF JoinCount, store, Members
<1>2. CASE Full
  <2>1. task'[h].pc \notin Writing /\ \A k \in Handler \ {h} : task'[k] = task[k]
    BY <1>2 DEF IInv, TypeOK, JoinCount, Done, Idle, Writing
  <2>2. Crowd' \subseteq Crowd
    BY <1>1, <2>1, NobodyNew DEF Members, Crowd
  <2>3. Cardinality(Crowd') <= Cardinality(Crowd) /\ Cardinality(Crowd') \in Nat
    BY <2>2, CrowdFinite, FS_Subset, FS_CardinalityType
  <2>4. QED
    BY <2>3, CrowdFinite, FS_CardinalityType DEF OvershootBounded, Crowd
<1>3. CASE ~Full
  <2>1. Cardinality(Members) <= Cap - 1 /\ Cardinality(Members) \in Nat /\ IsFiniteSet(Members)
    BY <1>3, CrowdFinite DEF Full
  <2>2. IsFiniteSet(Pending') /\ Cardinality(Pending') <= Cardinality(Worker)
    <3>1. \A s \in Sock : task'[s].pc \notin Writing
      BY DEF IInv, TaskInv, TaskOK, DropPcs, SeenPcs, Writing
    <3>2. Pending' = PendingIn(task')
      BY DEF Pending, PendingIn, Writing
    <3>3. QED
      BY <3>1, <3>2, PendingBounded
  <2>3. Cardinality(Crowd') = Cardinality(Members) + Cardinality(Pending') - Cardinality(Members \cap Pending')
    BY <1>1, <2>1, <2>2, FS_Union DEF Crowd
  <2>4. Cardinality(Members \cap Pending') \in Nat /\ Cardinality(Pending') \in Nat
        /\ Cardinality(Worker) \in Nat
    BY <2>1, <2>2, FS_Subset, FS_CardinalityType
  <2>5. QED
    BY <2>1, <2>2, <2>3, <2>4 DEF OvershootBounded, Crowd
<1>4. QED
  BY <1>2, <1>3

\* However requests interleave, the room is over its capacity by at most the
\* number of other requests that can run at the same time.
THEOREM CapacityOvershoot == Spec => []OvershootBounded
<1>1. Init => IInv /\ OvershootBounded
  <2> SUFFICES ASSUME Init PROVE OvershootBounded
    BY InitOK
  <2>1. Members \cup Pending = {}
    BY DEF Init, Members, Pending, Idle
  <2>2. Cardinality(Worker) \in Nat
    BY FS_CardinalityType
  <2>3. Cardinality(Members \cup Pending) = 0
    BY <2>1, FS_EmptySet
  <2>4. QED
    BY <2>2, <2>3 DEF OvershootBounded
<1>2. IInv /\ [Next]_vars => IInv'
  BY NextOK
<1>3. IInv /\ IInv' /\ OvershootBounded /\ [Next]_vars => OvershootBounded'
  <2> SUFFICES ASSUME IInv, IInv', OvershootBounded, [Next]_vars PROVE OvershootBounded'
    OBVIOUS
  <2>1. CASE Crowd' \subseteq Crowd
    <3>1. Cardinality(Crowd') <= Cardinality(Crowd) /\ Cardinality(Crowd') \in Nat
      BY <2>1, CrowdFinite, FS_Subset, FS_CardinalityType
    <3>2. QED
      BY <3>1, CrowdFinite, FS_CardinalityType DEF OvershootBounded, Crowd
  <2>2. CASE \E h \in Handler : JoinCount(h)
    BY <2>2, CountBounds
  <2>3. CASE UNCHANGED vars
    BY <2>3, <2>1 DEF vars, store, relay, policy, Crowd, Members, Pending
  <2>4. QED
    BY <2>1, <2>2, <2>3, JoinCrowd, SignalCrowd, LeaveCrowd, AdminCrowd, ArrivalCrowd
       DEF Next, Step
<1>4. QED
  BY <1>1, <1>2, <1>3, PTL DEF Spec
-----------------------------------------------------------------------------
(* What the relay sends and what the log holds.                            *)

\* The number a handler relays is that of the entry it stored; an entry an
\* attached socket lacks is about to be relayed; a close handler runs only
\* once its socket is gone.
RelayInv ==
    /\ \A s \in Sock : got[s] \subseteq 1..Len(log)
    /\ \A h \in Handler : task[h].pc = "relay" =>
         task[h].seq \in 1..Len(log) /\ log[task[h].seq].pid = task[h].pid
    /\ \A s \in open : hub[s] # None =>
         \A n \in hub[s].since + 1..Len(log) :
            \/ log[n].pid = hub[s].pid \/ n \in got[s]
            \/ \E h \in Handler : task[h].pc = "relay" /\ task[h].seq = n
    /\ \A s \in open : task[s].pc = "idle"

\* A step of one handler that touches neither the log nor what was relayed,
\* and starts or ends no relaying.
LEMMA QuietStep ==
  ASSUME IInv, RelayInv, NEW h \in Handler,
         task[h].pc # "relay", task'[h].pc # "relay",
         task'[h].pc = "idle" \/ task[h].pc # "idle" \/ h \notin open',
         \A k \in Handler \ {h} : task'[k] = task[k],
         log' = log, got' = got, open' \subseteq open,
         \A s \in Sock : hub'[s] = hub[s] \/ hub'[s] = None
  PROVE  RelayInv'
<1>1. open \subseteq Sock /\ open' \subseteq Sock
  BY DEF IInv, TypeOK
<1>2. \A s \in Sock : got'[s] \subseteq 1..Len(log')
  BY DEF RelayInv
<1>3. \A k \in Handler : task'[k].pc = "relay" =>
         task'[k].seq \in 1..Len(log') /\ log'[task'[k].seq].pid = task'[k].pid
  BY DEF RelayInv
<1>4. ASSUME NEW s \in open', hub'[s] # None, NEW n \in hub'[s].since + 1..Len(log')
      PROVE  \/ log'[n].pid = hub'[s].pid \/ n \in got'[s]
             \/ \E k \in Handler : task'[k].pc = "relay" /\ task'[k].seq = n
  <2>1. s \in open /\ s \in Sock /\ hub[s] = hub'[s] /\ hub[s] # None
    BY <1>1, <1>4
  <2>2. \/ log[n].pid = hub[s].pid \/ n \in got[s]
        \/ \E k \in Handler : task[k].pc = "relay" /\ task[k].seq = n
    BY <1>4, <2>1 DEF RelayInv
  <2> QED
    BY <2>1, <2>2
<1>5. \A s \in open' : task'[s].pc = "idle"
  BY <1>1 DEF RelayInv
<1> QED
  BY <1>2, <1>3, <1>4, <1>5 DEF RelayInv

\* A handler that relays entry n of p to every attached socket but p's own,
\* and ends: nobody lacks n any more.
LEMMA RelayedStep ==
  ASSUME IInv, RelayInv, NEW h \in Handler, task[h].pc = "relay", Done(h),
         Relayed(Receivers(hub', task[h].pid), task[h].seq),
         log' = log, open' = open,
         \A s \in Sock : \/ hub'[s] = hub[s] \/ hub'[s] = None
                         \/ hub'[s].since = Len(log)
  PROVE  RelayInv'
<1>1. open \subseteq Sock /\ task \in [Handler -> Task] /\ log \in Seq([pid : Pid, to : Pid \cup {None}])
  BY DEF IInv, TypeOK
<1>2. task'[h].pc = "idle" /\ \A k \in Handler \ {h} : task'[k] = task[k]
  BY <1>1 DEF Done, Idle
<1>3. task[h].seq \in 1..Len(log) /\ log[task[h].seq].pid = task[h].pid
  BY DEF RelayInv
<1>4. \A s \in Sock : /\ got[s] \subseteq got'[s] /\ got'[s] \subseteq got[s] \cup {task[h].seq}
                      /\ s \in open /\ hub'[s] # None /\ hub'[s].pid # task[h].pid
                           => task[h].seq \in got'[s]
  BY DEF Relayed, Receivers
<1>5. \A s \in Sock : got'[s] \subseteq 1..Len(log')
  BY <1>3, <1>4 DEF RelayInv
<1>6. \A k \in Handler : task'[k].pc = "relay" =>
         task'[k].seq \in 1..Len(log') /\ log'[task'[k].seq].pid = task'[k].pid
  BY <1>2 DEF RelayInv
<1>7. ASSUME NEW s \in open', hub'[s] # None, NEW n \in hub'[s].since + 1..Len(log')
      PROVE  \/ log'[n].pid = hub'[s].pid \/ n \in got'[s]
             \/ \E k \in Handler : task'[k].pc = "relay" /\ task'[k].seq = n
  <2>1. s \in open /\ s \in Sock
    BY <1>1
  <2>2. CASE hub'[s].since = Len(log)
    BY <1>1, <1>7, <2>2
  <2>3. CASE hub'[s] = hub[s]
    <3>1. \/ log[n].pid = hub[s].pid \/ n \in got[s]
          \/ \E k \in Handler : task[k].pc = "relay" /\ task[k].seq = n
      BY <1>7, <2>1, <2>3 DEF RelayInv
    <3>2. CASE n = task[h].seq
      BY <1>3, <1>4, <1>7, <2>1, <3>2
    <3>3. CASE n # task[h].seq
      BY <1>2, <1>4, <2>1, <2>3, <3>1, <3>3
    <3> QED
      BY <3>2, <3>3
  <2> QED
    BY <1>7, <2>1, <2>2, <2>3
<1>8. \A s \in open' : task'[s].pc = "idle"
  BY <1>1, <1>2 DEF RelayInv
<1> QED
  BY <1>5, <1>6, <1>7, <1>8 DEF RelayInv

LEMMA PutSignalRelay ==
  ASSUME IInv, RelayInv, NEW h \in Handler, PutSignal(h)
  PROVE  RelayInv'
<1>1. /\ open \subseteq Sock /\ task \in [Handler -> Task] /\ log \in Seq([pid : Pid, to : Pid \cup {None}]) /\ task[h].pid \in Pid
      /\ hub \in [Sock -> [pid : Pid, since : Nat] \cup {None}]
  BY DEF IInv, TypeOK, TaskInv, TaskOK, PutSignal
<1>2. /\ task'[h].pc = "relay" /\ task'[h].seq = Len(log) + 1 /\ task'[h].pid = task[h].pid
      /\ \A k \in Handler \ {h} : task'[k] = task[k]
  BY <1>1 DEF PutSignal, Task
<1>3. /\ Len(log') = Len(log) + 1 /\ Len(log) \in Nat /\ log'[Len(log) + 1].pid = task[h].pid
      /\ \A n \in 1..Len(log) : log'[n] = log[n]
  BY <1>1 DEF PutSignal
<1>4. got' = got /\ hub' = hub /\ open' = open
  BY DEF PutSignal, relay
<1>5. \A s \in Sock : got'[s] \subseteq 1..Len(log')
  BY <1>3, <1>4 DEF RelayInv
<1>6. \A k \in Handler : task'[k].pc = "relay" =>
         task'[k].seq \in 1..Len(log') /\ log'[task'[k].seq].pid = task'[k].pid
  BY <1>2, <1>3 DEF RelayInv
<1>7. ASSUME NEW s \in open', hub'[s] # None, NEW n \in hub'[s].since + 1..Len(log')
      PROVE  \/ log'[n].pid = hub'[s].pid \/ n \in got'[s]
             \/ \E k \in Handler : task'[k].pc = "relay" /\ task'[k].seq = n
  <2>1. CASE n = Len(log) + 1
    BY <1>2, <2>1
  <2>2. CASE n # Len(log) + 1
    <3>1. hub[s].since \in Nat
      BY <1>1, <1>4, <1>7
    <3>2. n \in hub[s].since + 1..Len(log) /\ n \in 1..Len(log)
      BY <1>3, <1>4, <1>7, <2>2, <3>1
    <3>3. \/ log[n].pid = hub[s].pid \/ n \in got[s]
          \/ \E k \in Handler : task[k].pc = "relay" /\ task[k].seq = n
      BY <1>4, <1>7, <3>2 DEF RelayInv
    <3>4. \A k \in Handler : task[k].pc = "relay" => k # h
      BY DEF PutSignal
    <3> QED
      BY <1>2, <1>3, <1>4, <3>2, <3>3, <3>4
  <2> QED
    BY <2>1, <2>2
<1>8. \A s \in open' : task'[s].pc = "idle"
  BY <1>1, <1>2, <1>4 DEF RelayInv, PutSignal
<1> QED
  BY <1>5, <1>6, <1>7, <1>8 DEF RelayInv

LEMMA StepRelay ==
  ASSUME IInv, RelayInv, NEW h \in Handler, Step(h)
  PROVE  RelayInv'
<1>1. /\ open \subseteq Sock /\ task \in [Handler -> Task] /\ task[h] \in Task
      /\ hub \in [Sock -> [pid : Pid, since : Nat] \cup {None}]
  BY DEF IInv, TypeOK
<1>2. CASE PutSignal(h)
  BY <1>2, PutSignalRelay
<1>3. CASE RelayJoin(h) \/ RelaySignal(h) \/ RelayLeave(h)
  <2>1. /\ task[h].pc = "relay" /\ Done(h) /\ log' = log /\ open' = open
        /\ Relayed(Receivers(hub', task[h].pid), task[h].seq)
    <3>1. CASE RelayJoin(h)
      BY <3>1 DEF RelayJoin, store
    <3>2. CASE RelaySignal(h)
      <4>1. hub' = hub /\ log' = log
        BY <3>2 DEF RelaySignal, store
      <4> QED
        BY <3>2, <4>1 DEF RelaySignal
    <3>3. CASE RelayLeave(h)
      BY <3>3 DEF RelayLeave, store
    <3> QED
      BY <1>3, <3>1, <3>2, <3>3
  <2>2. \A s \in Sock : \/ hub'[s] = hub[s] \/ hub'[s] = None \/ hub'[s].since = Len(log)
    <3>1. CASE RelayJoin(h)
      BY <1>1, <3>1 DEF RelayJoin, Bound
    <3>2. CASE RelaySignal(h)
      BY <3>2 DEF RelaySignal
    <3>3. CASE RelayLeave(h)
      BY <1>1, <3>3 DEF RelayLeave
    <3> QED
      BY <1>3, <3>1, <3>2, <3>3
  <2> QED
    BY <2>1, <2>2, RelayedStep
<1>4. CASE JoinStep(h) /\ ~RelayJoin(h)
  <2>1. /\ log' = log /\ got' = got /\ open' \subseteq open /\ hub' = hub
        /\ task[h].pc \notin {"idle", "relay"}
        /\ \/ Done(h)
           \/ \E pc \in Pc \ {"relay"} : Goto(h, pc)
           \/ task' = [task EXCEPT ![h].pc = "joinSeen", ![h].row = room]
           \/ task' = [task EXCEPT ![h].pc = "signal", ![h].list = Members]
    BY <1>4 DEF JoinStep, JoinPolicy, JoinRoom, JoinSeen, JoinCount, JoinPut, JoinTouch,
                JoinList, store, relay, Pc
  <2>2. task'[h].pc # "relay" /\ \A k \in Handler \ {h} : task'[k] = task[k]
    BY <1>1, <2>1 DEF Done, Idle, Goto, Task
  <2> QED
    BY <2>1, <2>2, QuietStep
<1>5. CASE Signal(h) \/ SignalRefresh(h)
  <2>1. /\ log' = log /\ got' = got /\ open' = open /\ hub' = hub
        /\ task[h].pc \notin {"idle", "relay"}
        /\ \/ Done(h)
           \/ \E pc \in Pc \ {"relay"} : Goto(h, pc)
           \/ task' = [task EXCEPT ![h].pc = "refresh", ![h].seen = roster[task[h].pid]]
    BY <1>5 DEF Signal, SignalRefresh, store, relay, Pc
  <2>2. task'[h].pc # "relay" /\ \A k \in Handler \ {h} : task'[k] = task[k]
    BY <1>1, <2>1 DEF Done, Idle, Goto, Task
  <2> QED
    BY <2>1, <2>2, QuietStep
<1>6. CASE LeaveStep(h) /\ ~RelayLeave(h)
  <2>1. /\ log' = log /\ got' = got /\ open' = open
        /\ task[h].pc \notin {"idle", "relay"}
        /\ \/ Done(h)
           \/ \E pc \in Pc \ {"relay"} : Goto(h, pc)
           \/ task' = [task EXCEPT ![h].pc = "leave", ![h].seen = roster[task[h].pid]]
           \/ task' = [task EXCEPT ![h].pc = "leaveSeen", ![h].row = room]
    BY <1>6 DEF LeaveStep, LeaveRead, LeaveRoom, LeaveSeen, LeaveDelete, LeaveTouch,
                store, relay, Pc
  <2>2. task'[h].pc # "relay" /\ \A k \in Handler \ {h} : task'[k] = task[k]
    BY <1>1, <2>1 DEF Done, Idle, Goto, Task
  <2>3. \A s \in Sock : hub'[s] = hub[s] \/ hub'[s] = None
    BY <1>1, <1>6 DEF LeaveStep, LeaveRead, LeaveRoom, LeaveSeen, LeaveDelete, LeaveTouch, relay
  <2> QED
    BY <2>1, <2>2, <2>3, QuietStep
<1>7. CASE AdminStep(h)
  <2>1. /\ log' = log /\ got' = got /\ open' = open /\ hub' = hub
        /\ task[h].pc \notin {"idle", "relay"}
        /\ \/ Done(h)
           \/ \E pc \in Pc \ {"relay"} : Goto(h, pc)
           \/ \E pc \in Pc \ {"relay"} : task' = [task EXCEPT ![h].pc = pc, ![h].row = room]
    BY <1>7 DEF AdminStep, RoomRead, RoomWrite, Kick, KickSeen, KickDelete, KickTouch, Lift,
                store, relay, Pc
  <2>2. task'[h].pc # "relay" /\ \A k \in Handler \ {h} : task'[k] = task[k]
    <3>1. CASE Done(h)
      BY <1>1, <3>1 DEF Done, Idle
    <3>2. ASSUME NEW pc \in Pc \ {"relay"}, Goto(h, pc)
          PROVE  task'[h].pc = pc /\ \A k \in Handler \ {h} : task'[k] = task[k]
      BY <1>1, <3>2 DEF Goto, Task
    <3>3. ASSUME NEW pc \in Pc \ {"relay"}, task' = [task EXCEPT ![h].pc = pc, ![h].row = room]
          PROVE  task'[h].pc = pc /\ \A k \in Handler \ {h} : task'[k] = task[k]
      BY <1>1, <3>3 DEF Task
    <3> QED
      BY <2>1, <3>1, <3>2, <3>3
  <2> QED
    BY <2>1, <2>2, QuietStep
<1> QED
  BY <1>2, <1>3, <1>4, <1>5, <1>6, <1>7 DEF Step, SignalStep

LEMMA ArrivalRelay ==
  ASSUME IInv, RelayInv,
         \/ \E w \in Worker, op \in Ops, p \in Pid, s \in Sock \cup {None},
                   to \in Pid \cup {None} : Request(w, op, p, s, to)
         \/ \E s \in Sock : Drop(s)
  PROVE  RelayInv'
<1>1. task \in [Handler -> Task] /\ open \subseteq Sock
  BY DEF IInv, TypeOK
<1>2. ASSUME NEW w \in Worker, NEW op \in Ops, NEW p \in Pid, NEW s \in Sock \cup {None},
             NEW to \in Pid \cup {None}, Request(w, op, p, s, to)
      PROVE  RelayInv'
  <2>1. FirstStep[op] # "relay"
    BY DEF FirstStep, AllOps
  <2>2. /\ task[w].pc = "idle" /\ task'[w].pc # "relay" /\ w \notin open'
        /\ \A k \in Handler \ {w} : task'[k] = task[k]
        /\ log' = log /\ got' = got /\ open' = open /\ hub' = hub
    BY <1>1, <1>2, <2>1 DEF Request, Start, Idle, store, relay
  <2> QED
    BY <2>2, QuietStep
<1>3. ASSUME NEW s \in Sock, Drop(s)
      PROVE  RelayInv'
  <2>1. task[s].pc = "idle"
    BY <1>3 DEF Drop, RelayInv
  <2>2. /\ task'[s].pc # "relay" /\ s \notin open' /\ open' \subseteq open
        /\ \A k \in Handler \ {s} : task'[k] = task[k]
        /\ log' = log /\ got' = got /\ hub' = hub
    BY <1>1, <1>3, <2>1 DEF Drop, Start, Idle, store
  <2> QED
    BY <2>1, <2>2, QuietStep
<1> QED
  BY <1>2, <1>3

LEMMA RelayKept ==
  ASSUME IInv, RelayInv, [Next]_vars
  PROVE  RelayInv'
<1>1. CASE UNCHANGED vars
  BY <1>1 DEF vars, RelayInv
<1> QED
  BY <1>1, StepRelay, ArrivalRelay DEF Next

\* However requests, drops and administration interleave, and whoever a connection speaks
\* for: what a socket is sent as an entry of the log is one, and an idle server has sent
\* every attached client all entries of the others since it was attached, the targeted ones
\* of its participant among them.
THEOREM RelaySound == Spec => []RelayMatchesLog
<1>1. Init => IInv /\ RelayInv
  <2> SUFFICES ASSUME Init PROVE RelayInv
    BY InitOK
  <2> QED
    BY DEF Init, RelayInv, Idle
<1>2. IInv /\ RelayInv /\ [Next]_vars => IInv' /\ RelayInv'
  BY NextOK, RelayKept
<1>3. IInv /\ RelayInv => RelayMatchesLog
  <2> SUFFICES ASSUME IInv, RelayInv PROVE RelayMatchesLog
    OBVIOUS
  <2>1. Quiet => \A h \in Handler : task[h].pc # "relay"
    BY DEF Quiet
  <2> QED
    BY <2>1 DEF RelayInv, RelayMatchesLog
<1> QED
  BY <1>1, <1>2, <1>3, PTL DEF Spec
-----------------------------------------------------------------------------
(* The roster, what the sockets were told of it, and the hub.              *)

HoldPcs == {"leaveRead", "leave", "leaveSeen", "leaveDelete"}

\* The close handler of s is about to take p out; a ban of p is.
Removing(s, p) == task[s].pc \in HoldPcs /\ task[s].op = "drop" /\ task[s].pid = p
Expelling(h, p) == task[h].pc \in {"kickSeen", "kickDelete"} /\ task[h].op = "ban" /\ task[h].pid = p

RosterInv ==
    /\ \A p \in Pid \ astray : \A s \in Sock \ open : roster[p] = s => Removing(s, p)
    /\ \A p \in (banned \cap Members) \ astray : \E h \in Handler : Expelling(h, p)

\* The handler has written its participant's row, or deleted it, and not yet told it.
Joined(h) == \/ task[h].pc \in {"joinTouch", "joinList"}
             \/ task[h].pc \in {"signal", "log", "relay"} /\ task[h].op = "wsJoin"
Gone(h) == \/ task[h].pc = "kickTouch"
           \/ task[h].pc = "leaveTouch" /\ Enveloped(h)
           \/ task[h].pc \in {"log", "relay"} /\ task[h].op \in LeaveOps
Untold(h, p) == (Joined(h) \/ Gone(h)) /\ task[h].pid = p

ToldOf(s, p) == p \in told[s] <=> p \in Members

ViewInv ==
    \A s \in open : hub[s] # None =>
        \A p \in Pid \ (hearsay \cup {hub[s].pid}) :
            ToldOf(s, p) \/ \E h \in Handler : Untold(h, p)

\* A connection that is gone and still in the hub has its close handler at work; a
\* connection whose join is under way is not in the hub, and has no other.
Connecting(h) == task[h].pc # "idle" /\ task[h].op = "wsJoin"
HubInv ==
    /\ \A s \in Sock \ open : hub[s] # None => s \in ghosts \/ task[s].pc # "idle"
    /\ \A h \in Worker : Connecting(h) => hub[task[h].sock] = None
    /\ \A h \in Worker, k \in Worker :
         Connecting(h) /\ Connecting(k) /\ task[h].sock = task[k].sock => h = k

LEMMA HandlerFacts ==
  ASSUME IInv, NEW h \in Handler
  PROVE  /\ task \in [Handler -> Task] /\ task[h] \in Task /\ TaskOK(h, task[h])
         /\ roster \in [Pid -> Session \cup {None}] /\ open \subseteq Sock
         /\ hub \in [Sock -> [pid : Pid, since : Nat] \cup {None}]
         /\ told \in [Sock -> SUBSET Pid]
         /\ astray \subseteq Pid /\ banned \subseteq Pid /\ hearsay \subseteq Pid
BY DEF IInv, TypeOK, TaskInv

\* A step of a handler goes on with the same operation or ends it.
LEMMA StepMoves ==
  ASSUME IInv, NEW h \in Handler, Step(h)
  PROVE  /\ task[h].pc # "idle"
         /\ \/ Done(h)
            \/ \E pc \in Pc : Goto(h, pc)
            \/ \E pc \in Pc : task' = [task EXCEPT ![h].pc = pc, ![h].row = room]
            \/ \E pc \in Pc : task' = [task EXCEPT ![h].pc = pc, ![h].seen = roster[task[h].pid]]
            \/ \E pc \in Pc : task' = [task EXCEPT ![h].pc = pc, ![h].list = Members]
            \/ \E pc \in Pc : task' = [task EXCEPT ![h].pc = pc, ![h].seq = Len(log) + 1]
<1>1. CASE JoinStep(h)
  BY <1>1 DEF JoinStep, JoinPolicy, JoinRoom, JoinSeen, JoinCount, JoinPut, JoinTouch, JoinList,
              RelayJoin, Pc
<1>2. CASE SignalStep(h)
  BY <1>2 DEF SignalStep, Signal, SignalRefresh, PutSignal, RelaySignal, Pc
<1>3. CASE LeaveStep(h)
  BY <1>3 DEF LeaveStep, LeaveRead, LeaveRoom, LeaveSeen, LeaveDelete, LeaveTouch, RelayLeave, Pc
<1>4. CASE AdminStep(h)
  BY <1>4 DEF AdminStep, RoomRead, RoomWrite, Kick, KickSeen, KickDelete, KickTouch, Lift, Pc
<1> QED
  BY <1>1, <1>2, <1>3, <1>4 DEF Step

LEMMA StepFrame ==
  ASSUME IInv, NEW h \in Handler, Step(h)
  PROVE  /\ task[h].pc # "idle" /\ \A k \in Handler \ {h} : task'[k] = task[k]
         /\ \/ task' = [task EXCEPT ![h] = Idle] /\ task'[h].pc = "idle"
            \/ /\ task'[h].pid = task[h].pid /\ task'[h].op = task[h].op
               /\ task'[h].sock = task[h].sock
<1>1. task \in [Handler -> Task] /\ task[h] \in Task
  BY HandlerFacts
<1>2. CASE Done(h)
  BY <1>1, <1>2, StepMoves DEF Done, Idle
<1>3. CASE \E pc \in Pc : Goto(h, pc)
  BY <1>1, <1>3, StepMoves DEF Goto, Task
<1>4. CASE \E pc \in Pc : task' = [task EXCEPT ![h].pc = pc, ![h].row = room]
  BY <1>1, <1>4, StepMoves DEF Task
<1>5. CASE \E pc \in Pc : task' = [task EXCEPT ![h].pc = pc, ![h].seen = roster[task[h].pid]]
  BY <1>1, <1>5, StepMoves DEF Task
<1>6. CASE \E pc \in Pc : task' = [task EXCEPT ![h].pc = pc, ![h].list = Members]
  BY <1>1, <1>6, StepMoves DEF Task
<1>7. CASE \E pc \in Pc : task' = [task EXCEPT ![h].pc = pc, ![h].seq = Len(log) + 1]
  BY <1>1, <1>7, StepMoves DEF Task
<1> QED
  BY <1>2, <1>3, <1>4, <1>5, <1>6, <1>7, StepMoves

-----------------------------------------------------------------------------
(* The roster.                                                             *)

\* Only h moves; rows that do not stray are as they were or are written for a session that
\* is up and a participant who is not banned; and h lets go of nobody who is in.
LEMMA RosterFrame ==
  ASSUME IInv, IInv', RosterInv, NEW h \in Handler, \A k \in Handler \ {h} : task'[k] = task[k],
         \A p \in Pid \ astray' : roster'[p] # None =>
            \/ /\ p \notin astray /\ roster'[p] = roster[p]
               /\ \A s \in open \ open' : roster[p] = s => Removing(s, p)'
            \/ roster'[p] \notin Sock \ open' /\ p \notin banned',
         \A p \in banned' \ banned : Expelling(h, p)',
         \A p \in Pid : h \in Sock /\ roster'[p] # None /\ Removing(h, p) => Removing(h, p)',
         \A p \in Pid : roster'[p] # None /\ Expelling(h, p) => Expelling(h, p)'
  PROVE  RosterInv'
<1>1. ASSUME NEW p \in Pid \ astray', NEW s \in Sock \ open', roster'[p] = s
      PROVE  Removing(s, p)'
  <2>1. p \notin astray /\ roster'[p] = roster[p] /\ (s \in open => Removing(s, p)')
    BY <1>1
  <2>2. CASE s \in open
    BY <2>1, <2>2
  <2>3. CASE s \notin open
    <3>1. Removing(s, p)
      BY <1>1, <2>1, <2>3 DEF RosterInv
    <3>2. CASE s = h
      BY <1>1, <3>1, <3>2
    <3>3. CASE s # h
      BY <3>1, <3>3 DEF Removing
    <3> QED
      BY <3>2, <3>3
  <2> QED
    BY <2>2, <2>3
<1>2. ASSUME NEW p \in (banned' \cap Members') \ astray'
      PROVE  \E k \in Handler : Expelling(k, p)'
  <2>1. p \in Pid /\ roster'[p] # None /\ p \notin astray /\ roster'[p] = roster[p]
    BY <1>2 DEF Members
  <2>2. CASE p \notin banned
    BY <1>2, <2>2
  <2>3. CASE p \in banned
    <3>1. PICK k \in Handler : Expelling(k, p)
      BY <2>1, <2>3 DEF RosterInv, Members
    <3> QED
      BY <2>1, <3>1 DEF Expelling
  <2> QED
    BY <2>2, <2>3
<1> QED
  BY <1>1, <1>2 DEF RosterInv

LEMMA JoinRoster ==
  ASSUME IInv, IInv', RosterInv, NEW h \in Handler, JoinStep(h)
  PROVE  RosterInv'
<1>1. \A k \in Handler \ {h} : task'[k] = task[k]
  BY StepFrame DEF Step
<1>2. /\ task[h].pid \in Pid /\ task[h].op \in JoinOps /\ h \notin Sock
      /\ task[h].op = "wsJoin" => task[h].sock \in Sock
  BY HandlerFacts DEF JoinStep, JoinPolicy, JoinRoom, JoinSeen, JoinCount, JoinPut, JoinTouch, JoinList,
                      RelayJoin, TaskOK, OpFits, JoinPcs, JoinOps, DropPcs, SeenPcs
<1>3. /\ roster \in [Pid -> Session \cup {None}] /\ \A p \in Pid : ~Expelling(h, p)
  BY <1>2, HandlerFacts DEF Expelling, JoinOps
<1>4. CASE JoinPolicy(h)
  <2>1. /\ roster' = roster /\ banned' = banned
        /\ \/ open' = open /\ astray' = astray
           \/ /\ open' = open \ {task[h].sock}
              /\ astray' = astray \cup {p \in Pid : roster[p] = task[h].sock}
    BY <1>4 DEF JoinPolicy, store, policy
  <2> QED
    BY <1>1, <1>2, <1>3, <2>1, RosterFrame
<1>5. CASE JoinPut(h)
  <2>1. /\ roster' = [roster EXCEPT ![task[h].pid] = SessionOf(h)]
        /\ banned' = banned /\ open' = open
        /\ astray' = IF task[h].pid \in banned \/ SessionOf(h) \in Sock \ open
                     THEN astray \cup {task[h].pid} ELSE astray \ {task[h].pid}
    BY <1>5 DEF JoinPut, policy, relay
  <2>2. \A p \in Pid \ {task[h].pid} : roster'[p] = roster[p] /\ (p \in astray' <=> p \in astray)
    BY <1>2, <1>3, <2>1
  <2>3. roster'[task[h].pid] = SessionOf(h)
    BY <1>2, <1>3, <2>1
  <2>4. \A p \in Pid \ astray' :
            \/ p \notin astray /\ roster'[p] = roster[p]
            \/ roster'[p] \notin Sock \ open' /\ p \notin banned'
    BY <2>1, <2>2, <2>3
  <2> QED
    BY <1>1, <1>2, <1>3, <2>1, <2>4, RosterFrame
<1>6. CASE ~JoinPolicy(h) /\ ~JoinPut(h)
  <2>1. roster' = roster /\ banned' = banned /\ open' = open /\ astray' = astray
    BY <1>6 DEF JoinStep, JoinRoom, JoinSeen, JoinCount, JoinTouch, JoinList, RelayJoin,
                store, policy, relay, doubts
  <2> QED
    BY <1>1, <1>2, <1>3, <2>1, RosterFrame
<1> QED
  BY <1>4, <1>5, <1>6

LEMMA SignalRoster ==
  ASSUME IInv, IInv', RosterInv, NEW h \in Handler, SignalStep(h)
  PROVE  RosterInv'
<1>1. \A k \in Handler \ {h} : task'[k] = task[k]
  BY StepFrame DEF Step
<1>2. /\ task[h].pid \in Pid /\ roster \in [Pid -> Session \cup {None}]
      /\ \A p \in Pid : ~Expelling(h, p) /\ ~Removing(h, p)
  <2>1. task[h].pid \in Pid /\ task[h].pc \in {"signal", "refresh", "log", "relay"}
    BY HandlerFacts DEF SignalStep, Signal, SignalRefresh, PutSignal, RelaySignal, TaskOK
  <2> QED
    BY <2>1, HandlerFacts DEF Expelling, Removing, HoldPcs
<1>3. CASE SignalRefresh(h)
  <2>1. /\ roster' = [roster EXCEPT ![task[h].pid] = task[h].seen]
        /\ banned' = banned /\ open' = open
        /\ astray' = IF roster[task[h].pid] # task[h].seen THEN astray \cup {task[h].pid} ELSE astray
    BY <1>3 DEF SignalRefresh, policy, relay
  <2>2. \A p \in Pid \ astray' : p \notin astray /\ roster'[p] = roster[p]
    BY <1>2, <2>1
  <2> QED
    BY <1>1, <1>2, <2>1, <2>2, RosterFrame
<1>4. CASE ~SignalRefresh(h)
  <2>1. roster' = roster /\ banned' = banned /\ open' = open /\ astray' = astray
    BY <1>4 DEF SignalStep, Signal, PutSignal, RelaySignal, store, policy, relay, doubts
  <2> QED
    BY <1>1, <1>2, <2>1, RosterFrame
<1> QED
  BY <1>3, <1>4

LEMMA LeaveRoster ==
  ASSUME IInv, IInv', RosterInv, NEW h \in Handler, LeaveStep(h)
  PROVE  RosterInv'
<1>1. /\ \A k \in Handler \ {h} : task'[k] = task[k]
      /\ task'[h].pc # "idle" => task'[h].pid = task[h].pid /\ task'[h].op = task[h].op
  BY StepFrame DEF Step
<1>2. /\ task[h].pid \in Pid /\ roster \in [Pid -> Session \cup {None}] /\ task \in [Handler -> Task]
      /\ task[h] \in Task
      /\ \A p \in Pid : ~Expelling(h, p) /\ (Removing(h, p) => p = task[h].pid)
  <2>1. task[h].pid \in Pid /\ task[h].pc \notin {"kickSeen", "kickDelete"}
    BY HandlerFacts DEF LeaveStep, LeaveRead, LeaveRoom, LeaveSeen, LeaveDelete, LeaveTouch, RelayLeave,
                        TaskOK
  <2> QED
    BY <2>1, HandlerFacts DEF Expelling, Removing
<1>3. CASE LeaveDelete(h)
  <2>1. /\ roster' = [roster EXCEPT ![task[h].pid] = None]
        /\ banned' = banned /\ open' = open /\ astray' = astray \ {task[h].pid}
    BY <1>3 DEF LeaveDelete, policy, relay
  <2>2. /\ roster'[task[h].pid] = None
        /\ \A p \in Pid \ {task[h].pid} : roster'[p] = roster[p] /\ (p \in astray' <=> p \in astray)
    BY <1>2, <2>1
  <2> QED
    BY <1>1, <1>2, <2>1, <2>2, RosterFrame
<1>4. CASE ~LeaveDelete(h)
  <2>1. roster' = roster /\ banned' = banned /\ open' = open /\ astray' = astray
    BY <1>4 DEF LeaveStep, LeaveRead, LeaveRoom, LeaveSeen, LeaveTouch, RelayLeave,
                store, policy, relay, doubts
  <2>2. task[h].op = "drop" /\ roster[task[h].pid] # None /\ task[h].pc \in HoldPcs
          => task'[h].pc \in HoldPcs
    <3>1. CASE LeaveRead(h)
      BY <1>2, <3>1 DEF LeaveRead, HoldPcs, Task
    <3>2. CASE LeaveRoom(h)
      BY <1>2, <3>2 DEF LeaveRoom, HoldPcs, Task
    <3>3. CASE LeaveSeen(h)
      BY <1>2, <3>3 DEF LeaveSeen, Goto, HoldPcs, Task
    <3>4. CASE LeaveTouch(h) \/ RelayLeave(h)
      BY <3>4 DEF LeaveTouch, RelayLeave, HoldPcs
    <3> QED
      BY <1>4, <3>1, <3>2, <3>3, <3>4 DEF LeaveStep
  <2>3. \A p \in Pid : roster'[p] # None /\ Removing(h, p) => Removing(h, p)'
    BY <1>1, <1>2, <2>1, <2>2 DEF Removing, HoldPcs
  <2> QED
    BY <1>1, <1>2, <2>1, <2>3, RosterFrame
<1> QED
  BY <1>3, <1>4

LEMMA AdminRoster ==
  ASSUME IInv, IInv', RosterInv, NEW h \in Handler, AdminStep(h)
  PROVE  RosterInv'
<1>1. /\ \A k \in Handler \ {h} : task'[k] = task[k]
      /\ task'[h].pc # "idle" => task'[h].pid = task[h].pid /\ task'[h].op = task[h].op
  BY StepFrame DEF Step
<1>2. /\ task[h].pid \in Pid /\ roster \in [Pid -> Session \cup {None}] /\ h \notin Sock
      /\ task \in [Handler -> Task] /\ task[h] \in Task /\ banned \subseteq Pid
      /\ \A p \in Pid : Expelling(h, p) => p = task[h].pid
  <2>1. task[h].pid \in Pid /\ h \notin Sock
    BY HandlerFacts DEF AdminStep, RoomRead, RoomWrite, Kick, KickSeen, KickDelete, KickTouch, Lift,
                        TaskOK, DropPcs, SeenPcs
  <2> QED
    BY <2>1, HandlerFacts DEF Expelling
<1>3. CASE Kick(h)
  <2>1. /\ roster' = roster /\ open' = open /\ astray' = astray
        /\ banned' = IF task[h].op = "ban" THEN banned \cup {task[h].pid} ELSE banned
        /\ task[h].pc = "kick" /\ task'[h].pc = "kickSeen"
    BY <1>2, <1>3 DEF Kick, store, relay, doubts, Task
  <2>2. \A p \in banned' \ banned : Expelling(h, p)'
    BY <1>1, <2>1 DEF Expelling
  <2>3. \A p \in Pid : ~Expelling(h, p)
    BY <2>1 DEF Expelling
  <2> QED
    BY <1>1, <1>2, <2>1, <2>2, <2>3, RosterFrame
<1>4. CASE KickSeen(h)
  <2>1. /\ roster' = roster /\ open' = open /\ astray' = astray /\ banned' = banned
        /\ roster[task[h].pid] # None => task'[h].pc = "kickDelete"
    BY <1>2, <1>4 DEF KickSeen, Goto, store, relay, policy, doubts, Task
  <2>2. \A p \in Pid : roster'[p] # None /\ Expelling(h, p) => Expelling(h, p)'
    BY <1>1, <1>2, <2>1 DEF Expelling
  <2> QED
    BY <1>1, <1>2, <2>1, <2>2, RosterFrame
<1>5. CASE KickDelete(h)
  <2>1. /\ roster' = [roster EXCEPT ![task[h].pid] = None]
        /\ banned' = banned /\ open' = open /\ astray' = astray \ {task[h].pid}
    BY <1>5 DEF KickDelete, policy, relay
  <2>2. /\ roster'[task[h].pid] = None
        /\ \A p \in Pid \ {task[h].pid} : roster'[p] = roster[p] /\ (p \in astray' <=> p \in astray)
    BY <1>2, <2>1
  <2> QED
    BY <1>1, <1>2, <2>1, <2>2, RosterFrame
<1>6. CASE RoomRead(h) \/ RoomWrite(h) \/ KickTouch(h) \/ Lift(h)
  <2>1. /\ roster' = roster /\ open' = open /\ astray' = astray /\ banned' \subseteq banned
        /\ task[h].pc \notin {"kickSeen", "kickDelete"}
    BY <1>6 DEF RoomRead, RoomWrite, KickTouch, Lift, store, relay, policy, doubts
  <2>2. \A p \in Pid : ~Expelling(h, p)
    BY <2>1 DEF Expelling
  <2> QED
    BY <1>1, <1>2, <2>1, <2>2, RosterFrame
<1> QED
  BY <1>3, <1>4, <1>5, <1>6 DEF AdminStep

LEMMA ArrivalRoster ==
  ASSUME IInv, IInv', RelayInv, RosterInv,
         \/ \E w \in Worker, op \in Ops, p \in Pid, s \in Sock \cup {None},
                   to \in Pid \cup {None} : Request(w, op, p, s, to)
         \/ \E s \in Sock : Drop(s)
  PROVE  RosterInv'
<1>1. task \in [Handler -> Task] /\ roster \in [Pid -> Session \cup {None}]
  BY DEF IInv, TypeOK
<1>2. ASSUME NEW w \in Worker, NEW op \in Ops, NEW q \in Pid, NEW s \in Sock \cup {None},
             NEW to \in Pid \cup {None}, Request(w, op, q, s, to)
      PROVE  RosterInv'
  <2>1. /\ roster' = roster /\ open' = open /\ astray' = astray /\ banned' = banned
        /\ task[w].pc = "idle" /\ \A k \in Handler \ {w} : task'[k] = task[k]
    BY <1>1, <1>2 DEF Request, store, policy, relay, doubts
  <2>2. w \in Handler /\ w \notin Sock /\ \A p \in Pid : ~Expelling(w, p)
    BY <2>1 DEF Expelling
  <2> QED
    BY <2>1, <2>2, RosterFrame
<1>3. ASSUME NEW s \in Sock, Drop(s) PROVE RosterInv'
  <2>1. /\ s \in open /\ task[s].pc = "idle" /\ open' = open \ {s}
        /\ roster' = roster /\ banned' = banned /\ astray' = astray \cup Stranded(s)
        /\ \A k \in Handler \ {s} : task'[k] = task[k]
    BY <1>1, <1>3 DEF Drop, RelayInv, store, policy
  <2>2. ASSUME NEW p \in Pid \ astray', roster[p] = s PROVE Removing(s, p)'
    <3>1. hub[s] # None /\ hub[s].pid = p
      BY <2>1, <2>2 DEF Stranded
    <3>2. task' = [task EXCEPT ![s] = Start("drop", "leaveRead", hub[s].pid, s)]
      BY <1>3, <3>1 DEF Drop
    <3>3. task'[s] = Start("drop", "leaveRead", p, s)
      BY <1>1, <3>1, <3>2
    <3> QED
      BY <3>3 DEF Start, Idle, Removing, HoldPcs
  <2>3. \A p \in Pid : ~Expelling(s, p) /\ ~Removing(s, p)
    BY <2>1 DEF Expelling, Removing, HoldPcs
  <2> QED
    BY <2>1, <2>2, <2>3, RosterFrame
<1> QED
  BY <1>2, <1>3

\* An idle server's roster holds nobody whose connection is gone and nobody who is banned,
\* whatever requests and drops ran beside each other; exempt are the rows that were written
\* too late, and those of a connection that went without being bound to their participant.
THEOREM RosterKept == Spec => []RosterHolds
<1>1. Init => IInv /\ RelayInv /\ RosterInv
  <2>1. Init => RelayInv
    BY DEF Init, RelayInv, Idle
  <2>2. Init => RosterInv
    BY DEF Init, RosterInv, Members
  <2> QED
    BY <2>1, <2>2, InitOK
<1>2. IInv /\ RelayInv /\ RosterInv /\ [Next]_vars => (IInv /\ RelayInv /\ RosterInv)'
  <2> SUFFICES ASSUME IInv, RelayInv, RosterInv, [Next]_vars PROVE (IInv /\ RelayInv /\ RosterInv)'
    OBVIOUS
  <2>1. IInv' /\ RelayInv'
    BY NextOK, RelayKept
  <2>2. CASE UNCHANGED vars
    <3>1. /\ task' = task /\ roster' = roster /\ banned' = banned /\ astray' = astray /\ open' = open
          /\ Members' = Members
      BY <2>2 DEF vars, Members
    <3>2. \A h, p : (Expelling(h, p)' <=> Expelling(h, p)) /\ (Removing(h, p)' <=> Removing(h, p))
      BY <3>1 DEF Expelling, Removing
    <3>3. RosterInv'
      BY <3>1, <3>2 DEF RosterInv
    <3> QED
      BY <2>1, <3>3
  <2>3. CASE Next
    BY <2>1, <2>3, JoinRoster, SignalRoster, LeaveRoster, AdminRoster, ArrivalRoster DEF Next, Step
  <2> QED
    BY <2>1, <2>2, <2>3
<1>3. IInv /\ RelayInv /\ RosterInv => RosterHolds
  <2> SUFFICES ASSUME IInv, RosterInv, Quiet PROVE RosterHolds
    BY DEF RosterHolds, DroppedRemoved, BannedOut
  <2>1. \A h \in Handler : task[h].pc = "idle"
    BY DEF Quiet
  <2>2. ASSUME NEW p \in Members \ astray PROVE roster[p] \in open \cup {Rest}
    <3>1. p \in Pid /\ roster[p] \in Session
      BY <2>2 DEF Members, IInv, TypeOK
    <3>2. roster[p] \notin Sock \ open
      BY <2>1, <2>2, <3>1 DEF RosterInv, Removing, HoldPcs
    <3> QED
      BY <3>1, <3>2 DEF Session
  <2>3. banned \cap Members \subseteq astray
    BY <2>1 DEF RosterInv, Expelling
  <2> QED
    BY <2>2, <2>3 DEF RosterHolds, DroppedRemoved, BannedOut
<1> QED
  BY <1>1, <1>2, <1>3, PTL DEF Spec
-----------------------------------------------------------------------------
(* What the clients were told.                                             *)

\* Only h moves; what is no longer so about a client and a participant is about to be told
\* by h, or is hearsay.
LEMMA ViewFrame ==
  ASSUME ViewInv, NEW h \in Handler, \A k \in Handler \ {h} : task'[k] = task[k],
         \A s \in open', p \in Pid \ hearsay' : hub'[s] # None /\ hub'[s].pid # p =>
            \/ p \in told'[s] <=> p \in Members'
            \/ Untold(h, p)'
            \/ /\ s \in open /\ hub[s] # None /\ hub[s].pid # p /\ p \notin hearsay
               /\ p \in told'[s] <=> p \in told[s]
               /\ p \in Members' <=> p \in Members
               /\ ~Untold(h, p)
  PROVE  ViewInv'
<1> SUFFICES ASSUME NEW s \in open', hub'[s] # None, NEW p \in Pid \ (hearsay' \cup {hub'[s].pid})
             PROVE  (p \in told'[s] <=> p \in Members') \/ \E k \in Handler : Untold(k, p)'
  BY DEF ViewInv, ToldOf
<1>1. CASE (p \in told'[s] <=> p \in Members') \/ Untold(h, p)'
  BY <1>1
<1>2. CASE /\ s \in open /\ hub[s] # None /\ hub[s].pid # p /\ p \notin hearsay
           /\ p \in told'[s] <=> p \in told[s]
           /\ p \in Members' <=> p \in Members
           /\ ~Untold(h, p)
  <2>1. (p \in told[s] <=> p \in Members) \/ \E k \in Handler : Untold(k, p)
    BY <1>2 DEF ViewInv, ToldOf
  <2>2. CASE p \in told[s] <=> p \in Members
    BY <1>2, <2>2
  <2>3. ASSUME NEW k \in Handler, Untold(k, p) PROVE Untold(k, p)'
    BY <1>2, <2>3 DEF Untold, Joined, Gone, Enveloped
  <2> QED
    BY <2>1, <2>2, <2>3
<1> QED
  BY <1>1, <1>2

\* A step that tells nothing.
LEMMA ViewSilent ==
  ASSUME IInv, ViewInv, NEW h \in Handler, \A k \in Handler \ {h} : task'[k] = task[k],
         told' = told, open' \subseteq open, hearsay \subseteq hearsay',
         \A s \in Sock : hub'[s] = hub[s] \/ hub'[s] = None,
         \A p \in Pid \ hearsay' : Untold(h, p)' \/ (~Untold(h, p) /\ (p \in Members' <=> p \in Members))
  PROVE  ViewInv'
<1>1. open \subseteq Sock
  BY HandlerFacts
<1> QED
  BY <1>1, ViewFrame

\* A step that tells everyone attached but p's own socket whether p is in.
LEMMA ViewTold ==
  ASSUME IInv, ViewInv, NEW h \in Handler, \A k \in Handler \ {h} : task'[k] = task[k],
         NEW here \in BOOLEAN, Announced(task[h].pid, here),
         roster' = roster, open' = open,
         \A s \in Sock : hub'[s] = hub[s] \/ hub'[s] = None,
         \A s \in open : hub'[s] # None /\ hub'[s].pid # task[h].pid =>
            (task[h].pid \in told'[s] <=> here),
         \A s \in Sock : \A q \in Pid \ {task[h].pid} : q \in told'[s] <=> q \in told[s]
  PROVE  ViewInv'
<1>1. open \subseteq Sock /\ Members' = Members
  BY HandlerFacts DEF Members
<1>2. ASSUME NEW s \in open', NEW p \in Pid \ hearsay', hub'[s] # None, hub'[s].pid # p
      PROVE  \/ p \in told'[s] <=> p \in Members'
             \/ /\ s \in open /\ hub[s] # None /\ hub[s].pid # p /\ p \notin hearsay
                /\ p \in told'[s] <=> p \in told[s]
                /\ p \in Members' <=> p \in Members
                /\ ~Untold(h, p)
  <2>1. CASE p = task[h].pid
    <3>1. p \in Members <=> here
      BY <1>2, <2>1 DEF Announced
    <3>2. p \in told'[s] <=> here
      BY <1>2, <2>1
    <3> QED
      BY <1>1, <3>1, <3>2
  <2>2. CASE p # task[h].pid
    <3>1. p \notin hearsay
      BY <1>2, <2>2 DEF Announced
    <3>2. ~Untold(h, p)
      BY <2>2 DEF Untold
    <3>3. p \in told'[s] <=> p \in told[s]
      BY <1>1, <1>2, <2>2
    <3>4. s \in open /\ hub[s] # None /\ hub[s].pid # p
      BY <1>1, <1>2
    <3> QED
      BY <1>1, <3>1, <3>2, <3>3, <3>4
  <2> QED
    BY <2>1, <2>2
<1> QED
  BY <1>2, ViewFrame

\* The two ways of telling.
LEMMA Telling ==
  ASSUME IInv, NEW p \in Pid, NEW except, except = p \/ except \notin Pid
  PROVE  /\ TellJoin(Receivers(hub, except), p) =>
              /\ \A s \in open : hub[s] # None /\ hub[s].pid # p => p \in told'[s]
              /\ \A s \in Sock : \A q \in Pid \ {p} : q \in told'[s] <=> q \in told[s]
         /\ TellLeave(Receivers(hub, except), p) =>
              /\ \A s \in open : hub[s] # None /\ hub[s].pid # p => p \notin told'[s]
              /\ \A s \in Sock : \A q \in Pid \ {p} : q \in told'[s] <=> q \in told[s]
<1>1. /\ open \subseteq Sock /\ hub \in [Sock -> [pid : Pid, since : Nat] \cup {None}]
  BY HandlerFacts DEF IInv, TypeOK
<1>2. \A s \in open : hub[s] # None /\ hub[s].pid # p => s \in Receivers(hub, except)
  BY <1>1 DEF Receivers
<1>3. \A to : TellJoin(to, p) \/ TellLeave(to, p) =>
         \A s \in Sock : \A q \in Pid \ {p} : q \in told'[s] <=> q \in told[s]
  BY DEF TellJoin, TellLeave
<1>4. TellJoin(Receivers(hub, except), p) =>
         \A s \in open : hub[s] # None /\ hub[s].pid # p => p \in told'[s]
  BY <1>1, <1>2 DEF TellJoin
<1>5. TellLeave(Receivers(hub, except), p) =>
         \A s \in open : hub[s] # None /\ hub[s].pid # p => p \notin told'[s]
  BY <1>1, <1>2 DEF TellLeave
<1> QED
  BY <1>3, <1>4, <1>5

LEMMA JoinViews ==
  ASSUME IInv, ViewInv, NEW h \in Handler, JoinStep(h)
  PROVE  ViewInv'
<1>1. /\ \A k \in Handler \ {h} : task'[k] = task[k]
      /\ task'[h].pc # "idle" => task'[h].pid = task[h].pid /\ task'[h].op = task[h].op
  BY StepFrame DEF Step
<1>2. /\ task \in [Handler -> Task] /\ task[h] \in Task /\ open \subseteq Sock
      /\ roster \in [Pid -> Session \cup {None}]
      /\ task[h].pid \in Pid /\ task[h].op \in JoinOps /\ h \notin Sock
      /\ task[h].op = "wsJoin" => task[h].sock \in Sock
  BY HandlerFacts DEF JoinStep, JoinPolicy, JoinRoom, JoinSeen, JoinCount, JoinPut, JoinTouch, JoinList,
                      RelayJoin, TaskOK, OpFits, JoinPcs, JoinOps, DropPcs, SeenPcs
<1>3. CASE JoinPolicy(h) \/ JoinRoom(h) \/ JoinSeen(h) \/ JoinCount(h)
  <2>1. /\ told' = told /\ open' \subseteq open /\ hearsay' = hearsay /\ hub' = hub /\ roster' = roster
        /\ task[h].pc \in {"policy", "join", "joinSeen", "joinCount"}
    BY <1>3 DEF JoinPolicy, JoinRoom, JoinSeen, JoinCount, store, policy, relay, doubts
  <2>2. \A p : ~Untold(h, p)
    BY <2>1 DEF Untold, Joined, Gone
  <2>3. Members' = Members
    BY <2>1 DEF Members
  <2> QED
    BY <1>1, <2>1, <2>2, <2>3, ViewSilent
<1>4. CASE JoinPut(h)
  <2>1. /\ told' = told /\ open' = open /\ hearsay' = hearsay /\ hub' = hub
        /\ roster' = [roster EXCEPT ![task[h].pid] = SessionOf(h)] /\ task[h].pc = "joinPut"
        /\ task'[h].pc = "joinTouch"
    BY <1>2, <1>4 DEF JoinPut, Goto, policy, relay, Task
  <2>2. Untold(h, task[h].pid)'
    BY <1>1, <2>1 DEF Untold, Joined
  <2>3. \A p \in Pid \ {task[h].pid} : ~Untold(h, p) /\ (p \in Members' <=> p \in Members)
    BY <1>2, <2>1 DEF Untold, Members
  <2>4. \A p \in Pid : Untold(h, p)' \/ (~Untold(h, p) /\ (p \in Members' <=> p \in Members))
    <3>1. \A p \in Pid : p = task[h].pid => Untold(h, p)'
      BY <1>1, <2>1, <2>2 DEF Untold
    <3> QED
      BY <2>3, <3>1
  <2> QED
    BY <1>1, <2>1, <2>4, ViewSilent
<1>5. CASE JoinTouch(h)
  <2>1. /\ told' = told /\ open' = open /\ hearsay' = hearsay /\ hub' = hub /\ roster' = roster
        /\ task'[h].pc = "joinList" /\ Members' = Members
    BY <1>2, <1>5 DEF JoinTouch, Goto, policy, relay, doubts, Task, Members
  <2>2. \A p : Untold(h, p) => Untold(h, p)'
    BY <1>1, <2>1 DEF Untold, Joined
  <2> QED
    BY <1>1, <2>1, <2>2, ViewSilent
<1>6. CASE JoinList(h) /\ task[h].op = "restJoin"
  <2>1. /\ roster' = roster /\ open' = open /\ hub' = hub /\ Announced(task[h].pid, TRUE)
        /\ TellJoin(Receivers(hub, None), task[h].pid)
    BY <1>6 DEF JoinList, store
  <2>2. /\ \A s \in open : hub[s] # None /\ hub[s].pid # task[h].pid => task[h].pid \in told'[s]
        /\ \A s \in Sock : \A q \in Pid \ {task[h].pid} : q \in told'[s] <=> q \in told[s]
    BY <1>2, <2>1, Telling
  <2> QED
    BY <1>1, <2>1, <2>2, ViewTold
<1>7. CASE JoinList(h) /\ task[h].op # "restJoin"
  <2>1. /\ told' = told /\ open' = open /\ hearsay' = hearsay /\ hub' = hub /\ roster' = roster
        /\ task'[h].pc = "signal" /\ Members' = Members /\ task[h].op = "wsJoin"
    BY <1>2, <1>7 DEF JoinList, store, JoinOps, Task, Members
  <2>2. \A p : Untold(h, p) => Untold(h, p)'
    BY <1>1, <2>1 DEF Untold, Joined
  <2> QED
    BY <1>1, <2>1, <2>2, ViewSilent
<1>8. CASE RelayJoin(h)
  <2> DEFINE t == task[h].sock
             j == task[h].pid
  <2>1. /\ open' = open /\ roster' = roster /\ Members' = Members /\ t \in Sock
        /\ hub' = [hub EXCEPT ![t] = Bound(h)]
        /\ \A q \in Sock : told'[q] = IF q = t /\ q \in open THEN task[h].list
                                      ELSE IF q \in Receivers(hub', j) THEN told[q] \cup {j}
                                      ELSE told[q]
        /\ hearsay' = (hearsay \ {j}) \cup (IF j \in Members THEN {} ELSE {j})
                                      \cup (IF t \in open THEN Outdated(h) ELSE {})
    BY <1>2, <1>8 DEF RelayJoin, store, Members
  <2>2. hub'[t].pid = j /\ \A s \in Sock \ {t} : hub'[s] = hub[s]
    BY <2>1, HandlerFacts DEF Bound
  <2> HIDE DEF t, j
  <2>3. ASSUME NEW s \in open', NEW p \in Pid \ hearsay', hub'[s] # None, hub'[s].pid # p
        PROVE  \/ p \in told'[s] <=> p \in Members'
               \/ /\ s \in open /\ hub[s] # None /\ hub[s].pid # p /\ p \notin hearsay
                  /\ p \in told'[s] <=> p \in told[s]
                  /\ p \in Members' <=> p \in Members
                  /\ ~Untold(h, p)
    <3>1. CASE s = t
      <4>1. told'[s] = task[h].list /\ p # j /\ p \notin Outdated(h)
        BY <1>2, <2>1, <2>2, <2>3, <3>1
      <4> QED
        BY <2>1, <4>1 DEF Outdated, j
    <3>2. CASE s # t /\ p = j
      <4>1. p \in Members
        BY <2>1, <2>3, <3>2
      <4>2. s \in Receivers(hub', j)
        BY <2>1, <2>3, <3>2 DEF Receivers
      <4>3. p \in told'[s]
        BY <1>2, <2>1, <2>3, <3>2, <4>2
      <4> QED
        BY <2>1, <4>1, <4>3
    <3>3. CASE s # t /\ p # j
      <4>1. p \notin hearsay /\ (p \in told'[s] <=> p \in told[s])
        BY <1>2, <2>1, <2>3, <3>3
      <4>2. ~Untold(h, p)
        BY <3>3 DEF Untold, j
      <4>3. s \in open /\ hub[s] # None /\ hub[s].pid # p
        BY <1>2, <2>1, <2>2, <2>3, <3>3
      <4> QED
        BY <2>1, <4>1, <4>2, <4>3
    <3> QED
      BY <3>1, <3>2, <3>3
  <2> QED
    BY <1>1, <2>3, ViewFrame
<1> QED
  BY <1>3, <1>4, <1>5, <1>6, <1>7, <1>8 DEF JoinStep

LEMMA SignalViews ==
  ASSUME IInv, ViewInv, NEW h \in Handler, SignalStep(h)
  PROVE  ViewInv'
<1>1. /\ \A k \in Handler \ {h} : task'[k] = task[k]
      /\ task'[h].pc # "idle" => task'[h].pid = task[h].pid /\ task'[h].op = task[h].op
  BY StepFrame DEF Step
<1>2. /\ task \in [Handler -> Task] /\ task[h] \in Task /\ open \subseteq Sock
      /\ roster \in [Pid -> Session \cup {None}] /\ task[h].pid \in Pid /\ TaskOK(h, task[h])
  BY HandlerFacts DEF SignalStep, Signal, SignalRefresh, PutSignal, RelaySignal, TaskOK
<1>3. CASE Signal(h)
  <2>1. /\ told' = told /\ open' = open /\ hearsay' = hearsay /\ hub' = hub /\ roster' = roster
        /\ Members' = Members /\ task[h].pc = "signal"
    BY <1>3 DEF Signal, store, relay, doubts, Members
  <2>2. \A p : Untold(h, p) => Untold(h, p)'
    <3>1. CASE task[h].op = "wsJoin"
      <4>1. task'[h].pc = "log"
        BY <1>2, <1>3, <3>1 DEF Signal, Goto, Task
      <4> QED
        BY <1>1, <3>1, <4>1 DEF Untold, Joined
    <3>2. CASE task[h].op # "wsJoin"
      BY <2>1, <3>2 DEF Untold, Joined, Gone
    <3> QED
      BY <3>1, <3>2
  <2> QED
    BY <1>1, <2>1, <2>2, ViewSilent
<1>4. CASE SignalRefresh(h)
  <2>1. /\ told' = told /\ open' = open /\ hub' = hub /\ task[h].pc = "refresh"
        /\ roster' = [roster EXCEPT ![task[h].pid] = task[h].seen]
        /\ hearsay' = IF roster[task[h].pid] = None THEN hearsay \cup {task[h].pid} ELSE hearsay
    BY <1>4 DEF SignalRefresh, policy, relay
  <2>2. task[h].seen # None /\ \A p : ~Untold(h, p)
    BY <1>2, <2>1 DEF TaskOK, Untold, Joined, Gone
  <2>3. \A p \in Pid \ hearsay' : p \in Members' <=> p \in Members
    BY <1>2, <2>1, <2>2 DEF Members
  <2> QED
    BY <1>1, <2>1, <2>2, <2>3, ViewSilent
<1>5. CASE PutSignal(h)
  <2>1. /\ told' = told /\ open' = open /\ hearsay' = hearsay /\ hub' = hub /\ roster' = roster
        /\ Members' = Members /\ task[h].pc = "log" /\ task'[h].pc = "relay"
    BY <1>2, <1>5 DEF PutSignal, relay, doubts, Members, Task
  <2>2. \A p : Untold(h, p) => Untold(h, p)'
    BY <1>1, <2>1 DEF Untold, Joined, Gone
  <2> QED
    BY <1>1, <2>1, <2>2, ViewSilent
<1>6. CASE RelaySignal(h)
  <2>1. /\ roster' = roster /\ open' = open /\ hub' = hub /\ Members' = Members /\ Rumour(h)
        /\ task[h].pc = "relay" /\ task[h].op \in SignalOps
    BY <1>6 DEF RelaySignal, store, Members, Signaling, SignalOps
  <2>2. CASE task[h].op = "joinSignal"
    <3>1. TellJoin(Receivers(hub, task[h].pid), task[h].pid) /\ Announced(task[h].pid, TRUE)
      BY <2>1, <2>2 DEF Rumour
    <3>2. /\ \A s \in open : hub[s] # None /\ hub[s].pid # task[h].pid => task[h].pid \in told'[s]
          /\ \A s \in Sock : \A q \in Pid \ {task[h].pid} : q \in told'[s] <=> q \in told[s]
      BY <1>2, <3>1, Telling
    <3> QED
      BY <1>1, <2>1, <3>1, <3>2, ViewTold
  <2>3. CASE task[h].op = "leaveSignal"
    <3>1. TellLeave(Receivers(hub, task[h].pid), task[h].pid) /\ Announced(task[h].pid, FALSE)
      BY <2>1, <2>3 DEF Rumour
    <3>2. /\ \A s \in open : hub[s] # None /\ hub[s].pid # task[h].pid => task[h].pid \notin told'[s]
          /\ \A s \in Sock : \A q \in Pid \ {task[h].pid} : q \in told'[s] <=> q \in told[s]
      BY <1>2, <3>1, Telling
    <3> QED
      BY <1>1, <2>1, <3>1, <3>2, ViewTold
  <2>4. CASE task[h].op = "signal"
    <3>1. told' = told /\ hearsay' = hearsay
      BY <2>1, <2>4 DEF Rumour
    <3>2. \A p : ~Untold(h, p)
      BY <2>1, <2>4 DEF Untold, Joined, Gone, LeaveOps
    <3> QED
      BY <1>1, <2>1, <3>1, <3>2, ViewSilent
  <2> QED
    BY <2>1, <2>2, <2>3, <2>4 DEF SignalOps
<1> QED
  BY <1>3, <1>4, <1>5, <1>6 DEF SignalStep

LEMMA LeaveViews ==
  ASSUME IInv, ViewInv, NEW h \in Handler, LeaveStep(h)
  PROVE  ViewInv'
<1>1. /\ \A k \in Handler \ {h} : task'[k] = task[k]
      /\ task'[h].pc # "idle" => task'[h].pid = task[h].pid /\ task'[h].op = task[h].op
  BY StepFrame DEF Step
<1>2. /\ task \in [Handler -> Task] /\ task[h] \in Task /\ open \subseteq Sock
      /\ roster \in [Pid -> Session \cup {None}] /\ hub \in [Sock -> [pid : Pid, since : Nat] \cup {None}]
      /\ task[h].pid \in Pid /\ TaskOK(h, task[h])
  BY HandlerFacts DEF LeaveStep, LeaveRead, LeaveRoom, LeaveSeen, LeaveDelete, LeaveTouch, RelayLeave, TaskOK
<1>3. CASE LeaveRead(h) \/ LeaveRoom(h) \/ LeaveSeen(h)
  <2>1. /\ told' = told /\ open' = open /\ hearsay' = hearsay /\ roster' = roster
        /\ task[h].pc \in {"leaveRead", "leave", "leaveSeen"}
        /\ hub' = hub \/ hub' = [hub EXCEPT ![h] = None]
    BY <1>3 DEF LeaveRead, LeaveRoom, LeaveSeen, store, relay, doubts
  <2>2. \A p : ~Untold(h, p)
    BY <2>1 DEF Untold, Joined, Gone
  <2>3. Members' = Members /\ \A s \in Sock : hub'[s] = hub[s] \/ hub'[s] = None
    BY <1>2, <2>1 DEF Members
  <2> QED
    BY <1>1, <2>1, <2>2, <2>3, ViewSilent
<1>4. CASE LeaveDelete(h)
  <2>1. /\ told' = told /\ open' = open /\ hub' = hub /\ task[h].pc = "leaveDelete"
        /\ roster' = [roster EXCEPT ![task[h].pid] = None]
        /\ hearsay' = IF Enveloped(h) THEN hearsay ELSE hearsay \cup {task[h].pid}
        /\ task'[h].pc = "leaveTouch" /\ task'[h].seen = task[h].seen
    BY <1>2, <1>4 DEF LeaveDelete, Goto, policy, relay, Task
  <2>2. \A p : ~Untold(h, p)
    BY <2>1 DEF Untold, Joined, Gone
  <2>3. \A p \in Pid \ {task[h].pid} : p \in Members' <=> p \in Members
    BY <1>2, <2>1 DEF Members
  <2>4. Enveloped(h) => Untold(h, task[h].pid)'
    BY <1>1, <2>1 DEF Untold, Gone, Enveloped
  <2>5. \A p \in Pid \ hearsay' : p = task[h].pid => Untold(h, p)'
    BY <1>1, <2>1, <2>4 DEF Untold
  <2> QED
    BY <1>1, <2>1, <2>2, <2>3, <2>5, ViewSilent
<1>5. CASE LeaveTouch(h)
  <2>1. /\ told' = told /\ open' = open /\ hearsay' = hearsay /\ hub' = hub /\ roster' = roster
        /\ Members' = Members /\ task[h].pc = "leaveTouch"
        /\ Enveloped(h) => task'[h].pc = "log"
    BY <1>2, <1>5 DEF LeaveTouch, Goto, policy, relay, doubts, Members, Task
  <2>2. task[h].op \in LeaveOps
    BY <1>2, <2>1 DEF TaskOK, OpFits, LeavePcs
  <2>3. \A p : Untold(h, p) => Untold(h, p)'
    BY <1>1, <2>1, <2>2 DEF Untold, Joined, Gone
  <2> QED
    BY <1>1, <2>1, <2>3, ViewSilent
<1>6. CASE RelayLeave(h)
  <2>1. /\ roster' = roster /\ open' = open /\ Announced(task[h].pid, FALSE)
        /\ TellLeave(Receivers(hub', task[h].pid), task[h].pid)
        /\ hub' = hub \/ hub' = [hub EXCEPT ![task[h].sock] = None]
    BY <1>6 DEF RelayLeave, store
  <2>2. \A s \in Sock : hub'[s] = hub[s] \/ hub'[s] = None
    BY <1>2, <2>1
  <2>3. /\ \A s \in open : hub'[s] # None /\ hub'[s].pid # task[h].pid => task[h].pid \notin told'[s]
        /\ \A s \in Sock : \A q \in Pid \ {task[h].pid} : q \in told'[s] <=> q \in told[s]
    BY <1>2, <2>1 DEF TellLeave, Receivers
  <2> QED
    BY <1>1, <2>1, <2>2, <2>3, ViewTold
<1> QED
  BY <1>3, <1>4, <1>5, <1>6 DEF LeaveStep

LEMMA AdminViews ==
  ASSUME IInv, ViewInv, NEW h \in Handler, AdminStep(h)
  PROVE  ViewInv'
<1>1. /\ \A k \in Handler \ {h} : task'[k] = task[k]
      /\ task'[h].pc # "idle" => task'[h].pid = task[h].pid /\ task'[h].op = task[h].op
  BY StepFrame DEF Step
<1>2. /\ task \in [Handler -> Task] /\ task[h] \in Task /\ open \subseteq Sock
      /\ roster \in [Pid -> Session \cup {None}] /\ task[h].pid \in Pid
  BY HandlerFacts DEF AdminStep, RoomRead, RoomWrite, Kick, KickSeen, KickDelete, KickTouch, Lift, TaskOK
<1>3. CASE RoomRead(h) \/ RoomWrite(h) \/ Kick(h) \/ KickSeen(h) \/ Lift(h)
  <2>1. /\ told' = told /\ open' = open /\ hearsay' = hearsay /\ roster' = roster /\ hub' = hub
        /\ task[h].pc \in {"roomRead", "roomWrite", "kick", "kickSeen", "lift"}
    BY <1>3 DEF RoomRead, RoomWrite, Kick, KickSeen, Lift, store, relay, policy, doubts
  <2>2. \A p : ~Untold(h, p)
    BY <2>1 DEF Untold, Joined, Gone
  <2>3. Members' = Members
    BY <2>1 DEF Members
  <2> QED
    BY <1>1, <2>1, <2>2, <2>3, ViewSilent
<1>4. CASE KickDelete(h)
  <2>1. /\ told' = told /\ open' = open /\ hub' = hub /\ hearsay' = hearsay /\ task[h].pc = "kickDelete"
        /\ roster' = [roster EXCEPT ![task[h].pid] = None] /\ task'[h].pc = "kickTouch"
    BY <1>2, <1>4 DEF KickDelete, Goto, policy, relay, Task
  <2>2. \A p : ~Untold(h, p)
    BY <2>1 DEF Untold, Joined, Gone
  <2>3. \A p \in Pid \ {task[h].pid} : p \in Members' <=> p \in Members
    BY <1>2, <2>1 DEF Members
  <2>4. \A p \in Pid : p = task[h].pid => Untold(h, p)'
    BY <1>1, <2>1 DEF Untold, Gone
  <2> QED
    BY <1>1, <2>1, <2>2, <2>3, <2>4, ViewSilent
<1>5. CASE KickTouch(h)
  <2>1. /\ roster' = roster /\ open' = open /\ hub' = hub /\ Announced(task[h].pid, FALSE)
        /\ TellLeave(Receivers(hub, None), task[h].pid)
    BY <1>5 DEF KickTouch
  <2>2. /\ \A s \in open : hub[s] # None /\ hub[s].pid # task[h].pid => task[h].pid \notin told'[s]
        /\ \A s \in Sock : \A q \in Pid \ {task[h].pid} : q \in told'[s] <=> q \in told[s]
    BY <1>2, <2>1, Telling
  <2> QED
    BY <1>1, <2>1, <2>2, ViewTold
<1> QED
  BY <1>3, <1>4, <1>5 DEF AdminStep

LEMMA ArrivalViews ==
  ASSUME IInv, RelayInv, ViewInv,
         \/ \E w \in Worker, op \in Ops, p \in Pid, s \in Sock \cup {None},
                   to \in Pid \cup {None} : Request(w, op, p, s, to)
         \/ \E s \in Sock : Drop(s)
  PROVE  ViewInv'
<1>1. task \in [Handler -> Task]
  BY DEF IInv, TypeOK
<1>2. ASSUME NEW w \in Worker, NEW op \in Ops, NEW q \in Pid, NEW s \in Sock \cup {None},
             NEW to \in Pid \cup {None}, Request(w, op, q, s, to)
      PROVE  ViewInv'
  <2>1. /\ told' = told /\ open' = open /\ hearsay' = hearsay /\ roster' = roster /\ hub' = hub
        /\ task[w].pc = "idle" /\ \A k \in Handler \ {w} : task'[k] = task[k]
    BY <1>1, <1>2 DEF Request, store, relay, doubts
  <2>2. Members' = Members /\ \A p : ~Untold(w, p)
    BY <2>1 DEF Untold, Joined, Gone, Members
  <2> QED
    BY <2>1, <2>2, ViewSilent
<1>3. ASSUME NEW s \in Sock, Drop(s) PROVE ViewInv'
  <2>1. /\ told' = told /\ open' \subseteq open /\ hearsay' = hearsay /\ roster' = roster /\ hub' = hub
        /\ task[s].pc = "idle" /\ \A k \in Handler \ {s} : task'[k] = task[k]
    BY <1>1, <1>3 DEF Drop, RelayInv, store
  <2>2. Members' = Members /\ \A p : ~Untold(s, p)
    BY <2>1 DEF Untold, Joined, Gone, Members
  <2> QED
    BY <2>1, <2>2, ViewSilent
<1> QED
  BY <1>2, <1>3

\* What an idle server has told a connected client of the room is the roster, whatever
\* requests, drops, kicks and signaled joins and leaves ran beside each other, but for hearsay.
THEOREM ViewsKept == Spec => []ViewsAgree
<1>1. Init => IInv /\ RelayInv /\ ViewInv
  <2>1. Init => RelayInv
    BY DEF Init, RelayInv, Idle
  <2>2. Init => ViewInv
    BY DEF Init, ViewInv
  <2> QED
    BY <2>1, <2>2, InitOK
<1>2. IInv /\ RelayInv /\ ViewInv /\ [Next]_vars => (IInv /\ RelayInv /\ ViewInv)'
  <2> SUFFICES ASSUME IInv, RelayInv, ViewInv, [Next]_vars PROVE (IInv /\ RelayInv /\ ViewInv)'
    OBVIOUS
  <2>1. IInv' /\ RelayInv'
    BY NextOK, RelayKept
  <2>2. CASE UNCHANGED vars
    <3>1. /\ task' = task /\ roster' = roster /\ hearsay' = hearsay /\ open' = open /\ hub' = hub
          /\ told' = told /\ Members' = Members
      BY <2>2 DEF vars, Members
    <3>2. \A h, p : Untold(h, p)' <=> Untold(h, p)
      BY <3>1 DEF Untold, Joined, Gone, Enveloped
    <3>3. ViewInv'
      BY <3>1, <3>2 DEF ViewInv, ToldOf
    <3> QED
      BY <2>1, <3>3
  <2>3. CASE Next
    BY <2>1, <2>3, JoinViews, SignalViews, LeaveViews, AdminViews, ArrivalViews DEF Next, Step
  <2> QED
    BY <2>1, <2>2, <2>3
<1>3. IInv /\ RelayInv /\ ViewInv => ViewsAgree
  <2> SUFFICES ASSUME ViewInv, Quiet PROVE ViewsAgree
    BY DEF ViewsAgree
  <2>1. \A h, p : h \in Handler => ~Untold(h, p)
    BY DEF Quiet, Untold, Joined, Gone
  <2> QED
    BY <2>1 DEF ViewInv, ToldOf, ViewsAgree
<1> QED
  BY <1>1, <1>2, <1>3, PTL DEF Spec

-----------------------------------------------------------------------------
(* The hub.                                                                *)

\* Only h moves, and starts no join; nothing is attached; a connection that goes is not in
\* the hub, or its close handler starts; and a close handler that ends has detached it.
LEMMA HubFrame ==
  ASSUME IInv, HubInv, NEW h \in Handler, \A k \in Handler \ {h} : task'[k] = task[k],
         Connecting(h)' => Connecting(h) /\ task'[h].sock = task[h].sock,
         \A s \in Sock : hub'[s] = hub[s] \/ hub'[s] = None,
         \A s \in open \ open' : hub[s] = None \/ task'[s].pc # "idle",
         h \in Sock => hub'[h] = None \/ task'[h].pc # "idle" \/ task[h].pc = "idle",
         ghosts \subseteq ghosts'
  PROVE  HubInv'
<1>1. ASSUME NEW s \in Sock \ open', hub'[s] # None PROVE s \in ghosts' \/ task'[s].pc # "idle"
  <2>1. hub[s] # None
    BY <1>1
  <2>2. CASE s \in open
    BY <1>1, <2>1, <2>2
  <2>3. CASE s \notin open
    <3>1. s \in ghosts \/ task[s].pc # "idle"
      BY <1>1, <2>1, <2>3 DEF HubInv
    <3>2. CASE s = h
      BY <1>1, <3>1, <3>2
    <3>3. CASE s # h
      BY <3>1, <3>3
    <3> QED
      BY <3>2, <3>3
  <2> QED
    BY <2>2, <2>3
<1>2. ASSUME NEW k \in Worker, Connecting(k)'
      PROVE  Connecting(k) /\ task'[k].sock = task[k].sock /\ task[k].sock \in Sock
  <2>1. Connecting(k) /\ task'[k].sock = task[k].sock
    BY <1>2 DEF Connecting
  <2>2. task[k].sock \in Sock
    BY <2>1, HandlerFacts DEF Connecting, TaskOK
  <2> QED
    BY <2>1, <2>2
<1>3. ASSUME NEW k \in Worker, Connecting(k)' PROVE hub'[task'[k].sock] = None
  BY <1>2, <1>3 DEF HubInv
<1>4. ASSUME NEW j \in Worker, NEW k \in Worker, Connecting(j)', Connecting(k)',
             task'[j].sock = task'[k].sock
      PROVE  j = k
  BY <1>2, <1>4 DEF HubInv
<1> QED
  BY <1>1, <1>3, <1>4 DEF HubInv

\* The one step that attaches a connection.
LEMMA AttachHub ==
  ASSUME IInv, HubInv, NEW h \in Handler, RelayJoin(h)
  PROVE  HubInv'
<1> DEFINE t == task[h].sock
<1>1. /\ \A k \in Handler \ {h} : task'[k] = task[k]
      /\ task'[h].pc = "idle"
  BY HandlerFacts DEF RelayJoin, Done, Idle
<1>2. Connecting(h) /\ t \in Sock /\ h \notin Sock
  BY HandlerFacts DEF RelayJoin, Connecting, TaskOK
<1>3. /\ open' = open /\ \A s \in Sock \ {t} : hub'[s] = hub[s]
      /\ ghosts' = IF t \in open THEN ghosts ELSE ghosts \cup {t}
  BY <1>2, HandlerFacts DEF RelayJoin
<1> HIDE DEF t
<1>4. ASSUME NEW s \in Sock \ open', hub'[s] # None PROVE s \in ghosts' \/ task'[s].pc # "idle"
  <2>1. CASE s = t
    BY <1>3, <1>4, <2>1
  <2>2. CASE s # t
    <3>1. hub[s] # None /\ s \in Sock \ open
      BY <1>3, <1>4, <2>2
    <3>2. task'[s] = task[s]
      BY <1>1, <1>2
    <3> QED
      BY <1>3, <3>1, <3>2 DEF HubInv
  <2> QED
    BY <2>1, <2>2
<1>5. ASSUME NEW k \in Worker, Connecting(k)'
      PROVE  Connecting(k) /\ task'[k].sock = task[k].sock /\ task[k].sock \in Sock \ {t}
  <2>1. k # h /\ Connecting(k) /\ task'[k].sock = task[k].sock
    BY <1>1, <1>5 DEF Connecting
  <2>2. task[k].sock \in Sock
    BY <2>1, HandlerFacts DEF Connecting, TaskOK
  <2>3. task[k].sock # t
    BY <1>2, <2>1 DEF HubInv, t
  <2> QED
    BY <2>1, <2>2, <2>3
<1>6. ASSUME NEW k \in Worker, Connecting(k)' PROVE hub'[task'[k].sock] = None
  BY <1>3, <1>5, <1>6 DEF HubInv
<1>7. ASSUME NEW j \in Worker, NEW k \in Worker, Connecting(j)', Connecting(k)',
             task'[j].sock = task'[k].sock
      PROVE  j = k
  BY <1>5, <1>7 DEF HubInv
<1> QED
  BY <1>4, <1>6, <1>7 DEF HubInv

LEMMA StepHub ==
  ASSUME IInv, HubInv, NEW h \in Handler, Step(h)
  PROVE  HubInv'
<1>1. /\ task[h].pc # "idle" /\ \A k \in Handler \ {h} : task'[k] = task[k]
      /\ Connecting(h)' => Connecting(h) /\ task'[h].sock = task[h].sock
  BY StepFrame DEF Connecting
<1>2. /\ task \in [Handler -> Task] /\ task[h] \in Task /\ TaskOK(h, task[h])
      /\ hub \in [Sock -> [pid : Pid, since : Nat] \cup {None}] /\ open \subseteq Sock
  BY HandlerFacts
<1>3. CASE JoinPolicy(h)
  <2>1. /\ hub' = hub /\ ghosts' = ghosts
        /\ open' = open \/ open' = open \ {task[h].sock}
        /\ task[h].pc = "policy"
    BY <1>3 DEF JoinPolicy
  <2>2. Connecting(h) /\ h \notin Sock
    BY <1>2, <2>1 DEF Connecting, TaskOK, OpFits, DropPcs, SeenPcs
  <2>3. hub[task[h].sock] = None
    BY <2>2 DEF HubInv
  <2> QED
    BY <1>1, <2>1, <2>2, <2>3, HubFrame
<1>4. CASE JoinStep(h) /\ ~JoinPolicy(h) /\ ~RelayJoin(h)
  <2>1. /\ hub' = hub /\ ghosts' = ghosts /\ open' = open /\ task[h].pc \in JoinPcs
    BY <1>4 DEF JoinStep, JoinRoom, JoinSeen, JoinCount, JoinPut, JoinTouch, JoinList,
                relay, doubts, JoinPcs
  <2>2. h \notin Sock
    BY <1>2, <2>1 DEF TaskOK, DropPcs, SeenPcs, JoinPcs
  <2> QED
    BY <1>1, <2>1, <2>2, HubFrame
<1>5. CASE SignalStep(h)
  <2>1. /\ hub' = hub /\ ghosts' = ghosts /\ open' = open
    BY <1>5 DEF SignalStep, Signal, SignalRefresh, PutSignal, RelaySignal, relay, doubts
  <2>2. h \in Sock => task'[h].pc # "idle"
    <3>1. ASSUME h \in Sock PROVE PutSignal(h)
      <4>1. task[h].pc \in DropPcs /\ task[h].op = "drop"
        BY <1>1, <1>2, <3>1 DEF TaskOK
      <4> QED
        BY <1>5, <4>1 DEF SignalStep, Signal, SignalRefresh, RelaySignal, Signaling, DropPcs, SeenPcs
    <3>2. PutSignal(h) => task'[h].pc = "relay"
      BY <1>2 DEF PutSignal, Task
    <3> QED
      BY <3>1, <3>2
  <2> QED
    BY <1>1, <2>1, <2>2, HubFrame
<1>6. CASE LeaveStep(h)
  <2>1. /\ open' = open /\ ghosts' = ghosts /\ \A s \in Sock : hub'[s] = hub[s] \/ hub'[s] = None
    <3>1. CASE LeaveRead(h) \/ LeaveSeen(h)
      BY <1>2, <3>1 DEF LeaveRead, LeaveSeen, doubts
    <3>2. CASE LeaveRoom(h) \/ LeaveDelete(h) \/ LeaveTouch(h)
      BY <3>2 DEF LeaveRoom, LeaveDelete, LeaveTouch, doubts, relay
    <3>3. CASE RelayLeave(h)
      BY <1>2, <3>3 DEF RelayLeave
    <3> QED
      BY <1>6, <3>1, <3>2, <3>3 DEF LeaveStep
  <2>2. h \in Sock => hub'[h] = None \/ task'[h].pc # "idle"
    <3> SUFFICES ASSUME h \in Sock PROVE hub'[h] = None \/ task'[h].pc # "idle"
      OBVIOUS
    <3>1. /\ task[h].op = "drop" /\ task[h].sock = h
          /\ task[h].pc \in SeenPcs => task[h].seen # None
      BY <1>1, <1>2 DEF TaskOK
    <3>2. CASE LeaveRead(h)
      BY <1>2, <3>1, <3>2 DEF LeaveRead, Task
    <3>3. CASE LeaveRoom(h)
      BY <1>2, <3>3 DEF LeaveRoom, Task
    <3>4. CASE LeaveSeen(h)
      BY <1>2, <3>1, <3>4 DEF LeaveSeen, Goto, Task
    <3>5. CASE LeaveDelete(h)
      BY <1>2, <3>5 DEF LeaveDelete, Goto, Task
    <3>6. CASE LeaveTouch(h)
      BY <1>2, <3>1, <3>6 DEF LeaveTouch, Goto, Task, Enveloped, SeenPcs
    <3>7. CASE RelayLeave(h)
      BY <1>2, <3>1, <3>7 DEF RelayLeave
    <3> QED
      BY <1>6, <3>2, <3>3, <3>4, <3>5, <3>6, <3>7 DEF LeaveStep
  <2> QED
    BY <1>1, <2>1, <2>2, HubFrame
<1>7. CASE AdminStep(h)
  <2>1. /\ hub' = hub /\ ghosts' = ghosts /\ open' = open
        /\ task[h].pc \notin DropPcs
    BY <1>7 DEF AdminStep, RoomRead, RoomWrite, Kick, KickSeen, KickDelete, KickTouch, Lift,
                relay, doubts, DropPcs, SeenPcs
  <2>2. h \notin Sock
    BY <1>2, <2>1 DEF TaskOK
  <2> QED
    BY <1>1, <2>1, <2>2, HubFrame
<1> QED
  BY <1>3, <1>4, <1>5, <1>6, <1>7, AttachHub DEF Step, JoinStep

\* A join starts only on a connection that is neither attached nor joining.
LEMMA ArrivalHub ==
  ASSUME IInv, RelayInv, HubInv,
         \/ \E w \in Worker, op \in Ops, p \in Pid, s \in Sock \cup {None},
                   to \in Pid \cup {None} : Request(w, op, p, s, to)
         \/ \E s \in Sock : Drop(s)
  PROVE  HubInv'
<1>1. task \in [Handler -> Task] /\ open \subseteq Sock
  BY DEF IInv, TypeOK
<1>2. ASSUME NEW w \in Worker, NEW op \in Ops, NEW q \in Pid, NEW t \in Sock \cup {None},
             NEW to \in Pid \cup {None}, Request(w, op, q, t, to)
      PROVE  HubInv'
  <2>1. /\ open' = open /\ hub' = hub /\ ghosts' = ghosts /\ w \notin Sock /\ w \in Handler
        /\ task[w].pc = "idle" /\ \A k \in Handler \ {w} : task'[k] = task[k]
        /\ task'[w].op = op /\ task'[w].sock = t /\ Sendable(op, t)
    BY <1>1, <1>2 DEF Request, Start, Idle, relay, doubts
  <2>2. CASE op # "wsJoin"
    <3>1. ~Connecting(w)'
      BY <2>1, <2>2 DEF Connecting
    <3> QED
      BY <2>1, <3>1, HubFrame
  <2>3. CASE op = "wsJoin"
    <3>1. t \in Sock /\ hub[t] = None /\ \A k \in Worker : ~(task[k].sock = t /\ task[k].op = "wsJoin")
      BY <1>1, <2>1, <2>3 DEF Sendable, Joining
    <3>2. ASSUME NEW s \in Sock \ open', hub'[s] # None PROVE s \in ghosts' \/ task'[s].pc # "idle"
      BY <2>1, <3>2 DEF HubInv
    <3>3. ASSUME NEW k \in Worker, Connecting(k)'
          PROVE  \/ k = w
                 \/ Connecting(k) /\ task'[k].sock = task[k].sock /\ task[k].sock # t
      BY <2>1, <3>1, <3>3 DEF Connecting
    <3>4. ASSUME NEW k \in Worker, Connecting(k)' PROVE hub'[task'[k].sock] = None
      BY <2>1, <3>1, <3>3, <3>4 DEF HubInv
    <3>5. ASSUME NEW j \in Worker, NEW k \in Worker, Connecting(j)', Connecting(k)',
                 task'[j].sock = task'[k].sock
          PROVE  j = k
      BY <2>1, <3>3, <3>5 DEF HubInv
    <3> QED
      BY <3>2, <3>4, <3>5 DEF HubInv
  <2> QED
    BY <2>2, <2>3
<1>3. ASSUME NEW s \in Sock, Drop(s) PROVE HubInv'
  <2>1. /\ open' = open \ {s} /\ hub' = hub /\ ghosts' = ghosts
        /\ task[s].pc = "idle" /\ \A k \in Handler \ {s} : task'[k] = task[k]
    BY <1>1, <1>3 DEF Drop, RelayInv
  <2>2. hub[s] = None \/ task'[s].pc # "idle"
    BY <1>1, <1>3 DEF Drop, Start, Idle
  <2>3. Connecting(s)' => Connecting(s) /\ task'[s].sock = task[s].sock
    <3>1. CASE hub[s] = None
      BY <1>3, <3>1 DEF Drop, Connecting
    <3>2. CASE hub[s] # None
      BY <1>1, <1>3, <3>2 DEF Drop, Connecting, Start, Idle
    <3> QED
      BY <3>1, <3>2
  <2> QED
    BY <2>1, <2>2, <2>3, HubFrame
<1> QED
  BY <1>2, <1>3

\* Once the server is idle, a connection that is gone is out of the hub, whatever its close
\* handler ran beside, unless it went while its own join was under way.
THEOREM SocketsDetached == Spec => []DropDetaches
<1>1. Init => IInv /\ RelayInv /\ HubInv
  <2>1. Init => RelayInv
    BY DEF Init, RelayInv, Idle
  <2>2. Init => HubInv
    BY DEF Init, HubInv, Connecting, Idle
  <2> QED
    BY <2>1, <2>2, InitOK
<1>2. IInv /\ RelayInv /\ HubInv /\ [Next]_vars => (IInv /\ RelayInv /\ HubInv)'
  <2> SUFFICES ASSUME IInv, RelayInv, HubInv, [Next]_vars PROVE (IInv /\ RelayInv /\ HubInv)'
    OBVIOUS
  <2>1. IInv' /\ RelayInv'
    BY NextOK, RelayKept
  <2>2. CASE UNCHANGED vars
    BY <2>1, <2>2 DEF vars, HubInv, Connecting
  <2>3. CASE Next
    BY <2>1, <2>3, StepHub, ArrivalHub DEF Next
  <2> QED
    BY <2>1, <2>2, <2>3
<1>3. IInv /\ RelayInv /\ HubInv => DropDetaches
  BY DEF HubInv, DropDetaches, Quiet
<1> QED
  BY <1>1, <1>2, <1>3, PTL DEF Spec
=============================================================================
