----------------------------- MODULE RoomServer -----------------------------
(***************************************************************************)
(* One existing room on the signaling server: packages/server/src/core.ts  *)
(* behind the WebSocket relay of ws.ts and the routes of http.ts.          *)
(*                                                                         *)
(* Every call of the Store is an await, so other handlers run between any  *)
(* two of them.  Each action below is one Store call together with the     *)
(* local code that runs once it answers.  A Worker runs the requests that  *)
(* clients send; the handler of a socket's close event runs on the socket. *)
(* Room creation and deletion are not here: the room exists throughout.    *)
(***************************************************************************)
EXTENDS Integers, FiniteSets, Sequences

CONSTANTS
    Pid,         \* participant ids
    Privileged,  \* those whose token is an admin's or a moderator's
    Sock,        \* WebSocket connections; each is opened once
    Rest,        \* the session of a participant that joined over REST
    Worker,      \* concurrent requests
    Cap,         \* policy.maxParticipants
    Ops,         \* the operations clients use
    MaxCalls,    \* bound on the number of requests
    None

AllOps == {"wsJoin", "restJoin", "wsLeave", "restLeave", "signal", "joinSignal",
           "leaveSignal", "closeRoom", "lock", "unlock", "kick", "ban", "unban"}

ASSUME ServerAssumption ==
    /\ IsFiniteSet(Pid) /\ IsFiniteSet(Worker) /\ Worker # {}
    /\ Privileged \subseteq Pid
    /\ Rest \notin Sock /\ None \notin Sock \cup {Rest} \cup Pid
    /\ None \notin [pid : Pid, since : Nat]
    /\ Worker \cap Sock = {}
    /\ Cap \in Nat \ {0} /\ MaxCalls \in Nat
    /\ Ops \subseteq AllOps

VARIABLES
    room,    \* the Store's room row
    roster,  \* the Store's participant rows: the session each one joined with
    log,     \* the Store's signal log: the sender of each entry and its target
    banned,  \* banStore of the process
    lobby,   \* lobbyStore of the process
    hub,     \* RoomHub: what each attached socket is bound to
    open,    \* the connections that are still up
    told,    \* the participants each socket has been told are in the room
    got,     \* the log entries relayed to each socket
    task,    \* the handlers in progress
    calls,   \* requests so far
    astray,  \* rows written, or left behind, with no handler to remove them
    hearsay, \* participants of whom the last that was told is not the roster's
    ghosts   \* sockets attached after their connection had gone

vars == <<room, roster, log, banned, lobby, hub, open, told, got, task, calls,
          astray, hearsay, ghosts>>
store == <<room, roster, log>>
policy == <<banned, lobby>>
relay == <<hub, open, told, got>>
doubts == <<astray, hearsay, ghosts>>

Handler == Worker \cup Sock
Session == Sock \cup {Rest}
Members == {p \in Pid : roster[p] # None}

\* A handler between two awaits: where it is, whom it is about, and what it
\* has read: the room row, the participant row, the roster.
Idle == [pc |-> "idle", op |-> None, pid |-> None, sock |-> None,
         to |-> None, row |-> None, seen |-> None, list |-> {}, seq |-> 0]
Start(op, pc, p, s) == [Idle EXCEPT !.op = op, !.pc = pc, !.pid = p, !.sock = s]

At(h, pc) == task[h].pc = pc
Goto(h, pc) == task' = [task EXCEPT ![h].pc = pc]
Done(h) == task' = [task EXCEPT ![h] = Idle]
Quiet == \A h \in Handler : At(h, "idle")

Init ==
    /\ room = [state |-> "open", locked |-> FALSE]
    /\ roster = [p \in Pid |-> None]
    /\ log = <<>>
    /\ banned = {} /\ lobby = {}
    /\ hub = [s \in Sock |-> None]
    /\ open = Sock
    /\ told = [s \in Sock |-> {}]
    /\ got = [s \in Sock |-> {}]
    /\ task = [h \in Handler |-> Idle]
    /\ calls = 0
    /\ astray = {} /\ hearsay = {} /\ ghosts = {}

-----------------------------------------------------------------------------
\* RoomHub.broadcast: the attached sockets that are up and not the sender's.
Receivers(bindings, except) ==
    {s \in open : bindings[s] # None /\ bindings[s].pid # except}

TellJoin(to, p) == told' = [s \in Sock |-> IF s \in to THEN told[s] \cup {p} ELSE told[s]]
TellLeave(to, p) == told' = [s \in Sock |-> IF s \in to THEN told[s] \ {p} ELSE told[s]]

\* What is told of p now is true of the roster, or is not.
Announced(p, here) ==
    hearsay' = IF (p \in Members) = here THEN hearsay \ {p} ELSE hearsay \cup {p}

Relayed(to, n) == got' = [s \in Sock |-> IF s \in to THEN got[s] \cup {n} ELSE got[s]]

-----------------------------------------------------------------------------
(* Requests arrive.                                                        *)

FirstStep ==
    [wsJoin |-> "policy", restJoin |-> "join", wsLeave |-> "leave",
     restLeave |-> "leaveRead", signal |-> "signal", joinSignal |-> "signal",
     leaveSignal |-> "signal", closeRoom |-> "roomRead",
     lock |-> "roomRead", unlock |-> "roomRead", kick |-> "kick", ban |-> "kick",
     unban |-> "lift"]

\* A socket with a join still in progress sends nothing else.
Joining(s) == \E h \in Worker : task[h].sock = s /\ task[h].op = "wsJoin"

\* What the connection a request comes over allows: a socket that is not attached may only
\* join.  One that is may send any envelope, and as anybody: its sender is not compared with
\* the participant the socket is bound to.  A join it sends then, or POST /signal takes, is a
\* signal (joinSignal); so is a leave that POST /signal takes (leaveSignal).
Sendable(op, s) ==
    CASE op = "wsJoin"  -> s \in open /\ hub[s] = None /\ ~Joining(s)
      [] op = "wsLeave" -> s \in open /\ hub[s] # None
      [] OTHER          -> s = None

Request(w, op, p, s, to) ==
    /\ At(w, "idle") /\ calls < MaxCalls
    /\ Sendable(op, s) /\ (op # "signal" => to = None)
    /\ task' = [task EXCEPT ![w] = [Start(op, FirstStep[op], p, s) EXCEPT !.to = to]]
    /\ calls' = calls + 1
    /\ UNCHANGED <<store, policy, relay, doubts>>

\* The rows of a connection that goes away, without a handler that would remove them.
Stranded(s) == {p \in Pid : roster[p] = s /\ (hub[s] = None \/ hub[s].pid # p)}

\* A connection goes away.  handleClose returns at once when the socket has
\* no meta, which is also so while its join is in progress.
Drop(s) ==
    /\ s \in open
    /\ open' = open \ {s}
    /\ task' = IF hub[s] = None THEN task
               ELSE [task EXCEPT ![s] = Start("drop", "leaveRead", hub[s].pid, s)]
    /\ astray' = astray \cup Stranded(s)
    /\ UNCHANGED <<store, policy, hub, told, got, calls, hearsay, ghosts>>

-----------------------------------------------------------------------------
(* joinRoom, with what handleJoin does before and after it.                *)

\* handleJoin reads the policy first and closes the socket of a locked room.
JoinPolicy(h) ==
    /\ At(h, "policy")
    /\ IF room.locked /\ task[h].pid \notin Privileged
       THEN /\ open' = open \ {task[h].sock} /\ Done(h)
            /\ astray' = astray \cup {p \in Pid : roster[p] = task[h].sock}
       ELSE Goto(h, "join") /\ UNCHANGED <<open, astray>>
    /\ UNCHANGED <<store, policy, hub, told, got, calls, hearsay, ghosts>>

JoinRoom(h) ==
    /\ At(h, "join")
    /\ IF room.state = "closed" \/ task[h].pid \in banned
       THEN Done(h)
       ELSE task' = [task EXCEPT ![h].pc = "joinSeen", ![h].row = room]
    /\ UNCHANGED <<store, policy, relay, calls, doubts>>

LockedOut(h) == task[h].row.locked /\ task[h].pid \notin Privileged

JoinSeen(h) ==
    /\ At(h, "joinSeen")
    /\ IF roster[task[h].pid] # None
       THEN Done(h) /\ UNCHANGED lobby
       ELSE IF LockedOut(h)
       THEN Done(h) /\ lobby' = lobby \cup {task[h].pid}
       ELSE Goto(h, "joinCount") /\ UNCHANGED lobby
    /\ UNCHANGED <<store, banned, relay, calls, doubts>>

\* Faulty variant: the capacity is compared with >, not >=.
FullLate == Cardinality(Members) > Cap

Full == Cardinality(Members) >= Cap

JoinCount(h) ==
    /\ At(h, "joinCount")
    /\ IF Full THEN Done(h) ELSE Goto(h, "joinPut")
    /\ UNCHANGED <<store, policy, relay, calls, doubts>>

SessionOf(h) == IF task[h].op = "wsJoin" THEN task[h].sock ELSE Rest

JoinPut(h) ==
    /\ At(h, "joinPut")
    /\ roster' = [roster EXCEPT ![task[h].pid] = SessionOf(h)]
    /\ Goto(h, "joinTouch")
    /\ astray' = IF task[h].pid \in banned \/ SessionOf(h) \in Sock \ open
                 THEN astray \cup {task[h].pid} ELSE astray \ {task[h].pid}
    /\ UNCHANGED <<room, log, policy, relay, calls, hearsay, ghosts>>

\* putRoom({...room, updatedAt}) writes the row as it was read at the start.
JoinTouch(h) ==
    /\ At(h, "joinTouch")
    /\ room' = task[h].row
    /\ Goto(h, "joinList")
    /\ UNCHANGED <<roster, log, policy, relay, calls, doubts>>

\* A REST join is announced here, to everyone and past the signal log; a
\* WebSocket join goes on to handleSignal.
JoinList(h) ==
    /\ At(h, "joinList")
    /\ IF task[h].op = "restJoin"
       THEN /\ Done(h) /\ TellJoin(Receivers(hub, None), task[h].pid)
            /\ Announced(task[h].pid, TRUE)
       ELSE /\ task' = [task EXCEPT ![h].pc = "signal", ![h].list = Members]
            /\ UNCHANGED <<told, hearsay>>
    /\ UNCHANGED <<store, policy, hub, open, got, calls, astray, ghosts>>

-----------------------------------------------------------------------------
(* handleSignal; its requireRoom and its last listParticipants only read   *)
(* what nothing here uses: the recipients it names from targetSenderId are *)
(* not those the relay sends to.  A join skips the membership check, a     *)
(* leave the refresh of the row, which it leaves in place.                 *)

Signal(h) ==
    /\ At(h, "signal")
    /\ IF task[h].op \in {"wsJoin", "joinSignal"} THEN Goto(h, "log")
       ELSE IF roster[task[h].pid] = None THEN Done(h)
       ELSE IF task[h].op = "leaveSignal" THEN Goto(h, "log")
       ELSE task' = [task EXCEPT ![h].pc = "refresh", ![h].seen = roster[task[h].pid]]
    /\ UNCHANGED <<store, policy, relay, calls, doubts>>

\* putParticipant({...participant, lastSeenAt}) writes the row read before, also over
\* what became of it since.
SignalRefresh(h) ==
    /\ At(h, "refresh")
    /\ roster' = [roster EXCEPT ![task[h].pid] = task[h].seen]
    /\ Goto(h, "log")
    /\ astray' = IF roster[task[h].pid] # task[h].seen THEN astray \cup {task[h].pid} ELSE astray
    /\ hearsay' = IF roster[task[h].pid] = None THEN hearsay \cup {task[h].pid} ELSE hearsay
    /\ UNCHANGED <<room, log, policy, relay, calls, ghosts>>

\* putSignal assigns the next number of the room's log, atomically.
PutSignal(h) ==
    /\ At(h, "log")
    /\ log' = Append(log, [pid |-> task[h].pid, to |-> task[h].to])
    /\ task' = [task EXCEPT ![h].pc = "relay", ![h].seq = Len(log) + 1]
    /\ UNCHANGED <<room, roster, policy, relay, calls, doubts>>

Bound(h) == [pid |-> task[h].pid, since |-> Len(log)]

\* Those on whom the list of joinRoom is not, by now, what the roster is.
Outdated(h) == {q \in Pid \ {task[h].pid} : (q \in task[h].list) # (q \in Members)}

\* handleJoin attaches the socket, up or not, and acknowledges with the
\* roster of joinRoom.
RelayJoin(h) ==
    /\ At(h, "relay") /\ task[h].op = "wsJoin"
    /\ LET s == task[h].sock
           p == task[h].pid IN
       /\ hub' = [hub EXCEPT ![s] = Bound(h)]
       /\ told' = [q \in Sock |->
             IF q = s /\ s \in open THEN task[h].list
             ELSE IF q \in Receivers(hub', p) THEN told[q] \cup {p}
             ELSE told[q]]
       /\ hearsay' = (hearsay \ {p}) \cup (IF p \in Members THEN {} ELSE {p})
                                      \cup (IF s \in open THEN Outdated(h) ELSE {})
       /\ ghosts' = IF s \in open THEN ghosts ELSE ghosts \cup {s}
    /\ Relayed(Receivers(hub', task[h].pid), task[h].seq)
    /\ Done(h)
    /\ UNCHANGED <<store, policy, open, calls, astray>>

\* A join or a leave among what is signaled changes what the others take the roster to be.
Rumour(h) ==
    LET p == task[h].pid IN
    CASE task[h].op = "joinSignal"  -> TellJoin(Receivers(hub, p), p) /\ Announced(p, TRUE)
      [] task[h].op = "leaveSignal" -> TellLeave(Receivers(hub, p), p) /\ Announced(p, FALSE)
      [] OTHER -> UNCHANGED <<told, hearsay>>

Signaling(h) == task[h].op \in {"signal", "joinSignal", "leaveSignal"}

\* Faulty variant: the number is read off the log after the await.
RelayNewest(h) ==
    /\ At(h, "relay") /\ Signaling(h)
    /\ Relayed(Receivers(hub, task[h].pid), Len(log))
    /\ Rumour(h)
    /\ Done(h)
    /\ UNCHANGED <<store, policy, hub, open, calls, astray, ghosts>>

\* What was signaled goes to everyone else in the room.
RelaySignal(h) ==
    /\ At(h, "relay") /\ Signaling(h)
    /\ Relayed(Receivers(hub, task[h].pid), task[h].seq)
    /\ Rumour(h)
    /\ Done(h)
    /\ UNCHANGED <<store, policy, hub, open, calls, astray, ghosts>>

-----------------------------------------------------------------------------
(* leaveRoom, for a leave envelope, the REST route and a dropped socket.   *)

\* Faulty variant: handleClose detaches and leaves the participant in.
DetachOnly(h) ==
    /\ At(h, "leaveRead")
    /\ IF task[h].op = "drop"
       THEN Done(h) /\ hub' = [hub EXCEPT ![h] = None]
       ELSE /\ task' = [task EXCEPT ![h].pc = "leave", ![h].seen = roster[task[h].pid]]
            /\ UNCHANGED hub
    /\ UNCHANGED <<store, policy, open, told, got, calls, doubts>>

\* The REST route and handleClose look the participant up first, for the
\* leave envelope.  handleClose only detaches when there is none; the route
\* goes on without an envelope.
LeaveRead(h) ==
    /\ At(h, "leaveRead")
    /\ IF task[h].op = "drop" /\ roster[task[h].pid] = None
       THEN Done(h) /\ hub' = [hub EXCEPT ![h] = None]
       ELSE /\ task' = [task EXCEPT ![h].pc = "leave", ![h].seen = roster[task[h].pid]]
            /\ UNCHANGED hub
    /\ UNCHANGED <<store, policy, open, told, got, calls, doubts>>

Enveloped(h) == task[h].op = "wsLeave" \/ task[h].seen # None

LeaveRoom(h) ==
    /\ At(h, "leave")
    /\ task' = [task EXCEPT ![h].pc = "leaveSeen", ![h].row = room]
    /\ UNCHANGED <<store, policy, relay, calls, doubts>>

\* Faulty variant: the close handler's catch does not detach.
LeaveSeenReports(h) ==
    /\ At(h, "leaveSeen")
    /\ IF roster[task[h].pid] # None THEN Goto(h, "leaveDelete") ELSE Done(h)
    /\ UNCHANGED <<store, policy, relay, calls, doubts>>

\* participant_not_found: the close handler detaches, the others report.
LeaveSeen(h) ==
    /\ At(h, "leaveSeen")
    /\ IF roster[task[h].pid] # None
       THEN Goto(h, "leaveDelete") /\ UNCHANGED hub
       ELSE /\ Done(h)
            /\ hub' = IF task[h].op = "drop" THEN [hub EXCEPT ![h] = None] ELSE hub
    /\ UNCHANGED <<store, policy, open, told, got, calls, doubts>>

LeaveDelete(h) ==
    /\ At(h, "leaveDelete")
    /\ roster' = [roster EXCEPT ![task[h].pid] = None]
    /\ Goto(h, "leaveTouch")
    /\ astray' = astray \ {task[h].pid}
    /\ hearsay' = IF Enveloped(h) THEN hearsay ELSE hearsay \cup {task[h].pid}
    /\ UNCHANGED <<room, log, policy, relay, calls, ghosts>>

LeaveTouch(h) ==
    /\ At(h, "leaveTouch")
    /\ room' = task[h].row
    /\ IF Enveloped(h) THEN Goto(h, "log") ELSE Done(h)
    /\ UNCHANGED <<roster, log, policy, relay, calls, doubts>>

\* The socket is detached first, then the leave goes to everyone else.
RelayLeave(h) ==
    /\ At(h, "relay") /\ task[h].op \in {"wsLeave", "restLeave", "drop"}
    /\ hub' = IF task[h].op = "restLeave" THEN hub ELSE [hub EXCEPT ![task[h].sock] = None]
    /\ TellLeave(Receivers(hub', task[h].pid), task[h].pid)
    /\ Announced(task[h].pid, FALSE)
    /\ Relayed(Receivers(hub', task[h].pid), task[h].seq)
    /\ Done(h)
    /\ UNCHANGED <<store, policy, open, calls, astray, ghosts>>

-----------------------------------------------------------------------------
(* Administration: closeRoom, updateRoomPolicy and moderateRoom.           *)

RoomRead(h) ==
    /\ At(h, "roomRead")
    /\ task' = [task EXCEPT ![h].pc = "roomWrite", ![h].row = room]
    /\ UNCHANGED <<store, policy, relay, calls, doubts>>

Patched(h) ==
    CASE task[h].op = "closeRoom" -> [task[h].row EXCEPT !.state = "closed"]
      [] task[h].op = "lock"      -> [task[h].row EXCEPT !.locked = TRUE]
      [] task[h].op = "unlock"    -> [task[h].row EXCEPT !.locked = FALSE]

RoomWrite(h) ==
    /\ At(h, "roomWrite")
    /\ room' = Patched(h)
    /\ Done(h)
    /\ UNCHANGED <<roster, log, policy, relay, calls, doubts>>

\* A ban enters banStore in the same turn as the room is read.
Kick(h) ==
    /\ At(h, "kick")
    /\ banned' = IF task[h].op = "ban" THEN banned \cup {task[h].pid} ELSE banned
    /\ task' = [task EXCEPT ![h].pc = "kickSeen", ![h].row = room]
    /\ UNCHANGED <<store, lobby, relay, calls, doubts>>

KickSeen(h) ==
    /\ At(h, "kickSeen")
    /\ IF roster[task[h].pid] # None THEN Goto(h, "kickDelete")
       ELSE IF task[h].op = "ban" THEN Goto(h, "kickTouch")
       ELSE Done(h)
    /\ UNCHANGED <<store, policy, relay, calls, doubts>>

KickDelete(h) ==
    /\ At(h, "kickDelete")
    /\ roster' = [roster EXCEPT ![task[h].pid] = None]
    /\ Goto(h, "kickTouch")
    /\ astray' = astray \ {task[h].pid}
    /\ UNCHANGED <<room, log, policy, relay, calls, hearsay, ghosts>>

\* Faulty variant: only the target is told.
KickTouchQuiet(h) ==
    /\ At(h, "kickTouch")
    /\ room' = task[h].row
    /\ TellLeave({s \in open : hub[s] # None /\ hub[s].pid = task[h].pid}, task[h].pid)
    /\ Announced(task[h].pid, FALSE)
    /\ Done(h)
    /\ UNCHANGED <<roster, log, policy, hub, open, got, calls, astray, ghosts>>

\* moderateHandler then tells every socket, the target's own included.  No
\* socket is detached or closed.
KickTouch(h) ==
    /\ At(h, "kickTouch")
    /\ room' = task[h].row
    /\ TellLeave(Receivers(hub, None), task[h].pid)
    /\ Announced(task[h].pid, FALSE)
    /\ Done(h)
    /\ UNCHANGED <<roster, log, policy, hub, open, got, calls, astray, ghosts>>

\* unban, or the ban's ttl passing.  Nobody leaves the lobby: the admit route
\* passes the store where admitLobby takes the room, and answers 400.
Lift(h) ==
    /\ At(h, "lift")
    /\ banned' = banned \ {task[h].pid}
    /\ Done(h)
    /\ UNCHANGED <<store, lobby, relay, calls, doubts>>

-----------------------------------------------------------------------------
JoinStep(h) ==
    \/ JoinPolicy(h) \/ JoinRoom(h) \/ JoinSeen(h) \/ JoinCount(h)
    \/ JoinPut(h) \/ JoinTouch(h) \/ JoinList(h) \/ RelayJoin(h)

SignalStep(h) ==
    Signal(h) \/ SignalRefresh(h) \/ PutSignal(h) \/ RelaySignal(h)

LeaveStep(h) ==
    \/ LeaveRead(h) \/ LeaveRoom(h) \/ LeaveSeen(h) \/ LeaveDelete(h)
    \/ LeaveTouch(h) \/ RelayLeave(h)

AdminStep(h) ==
    \/ RoomRead(h) \/ RoomWrite(h) \/ Kick(h) \/ KickSeen(h) \/ KickDelete(h)
    \/ KickTouch(h) \/ Lift(h)

Step(h) == JoinStep(h) \/ SignalStep(h) \/ LeaveStep(h) \/ AdminStep(h)

Next ==
    \/ \E w \in Worker, op \in Ops, p \in Pid, s \in Sock \cup {None}, to \in Pid \cup {None} :
           Request(w, op, p, s, to)
    \/ \E s \in Sock : Drop(s)
    \/ \E h \in Handler : Step(h)

Spec == Init /\ [][Next]_vars
-----------------------------------------------------------------------------
(* Properties.                                                             *)

Pc == {"idle", "policy", "join", "joinSeen", "joinCount", "joinPut", "joinTouch",
       "joinList", "signal", "refresh", "log", "relay", "leaveRead", "leave",
       "leaveSeen", "leaveDelete", "leaveTouch", "roomRead", "roomWrite",
       "kick", "kickSeen", "kickDelete", "kickTouch", "lift"}
Row == [state : {"open", "closed"}, locked : BOOLEAN]
Task == [pc : Pc, op : AllOps \cup {"drop", None}, pid : Pid \cup {None},
         sock : Sock \cup {None}, to : Pid \cup {None}, row : Row \cup {None},
         seen : Session \cup {None}, list : SUBSET Pid, seq : Nat]

\* Every variable keeps its type: Store rows, the process-local maps, the
\* hub's bindings and what each suspended handler has read.
TypeOK ==
    /\ room \in Row
    /\ roster \in [Pid -> Session \cup {None}]
    /\ log \in Seq([pid : Pid, to : Pid \cup {None}])
    /\ banned \subseteq Pid /\ lobby \subseteq Pid
    /\ hub \in [Sock -> [pid : Pid, since : Nat] \cup {None}]
    /\ open \subseteq Sock
    /\ told \in [Sock -> SUBSET Pid]
    /\ got \in [Sock -> SUBSET Nat]
    /\ task \in [Handler -> Task]
    /\ calls \in 0..MaxCalls
    /\ astray \subseteq Pid /\ hearsay \subseteq Pid /\ ghosts \subseteq Sock

\* Handlers past their check that are about to write a participant row.
Pending == {task[h].pid : h \in {k \in Handler : task[k].pc \in {"joinPut", "refresh"}}}

\* However joins, leaves, kicks and signals interleave, the room is over its
\* capacity by at most the joins that ran at the same time as the last
\* admitted one: the count in joinRoom bounds the overshoot.
OvershootBounded == Cardinality(Members \cup Pending) <= Cap + Cardinality(Worker) - 1

\* ws.ts: "a dropped connection removes the participant": with no handler
\* running, nobody is in the room on the session of a connection that is gone.
DroppedRemoved == Quiet => \A p \in Members \ astray : roster[p] \in open \cup {Rest}

\* A banned participant is out of the room when the server is idle.
BannedOut == Quiet => banned \cap Members \subseteq astray

\* An idle server's roster holds neither a participant whose connection is gone nor a banned
\* one, whatever joins, leaves, drops, signals, kicks and bans ran beside each other.  The
\* exceptions are rows that were written after the connection had gone or the ban been
\* recorded, by a join under way (core.ts:351-382) or from an older row (core.ts:482-488),
\* and those of a connection bound to somebody else or to nobody when it went.
RosterHolds == DroppedRemoved /\ BannedOut

\* What the relay has told a connected client (the roster in its ack, then join and leave
\* broadcasts) is the roster once every handler has finished, whatever ran beside each
\* other, but for hearsay: participants of whom the last announcement was not true of the
\* roster when it was made, those a joiner's list was wrong about when its socket was
\* attached (ws.ts:381-384), and those whose row a refresh brought back (core.ts:488).
ViewsAgree ==
    Quiet => \A s \in open : hub[s] # None =>
        \A p \in Pid \ (hearsay \cup {hub[s].pid}) : p \in told[s] <=> p \in Members

\* The relay persists a signal before it broadcasts it, and broadcasts all it persists: what
\* a socket is sent as an entry of the log is one, and once the server is idle it has every
\* entry of the others since it was attached that is for everyone or for its participant.
\* (core.ts:464-468 has a targeted one go to its target only; ws.ts:306 and http.ts:284
\* send it to everyone, of which nothing is said here.)
RelayMatchesLog ==
    /\ \A s \in Sock : got[s] \subseteq 1..Len(log)
    /\ Quiet => \A s \in open : hub[s] # None =>
         {n \in hub[s].since + 1..Len(log) :
            log[n].pid # hub[s].pid /\ log[n].to \in {None, hub[s].pid}} \subseteq got[s]

\* A connection that is gone is out of the hub once the server is idle, whatever became of
\* its participant meanwhile and whoever it last spoke for, unless it went while its join was
\* under way: that join attaches it all the same, and for good (ws.ts:381-382).
DropDetaches == Quiet => \A s \in Sock \ open : hub[s] # None => s \in ghosts
=============================================================================
