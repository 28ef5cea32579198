---------------------------- MODULE SharedServers ----------------------------
(***************************************************************************)
(* What the stores and the relays make of one room when its members are    *)
(* connected to two server processes: InMemoryStore, SqliteStore,          *)
(* RedisStore, PostgresStore and MysqlStore (packages/server/src/stores),  *)
(* RedisRelay and PostgresNotifyRelay (packages/server/src/relays), with   *)
(* RoomHub below them and the clients' windows at the end.                 *)
(*                                                                         *)
(* A Store call is one step where the store makes it atomic (InMemoryStore *)
(* in its turn, SqliteStore in a transaction) and one step per command or  *)
(* statement elsewhere; a number that a sequence or INCR hands out is seen *)
(* by readers only when its insert is committed or its ZADD has run.  The  *)
(* in-memory and the SQLite store serve one process; with MySQL goes the   *)
(* Redis relay.  An envelope is a number; a sender's envelopes rise.       *)
(***************************************************************************)
EXTENDS Integers, Sequences, FiniteSets, FiniteSetsExt

CONSTANTS
  Client,     \* members, each with one socket
  Near,       \* those connected to process "a"; the others to "b"
  MaxE,       \* bound: envelopes
  MaxCalls    \* bound: joins, leaves, signals and deletions

VARIABLES
  kind,       \* the store in use
  rows,       \* stored participants
  index,      \* RedisStore's set of participant ids
  log,        \* readable signals: their number and envelope
  counter,    \* the last number given out
  sig,        \* each envelope's sender and how far its handler is
  conn,       \* how far each client's join or leave is
  subs,       \* RedisRelay: which processes are subscribed to the channel
  wire,       \* published and not yet delivered, per process
  got,        \* envelopes handled by each client, in order
  poller,     \* a reader of listSignals(since)
  deletion,   \* how far deleteRoom is, and the ids it has read
  history,    \* what the exceptions of the properties refer to
  calls

table == <<rows, index>>
signals == <<log, counter>>
relay == <<subs, wire, got>>
vars == <<kind, table, signals, sig, conn, relay, poller, deletion, history, calls>>

Kind == {"memory", "sqlite", "redis", "postgres", "mysql"}
Process == {"a", "b"}
E == 1 .. MaxE
Alone == kind \in {"memory", "sqlite"}
Home(c) == IF Alone \/ c \in Near THEN "a" ELSE "b"

Init ==
  /\ kind \in Kind
  /\ rows = {} /\ index = {} /\ log = {} /\ counter = 0
  /\ sig = [e \in E |-> [from |-> "none", pc |-> "unsent", n |-> 0]]
  /\ conn = [c \in Client |-> "out"]
  /\ subs = [q \in Process |-> "no"] /\ wire = [q \in Process |-> <<>>]
  /\ got = [c \in Client |-> <<>>]
  /\ poller = [cursor |-> 0, seen |-> {}]
  /\ deletion = [pc |-> "idle", ids |-> {}]
  /\ history = [late |-> {}, reset |-> FALSE, swept |-> FALSE,
                overtaken |-> {}, owed |-> [e \in E |-> {}]]
  /\ calls = 0

Call == calls < MaxCalls /\ calls' = calls + 1

-----------------------------------------------------------------------------
(* Participant rows.  RedisStore keeps each row under a key of its own and *)
(* the ids in a set; the SQL stores have one table.                        *)

\* SADD after SET.
AddId(c) == index' = index \cup {c}
PutRow(c) == rows' = rows \cup {c} /\ UNCHANGED index
DropRow(c) == rows' = rows \ {c} /\ UNCHANGED index
DropId(c) == index' = index \ {c} /\ UNCHANGED rows

Listed == IF kind = "redis" THEN rows \cap index ELSE rows

\* A put or delete that runs while deleteRoom has begun.
Sweeping == deletion.pc # "idle"
Swept == history' = [history EXCEPT !.swept = @ \/ Sweeping]

-----------------------------------------------------------------------------
(* Joining and leaving over a socket.                                      *)

Join(c) ==
  /\ conn[c] = "out" /\ Call
  /\ PutRow(c) /\ Swept
  /\ conn' = [conn EXCEPT ![c] = IF kind = "redis" THEN "index" ELSE "joined"]
  /\ UNCHANGED <<kind, signals, sig, relay, poller, deletion>>
JoinIndexed(c) ==
  /\ conn[c] = "index"
  /\ AddId(c) /\ UNCHANGED rows /\ Swept
  /\ conn' = [conn EXCEPT ![c] = "joined"]
  /\ UNCHANGED <<kind, signals, sig, relay, poller, deletion, calls>>

\* RedisRelay.attach: the first socket of a process subscribes it, and nobody
\* waits for that.
Attached(q) == {c \in Client : conn[c] \in {"in", "unrow", "unindex"} /\ Home(c) = q}
Attach(c) ==
  LET q == Home(c) IN
  /\ conn[c] = "joined"
  /\ conn' = [conn EXCEPT ![c] = "in"]
  /\ subs' = IF subs[q] = "no" THEN [subs EXCEPT ![q] = "pending"] ELSE subs
  /\ UNCHANGED <<kind, table, signals, sig, wire, got, poller, deletion, history, calls>>
Subscribed(q) ==
  /\ subs[q] = "pending" /\ subs' = [subs EXCEPT ![q] = "yes"]
  /\ UNCHANGED <<kind, table, signals, sig, conn, wire, got, poller, deletion, history, calls>>

\* leave: the row goes first; the socket is detached when that is done, and
\* the last one of a process unsubscribes it.
Leave(c) ==
  /\ conn[c] = "in" /\ Call
  /\ DropRow(c) /\ Swept
  /\ conn' = [conn EXCEPT ![c] = IF kind = "redis" THEN "unindex" ELSE "unrow"]
  /\ UNCHANGED <<kind, signals, sig, relay, poller, deletion>>
LeaveIndexed(c) ==
  /\ conn[c] = "unindex"
  /\ DropId(c) /\ Swept
  /\ conn' = [conn EXCEPT ![c] = "unrow"]
  /\ UNCHANGED <<kind, signals, sig, relay, poller, deletion, calls>>
Detach(c) ==
  LET q == Home(c) IN
  /\ conn[c] = "unrow"
  /\ conn' = [conn EXCEPT ![c] = "left"]
  /\ subs' = IF Attached(q) = {c} THEN [subs EXCEPT ![q] = "no"] ELSE subs
  /\ history' = [history EXCEPT !.owed = [e \in E |-> @[e] \ {c}]]
  /\ UNCHANGED <<kind, table, signals, sig, wire, got, poller, deletion, calls>>

-----------------------------------------------------------------------------
(* Signals: refresh the sender's row, store the envelope, broadcast it.    *)

At(e, pc) == sig[e].pc = pc
Goto(e, pc) == sig' = [sig EXCEPT ![e].pc = pc]

\* handleMessage is not awaited: a socket's next envelope may be handled
\* before this one is through.
Signal(c, e) ==
  /\ conn[c] = "in" /\ c \in rows /\ Call
  /\ At(e, "unsent") /\ \A d \in 1 .. e - 1 : ~At(d, "unsent")
  /\ sig' = [sig EXCEPT ![e] = [from |-> c, pc |-> "row", n |-> 0]]
  /\ UNCHANGED <<kind, table, signals, conn, relay, poller, deletion, history>>
Refresh(e) ==
  /\ At(e, "row")
  /\ PutRow(sig[e].from) /\ Swept
  /\ Goto(e, IF kind = "redis" THEN "index" ELSE "put")
  /\ UNCHANGED <<kind, signals, conn, relay, poller, deletion, calls>>
RefreshIndexed(e) ==
  /\ At(e, "index")
  /\ AddId(sig[e].from) /\ UNCHANGED rows /\ Swept /\ Goto(e, "put")
  /\ UNCHANGED <<kind, signals, conn, relay, poller, deletion, calls>>

\* InMemoryStore counts up; SqliteStore takes MAX(seq) + 1 in a transaction.
Highest == IF log = {} THEN 0 ELSE Max({s.n : s \in log})
NextNumber == IF kind = "sqlite" THEN Highest + 1 ELSE counter + 1
PutSignal(e) ==
  /\ Alone /\ At(e, "put")
  /\ counter' = NextNumber
  /\ log' = log \cup {[n |-> NextNumber, e |-> e]}
  /\ Goto(e, "stored")
  /\ UNCHANGED <<kind, table, conn, relay, poller, deletion, history, calls>>

\* The number is handed out: INCR, an identity column, AUTO_INCREMENT.
Number(e) ==
  /\ ~Alone /\ At(e, "put")
  /\ counter' = counter + 1
  /\ sig' = [sig EXCEPT ![e].pc = "numbered", ![e].n = counter + 1]
  /\ UNCHANGED <<kind, table, log, conn, relay, poller, deletion, history, calls>>
\* The row is readable: ZADD has run, the insert is committed.
Publish(e) ==
  LET n == sig[e].n IN
  /\ At(e, "numbered")
  /\ log' = log \cup {[n |-> n, e |-> e]}
  /\ history' = [history EXCEPT !.late = IF \E s \in log : s.n > n THEN @ \cup {e} ELSE @]
  /\ Goto(e, "stored")
  /\ UNCHANGED <<kind, table, counter, conn, relay, poller, deletion, calls>>

\* The engine's window: newer than everything handled from this sender.
Newest(c, e) == \A i \in DOMAIN got[c] : sig[got[c][i]].from = sig[e].from => got[c][i] < e
\* RoomHub.broadcast on process q, never back to the sender.
FanOut(q, e) == got' = [c \in Client |->
  IF c \in Attached(q) \ {sig[e].from} /\ Newest(c, e) THEN Append(got[c], e) ELSE got[c]]

\* Faulty variant: the process leaves its own sockets to the channel.
ChannelOnly(q, e) == UNCHANGED got

LocalFanOut(q, e) == FanOut(q, e)

\* The processes that a publication reaches: the publisher's own too.
Listening == CASE Alone              -> {}
               [] kind = "postgres"  -> Process
               [] OTHER              -> {q \in Process : subs[q] = "yes"}

\* An earlier envelope whose handler is behind this one's.
Behind(e) == {d \in 1 .. e - 1 : sig[d].from = sig[e].from /\ ~At(d, "sent")}

Broadcast(e) ==
  LET q == Home(sig[e].from) IN
  /\ At(e, "stored")
  /\ LocalFanOut(q, e)
  /\ wire' = [p \in Process |-> IF p \in Listening THEN Append(wire[p], e) ELSE wire[p]]
  /\ history' = [history EXCEPT
       !.overtaken = @ \cup Behind(e),
       !.owed[e] = UNION {Attached(p) : p \in Listening \cup {q}} \ {sig[e].from}]
  /\ Goto(e, "sent")
  /\ UNCHANGED <<kind, table, signals, conn, subs, poller, deletion, calls>>

\* Redis keeps a publisher's order; NOTIFY goes through a pool of connections.
Arrivals(q) == IF kind = "postgres" THEN DOMAIN wire[q] ELSE {1} \cap DOMAIN wire[q]
Without(s, i) == [j \in 1 .. Len(s) - 1 |-> IF j < i THEN s[j] ELSE s[j + 1]]
Deliver(q, i) ==
  LET e == wire[q][i] IN
  /\ FanOut(q, e)
  /\ wire' = [wire EXCEPT ![q] = Without(@, i)]
  /\ history' = [history EXCEPT !.overtaken = @ \cup
       {wire[q][j] : j \in {k \in 1 .. i - 1 : sig[wire[q][k]].from = sig[e].from}}]
  /\ UNCHANGED <<kind, table, signals, sig, conn, subs, poller, deletion, calls>>
\* A publication that fails is not reported: publish().catch(() => {}).
Lose(q, i) ==
  LET e == wire[q][i] IN
  /\ wire' = [wire EXCEPT ![q] = Without(@, i)]
  /\ history' = [history EXCEPT !.owed[e] = @ \ {c \in Client : Home(c) = q /\ Home(sig[e].from) # q}]
  /\ UNCHANGED <<kind, table, signals, sig, conn, subs, got, poller, deletion, calls>>

-----------------------------------------------------------------------------
(* Reading and deleting.                                                   *)

\* The reader asks for what is after the last number it has seen.
Cursor(S) == IF S = {} THEN poller.cursor ELSE Max({s.n : s \in S})
Poll ==
  LET page == {s \in log : s.n > poller.cursor} IN
  /\ page # {}
  /\ poller' = [cursor |-> Cursor(page), seen |-> poller.seen \cup {s.e : s \in page}]
  /\ UNCHANGED <<kind, table, signals, sig, conn, relay, deletion, history, calls>>

\* deleteRoom: at once in memory and in SQLite's transaction; RedisStore reads
\* the ids first; the SQL stores send one DELETE after the other.
Restarts == kind \in {"memory", "sqlite", "redis"}
Cleared == log' = {} /\ counter' = (IF Restarts THEN 0 ELSE counter)
DeleteAtOnce ==
  /\ Alone /\ Call
  /\ rows' = {} /\ index' = {} /\ Cleared
  /\ history' = [history EXCEPT !.reset = TRUE, !.swept = TRUE]
  /\ UNCHANGED <<kind, sig, conn, relay, poller, deletion>>
DeleteRoom ==
  /\ ~Alone /\ deletion.pc = "idle" /\ Call
  /\ IF kind = "redis"
     THEN deletion' = [pc |-> "del", ids |-> index] /\ UNCHANGED rows
     ELSE deletion' = [pc |-> "signals", ids |-> {}] /\ rows' = {}
  /\ history' = [history EXCEPT !.swept = TRUE]
  /\ UNCHANGED <<kind, index, signals, sig, conn, relay, poller>>
DeleteRest ==
  /\ deletion.pc # "idle"
  /\ rows' = rows \ deletion.ids
  /\ index' = IF kind = "redis" THEN {} ELSE index
  /\ Cleared
  /\ deletion' = [pc |-> "idle", ids |-> {}]
  /\ history' = [history EXCEPT !.reset = TRUE]
  /\ UNCHANGED <<kind, sig, conn, relay, poller, calls>>

-----------------------------------------------------------------------------
Next ==
  \/ \E c \in Client : \/ Join(c) \/ JoinIndexed(c) \/ Attach(c)
                       \/ Leave(c) \/ LeaveIndexed(c) \/ Detach(c)
                       \/ \E e \in E : Signal(c, e)
  \/ \E e \in E : \/ Refresh(e) \/ RefreshIndexed(e) \/ PutSignal(e)
                  \/ Number(e) \/ Publish(e) \/ Broadcast(e)
  \/ \E q \in Process : \/ Subscribed(q)
                        \/ \E i \in Arrivals(q) : Deliver(q, i) \/ Lose(q, i)
  \/ Poll \/ DeleteAtOnce \/ DeleteRoom \/ DeleteRest

Spec == Init /\ [][Next]_vars

-----------------------------------------------------------------------------
AtRest == /\ \A e \in E : sig[e].pc \in {"unsent", "sent"}
          /\ \A c \in Client : conn[c] \in {"out", "in", "left"}
          /\ \A q \in Process : wire[q] = <<>>
          /\ deletion.pc = "idle"

\* Although a publisher hears itself and its own sockets get everything twice,
\* no client handles an envelope twice; and at rest every client that was
\* attached to a listening process has handled it, unless a later one of the
\* same sender overtook it in its handler or on NOTIFY, or it was lost.
ReachesOnce ==
  /\ \A c \in Client : \A i, j \in DOMAIN got[c] : got[c][i] = got[c][j] => i = j
  /\ AtRest => \A e \in E : \A c \in history.owed[e] :
       e \in history.overtaken \/ \E i \in DOMAIN got[c] : got[c][i] = e

\* A reader that has moved its cursor past a signal has read it, unless the
\* signal became readable after one with a higher number, or the room was
\* deleted and numbering began again.
CursorComplete == \A s \in log :
  s.n <= poller.cursor => s.e \in poller.seen \cup history.late \/ history.reset

\* At rest every member that is connected is listed, for RedisStore under its
\* key and in the set of ids: no refresh by an earlier signal, and no leave of
\* another, has taken it off.  A deletion of the room may have.
Listing == AtRest /\ ~history.swept =>
  {c \in Client : conn[c] = "in"} \subseteq Listed
=============================================================================
