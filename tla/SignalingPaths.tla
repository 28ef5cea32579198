--------------------------- MODULE SignalingPaths ---------------------------
(***************************************************************************)
(* The transport wrappers of packages/transport, stacked: every peer talks *)
(* through a CompositeTransport whose primary is a ReconnectingTransport.  *)
(* The two backends underneath, "primary" and "fallback", are pub/sub      *)
(* rooms that keep the order of what they carry (InMemoryBackend.ts); the  *)
(* primary one also keeps the log that fetchSignals reads.                 *)
(*                                                                         *)
(* A suspended emit() is a member of emits[p]; the loop of doReconnect()   *)
(* is rc[p].  An envelope is [from, seq], seq running over one session.    *)
(***************************************************************************)
EXTENDS Integers, Sequences, FiniteSets, FiniteSetsExt

CONSTANTS
  Peer,          \* participants of the room
  MaxSeq,        \* bound: envelopes a peer emits
  MaxEmits,      \* bound: envelopes all peers emit
  MaxFaults,     \* bound: calls that fail and connections that drop
  MaxAttempts    \* ReconnectingOptions.maxAttempts

VARIABLES
  stage,    \* the composite: "out", "joining", "in", "leaving", "left"
  up,       \* who is subscribed to each backend
  wire,     \* wire[path][p]: envelopes on their way to p
  log,      \* signal log of the primary backend
  conn,     \* ReconnectingTransport: roomId set, closed, inner handlers, lastSeq
  rc,       \* doReconnect(): where it is, attempt, the `since' it asked with
  win,      \* CompositeTransport.seen
  bound,    \* the composite has subscribed to both paths
  emits,    \* suspended emit() calls
  seq,      \* next sequence number of each Room
  got,      \* what the Room was handed, per sender, in order
  synced,   \* since its last loss on the primary p has replayed the log
  owed,     \* envelopes logged while p was in the room, connected or not
  raced,    \* leave() was called while doReconnect() ran
  asked,    \* what the last replay had asked for: the numbers above it
  faults

transport == <<stage, up, conn, rc, win, bound>>
vars == <<transport, wire, log, emits, seq, got, synced, owed, raced, asked, faults>>

Path == {"primary", "fallback"}
Idle == [at |-> "idle", attempt |-> 0, since |-> -1]

Init ==
  /\ stage = [p \in Peer |-> "out"]
  /\ up = [x \in Path |-> {}]
  /\ wire = [x \in Path |-> [p \in Peer |-> <<>>]]
  /\ log = {}
  /\ conn = [p \in Peer |-> [room |-> FALSE, closed |-> FALSE,
                             handlers |-> FALSE, lastSeq |-> -1]]
  /\ rc = [p \in Peer |-> Idle]
  /\ win = [p \in Peer |-> [q \in Peer |-> -1]]
  /\ bound = [p \in Peer |-> FALSE]
  /\ emits = [p \in Peer |-> {}]
  /\ seq = [p \in Peer |-> 0]
  /\ got = [p \in Peer |-> [q \in Peer |-> <<>>]]
  /\ synced = [p \in Peer |-> TRUE]
  /\ owed = [p \in Peer |-> {}]
  /\ raced = [p \in Peer |-> FALSE]
  /\ asked = [p \in Peer |-> -1]
  /\ faults = 0

Fault == faults < MaxFaults /\ faults' = faults + 1
May(ok) == IF ok THEN UNCHANGED faults ELSE Fault

Higher(m, n) == IF m > n THEN m ELSE n

Silenced(x, p) == [wire EXCEPT ![x][p] = <<>>]

-----------------------------------------------------------------------------
(* CompositeTransport.join() and leave().                                  *)

\* The primary first: ReconnectingTransport.join() keeps the room id even when
\* the backend refuses.
JoinPrimary(p) ==
  /\ stage[p] = "out"
  /\ \E ok \in BOOLEAN :
       /\ May(ok)
       /\ up' = IF ok THEN [up EXCEPT !["primary"] = @ \cup {p}] ELSE up
       /\ conn' = [conn EXCEPT ![p].room = TRUE, ![p].closed = FALSE,
                               ![p].handlers = @ \/ ok]
       /\ synced' = [synced EXCEPT ![p] = ok]
  /\ stage' = [stage EXCEPT ![p] = "joining"]
  /\ UNCHANGED <<wire, log, owed, rc, win, bound, emits, seq, got, raced, asked>>

\* Then the fallback; only if both refuse does the join fail.
JoinFallback(p) ==
  /\ stage[p] = "joining"
  /\ \E ok \in BOOLEAN :
       /\ May(ok)
       /\ up' = IF ok THEN [up EXCEPT !["fallback"] = @ \cup {p}] ELSE up
       /\ LET in == ok \/ conn[p].handlers
          IN /\ stage' = [stage EXCEPT ![p] = IF in THEN "in" ELSE "out"]
             /\ bound' = [bound EXCEPT ![p] = in]
  /\ UNCHANGED <<wire, log, owed, conn, rc, win, emits, seq, got, synced, raced, asked>>

\* leave(): handlers go and the window is cleared, then both paths are left.
Leave(p) ==
  /\ stage[p] = "in"
  /\ stage' = [stage EXCEPT ![p] = "leaving"]
  /\ bound' = [bound EXCEPT ![p] = FALSE]
  /\ win' = [win EXCEPT ![p] = [q \in Peer |-> -1]]
  /\ conn' = [conn EXCEPT ![p].closed = TRUE, ![p].handlers = FALSE]
  /\ raced' = [raced EXCEPT ![p] = rc[p].at # "idle"]
  /\ UNCHANGED <<up, wire, log, owed, rc, emits, seq, got, synced, asked, faults>>

Left(p) ==
  /\ stage[p] = "leaving"
  /\ stage' = [stage EXCEPT ![p] = "left"]
  /\ up' = [x \in Path |-> up[x] \ {p}]
  /\ conn' = [conn EXCEPT ![p].room = FALSE]
  /\ wire' = [x \in Path |-> [wire[x] EXCEPT ![p] = <<>>]]
  /\ UNCHANGED <<log, owed, rc, win, bound, emits, seq, got, synced, raced, asked, faults>>

-----------------------------------------------------------------------------
(* emit().                                                                 *)

\* A backend's emit(): it hands the envelope to everyone else subscribed.
Carry(x, e) ==
  /\ wire' = [wire EXCEPT ![x] = [q \in Peer |->
                IF q \in up[x] \ {e.from} THEN Append(@[q], e) ELSE @[q]]]
  /\ log' = IF x = "primary" THEN log \cup {e} ELSE log
  /\ owed' = IF x = "primary"
             THEN [q \in Peer |-> IF stage[q] = "in" THEN owed[q] \cup {e} ELSE owed[q]]
             ELSE owed

\* One try of p to emit on path x.  It resolves, or it rejects: p is not
\* subscribed, the call fails, or only its answer is lost and e is out.
Try(p, x, e, resolve, reject) ==
  \/ p \in up[x] /\ Carry(x, e) /\ UNCHANGED faults /\ resolve
  \/ p \notin up[x] /\ UNCHANGED <<wire, log, owed, faults>> /\ reject
  \/ p \in up[x] /\ Fault /\ Carry(x, e) /\ reject
  \/ p \in up[x] /\ Fault /\ UNCHANGED <<wire, log, owed>> /\ reject

\* doReconnect() starts for the emit() that failed, unless it already runs:
\* then it returns at once.
Reconnect(p, n) ==
  IF rc[p].at = "idle"
  THEN /\ rc' = [rc EXCEPT ![p] = [Idle EXCEPT !.at = "backoff"]]
       /\ emits' = [emits EXCEPT ![p] = @ \cup {[seq |-> n, at |-> "waits"]}]
  ELSE /\ emits' = [emits EXCEPT ![p] = @ \cup {[seq |-> n, at |-> "retry"]}]
       /\ UNCHANGED rc

\* ReconnectingTransport.emit(), first try.
Emit(p) ==
  LET n == seq[p] IN
  /\ stage[p] = "in" /\ n < MaxSeq /\ MapThenSumSet(LAMBDA q : seq[q], Peer) < MaxEmits
  /\ seq' = [seq EXCEPT ![p] = @ + 1]
  /\ conn' = [conn EXCEPT ![p].lastSeq = Higher(@, n)]
  /\ Try(p, "primary", [from |-> p, seq |-> n], UNCHANGED <<emits, rc>>,
         Reconnect(p, n))
  /\ UNCHANGED <<stage, up, win, bound, got, synced, raced, asked>>

Pending(p, c, at) ==
  emits' = [emits EXCEPT ![p] = (@ \ {c}) \cup {[c EXCEPT !.at = at]}]

Done(p, c) == emits' = [emits EXCEPT ![p] = @ \ {c}]

\* The retry after doReconnect() returned, then CompositeTransport's catch.
Retry(p, c) ==
  /\ c.at = "retry"
  /\ Try(p, "primary", [from |-> p, seq |-> c.seq], Done(p, c),
         Pending(p, c, "fallback"))
  /\ UNCHANGED <<transport, seq, got, synced, raced, asked>>

\* The fallback's answer is the composite's, whatever it is.
EmitFallback(p, c) ==
  /\ c.at = "fallback"
  /\ Try(p, "fallback", [from |-> p, seq |-> c.seq], Done(p, c), Done(p, c))
  /\ UNCHANGED <<transport, seq, got, synced, raced, asked>>

-----------------------------------------------------------------------------
(* doReconnect().                                                          *)

Owner(p, at) ==
  emits' = [emits EXCEPT ![p] =
              {IF c.at = "waits" THEN [c EXCEPT !.at = at] ELSE c : c \in @}]

\* maxAttempts exceeded: the flag goes down and the caller's emit throws.
GaveUp(p) ==
  /\ rc' = [rc EXCEPT ![p] = Idle]
  /\ Owner(p, "fallback")

\* After the backoff: leave, then join again.  `closed' is not looked at, and
\* leave() may have cleared the room id: the backend then joins no room.
Attempt(p) ==
  /\ rc[p].at = "backoff"
  /\ IF rc[p].attempt >= MaxAttempts
     THEN GaveUp(p) /\ UNCHANGED <<up, wire, conn, synced, faults>>
     ELSE \E ok \in BOOLEAN :
            /\ May(ok)
            /\ wire' = Silenced("primary", p)
            /\ synced' = [synced EXCEPT ![p] = FALSE]
            /\ up' = [up EXCEPT !["primary"] =
                        IF ok /\ conn[p].room THEN @ \cup {p} ELSE @ \ {p}]
            /\ conn' = [conn EXCEPT ![p].handlers = @ \/ ok]
            /\ rc' = [rc EXCEPT ![p] =
                        IF ok THEN [rc[p] EXCEPT !.at = "replay", !.since = conn[p].lastSeq]
                        ELSE [rc[p] EXCEPT !.attempt = rc[p].attempt + 1]]
            /\ UNCHANGED emits
  /\ UNCHANGED <<stage, log, owed, win, bound, seq, got, raced, asked>>

\* Faulty variant: an envelope with the last number again passes.
IsNewOrEqual(p, e) == e.seq >= win[p][e.from]

\* CompositeTransport.isNew().
IsNew(p, e) == e.seq > win[p][e.from]

\* The composite's onMessage handler.
Hand(p, e) ==
  IF bound[p] /\ IsNew(p, e)
  THEN /\ win' = [win EXCEPT ![p][e.from] = e.seq]
       /\ got' = [got EXCEPT ![p][e.from] = Append(@, e.seq)]
  ELSE UNCHANGED <<win, got>>

\* Faulty variant: what fetchSignals returns misses one.
MissedFrom(p, since) == {e \in log : e.seq > since + 1 /\ e.from # p}

Missed(p, since) == {e \in log : e.seq > since /\ e.from # p}

\* The numbers of S in rising order, and the largest of them and m.
Rank(S, n) == Cardinality({k \in S : k < n})
Ascending(S) == [i \in 1 .. Cardinality(S) |-> CHOOSE n \in S : Rank(S, n) = i - 1]
Top(S, m) == CHOOSE n \in S \cup {m} : \A k \in S \cup {m} : k <= n

\* The missed envelopes of q that are not in the window of p.
New(p, q, missed) == {e.seq : e \in {d \in missed : d.from = q /\ IsNew(p, d)}}

\* fetchSignals() answers: the missed envelopes of each sender are handed over
\* in order; or it fails, which is ignored.
Replay(p) ==
  /\ rc[p].at = "replay"
  /\ \E ok \in BOOLEAN :
       LET missed == IF ok THEN Missed(p, rc[p].since) ELSE {} IN
       /\ May(ok)
       /\ got' = IF bound[p]
                 THEN [got EXCEPT ![p] = [q \in Peer |-> @[q] \o Ascending(New(p, q, missed))]]
                 ELSE got
       /\ win' = IF bound[p]
                 THEN [win EXCEPT ![p] = [q \in Peer |-> Top(New(p, q, missed), @[q])]]
                 ELSE win
       /\ conn' = [conn EXCEPT ![p].lastSeq = Top({e.seq : e \in missed}, @)]
       /\ synced' = [synced EXCEPT ![p] = ok]
       /\ asked' = [asked EXCEPT ![p] = IF ok THEN rc[p].since ELSE @]
  /\ rc' = [rc EXCEPT ![p] = Idle]
  /\ Owner(p, "retry")
  /\ UNCHANGED <<stage, up, bound, wire, log, owed, seq, raced>>

-----------------------------------------------------------------------------
(* The backends.                                                           *)

\* p's primary connection is cut, with what was on its way to p.
Drop(p) ==
  /\ p \in up["primary"] /\ stage[p] = "in" /\ Fault
  /\ up' = [up EXCEPT !["primary"] = @ \ {p}]
  /\ wire' = Silenced("primary", p)
  /\ synced' = [synced EXCEPT ![p] = FALSE]
  /\ UNCHANGED <<stage, log, owed, conn, rc, win, bound, emits, seq, got, raced, asked>>

Deliver(p, x) ==
  /\ wire[x][p] # <<>>
  /\ LET e == Head(wire[x][p]) IN
     /\ wire' = [wire EXCEPT ![x][p] = Tail(@)]
     /\ IF x = "primary" /\ ~conn[p].handlers
        THEN UNCHANGED <<win, got>> ELSE Hand(p, e)
     /\ conn' = IF x = "primary" /\ conn[p].handlers
                THEN [conn EXCEPT ![p].lastSeq = Higher(@, e.seq)] ELSE conn
  /\ UNCHANGED <<stage, up, rc, bound, log, owed, emits, seq, synced, raced, asked, faults>>

-----------------------------------------------------------------------------
Proceed(p) ==
  \/ JoinFallback(p) \/ Left(p) \/ Attempt(p) \/ Replay(p)
  \/ \E c \in emits[p] : Retry(p, c) \/ EmitFallback(p, c)

Next ==
  \E p \in Peer :
    \/ JoinPrimary(p) \/ Leave(p) \/ Emit(p) \/ Drop(p) \/ Proceed(p)
    \/ \E x \in Path : Deliver(p, x)

Spec == Init /\ [][Next]_vars

-----------------------------------------------------------------------------
(* Properties.                                                             *)

TypeOK ==
  /\ \A p \in Peer :
       /\ stage[p] \in {"out", "joining", "in", "leaving", "left"}
       /\ conn[p].lastSeq \in -1 .. MaxSeq - 1
       /\ rc[p].at \in {"idle", "backoff", "replay"}
       /\ rc[p].attempt \in 0 .. MaxAttempts
       /\ \A c \in emits[p] : c.at \in {"waits", "retry", "fallback"}
  /\ \A x \in Path : up[x] \subseteq Peer

\* Two paths, retries, fallbacks after a delivered try and replays: the Room is
\* handed every sender's envelopes in rising order, none twice.
HandedRising ==
  \A p, q \in Peer : \A i, j \in DOMAIN got[p][q] :
    i < j => got[p][q][i] < got[p][q][j]

\* doReconnect() runs for exactly one emit(): the call that started it waits
\* for it, all others go straight to their retry.
OneOwner ==
  \A p \in Peer :
    Cardinality({c \in emits[p] : c.at = "waits"}) = IF rc[p].at = "idle" THEN 0 ELSE 1

\* A Room that is subscribed to the primary and has replayed its log since it
\* was cut off has been handed every envelope logged while it was in, or a newer
\* one of its sender; unless the replay did not ask for it, because its number
\* is no higher than one seen from anybody.
MissingIsOld ==
  \A p \in Peer : \A e \in owed[p] :
    /\ stage[p] = "in" /\ p \in up["primary"] /\ synced[p]
    /\ e.from # p /\ wire["primary"][p] = <<>>
    => ~IsNew(p, e) \/ e.seq <= asked[p]

\* leave() is final on both paths, except for a reconnect it overlapped.
LeftIsGone ==
  \A p \in Peer :
    stage[p] = "left" /\ ~raced[p]
      => /\ \A x \in Path : p \notin up[x] /\ wire[x][p] = <<>>
         /\ ~conn[p].handlers /\ rc[p].at = "idle"

\* A reconnect belongs to one emit(), costs only what the two windows count as
\* seen, and is over when the Room has left.
PathsRecover == OneOwner /\ MissingIsOld /\ LeftIsGone
=============================================================================
