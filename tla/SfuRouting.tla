------------------------------ MODULE SfuRouting ------------------------------
(***************************************************************************)
(* The SFU gateway of one room: SfuRouter turns wire envelopes into calls  *)
(* of per-participant sessions, and the reference MediasoupAdapter keeps   *)
(* the sessions' transports, producers and consumers.  Router and adapter  *)
(* each hold a session map; the handlers that keep them in step await      *)
(* membership, the worker and each other's calls, so they overlap.         *)
(*                                                                         *)
(* Every participant publishes one track, named by the participant.  A     *)
(* producer is named by its session.  A worker request answered after its  *)
(* transport closed may have been served before the close or refused.      *)
(***************************************************************************)
EXTENDS Naturals, FiniteSets

CONSTANTS P, Slot,          \* participants; handlers that may be in flight
          MaxSession,       \* bound: sessions created
          MaxRequests       \* bound: joins, envelopes, offers, drops, closes

(* Slot, MaxSession and MaxRequests bound the runs; participants are few.  *)
ASSUME RoutingAssumption ==
    /\ IsFiniteSet(P) /\ IsFiniteSet(Slot)
    /\ MaxSession \in Nat /\ Cardinality(P) <= MaxSession

VARIABLES inRoom,   \* participants isParticipant answers true for
          gw,       \* MediasoupAdapter.sessions: participant -> session or 0
          rt,       \* SfuRouter.sessions
          owner,    \* participant each session was created for
          open,     \* sessions whose transport is not closed
          conn,     \* sessions with connected = true
          pending,  \* sessions whose track waits for an offer
          made,     \* sessions with a producer in their producers map
          reg,      \* producersByRoom: participant -> session or 0
          tracks,   \* SfuRouter.tracks: publishers a bare subscribe finds
          cons,     \* session -> participant -> session consumed from, or 0
          task,     \* handlers in flight
          owed,     \* history: producer a subscribe looked at, per consumer
          crossed,  \* history: participants whose joins and leaves overlapped
          late,     \* history: participants who left while being published
          requests
routingVars == <<inRoom, gw, rt, owner, open, conn, pending, made, reg, tracks,
          cons, task, owed, crossed, late, requests>>

Sessions == 1..MaxSession
Idle == [at |-> "idle"]
AtRest == \A t \in Slot : task[t] = Idle
Busy(phases) == {t \in Slot : task[t].at \in phases}
Nothing == [q \in P |-> 0]

\* Some participants have joined, published and sent their offer already.
RoutingInit ==
    \E k \in 0..Cardinality(P) : \E who \in [1..k -> P] :
        LET early == {who[s] : s \in 1..k}
            Session == [p \in P |-> IF p \in early
                          THEN CHOOSE s \in 1..k : who[s] = p ELSE 0]
        IN /\ Cardinality(early) = k
           /\ owner = who
           /\ open = 1..k /\ conn = 1..k /\ made = 1..k /\ pending = {}
           /\ gw = Session /\ rt = Session /\ reg = Session
           /\ tracks = early
           /\ inRoom = P
           /\ cons = [s \in Sessions |-> Nothing]
           /\ owed = [s \in Sessions |-> Nothing]
           /\ task = [t \in Slot |-> Idle]
           /\ crossed = {} /\ late = {} /\ requests = 0

Begun(t, rec) == /\ task[t] = Idle /\ requests < MaxRequests
                 /\ task' = [task EXCEPT ![t] = rec]
                 /\ requests' = requests + 1
End(t) == task' = [task EXCEPT ![t] = Idle]

\* A join or a leave of p is in flight.
Moving(p) == \E t \in Busy({"join", "member", "forget"}) :
                /\ task[t].p = p
                /\ task[t].at = "member" => task[t].kind = "leave"
Crossing(p) == crossed' = IF Moving(p) THEN crossed \cup {p} ELSE crossed

----------------------------------------------------------------------------
(* Joining: check, await the worker, store; the caller then registers the  *)
(* session with the router.                                                *)

Join(t, p) ==
    /\ p \in inRoom /\ gw[p] = 0
    /\ Cardinality(DOMAIN owner) + Cardinality(Busy({"join"})) < MaxSession
    /\ Begun(t, [at |-> "join", p |-> p])
    /\ Crossing(p)
    /\ UNCHANGED <<inRoom, gw, rt, owner, open, conn, pending, made, reg,
                   tracks, cons, owed, late>>

Joined(t) ==
    /\ task[t].at = "join"
    /\ LET p == task[t].p
           s == Cardinality(DOMAIN owner) + 1
       IN /\ owner' = [i \in 1..s |-> IF i = s THEN p ELSE owner[i]]
          /\ open' = open \cup {s}
          /\ gw' = [gw EXCEPT ![p] = s]
          /\ rt' = [rt EXCEPT ![p] = s]
    /\ End(t)
    /\ UNCHANGED <<inRoom, conn, pending, made, reg, tracks, cons, owed,
                   crossed, late, requests>>

----------------------------------------------------------------------------
(* sfu envelopes.  handle() awaits isParticipant and the room policy, then *)
(* finds the session; what it found is used whatever happens later.        *)

Handle(t, p, kind, to) ==
    /\ Begun(t, [at |-> "member", p |-> p, kind |-> kind, to |-> to])
    /\ IF kind = "leave" THEN Crossing(p) ELSE UNCHANGED crossed
    /\ UNCHANGED <<inRoom, gw, rt, owner, open, conn, pending, made, reg,
                   tracks, cons, owed, late>>

\* Not a participant, no session, or a subscribe with nobody to subscribe to.
Targets(t) == IF task[t].to = {} THEN tracks \ {task[t].p} ELSE task[t].to
Refused(t) ==
    /\ task[t].at = "member"
    /\ \/ task[t].p \notin inRoom
       \/ rt[task[t].p] = 0
       \/ task[t].kind = "publish" /\ rt[task[t].p] \in made
       \/ task[t].kind = "subscribe" /\ Targets(t) = {}
    /\ End(t)
    /\ UNCHANGED <<inRoom, gw, rt, owner, open, conn, pending, made, reg,
                   tracks, cons, owed, crossed, late, requests>>

Allowed(t, kind) == /\ task[t].at = "member" /\ task[t].kind = kind
                    /\ task[t].p \in inRoom /\ rt[task[t].p] # 0

Publish(t) ==
    /\ Allowed(t, "publish") /\ rt[task[t].p] \notin made
    /\ pending' = pending \cup {rt[task[t].p]}
    /\ task' = [task EXCEPT ![t] = [at |-> "register", p |-> task[t].p]]
    /\ UNCHANGED <<inRoom, gw, rt, owner, open, conn, made, reg, tracks, cons,
                   owed, crossed, late, requests>>
Published(t) ==
    /\ task[t].at = "register"
    /\ tracks' = tracks \cup {task[t].p}
    /\ End(t)
    /\ UNCHANGED <<inRoom, gw, rt, owner, open, conn, pending, made, reg,
                   cons, owed, crossed, late, requests>>

\* session.subscribe(q): consume q's producer unless there is none, or a
\* consumer of that track id is already in the map; then the other targets.
Resume(t, s, todo) ==
    task' = [task EXCEPT ![t] = IF todo = {} THEN Idle
                 ELSE [at |-> "next", s |-> s, todo |-> todo]]
LookUp(t, s, q, todo) ==
    IF reg[q] = 0 \/ cons[s][q] # 0
    THEN Resume(t, s, todo)
    ELSE task' = [task EXCEPT ![t] =
             [at |-> "consume", s |-> s, q |-> q, from |-> reg[q],
              todo |-> todo, live |-> {s, reg[q]} \subseteq open]]

\* What this call owes its caller: a consumer of every live producer of its
\* targets that the session does not hold one for (calls on one session that
\* overlap owe nothing: the later answer overwrites the earlier).
Debt(t, s) ==
    LET alone == \A u \in Busy({"next", "consume"}) : task[u].s # s
    IN [q \in P |-> IF /\ q \in Targets(t) /\ reg[q] \in open
                       /\ cons[s][q] = 0 /\ alone
                    THEN reg[q] ELSE 0]
Subscribe(t) ==
    /\ Allowed(t, "subscribe")
    /\ \E q \in Targets(t) : LookUp(t, rt[task[t].p], q, Targets(t) \ {q})
    /\ owed' = [owed EXCEPT ![rt[task[t].p]] = Debt(t, rt[task[t].p])]
    /\ UNCHANGED <<inRoom, gw, rt, owner, open, conn, pending, made, reg,
                   tracks, cons, crossed, late, requests>>
Further(t) ==
    /\ task[t].at = "next"
    /\ \E q \in task[t].todo : LookUp(t, task[t].s, q, task[t].todo \ {q})
    /\ UNCHANGED <<inRoom, gw, rt, owner, open, conn, pending, made, reg,
                   tracks, cons, owed, crossed, late, requests>>

\* The worker's answer.  A refusal leaves the loop: the other targets are
\* dropped, and the caller hears one gateway-error.
Consumed(t) ==
    /\ task[t].at = "consume" /\ task[t].live
    /\ cons' = [cons EXCEPT ![task[t].s][task[t].q] = task[t].from]
    /\ Resume(t, task[t].s, task[t].todo)
    /\ UNCHANGED <<inRoom, gw, rt, owner, open, conn, pending, made, reg,
                   tracks, owed, crossed, late, requests>>
NotConsumed(t) ==
    /\ task[t].at = "consume"
    /\ ~({task[t].s, task[t].from} \subseteq open)
    /\ End(t)
    /\ owed' = [owed EXCEPT ![task[t].s] = [q \in P |->
                   IF q \in task[t].todo \cup {task[t].q} THEN 0 ELSE @[q]]]
    /\ UNCHANGED <<inRoom, gw, rt, owner, open, conn, pending, made, reg,
                   tracks, cons, crossed, late, requests>>

----------------------------------------------------------------------------
(* Leaving: the session closes its transport and clears its maps; adapter  *)
(* and router forget by participant, not by session.                       *)

Publishing(p) == \E t \in Slot :
    /\ task[t].at \in {"connect", "produce", "register", "member"}
    /\ task[t].p = p
    /\ task[t].at = "member" => task[t].kind = "publish"
\* Bug: the adapter's own unregister call is missing from leave().
CloseSilent(S) ==
    LET closing == S \cap open
    IN /\ open' = open \ closing /\ pending' = pending \ closing /\ made' = made \ closing
       /\ cons' = [s \in Sessions |-> IF s \in closing THEN Nothing ELSE cons[s]]
       /\ UNCHANGED <<gw, reg, late>>
Close(S) ==     \* SfuSession.leave() of the sessions S: a closed one returns
    LET closing == S \cap open
        who == {owner[s] : s \in closing}
    IN /\ open' = open \ closing /\ pending' = pending \ closing /\ made' = made \ closing
       /\ cons' = [s \in Sessions |-> IF s \in closing THEN Nothing ELSE cons[s]]
       /\ gw' = [p \in P |-> IF p \in who THEN 0 ELSE gw[p]]
       /\ reg' = [p \in P |-> IF p \in who THEN 0 ELSE reg[p]]
       /\ late' = late \cup {p \in P : Publishing(p) /\ \E s \in S : owner[s] = p}

Leave(t) ==
    /\ Allowed(t, "leave")
    /\ Close({rt[task[t].p]})
    /\ task' = [task EXCEPT ![t] = [at |-> "forget", p |-> task[t].p]]
    /\ UNCHANGED <<inRoom, rt, owner, conn, tracks, owed, crossed, requests>>
Left(t) ==
    /\ task[t].at = "forget"
    /\ rt' = [rt EXCEPT ![task[t].p] = 0]
    /\ tracks' = tracks \ {task[t].p}
    /\ late' = IF Publishing(task[t].p) THEN late \cup {task[t].p} ELSE late
    /\ End(t)
    /\ UNCHANGED <<inRoom, gw, owner, open, conn, pending, made, reg, cons,
                   owed, crossed, requests>>

\* gateway.close(room): the router's sessions and tracks are not told.
CloseRoom ==
    /\ requests < MaxRequests /\ requests' = requests + 1
    /\ open # {}
    /\ Close({gw[p] : p \in P} \ {0})
    /\ UNCHANGED <<inRoom, rt, owner, conn, tracks, task, owed, crossed>>

\* The participant's signaling drops, or it enters the room again.
Drop(p) ==
    /\ requests < MaxRequests /\ requests' = requests + 1
    /\ inRoom' = IF p \in inRoom THEN inRoom \ {p} ELSE inRoom \cup {p}
    /\ UNCHANGED <<gw, rt, owner, open, conn, pending, made, reg, tracks,
                   cons, task, owed, crossed, late>>

----------------------------------------------------------------------------
(* Offers addressed to the SFU: connect once, then produce what is pending.*)
(* No membership check; a second offer while the first connects is refused *)
(* by the worker.                                                          *)

Begin(t, p, s) == [at |-> "produce", p |-> p, s |-> s, live |-> s \in open]
Offer(t, p) ==
    /\ rt[p] # 0
    /\ \A u \in Busy({"connect"}) : task[u].s # rt[p]
    /\ IF rt[p] \in conn
       THEN rt[p] \in pending /\ Begun(t, Begin(t, p, rt[p]))
       ELSE Begun(t, [at |-> "connect", p |-> p, s |-> rt[p]])
    /\ UNCHANGED <<inRoom, gw, rt, owner, open, conn, pending, made, reg,
                   tracks, cons, owed, crossed, late>>
Connected(t) ==
    /\ task[t].at = "connect"
    /\ LET s == task[t].s
       IN /\ conn' = IF s \in open THEN conn \cup {s} ELSE conn
          /\ task' = [task EXCEPT ![t] = IF s \in open \cap pending
                        THEN Begin(t, task[t].p, s) ELSE Idle]
    /\ UNCHANGED <<inRoom, gw, rt, owner, open, pending, made, reg, tracks,
                   cons, owed, crossed, late, requests>>
Produced(t) ==
    /\ task[t].at = "produce" /\ task[t].live
    /\ made' = made \cup {task[t].s} /\ pending' = pending \ {task[t].s}
    /\ reg' = [reg EXCEPT ![task[t].p] = task[t].s]
    /\ End(t)
    /\ UNCHANGED <<inRoom, gw, rt, owner, open, conn, tracks, cons, owed,
                   crossed, late, requests>>
NotProduced(t) ==
    /\ task[t].at = "produce" /\ task[t].s \notin open
    /\ End(t)
    /\ UNCHANGED <<inRoom, gw, rt, owner, open, conn, pending, made, reg,
                   tracks, cons, owed, crossed, late, requests>>

----------------------------------------------------------------------------
RoutingNext ==
    \/ CloseRoom
    \/ \E p \in P : Drop(p)
    \/ \E t \in Slot :
        \/ \E p \in P :
            \/ Join(t, p)
            \/ Offer(t, p)
            \/ Handle(t, p, "publish", {})
            \/ Handle(t, p, "leave", {})
            \/ Handle(t, p, "subscribe", {})
            \/ \E q \in P \ {p} : Handle(t, p, "subscribe", {q})
        \/ Joined(t) \/ Refused(t) \/ Publish(t) \/ Published(t)
        \/ Subscribe(t) \/ Further(t) \/ Consumed(t) \/ NotConsumed(t)
        \/ Leave(t) \/ Left(t)
        \/ Connected(t) \/ Produced(t) \/ NotProduced(t)
RoutingSpec == RoutingInit /\ [][RoutingNext]_routingVars

----------------------------------------------------------------------------
(* With every handler settled, router and adapter agree on who has a live  *)
(* session, no transport is left open that neither can reach, and what a   *)
(* subscribe would find (registered producers, published tracks) belongs   *)
(* to live sessions; the participants whose join and leave calls, or leave *)
(* and publish calls, overlapped are the ones the code gets wrong.         *)
SessionsAgree ==
    AtRest =>
        /\ \A p \in P \ crossed :
            /\ IF gw[p] # 0 THEN gw[p] \in open /\ rt[p] = gw[p]
                            ELSE rt[p] \notin open
            /\ \A s \in open : owner[s] = p => gw[p] = s
        /\ \A p \in P \ (crossed \cup late) :
            /\ reg[p] # 0 => reg[p] = gw[p]
            /\ p \in tracks => rt[p] # 0

(* A subscribe that was not refused gives its session a consumer of every  *)
(* live producer its targets had, one failing target aside, for as long as *)
(* both sessions live; a target whose joins overlapped has two sessions,   *)
(* and the producer of the other may be the one that is consumed.          *)
Served ==
    AtRest => \A s \in open : \A q \in P \ crossed :
        owed[s][q] \in open => cons[s][q] = owed[s][q]

(* Both: router, adapter and subscribers agree once the handlers settle.   *)
GatewayHolds == SessionsAgree /\ Served
=============================================================================
