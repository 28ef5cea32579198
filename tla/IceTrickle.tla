----------------------------- MODULE IceTrickle -----------------------------
(***************************************************************************)
(* Candidates and ICE restarts in one PeerConnectionManager                 *)
(* (packages/core/src/peer-connection-manager.ts).  Descriptions of the     *)
(* other peer and its candidates arrive in order on one wire, but a handler *)
(* that awaits the connection does not hold up the next one.  Every         *)
(* operation goes through the connection's operations chain (external, as   *)
(* in PeerNegotiation); the chain holds the operation each handler awaits.  *)
(*                                                                          *)
(* A generation stands for the ICE credentials of one description of the    *)
(* other peer; the connection takes a candidate only of the generation of   *)
(* its remote description (external).                                       *)
(***************************************************************************)
EXTENDS Naturals, Sequences

CONSTANTS MaxGen,     \* bound on the other peer's descriptions
          MaxCands,   \* bound on its candidates
          MaxCalls    \* bound on the calls to negotiate and restartIce

VARIABLES polite,     \* this peer's side in a glare
          fires,      \* the stack fires negotiationneeded after restartIce()
          signaling,  \* signalingState
          chain,      \* operations chain
          making, ignoreOffer, pendingRestart,   \* flags of the manager
          restarting, \* restartingIce: "no", or what the restart waits for, "timer" or "offer"
          pendingCandidates,  \* [c, attempts]
          inForce,    \* generation of the remote description, 0 if null
          added,      \* candidates the connection took for it
          wanted,     \* restartIce() of the connection has not been negotiated yet
          offered,    \* our pending offer carries it
          wire,       \* what arrives: [kind, gen, c]
          ours,       \* our descriptions under way to the other peer
          gen, own,   \* of the other peer: its last generation, its offer that is pending or 0
          sent,       \* its candidates: the generation of each
          handled,    \* candidates that arrived here (history)
          crossed,    \* an offer was being made when a restart was asked for, or one made
                      \* for it was refused by the connection or rolled back (history)
          calls
vars == <<polite, fires, signaling, chain, making, ignoreOffer, restarting, pendingRestart,
          pendingCandidates, inForce, added, wanted, offered, wire, ours, gen, own, sent, handled, crossed, calls>>
flags == <<making, ignoreOffer, restarting, pendingRestart>>
candidates == <<pendingCandidates, added, handled>>
other == <<gen, own, sent>>
config == <<polite, fires>>
restart == <<wanted, offered>>

Init ==
  /\ polite \in BOOLEAN /\ fires \in BOOLEAN
  /\ signaling = "stable" /\ chain = <<>> /\ making = FALSE /\ ignoreOffer = FALSE
  /\ restarting = "no" /\ pendingRestart = FALSE /\ pendingCandidates = <<>>
  /\ inForce = 0 /\ added = {} /\ wanted = FALSE /\ offered = FALSE /\ wire = <<>> /\ ours = <<>>
  /\ gen = 0 /\ own = 0 /\ sent = <<>> /\ handled = {} /\ crossed = FALSE /\ calls = 0

Disposed == signaling = "closed"
Called == calls < MaxCalls /\ calls' = calls + 1

---- \* the other peer (external): offers, answers and candidates of its latest description

Offers ==
  /\ gen < MaxGen /\ own = 0 /\ gen' = gen + 1 /\ own' = gen + 1
  /\ wire' = Append(wire, [kind |-> "offer", gen |-> gen + 1, c |-> 0])
  /\ UNCHANGED <<config, signaling, chain, flags, candidates, inForce, restart, ours, sent, crossed, calls>>

\* In a glare the impolite peer drops our offer, the polite one its own
Hears ==
  /\ ours # <<>> /\ ours' = Tail(ours)
  /\ IF Head(ours) > 0
     THEN own' = (IF own = Head(ours) THEN 0 ELSE own) /\ UNCHANGED <<wire, gen>>
     ELSE IF own # 0 /\ polite THEN UNCHANGED <<wire, gen, own>>
     ELSE /\ gen < MaxGen /\ gen' = gen + 1 /\ own' = 0
          /\ wire' = Append(wire, [kind |-> "answer", gen |-> gen + 1, c |-> 0])
  /\ UNCHANGED <<config, signaling, chain, flags, candidates, inForce, restart, sent, crossed, calls>>

Gathers ==
  /\ gen > 0 /\ Len(sent) < MaxCands /\ sent' = Append(sent, gen)
  /\ wire' = Append(wire, [kind |-> "ice", gen |-> gen, c |-> Len(sent) + 1])
  /\ UNCHANGED <<config, signaling, chain, flags, candidates, inForce, restart, ours, gen, own, crossed, calls>>

---- \* negotiate, restartIce

negotiate ==
  IF making THEN UNCHANGED <<chain, making, pendingRestart>>
  ELSE /\ making' = TRUE /\ pendingRestart' = FALSE
       /\ chain' = Append(chain, [op |-> "createOffer"])

Negotiate ==
  /\ Called /\ ~Disposed /\ negotiate
  /\ UNCHANGED <<config, signaling, ignoreOffer, restarting, candidates, inForce, restart, wire, ours, other, crossed>>

\* The stack asks for the offer that restarts
NegotiationDue == fires /\ wanted /\ ~offered
NegotiationNeeded ==
  /\ NegotiationDue /\ signaling = "stable" /\ chain = <<>> /\ ~making /\ negotiate
  /\ UNCHANGED <<config, signaling, ignoreOffer, restarting, candidates, inForce, restart, wire, ours, other, crossed, calls>>

restartIce ==
  /\ Called /\ ~Disposed
  /\ IF restarting # "no" THEN UNCHANGED <<restarting, pendingRestart, restart, crossed>>
     ELSE /\ restarting' = "timer" /\ pendingRestart' = TRUE /\ wanted' = TRUE /\ offered' = FALSE
          /\ crossed' = (crossed \/ making)
  /\ UNCHANGED <<config, signaling, chain, making, ignoreOffer, candidates, inForce, wire, ours, other>>

\* The macrotask is over: offer unless an offer was begun since.  The restart lasts as long
\* as the offer it makes; when another one is being made negotiate returns at once.
RestartLeft == restarting' = "no" /\ UNCHANGED <<chain, making, pendingRestart>>
RestartWaited ==
  IF pendingRestart /\ ~Disposed
  THEN negotiate /\ restarting' = (IF making THEN "no" ELSE "offer")
  ELSE RestartLeft
OfferEnds == making' = FALSE /\ restarting' = IF restarting = "offer" THEN "no" ELSE restarting
RestartTimer ==
  /\ restarting = "timer" /\ RestartWaited
  /\ UNCHANGED <<config, signaling, ignoreOffer, candidates, inForce, restart, wire, ours, other, crossed, calls>>

---- \* what arrives

Arrives(kind) == wire # <<>> /\ Head(wire).kind = kind /\ wire' = Tail(wire)

\* handleRemoteDescription up to its first await
Collision == making \/ signaling # "stable"

HandleOffer ==
  /\ Arrives("offer")
  /\ IF Disposed THEN UNCHANGED <<chain, ignoreOffer>>
     ELSE /\ ignoreOffer' = (~polite /\ Collision)
          /\ chain' = IF ~polite /\ Collision THEN chain
                      ELSE Append(chain, [op |-> IF signaling = "have-local-offer" THEN "rollback" ELSE "setRemote",
                                          type |-> "offer", gen |-> Head(wire).gen])
  /\ UNCHANGED <<config, signaling, making, restarting, pendingRestart, candidates, inForce, restart, ours, other, crossed, calls>>

HandleAnswer ==
  /\ Arrives("answer")
  /\ chain' = IF Disposed THEN chain
              ELSE Append(chain, [op |-> "setRemote", type |-> "answer", gen |-> Head(wire).gen])
  /\ UNCHANGED <<config, signaling, flags, candidates, inForce, restart, ours, other, crossed, calls>>

\* handleRemoteCandidate: kept until there is a remote description
handleRemoteCandidate ==
  /\ Arrives("ice")
  /\ LET c == Head(wire).c IN
     IF Disposed THEN UNCHANGED <<chain, pendingCandidates, handled>>
     ELSE /\ handled' = handled \cup {c}
          /\ IF inForce = 0
             THEN /\ pendingCandidates' = Append(pendingCandidates, [c |-> c, attempts |-> 0])
                  /\ UNCHANGED chain
             ELSE /\ chain' = Append(chain, [op |-> "add", c |-> c, retry |-> FALSE, rest |-> <<>>])
                  /\ UNCHANGED pendingCandidates
  /\ UNCHANGED <<config, signaling, flags, inForce, added, restart, ours, other, crossed, calls>>

---- \* the operations

Op(name) == chain # <<>> /\ Head(chain).op = name
Then(more) == chain' = Tail(chain) \o more
MayOffer == signaling \in {"stable", "have-local-offer"}

\* createOffer and setLocalDescription(offer) of negotiate, which signals the offer
CreateOffer ==
  /\ Op("createOffer")
  /\ IF MayOffer THEN Then(<<[op |-> "setOffer", restarts |-> wanted]>>) /\ UNCHANGED <<making, restarting, crossed>>
                 ELSE Then(<<>>) /\ OfferEnds /\ crossed' = (crossed \/ wanted)
  /\ UNCHANGED <<config, signaling, ignoreOffer, pendingRestart, candidates, inForce, restart, wire, ours, other, calls>>

SetOffer ==
  /\ Op("setOffer") /\ Then(<<>>) /\ OfferEnds
  /\ IF MayOffer THEN /\ signaling' = "have-local-offer" /\ ours' = Append(ours, 0)
                      /\ offered' = Head(chain).restarts /\ UNCHANGED crossed
                 ELSE UNCHANGED <<signaling, ours, offered>> /\ crossed' = (crossed \/ wanted)
  /\ UNCHANGED <<config, wanted, ignoreOffer, pendingRestart, candidates, inForce, wire, other, calls>>

\* A rolled back offer takes its restart with it: the connection still wants it
Rollback ==
  /\ Op("rollback")
  /\ IF signaling = "stable" THEN Then(<<>>) /\ UNCHANGED <<signaling, offered, crossed>>
     ELSE /\ Then(<<[Head(chain) EXCEPT !.op = "setRemote"]>>) /\ signaling' = "stable"
          /\ offered' = FALSE /\ crossed' = (crossed \/ offered)
  /\ UNCHANGED <<config, flags, candidates, inForce, wanted, wire, ours, other, calls>>

\* flushPendingCandidates takes what is queued now, and adds one after the other
Flush(queue) ==
  IF queue = <<>> THEN <<>>
  ELSE <<[op |-> "add", c |-> Head(queue).c, retry |-> Head(queue).attempts > 0, rest |-> Tail(queue)]>>

InForce(g) == inForce' = g /\ added' = {}

\* An offer of ours that is still pending is rolled back by the connection itself
SetRemoteOffer ==
  /\ Op("setRemote") /\ Head(chain).type = "offer"
  /\ offered' = FALSE /\ crossed' = (crossed \/ offered)
  /\ signaling' = "have-remote-offer" /\ InForce(Head(chain).gen)
  /\ Then(<<[op |-> "setAnswer", gen |-> Head(chain).gen]>>)
  /\ UNCHANGED <<config, flags, pendingCandidates, handled, wanted, wire, ours, other, calls>>

SetRemoteAnswer ==
  /\ Op("setRemote") /\ Head(chain).type = "answer"
  /\ IF signaling = "have-local-offer"
     THEN /\ signaling' = "stable" /\ InForce(Head(chain).gen) /\ ignoreOffer' = FALSE
          /\ Then(Flush(pendingCandidates)) /\ pendingCandidates' = <<>>
          /\ wanted' = (wanted /\ ~offered) /\ offered' = FALSE
     ELSE Then(<<>>) /\ UNCHANGED <<signaling, inForce, added, ignoreOffer, pendingCandidates, restart>>
  /\ UNCHANGED <<config, making, restarting, pendingRestart, handled, wire, ours, other, crossed, calls>>

\* setLocalDescription(): the answer; an offer if another handler answered before
SetAnswer ==
  /\ Op("setAnswer")
  /\ IF signaling = "have-remote-offer"
     THEN signaling' = "stable" /\ ours' = Append(ours, Head(chain).gen)
     ELSE signaling' = "have-local-offer" /\ ours' = Append(ours, gen + MaxGen)
  /\ Then(Flush(pendingCandidates)) /\ pendingCandidates' = <<>>
  /\ UNCHANGED <<config, flags, inForce, added, handled, restart, wire, other, crossed, calls>>

\* addIceCandidate: on failure dropped if an offer is being ignored or this was the retry,
\* and queued for the next flush otherwise; a flush goes on with its next candidate
Requeued(c) == Append(pendingCandidates, [c |-> c, attempts |-> 1])
AddCandidate ==
  /\ Op("add")
  /\ LET o == Head(chain) IN
       /\ IF sent[o.c] = inForce
          THEN added' = added \cup {o.c} /\ UNCHANGED pendingCandidates
          ELSE /\ UNCHANGED added
               /\ pendingCandidates' = IF o.retry \/ ignoreOffer THEN pendingCandidates ELSE Requeued(o.c)
       /\ Then(Flush(o.rest))
  /\ UNCHANGED <<config, signaling, flags, inForce, handled, restart, wire, ours, other, crossed, calls>>

\* close(): nothing pending completes any more
Close ==
  /\ Called /\ ~Disposed /\ signaling' = "closed" /\ chain' = <<>> /\ pendingCandidates' = <<>>
  /\ UNCHANGED <<config, flags, inForce, added, handled, restart, wire, ours, other, crossed>>

Next ==
  \/ Offers \/ Hears \/ Gathers
  \/ Negotiate \/ NegotiationNeeded \/ restartIce \/ RestartTimer
  \/ HandleOffer \/ HandleAnswer \/ handleRemoteCandidate
  \/ CreateOffer \/ SetOffer \/ Rollback \/ SetRemoteOffer \/ SetRemoteAnswer \/ SetAnswer
  \/ AddCandidate \/ Close

Spec == Init /\ [][Next]_vars

-----------------------------------------------------------------------------
AtRest == wire = <<>> /\ chain = <<>> /\ ours = <<>> /\ restarting = "no" /\ ~Disposed

\* When everything that arrived has been handled, the connection has every candidate of the
\* description in force: those that came before it, those that met an older one and were
\* refused, and those that arrived while a rollback was under way (290-347).
CandidatesInForce ==
  AtRest => \A c \in handled : sent[c] = inForce => c \in added

\* A restart that was asked for is negotiated in the end (208-229)
\* when the negotiation is not stuck in a glare (PeerNegotiation), unless the stack never fires
\* negotiationneeded and the request met an offer being made, or its own was refused or rolled back.
RestartOffered ==
  AtRest /\ signaling = "stable" /\ (fires \/ ~crossed) => ~wanted \/ NegotiationDue
=============================================================================
