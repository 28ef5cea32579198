-------------------------- MODULE PeerNegotiation --------------------------
(***************************************************************************)
(* packages/core/src/peer-connection-manager.ts: the two managers of one   *)
(* mesh connection negotiating with each other (perfect negotiation).      *)
(*                                                                         *)
(* A manager is asynchronous: every `await' of an RTCPeerConnection method *)
(* queues an operation on the connection's operations chain and goes on    *)
(* when it completes.  The chain of a peer holds those operations, so it   *)
(* also says where each handler stands: one operation per running handler. *)
(* Room calls handleEnvelope without awaiting the previous call, so a new  *)
(* envelope may be handled while the chain is still busy.                  *)
(*                                                                         *)
(* External, modelled from WebRTC 1.0 as the manager uses it: the chain    *)
(* runs one operation at a time in order; setRemoteDescription(offer) in   *)
(* have-local-offer rolls back; setLocalDescription() answers in           *)
(* have-remote-offer and offers in every other state; negotiationneeded    *)
(* fires once until the connection is stable again.  Envelopes between the *)
(* two arrive once and in order (InboundPath discards what does not).      *)
(*                                                                         *)
(* A description carries how many of its sender's tracks it describes; an  *)
(* answer repeats the number of the offer it answers, as its m-lines do.   *)
(***************************************************************************)
EXTENDS Naturals, Sequences

CONSTANTS
  Polite,     \* the peer whose id sorts first
  Impolite,   \* the other one
  MaxTracks   \* bound: tracks a peer publishes

ASSUME NegotiationAssumption ==
  /\ Polite # Impolite
  /\ MaxTracks \in Nat

Peer == {Polite, Impolite}

Other(p) == IF p = Polite THEN Impolite ELSE Polite

VARIABLES
  makingOffer,  \* PeerConnectionManager.makingOffer
  guard,        \* version of sdpGuard.last, 0 if null
  signaling,    \* RTCPeerConnection.signalingState
  chain,        \* the operations chain, with the handler behind each operation
  local,        \* tracks described by the pending local offer
  remote,       \* tracks described by the last remote offer applied
  version,      \* sdp session-version of the last description made
  needed,       \* the connection's negotiation-needed flag
  tracks,       \* tracks added to the connection
  agreed,       \* tracks the other peer's last applied answer accepted
  wire,         \* envelopes on their way to the peer
  rushed        \* history: a description was handled while another one still was

vars == <<makingOffer, guard, signaling, chain, local, remote, version, needed,
          tracks, agreed, wire, rushed>>

Description == [type : {"offer", "answer"}, made : {"offer", "answer"},
                version : Nat, tracks : 0 .. MaxTracks]

\* An operation and what its handler awaits it for.
Operation ==
  [op : {"createOffer"}]
    \cup [op : {"setOffer", "rollback", "setRemote", "setAnswer"}, desc : Description]

OfferOps == {"createOffer", "setOffer"}

Init ==
  /\ makingOffer = [p \in Peer |-> FALSE]
  /\ guard = [p \in Peer |-> 0]
  /\ signaling = [p \in Peer |-> "stable"]
  /\ chain = [p \in Peer |-> <<>>]
  /\ local = [p \in Peer |-> 0]
  /\ remote = [p \in Peer |-> 0]
  /\ version = [p \in Peer |-> 0]
  /\ needed = [p \in Peer |-> FALSE]
  /\ tracks = [p \in Peer |-> 0]
  /\ agreed = [p \in Peer |-> 0]
  /\ wire = [p \in Peer |-> <<>>]
  /\ rushed = FALSE

-----------------------------------------------------------------------------
(* Helpers.                                                                *)

Running(p, op) == chain[p] # <<>> /\ Head(chain[p]).op = op

\* The head operation is over; its handler awaits the operations `more'.
Completes(p, more) == chain' = [chain EXCEPT ![p] = Tail(@) \o more]

Awaits(p, operation) == chain' = [chain EXCEPT ![p] = Append(@, operation)]

Send(p, desc) == wire' = [wire EXCEPT ![Other(p)] = Append(@, desc)]

Becomes(p, state) ==
  /\ signaling' = [signaling EXCEPT ![p] = state]
  /\ needed' = [needed EXCEPT ![p] = @ /\ state # "stable"]

Offer(p, type) ==
  [type |-> type, made |-> "offer", version |-> version[p] + 1, tracks |-> tracks[p]]

Answer(p) ==
  [type |-> "answer", made |-> "answer", version |-> version[p] + 1, tracks |-> remote[p]]

Versioned(p) == version' = [version EXCEPT ![p] = @ + 1]

-----------------------------------------------------------------------------
(* negotiate()                                                             *)

\* Returns if an offer is being made, else awaits createOffer().
Negotiate(p) ==
  \/ makingOffer[p] /\ UNCHANGED <<makingOffer, chain>>
  \/ /\ ~makingOffer[p]
     /\ makingOffer' = [makingOffer EXCEPT ![p] = TRUE]
     /\ Awaits(p, [op |-> "createOffer"])

\* MeshMediaTransport.publish: addTrack, then negotiate('track-added').
Publish(p) ==
  /\ tracks[p] < MaxTracks
  /\ tracks' = [tracks EXCEPT ![p] = @ + 1]
  /\ Negotiate(p)
  /\ UNCHANGED <<guard, signaling, local, remote, version, needed, agreed, wire, rushed>>

\* The connection fires negotiationneeded.
NegotiationNeeded(p) ==
  /\ signaling[p] = "stable"
  /\ chain[p] = <<>>
  /\ tracks[p] # agreed[p]
  /\ ~needed[p]
  /\ needed' = [needed EXCEPT ![p] = TRUE]
  /\ Negotiate(p)
  /\ UNCHANGED <<guard, signaling, local, remote, version, tracks, agreed, wire, rushed>>

\* An offer can be created and applied.
MayOffer(p) == signaling[p] \in {"stable", "have-local-offer"}

OfferCreated(p) ==
  /\ Running(p, "createOffer")
  /\ MayOffer(p)
  /\ Completes(p, <<[op |-> "setOffer", desc |-> Offer(p, "offer")]>>)
  /\ Versioned(p)
  /\ UNCHANGED <<makingOffer, guard, signaling, local, remote, needed, tracks, agreed, wire, rushed>>

OfferSet(p) ==
  /\ Running(p, "setOffer")
  /\ MayOffer(p)
  /\ LET offer == Head(chain[p]).desc IN
       /\ local' = [local EXCEPT ![p] = offer.tracks]
       /\ Send(p, offer)
  /\ Becomes(p, "have-local-offer")
  /\ makingOffer' = [makingOffer EXCEPT ![p] = FALSE]
  /\ Completes(p, <<>>)
  /\ UNCHANGED <<guard, remote, version, tracks, agreed, rushed>>

\* createOffer() or setLocalDescription(offer) rejects; `finally' runs.
OfferFails(p) ==
  /\ \E op \in OfferOps : Running(p, op)
  /\ ~MayOffer(p)
  /\ makingOffer' = [makingOffer EXCEPT ![p] = FALSE]
  /\ Completes(p, <<>>)
  /\ UNCHANGED <<guard, signaling, local, remote, version, needed, tracks, agreed, wire, rushed>>

-----------------------------------------------------------------------------
(* handleRemoteDescription(type, sdp)                                      *)

Collides(p) == makingOffer[p] \/ signaling[p] # "stable"

\* SdpIdempotencyGuard.isDuplicate
IsDuplicate(p, desc) == desc.version <= guard[p]

\* Faulty variants: both peers are polite; both are impolite.
NeverIgnores(p, desc) == FALSE
AlwaysIgnores(p, desc) == desc.type = "offer" /\ Collides(p)

IgnoresOffer(p, desc) == p = Impolite /\ desc.type = "offer" /\ Collides(p)

\* The envelope is handled up to its first await, of `operation' if there is one.
Handles(p, operation) ==
  /\ wire' = [wire EXCEPT ![p] = Tail(@)]
  /\ chain' = [chain EXCEPT ![p] = @ \o operation]
  /\ rushed' = (rushed \/ \E i \in DOMAIN chain[p] : chain[p][i].op \notin OfferOps)
  /\ UNCHANGED <<makingOffer, guard, signaling, local, remote, version, needed, tracks, agreed>>

Ignore(p) ==
  /\ wire[p] # <<>>
  /\ IsDuplicate(p, Head(wire[p])) \/ IgnoresOffer(p, Head(wire[p]))
  /\ Handles(p, <<>>)

\* rollback() awaits the stack only in have-local-offer.
BacksOut(p, desc) == desc.type = "offer" /\ signaling[p] = "have-local-offer"

Accept(p) ==
  /\ wire[p] # <<>>
  /\ LET desc == Head(wire[p]) IN
       /\ ~IsDuplicate(p, desc) /\ ~IgnoresOffer(p, desc)
       /\ Handles(p, <<[op |-> IF BacksOut(p, desc) THEN "rollback" ELSE "setRemote",
                        desc |-> desc]>>)

Receive(p) == Ignore(p) \/ Accept(p)

RolledBack(p) ==
  /\ Running(p, "rollback")
  /\ signaling[p] # "stable"
  /\ Becomes(p, "stable")
  /\ Completes(p, <<[op |-> "setRemote", desc |-> Head(chain[p]).desc]>>)
  /\ UNCHANGED <<makingOffer, guard, local, remote, version, tracks, agreed, wire, rushed>>

\* There is nothing to roll back: the handler throws, the offer is lost.
RollbackFails(p) ==
  /\ Running(p, "rollback")
  /\ signaling[p] = "stable"
  /\ Completes(p, <<>>)
  /\ UNCHANGED <<makingOffer, guard, signaling, local, remote, version, needed, tracks, agreed, wire, rushed>>

OfferApplied(p) ==
  /\ Running(p, "setRemote")
  /\ LET desc == Head(chain[p]).desc IN
       /\ desc.type = "offer"
       /\ remote' = [remote EXCEPT ![p] = desc.tracks]
       /\ guard' = [guard EXCEPT ![p] = desc.version]
       /\ Completes(p, <<[op |-> "setAnswer", desc |-> desc]>>)
  /\ Becomes(p, "have-remote-offer")
  /\ UNCHANGED <<makingOffer, local, version, tracks, agreed, wire, rushed>>

\* The stack takes a description as the answer to the pending offer.
Fits(p, desc) ==
  /\ signaling[p] = "have-local-offer"
  /\ desc.made = "answer"
  /\ desc.tracks = local[p]

AnswerApplied(p) ==
  /\ Running(p, "setRemote")
  /\ LET desc == Head(chain[p]).desc IN
       /\ desc.type = "answer"
       /\ Fits(p, desc)
       /\ agreed' = [agreed EXCEPT ![p] = desc.tracks]
       /\ guard' = [guard EXCEPT ![p] = desc.version]
  /\ Becomes(p, "stable")
  /\ Completes(p, <<>>)
  /\ UNCHANGED <<makingOffer, local, remote, version, tracks, wire, rushed>>

AnswerFails(p) ==
  /\ Running(p, "setRemote")
  /\ LET desc == Head(chain[p]).desc IN desc.type = "answer" /\ ~Fits(p, desc)
  /\ Completes(p, <<>>)
  /\ UNCHANGED <<makingOffer, guard, signaling, local, remote, version, needed, tracks, agreed, wire, rushed>>

\* setLocalDescription() in have-remote-offer: the answer is sent.
AnswerSet(p) ==
  /\ Running(p, "setAnswer")
  /\ signaling[p] = "have-remote-offer"
  /\ Becomes(p, "stable")
  /\ Send(p, Answer(p))
  /\ Versioned(p)
  /\ Completes(p, <<>>)
  /\ UNCHANGED <<makingOffer, guard, local, remote, tracks, agreed, rushed>>

\* In any other state it makes an offer, which is sent as an answer.
OfferSetAsAnswer(p) ==
  /\ Running(p, "setAnswer")
  /\ signaling[p] # "have-remote-offer"
  /\ Becomes(p, "have-local-offer")
  /\ local' = [local EXCEPT ![p] = tracks[p]]
  /\ Send(p, Offer(p, "answer"))
  /\ Versioned(p)
  /\ Completes(p, <<>>)
  /\ UNCHANGED <<makingOffer, guard, remote, tracks, agreed, rushed>>

-----------------------------------------------------------------------------

Operate(p) ==
  \/ OfferCreated(p) \/ OfferSet(p) \/ OfferFails(p)
  \/ RolledBack(p) \/ RollbackFails(p)
  \/ OfferApplied(p) \/ AnswerApplied(p) \/ AnswerFails(p)
  \/ AnswerSet(p) \/ OfferSetAsAnswer(p)

Next == \E p \in Peer : Publish(p) \/ NegotiationNeeded(p) \/ Receive(p) \/ Operate(p)

Spec == Init /\ [][Next]_vars

\* Operations complete, envelopes arrive and the connection fires its event.
Fairness ==
  \A p \in Peer : /\ WF_vars(Operate(p))
                  /\ WF_vars(Receive(p))
                  /\ WF_vars(NegotiationNeeded(p))

FairSpec == Spec /\ Fairness

-----------------------------------------------------------------------------
(* Properties.                                                             *)

TypeOK ==
  /\ makingOffer \in [Peer -> BOOLEAN]
  /\ guard \in [Peer -> Nat]
  /\ signaling \in [Peer -> {"stable", "have-local-offer", "have-remote-offer"}]
  /\ chain \in [Peer -> Seq(Operation)]
  /\ local \in [Peer -> 0 .. MaxTracks]
  /\ remote \in [Peer -> 0 .. MaxTracks]
  /\ version \in [Peer -> Nat]
  /\ needed \in [Peer -> BOOLEAN]
  /\ tracks \in [Peer -> 0 .. MaxTracks]
  /\ agreed \in [Peer -> 0 .. MaxTracks]
  /\ wire \in [Peer -> Seq(Description)]
  /\ rushed \in BOOLEAN

\* `makingOffer' is up exactly while one offer is being made, however
\* negotiate(), remote descriptions and failing operations interleave.  Left
\* up, the peer would never offer again and take every offer for a collision;
\* down too early, two offers would be made at once.
OneOfferAtATime ==
  \A p \in Peer :
    /\ makingOffer[p] <=> \E i \in DOMAIN chain[p] : chain[p][i].op \in OfferOps
    /\ \A i, j \in DOMAIN chain[p] :
         chain[p][i].op \in OfferOps /\ chain[p][j].op \in OfferOps => i = j

\* "The impolite peer ignores a remote offer that collides with its own": its
\* pending offer ends only by the answer to it, never by a rollback.
ImpoliteNeverYields ==
  [][ ~rushed /\ signaling[Impolite] = "have-local-offer" =>
        \/ signaling'[Impolite] = "have-local-offer"
        \/ /\ signaling'[Impolite] = "stable"
           /\ agreed'[Impolite] = local[Impolite] ]_vars

Settled ==
  \A p \in Peer : /\ signaling[p] = "stable"
                  /\ chain[p] = <<>>
                  /\ wire[p] = <<>>
                  /\ agreed[p] = tracks[p]

\* Whatever the two publish and however their offers cross, the connection
\* ends stable with every track negotiated, provided no description is handled
\* before the handler of the previous one is done.
SettlesUnlessRushed == <>[](Settled \/ rushed)
=============================================================================
