------------------------------ MODULE FakePeer ------------------------------
(***************************************************************************)
(* The fake peer connections the engine's tests run on                      *)
(* (packages/test-utils/src/fake-rtc.ts): two of them, wired to each other, *)
(* with the microtasks they queue (in order), the timer that trickles       *)
(* candidates, the senders and receivers each holds and the data channels   *)
(* between them.  A test may call either one between any two microtasks.    *)
(* A call that throws changes nothing, so it is left out; a microtask that  *)
(* only tells a handler of a state already set is left out too.             *)
(***************************************************************************)
EXTENDS Naturals, Sequences

CONSTANTS Track,     \* the media tracks a test sends
          Chan,      \* the data channels a test opens
          MaxOps     \* bound on the calls of a test

PC == {"a", "b"}
Other(p) == IF p = "a" THEN "b" ELSE "a"
End == {"near", "far"}          \* of a channel: the creator's and the accepting one's
Across(e) == IF e = "near" THEN "far" ELSE "near"

VARIABLES sig,        \* signalingState of each connection, "closed" once closed
          conn,       \* connectionState
          made,       \* the descriptions created so far: <<creator, type>>
          senders,    \* the tracks each one's senders carry
          receivers,  \* the tracks each one's receivers carry; never removed
          live,       \* the tracks whose readyState is "live"
          needed,     \* pendingNegotiation of each
          timer,      \* the connections with a trickle scheduled
          micro,      \* the queued microtasks, oldest first
          chan,       \* state of both ends of each channel
          fired,      \* how often ontrack ran, for each connection and track (history)
          owed,       \* changes no negotiationneeded event has followed yet (history)
          unsent,     \* connections whose local description had no candidates yet (history)
          swapped,    \* tracks a sender let go of by replaceTrack (history)
          shut,       \* channels whose accepting end was closed while opening (history)
          early,      \* channels with a message handed to an end still connecting (history)
          ops
vars == <<sig, conn, made, senders, receivers, live, needed, timer, micro, chan,
          fired, owed, unsent, swapped, shut, early, ops>>
media == <<senders, receivers, live, fired, swapped>>
channels == <<chan, shut, early>>

-----------------------------------------------------------------------------
Task(do, of, on) == [do |-> do, of |-> of, on |-> on]

Init ==
  /\ sig = [p \in PC |-> "stable"] /\ conn = [p \in PC |-> "new"] /\ made = {}
  /\ senders = [p \in PC |-> {}] /\ receivers = [p \in PC |-> {}] /\ live = Track
  /\ needed = [p \in PC |-> FALSE] /\ timer = {} /\ micro = <<>>
  /\ chan = [c \in Chan |-> [e \in End |-> "none"]]
  /\ fired = [p \in PC |-> [t \in Track |-> 0]]
  /\ owed = [p \in PC |-> FALSE] /\ unsent = {} /\ swapped = {} /\ shut = {} /\ early = {}
  /\ ops = 0

Open(p) == sig[p] # "closed"
Called == ops < MaxOps /\ ops' = ops + 1

Negotiate(p, queue) == IF needed[p] THEN queue ELSE Append(queue, Task("needed", p, p))

\* scheduleNegotiationNeeded on top of `queue`: one event for any number of changes
NegotiationNeeded(p, queue) ==
  /\ needed' = [needed EXCEPT ![p] = TRUE]
  /\ micro' = Negotiate(p, queue)

---- \* descriptions

\* A local offer (allowed over a remote one) or an answer, created on the way when the
\* test passes none; candidates follow on a timer
ScheduleTrickle(p) == timer' = timer \cup {p} /\ unsent' = unsent \cup {p}

SetLocal(p, type) ==
  /\ Called
  /\ \/ type = "offer" /\ sig[p] \in {"stable", "have-remote-offer"}
        /\ sig' = [sig EXCEPT ![p] = "have-local-offer"] /\ UNCHANGED conn
     \/ type = "answer" /\ sig[p] = "have-remote-offer"
        /\ sig' = [sig EXCEPT ![p] = "stable"] /\ conn' = [conn EXCEPT ![p] = "connected"]
  /\ made' = made \cup {<<p, type>>}
  /\ ScheduleTrickle(p)
  /\ UNCHANGED <<needed, micro, owed, media, channels>>

Rollback(p) ==
  /\ Called /\ sig[p] = "have-local-offer"
  /\ sig' = [sig EXCEPT ![p] = "stable"]
  /\ UNCHANGED <<conn, made, needed, timer, micro, owed, unsent, media, channels>>

\* fireRemoteTracks: what the sender of the offer carries now, whatever the offer said
NewTracks(p) == {t \in senders[Other(p)] : t \notin receivers[p]}
Queued(p, ts) ==    \* one microtask for each track
  LET q[S \in SUBSET ts] == IF S = {} THEN <<>>
        ELSE LET t == CHOOSE x \in S : TRUE IN Append(q[S \ {t}], Task("track", p, t))
  IN q[ts]

SetRemoteOffer(p) ==
  /\ Called /\ <<Other(p), "offer">> \in made
  /\ Open(p) /\ sig[p] # "have-local-offer"
  /\ sig' = [sig EXCEPT ![p] = "have-remote-offer"]
  /\ LET new == NewTracks(p)
     IN receivers' = [receivers EXCEPT ![p] = @ \cup new] /\ micro' = micro \o Queued(p, new)
  /\ UNCHANGED <<conn, made, senders, live, fired, swapped, needed, timer, owed, unsent, channels>>

SetRemoteAnswer(p) ==
  /\ Called /\ <<Other(p), "answer">> \in made /\ sig[p] = "have-local-offer"
  /\ sig' = [sig EXCEPT ![p] = "stable"] /\ conn' = [conn EXCEPT ![p] = "connected"]
  /\ UNCHANGED <<made, needed, timer, micro, owed, unsent, media, channels>>

---- \* media

\* addTrack, or addTransceiver with a track (its own idle receiver is left out); a test
\* sends a track on one connection at a time, and never on the one that receives it
AddTrack(p, t) ==
  /\ Called /\ \A q \in PC : t \notin senders[q]
  /\ t \notin receivers[p] /\ t \in live
  /\ senders' = [senders EXCEPT ![p] = @ \cup {t}]
  /\ owed' = [owed EXCEPT ![p] = TRUE]
  /\ NegotiationNeeded(p, micro)
  /\ UNCHANGED <<sig, conn, made, receivers, live, fired, swapped, timer, unsent, channels>>

\* removeTrack ends the track the wired peer received from this sender
Stopped(p, t) == IF t \in receivers[Other(p)] THEN live \ {t} ELSE live

RemoveTrack(p, t) ==
  /\ Called /\ t \in senders[p]
  /\ senders' = [senders EXCEPT ![p] = @ \ {t}]
  /\ live' = Stopped(p, t)
  /\ owed' = [owed EXCEPT ![p] = TRUE]
  /\ NegotiationNeeded(p, micro)
  /\ UNCHANGED <<sig, conn, made, receivers, fired, swapped, timer, unsent, channels>>

\* replaceTrack of a sender: no negotiation, and the peer keeps the track it has
ReplaceTrack(p, t, u) ==
  /\ Called /\ t \in senders[p] /\ u \in live
  /\ \A q \in PC : u \notin senders[q] \cup receivers[q]
  /\ senders' = [senders EXCEPT ![p] = (@ \ {t}) \cup {u}]
  /\ swapped' = swapped \cup {t}
  /\ UNCHANGED <<sig, conn, made, receivers, live, fired, needed, timer, micro, owed, unsent, channels>>

RestartIce(p) ==
  /\ Called /\ Open(p)
  /\ conn' = [conn EXCEPT ![p] = "connecting"]
  /\ micro' = Append(micro, Task("restarted", p, p))
  /\ owed' = [owed EXCEPT ![p] = TRUE]
  /\ UNCHANGED <<sig, made, needed, timer, unsent, media, channels>>

Close(p) ==
  /\ Called /\ Open(p)
  /\ sig' = [sig EXCEPT ![p] = "closed"] /\ conn' = [conn EXCEPT ![p] = "closed"]
  /\ UNCHANGED <<made, needed, timer, micro, owed, unsent, media, channels>>

---- \* data channels

\* createDataChannel: the pair exists at once; a microtask announces the far end
CreateChannel(c) ==
  /\ Called /\ chan[c] = [e \in End |-> "none"]
  /\ chan' = [chan EXCEPT ![c] = [e \in End |-> "connecting"]]
  /\ micro' = Append(micro, Task("announce", c, "near"))
  /\ UNCHANGED <<sig, conn, made, needed, timer, owed, unsent, media, shut, early>>

\* The accepting end is in nobody's hands before ondatachannel has run
InHand(c, e) == e = "near" \/ ~\E i \in DOMAIN micro : micro[i].do = "announce" /\ micro[i].of = c
Opening(c) == \E i \in DOMAIN micro : micro[i].do \in {"announce", "opened"} /\ micro[i].of = c

CloseChannel(c, e) ==
  /\ Called /\ chan[c][e] \in {"connecting", "open"} /\ InHand(c, e)
  /\ chan' = [chan EXCEPT ![c][e] = "closed"]
  /\ micro' = Append(micro, Task("closed", c, e))
  /\ shut' = IF e = "far" /\ Opening(c) THEN shut \cup {c} ELSE shut
  /\ UNCHANGED <<sig, conn, made, needed, timer, owed, unsent, media, early>>

SendOn(c, e) ==
  /\ Called /\ chan[c][e] = "open"
  /\ micro' = Append(micro, Task("message", c, Across(e)))
  /\ UNCHANGED <<sig, conn, made, needed, timer, owed, unsent, media, channels>>

---- \* microtasks and the timer

Run(m) ==
  /\ micro # <<>> /\ m = Head(micro)
  /\ UNCHANGED <<sig, conn, made, senders, receivers, live, swapped, timer, unsent, shut, ops>>

\* The event itself; the handler (the engine) starts its own calls
RunNeeded(m) ==
  /\ m.do = "needed"
  /\ needed' = [needed EXCEPT ![m.of] = FALSE]
  /\ owed' = [owed EXCEPT ![m.of] = FALSE]
  /\ micro' = Tail(micro) /\ UNCHANGED <<fired, chan, early>>

RunRestarted(m) ==
  /\ m.do = "restarted"
  /\ NegotiationNeeded(m.of, Tail(micro))
  /\ UNCHANGED <<fired, chan, early, owed>>

RunTrack(m) ==
  /\ m.do = "track"
  /\ fired' = [fired EXCEPT ![m.of][m.on] = @ + 1]
  /\ micro' = Tail(micro) /\ UNCHANGED <<needed, owed, chan, early>>

\* ondatachannel of the peer, then open() of the near end: its state whatever it is now
RunAnnounce(m) ==
  /\ m.do = "announce"
  /\ chan' = [chan EXCEPT ![m.of]["near"] = "open"]
  /\ micro' = Append(Tail(micro), Task("opened", m.of, "near"))
  /\ UNCHANGED <<needed, owed, fired, early>>

\* onopen of the near end, then markOpen of the far one
MarkOpen(c) == [chan EXCEPT ![c]["far"] = "open"]

RunOpened(m) ==
  /\ m.do = "opened"
  /\ chan' = MarkOpen(m.of)
  /\ micro' = Tail(micro) /\ UNCHANGED <<needed, owed, fired, early>>

\* onclose of the end that was closed, then markClosed of the other
MarkClosed(c, e) == [chan EXCEPT ![c][Across(e)] = "closed"]

RunClosed(m) ==
  /\ m.do = "closed"
  /\ chan' = MarkClosed(m.of, m.on)
  /\ micro' = Tail(micro) /\ UNCHANGED <<needed, owed, fired, early>>

RunMessage(m) ==
  /\ m.do = "message"
  /\ early' = IF chan[m.of][m.on] = "connecting" THEN early \cup {m.of} ELSE early
  /\ micro' = Tail(micro) /\ UNCHANGED <<needed, owed, fired, chan>>

Microtask ==
  micro # <<>> /\ LET m == Head(micro) IN
    Run(m) /\ (\/ RunNeeded(m) \/ RunRestarted(m) \/ RunTrack(m) \/ RunAnnounce(m)
               \/ RunOpened(m) \/ RunClosed(m) \/ RunMessage(m))

\* emit: a timer runs with no microtask left; nothing comes out of a closed connection
Trickle(p) ==
  /\ micro = <<>> /\ p \in timer
  /\ timer' = timer \ {p}
  /\ unsent' = unsent \ {p}
  /\ UNCHANGED <<sig, conn, made, needed, micro, owed, ops, media, channels>>

Next ==
  \/ \E p \in PC :
       \/ \E type \in {"offer", "answer"} : SetLocal(p, type)
       \/ Rollback(p) \/ SetRemoteOffer(p) \/ SetRemoteAnswer(p)
       \/ \E t \in Track : AddTrack(p, t) \/ RemoveTrack(p, t)
       \/ \E t, u \in Track : ReplaceTrack(p, t, u)
       \/ RestartIce(p) \/ Close(p) \/ Trickle(p)
  \/ \E c \in Chan : CreateChannel(c) \/ \E e \in End : CloseChannel(c, e) \/ SendOn(c, e)
  \/ Microtask

Spec == Init /\ [][Next]_vars

-----------------------------------------------------------------------------
AtRest == micro = <<>>

\* ontrack runs once for each track a connection receives, however often an offer is
\* applied (712-713), and a received track its peer no longer sends has ended (504-519),
\* unless the sender was given another one.
TracksTold ==
  \A p \in PC : \A t \in Track :
    /\ fired[p][t] <= 1
    /\ AtRest => (fired[p][t] = 1 <=> t \in receivers[p])
    /\ t \in receivers[p] \ (senders[Other(p)] \cup swapped) => t \notin live

\* Once the microtasks have run, every change of the senders and every ICE restart of a
\* connection still open was followed by a negotiationneeded event (661-668), and once the
\* timers have too, every local description was followed by candidates (670-701).
NothingOwed ==
  AtRest => \A p \in PC : /\ Open(p) => ~owed[p]
                          /\ p \in unsent => p \in timer

\* Once the microtasks have run, both ends of a channel are open or both are closed,
\* unless the accepting end was closed while the channel was opening (152-190); a message
\* never reaches an end that is still connecting.
ChannelsAgree ==
  /\ AtRest => \A c \in Chan \ shut : chan[c]["near"] = chan[c]["far"]
  /\ early = {}
=============================================================================
