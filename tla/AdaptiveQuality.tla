-------------------------- MODULE AdaptiveQuality --------------------------
(***************************************************************************)
(* One participant's outgoing video: the policy engine                     *)
(* (packages/quality/src/adaptive-quality-controller.ts, tiers.ts,         *)
(* device-capability.ts) driven by RoomQualityController and               *)
(* RoomStatsSampler (packages/core/src/room-quality.ts), over the senders  *)
(* the mesh makes for one camera track and the mute flag of                *)
(* ControlsManager.                                                        *)
(*                                                                         *)
(* A tick stands for one poll interval; a duration is counted in ticks up  *)
(* to the stability window.  The statistics of a connection are external,  *)
(* one of Stat, and read at once.  A setter of a sender or a track (also   *)
(* external) takes effect when it is called, or rejects; an application of *)
(* a tier awaits one after the other, and applications run beside each     *)
(* other.                                                                  *)
(***************************************************************************)
EXTENDS Integers, FiniteSets, Sequences

CONSTANTS
  Peer,         \* remote participants
  Stat,         \* what one connection may report: records [kbps, net, cpu]
  StableTicks,  \* upgradeStableMs in poll intervals
  MaxQueue,     \* bound: tier applications under way
  MaxEvents     \* bound: publications, mute changes, peers that come and leave

\* The sender of a connection that closed, which still has the track.
Gone == "gone"

ASSUME QualityAssumption ==
  /\ IsFiniteSet(Peer) /\ Gone \notin Peer
  /\ StableTicks \in Nat /\ MaxQueue \in Nat /\ MaxEvents \in Nat

VARIABLES
  device,    \* tier index the device score allows
  simulcast, \* simulcastEnabled
  policy,    \* AdaptiveQualityController
  track,     \* the camera track: published, enabled, constrained to a tier
  muted,     \* ControlsManager.cameraMutedFlag
  sender,    \* the sender of each connection
  applying,  \* tier applications under way: the tier, the senders still to come
  attaching, \* senders attachTrack has still to set up
  settling,  \* those it has set up and not applied a tier to
  history,   \* what the exceptions of the properties refer to
  fine,      \* the last snapshot gave no reason for less than the highest tier
  since,     \* ticks since the last change of tier
  events

vars == <<device, simulcast, policy, track, muted, sender, applying,
          attaching, settling, history, fine, since, events>>

-----------------------------------------------------------------------------
(* The ladder (DEFAULT_QUALITY_TIERS), 0 the highest.                      *)

Ladder ==
  <<[required |-> 1800, max |-> 2500, layer |-> 0],
    [required |-> 900,  max |-> 1200, layer |-> 1],
    [required |-> 450,  max |-> 600,  layer |-> 2],
    [required |-> 180,  max |-> 250,  layer |-> 2],
    [required |-> 0,    max |-> 0,    layer |-> 3]>>

Tier(i) == Ladder[i + 1]
AudioOnly == 4

NoRate == -1     \* an estimate that is not reported
Unlimited == 2500  \* the highest layer's maxBitrate when simulcast is set up

NoSender == [there |-> FALSE, layered |-> FALSE, max |-> 0, tier |-> -1]

Slot == 1 .. MaxQueue
Idle == [tier |-> -1, todo |-> {}]

Init ==
  /\ device \in {0, 1} /\ simulcast \in BOOLEAN
  /\ \E start \in {device, 2} :
       policy = [cur |-> start, first |-> TRUE, stable |-> -1, bad |-> 0, cpu |-> 0]
  /\ track = [published |-> FALSE, enabled |-> TRUE, limit |-> -1]
  /\ muted = FALSE
  /\ sender \in [Peer -> {NoSender, [NoSender EXCEPT !.there = TRUE]}]
  /\ applying = [i \in Slot |-> Idle] /\ attaching = {} /\ settling = {}
  /\ history = [late |-> {}, byHand |-> FALSE, stray |-> {}]
  /\ fine = TRUE /\ since = 0 /\ events = 0

Event == events < MaxEvents /\ events' = events + 1
Here == {p \in Peer : sender[p].there}

-----------------------------------------------------------------------------
(* Sampling: RoomStatsSampler and poll.                                    *)

Larger(a, b) == IF a < b THEN b ELSE a
Severity == [good |-> 0, bad |-> 1, severe |-> 2]

\* merge: the longest round trip and highest loss, but also the highest
\* estimate of the bandwidth; the limitation reason is the last one's.
Merge(m, s) ==
  [kbps |-> Larger(m.kbps, s.kbps),
   net |-> IF Severity[m.net] < Severity[s.net] THEN s.net ELSE m.net,
   cpu |-> s.cpu]

\* RoomStatsSampler.sample: what n connections, one after the other, may come
\* to; one that broke or closed is passed over.
Silent == [kbps |-> NoRate, net |-> "good", cpu |-> FALSE]

Snapshots[n \in 0 .. Cardinality(Peer)] ==
  IF n = 0 THEN {Silent}
  ELSE Snapshots[n - 1] \cup {Merge(m, s) : m \in Snapshots[n - 1], s \in Stat}

-----------------------------------------------------------------------------
(* The policy: evaluate and tick.                                          *)

Severe(s) == s.net = "severe" \/ (s.kbps # NoRate /\ s.kbps < 150)

\* downgradeBitrateHeadroom is 1.15.
NetworkBad(q, s) ==
  \/ s.net = "bad"
  \/ s.kbps # NoRate /\ s.kbps * 100 < Tier(q.cur).required * 115

\* upgradeBitrateHeadroom is 1.25, over what the present tier needs.
Headroom(q, s) == s.kbps = NoRate \/ s.kbps * 100 > Tier(q.cur).required * 125

\* Two bad ticks in a row, or two CPU-limited ones, cost a tier.
Ticks == 2
Count(n) == IF n < Ticks THEN n + 1 ELSE n

\* Faulty variant: the stability window goes on over a change.
ChangeKeeping(q, tier) == [q EXCEPT !.cur = tier, !.bad = 0, !.cpu = 0]

\* The policy after a change of tier: the stability window is to start anew.
ChangeTo(q, tier) == [q EXCEPT !.cur = tier, !.stable = -1, !.bad = 0, !.cpu = 0]

\* Faulty variant: only a change of tier would open the window again.
KeepShut(q) == q

\* A tick without change leaves the window open or opens it.
Keep(q) == IF q.stable = -1 THEN [q EXCEPT !.stable = 0] ELSE q

MayUpgrade(q, s) == q.stable = StableTicks /\ Headroom(q, s) /\ q.cur > device

Worse(q) == IF q.cur < AudioOnly THEN ChangeTo(q, q.cur + 1) ELSE Keep(q)

\* evaluate, in its order: severe congestion, network, CPU, device, upgrade.
Evaluate(q, s) ==
  LET net == [q EXCEPT !.bad = Count(@), !.cpu = 0]
      calm == [q EXCEPT !.bad = 0]
      cpu == [calm EXCEPT !.cpu = Count(@)]
      well == [calm EXCEPT !.cpu = 0]
  IN  CASE Severe(s) -> IF q.cur < AudioOnly THEN ChangeTo(q, AudioOnly) ELSE Keep(q)
        [] ~Severe(s) /\ NetworkBad(q, s) ->
             IF net.bad = Ticks THEN Worse(net) ELSE Keep(net)
        [] ~Severe(s) /\ ~NetworkBad(q, s) /\ s.cpu ->
             IF cpu.cpu = Ticks THEN Worse(cpu) ELSE Keep(cpu)
        [] OTHER ->
             IF q.cur < device THEN ChangeTo(q, device)
             ELSE IF MayUpgrade(well, s) THEN ChangeTo(q, q.cur - 1)
             ELSE Keep(well)

\* Time goes on by one tick.
Aged(q) == IF q.stable \in 0 .. StableTicks - 1 THEN [q EXCEPT !.stable = @ + 1] ELSE q

\* tick: the first one only sets the baseline.
Decide(q, s) ==
  IF q.first THEN [q EXCEPT !.first = FALSE, !.stable = 0] ELSE Evaluate(Aged(q), s)

\* A snapshot that gives no reason for less than the highest tier.
Fine(s) == s.net = "good" /\ ~s.cpu /\ (s.kbps = NoRate \/ s.kbps > 2250)

-----------------------------------------------------------------------------
(* Application.                                                            *)

Smaller(a, b) == IF a < b THEN a ELSE b

\* Faulty variant: the cap of the layers stays as set up.
LayerCapped(s, tier) == [s EXCEPT !.tier = tier]

\* applySimulcastTier: the layers the tier needs, each capped to it; a cap is
\* the minimum of what it was and what the tier allows.
Layered(s, tier) ==
  [s EXCEPT !.tier = tier,
            !.max = IF Tier(tier).max > 0 THEN Smaller(@, Tier(tier).max) ELSE @]

\* applySingleTier: constraints on the track itself, paused for audio-only.
Constrain(tier) ==
  IF tier = AudioOnly THEN [track EXCEPT !.enabled = FALSE]
  ELSE [track EXCEPT !.enabled = TRUE, !.limit = tier]

\* What a setter for p is called on: its sender, or the track that all single ones share.
Target(p) == IF p # Gone /\ sender[p].layered THEN p ELSE Gone

\* A target strays when an application of a tier that is not the policy's sets it.
Mark(h, p, tier, cur) ==
  [h EXCEPT !.stray = IF tier = cur THEN @ \ {Target(p)} ELSE @ \cup {Target(p)},
            !.byHand = @ /\ Target(p) # Gone]

\* applyTierToSender; through a closed connection the track is constrained all the same
Obeys(p, tier, cur, h) ==
  /\ IF Target(p) = Gone
     THEN track' = Constrain(tier) /\ UNCHANGED sender
     ELSE sender' = [sender EXCEPT ![p] = Layered(@, tier)] /\ UNCHANGED track
  /\ history' = [Mark(h, p, tier, cur) EXCEPT !.late = IF tier = cur THEN @ \ {p} ELSE @]
  /\ UNCHANGED events

\* The setter rejects, which is caught: a sender stays as it was; a track has been enabled
\* before its constraints are refused, and no setter of it is called for audio-only.
Missed(h, p, tier, cur) ==
  IF tier = cur THEN [h EXCEPT !.late = @ \cup ({p} \ {Gone}), !.byHand = @ /\ Target(p) # Gone]
  ELSE IF Target(p) = Gone THEN Mark(h, p, tier, cur) ELSE h

Refuses(p, tier, cur, h) ==
  /\ Event
  /\ IF Target(p) = Gone
     THEN tier # AudioOnly /\ track' = [track EXCEPT !.enabled = TRUE]
     ELSE UNCHANGED track
  /\ history' = Missed(h, p, tier, cur)
  /\ UNCHANGED sender

Setter(p, tier, cur, h) == Obeys(p, tier, cur, h) \/ Refuses(p, tier, cur, h)

\* applyTier: the next sender of one application; one without senders left is over.
Left(a, todo) == IF todo = {} THEN Idle ELSE [a EXCEPT !.todo = todo]

Over(i) ==
  [j \in Slot |-> IF j < i THEN applying[j] ELSE IF j < MaxQueue THEN applying[j + 1] ELSE Idle]

Apply(i, p) ==
  /\ p \in applying[i].todo
  /\ applying' = IF applying[i].todo = {p} THEN Over(i)
                 ELSE [applying EXCEPT ![i].todo = @ \ {p}]
  /\ Setter(p, applying[i].tier, policy.cur, history)
  /\ UNCHANGED <<device, simulcast, policy, muted, attaching, settling, fine, since>>

\* An application goes through the senders there are; its first setter is called at once.
Free(i) == applying[i] = Idle /\ \A j \in 1 .. i - 1 : applying[j] # Idle
Begin(tier) ==
  LET h == [history EXCEPT !.stray = {}]
  IN  IF Here = {} THEN history' = h /\ UNCHANGED <<applying, sender, track, events>>
      ELSE \E i \in Slot, p \in Here :
             /\ Free(i)
             /\ applying' = [applying EXCEPT ![i] = Left([tier |-> tier, todo |-> {}], Here \ {p})]
             /\ Setter(p, tier, tier, h)

\* attachTrack: a sender is set up for simulcast once, which may reject and leaves it as it
\* is; then, or at once, the tier of now is applied.
NeedsSetUp(p) == simulcast /\ p # Gone /\ ~sender[p].layered
Attach(p) ==
  /\ p \in attaching /\ attaching' = attaching \ {p}
  /\ IF NeedsSetUp(p)
     THEN /\ UNCHANGED track
          /\ \/ /\ sender' = [sender EXCEPT ![p] = [@ EXCEPT !.layered = TRUE, !.max = Unlimited]]
                /\ settling' = settling \cup {p} /\ UNCHANGED <<history, events>>
             \/ /\ Event /\ history' = [history EXCEPT !.late = @ \cup {p}]
                /\ UNCHANGED <<sender, settling>>
     ELSE Setter(p, policy.cur, policy.cur, history) /\ UNCHANGED settling
  /\ UNCHANGED <<device, simulcast, policy, muted, applying, fine, since>>

Settle(p) ==
  /\ p \in settling /\ settling' = settling \ {p}
  /\ Setter(p, policy.cur, policy.cur, history)
  /\ UNCHANGED <<device, simulcast, policy, muted, applying, attaching, fine, since>>

\* poll: nothing is sampled without a published track; the policy decides, and
\* a new tier is applied.
Tick ==
  /\ track.published /\ \E i \in Slot : applying[i] = Idle
  /\ \E s \in Snapshots[Cardinality(Here)] : policy' = Decide(policy, s) /\ fine' = Fine(s)
  /\ IF policy'.cur = policy.cur
     THEN /\ since' = IF since < StableTicks THEN since + 1 ELSE since
          /\ UNCHANGED <<applying, sender, track, history, events>>
     ELSE since' = 0 /\ Begin(policy'.cur)
  /\ UNCHANGED <<device, simulcast, muted, attaching, settling>>

-----------------------------------------------------------------------------
(* The room.                                                               *)

\* publish: every connection has a sender by then.
Publish ==
  /\ Event /\ ~track.published
  /\ track' = [track EXCEPT !.published = TRUE]
  /\ attaching' = Here
  /\ UNCHANGED <<device, simulcast, policy, muted, sender, applying,
                 settling, history, fine, since>>

\* ensurePeer attaches the published track before it stores the connection:
\* the senders there were are configured again, the new one is not.
PeerComes(p) ==
  /\ Event /\ ~sender[p].there
  /\ sender' = [sender EXCEPT ![p] = [NoSender EXCEPT !.there = TRUE]]
  /\ attaching' = IF track.published THEN attaching \cup Here ELSE attaching
  /\ history' = [history EXCEPT !.late = IF track.published THEN @ \cup {p} ELSE @]
  /\ UNCHANGED <<device, simulcast, policy, track, muted, applying, settling, fine, since>>

\* What is still to configure when p's connection closes: its simulcast sender
\* rejects the parameters, a single one still reaches the track.
Without(todo, p, layered) ==
  IF p \notin todo THEN todo ELSE (todo \ {p}) \cup (IF layered THEN {} ELSE {Gone})

\* handleRemoteLeave.
PeerLeaves(p) ==
  /\ Event /\ sender[p].there
  /\ sender' = [sender EXCEPT ![p] = NoSender]
  /\ attaching' = Without(attaching, p, simulcast)
  /\ settling' = Without(settling, p, sender[p].layered)
  /\ applying' = [i \in Slot |-> Left(applying[i], Without(applying[i].todo, p, sender[p].layered))]
  /\ history' = [history EXCEPT !.late = @ \ {p}, !.stray = @ \ {p}]
  /\ UNCHANGED <<device, simulcast, policy, track, muted, fine, since>>

\* setCameraMuted: the track is enabled or not, whatever the tier.
SetMuted ==
  /\ Event
  /\ muted' = ~muted
  /\ track' = [track EXCEPT !.enabled = ~muted']
  /\ history' = [history EXCEPT !.byHand = TRUE]
  /\ UNCHANGED <<device, simulcast, policy, sender, applying, attaching, settling, fine, since>>

Next ==
  \/ Tick
  \/ \E i \in Slot, p \in Peer \cup {Gone} : Apply(i, p)
  \/ \E p \in Peer \cup {Gone} : Attach(p) \/ Settle(p)
  \/ Publish
  \/ \E p \in Peer : PeerComes(p)
  \/ \E p \in Peer : PeerLeaves(p)
  \/ SetMuted

Spec == Init /\ [][Next]_vars

\* The interval fires again and again, sampling and the setters end.
Fairness ==
  /\ WF_vars(Tick)
  /\ WF_vars(\E i \in Slot, p \in Peer \cup {Gone} : Apply(i, p))

FairSpec == Spec /\ Fairness

-----------------------------------------------------------------------------
(* Properties.                                                             *)

AtRest == (\A i \in Slot : applying[i] = Idle) /\ attaching = {} /\ settling = {}

\* Once the applications are over, every sender is held to the policy's tier,
\* whatever came in between: the layers of a simulcast sender and their cap,
\* the constraints of the track behind a single one, which is off for
\* audio-only unless the user switched it on since.  There are two exceptions,
\* until the tier next changes: a connection that came after the publication
\* or whose own setter rejected, and a sender or track that an application of
\* an older tier set after the one of the present tier had, which nothing
\* keeps it from (room-quality.ts:402, 415-427, 512-520).
Capped(p, tier) ==
  sender[p].tier = tier /\ (tier # AudioOnly => sender[p].max =< Tier(tier).max)

Constrained(tier) ==
  IF tier = AudioOnly THEN track.enabled => history.byHand ELSE track.limit = tier

SendersFollow ==
  AtRest /\ track.published =>
    \A p \in Here \ history.late :
      \/ Target(p) \in history.stray
      \/ IF sender[p].layered THEN Capped(p, policy.cur) ELSE Constrained(policy.cur)

\* An upgrade is one tier, never beyond the device, and comes only after the
\* tier has been the same for the whole stability window.
UpgradeEarned ==
  [][policy'.cur < policy.cur =>
       /\ policy'.cur = policy.cur - 1
       /\ policy'.cur >= device
       /\ since >= StableTicks]_vars

\* The policy recovers: when from some time on a track is published and the
\* connections report nothing bad, the tier ends up at what the device allows
\* and stays there.
Recovers ==
  <>[](track.published /\ fine) => <>[](policy.cur = device)

\* Muting the camera makes its track dark until it is unmuted: "enabled=false
\* makes the encoder emit black frames to peers" (ControlsManager.ts).
MutedIsDark == muted => ~track.enabled

=============================================================================
