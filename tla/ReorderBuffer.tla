--------------------------- MODULE ReorderBuffer ---------------------------
(***************************************************************************)
(* packages/transport/src/internal/reorder.ts: the per-sender buffer every *)
(* BaseSignalingTransport puts between the backend channel and the Room.   *)
(*                                                                         *)
(* A frame is [from, sess, seq, kind].  The remote Room numbers all its    *)
(* envelopes with one counter per join session, whatever their kind, and   *)
(* a new session starts again at 0.  The buffer is keyed by `from' alone   *)
(* and holds back only the ordered kinds (offer, answer, sfu).             *)
(*                                                                         *)
(* The channel is external: it may reorder, and if the constants say so    *)
(* duplicate or lose frames.  Time is abstracted: `Sweep' may find a       *)
(* sender idle at any moment.                                              *)
(***************************************************************************)
EXTENDS Integers, FiniteSets

CONSTANTS
  Sender,        \* remote participants
  MaxSeq,        \* bound: last sequence number of a session
  MaxSess,       \* bound: join sessions per participant
  MaxGap,        \* ReorderBufferOptions.maxGap
  Kind,          \* the kinds emitted, a subset of {"ordered", "plain"}
  InOrder,       \* the channel keeps the order of each sender
  Duplicating,   \* the channel may deliver a frame again
  Lossy,         \* the channel may lose a frame
  Sweeping       \* sender state can idle out

ASSUME ConstantsAssumption ==
  /\ MaxSeq \in Nat
  /\ MaxSess \in Nat \ {0}
  /\ MaxGap \in Nat \ {0}
  /\ Kind \subseteq {"ordered", "plain"}
  /\ {InOrder, Duplicating, Lossy, Sweeping} \subseteq BOOLEAN

VARIABLES
  sess,       \* current join session of each remote Room
  emitted,    \* frames numbered so far in that session
  wire,       \* frames in flight
  tracked,    \* senders with a SenderState
  next,       \* SenderState.next
  held,       \* SenderState.buffer, as the set of its frames
  released,   \* ordered frames fanned out since the sender is tracked
  dropped     \* ordered frames that push discarded

vars == <<sess, emitted, wire, tracked, next, held, released, dropped>>

Seqs == 0 .. MaxSeq

Frame == [from : Sender, sess : 1 .. MaxSess, seq : Seqs, kind : Kind]

SeqsOf(frames) == {f.seq : f \in frames}

Init ==
  /\ sess = [s \in Sender |-> 1]
  /\ emitted = [s \in Sender |-> 0]
  /\ wire = {}
  /\ tracked = {}
  /\ next = [s \in Sender |-> 0]
  /\ held = [s \in Sender |-> {}]
  /\ released = [s \in Sender |-> {}]
  /\ dropped = {}

-----------------------------------------------------------------------------
(* The remote Rooms and the channel.                                       *)

Emit(s, kind) ==
  /\ emitted[s] <= MaxSeq
  /\ wire' = wire \cup {[from |-> s, sess |-> sess[s], seq |-> emitted[s], kind |-> kind]}
  /\ emitted' = [emitted EXCEPT ![s] = @ + 1]
  /\ UNCHANGED <<sess, tracked, next, held, released, dropped>>

\* The participant comes back with a new Room: fresh session, counter at 0.
Rejoin(s) ==
  /\ sess[s] < MaxSess
  /\ sess' = [sess EXCEPT ![s] = @ + 1]
  /\ emitted' = [emitted EXCEPT ![s] = 0]
  /\ UNCHANGED <<wire, tracked, next, held, released, dropped>>

Lose(f) ==
  /\ Lossy
  /\ wire' = wire \ {f}
  /\ UNCHANGED <<sess, emitted, tracked, next, held, released, dropped>>

Before(f, g) ==
  /\ f.from = g.from
  /\ \/ f.sess < g.sess
     \/ f.sess = g.sess /\ f.seq < g.seq

\* The channel hands f over, keeping a copy when it duplicates.
Arrives(f) ==
  /\ f \in wire
  /\ InOrder => ~\E g \in wire : Before(g, f)
  /\ \/ wire' = wire \ {f}
     \/ Duplicating /\ wire' = wire

-----------------------------------------------------------------------------
(* push(envelope)                                                          *)

\* A kind that needs no order is returned at once; `next' is not advanced.
PushPlain(f) ==
  /\ f.kind = "plain"
  /\ Arrives(f)
  /\ UNCHANGED <<sess, emitted, tracked, next, held, released, dropped>>

\* Faulty variant: anchored at whatever number is seen first.
AnchorAtFirst(seq) == seq

\* `next' for a sender seen for the first time.
Anchor(seq) == IF seq <= MaxGap THEN 0 ELSE seq

Expected(f) == IF f.from \in tracked THEN next[f.from] ELSE Anchor(f.seq)

\* Faulty variants: the next frame due is refused; an old frame is taken
\* again; the window is checked one too late.
IsDuplicateUpToNext(f) == f.seq <= Expected(f) \/ f.seq \in SeqsOf(held[f.from])
IsDuplicateNever(f) == f.seq \in SeqsOf(held[f.from])
GapExceededLate(n, rest) == \E g \in rest : g.seq - n > MaxGap

\* Below `next', or a frame with that number is already waiting.
IsDuplicate(f) == f.seq < Expected(f) \/ f.seq \in SeqsOf(held[f.from])

PushDuplicate(f) ==
  /\ f.kind = "ordered"
  /\ IsDuplicate(f)
  /\ Arrives(f)
  /\ dropped' = dropped \cup {f}
  /\ UNCHANGED <<sess, emitted, tracked, next, held, released>>

\* n is where the contiguous run that starts at `from' in `seqs' stops.
EndOfRun(from, seqs, n) ==
  /\ n >= from
  /\ n \notin seqs
  /\ \A m \in from .. n - 1 : m \in seqs

\* `next' once everything up to `largest' is flushed.
Past(largest) == largest + 1

\* largest - next + 1 > maxGap, over the frames left after the run.
GapExceeded(n, rest) == \E g \in rest : g.seq - n + 1 > MaxGap

\* The frame is stored, the contiguous run is released, and if what is left
\* reaches too far ahead all of it is flushed.
PushOrdered(f) ==
  /\ f.kind = "ordered"
  /\ ~IsDuplicate(f)
  /\ Arrives(f)
  /\ tracked' = tracked \cup {f.from}
  /\ LET s     == f.from
         avail == held[s] \cup {f}
     IN \E n \in 0 .. MaxSeq + 1 :
          /\ EndOfRun(Expected(f), SeqsOf(avail), n)
          /\ LET run  == {g \in avail : g.seq < n}
                 rest == avail \ run
             IN IF GapExceeded(n, rest)
                  THEN /\ \E top \in SeqsOf(rest) :
                            /\ \A m \in SeqsOf(rest) : m <= top
                            /\ next' = [next EXCEPT ![s] = Past(top)]
                       /\ held' = [held EXCEPT ![s] = {}]
                       /\ released' = [released EXCEPT ![s] = @ \cup avail]
                  ELSE /\ next' = [next EXCEPT ![s] = n]
                       /\ held' = [held EXCEPT ![s] = rest]
                       /\ released' = [released EXCEPT ![s] = @ \cup run]
  /\ UNCHANGED <<sess, emitted, dropped>>

\* sweep(): the sender's state goes, frames still waiting included.
Sweep(s) ==
  /\ Sweeping
  /\ s \in tracked
  /\ tracked' = tracked \ {s}
  /\ next' = [next EXCEPT ![s] = 0]
  /\ held' = [held EXCEPT ![s] = {}]
  /\ released' = [released EXCEPT ![s] = {}]
  /\ UNCHANGED <<sess, emitted, wire, dropped>>

Push(f) == PushPlain(f) \/ PushDuplicate(f) \/ PushOrdered(f)

\* What happens within one session of every sender, none of which idles out
Stream ==
  \/ \E s \in Sender, k \in Kind : Emit(s, k)
  \/ \E f \in wire : Lose(f) \/ Push(f)

Next == Stream \/ \E s \in Sender : Rejoin(s) \/ Sweep(s)

\* The channel keeps delivering what is in flight.
Fairness == \A f \in Frame : WF_vars(Push(f))

Spec == Init /\ [][Next]_vars

\* One session each, over a channel that keeps delivering
FairSpec == Init /\ [][Stream]_vars /\ Fairness

-----------------------------------------------------------------------------
(* Properties.                                                             *)

TypeOK ==
  /\ sess \in [Sender -> 1 .. MaxSess]
  /\ emitted \in [Sender -> 0 .. MaxSeq + 1]
  /\ wire \subseteq Frame
  /\ tracked \subseteq Sender
  /\ next \in [Sender -> 0 .. MaxSeq + 1]
  /\ held \in [Sender -> SUBSET Frame]
  /\ released \in [Sender -> SUBSET Frame]
  /\ dropped \subseteq Frame

\* The buffer is bounded by maxGap: what waits lies strictly above `next' and
\* within the window, one frame per number, whatever is lost, duplicated or
\* swept.  Without it a lost offer would let the buffer grow with the call.
WindowBounded ==
  \A s \in Sender :
    /\ \A f \in held[s] : /\ f.from = s
                          /\ next[s] < f.seq
                          /\ f.seq - next[s] < MaxGap
    /\ \A f, g \in held[s] : f.seq = g.seq => f = g

\* Offers and answers of one sender leave the buffer in rising order, each
\* number once, over all pushes until the sender idles out: a frame released
\* by a step lies above everything released before it.
ReleasedRising ==
  [][\A s \in Sender :
       s \in tracked /\ s \in tracked' =>
         \A f \in released'[s] \ released[s], g \in released[s] : f.seq > g.seq]_vars

\* "Frames below the anchor are duplicates": a frame push() throws away is one
\* the consumer has or the buffer will release.
DropsAreDuplicates ==
  dropped \subseteq UNION {released[s] \cup held[s] : s \in Sender}

\* Over a channel that loses nothing, every ordered frame comes out.
AllReleased ==
  \A f \in Frame : f \in wire ~> f \in released[f.from]

\* For one session of ordered frames, whatever the channel reorders,
\* duplicates or loses, and as long as no gap reaches maxGap, the consumer
\* gets a prefix of the stream: push() implements FIFO delivery.
Fifo == INSTANCE FifoDelivery
          WITH sent <- emitted, got <- [s \in Sender |-> SeqsOf(released[s])]
FifoSpec == Fifo!Spec
=============================================================================
