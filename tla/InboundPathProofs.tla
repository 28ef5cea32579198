------------------------- MODULE InboundPathProofs -------------------------
(***************************************************************************)
(* Theorems about the receiving half of a client: first the reorder buffer *)
(* of packages/transport/src/internal/reorder.ts, then deliverFrame of     *)
(* packages/transport/src/base.ts with that buffer in front of             *)
(* Room.handleEnvelope.  They hold for every set of senders, stream        *)
(* length, session count and window, over any channel.                     *)
(***************************************************************************)
EXTENDS InboundPath, TLAPS, WellFoundedInduction

-----------------------------------------------------------------------------
(* The reorder buffer.                                                     *)

\* Sending, rejoining, loss and frames that are not ordered leave the buffer alone.
LEMMA EnvironmentKeepsBuffer ==
  ASSUME TypeOK,
         \/ \E s \in Sender, k \in Kind : Emit(s, k)
         \/ \E s \in Sender : Rejoin(s)
         \/ \E f \in wire : Lose(f) \/ PushPlain(f)
  PROVE  TypeOK' /\ UNCHANGED <<tracked, next, held, released>>
<1> USE ConstantsAssumption DEF TypeOK, Frame, Seqs
<1>1. CASE \E s \in Sender, k \in Kind : Emit(s, k)
  BY <1>1 DEF Emit
<1>2. CASE \E s \in Sender : Rejoin(s)
  BY <1>2 DEF Rejoin
<1>3. CASE \E f \in wire : Lose(f) \/ PushPlain(f)
  BY <1>3 DEF Lose, PushPlain, Arrives
<1>4. QED
  BY <1>1, <1>2, <1>3

LEMMA PushOrderedTypeOK ==
  ASSUME TypeOK, NEW f \in wire, PushOrdered(f)
  PROVE  TypeOK'
<1> DEFINE s == f.from
           avail == held[s] \cup {f}
<1>1. f \in Frame /\ s \in Sender /\ avail \subseteq Frame
  BY DEF TypeOK, Frame
<1>2. PICK n \in 0 .. MaxSeq + 1 :
        LET run  == {g \in avail : g.seq < n}
            rest == avail \ run
        IN IF GapExceeded(n, rest)
             THEN /\ \E top \in SeqsOf(rest) :
                       /\ \A m \in SeqsOf(rest) : m <= top
                       /\ next' = [next EXCEPT ![s] = Past(top)]
                  /\ held' = [held EXCEPT ![s] = {}]
                  /\ released' = [released EXCEPT ![s] = @ \cup avail]
             ELSE /\ next' = [next EXCEPT ![s] = n]
                  /\ held' = [held EXCEPT ![s] = rest]
                  /\ released' = [released EXCEPT ![s] = @ \cup run]
  BY DEF PushOrdered
<1>3. next' \in [Sender -> 0 .. MaxSeq + 1]
  <2>1. \A g \in avail : Past(g.seq) \in 0 .. MaxSeq + 1
    BY <1>1, ConstantsAssumption DEF Frame, Seqs, Past
  <2>2. QED
    BY <1>1, <1>2, <2>1 DEF TypeOK, SeqsOf
<1>4. held' \in [Sender -> SUBSET Frame] /\ released' \in [Sender -> SUBSET Frame]
  BY <1>1, <1>2 DEF TypeOK
<1>5. wire' \subseteq Frame /\ tracked' \subseteq Sender
  BY <1>1 DEF PushOrdered, Arrives, TypeOK
<1>6. UNCHANGED <<sess, emitted, dropped>>
  BY DEF PushOrdered
<1>7. QED
  BY <1>3, <1>4, <1>5, <1>6 DEF TypeOK

\* The buffer never leaves its types; in particular `next' stays within one
\* of the largest number a sender can use.
THEOREM TypeCorrect == Spec => []TypeOK
<1>1. Init => TypeOK
  BY ConstantsAssumption DEF Init, TypeOK
<1>2. TypeOK /\ [Next]_vars => TypeOK'
  <2> SUFFICES ASSUME TypeOK, [Next]_vars PROVE TypeOK'
    OBVIOUS
  <2>1. CASE \/ \E s \in Sender, k \in Kind : Emit(s, k)
             \/ \E s \in Sender : Rejoin(s)
             \/ \E f \in wire : Lose(f) \/ PushPlain(f)
    BY <2>1, EnvironmentKeepsBuffer
  <2>2. CASE \E s \in Sender : Sweep(s)
    BY <2>2, ConstantsAssumption DEF TypeOK, Sweep
  <2>3. CASE \E f \in wire : PushDuplicate(f)
    BY <2>3 DEF TypeOK, PushDuplicate, Arrives
  <2>4. CASE \E f \in wire : PushOrdered(f)
    BY <2>4, PushOrderedTypeOK
  <2>5. CASE UNCHANGED vars
    BY <2>5 DEF vars, TypeOK
  <2>6. QED
    BY <2>1, <2>2, <2>3, <2>4, <2>5 DEF Next, Stream, Push
<1>3. QED
  BY <1>1, <1>2, PTL DEF Spec

-----------------------------------------------------------------------------
(* The window.                                                             *)

\* An untracked sender has nothing waiting: what push() assumes when it
\* creates a SenderState with an empty buffer.
UntrackedEmpty == \A s \in Sender \ tracked : held[s] = {} /\ released[s] = {}

WindowInv == TypeOK /\ UntrackedEmpty /\ WindowBounded

LEMMA PushOrderedWindow ==
  ASSUME WindowInv, NEW f \in wire, PushOrdered(f)
  PROVE  UntrackedEmpty' /\ WindowBounded'
<1> DEFINE s == f.from
           avail == held[s] \cup {f}
<1>1. f \in Frame /\ s \in Sender /\ avail \subseteq Frame
  BY DEF WindowInv, TypeOK, Frame
<1>2. PICK n \in 0 .. MaxSeq + 1 :
        /\ EndOfRun(Expected(f), SeqsOf(avail), n)
        /\ LET run  == {g \in avail : g.seq < n}
               rest == avail \ run
           IN IF GapExceeded(n, rest)
                THEN /\ \E top \in SeqsOf(rest) :
                          /\ \A m \in SeqsOf(rest) : m <= top
                          /\ next' = [next EXCEPT ![s] = Past(top)]
                     /\ held' = [held EXCEPT ![s] = {}]
                     /\ released' = [released EXCEPT ![s] = @ \cup avail]
                ELSE /\ next' = [next EXCEPT ![s] = n]
                     /\ held' = [held EXCEPT ![s] = rest]
                     /\ released' = [released EXCEPT ![s] = @ \cup run]
  BY DEF PushOrdered
<1> DEFINE rest == avail \ {g \in avail : g.seq < n}
<1>3. \A t \in Sender \ {s} : held'[t] = held[t] /\ next'[t] = next[t] /\ released'[t] = released[t]
  BY <1>1, <1>2 DEF WindowInv, TypeOK
<1>4. UntrackedEmpty'
  BY <1>1, <1>3 DEF PushOrdered, WindowInv, UntrackedEmpty, TypeOK
<1>5. CASE GapExceeded(n, rest)
  <2>1. held'[s] = {}
    BY <1>1, <1>2, <1>5 DEF WindowInv, TypeOK
  <2>2. QED
    BY <1>3, <1>4, <2>1 DEF WindowInv, WindowBounded
<1>6. CASE ~GapExceeded(n, rest)
  <2>1. held'[s] = rest /\ next'[s] = n
    BY <1>1, <1>2, <1>6 DEF WindowInv, TypeOK
  <2>2. \A g \in avail : g.from = s /\ g.seq \in Int
    BY <1>1 DEF WindowInv, WindowBounded, Frame, Seqs
  <2>3. \A g \in rest : n < g.seq
    <3>1. n \notin SeqsOf(avail)
      BY <1>2 DEF EndOfRun
    <3>2. QED
      BY <2>2, <3>1 DEF SeqsOf
  <2>4. \A g \in rest : g.seq - n < MaxGap
    BY <1>6, <2>2, ConstantsAssumption DEF GapExceeded
  <2>5. \A g, h \in avail : g.seq = h.seq => g = h
    BY <1>1 DEF PushOrdered, IsDuplicate, SeqsOf, WindowInv, WindowBounded
  <2>6. QED
    BY <1>3, <1>4, <2>1, <2>2, <2>3, <2>4, <2>5 DEF WindowInv, WindowBounded
<1>7. QED
  BY <1>5, <1>6

\* The strengthened window invariant, cited by the theorems below.
LEMMA WindowHolds == Spec => []WindowInv
<1>1. Init => WindowInv
  BY ConstantsAssumption DEF Init, WindowInv, TypeOK, UntrackedEmpty, WindowBounded
<1>2. TypeOK' /\ WindowInv /\ [Next]_vars => WindowInv'
  <2> SUFFICES ASSUME TypeOK', WindowInv, [Next]_vars PROVE UntrackedEmpty' /\ WindowBounded'
    BY DEF WindowInv
  <2>1. CASE \/ \E s \in Sender, k \in Kind : Emit(s, k)
             \/ \E s \in Sender : Rejoin(s)
             \/ \E f \in wire : Lose(f) \/ PushPlain(f)
    <3>1. UNCHANGED <<tracked, next, held, released>>
      BY <2>1, EnvironmentKeepsBuffer DEF WindowInv
    <3>2. QED
      BY <3>1 DEF WindowInv, UntrackedEmpty, WindowBounded
  <2>2. CASE \E s \in Sender : Sweep(s)
    BY <2>2 DEF Sweep, WindowInv, TypeOK, UntrackedEmpty, WindowBounded
  <2>3. CASE \E f \in wire : PushDuplicate(f)
    BY <2>3 DEF PushDuplicate, WindowInv, UntrackedEmpty, WindowBounded
  <2>4. CASE \E f \in wire : PushOrdered(f)
    BY <2>4, PushOrderedWindow
  <2>5. CASE UNCHANGED vars
    BY <2>5 DEF vars, WindowInv, UntrackedEmpty, WindowBounded
  <2>6. QED
    BY <2>1, <2>2, <2>3, <2>4, <2>5 DEF Next, Stream, Push
<1>3. QED
  BY <1>1, <1>2, TypeCorrect, PTL DEF Spec

\* However many frames are lost, repeated or reordered, and however senders
\* come, go idle and rejoin, no sender has more than a window of frames
\* waiting, one per number, all beyond the next expected one.
THEOREM WindowSafe == Spec => []WindowBounded
<1>1. WindowInv => WindowBounded
  BY DEF WindowInv
<1>2. QED
  BY <1>1, WindowHolds, PTL

-----------------------------------------------------------------------------
(* Order.                                                                  *)

\* What was released lies below the next expected number: the reason a later
\* release cannot reach back.
ReleasedBelow == \A s \in Sender : \A f \in released[s] : f.seq < next[s]

OrderInv == WindowInv /\ ReleasedBelow

\* The effect of push() on its own sender, run and flush alike: only waiting
\* frames at or above the old position come out, all below the new one.
LEMMA PushOrderedReleases ==
  ASSUME OrderInv, NEW f \in wire, PushOrdered(f)
  PROVE  /\ \A t \in Sender \ {f.from} : released'[t] = released[t] /\ next'[t] = next[t]
         /\ \A g \in released'[f.from] \ released[f.from] : g.seq >= Expected(f)
         /\ \A g \in released'[f.from] : g.seq < next'[f.from]
<1> DEFINE s == f.from
           avail == held[s] \cup {f}
<1>1. f \in Frame /\ s \in Sender /\ avail \subseteq Frame
  BY DEF OrderInv, WindowInv, TypeOK, Frame
<1>2. PICK n \in 0 .. MaxSeq + 1 :
        /\ EndOfRun(Expected(f), SeqsOf(avail), n)
        /\ LET run  == {g \in avail : g.seq < n}
               rest == avail \ run
           IN IF GapExceeded(n, rest)
                THEN /\ \E top \in SeqsOf(rest) :
                          /\ \A m \in SeqsOf(rest) : m <= top
                          /\ next' = [next EXCEPT ![s] = Past(top)]
                     /\ held' = [held EXCEPT ![s] = {}]
                     /\ released' = [released EXCEPT ![s] = @ \cup avail]
                ELSE /\ next' = [next EXCEPT ![s] = n]
                     /\ held' = [held EXCEPT ![s] = rest]
                     /\ released' = [released EXCEPT ![s] = @ \cup run]
  BY DEF PushOrdered
<1> DEFINE run == {g \in avail : g.seq < n}
           rest == avail \ run
<1>3. \A g \in avail : g.seq \in Nat /\ g.seq >= Expected(f)
  <2>1. f.seq >= Expected(f)
    BY <1>1, ConstantsAssumption
       DEF PushOrdered, IsDuplicate, Expected, Anchor, OrderInv, WindowInv, TypeOK, Frame, Seqs
  <2>2. \A g \in held[s] : s \in tracked /\ g.seq > next[s]
    BY <1>1 DEF OrderInv, WindowInv, UntrackedEmpty, WindowBounded
  <2>3. QED
    BY <1>1, <2>1, <2>2 DEF Expected, Frame, Seqs, OrderInv, WindowInv, TypeOK
<1>4. \A g \in released[s] : g.seq \in Nat /\ g.seq < Expected(f)
  BY <1>1 DEF OrderInv, WindowInv, UntrackedEmpty, ReleasedBelow, TypeOK, Expected, Frame, Seqs
<1>5. Expected(f) \in Nat /\ n >= Expected(f)
  BY <1>1, <1>2 DEF Expected, Anchor, EndOfRun, OrderInv, WindowInv, TypeOK, Frame, Seqs
<1>6. \A t \in Sender \ {s} : released'[t] = released[t] /\ next'[t] = next[t]
  BY <1>1, <1>2 DEF OrderInv, WindowInv, TypeOK
<1>7. CASE GapExceeded(n, rest)
  <2>1. PICK top \in SeqsOf(rest) : /\ \A m \in SeqsOf(rest) : m <= top
                                    /\ next' = [next EXCEPT ![s] = Past(top)]
    BY <1>2, <1>7
  <2>2. next'[s] = top + 1 /\ released'[s] = released[s] \cup avail
    BY <1>1, <1>2, <1>7, <2>1 DEF OrderInv, WindowInv, TypeOK, Past
  <2>3. top \in Nat /\ top >= n
    BY <1>3, <2>1 DEF SeqsOf
  <2>4. \A g \in avail : g.seq < top + 1
    <3>1. n \in Nat
      BY ConstantsAssumption
    <3>2. \A g \in rest : g.seq <= top
      BY <2>1 DEF SeqsOf
    <3>3. QED
      BY <1>3, <2>3, <3>1, <3>2
  <2>5. \A g \in released[s] : g.seq < top + 1
    <3>1. n \in Nat
      BY ConstantsAssumption
    <3>2. QED
      BY <1>4, <1>5, <2>3, <3>1
  <2>6. \A g \in released'[s] \ released[s] : g.seq >= Expected(f)
    BY <1>3, <2>2
  <2>7. \A g \in released'[s] : g.seq < next'[s]
    BY <2>2, <2>4, <2>5
  <2>8. QED
    BY <1>6, <2>6, <2>7
<1>8. CASE ~GapExceeded(n, rest)
  <2>1. next'[s] = n /\ released'[s] = released[s] \cup run
    BY <1>1, <1>2, <1>8 DEF OrderInv, WindowInv, TypeOK
  <2>2. QED
    BY <1>3, <1>4, <1>5, <1>6, <2>1
<1>9. QED
  BY <1>7, <1>8

LEMMA OrderStep ==
  ASSUME WindowInv', OrderInv, [Next]_vars
  PROVE  /\ ReleasedBelow'
         /\ \A s \in Sender :
              s \in tracked /\ s \in tracked' =>
                \A f \in released'[s] \ released[s], g \in released[s] : f.seq > g.seq
<1>1. CASE UNCHANGED <<next, released>>
  BY <1>1 DEF OrderInv, ReleasedBelow
<1>2. CASE \E s \in Sender : Sweep(s)
  BY <1>2 DEF Sweep, OrderInv, WindowInv, TypeOK, ReleasedBelow
<1>3. CASE \E f \in wire : PushOrdered(f)
  <2>1. PICK f \in wire : PushOrdered(f)
    BY <1>3
  <2>2. f.from \in Sender
    BY DEF OrderInv, WindowInv, TypeOK, Frame
  <2>3. ReleasedBelow'
    BY <2>1, <2>2, PushOrderedReleases DEF OrderInv, ReleasedBelow
  <2>4. ASSUME f.from \in tracked,
               NEW g \in released'[f.from] \ released[f.from], NEW h \in released[f.from]
        PROVE  g.seq > h.seq
    <3>1. g.seq >= next[f.from] /\ h.seq < next[f.from]
      BY <2>1, <2>2, <2>4, PushOrderedReleases DEF OrderInv, ReleasedBelow, Expected
    <3>2. g.seq \in Nat /\ h.seq \in Nat /\ next[f.from] \in Nat
      BY <2>2 DEF OrderInv, WindowInv, TypeOK, Frame, Seqs
    <3>3. QED
      BY <3>1, <3>2
  <2>5. \A t \in Sender \ {f.from} : released'[t] = released[t]
    BY <2>1, PushOrderedReleases
  <2>6. QED
    BY <2>3, <2>4, <2>5
<1>4. QED
  BY <1>1, <1>2, <1>3
     DEF Next, Stream, Push, vars, Emit, Rejoin, Lose, PushPlain, PushDuplicate

\* Until a sender idles out, everything released for it by one push lies
\* above everything released for it before.
THEOREM OrderSafe == Spec => ReleasedRising
<1>1. Init => OrderInv
  BY ConstantsAssumption
     DEF Init, OrderInv, WindowInv, TypeOK, UntrackedEmpty, WindowBounded, ReleasedBelow
<1>2. WindowInv' /\ OrderInv /\ [Next]_vars => OrderInv'
  BY OrderStep DEF OrderInv
<1>3. WindowInv' /\ OrderInv /\ [Next]_vars =>
        [\A s \in Sender :
           s \in tracked /\ s \in tracked' =>
             \A f \in released'[s] \ released[s], g \in released[s] : f.seq > g.seq]_vars
  BY OrderStep
<1>4. QED
  BY <1>1, <1>2, <1>3, WindowHolds, PTL DEF Spec, ReleasedRising

-----------------------------------------------------------------------------
(* The buffer implements FIFO delivery.                                    *)

\* One session of ordered frames per sender, nobody idles out, and no gap in
\* the stream can reach maxGap.
OneStream == /\ MaxSess = 1
             /\ Kind = {"ordered"}
             /\ Sweeping = FALSE
             /\ MaxSeq < MaxGap

\* The consumer has exactly the numbers below `next', all of them sent; what
\* is in flight or waiting was sent as well.
PrefixInv ==
  /\ \A s \in Sender : /\ SeqsOf(released[s]) = 0 .. next[s] - 1
                       /\ next[s] <= emitted[s]
                       /\ s \notin tracked => next[s] = 0
                       /\ \A f \in held[s] : f.seq < emitted[s]
  /\ \A f \in wire : f.seq < emitted[f.from]

LEMMA PushOrderedIsDeliver ==
  ASSUME OneStream, WindowInv, WindowInv', PrefixInv, NEW f \in wire, PushOrdered(f)
  PROVE  /\ PrefixInv'
         /\ [Fifo!Next]_(Fifo!vars)
<1> DEFINE s == f.from
           avail == held[s] \cup {f}
           got == [t \in Sender |-> SeqsOf(released[t])]
<1>1. f \in Frame /\ s \in Sender /\ avail \subseteq Frame
  BY DEF WindowInv, TypeOK, Frame
<1>2. PICK n \in 0 .. MaxSeq + 1 :
        /\ EndOfRun(Expected(f), SeqsOf(avail), n)
        /\ LET run  == {g \in avail : g.seq < n}
               rest == avail \ run
           IN IF GapExceeded(n, rest)
                THEN /\ \E top \in SeqsOf(rest) :
                          /\ \A m \in SeqsOf(rest) : m <= top
                          /\ next' = [next EXCEPT ![s] = Past(top)]
                     /\ held' = [held EXCEPT ![s] = {}]
                     /\ released' = [released EXCEPT ![s] = @ \cup avail]
                ELSE /\ next' = [next EXCEPT ![s] = n]
                     /\ held' = [held EXCEPT ![s] = rest]
                     /\ released' = [released EXCEPT ![s] = @ \cup run]
  BY DEF PushOrdered
<1> DEFINE run == {g \in avail : g.seq < n}
           rest == avail \ run
<1>3. Expected(f) = next[s] /\ next[s] \in Nat /\ n \in Nat /\ emitted[s] \in Nat
  BY <1>1, ConstantsAssumption
     DEF OneStream, PrefixInv, Expected, Anchor, WindowInv, TypeOK, Frame, Seqs
<1>4. \A g \in avail : g.seq \in Nat /\ g.seq < emitted[s] /\ g.seq <= MaxSeq
  BY <1>1 DEF PrefixInv, Frame, Seqs
<1>5. ~GapExceeded(n, rest)
  BY <1>3, <1>4, ConstantsAssumption DEF OneStream, GapExceeded
<1>6. /\ next'[s] = n /\ held'[s] = rest /\ released'[s] = released[s] \cup run
      /\ \A t \in Sender \ {s} : /\ next'[t] = next[t] /\ held'[t] = held[t]
                                 /\ released'[t] = released[t]
  BY <1>1, <1>2, <1>5 DEF WindowInv, TypeOK
<1>7. n >= next[s] /\ \A m \in next[s] .. n - 1 : m \in SeqsOf(avail)
  BY <1>2, <1>3 DEF EndOfRun
<1>8. \A g \in avail : g.seq >= next[s]
  <2>1. f.seq >= next[s]
    BY <1>1, <1>3, <1>4 DEF PushOrdered, IsDuplicate
  <2>2. \A g \in held[s] : g.seq >= next[s]
    BY <1>1, <1>3, <1>4 DEF WindowInv, WindowBounded
  <2>3. QED
    BY <2>1, <2>2
<1>9. SeqsOf(run) = next[s] .. n - 1
  <2>1. SeqsOf(run) \subseteq next[s] .. n - 1
    BY <1>3, <1>4, <1>8 DEF SeqsOf
  <2>2. \A m \in next[s] .. n - 1 : m \in SeqsOf(run)
    BY <1>3, <1>7 DEF SeqsOf
  <2>3. QED
    BY <2>1, <2>2
<1>10. SeqsOf(released'[s]) = 0 .. n - 1
  <2>1. SeqsOf(released'[s]) = SeqsOf(released[s]) \cup SeqsOf(run)
    BY <1>6 DEF SeqsOf
  <2>2. SeqsOf(released[s]) = 0 .. next[s] - 1
    BY <1>1 DEF PrefixInv
  <2>3. (0 .. next[s] - 1) \cup (next[s] .. n - 1) = 0 .. n - 1
    BY <1>3, <1>7
  <2>4. QED
    BY <1>9, <2>1, <2>2, <2>3
<1>11. n <= emitted[s]
  <2>1. CASE n = next[s]
    BY <1>1, <2>1 DEF PrefixInv
  <2>2. CASE n > next[s]
    <3>1. n - 1 \in SeqsOf(avail)
      <4>1. n - 1 \in next[s] .. n - 1
        BY <1>3, <2>2
      <4>2. QED
        BY <1>7, <4>1
    <3>2. QED
      BY <1>3, <1>4, <3>1 DEF SeqsOf
  <2>3. QED
    BY <1>3, <1>7, <2>1, <2>2
<1>12. wire' \subseteq wire /\ emitted' = emitted /\ tracked' = tracked \cup {s}
  BY DEF PushOrdered, Arrives
<1>13. PrefixInv'
  BY <1>1, <1>4, <1>6, <1>10, <1>11, <1>12 DEF PrefixInv
<1>14. [Fifo!Next]_(Fifo!vars)
  <2>1. got' = [got EXCEPT ![s] = 0 .. n - 1]
    <3>1. \A t \in Sender : got'[t] = IF t = s THEN 0 .. n - 1 ELSE got[t]
      BY <1>1, <1>6, <1>10
    <3>2. QED
      BY <1>1, <3>1
  <2>2. CASE n = next[s]
    <3>1. got[s] = 0 .. n - 1
      BY <1>1, <2>2 DEF PrefixInv
    <3>2. got' = got
      BY <1>1, <2>1, <3>1
    <3>3. QED
      BY <1>12, <3>2 DEF Fifo!vars
  <2>3. CASE n > next[s]
    <3>1. n \in 1 .. emitted[s] /\ got[s] \subseteq 0 .. n - 1
      BY <1>1, <1>3, <1>11, <2>3 DEF PrefixInv
    <3>2. Fifo!Deliver(s)
      BY <1>1, <1>12, <2>1, <3>1 DEF Fifo!Deliver
    <3>3. QED
      BY <1>1, <3>2 DEF Fifo!Next
  <2>4. QED
    BY <1>3, <1>7, <2>2, <2>3
<1>15. QED
  BY <1>13, <1>14

LEMMA PrefixStep ==
  ASSUME OneStream, WindowInv, WindowInv', PrefixInv, [Next]_vars
  PROVE  PrefixInv' /\ [Fifo!Next]_(Fifo!vars)
<1>1. CASE \E s \in Sender, k \in Kind : Emit(s, k)
  <2>1. PICK s \in Sender, k \in Kind : Emit(s, k)
    BY <1>1
  <2>2. /\ emitted' = [emitted EXCEPT ![s] = @ + 1]
        /\ UNCHANGED <<tracked, next, held, released>>
        /\ \A f \in wire' : f \in wire \/ (f.from = s /\ f.seq = emitted[s])
    BY <2>1 DEF Emit
  <2>3. \A t \in Sender : emitted[t] \in Nat /\ emitted'[t] \in Nat /\ emitted[t] <= emitted'[t]
    BY <2>2 DEF WindowInv, TypeOK
  <2>4. \A t \in Sender : next[t] \in Nat /\ \A f \in held[t] : f.seq \in Nat
    BY DEF WindowInv, TypeOK, Frame, Seqs
  <2>5. \A f \in wire : f.from \in Sender /\ f.seq \in Nat
    BY DEF WindowInv, TypeOK, Frame, Seqs
  <2>6. emitted'[s] = emitted[s] + 1
    BY <2>2 DEF WindowInv, TypeOK
  <2>7. PrefixInv'
    BY <2>2, <2>3, <2>4, <2>5, <2>6 DEF PrefixInv
  <2>8. Fifo!Send(s)
    BY <2>2 DEF Fifo!Send
  <2>9. QED
    BY <2>7, <2>8 DEF Fifo!Next
<1>2. CASE \E f \in wire : PushOrdered(f)
  BY <1>2, PushOrderedIsDeliver
<1>3. CASE /\ UNCHANGED <<emitted, tracked, next, held, released>>
           /\ wire' \subseteq wire
  BY <1>3 DEF PrefixInv, Fifo!vars
<1>4. ~\E s \in Sender : Rejoin(s) \/ Sweep(s)
  BY DEF Rejoin, Sweep, OneStream, WindowInv, TypeOK
<1>5. QED
  BY <1>1, <1>2, <1>3, <1>4
     DEF Next, Stream, Push, vars, Lose, PushPlain, PushDuplicate, Arrives

\* For such a stream the buffer gives its consumer exactly what FIFO delivery
\* promises, however the channel reorders, repeats or loses frames.
THEOREM ImplementsFifo == OneStream => (Spec => FifoSpec)
<1> SUFFICES ASSUME OneStream PROVE Spec => FifoSpec
  OBVIOUS
<1>1. Init => PrefixInv /\ Fifo!Init
  <2>1. Init => \A s \in Sender : SeqsOf(released[s]) = {}
    BY DEF Init, SeqsOf
  <2>2. QED
    BY <2>1, ConstantsAssumption DEF Init, PrefixInv, Fifo!Init
<1>2. WindowInv /\ WindowInv' /\ PrefixInv /\ [Next]_vars => PrefixInv' /\ [Fifo!Next]_(Fifo!vars)
  BY PrefixStep
<1>3. QED
  BY <1>1, <1>2, WindowHolds, PTL DEF Spec, FifoSpec, Fifo!Spec

\* With one session and one kind a frame is known by its sender and its number.
LEMMA FrameByNumber ==
  ASSUME OneStream, NEW f \in Frame, NEW g \in Frame, f.from = g.from, f.seq = g.seq
  PROVE  f = g
<1>1. \A h \in Frame : /\ h = [from |-> h.from, sess |-> h.sess, seq |-> h.seq, kind |-> h.kind]
                       /\ h.sess \in 1 .. MaxSess /\ h.kind \in Kind
  BY DEF Frame
<1>2. f.sess = g.sess /\ f.kind = g.kind
  BY <1>1 DEF OneStream
<1> QED
  BY <1>1, <1>2

DropInv ==
  /\ \A s \in Sender : \A f \in released[s] : f.from = s
  /\ DropsAreDuplicates

LEMMA DropStep ==
  ASSUME OneStream, WindowInv, PrefixInv, DropInv, [Next]_vars
  PROVE  DropInv'
<1>1. ASSUME NEW f \in wire, PushOrdered(f)
      PROVE  DropInv'
  <2> DEFINE s == f.from
             avail == held[s] \cup {f}
  <2>1. s \in Sender /\ \A g \in avail : g.from = s
    BY DEF WindowInv, TypeOK, Frame, WindowBounded
  <2>2. /\ dropped' = dropped
        /\ \A t \in Sender \ {s} : released'[t] = released[t] /\ held'[t] = held[t]
        /\ released[s] \subseteq released'[s] /\ released'[s] \subseteq released[s] \cup avail
        /\ held[s] \subseteq released'[s] \cup held'[s]
    <3>1. PICK n \in 0 .. MaxSeq + 1 :
            LET run  == {g \in avail : g.seq < n}
                rest == avail \ run
            IN \/ /\ held' = [held EXCEPT ![s] = {}]
                  /\ released' = [released EXCEPT ![s] = @ \cup avail]
               \/ /\ held' = [held EXCEPT ![s] = rest]
                  /\ released' = [released EXCEPT ![s] = @ \cup run]
      BY <1>1 DEF PushOrdered
    <3> QED
      BY <1>1, <2>1, <3>1 DEF PushOrdered, WindowInv, TypeOK
  <2>3. \A t \in Sender : \A g \in released'[t] : g.from = t
    BY <2>1, <2>2 DEF DropInv
  <2>4. \A t \in Sender : released[t] \cup held[t] \subseteq released'[t] \cup held'[t]
    BY <2>2
  <2> QED
    BY <2>2, <2>3, <2>4 DEF DropInv, DropsAreDuplicates
<1>2. ASSUME NEW f \in wire, PushDuplicate(f)
      PROVE  DropInv'
  <2>1. f \in Frame /\ f.from \in Sender /\ f.seq \in Nat
    BY DEF WindowInv, TypeOK, Frame, Seqs
  <2>2. Expected(f) = next[f.from]
    BY <2>1, ConstantsAssumption
       DEF OneStream, PrefixInv, Expected, Anchor, WindowInv, TypeOK, Frame, Seqs
  <2>3. CASE f.seq < next[f.from]
    <3>1. f.seq \in SeqsOf(released[f.from])
      BY <2>1, <2>3 DEF PrefixInv, WindowInv, TypeOK
    <3>2. PICK g \in released[f.from] : g.seq = f.seq
      BY <3>1 DEF SeqsOf
    <3>3. g \in Frame /\ g.from = f.from
      BY <2>1, <3>2 DEF DropInv, WindowInv, TypeOK
    <3>4. f \in released[f.from]
      BY <2>1, <3>2, <3>3, FrameByNumber
    <3> QED
      BY <1>2, <2>1, <3>4 DEF PushDuplicate, DropInv, DropsAreDuplicates
  <2>4. CASE f.seq \in SeqsOf(held[f.from])
    <3>1. PICK g \in held[f.from] : g.seq = f.seq
      BY <2>4 DEF SeqsOf
    <3>2. g \in Frame /\ g.from = f.from
      BY <2>1, <3>1 DEF WindowInv, WindowBounded, TypeOK
    <3>3. f \in held[f.from]
      BY <2>1, <3>1, <3>2, FrameByNumber
    <3> QED
      BY <1>2, <2>1, <3>3 DEF PushDuplicate, DropInv, DropsAreDuplicates
  <2> QED
    BY <1>2, <2>2, <2>3, <2>4 DEF PushDuplicate, IsDuplicate
<1>3. CASE UNCHANGED <<held, released, dropped>>
  BY <1>3 DEF DropInv, DropsAreDuplicates
<1>4. ~\E s \in Sender : Rejoin(s) \/ Sweep(s)
  BY DEF Rejoin, Sweep, OneStream, WindowInv, TypeOK
<1> QED
  BY <1>1, <1>2, <1>3, <1>4 DEF Next, Stream, Push, vars, Emit, Lose, PushPlain

\* In such a stream push() throws away nothing but duplicates: every frame it
\* discards has been released or waits to be.
THEOREM DropsSafe == OneStream => (Spec => []DropsAreDuplicates)
<1> SUFFICES ASSUME OneStream PROVE Spec => []DropsAreDuplicates
  OBVIOUS
<1>1. Init => PrefixInv /\ DropInv
  <2>1. Init => \A s \in Sender : SeqsOf(released[s]) = {}
    BY DEF Init, SeqsOf
  <2> QED
    BY <2>1, ConstantsAssumption DEF Init, PrefixInv, DropInv, DropsAreDuplicates
<1>2. WindowInv /\ WindowInv' /\ PrefixInv /\ DropInv /\ [Next]_vars => PrefixInv' /\ DropInv'
  BY PrefixStep, DropStep
<1>3. DropInv => DropsAreDuplicates
  BY DEF DropInv
<1> QED
  BY <1>1, <1>2, <1>3, WindowHolds, PTL DEF Spec

-----------------------------------------------------------------------------
(* The Room behind the buffer.                                             *)

\* A nonempty bounded set of numbers has a largest element.
LEMMA MaxExists ==
  ASSUME NEW m \in Nat, NEW S, \A x \in S : x \in 0 .. m, S # {}
  PROVE  \E x \in S : \A y \in S : y <= x
<1> DEFINE T == {m - x : x \in S}
           R == {ss \in Nat \X Nat : ss[1] < ss[2]}
<1>1. IsWellFoundedOn(R, Nat)
  BY NatLessThanWellFounded DEF OpToRel
<1>2. \A x \in S : x \in Nat /\ m - x \in Nat
  OBVIOUS
<1>3. T \subseteq Nat /\ T # {}
  BY <1>2
<1>4. PICK t \in T : \A y \in T : ~(<<y, t>> \in R)
  <2> HIDE DEF T, R
  <2> QED
    BY <1>1, <1>3, WFMin
<1>5. PICK x \in S : t = m - x
  BY <1>4
<1>6. \A y \in S : y <= x
  <2> TAKE y \in S
  <2>1. m - y \in T /\ t \in Nat /\ m - y \in Nat
    BY <1>3, <1>4
  <2>2. ~(m - y < t)
    BY <2>1, <1>4
  <2> QED
    BY <2>1, <2>2, <1>2, <1>5
<1> QED
  BY <1>6

-----------------------------------------------------------------------------
\* The composition takes only steps of the buffer.
LEMMA InboundIsBuffer == InSpec => Spec
<1>1. InInit => Init
  BY DEF InInit
<1>2. [InNext]_allVars => [Next]_vars
  BY DEF InNext, Receive, ReceivePlain, ReceiveDuplicate, ReceiveOrdered, Next, Stream, Push,
         allVars
<1>3. QED
  BY <1>1, <1>2, PTL DEF InSpec, Spec

\* The inductive invariant: what was handled are envelopes, none of them twice,
\* and every session's window stands at the last of its own.
HandledInv ==
  /\ handled \subseteq Frame
  /\ lastSeq \in [Session -> -1 .. MaxSeq]
  /\ HandledOnce
  /\ WindowIsNewestHandled

\* What a step of the Room may do to what it has handled.
HandledStep ==
  /\ \A f \in handled' \ handled, g \in handled :
       SessionOf(f) = SessionOf(g) => f.seq > g.seq
  /\ HandledOnce' /\ WindowIsNewestHandled'

\* The fan-out of any set of frames keeps the windows right: what accept()
\* takes lies above everything handled from its session.
LEMMA DispatchKeeps ==
  ASSUME HandledInv, NEW out, out \subseteq Frame, Dispatch(out)
  PROVE  HandledInv' /\ HandledStep
<1> DEFINE taken == {f \in out : Newer(f)}
           top(k) == {f.seq : f \in {g \in taken : SessionOf(g) = k}}
<1>1. /\ handled' = handled \cup taken
      /\ repeated' = repeated \cup (handled \cap taken)
      /\ lastSeq' = [k \in Session |->
                       IF top(k) = {} THEN lastSeq[k]
                       ELSE CHOOSE m \in top(k) : \A n \in top(k) : n <= m]
  BY DEF Dispatch
<1>2. \A f \in Frame : SessionOf(f) \in Session /\ f.seq \in 0 .. MaxSeq
  BY DEF Frame, Seqs, SessionOf, Session
<1>3. taken \subseteq Frame /\ handled' \subseteq Frame
  BY <1>1 DEF HandledInv
<1>4. \A k \in Session : lastSeq[k] \in -1 .. MaxSeq
  BY DEF HandledInv
<1>5. \A f \in handled : f.seq <= lastSeq[SessionOf(f)]
  BY <1>2 DEF HandledInv, WindowIsNewestHandled
<1>6. \A f \in taken : f.seq > lastSeq[SessionOf(f)]
  BY DEF Newer
<1>7. \A f \in taken, g \in handled : SessionOf(f) = SessionOf(g) => f.seq > g.seq
  <2> TAKE f \in taken, g \in handled
  <2> HAVE SessionOf(f) = SessionOf(g)
  <2>1. f \in Frame /\ g \in Frame
    BY <1>3 DEF HandledInv
  <2>2. f.seq \in Int /\ g.seq \in Int /\ lastSeq[SessionOf(f)] \in Int
    BY <1>2, <1>4, <2>1, ConstantsAssumption
  <2> QED
    BY <1>5, <1>6, <2>2
<1>8. handled \cap taken = {}
  <2>1. \A f \in handled : f.seq \in Int
    BY <1>2, ConstantsAssumption DEF HandledInv
  <2> QED
    BY <1>7, <2>1
<1>9. HandledOnce'
  BY <1>1, <1>8 DEF HandledInv, HandledOnce
<1>10. \A k \in Session : \A n \in top(k) : n \in 0 .. MaxSeq
  BY <1>2, <1>3
<1>11. ASSUME NEW k \in Session
       PROVE  /\ lastSeq'[k] \in -1 .. MaxSeq
              /\ \/ lastSeq'[k] = -1 /\ ~\E f \in handled' : SessionOf(f) = k
                 \/ /\ \E f \in handled' : SessionOf(f) = k /\ f.seq = lastSeq'[k]
                    /\ \A f \in handled' : SessionOf(f) = k => f.seq <= lastSeq'[k]
  <2>1. CASE top(k) = {}
    <3>1. lastSeq'[k] = lastSeq[k]
      BY <1>1, <2>1
    <3>2. \A f \in taken : SessionOf(f) # k
      BY <2>1
    <3> QED
      BY <1>1, <1>4, <3>1, <3>2 DEF HandledInv, WindowIsNewestHandled
  <2>2. CASE top(k) # {}
    <3>1. \E x \in top(k) : \A y \in top(k) : y <= x
      <4> HIDE DEF top
      <4> QED
        BY <1>10, <2>2, MaxExists, ConstantsAssumption
    <3>2. lastSeq'[k] \in top(k) /\ \A n \in top(k) : n <= lastSeq'[k]
      <4> HIDE DEF top
      <4> QED
        BY <1>1, <2>2, <3>1
    <3>3. PICK f \in taken : SessionOf(f) = k /\ f.seq = lastSeq'[k]
      BY <3>2
    <3>4. \A g \in taken : SessionOf(g) = k => g.seq <= lastSeq'[k]
      BY <3>2
    <3>5. \A g \in handled : SessionOf(g) = k => g.seq <= lastSeq'[k]
      <4> TAKE g \in handled
      <4>1. f.seq \in Int /\ g.seq \in Int
        BY <1>2, <1>3, ConstantsAssumption DEF HandledInv
      <4> QED
        BY <1>7, <3>3, <4>1
    <3>6. lastSeq'[k] \in -1 .. MaxSeq
      BY <1>2, <1>3, <3>3, ConstantsAssumption
    <3> QED
      BY <1>1, <3>3, <3>4, <3>5, <3>6
  <2> QED
    BY <2>1, <2>2
<1>12. WindowIsNewestHandled'
  BY <1>11 DEF WindowIsNewestHandled, SessionOf, Session
<1>13. lastSeq' \in [Session -> -1 .. MaxSeq]
  BY <1>1, <1>11
<1>14. \A f \in handled' \ handled, g \in handled :
         SessionOf(f) = SessionOf(g) => f.seq > g.seq
  BY <1>1, <1>7
<1> QED
  BY <1>3, <1>9, <1>12, <1>13, <1>14 DEF HandledInv, HandledStep

LEMMA HandledKept ==
  ASSUME TypeOK, TypeOK', HandledInv, [InNext]_allVars
  PROVE  HandledInv' /\ HandledStep
<1>1. CASE UNCHANGED inVars
  BY <1>1 DEF inVars, HandledInv, HandledStep, HandledOnce, WindowIsNewestHandled, SessionOf,
              Session
<1>2. ASSUME NEW f \in wire, ReceivePlain(f)
      PROVE  HandledInv' /\ HandledStep
  BY <1>2, DispatchKeeps DEF ReceivePlain, TypeOK
<1>3. ASSUME NEW f \in wire, ReceiveOrdered(f)
      PROVE  HandledInv' /\ HandledStep
  <2>1. released'[f.from] \ released[f.from] \subseteq Frame
    BY DEF TypeOK, Frame
  <2> QED
    BY <1>3, <2>1, DispatchKeeps DEF ReceiveOrdered
<1> QED
  BY <1>1, <1>2, <1>3 DEF InNext, Receive, ReceiveDuplicate, allVars

\* The Room handles each envelope at most once and those of one session in
\* rising order, and its window never lags behind: whatever the channel
\* reorders, repeats or loses, and although the buffer in front is keyed by
\* sender where the window is keyed by session, and forgets a sender that
\* idles out.
THEOREM HandledInOrder == InSpec => HandledRising
<1>1. InInit => HandledInv
  BY ConstantsAssumption DEF InInit, HandledInv, HandledOnce, WindowIsNewestHandled
<1>2. TypeOK /\ TypeOK' /\ HandledInv /\ [InNext]_allVars => HandledInv'
  BY HandledKept
<1>3. TypeOK /\ TypeOK' /\ HandledInv /\ [InNext]_allVars => [HandledStep]_allVars
  BY HandledKept
<1>4. HandledStep <=>
        /\ \A f \in handled' \ handled, g \in handled :
             SessionOf(f) = SessionOf(g) => f.seq > g.seq
        /\ HandledOnce' /\ WindowIsNewestHandled'
  BY DEF HandledStep
<1> QED
  BY <1>1, <1>2, <1>3, <1>4, InboundIsBuffer, TypeCorrect, PTL DEF InSpec, HandledRising
=============================================================================
