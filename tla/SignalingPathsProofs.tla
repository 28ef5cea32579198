------------------------ MODULE SignalingPathsProofs ------------------------
(***************************************************************************)
(* Proofs about SignalingPaths: over two paths the Room is handed every    *)
(* sender's envelopes in rising order (HandedRising), and a reconnect      *)
(* costs nothing but what its replay did not ask for (PathsRecover).       *)
(*                                                                         *)
(* The invariant is PathsInv: types, a log whose numbers are bounded, so   *)
(* that what a replay hands over can be put in order (Ascending, Top); the *)
(* window stands at or above all that was handed over (Handed); where a    *)
(* Room may be subscribed at each point of its life (Seats); the one call  *)
(* a reconnect belongs to (OneEach); where each logged envelope is         *)
(* (AllCaught).                                                            *)
(***************************************************************************)
EXTENDS SignalingPaths, FiniteSetTheorems, SequenceTheorems, TLAPS

-----------------------------------------------------------------------------
(* Numbers in order.                                                       *)

\* What is smaller has a smaller rank, and ranks are below the size of the set.
LEMMA RankRises ==
  ASSUME NEW S \in SUBSET Int, IsFiniteSet(S), NEW n \in S
  PROVE  /\ Rank(S, n) \in Nat /\ Rank(S, n) < Cardinality(S) /\ Cardinality(S) \in Nat
         /\ \A m \in S : n < m => Rank(S, n) < Rank(S, m)
<1>1. \A m \in S : /\ IsFiniteSet({k \in S : k < m}) /\ Cardinality({k \in S : k < m}) \in Nat
                   /\ Cardinality({k \in S : k < m}) =< Cardinality(S)
                   /\ Cardinality({k \in S : k < m}) # Cardinality(S)
  <2>1. SUFFICES ASSUME NEW m \in S
                 PROVE  /\ IsFiniteSet({k \in S : k < m}) /\ Cardinality({k \in S : k < m}) \in Nat
                        /\ Cardinality({k \in S : k < m}) =< Cardinality(S)
                        /\ Cardinality({k \in S : k < m}) # Cardinality(S)
    OBVIOUS
  <2> DEFINE T == {k \in S : k < m}
  <2>2. T \in SUBSET S /\ T # S
    <3>1. m \in S /\ m \notin T
      OBVIOUS
    <3> QED
      BY <3>1
  <2> HIDE DEF T
  <2>3. IsFiniteSet(T) /\ Cardinality(T) =< Cardinality(S) /\ Cardinality(T) # Cardinality(S)
    BY <2>2, FS_Subset
  <2>4. Cardinality(T) \in Nat
    BY <2>3, FS_CardinalityType
  <2> QED
    BY <2>3, <2>4 DEF T
<1>2. Cardinality(S) \in Nat
  BY FS_CardinalityType
<1>3. ASSUME NEW m \in S, n < m PROVE Rank(S, n) < Rank(S, m)
  <2> DEFINE A == {k \in S : k < n}
             B == {k \in S : k < m}
  <2>1. A \in SUBSET B
    <3>1. \A x \in S : x \in Int
      OBVIOUS
    <3>2. \A x \in S : x < n => x < m
      BY <1>3, <3>1
    <3> QED
      BY <3>2
  <2>2. n \in B /\ n \notin A
    BY <1>3
  <2>3. IsFiniteSet(B) /\ Cardinality(A) \in Nat /\ Cardinality(B) \in Nat
    BY <1>1
  <2>6. Rank(S, n) = Cardinality(A) /\ Rank(S, m) = Cardinality(B)
    BY DEF Rank
  <2> HIDE DEF A, B
  <2>4. Cardinality(A) =< Cardinality(B) /\ (Cardinality(A) = Cardinality(B) => A = B)
    BY <2>1, <2>3, FS_Subset
  <2>5. Cardinality(A) < Cardinality(B)
    BY <2>2, <2>3, <2>4
  <2> QED
    BY <2>5, <2>6
<1>4. Rank(S, n) \in Nat /\ Rank(S, n) =< Cardinality(S) /\ Rank(S, n) # Cardinality(S)
  BY <1>1 DEF Rank
<1> QED
  BY <1>2, <1>3, <1>4

\* Every rank is taken.
LEMMA RankTaken ==
  ASSUME NEW S \in SUBSET Int, IsFiniteSet(S), NEW i \in 1 .. Cardinality(S)
  PROVE  \E n \in S : Rank(S, n) = i - 1
<1> DEFINE f == [n \in S |-> Rank(S, n) + 1]
           T == 1 .. Cardinality(S)
<1>1. Cardinality(S) \in Nat
  BY FS_CardinalityType
<1>2. IsFiniteSet(T) /\ Cardinality(T) = Cardinality(S)
  <2>1. 1 \in Int /\ Cardinality(S) \in Int
    BY <1>1
  <2>2. IsFiniteSet(1 .. Cardinality(S)) /\
        Cardinality(1 .. Cardinality(S)) = IF 1 > Cardinality(S) THEN 0 ELSE Cardinality(S) - 1 + 1
    BY <2>1, FS_Interval
  <2> QED
    BY <1>1, <2>2
<1>3. f \in [S -> T]
  <2>1. ASSUME NEW n \in S PROVE Rank(S, n) + 1 \in T
    BY RankRises
  <2> QED
    BY <2>1
<1>4. \A a, b \in S : f[a] = f[b] => a = b
  <2>1. SUFFICES ASSUME NEW a \in S, NEW b \in S, f[a] = f[b], a # b PROVE FALSE
    OBVIOUS
  <2>2. Rank(S, a) \in Nat /\ Rank(S, b) \in Nat
    BY RankRises
  <2>3. Rank(S, a) = Rank(S, b)
    BY <2>1, <2>2
  <2>4. a \in Int /\ b \in Int
    OBVIOUS
  <2>5. CASE a < b
    BY <2>2, <2>3, <2>5, RankRises
  <2>6. CASE b < a
    BY <2>2, <2>3, <2>6, RankRises
  <2> QED
    BY <2>1, <2>4, <2>5, <2>6
<1>5. f \in Injection(S, T)
  BY <1>3, <1>4 DEF Injection, IsInjective
<1> HIDE DEF f, T
<1>6. f \in Surjection(S, T)
  BY <1>2, <1>5, FS_Injection
<1>7. PICK n \in S : f[n] = i
  BY <1>6 DEF Surjection, T
<1>8. Rank(S, n) \in Nat
  BY RankRises
<1>9. f[n] = Rank(S, n) + 1
  BY DEF f
<1> QED
  BY <1>7, <1>8, <1>9

\* Ascending lists members of the set, each larger than the one before.
LEMMA AscendingRises ==
  ASSUME NEW S \in SUBSET Int, IsFiniteSet(S)
  PROVE  /\ Ascending(S) \in Seq(S) /\ Len(Ascending(S)) \in Nat
         /\ \A i \in 1 .. Len(Ascending(S)) : Ascending(S)[i] \in S
         /\ \A i, j \in 1 .. Len(Ascending(S)) : i < j => Ascending(S)[i] < Ascending(S)[j]
<1> DEFINE w == Ascending(S)
<1>1. Cardinality(S) \in Nat
  BY FS_CardinalityType
<1>2. \A i \in 1 .. Cardinality(S) : w[i] \in S /\ Rank(S, w[i]) = i - 1
  <2>1. SUFFICES ASSUME NEW i \in 1 .. Cardinality(S) PROVE w[i] \in S /\ Rank(S, w[i]) = i - 1
    OBVIOUS
  <2>2. w[i] = CHOOSE n \in S : Rank(S, n) = i - 1
    BY DEF Ascending
  <2> QED
    BY <2>2, RankTaken
<1>3. w \in [1 .. Cardinality(S) -> S]
  <2>1. w = [i \in 1 .. Cardinality(S) |-> w[i]]
    BY DEF Ascending
  <2> QED
    BY <1>2, <2>1
<1> HIDE DEF w
<1>4. w \in Seq(S) /\ Len(w) = Cardinality(S)
  BY <1>1, <1>3
<1>5. ASSUME NEW i \in 1 .. Cardinality(S), NEW j \in 1 .. Cardinality(S), i < j
      PROVE  w[i] < w[j]
  <2>1. w[i] \in S /\ w[j] \in S /\ Rank(S, w[i]) = i - 1 /\ Rank(S, w[j]) = j - 1
    BY <1>2
  <2>2. w[i] \in Int /\ w[j] \in Int /\ i \in Int /\ j \in Int
    <3>1. \A x \in S : x \in Int
      OBVIOUS
    <3>2. w[i] \in Int /\ w[j] \in Int
      BY <2>1, <3>1
    <3>3. i \in Int /\ j \in Int
      BY <1>1
    <3> QED
      BY <3>2, <3>3
  <2>3. w[i] # w[j]
    BY <1>5, <2>1, <2>2
  <2>4. ~(w[j] < w[i])
    BY <1>5, <2>1, <2>2, RankRises
  <2> QED
    BY <2>2, <2>3, <2>4
<1> QED
  BY <1>1, <1>2, <1>4, <1>5 DEF w

\* The largest of a finite set exists.
LEMMA TopIs ==
  ASSUME NEW S \in SUBSET Int, IsFiniteSet(S), NEW m \in Int
  PROVE  /\ Top(S, m) \in Int /\ Top(S, m) \in S \cup {m}
         /\ Top(S, m) >= m /\ \A k \in S : k =< Top(S, m)
<1> DEFINE T == S \cup {m}
<1>1. IsFiniteSet(T)
  BY FS_AddElement
<1>2. T \in SUBSET Int /\ T # {}
  OBVIOUS
<1> HIDE DEF T
<1>3. Cardinality(T) \in Nat /\ Cardinality(T) # 0
  BY <1>1, <1>2, FS_CardinalityType, FS_EmptySet
<1>4. PICK n \in T : Rank(T, n) = Cardinality(T) - 1
  <2>1. Cardinality(T) \in 1 .. Cardinality(T)
    BY <1>3
  <2> QED
    BY <1>1, <1>2, <2>1, RankTaken
<1>5. \A k \in T : k =< n
  <2>1. SUFFICES ASSUME NEW k \in T, ~(k =< n) PROVE FALSE
    OBVIOUS
  <2>2. n < k
    BY <1>2, <2>1
  <2>3. Rank(T, n) < Rank(T, k) /\ Rank(T, k) < Cardinality(T) /\ Rank(T, k) \in Nat
    BY <1>1, <1>2, <2>2, RankRises
  <2> QED
    BY <1>3, <1>4, <2>3
<1>6. Top(S, m) \in T /\ \A k \in T : k =< Top(S, m)
  <2>1. Top(S, m) = CHOOSE x \in T : \A k \in T : k =< x
    BY DEF Top, T
  <2> QED
    BY <1>5, <2>1
<1> QED
  BY <1>2, <1>6 DEF T

-----------------------------------------------------------------------------
(* Types of the variables.                                                 *)

Stage == {"out", "joining", "in", "leaving", "left"}
Envelope == [from : Peer, seq : Nat]
Conn == [room : BOOLEAN, closed : BOOLEAN, handlers : BOOLEAN, lastSeq : Int]
Loop == [at : {"idle", "backoff", "replay"}, attempt : Int, since : Int]
Call == [seq : Nat, at : {"waits", "retry", "fallback"}]

MailTypes ==
  /\ wire \in [Path -> [Peer -> Seq(Envelope)]] /\ log \in SUBSET Envelope
  /\ owed \in [Peer -> SUBSET Envelope]
RoomTypes ==
  /\ stage \in [Peer -> Stage] /\ up \in [Path -> SUBSET Peer]
  /\ bound \in [Peer -> BOOLEAN] /\ seq \in [Peer -> Nat]
  /\ synced \in [Peer -> BOOLEAN] /\ raced \in [Peer -> BOOLEAN]
LoopTypes ==
  /\ conn \in [Peer -> Conn] /\ rc \in [Peer -> Loop] /\ asked \in [Peer -> Int]
  /\ emits \in [Peer -> SUBSET Call]
SeenTypes ==
  /\ win \in [Peer -> [Peer -> Int]] /\ got \in [Peer -> [Peer -> Seq(Nat)]]
Types == MailTypes /\ RoomTypes /\ LoopTypes /\ SeenTypes

\* Numbers in the log are bounded: at any time it is finite.
Bounded == \E n \in Nat : \A e \in log : e.seq < n

\* The numbers of some logged envelopes.
LEMMA NumbersFinite ==
  ASSUME MailTypes, Bounded, NEW M \in SUBSET log
  PROVE  /\ {e.seq : e \in M} \in SUBSET Nat /\ IsFiniteSet({e.seq : e \in M})
         /\ {e.seq : e \in M} \in SUBSET Int
<1> DEFINE S == {e.seq : e \in M}
<1>1. PICK n \in Nat : \A e \in log : e.seq < n
  BY DEF Bounded
<1>2. S \in SUBSET Nat
  BY DEF MailTypes, Envelope
<1>3. \A s \in S : s =< n
  <2>1. SUFFICES ASSUME NEW e \in M PROVE e.seq =< n
    OBVIOUS
  <2>2. e.seq \in Nat /\ e.seq < n
    BY <1>1 DEF MailTypes, Envelope
  <2> QED
    BY <2>2
<1> HIDE DEF S
<1>4. IsFiniteSet(S)
  BY <1>2, <1>3, FS_BoundedSetOfNaturals
<1>5. S \in SUBSET Int
  BY <1>2
<1> QED
  BY <1>2, <1>4, <1>5 DEF S

\* What a replay hands over.
LEMMA NewFinite ==
  ASSUME MailTypes, Bounded, NEW p \in Peer, NEW q \in Peer, NEW M \in SUBSET log
  PROVE  /\ New(p, q, M) \in SUBSET Nat /\ New(p, q, M) \in SUBSET Int /\ IsFiniteSet(New(p, q, M))
         /\ \A n \in New(p, q, M) : n > win[p][q]
         /\ \A e \in M : e.from = q => e.seq \in New(p, q, M) \/ ~IsNew(p, e)
<1> DEFINE N == {d \in M : d.from = q /\ IsNew(p, d)}
<1>1. N \in SUBSET log
  OBVIOUS
<1>2. New(p, q, M) = {e.seq : e \in N}
  BY DEF New
<1>3. \A n \in New(p, q, M) : n > win[p][q]
  BY DEF New, IsNew
<1>4. \A e \in M : e.from = q => e.seq \in New(p, q, M) \/ ~IsNew(p, e)
  BY DEF New
<1> HIDE DEF N
<1> QED
  BY <1>1, <1>2, <1>3, <1>4, NumbersFinite

-----------------------------------------------------------------------------
(* What a step does to the backends.                                       *)

\* A backend carries e, or it does not.
Sends(x, e) == Carry(x, e) \/ UNCHANGED <<wire, log, owed>>

LEMMA CarryIs ==
  ASSUME Types, NEW x \in Path, NEW e \in Envelope, Carry(x, e)
  PROVE  /\ MailTypes' /\ log \subseteq log' /\ log' \subseteq log \cup {e}
         /\ \A y \in Path : \A q \in Peer :
              wire'[y][q] = wire[y][q]
                \/ (q \in up[y] /\ wire'[y][q] = Append(wire[y][q], e))
         /\ \A q \in Peer : owed'[q] = owed[q]
              \/ (/\ x = "primary" /\ stage[q] = "in" /\ owed'[q] = owed[q] \cup {e} /\ e \in log'
                  /\ q \in up["primary"] /\ q # e.from
                       => wire'["primary"][q] = Append(wire["primary"][q], e))
<1>1. wire' = [y \in Path |-> IF y = x THEN [q \in Peer |->
                 IF q \in up[x] \ {e.from} THEN Append(wire[x][q], e) ELSE wire[x][q]] ELSE wire[y]]
  BY DEF Carry, Types, MailTypes
<1>2. \A y \in Path : \A q \in Peer :
        wire'[y][q] = IF y = x /\ q \in up[x] \ {e.from} THEN Append(wire[y][q], e) ELSE wire[y][q]
  BY <1>1
<1>3. \A y \in Path : \A q \in Peer : wire[y][q] \in Seq(Envelope)
  BY DEF Types, MailTypes
<1>4. \A y \in Path : \A q \in Peer : wire'[y][q] \in Seq(Envelope)
  <2>1. ASSUME NEW y \in Path, NEW q \in Peer PROVE wire'[y][q] \in Seq(Envelope)
    <3>1. wire[y][q] \in Seq(Envelope) /\ Append(wire[y][q], e) \in Seq(Envelope)
      BY <1>3
    <3>2. wire'[y][q] = wire[y][q] \/ wire'[y][q] = Append(wire[y][q], e)
      BY <1>2
    <3> QED
      BY <3>1, <3>2
  <2> QED
    BY <2>1
<1>5. wire' \in [Path -> [Peer -> Seq(Envelope)]]
  <2>1. wire' = [y \in Path |-> [q \in Peer |-> wire'[y][q]]]
    <3>1. \A y \in Path : wire'[y] = [q \in Peer |-> wire'[y][q]]
      BY <1>1 DEF Types, MailTypes
    <3> QED
      BY <1>1, <3>1
  <2> QED
    BY <1>4, <2>1
<1>6. log' \in SUBSET Envelope /\ log \subseteq log' /\ log' \subseteq log \cup {e}
  BY DEF Carry, Types, MailTypes
<1>7. owed' \in [Peer -> SUBSET Envelope]
  BY DEF Carry, Types, MailTypes
<1>8. \A q \in Peer : owed'[q] = owed[q]
        \/ (x = "primary" /\ stage[q] = "in" /\ owed'[q] = owed[q] \cup {e} /\ e \in log')
  BY DEF Carry, Types, MailTypes
<1> QED
  BY <1>2, <1>5, <1>6, <1>7, <1>8 DEF MailTypes, Path

LEMMA SendIs ==
  ASSUME Types, NEW x \in Path, NEW e \in Envelope, Sends(x, e)
  PROVE  /\ MailTypes' /\ log \subseteq log' /\ log' \subseteq log \cup {e}
         /\ \A y \in Path : \A q \in Peer :
              wire'[y][q] = wire[y][q]
                \/ (q \in up[y] /\ wire'[y][q] = Append(wire[y][q], e))
         /\ \A q \in Peer : owed'[q] = owed[q]
              \/ (/\ x = "primary" /\ stage[q] = "in" /\ owed'[q] = owed[q] \cup {e} /\ e \in log'
                  /\ q \in up["primary"] /\ q # e.from
                       => wire'["primary"][q] = Append(wire["primary"][q], e))
<1>1. CASE Carry(x, e)
  BY <1>1, CarryIs
<1>2. CASE UNCHANGED <<wire, log, owed>>
  BY <1>2 DEF Types, MailTypes
<1> QED
  BY <1>1, <1>2 DEF Sends

\* What the three actions of emit() do to the backends.
LEMMA EmitSends ==
  ASSUME Types, NEW p \in Peer, Emit(p)
  PROVE  Sends("primary", [from |-> p, seq |-> seq[p]]) /\ [from |-> p, seq |-> seq[p]] \in Envelope
<1>1. seq[p] \in Nat
  BY DEF Types, RoomTypes
<1> QED
  BY <1>1 DEF Emit, Try, Sends, Envelope

LEMMA RetrySends ==
  ASSUME Types, NEW p \in Peer, NEW c \in emits[p], Retry(p, c)
  PROVE  Sends("primary", [from |-> p, seq |-> c.seq]) /\ [from |-> p, seq |-> c.seq] \in Envelope
<1>1. c.seq \in Nat
  BY DEF Types, LoopTypes, Call
<1> QED
  BY <1>1 DEF Retry, Try, Sends, Envelope

LEMMA FallbackSends ==
  ASSUME Types, NEW p \in Peer, NEW c \in emits[p], EmitFallback(p, c)
  PROVE  Sends("fallback", [from |-> p, seq |-> c.seq]) /\ [from |-> p, seq |-> c.seq] \in Envelope
<1>1. c.seq \in Nat
  BY DEF Types, LoopTypes, Call
<1> QED
  BY <1>1 DEF EmitFallback, Try, Sends, Envelope

-----------------------------------------------------------------------------
(* Types.                                                                  *)

\* A step of the specification is a step of one peer.
Step(p) ==
  \/ JoinPrimary(p) \/ JoinFallback(p) \/ Leave(p) \/ Left(p) \/ Emit(p) \/ Drop(p)
  \/ Attempt(p) \/ Replay(p)
  \/ \E c \in emits[p] : Retry(p, c) \/ EmitFallback(p, c)
  \/ \E x \in Path : Deliver(p, x)

LEMMA NextIs == Next => \E p \in Peer : Step(p)
BY DEF Next, Proceed, Step

LEMMA OwnerTypes ==
  ASSUME LoopTypes, NEW p \in Peer, NEW at \in {"retry", "fallback"}, Owner(p, at)
  PROVE  emits' \in [Peer -> SUBSET Call]
<1>1. \A c \in emits[p] : c \in Call
  BY DEF LoopTypes
<1>2. \A c \in Call : [c EXCEPT !.at = at] \in Call
  BY DEF Call
<1>3. {IF c.at = "waits" THEN [c EXCEPT !.at = at] ELSE c : c \in emits[p]} \in SUBSET Call
  BY <1>1, <1>2
<1> QED
  BY <1>3 DEF Owner, LoopTypes

LEMMA SilencedTypes ==
  ASSUME MailTypes, NEW x \in Path, NEW p \in Peer
  PROVE  Silenced(x, p) \in [Path -> [Peer -> Seq(Envelope)]]
<1>1. <<>> \in Seq(Envelope)
  OBVIOUS
<1> QED
  BY <1>1 DEF Silenced, MailTypes

LEMMA MailStep ==
  ASSUME Types, NEW p \in Peer, Step(p)
  PROVE  MailTypes'
<1>1. CASE JoinPrimary(p)
  BY <1>1 DEF JoinPrimary, Types, MailTypes
<1>2. CASE JoinFallback(p)
  BY <1>2 DEF JoinFallback, Types, MailTypes
<1>3. CASE Leave(p)
  BY <1>3 DEF Leave, Types, MailTypes
<1>4. CASE Left(p)
  <2>1. \A x \in Path : [wire[x] EXCEPT ![p] = <<>>] \in [Peer -> Seq(Envelope)]
    BY DEF Types, MailTypes
  <2> QED
    BY <1>4, <2>1 DEF Left, Types, MailTypes
<1>5. CASE Emit(p)
  BY <1>5, EmitSends, SendIs DEF Path
<1>6. CASE Drop(p)
  BY <1>6, SilencedTypes DEF Drop, Types, MailTypes, Path
<1>7. CASE Attempt(p)
  <2>1. wire' = wire \/ wire' = Silenced("primary", p)
    BY <1>7 DEF Attempt
  <2>2. log' = log /\ owed' = owed
    BY <1>7 DEF Attempt
  <2> QED
    BY <2>1, <2>2, SilencedTypes DEF Types, MailTypes, Path
<1>8. CASE Replay(p)
  BY <1>8 DEF Replay, Types, MailTypes
<1>9. ASSUME NEW c \in emits[p], Retry(p, c) PROVE MailTypes'
  BY <1>9, RetrySends, SendIs DEF Path
<1>10. ASSUME NEW c \in emits[p], EmitFallback(p, c) PROVE MailTypes'
  BY <1>10, FallbackSends, SendIs DEF Path
<1>11. ASSUME NEW x \in Path, Deliver(p, x) PROVE MailTypes'
  <2>1. wire[x][p] \in Seq(Envelope) /\ wire[x][p] # <<>>
    BY <1>11 DEF Deliver, Types, MailTypes
  <2>2. Tail(wire[x][p]) \in Seq(Envelope)
    BY <2>1
  <2> QED
    BY <1>11, <2>2 DEF Deliver, Types, MailTypes
<1> QED
  BY <1>1, <1>2, <1>3, <1>4, <1>5, <1>6, <1>7, <1>8, <1>9, <1>10, <1>11 DEF Step

LEMMA RoomStep ==
  ASSUME Types, NEW p \in Peer, Step(p)
  PROVE  RoomTypes'
<1>1. CASE JoinPrimary(p)
  <2>1. PICK ok \in BOOLEAN :
          /\ up' = IF ok THEN [up EXCEPT !["primary"] = @ \cup {p}] ELSE up
          /\ synced' = [synced EXCEPT ![p] = ok]
    BY <1>1 DEF JoinPrimary
  <2>2. stage' = [stage EXCEPT ![p] = "joining"] /\ UNCHANGED <<bound, seq, raced>>
    BY <1>1 DEF JoinPrimary
  <2> QED
    BY <2>1, <2>2 DEF Types, RoomTypes, Path, Stage
<1>2. CASE JoinFallback(p)
  <2>1. PICK ok \in BOOLEAN :
          /\ up' = IF ok THEN [up EXCEPT !["fallback"] = @ \cup {p}] ELSE up
          /\ stage' = [stage EXCEPT ![p] = IF ok \/ conn[p].handlers THEN "in" ELSE "out"]
          /\ bound' = [bound EXCEPT ![p] = ok \/ conn[p].handlers]
    BY <1>2 DEF JoinFallback
  <2>2. UNCHANGED <<seq, synced, raced>>
    BY <1>2 DEF JoinFallback
  <2> QED
    BY <2>1, <2>2 DEF Types, RoomTypes, Path, Stage
<1>3. CASE Leave(p)
  BY <1>3 DEF Leave, Types, RoomTypes, Stage
<1>4. CASE Left(p)
  BY <1>4 DEF Left, Types, RoomTypes, Stage, Path
<1>5. CASE Emit(p)
  BY <1>5 DEF Emit, Types, RoomTypes
<1>6. CASE Drop(p)
  BY <1>6 DEF Drop, Types, RoomTypes, Path
<1>7. CASE Attempt(p)
  <2>1. up' \in [Path -> SUBSET Peer]
    BY <1>7 DEF Attempt, Types, RoomTypes, Path
  <2>2. synced' \in [Peer -> BOOLEAN]
    BY <1>7 DEF Attempt, Types, RoomTypes
  <2>3. UNCHANGED <<stage, bound, seq, raced>>
    BY <1>7 DEF Attempt
  <2> QED
    BY <2>1, <2>2, <2>3 DEF Types, RoomTypes
<1>8. CASE Replay(p)
  BY <1>8 DEF Replay, Types, RoomTypes
<1>9. ASSUME NEW c \in emits[p], Retry(p, c) \/ EmitFallback(p, c) PROVE RoomTypes'
  BY <1>9 DEF Retry, EmitFallback, transport, Types, RoomTypes
<1>10. ASSUME NEW x \in Path, Deliver(p, x) PROVE RoomTypes'
  BY <1>10 DEF Deliver, Types, RoomTypes
<1> QED
  BY <1>1, <1>2, <1>3, <1>4, <1>5, <1>6, <1>7, <1>8, <1>9, <1>10 DEF Step

LEMMA LoopStep ==
  ASSUME Types, Bounded, NEW p \in Peer, Step(p)
  PROVE  LoopTypes'
<1>0. conn[p] \in Conn /\ rc[p] \in Loop /\ conn[p].lastSeq \in Int
  BY DEF Types, LoopTypes, Conn
<1>1. CASE JoinPrimary(p)
  <2>1. PICK ok \in BOOLEAN :
          conn' = [conn EXCEPT ![p].room = TRUE, ![p].closed = FALSE, ![p].handlers = @ \/ ok]
    BY <1>1 DEF JoinPrimary
  <2>2. (conn[p].handlers \/ ok) \in BOOLEAN
    OBVIOUS
  <2>3. conn' \in [Peer -> Conn]
    BY <1>0, <2>1, <2>2 DEF Types, LoopTypes, Conn
  <2> QED
    BY <1>1, <2>3 DEF JoinPrimary, Types, LoopTypes
<1>2. CASE JoinFallback(p)
  BY <1>2 DEF JoinFallback, Types, LoopTypes
<1>3. CASE Leave(p)
  BY <1>3 DEF Leave, Types, LoopTypes, Conn
<1>4. CASE Left(p)
  BY <1>4 DEF Left, Types, LoopTypes, Conn
<1>5. CASE Emit(p)
  <2>1. seq[p] \in Nat
    BY DEF Types, RoomTypes
  <2>2. conn' = [conn EXCEPT ![p].lastSeq = Higher(@, seq[p])] /\ asked' = asked
    BY <1>5 DEF Emit
  <2>3. conn' \in [Peer -> Conn]
    BY <2>1, <2>2 DEF Higher, Types, LoopTypes, Conn
  <2>4. UNCHANGED <<emits, rc>> \/ Reconnect(p, seq[p])
    BY <1>5 DEF Emit, Try
  <2>5. rc' \in [Peer -> Loop] /\ emits' \in [Peer -> SUBSET Call]
    BY <2>1, <2>4 DEF Reconnect, Idle, Types, LoopTypes, Loop, Call
  <2> QED
    BY <2>2, <2>3, <2>5 DEF Types, LoopTypes
<1>6. CASE Drop(p)
  BY <1>6 DEF Drop, Types, LoopTypes
<1>7. CASE Attempt(p)
  <2>1. CASE rc[p].attempt >= MaxAttempts
    <3>1. rc' = [rc EXCEPT ![p] = Idle] /\ Owner(p, "fallback") /\ UNCHANGED <<conn, asked>>
      BY <1>7, <2>1 DEF Attempt, GaveUp
    <3>2. emits' \in [Peer -> SUBSET Call]
      BY <3>1, OwnerTypes DEF Types
    <3>3. Idle \in Loop
      BY DEF Idle, Loop
    <3>4. rc' \in [Peer -> Loop]
      BY <3>1, <3>3 DEF Types, LoopTypes
    <3> QED
      BY <3>1, <3>2, <3>4 DEF Types, LoopTypes
  <2>2. CASE ~(rc[p].attempt >= MaxAttempts)
    <3>1. PICK ok \in BOOLEAN :
            /\ conn' = [conn EXCEPT ![p].handlers = @ \/ ok]
            /\ rc' = [rc EXCEPT ![p] =
                        IF ok THEN [rc[p] EXCEPT !.at = "replay", !.since = conn[p].lastSeq]
                        ELSE [rc[p] EXCEPT !.attempt = rc[p].attempt + 1]]
      BY <1>7, <2>2 DEF Attempt
    <3>2. UNCHANGED <<emits, asked>>
      BY <1>7, <2>2 DEF Attempt
    <3>3. conn' \in [Peer -> Conn]
      <4>1. (conn[p].handlers \/ ok) \in BOOLEAN
        OBVIOUS
      <4> QED
        BY <1>0, <3>1, <4>1 DEF Types, LoopTypes, Conn
    <3>4. rc' \in [Peer -> Loop]
      <4>1. rc[p].attempt + 1 \in Int
        BY <1>0 DEF Loop
      <4>2. [rc[p] EXCEPT !.at = "replay", !.since = conn[p].lastSeq] \in Loop
        BY <1>0 DEF Loop
      <4>3. [rc[p] EXCEPT !.attempt = rc[p].attempt + 1] \in Loop
        BY <1>0, <4>1 DEF Loop
      <4> DEFINE l == IF ok THEN [rc[p] EXCEPT !.at = "replay", !.since = conn[p].lastSeq]
                      ELSE [rc[p] EXCEPT !.attempt = rc[p].attempt + 1]
      <4>4. l \in Loop
        BY <4>2, <4>3
      <4>5. rc' = [rc EXCEPT ![p] = l]
        BY <3>1
      <4> HIDE DEF l
      <4> QED
        BY <4>4, <4>5 DEF Types, LoopTypes
    <3> QED
      BY <3>2, <3>3, <3>4 DEF Types, LoopTypes
  <2> QED
    BY <2>1, <2>2
<1>8. CASE Replay(p)
  <2>1. PICK ok \in BOOLEAN :
          /\ conn' = [conn EXCEPT ![p].lastSeq =
                        Top({e.seq : e \in IF ok THEN Missed(p, rc[p].since) ELSE {}}, @)]
          /\ asked' = [asked EXCEPT ![p] = IF ok THEN rc[p].since ELSE @]
    BY <1>8 DEF Replay
  <2>2. rc' = [rc EXCEPT ![p] = Idle] /\ Owner(p, "retry")
    BY <1>8 DEF Replay
  <2>3. (IF ok THEN Missed(p, rc[p].since) ELSE {}) \in SUBSET log
    BY DEF Missed
  <2>4. Top({e.seq : e \in IF ok THEN Missed(p, rc[p].since) ELSE {}}, conn[p].lastSeq) \in Int
    BY <1>0, <2>3, NumbersFinite, TopIs DEF Types
  <2>5. conn' \in [Peer -> Conn]
    BY <2>1, <2>4 DEF Types, LoopTypes, Conn
  <2>6. asked' \in [Peer -> Int]
    BY <1>0, <2>1 DEF Types, LoopTypes, Loop
  <2>7. rc' \in [Peer -> Loop]
    BY <2>2 DEF Types, LoopTypes, Loop, Idle
  <2>8. emits' \in [Peer -> SUBSET Call]
    BY <2>2, OwnerTypes DEF Types
  <2> QED
    BY <2>5, <2>6, <2>7, <2>8 DEF LoopTypes
<1>9. ASSUME NEW c \in emits[p], Retry(p, c) \/ EmitFallback(p, c) PROVE LoopTypes'
  <2>1. c \in Call /\ [c EXCEPT !.at = "fallback"] \in Call
    BY DEF Types, LoopTypes, Call
  <2>2. Done(p, c) \/ Pending(p, c, "fallback")
    BY <1>9 DEF Retry, EmitFallback, Try
  <2>3. emits' \in [Peer -> SUBSET Call]
    BY <2>1, <2>2 DEF Done, Pending, Types, LoopTypes
  <2>4. UNCHANGED <<conn, rc, asked>>
    BY <1>9 DEF Retry, EmitFallback, transport
  <2> QED
    BY <2>3, <2>4 DEF Types, LoopTypes
<1>10. ASSUME NEW x \in Path, Deliver(p, x) PROVE LoopTypes'
  <2>1. wire[x][p] \in Seq(Envelope) /\ wire[x][p] # <<>>
    BY <1>10 DEF Deliver, Types, MailTypes
  <2>2. Head(wire[x][p]).seq \in Int
    <3>1. Head(wire[x][p]) \in Envelope
      BY <2>1
    <3> QED
      BY <3>1 DEF Envelope
  <2>3. Higher(conn[p].lastSeq, Head(wire[x][p]).seq) \in Int
    BY <1>0, <2>2 DEF Higher
  <2>4. /\ conn' = conn \/ conn' = [conn EXCEPT ![p].lastSeq = Higher(@, Head(wire[x][p]).seq)]
        /\ UNCHANGED <<rc, emits, asked>>
    BY <1>10 DEF Deliver
  <2> QED
    BY <2>3, <2>4 DEF Types, LoopTypes, Conn
<1> QED
  BY <1>1, <1>2, <1>3, <1>4, <1>5, <1>6, <1>7, <1>8, <1>9, <1>10 DEF Step

-----------------------------------------------------------------------------
(* What the Room is handed.                                                *)

Alive(p) == stage[p] \in {"out", "joining", "in"}
Rises(p, q) ==
  \A i, j \in 1 .. Len(got[p][q]) : i < j => got[p][q][i] < got[p][q][j]
\* Until the Room leaves, the window stands at the last number or above it.
Covers(p, q) ==
  Alive(p) => \A i \in 1 .. Len(got[p][q]) : got[p][q][i] =< win[p][q]
Handed == \A p, q \in Peer : Rises(p, q) /\ Covers(p, q)

\* More numbers above the window, in rising order.
LEMMA AppendRises ==
  ASSUME NEW v \in Seq(Nat), NEW w \in Seq(Nat), NEW m \in Int,
         \A i, j \in 1 .. Len(v) : i < j => v[i] < v[j],
         \A i, j \in 1 .. Len(w) : i < j => w[i] < w[j],
         \A i \in 1 .. Len(v) : v[i] =< m,
         \A i \in 1 .. Len(w) : m < w[i]
  PROVE  /\ v \o w \in Seq(Nat)
         /\ \A i, j \in 1 .. Len(v \o w) : i < j => (v \o w)[i] < (v \o w)[j]
         /\ \A i \in 1 .. Len(v \o w) :
              (i \in 1 .. Len(v) /\ (v \o w)[i] = v[i])
                \/ (i - Len(v) \in 1 .. Len(w) /\ (v \o w)[i] = w[i - Len(v)])
<1> DEFINE u == v \o w
<1>1. u \in Seq(Nat) /\ Len(u) = Len(v) + Len(w) /\ Len(v) \in Nat /\ Len(w) \in Nat
  OBVIOUS
<1>2. \A i \in 1 .. Len(u) : u[i] = IF i =< Len(v) THEN v[i] ELSE w[i - Len(v)]
  OBVIOUS
<1>3. \A i \in 1 .. Len(v) : v[i] \in Int
  OBVIOUS
<1>4. \A i \in 1 .. Len(w) : w[i] \in Int
  OBVIOUS
<1> HIDE DEF u
<1>5. \A i \in 1 .. Len(u) : (i \in 1 .. Len(v) /\ u[i] = v[i])
                               \/ (i - Len(v) \in 1 .. Len(w) /\ u[i] = w[i - Len(v)])
  BY <1>1, <1>2
<1>6. ASSUME NEW i \in 1 .. Len(u), NEW j \in 1 .. Len(u), i < j
      PROVE  u[i] < u[j]
  <2>1. CASE j =< Len(v)
    <3>1. i \in 1 .. Len(v) /\ j \in 1 .. Len(v)
      BY <1>1, <1>6, <2>1
    <3>2. u[i] = v[i] /\ u[j] = v[j]
      BY <1>1, <1>2, <1>6, <2>1
    <3> QED
      BY <1>6, <3>1, <3>2
  <2>2. CASE i > Len(v)
    <3>1. i - Len(v) \in 1 .. Len(w) /\ j - Len(v) \in 1 .. Len(w) /\ i - Len(v) < j - Len(v)
      BY <1>1, <1>6, <2>2
    <3>2. u[i] = w[i - Len(v)] /\ u[j] = w[j - Len(v)]
      BY <1>1, <1>2, <1>6, <2>2
    <3> QED
      BY <3>1, <3>2
  <2>3. CASE i =< Len(v) /\ j > Len(v)
    <3>1. i \in 1 .. Len(v) /\ j - Len(v) \in 1 .. Len(w)
      BY <1>1, <1>6, <2>3
    <3>2. u[i] = v[i] /\ u[j] = w[j - Len(v)]
      BY <1>1, <1>2, <1>6, <2>3
    <3>3. v[i] =< m /\ m < w[j - Len(v)] /\ v[i] \in Int /\ w[j - Len(v)] \in Int
      BY <1>3, <1>4, <3>1
    <3> QED
      BY <3>2, <3>3
  <2> QED
    BY <1>1, <1>6, <2>1, <2>2, <2>3
<1> QED
  BY <1>1, <1>5, <1>6 DEF u

\* The handler of the composite.
LEMMA HandIs ==
  ASSUME Types, Handed, NEW p \in Peer, NEW e \in Envelope, Hand(p, e), bound[p] => Alive(p)
  PROVE  /\ SeenTypes' /\ \A q \in Peer : win'[p][q] >= win[p][q]
         /\ bound[p] => e.seq =< win'[p][e.from]
         /\ \A r, q \in Peer : r # p => got'[r] = got[r] /\ win'[r] = win[r]
         /\ \A q \in Peer :
              /\ \A i, j \in 1 .. Len(got'[p][q]) : i < j => got'[p][q][i] < got'[p][q][j]
              /\ Alive(p) => \A i \in 1 .. Len(got'[p][q]) : got'[p][q][i] =< win'[p][q]
<1>0. /\ \A q \in Peer : win[p][q] \in Int /\ got[p][q] \in Seq(Nat)
      /\ e.from \in Peer /\ e.seq \in Nat
  BY DEF Types, SeenTypes, Envelope
<1>1. CASE UNCHANGED <<win, got>> /\ ~(bound[p] /\ IsNew(p, e))
  <2>1. bound[p] => e.seq =< win[p][e.from]
    BY <1>0, <1>1 DEF IsNew
  <2>2. SeenTypes' /\ win' = win /\ got' = got
    BY <1>1 DEF Types, SeenTypes
  <2>3. \A q \in Peer : win[p][q] >= win[p][q]
    BY <1>0
  <2>4. \A q \in Peer : Rises(p, q) /\ Covers(p, q)
    BY DEF Handed
  <2> QED
    BY <2>1, <2>2, <2>3, <2>4 DEF Rises, Covers
<1>2. CASE /\ bound[p] /\ IsNew(p, e)
           /\ win' = [win EXCEPT ![p][e.from] = e.seq]
           /\ got' = [got EXCEPT ![p][e.from] = Append(@, e.seq)]
  <2> DEFINE q == e.from
             v == got[p][e.from]
             w == <<e.seq>>
  <2>1. v \in Seq(Nat) /\ w \in Seq(Nat) /\ win[p][q] \in Int /\ win[p][q] < e.seq
    BY <1>0, <1>2 DEF IsNew
  <2>2. /\ \A i, j \in 1 .. Len(v) : i < j => v[i] < v[j]
        /\ \A i \in 1 .. Len(v) : v[i] =< win[p][q]
    BY <1>0, <1>2 DEF Handed, Rises, Covers
  <2>3. /\ \A i, j \in 1 .. Len(w) : i < j => w[i] < w[j]
        /\ \A i \in 1 .. Len(w) : win[p][q] < w[i]
    BY <2>1
  <2>4. Append(v, e.seq) = v \o w
    <3>1. v \in Seq(Nat) /\ e.seq \in Nat
      BY <1>0
    <3> QED
      BY <3>1, AppendIsConcat
  <2>5. /\ v \o w \in Seq(Nat)
        /\ \A i, j \in 1 .. Len(v \o w) : i < j => (v \o w)[i] < (v \o w)[j]
        /\ \A i \in 1 .. Len(v \o w) : (i \in 1 .. Len(v) /\ (v \o w)[i] = v[i])
             \/ (i - Len(v) \in 1 .. Len(w) /\ (v \o w)[i] = w[i - Len(v)])
    BY <2>1, <2>2, <2>3, AppendRises
  <2>6. \A i \in 1 .. Len(v \o w) : (v \o w)[i] =< e.seq
    <3>1. SUFFICES ASSUME NEW i \in 1 .. Len(v \o w) PROVE (v \o w)[i] =< e.seq
      OBVIOUS
    <3>2. CASE i \in 1 .. Len(v) /\ (v \o w)[i] = v[i]
      <4>1. v[i] =< win[p][q] /\ v[i] \in Nat
        BY <2>1, <2>2, <3>2
      <4> QED
        BY <1>0, <2>1, <3>2, <4>1
    <3>3. CASE i - Len(v) \in 1 .. Len(w) /\ (v \o w)[i] = w[i - Len(v)]
      BY <1>0, <2>1, <3>3
    <3> QED
      BY <2>5, <3>2, <3>3
  <2> HIDE DEF v, w
  <2>7. got'[p][q] = v \o w /\ win'[p][q] = e.seq
    BY <1>0, <1>2, <2>4 DEF Types, SeenTypes, v
  <2>8. SeenTypes'
    <3>1. got' = [got EXCEPT ![p][e.from] = v \o w]
      BY <1>2, <2>4 DEF v
    <3>2. win' \in [Peer -> [Peer -> Int]]
      <4>1. [win[p] EXCEPT ![e.from] = e.seq] \in [Peer -> Int]
        BY <1>0 DEF Types, SeenTypes
      <4>2. win' = [win EXCEPT ![p] = [win[p] EXCEPT ![e.from] = e.seq]]
        BY <1>2
      <4> QED
        BY <4>1, <4>2 DEF Types, SeenTypes
    <3>3. got' \in [Peer -> [Peer -> Seq(Nat)]]
      <4>1. [got[p] EXCEPT ![e.from] = v \o w] \in [Peer -> Seq(Nat)]
        BY <1>0, <2>5 DEF Types, SeenTypes
      <4>2. got' = [got EXCEPT ![p] = [got[p] EXCEPT ![e.from] = v \o w]]
        BY <3>1
      <4> QED
        BY <4>1, <4>2 DEF Types, SeenTypes
    <3> QED
      BY <3>2, <3>3 DEF SeenTypes
  <2>9. \A r \in Peer : r # q => got'[p][r] = got[p][r] /\ win'[p][r] = win[p][r]
    BY <1>0, <1>2 DEF Types, SeenTypes
  <2>10. \A r \in Peer : r # p => got'[r] = got[r] /\ win'[r] = win[r]
    BY <1>0, <1>2 DEF Types, SeenTypes
  <2>11. ASSUME NEW r \in Peer
         PROVE  /\ \A i, j \in 1 .. Len(got'[p][r]) : i < j => got'[p][r][i] < got'[p][r][j]
                /\ Alive(p) => \A i \in 1 .. Len(got'[p][r]) : got'[p][r][i] =< win'[p][r]
                /\ win'[p][r] >= win[p][r]
    <3>1. CASE r = q
      <4>1. got'[p][r] = v \o w /\ win'[p][r] = e.seq
        BY <2>7, <3>1
      <4>2. e.seq >= win[p][q]
        BY <1>0, <2>1
      <4> QED
        BY <2>5, <2>6, <3>1, <4>1, <4>2
    <3>2. CASE r # q
      BY <1>0, <2>9, <3>2 DEF Handed, Rises, Covers
    <3> QED
      BY <3>1, <3>2
  <2> QED
    BY <1>0, <2>7, <2>8, <2>10, <2>11
<1> QED
  BY <1>1, <1>2 DEF Hand

\* The replay after a reconnect.
LEMMA ReplayIs ==
  ASSUME Types, Bounded, Handed, NEW p \in Peer, Replay(p), bound[p] => Alive(p)
  PROVE  /\ SeenTypes' /\ \A q \in Peer : win'[p][q] >= win[p][q]
         /\ synced'[p] /\ bound[p]
              => /\ asked'[p] = rc[p].since
                 /\ \A e \in Missed(p, rc[p].since) : e.seq =< win'[p][e.from]
         /\ \A r, q \in Peer : r # p => got'[r] = got[r] /\ win'[r] = win[r]
         /\ \A q \in Peer :
              /\ \A i, j \in 1 .. Len(got'[p][q]) : i < j => got'[p][q][i] < got'[p][q][j]
              /\ Alive(p) => \A i \in 1 .. Len(got'[p][q]) : got'[p][q][i] =< win'[p][q]
<1>0. \A q \in Peer : win[p][q] \in Int /\ got[p][q] \in Seq(Nat) /\ Rises(p, q) /\ Covers(p, q)
  BY DEF Types, SeenTypes, Handed
<1>1. PICK ok \in BOOLEAN :
        /\ got' = IF bound[p]
                  THEN [got EXCEPT ![p] = [q \in Peer |-> @[q] \o Ascending(New(p, q, IF ok THEN Missed(p, rc[p].since) ELSE {}))]]
                  ELSE got
        /\ win' = IF bound[p]
                  THEN [win EXCEPT ![p] = [q \in Peer |-> Top(New(p, q, IF ok THEN Missed(p, rc[p].since) ELSE {}), @[q])]]
                  ELSE win
        /\ synced' = [synced EXCEPT ![p] = ok]
        /\ asked' = [asked EXCEPT ![p] = IF ok THEN rc[p].since ELSE @]
  BY DEF Replay
<1> DEFINE M == IF ok THEN Missed(p, rc[p].since) ELSE {}
<1>2. M \in SUBSET log
  BY DEF Missed
<1>3. synced'[p] => asked'[p] = rc[p].since /\ M = Missed(p, rc[p].since)
  BY <1>1 DEF Types, RoomTypes, LoopTypes
<1>4. CASE ~bound[p]
  <2>1. SeenTypes' /\ win' = win /\ got' = got
    BY <1>1, <1>4 DEF Types, SeenTypes
  <2>2. \A q \in Peer : win[p][q] >= win[p][q]
    BY <1>0
  <2> QED
    BY <1>0, <1>4, <2>1, <2>2 DEF Rises, Covers
<1>5. CASE bound[p]
  <2> HIDE DEF M
  <2>1. /\ got' = [got EXCEPT ![p] = [q \in Peer |-> got[p][q] \o Ascending(New(p, q, M))]]
        /\ win' = [win EXCEPT ![p] = [q \in Peer |-> Top(New(p, q, M), win[p][q])]]
    BY <1>1, <1>5 DEF M
  <2>2. /\ \A q \in Peer : /\ got'[p][q] = got[p][q] \o Ascending(New(p, q, M))
                           /\ win'[p][q] = Top(New(p, q, M), win[p][q])
        /\ \A r, q \in Peer : r # p => got'[r] = got[r] /\ win'[r] = win[r]
    BY <2>1 DEF Types, SeenTypes
  <2>3. ASSUME NEW q \in Peer
        PROVE  /\ got'[p][q] \in Seq(Nat) /\ win'[p][q] \in Int /\ win'[p][q] >= win[p][q]
               /\ \A i, j \in 1 .. Len(got'[p][q]) : i < j => got'[p][q][i] < got'[p][q][j]
               /\ \A i \in 1 .. Len(got'[p][q]) : got'[p][q][i] =< win'[p][q]
               /\ \A n \in New(p, q, M) : n =< win'[p][q]
    <3> DEFINE S == New(p, q, M)
               v == got[p][q]
               w == Ascending(New(p, q, M))
    <3>1. S \in SUBSET Nat /\ S \in SUBSET Int /\ IsFiniteSet(S) /\ \A n \in S : n > win[p][q]
      BY <1>2, NewFinite DEF Types
    <3> HIDE DEF S
    <3>2. /\ Ascending(S) \in Seq(S) /\ Len(Ascending(S)) \in Nat
          /\ \A i \in 1 .. Len(Ascending(S)) : Ascending(S)[i] \in S
          /\ \A i, j \in 1 .. Len(Ascending(S)) : i < j => Ascending(S)[i] < Ascending(S)[j]
      BY <3>1, AscendingRises
    <3>3. /\ Top(S, win[p][q]) \in Int /\ Top(S, win[p][q]) >= win[p][q]
          /\ \A k \in S : k =< Top(S, win[p][q])
      BY <1>0, <3>1, TopIs
    <3>4. w = Ascending(S)
      BY DEF S
    <3>5. v \in Seq(Nat) /\ win[p][q] \in Int
      BY <1>0
    <3>6. w \in Seq(Nat)
      <4>1. w \in Seq(S)
        BY <3>2, <3>4
      <4>2. S \subseteq Nat
        BY <3>1
      <4> HIDE DEF w
      <4> QED
        BY <4>1, <4>2, SeqMonotonic
    <3>7. /\ \A i, j \in 1 .. Len(w) : i < j => w[i] < w[j]
          /\ \A i \in 1 .. Len(w) : w[i] \in S /\ win[p][q] < w[i]
      BY <3>1, <3>2, <3>4, <3>5
    <3>8. /\ \A i, j \in 1 .. Len(v) : i < j => v[i] < v[j]
          /\ \A i \in 1 .. Len(v) : v[i] =< win[p][q]
      BY <1>0, <1>5 DEF Rises, Covers
    <3> HIDE DEF v, w
    <3>9. /\ v \o w \in Seq(Nat)
          /\ \A i, j \in 1 .. Len(v \o w) : i < j => (v \o w)[i] < (v \o w)[j]
          /\ \A i \in 1 .. Len(v \o w) : (i \in 1 .. Len(v) /\ (v \o w)[i] = v[i])
               \/ (i - Len(v) \in 1 .. Len(w) /\ (v \o w)[i] = w[i - Len(v)])
      BY <3>5, <3>6, <3>7, <3>8, AppendRises
    <3>10. ASSUME NEW i \in 1 .. Len(v \o w) PROVE (v \o w)[i] =< Top(S, win[p][q])
      <4>1. CASE i \in 1 .. Len(v) /\ (v \o w)[i] = v[i]
        <5>1. v[i] =< win[p][q] /\ v[i] \in Nat
          BY <3>5, <3>8, <4>1
        <5> QED
          BY <3>3, <3>5, <4>1, <5>1
      <4>2. CASE i - Len(v) \in 1 .. Len(w) /\ (v \o w)[i] = w[i - Len(v)]
        <5>1. w[i - Len(v)] \in S
          BY <3>7, <4>2
        <5> QED
          BY <3>3, <4>2, <5>1
      <4> QED
        BY <3>9, <4>1, <4>2
    <3>11. got'[p][q] = v \o w /\ win'[p][q] = Top(S, win[p][q])
      BY <2>2 DEF v, w, S
    <3> QED
      BY <3>3, <3>9, <3>10, <3>11 DEF S
  <2>4. SeenTypes'
    <3>1. /\ [q \in Peer |-> got[p][q] \o Ascending(New(p, q, M))] \in [Peer -> Seq(Nat)]
          /\ [q \in Peer |-> Top(New(p, q, M), win[p][q])] \in [Peer -> Int]
      BY <2>2, <2>3
    <3> QED
      BY <2>1, <3>1 DEF Types, SeenTypes
  <2>5. synced'[p] => \A e \in Missed(p, rc[p].since) : e.seq =< win'[p][e.from]
    <3>1. SUFFICES ASSUME synced'[p], NEW e \in Missed(p, rc[p].since)
                   PROVE  e.seq =< win'[p][e.from]
      OBVIOUS
    <3>2. e \in M
      BY <1>3, <3>1
    <3>3. e.from \in Peer /\ e.seq \in Nat
      BY <1>2, <3>2 DEF Types, MailTypes, Envelope
    <3>4. e.seq \in New(p, e.from, M) \/ ~IsNew(p, e)
      BY <1>2, <3>2, <3>3, NewFinite DEF Types
    <3>5. win'[p][e.from] >= win[p][e.from] /\ win'[p][e.from] \in Int /\ win[p][e.from] \in Int
          /\ \A n \in New(p, e.from, M) : n =< win'[p][e.from]
      BY <1>0, <2>3, <3>3
    <3> QED
      BY <3>3, <3>4, <3>5 DEF IsNew
  <2> QED
    BY <1>3, <2>2, <2>3, <2>4, <2>5
<1> QED
  BY <1>4, <1>5

-----------------------------------------------------------------------------
(* Where the Room is in its life, and what it is subscribed to.            *)

Seat(p) ==
  /\ bound[p] => stage[p] = "in"
  /\ stage[p] = "in" => bound[p]
  /\ stage[p] \in {"out", "joining"} => owed[p] = {} /\ rc[p].at = "idle"
  /\ stage[p] = "out" => p \notin up["primary"] /\ ~conn[p].handlers
  /\ stage[p] \in {"joining", "in"} /\ p \in up["primary"] => conn[p].handlers
  /\ stage[p] \in {"leaving", "left"} /\ ~raced[p] => rc[p].at = "idle" /\ ~conn[p].handlers
  /\ stage[p] = "left" /\ ~raced[p] => \A x \in Path : p \notin up[x] /\ wire[x][p] = <<>>
Seats == \A p \in Peer : Seat(p)

\* What a step of p does to another peer r: what is sent to it, if it is there.
Others(p) ==
  \A r \in Peer \ {p} :
    /\ stage'[r] = stage[r] /\ conn'[r] = conn[r] /\ rc'[r] = rc[r] /\ win'[r] = win[r]
    /\ bound'[r] = bound[r] /\ emits'[r] = emits[r] /\ got'[r] = got[r]
    /\ synced'[r] = synced[r] /\ raced'[r] = raced[r] /\ asked'[r] = asked[r]
    /\ \A x \in Path : r \in up'[x] <=> r \in up[x]
Quiet(p) ==
  \A r \in Peer \ {p} : owed'[r] = owed[r] /\ \A x \in Path : wire'[x][r] = wire[x][r]

LEMMA OthersStep ==
  ASSUME Types, NEW p \in Peer, Step(p)
  PROVE  Others(p)
<1>0. /\ stage \in [Peer -> Stage] /\ up \in [Path -> SUBSET Peer] /\ bound \in [Peer -> BOOLEAN]
      /\ synced \in [Peer -> BOOLEAN] /\ raced \in [Peer -> BOOLEAN] /\ conn \in [Peer -> Conn]
      /\ rc \in [Peer -> Loop] /\ asked \in [Peer -> Int] /\ emits \in [Peer -> SUBSET Call]
      /\ win \in [Peer -> [Peer -> Int]] /\ got \in [Peer -> [Peer -> Seq(Nat)]]
  BY DEF Types, RoomTypes, LoopTypes, SeenTypes
<1>1. CASE JoinPrimary(p)
  BY <1>0, <1>1 DEF JoinPrimary, Others, Path
<1>2. CASE JoinFallback(p)
  BY <1>0, <1>2 DEF JoinFallback, Others, Path
<1>3. CASE Leave(p)
  BY <1>0, <1>3 DEF Leave, Others, Path
<1>4. CASE Left(p)
  BY <1>0, <1>4 DEF Left, Others, Path
<1>5. CASE Emit(p)
  <2>1. UNCHANGED <<emits, rc>> \/ Reconnect(p, seq[p])
    BY <1>5 DEF Emit, Try
  <2>2. \A r \in Peer \ {p} : emits'[r] = emits[r] /\ rc'[r] = rc[r]
    BY <1>0, <2>1 DEF Reconnect
  <2> QED
    BY <1>0, <1>5, <2>2 DEF Emit, Others
<1>6. CASE Drop(p)
  BY <1>0, <1>6 DEF Drop, Others, Path
<1>7. CASE Attempt(p)
  <2>1. \A r \in Peer \ {p} : /\ emits'[r] = emits[r] /\ rc'[r] = rc[r] /\ conn'[r] = conn[r]
                              /\ synced'[r] = synced[r]
    BY <1>0, <1>7 DEF Attempt, GaveUp, Owner
  <2>2. \A r \in Peer \ {p} : \A x \in Path : r \in up'[x] <=> r \in up[x]
    BY <1>0, <1>7 DEF Attempt, Path
  <2>3. UNCHANGED <<stage, win, bound, got, raced, asked>>
    BY <1>7 DEF Attempt
  <2> QED
    BY <2>1, <2>2, <2>3 DEF Others
<1>8. CASE Replay(p)
  <2>1. \A r \in Peer \ {p} : /\ emits'[r] = emits[r] /\ rc'[r] = rc[r] /\ conn'[r] = conn[r]
                              /\ synced'[r] = synced[r] /\ asked'[r] = asked[r]
    BY <1>0, <1>8 DEF Replay, Owner
  <2>2. \A r \in Peer \ {p} : got'[r] = got[r] /\ win'[r] = win[r]
    BY <1>0, <1>8 DEF Replay
  <2>3. UNCHANGED <<stage, up, bound, raced>>
    BY <1>8 DEF Replay
  <2> QED
    BY <2>1, <2>2, <2>3 DEF Others
<1>9. ASSUME NEW c \in emits[p], Retry(p, c) \/ EmitFallback(p, c) PROVE Others(p)
  <2>1. Done(p, c) \/ Pending(p, c, "fallback")
    BY <1>9 DEF Retry, EmitFallback, Try
  <2>2. \A r \in Peer \ {p} : emits'[r] = emits[r]
    BY <1>0, <2>1 DEF Done, Pending
  <2> QED
    BY <1>9, <2>2 DEF Retry, EmitFallback, transport, Others
<1>10. ASSUME NEW x \in Path, Deliver(p, x) PROVE Others(p)
  <2>1. \A r \in Peer \ {p} : got'[r] = got[r] /\ win'[r] = win[r]
    BY <1>0, <1>10 DEF Deliver, Hand
  <2>2. \A r \in Peer \ {p} : conn'[r] = conn[r]
    BY <1>0, <1>10 DEF Deliver
  <2> QED
    BY <1>10, <2>1, <2>2 DEF Deliver, Others
<1> QED
  BY <1>1, <1>2, <1>3, <1>4, <1>5, <1>6, <1>7, <1>8, <1>9, <1>10 DEF Step

\* Only the three actions of emit() send.
Speaks(p) == Emit(p) \/ \E c \in emits[p] : Retry(p, c) \/ EmitFallback(p, c)

LEMMA QuietStep ==
  ASSUME Types, NEW p \in Peer, Step(p), ~Speaks(p)
  PROVE  Quiet(p) /\ log' = log /\ owed' = owed
<1>0. /\ wire \in [Path -> [Peer -> Seq(Envelope)]] /\ owed \in [Peer -> SUBSET Envelope]
  BY DEF Types, MailTypes
<1>1. CASE JoinPrimary(p) \/ JoinFallback(p) \/ Leave(p) \/ Replay(p)
  BY <1>1 DEF JoinPrimary, JoinFallback, Leave, Replay, Quiet
<1>2. CASE Left(p)
  BY <1>0, <1>2 DEF Left, Quiet
<1>3. CASE Drop(p)
  BY <1>0, <1>3 DEF Drop, Silenced, Quiet, Path
<1>4. CASE Attempt(p)
  <2>1. wire' = wire \/ wire' = Silenced("primary", p)
    BY <1>4 DEF Attempt
  <2>2. log' = log /\ owed' = owed
    BY <1>4 DEF Attempt
  <2> QED
    BY <1>0, <2>1, <2>2 DEF Silenced, Quiet, Path
<1>5. ASSUME NEW x \in Path, Deliver(p, x) PROVE Quiet(p) /\ log' = log /\ owed' = owed
  BY <1>0, <1>5 DEF Deliver, Quiet
<1> QED
  BY <1>1, <1>2, <1>3, <1>4, <1>5 DEF Step, Speaks

\* One that sends changes nothing else of the Room but its numbers and its calls.
LEMMA SpeaksIs ==
  ASSUME Types, NEW p \in Peer, Speaks(p)
  PROVE  /\ \E x \in Path : \E e \in Envelope : e.from = p /\ Sends(x, e)
         /\ UNCHANGED <<stage, up, win, bound, got, synced, raced, asked>>
         /\ conn'[p].handlers = conn[p].handlers
         /\ stage[p] # "in" => rc' = rc
<1>1. CASE Emit(p)
  <2>1. \E x \in Path : \E e \in Envelope : e.from = p /\ Sends(x, e)
    BY <1>1, EmitSends DEF Path
  <2>2. conn'[p].handlers = conn[p].handlers
    BY <1>1 DEF Emit, Types, LoopTypes, Conn
  <2> QED
    BY <1>1, <2>1, <2>2 DEF Emit
<1>2. ASSUME NEW c \in emits[p], Retry(p, c)
      PROVE  /\ \E x \in Path : \E e \in Envelope : e.from = p /\ Sends(x, e)
             /\ UNCHANGED transport /\ UNCHANGED <<got, synced, raced, asked>>
  BY <1>2, RetrySends DEF Retry, Path
<1>3. ASSUME NEW c \in emits[p], EmitFallback(p, c)
      PROVE  /\ \E x \in Path : \E e \in Envelope : e.from = p /\ Sends(x, e)
             /\ UNCHANGED transport /\ UNCHANGED <<got, synced, raced, asked>>
  BY <1>3, FallbackSends DEF EmitFallback, Path
<1> QED
  BY <1>1, <1>2, <1>3 DEF Speaks, transport

LEMMA AliveBack ==
  ASSUME Types, NEW p \in Peer, Step(p), NEW r \in Peer, Alive(r)'
  PROVE  Alive(r)
<1>1. CASE r # p
  BY <1>1, OthersStep DEF Others, Alive
<1>2. CASE r = p
  <2>1. stage'[p] \in {"out", "joining", "in"}
    BY <1>2 DEF Alive
  <2>2. CASE JoinPrimary(p)
    BY <1>2, <2>2 DEF JoinPrimary, Alive
  <2>3. CASE JoinFallback(p)
    BY <1>2, <2>3 DEF JoinFallback, Alive
  <2>4. CASE Leave(p)
    BY <1>2, <2>1, <2>4 DEF Leave, Types, RoomTypes
  <2>5. CASE Left(p)
    BY <1>2, <2>1, <2>5 DEF Left, Types, RoomTypes
  <2>6. CASE stage' = stage
    BY <1>2, <2>1, <2>6 DEF Alive
  <2>7. ASSUME NEW c \in emits[p], Retry(p, c) \/ EmitFallback(p, c) PROVE stage' = stage
    BY <2>7 DEF Retry, EmitFallback, transport
  <2>8. ASSUME Emit(p) \/ Drop(p) \/ Attempt(p) \/ Replay(p) PROVE stage' = stage
    BY <2>8 DEF Emit, Drop, Attempt, Replay
  <2>9. ASSUME NEW x \in Path, Deliver(p, x) PROVE stage' = stage
    BY <2>9 DEF Deliver
  <2> QED
    BY <2>2, <2>3, <2>4, <2>5, <2>6, <2>7, <2>8, <2>9 DEF Step
<1> QED
  BY <1>1, <1>2

LEMMA SeatAlive ==
  ASSUME Seats, NEW p \in Peer
  PROVE  bound[p] => Alive(p)
BY DEF Seats, Seat, Alive

\* What the two handlers leave of the peer's own rows.
LEMMA HandsOn ==
  ASSUME Types, Bounded, Handed, Seats, NEW p \in Peer, Step(p), ~Leave(p)
  PROVE  /\ SeenTypes' /\ \A q \in Peer : win'[p][q] >= win[p][q]
         /\ \A q \in Peer :
              /\ \A i, j \in 1 .. Len(got'[p][q]) : i < j => got'[p][q][i] < got'[p][q][j]
              /\ Alive(p) => \A i \in 1 .. Len(got'[p][q]) : got'[p][q][i] =< win'[p][q]
<1>0. bound[p] => Alive(p)
  BY SeatAlive
<1>1. CASE UNCHANGED <<win, got>>
  BY <1>1 DEF Types, SeenTypes, Handed, Rises, Covers
<1>2. CASE Replay(p)
  BY <1>0, <1>2, ReplayIs
<1>3. ASSUME NEW x \in Path, Deliver(p, x), ~UNCHANGED <<win, got>>
      PROVE  \E e \in Envelope : Hand(p, e)
  <2>1. wire[x][p] \in Seq(Envelope) /\ wire[x][p] # <<>>
    BY <1>3 DEF Deliver, Types, MailTypes
  <2>2. Head(wire[x][p]) \in Envelope
    BY <2>1
  <2> QED
    BY <1>3, <2>2 DEF Deliver
<1>4. CASE \E e \in Envelope : Hand(p, e)
  <2>1. PICK e \in Envelope : Hand(p, e)
    BY <1>4
  <2> QED
    BY <1>0, <2>1, HandIs
<1>5. ASSUME NEW c \in emits[p], Retry(p, c) \/ EmitFallback(p, c) PROVE UNCHANGED <<win, got>>
  BY <1>5 DEF Retry, EmitFallback, transport
<1>6. ASSUME JoinPrimary(p) \/ JoinFallback(p) \/ Left(p) \/ Emit(p) \/ Drop(p) \/ Attempt(p)
      PROVE  UNCHANGED <<win, got>>
  BY <1>6 DEF JoinPrimary, JoinFallback, Left, Emit, Drop, Attempt
<1> QED
  BY <1>1, <1>2, <1>3, <1>4, <1>5, <1>6 DEF Step

LEMMA HandedStep ==
  ASSUME Types, Bounded, Handed, Seats, NEW p \in Peer, Step(p)
  PROVE  SeenTypes' /\ Handed'
<1>1. CASE Leave(p)
  <2>1. SeenTypes' /\ got' = got
    BY <1>1 DEF Leave, Types, SeenTypes
  <2>2. stage'[p] = "leaving" /\ \A r \in Peer : r # p => win'[r] = win[r] /\ stage'[r] = stage[r]
    BY <1>1 DEF Leave, Types, SeenTypes, RoomTypes
  <2>3. \A r, q \in Peer : Rises(r, q)' /\ Covers(r, q)'
    BY <2>1, <2>2 DEF Handed, Rises, Covers, Alive
  <2> QED
    BY <2>1, <2>3 DEF Handed
<1>2. CASE ~Leave(p)
  <2>1. /\ SeenTypes'
        /\ \A q \in Peer :
              /\ \A i, j \in 1 .. Len(got'[p][q]) : i < j => got'[p][q][i] < got'[p][q][j]
              /\ Alive(p) => \A i \in 1 .. Len(got'[p][q]) : got'[p][q][i] =< win'[p][q]
    BY <1>2, HandsOn
  <2>2. ASSUME NEW r \in Peer, NEW q \in Peer PROVE Rises(r, q)' /\ Covers(r, q)'
    <3>1. Alive(r)' => Alive(r)
      BY AliveBack
    <3>2. CASE r = p
      BY <2>1, <3>1, <3>2 DEF Rises, Covers
    <3>3. CASE r # p
      <4>1. got'[r] = got[r] /\ win'[r] = win[r]
        BY <3>3, OthersStep DEF Others
      <4>2. Rises(r, q) /\ Covers(r, q)
        BY DEF Handed
      <4> QED
        BY <3>1, <4>1, <4>2 DEF Rises, Covers
    <3> QED
      BY <3>2, <3>3
  <2> QED
    BY <2>1, <2>2 DEF Handed
<1> QED
  BY <1>1, <1>2

-----------------------------------------------------------------------------
(* The log.                                                                *)

Logged == \A p \in Peer : owed[p] \subseteq log

LEMMA LogStep ==
  ASSUME Types, Bounded, Logged, NEW p \in Peer, Step(p)
  PROVE  Bounded' /\ Logged'
<1>1. CASE Speaks(p)
  <2>1. PICK x \in Path, e \in Envelope : Sends(x, e)
    BY <1>1, SpeaksIs
  <2>2. /\ log \subseteq log' /\ log' \subseteq log \cup {e}
        /\ \A q \in Peer : owed'[q] = owed[q] \/ (owed'[q] = owed[q] \cup {e} /\ e \in log')
    BY <2>1, SendIs
  <2>3. PICK n \in Nat : \A d \in log : d.seq < n
    BY DEF Bounded
  <2>4. e.seq \in Nat /\ \A d \in log : d.seq \in Nat
    BY DEF Envelope, Types, MailTypes
  <2>5. \E m \in Nat : n =< m /\ e.seq < m
    <3>1. CASE e.seq < n
      BY <2>3, <2>4, <3>1
    <3>2. CASE ~(e.seq < n)
      <4>1. e.seq + 1 \in Nat /\ n =< e.seq + 1 /\ e.seq < e.seq + 1
        BY <2>3, <2>4, <3>2
      <4> QED
        BY <4>1
    <3> QED
      BY <3>1, <3>2
  <2>6. PICK m \in Nat : n =< m /\ e.seq < m
    BY <2>5
  <2>7. \A d \in log' : d.seq < m
    <3>1. SUFFICES ASSUME NEW d \in log' PROVE d.seq < m
      OBVIOUS
    <3>2. CASE d = e
      BY <2>6, <3>2
    <3>3. CASE d \in log
      BY <2>3, <2>4, <2>6, <3>3
    <3> QED
      BY <2>2, <3>2, <3>3
  <2> QED
    BY <2>2, <2>7 DEF Bounded, Logged
<1>2. CASE ~Speaks(p)
  BY <1>2, QuietStep DEF Bounded, Logged
<1> QED
  BY <1>1, <1>2

-----------------------------------------------------------------------------
(* Each reconnect belongs to one call.                                     *)

Waiting(p) == {c \in emits[p] : c.at = "waits"}
Owned(p) ==
  /\ rc[p].at = "idle" => Waiting(p) = {}
  /\ rc[p].at # "idle" => \E c : Waiting(p) = {c}
OneEach == \A p \in Peer : Owned(p)

LEMMA OwnerWaits ==
  ASSUME Types, NEW p \in Peer, NEW at \in {"retry", "fallback"}, Owner(p, at)
  PROVE  Waiting(p)' = {}
<1>1. emits'[p] = {IF c.at = "waits" THEN [c EXCEPT !.at = at] ELSE c : c \in emits[p]}
  BY DEF Owner, Types, LoopTypes
<1>2. \A c \in emits[p] : c \in Call
  BY DEF Types, LoopTypes
<1>3. \A c \in Call : [c EXCEPT !.at = at].at = at
  BY DEF Call
<1>4. \A d \in emits'[p] : d.at # "waits"
  <2>1. SUFFICES ASSUME NEW d \in emits'[p] PROVE d.at # "waits"
    OBVIOUS
  <2>2. PICK c \in emits[p] : d = IF c.at = "waits" THEN [c EXCEPT !.at = at] ELSE c
    BY <1>1
  <2>3. CASE c.at = "waits"
    BY <1>2, <1>3, <2>2, <2>3
  <2>4. CASE c.at # "waits"
    BY <2>2, <2>4
  <2> QED
    BY <2>3, <2>4
<1> QED
  BY <1>4 DEF Waiting

LEMMA OwnedStep ==
  ASSUME Types, OneEach, NEW p \in Peer, Step(p)
  PROVE  OneEach'
<1>0. /\ Owned(p) /\ rc[p] \in Loop /\ \A c \in emits[p] : c \in Call
      /\ rc \in [Peer -> Loop] /\ emits \in [Peer -> SUBSET Call]
  BY DEF OneEach, Types, LoopTypes
<1>1. Owned(p)'
  <2>1. CASE rc'[p].at = rc[p].at /\ Waiting(p)' = Waiting(p)
    BY <1>0, <2>1 DEF Owned
  <2>2. CASE rc'[p].at = "idle" /\ Waiting(p)' = {}
    BY <2>2 DEF Owned
  <2>3. ASSUME Emit(p)
        PROVE  Owned(p)'
    <3>1. CASE UNCHANGED <<emits, rc>>
      BY <1>0, <3>1 DEF Owned, Waiting
    <3>2. CASE Reconnect(p, seq[p])
      <4>1. CASE rc[p].at = "idle"
        <5>1. rc' = [rc EXCEPT ![p] = [Idle EXCEPT !.at = "backoff"]]
              /\ emits'[p] = emits[p] \cup {[seq |-> seq[p], at |-> "waits"]}
          BY <1>0, <3>2, <4>1 DEF Reconnect
        <5>2. rc'[p].at = "backoff"
          BY <1>0, <5>1 DEF Idle
        <5>3. Waiting(p)' = {[seq |-> seq[p], at |-> "waits"]}
          BY <1>0, <4>1, <5>1 DEF Owned, Waiting
        <5> QED
          BY <5>2, <5>3 DEF Owned
      <4>2. CASE rc[p].at # "idle"
        <5>1. rc' = rc /\ emits'[p] = emits[p] \cup {[seq |-> seq[p], at |-> "retry"]}
          BY <1>0, <3>2, <4>2 DEF Reconnect
        <5>2. Waiting(p)' = Waiting(p)
          BY <5>1 DEF Waiting
        <5> QED
          BY <1>0, <5>1, <5>2 DEF Owned
      <4> QED
        BY <4>1, <4>2
    <3> QED
      BY <2>3, <3>1, <3>2 DEF Emit, Try
  <2>4. CASE Attempt(p)
    <3>1. CASE rc[p].attempt >= MaxAttempts
      <4>1. rc' = [rc EXCEPT ![p] = Idle] /\ Owner(p, "fallback")
        BY <2>4, <3>1 DEF Attempt, GaveUp
      <4>2. rc'[p].at = "idle"
        BY <1>0, <4>1 DEF Idle
      <4> QED
        BY <2>2, <4>1, <4>2, OwnerWaits
    <3>2. CASE ~(rc[p].attempt >= MaxAttempts)
      <4>1. PICK ok \in BOOLEAN :
              rc' = [rc EXCEPT ![p] =
                       IF ok THEN [rc[p] EXCEPT !.at = "replay", !.since = conn[p].lastSeq]
                       ELSE [rc[p] EXCEPT !.attempt = rc[p].attempt + 1]]
        BY <2>4, <3>2 DEF Attempt
      <4>2. emits' = emits /\ rc[p].at = "backoff"
        BY <2>4, <3>2 DEF Attempt
      <4>3. rc'[p].at # "idle"
        <5>1. CASE ok
          BY <1>0, <4>1, <5>1 DEF Loop
        <5>2. CASE ~ok
          BY <1>0, <4>1, <4>2, <5>2 DEF Loop
        <5> QED
          BY <5>1, <5>2
      <4>4. Waiting(p)' = Waiting(p)
        BY <4>2 DEF Waiting
      <4> QED
        BY <1>0, <4>2, <4>3, <4>4 DEF Owned
    <3> QED
      BY <3>1, <3>2
  <2>5. CASE Replay(p)
    <3>1. rc' = [rc EXCEPT ![p] = Idle] /\ Owner(p, "retry")
      BY <2>5 DEF Replay
    <3>2. rc'[p].at = "idle"
      BY <1>0, <3>1 DEF Idle
    <3> QED
      BY <2>2, <3>1, <3>2, OwnerWaits
  <2>6. ASSUME NEW c \in emits[p], Retry(p, c) \/ EmitFallback(p, c)
        PROVE  rc' = rc /\ Waiting(p)' = Waiting(p)
    <3>1. c.at # "waits" /\ rc' = rc /\ (Done(p, c) \/ Pending(p, c, "fallback"))
      BY <2>6 DEF Retry, EmitFallback, Try, transport
    <3>2. [c EXCEPT !.at = "fallback"].at = "fallback"
      BY <1>0 DEF Call
    <3>3. \/ emits'[p] = emits[p] \ {c}
          \/ emits'[p] = (emits[p] \ {c}) \cup {[c EXCEPT !.at = "fallback"]}
      BY <1>0, <3>1 DEF Done, Pending
    <3> QED
      BY <3>1, <3>2, <3>3 DEF Waiting
  <2>7. ASSUME JoinPrimary(p) \/ JoinFallback(p) \/ Leave(p) \/ Left(p) \/ Drop(p)
        PROVE  UNCHANGED <<rc, emits>>
    BY <2>7 DEF JoinPrimary, JoinFallback, Leave, Left, Drop
  <2>8. ASSUME NEW x \in Path, Deliver(p, x) PROVE UNCHANGED <<rc, emits>>
    BY <2>8 DEF Deliver
  <2>9. UNCHANGED <<rc, emits>> => rc'[p].at = rc[p].at /\ Waiting(p)' = Waiting(p)
    BY DEF Waiting
  <2> QED
    BY <2>1, <2>3, <2>4, <2>5, <2>6, <2>7, <2>8, <2>9 DEF Step
<1>2. ASSUME NEW r \in Peer, r # p PROVE Owned(r)'
  <2>1. rc'[r] = rc[r] /\ emits'[r] = emits[r]
    BY <1>2, OthersStep DEF Others
  <2>2. Owned(r)
    BY DEF OneEach
  <2> QED
    BY <2>1, <2>2 DEF Owned, Waiting
<1> QED
  BY <1>1, <1>2 DEF OneEach

-----------------------------------------------------------------------------
(* A Room that left, and one that is in.                                   *)

\* A peer to which nothing happens but that something is sent.
LEMMA SeatSame ==
  ASSUME NEW r \in Peer, Seat(r),
         stage'[r] = stage[r], conn'[r] = conn[r], rc'[r].at = rc[r].at, bound'[r] = bound[r],
         raced'[r] = raced[r], \A x \in Path : r \in up'[x] <=> r \in up[x],
         stage[r] # "in" => owed'[r] = owed[r],
         \A x \in Path : r \in up[x] \/ wire'[x][r] = wire[x][r]
  PROVE  Seat(r)'
BY DEF Seat, Path

LEMMA SeatsStep ==
  ASSUME Types, Seats, NEW p \in Peer, Step(p)
  PROVE  Seats'
<1>0. /\ Seat(p) /\ rc[p] \in Loop /\ conn[p] \in Conn /\ stage[p] \in Stage
      /\ stage \in [Peer -> Stage] /\ up \in [Path -> SUBSET Peer] /\ bound \in [Peer -> BOOLEAN]
      /\ raced \in [Peer -> BOOLEAN] /\ conn \in [Peer -> Conn] /\ rc \in [Peer -> Loop]
      /\ wire \in [Path -> [Peer -> Seq(Envelope)]]
  BY DEF Seats, Types, RoomTypes, LoopTypes, MailTypes
<1>1. ASSUME Speaks(p) PROVE Seats'
  <2>1. PICK x \in Path, e \in Envelope : Sends(x, e)
    BY <1>1, SpeaksIs
  <2>2. /\ \A y \in Path : \A q \in Peer : wire'[y][q] = wire[y][q] \/ q \in up[y]
        /\ \A q \in Peer : owed'[q] = owed[q] \/ stage[q] = "in"
    BY <2>1, SendIs
  <2>3. UNCHANGED <<stage, up, bound, raced>>
    BY <1>1, SpeaksIs
  <2>4. ASSUME NEW r \in Peer, r # p PROVE Seat(r)'
    <3>1. conn'[r] = conn[r] /\ rc'[r] = rc[r]
      BY <2>4, OthersStep DEF Others
    <3> QED
      BY <2>2, <2>3, <3>1, SeatSame DEF Seats
  <2>5. Seat(p)'
    <3>1. conn'[p].handlers = conn[p].handlers /\ (stage[p] # "in" => rc' = rc)
      BY <1>1, SpeaksIs
    <3>2. CASE stage[p] = "in"
      BY <1>0, <2>2, <2>3, <3>1, <3>2 DEF Seat
    <3>3. CASE stage[p] # "in"
      BY <1>0, <2>2, <2>3, <3>1, <3>3 DEF Seat
    <3> QED
      BY <3>2, <3>3
  <2> QED
    BY <2>4, <2>5 DEF Seats
<1>2. ASSUME ~Speaks(p), NEW r \in Peer, r # p PROVE Seat(r)'
  <2>1. /\ stage'[r] = stage[r] /\ conn'[r] = conn[r] /\ rc'[r] = rc[r] /\ bound'[r] = bound[r]
        /\ raced'[r] = raced[r] /\ \A x \in Path : r \in up'[x] <=> r \in up[x]
    BY <1>2, OthersStep DEF Others
  <2>2. owed'[r] = owed[r] /\ \A x \in Path : wire'[x][r] = wire[x][r]
    BY <1>2, QuietStep DEF Quiet
  <2> QED
    BY <2>1, <2>2, SeatSame DEF Seats
<1>3. ASSUME ~Speaks(p) PROVE Seat(p)'
  <2>1. CASE JoinPrimary(p)
    <3>1. PICK ok \in BOOLEAN :
            /\ up' = IF ok THEN [up EXCEPT !["primary"] = @ \cup {p}] ELSE up
            /\ conn' = [conn EXCEPT ![p].room = TRUE, ![p].closed = FALSE, ![p].handlers = @ \/ ok]
      BY <2>1 DEF JoinPrimary
    <3>2. /\ stage[p] = "out" /\ stage'[p] = "joining"
          /\ UNCHANGED <<owed, rc, bound>>
      BY <1>0, <2>1 DEF JoinPrimary
    <3>3. p \in up'["primary"] => ok
      BY <1>0, <3>1, <3>2 DEF Seat
    <3>4. ok => conn'[p].handlers
      BY <1>0, <3>1 DEF Conn
    <3> QED
      BY <1>0, <3>2, <3>3, <3>4 DEF Seat
  <2>2. CASE JoinFallback(p)
    <3>1. PICK ok \in BOOLEAN :
            /\ up' = IF ok THEN [up EXCEPT !["fallback"] = @ \cup {p}] ELSE up
            /\ stage' = [stage EXCEPT ![p] = IF ok \/ conn[p].handlers THEN "in" ELSE "out"]
            /\ bound' = [bound EXCEPT ![p] = ok \/ conn[p].handlers]
      BY <2>2 DEF JoinFallback
    <3>2. stage[p] = "joining" /\ UNCHANGED <<owed, rc, conn>>
      BY <2>2 DEF JoinFallback
    <3>3. p \in up'["primary"] => p \in up["primary"]
      BY <1>0, <3>1 DEF Path
    <3>4. CASE ok \/ conn[p].handlers
      <4>1. stage'[p] = "in" /\ bound'[p]
        BY <1>0, <3>1, <3>4
      <4> QED
        BY <1>0, <3>2, <3>3, <4>1 DEF Seat
    <3>5. CASE ~(ok \/ conn[p].handlers)
      <4>1. stage'[p] = "out" /\ ~bound'[p] /\ ~conn'[p].handlers
        BY <1>0, <3>1, <3>2, <3>5
      <4> QED
        BY <1>0, <3>2, <3>3, <4>1 DEF Seat
    <3> QED
      BY <3>4, <3>5
  <2>3. CASE Leave(p)
    <3>1. stage'[p] = "leaving" /\ ~bound'[p] /\ ~conn'[p].handlers /\ rc' = rc
      BY <1>0, <2>3 DEF Leave, Conn
    <3>2. ~raced'[p] => rc[p].at = "idle"
      BY <1>0, <2>3 DEF Leave
    <3> QED
      BY <3>1, <3>2 DEF Seat
  <2>4. CASE Left(p)
    <3>1. stage[p] = "leaving" /\ stage'[p] = "left" /\ UNCHANGED <<rc, bound, raced>>
      BY <1>0, <2>4 DEF Left
    <3>2. conn'[p].handlers = conn[p].handlers
      BY <1>0, <2>4 DEF Left, Conn
    <3>3. \A x \in Path : p \notin up'[x] /\ wire'[x][p] = <<>>
      BY <1>0, <2>4 DEF Left
    <3> QED
      BY <1>0, <3>1, <3>2, <3>3 DEF Seat
  <2>5. CASE Drop(p)
    <3>1. stage[p] = "in" /\ UNCHANGED <<stage, conn, rc, bound, raced, owed>>
      BY <2>5 DEF Drop
    <3>2. p \notin up'["primary"]
      BY <1>0, <2>5 DEF Drop, Path
    <3> QED
      BY <1>0, <3>1, <3>2 DEF Seat
  <2>6. CASE Attempt(p)
    <3>1. rc[p].at = "backoff" /\ UNCHANGED <<stage, bound, raced, owed>>
      BY <2>6 DEF Attempt
    <3>2. stage[p] \notin {"out", "joining"} /\ (stage[p] # "in" => raced[p])
      BY <1>0, <3>1 DEF Seat, Stage
    <3>3. p \in up'["primary"] /\ stage[p] = "in" => conn'[p].handlers
      <4>1. CASE UNCHANGED <<up, conn>>
        BY <1>0, <4>1 DEF Seat
      <4>2. CASE ~UNCHANGED <<up, conn>>
        <5>1. PICK ok \in BOOLEAN :
                /\ up' = [up EXCEPT !["primary"] =
                            IF ok /\ conn[p].room THEN @ \cup {p} ELSE @ \ {p}]
                /\ conn' = [conn EXCEPT ![p].handlers = @ \/ ok]
          BY <2>6, <4>2 DEF Attempt
        <5>2. p \in up'["primary"] => ok
          BY <1>0, <5>1 DEF Path
        <5>3. ok => conn'[p].handlers
          BY <1>0, <5>1 DEF Conn
        <5> QED
          BY <5>2, <5>3
      <4> QED
        BY <4>1, <4>2
    <3> QED
      BY <1>0, <3>1, <3>2, <3>3 DEF Seat
  <2>7. CASE Replay(p)
    <3>1. rc[p].at = "replay" /\ UNCHANGED <<stage, up, bound, raced, owed, wire>>
      BY <2>7 DEF Replay
    <3>2. stage[p] \notin {"out", "joining"} /\ (stage[p] # "in" => raced[p])
      BY <1>0, <3>1 DEF Seat, Stage
    <3>3. conn'[p].handlers = conn[p].handlers
      BY <1>0, <2>7 DEF Replay, Conn
    <3> QED
      BY <1>0, <3>1, <3>2, <3>3 DEF Seat
  <2>8. ASSUME NEW x \in Path, Deliver(p, x) PROVE Seat(p)'
    <3>1. wire[x][p] # <<>> /\ UNCHANGED <<stage, up, rc, bound, raced, owed>>
      BY <2>8 DEF Deliver
    <3>2. conn'[p].handlers = conn[p].handlers
      BY <1>0, <2>8 DEF Deliver, Conn
    <3>3. ~(stage[p] = "left" /\ ~raced[p])
      BY <1>0, <3>1 DEF Seat
    <3> QED
      BY <1>0, <3>1, <3>2, <3>3 DEF Seat
  <2> QED
    BY <1>3, <2>1, <2>2, <2>3, <2>4, <2>5, <2>6, <2>7, <2>8 DEF Step, Speaks
<1> QED
  BY <1>1, <1>2, <1>3 DEF Seats

-----------------------------------------------------------------------------
(* Nothing that was logged is lost, but for what the replay did not ask.   *)

\* On its way to p by the primary path, handed over or overtaken, or not asked for.
Caught(p, e) ==
  /\ stage[p] = "in" /\ p \in up["primary"] /\ synced[p] /\ e.from # p
  => \/ \E i \in 1 .. Len(wire["primary"][p]) : wire["primary"][p][i] = e
     \/ ~IsNew(p, e) \/ e.seq =< asked[p]
AllCaught == \A p \in Peer : \A e \in owed[p] : Caught(p, e)

\* Behind a peer that goes on, what is on its way stays on its way.
LEMMA CaughtSame ==
  ASSUME Types, NEW r \in Peer, NEW e \in Envelope, Caught(r, e),
         stage'[r] = stage[r], r \in up'["primary"] => r \in up["primary"], synced'[r] = synced[r],
         asked'[r] = asked[r], \A q \in Peer : win'[r][q] >= win[r][q] /\ win'[r][q] \in Int,
         \/ wire'["primary"][r] = wire["primary"][r]
         \/ \E d \in Envelope : wire'["primary"][r] = Append(wire["primary"][r], d)
  PROVE  Caught(r, e)'
<1>0. /\ e.from \in Peer /\ e.seq \in Int /\ win[r][e.from] \in Int
      /\ wire["primary"][r] \in Seq(Envelope)
  <2>1. e.from \in Peer /\ e.seq \in Int
    BY DEF Envelope
  <2>2. win[r][e.from] \in Int
    BY <2>1 DEF Types, SeenTypes
  <2>3. wire["primary"][r] \in Seq(Envelope)
    BY DEF Types, MailTypes, Path
  <2> QED
    BY <2>1, <2>2, <2>3
<1>1. ~IsNew(r, e) => ~IsNew(r, e)'
  BY <1>0 DEF IsNew
<1>2. ASSUME NEW i \in 1 .. Len(wire["primary"][r]), wire["primary"][r][i] = e
      PROVE  \E j \in 1 .. Len(wire'["primary"][r]) : wire'["primary"][r][j] = e
  <2>1. CASE wire'["primary"][r] = wire["primary"][r]
    BY <1>2, <2>1
  <2>2. ASSUME NEW d \in Envelope, wire'["primary"][r] = Append(wire["primary"][r], d)
        PROVE  \E j \in 1 .. Len(wire'["primary"][r]) : wire'["primary"][r][j] = e
    <3>1. /\ Len(Append(wire["primary"][r], d)) = Len(wire["primary"][r]) + 1
          /\ Append(wire["primary"][r], d)[i] = wire["primary"][r][i]
          /\ Len(wire["primary"][r]) \in Nat
      BY <1>0, <1>2
    <3>2. i \in 1 .. Len(wire'["primary"][r])
      BY <1>2, <2>2, <3>1
    <3> QED
      BY <1>2, <2>2, <3>1, <3>2
  <2> QED
    BY <2>1, <2>2
<1> QED
  BY <1>1, <1>2 DEF Caught

LEMMA CaughtStep ==
  ASSUME Types, Bounded, Handed, Seats, Logged, AllCaught, NEW p \in Peer, Step(p), SeenTypes'
  PROVE  AllCaught'
<1>0. /\ \A r, q \in Peer : win[r][q] \in Int /\ win'[r][q] \in Int
      /\ \A r \in Peer : owed[r] \in SUBSET Envelope /\ owed[r] \subseteq log
      /\ \A r \in Peer : \A e \in owed[r] : Caught(r, e) /\ e \in Envelope
      /\ Seat(p) /\ conn[p] \in Conn
  BY DEF Types, SeenTypes, MailTypes, LoopTypes, AllCaught, Logged, Seats
<1>1. ASSUME Speaks(p) PROVE AllCaught'
  <2>1. PICK x \in Path, d \in Envelope : Sends(x, d)
    BY <1>1, SpeaksIs
  <2>2. /\ \A q \in Peer : wire'["primary"][q] = wire["primary"][q]
              \/ wire'["primary"][q] = Append(wire["primary"][q], d)
        /\ \A q \in Peer : owed'[q] = owed[q]
              \/ (/\ owed'[q] = owed[q] \cup {d}
                  /\ q \in up["primary"] /\ q # d.from
                       => wire'["primary"][q] = Append(wire["primary"][q], d))
    <3>1. "primary" \in Path
      BY DEF Path
    <3> QED
      BY <2>1, <3>1, SendIs
  <2>3. UNCHANGED <<stage, up, win, synced, asked>>
    BY <1>1, SpeaksIs
  <2>4. SUFFICES ASSUME NEW r \in Peer, NEW e \in owed'[r] PROVE Caught(r, e)'
    BY DEF AllCaught
  <2>5. CASE e \in owed[r]
    <3>1. \A q \in Peer : win'[r][q] >= win[r][q] /\ win'[r][q] \in Int
      BY <1>0, <2>3
    <3> QED
      BY <1>0, <2>2, <2>3, <2>5, <3>1, CaughtSame
  <2>6. CASE e \notin owed[r]
    <3>1. e = d /\ (r \in up["primary"] /\ r # d.from
                      => wire'["primary"][r] = Append(wire["primary"][r], d))
      BY <2>2, <2>4, <2>6
    <3>2. wire["primary"][r] \in Seq(Envelope)
      BY DEF Types, MailTypes, Path
    <3>3. r \in up["primary"] /\ r # d.from
            => \E i \in 1 .. Len(wire'["primary"][r]) : wire'["primary"][r][i] = d
      <4>1. SUFFICES ASSUME r \in up["primary"] /\ r # d.from
                     PROVE  \E i \in 1 .. Len(wire'["primary"][r]) : wire'["primary"][r][i] = d
        OBVIOUS
      <4>2. wire'["primary"][r] = Append(wire["primary"][r], d)
        BY <3>1, <4>1
      <4>3. /\ Len(Append(wire["primary"][r], d)) = Len(wire["primary"][r]) + 1
            /\ Append(wire["primary"][r], d)[Len(wire["primary"][r]) + 1] = d
            /\ Len(wire["primary"][r]) + 1 \in 1 .. Len(wire["primary"][r]) + 1
        BY <3>2, AppendProperties, LenProperties
      <4> QED
        BY <4>2, <4>3
    <3> QED
      BY <2>3, <3>1, <3>3 DEF Caught
  <2> QED
    BY <2>5, <2>6
<1>2. ASSUME ~Speaks(p), NEW r \in Peer, r # p, NEW e \in owed'[r] PROVE Caught(r, e)'
  <2>1. /\ stage'[r] = stage[r] /\ win'[r] = win[r] /\ synced'[r] = synced[r]
        /\ asked'[r] = asked[r] /\ (r \in up'["primary"] <=> r \in up["primary"])
    BY <1>2, OthersStep DEF Others, Path
  <2>2. owed'[r] = owed[r] /\ wire'["primary"][r] = wire["primary"][r]
    BY <1>2, QuietStep DEF Quiet, Path
  <2>3. \A q \in Peer : win'[r][q] >= win[r][q] /\ win'[r][q] \in Int
    BY <1>0, <2>1
  <2> QED
    BY <1>0, <1>2, <2>1, <2>2, <2>3, CaughtSame
<1>3. ASSUME ~Speaks(p), NEW e \in owed'[p] PROVE Caught(p, e)'
  <2>0. e \in owed[p] /\ e \in Envelope /\ Caught(p, e) /\ e \in log /\ e.seq \in Int /\ e.from \in Peer
    BY <1>0, <1>3, QuietStep DEF Envelope
  <2>1. CASE JoinPrimary(p) \/ Leave(p) \/ Left(p)
    <3>1. stage'[p] # "in"
      BY <2>1 DEF JoinPrimary, Leave, Left, Types, RoomTypes
    <3> QED
      BY <3>1 DEF Caught
  <2>2. CASE JoinFallback(p)
    <3>1. stage[p] = "joining"
      BY <2>2 DEF JoinFallback
    <3> QED
      BY <1>0, <2>0, <3>1 DEF Seat
  <2>3. CASE Drop(p)
    <3>1. ~synced'[p]
      BY <2>3 DEF Drop, Types, RoomTypes
    <3> QED
      BY <3>1 DEF Caught
  <2>4. CASE Attempt(p)
    <3>1. CASE rc[p].attempt >= MaxAttempts
      <4>1. UNCHANGED <<stage, up, wire, synced, win, asked>>
        BY <2>4, <3>1 DEF Attempt
      <4>2. \A q \in Peer : win'[p][q] >= win[p][q] /\ win'[p][q] \in Int
        BY <1>0, <4>1
      <4> QED
        BY <2>0, <4>1, <4>2, CaughtSame
    <3>2. CASE ~(rc[p].attempt >= MaxAttempts)
      <4>1. ~synced'[p]
        BY <2>4, <3>2 DEF Attempt, Types, RoomTypes
      <4> QED
        BY <4>1 DEF Caught
    <3> QED
      BY <3>1, <3>2
  <2>5. CASE Replay(p)
    <3>1. UNCHANGED stage /\ (bound[p] => Alive(p))
      BY <2>5, SeatAlive DEF Replay
    <3>2. synced'[p] /\ bound[p]
            => /\ asked'[p] = rc[p].since
               /\ \A d \in Missed(p, rc[p].since) : d.seq =< win'[p][d.from]
      BY <2>5, <3>1, ReplayIs
    <3>3. SUFFICES ASSUME stage[p] = "in", synced'[p], e.from # p
                   PROVE  ~IsNew(p, e)' \/ e.seq =< asked'[p]
      BY <3>1 DEF Caught
    <3>4. bound[p] /\ rc[p].since \in Int
      BY <1>0, <3>3 DEF Seat, Types, LoopTypes, Loop
    <3>5. CASE e.seq > rc[p].since
      <4>1. e \in Missed(p, rc[p].since)
        BY <2>0, <3>3, <3>5 DEF Missed
      <4>2. e.seq =< win'[p][e.from] /\ win'[p][e.from] \in Int
        BY <1>0, <2>0, <3>2, <3>3, <3>4, <4>1
      <4> QED
        BY <2>0, <4>2 DEF IsNew
    <3>6. CASE e.seq =< rc[p].since
      BY <3>2, <3>3, <3>4, <3>6
    <3> QED
      BY <2>0, <3>4, <3>5, <3>6
  <2>6. ASSUME NEW x \in Path, Deliver(p, x) PROVE Caught(p, e)'
    <3>0. UNCHANGED <<stage, up, synced, asked>>
      BY <2>6 DEF Deliver
    <3>1. ~Leave(p)
      BY <2>6, <3>0 DEF Leave, Types, RoomTypes
    <3>2. \A q \in Peer : win'[p][q] >= win[p][q] /\ win'[p][q] \in Int
      BY <1>0, <3>1, HandsOn
    <3>3. CASE x # "primary"
      <4>1. wire'["primary"][p] = wire["primary"][p]
        BY <2>6, <3>3 DEF Deliver, Types, MailTypes, Path
      <4> QED
        BY <2>0, <3>0, <3>2, <4>1, CaughtSame
    <3>4. CASE x = "primary"
      <4> DEFINE w == wire["primary"][p]
      <4>1. w \in Seq(Envelope) /\ w # <<>> /\ wire'["primary"][p] = Tail(w)
        BY <2>6, <3>4 DEF Deliver, Types, MailTypes, Path
      <4>2. SUFFICES ASSUME stage[p] = "in", p \in up["primary"], synced[p], e.from # p
                     PROVE  \/ \E i \in 1 .. Len(wire'["primary"][p]) : wire'["primary"][p][i] = e
                            \/ ~IsNew(p, e)' \/ e.seq =< asked'[p]
        BY <3>0 DEF Caught
      <4>3. \/ \E i \in 1 .. Len(w) : w[i] = e
            \/ ~IsNew(p, e) \/ e.seq =< asked[p]
        BY <2>0, <4>2 DEF Caught
      <4>4. CASE ~IsNew(p, e) \/ e.seq =< asked[p]
        <5>1. win'[p][e.from] >= win[p][e.from] /\ win'[p][e.from] \in Int /\ win[p][e.from] \in Int
          BY <1>0, <2>0, <3>2
        <5> QED
          BY <2>0, <3>0, <4>4, <5>1 DEF IsNew
      <4>5. ASSUME NEW i \in 1 .. Len(w), w[i] = e
            PROVE  \/ \E j \in 1 .. Len(wire'["primary"][p]) : wire'["primary"][p][j] = e
                   \/ ~IsNew(p, e)'
        <5>1. CASE i = 1
          <6>1. Head(w) = e
            BY <4>1, <4>5, <5>1
          <6>2. conn[p].handlers /\ bound[p]
            BY <1>0, <4>2 DEF Seat
          <6>3. Hand(p, e)
            BY <2>6, <3>4, <6>1, <6>2 DEF Deliver
          <6>4. e.seq =< win'[p][e.from]
            BY <2>0, <6>2, <6>3, HandIs, SeatAlive
          <6> QED
            BY <1>0, <2>0, <6>4 DEF IsNew
        <5>2. CASE i # 1
          <6>1. /\ i - 1 \in 1 .. Len(Tail(w)) /\ Tail(w)[i - 1] = w[i]
            BY <4>1, <5>2
          <6> QED
            BY <4>1, <4>5, <6>1
        <5> QED
          BY <5>1, <5>2
      <4> QED
        BY <4>3, <4>4, <4>5
    <3> QED
      BY <3>3, <3>4
  <2> QED
    BY <1>3, <2>1, <2>2, <2>3, <2>4, <2>5, <2>6 DEF Step, Speaks
<1> QED
  BY <1>1, <1>2, <1>3 DEF AllCaught

-----------------------------------------------------------------------------
(* The theorems.                                                           *)

PathsInv ==
  Types /\ Bounded /\ Handed /\ Seats /\ Logged /\ OneEach /\ AllCaught

LEMMA PathsInit == Init => PathsInv
<1> SUFFICES ASSUME Init PROVE PathsInv
  OBVIOUS
<1>0. /\ stage = [p \in Peer |-> "out"] /\ up = [x \in Path |-> {}] /\ log = {}
      /\ wire = [x \in Path |-> [p \in Peer |-> <<>>]] /\ rc = [p \in Peer |-> Idle]
      /\ bound = [p \in Peer |-> FALSE] /\ emits = [p \in Peer |-> {}]
      /\ got = [p \in Peer |-> [q \in Peer |-> <<>>]] /\ owed = [p \in Peer |-> {}]
      /\ conn = [p \in Peer |-> [room |-> FALSE, closed |-> FALSE,
                                 handlers |-> FALSE, lastSeq |-> -1]]
  BY DEF Init
<1>1. MailTypes
  <2>1. <<>> \in Seq(Envelope)
    OBVIOUS
  <2> QED
    BY <1>0, <2>1 DEF MailTypes
<1>2. RoomTypes
  BY DEF Init, RoomTypes, Stage
<1>3. LoopTypes
  BY DEF Init, LoopTypes, Conn, Loop, Idle
<1>4. SeenTypes
  <2>1. <<>> \in Seq(Nat)
    OBVIOUS
  <2> QED
    BY <2>1 DEF Init, SeenTypes
<1>5. Bounded
  BY <1>0 DEF Bounded
<1>6. Handed
  <2>1. \A p, q \in Peer : got[p][q] = <<>>
    BY <1>0
  <2>2. \A p, q \in Peer : 1 .. Len(got[p][q]) = {}
    BY <2>1
  <2> QED
    BY <2>2 DEF Handed, Rises, Covers
<1>7. Seats
  <2>1. \A p \in Peer : /\ stage[p] = "out" /\ ~bound[p] /\ owed[p] = {} /\ rc[p].at = "idle"
                        /\ p \notin up["primary"] /\ ~conn[p].handlers
    BY <1>0 DEF Idle, Path
  <2> QED
    BY <2>1 DEF Seats, Seat
<1>8. Logged /\ OneEach /\ AllCaught
  BY <1>0 DEF Logged, OneEach, Owned, Waiting, Idle, AllCaught
<1> QED
  BY <1>1, <1>2, <1>3, <1>4, <1>5, <1>6, <1>7, <1>8 DEF PathsInv, Types

LEMMA PathsStep == PathsInv /\ [Next]_vars => PathsInv'
<1> SUFFICES ASSUME PathsInv, [Next]_vars PROVE PathsInv'
  OBVIOUS
<1>1. CASE Next
  <2>1. PICK p \in Peer : Step(p)
    BY <1>1, NextIs
  <2>2. MailTypes' /\ RoomTypes' /\ LoopTypes'
    BY <2>1, MailStep, RoomStep, LoopStep DEF PathsInv
  <2>3. SeenTypes' /\ Handed'
    BY <2>1, HandedStep DEF PathsInv
  <2>4. Bounded' /\ Logged'
    BY <2>1, LogStep DEF PathsInv
  <2>5. Seats'
    BY <2>1, SeatsStep DEF PathsInv
  <2>6. OneEach'
    BY <2>1, OwnedStep DEF PathsInv
  <2>7. AllCaught'
    BY <2>1, <2>3, CaughtStep DEF PathsInv
  <2> QED
    BY <2>2, <2>3, <2>4, <2>5, <2>6, <2>7 DEF PathsInv, Types
<1>2. CASE UNCHANGED vars
  <2>1. /\ UNCHANGED <<stage, up, conn, rc, win, bound, wire, log, emits, seq, got>>
        /\ UNCHANGED <<synced, owed, raced, asked>>
    BY <1>2 DEF vars, transport
  <2>2. Types'
    BY <2>1 DEF PathsInv, Types, MailTypes, RoomTypes, LoopTypes, SeenTypes
  <2>3. Bounded' /\ Logged' /\ Handed'
    BY <2>1 DEF PathsInv, Bounded, Logged, Handed, Rises, Covers, Alive
  <2>4. Seats' /\ OneEach'
    BY <2>1 DEF PathsInv, Seats, Seat, OneEach, Owned, Waiting
  <2>5. AllCaught'
    BY <2>1 DEF PathsInv, AllCaught, Caught, IsNew
  <2> QED
    BY <2>2, <2>3, <2>4, <2>5 DEF PathsInv
<1> QED
  BY <1>1, <1>2

LEMMA PathsHold == Spec => []PathsInv
BY PathsInit, PathsStep, PTL DEF Spec

\* Over two paths, with retries, fallbacks after a delivered try and replays,
\* the composite hands the Room the envelopes of each sender in rising order and
\* none twice (isNew, composite.ts:47), for any peers and bounds.
THEOREM RisesAlways == Spec => []HandedRising
<1>1. PathsInv => HandedRising
  <2>1. SUFFICES ASSUME PathsInv, NEW p \in Peer, NEW q \in Peer
                 PROVE  \A i, j \in DOMAIN got[p][q] : i < j => got[p][q][i] < got[p][q][j]
    BY DEF HandedRising
  <2>2. got[p][q] \in Seq(Nat)
    BY <2>1 DEF PathsInv, Types, SeenTypes
  <2>3. DOMAIN got[p][q] = 1 .. Len(got[p][q])
    BY <2>2, LenProperties
  <2> QED
    BY <2>1, <2>3 DEF PathsInv, Handed, Rises
<1> QED
  BY <1>1, PathsHold, PTL

\* A reconnect belongs to exactly one emit() (the `reconnecting' flag,
\* reconnecting.ts:112); after it the Room has been handed all that was logged, or
\* a newer envelope of the sender, but for numbers that fetchSignals was not asked
\* for; and a Room that has left holds neither path, unless leave() overlapped a
\* reconnect: for any peers, bounds and number of attempts.
THEOREM RecoversAlways == Spec => []PathsRecover
<1>1. PathsInv => OneOwner
  <2>1. SUFFICES ASSUME PathsInv, NEW p \in Peer
                 PROVE  Cardinality(Waiting(p)) = IF rc[p].at = "idle" THEN 0 ELSE 1
    BY DEF OneOwner, Waiting
  <2>2. Owned(p)
    BY <2>1 DEF PathsInv, OneEach
  <2>3. CASE rc[p].at = "idle"
    BY <2>2, <2>3, FS_EmptySet DEF Owned
  <2>4. CASE rc[p].at # "idle"
    BY <2>2, <2>4, FS_Singleton DEF Owned
  <2> QED
    BY <2>3, <2>4
<1>2. PathsInv => MissingIsOld
  <2>1. SUFFICES ASSUME PathsInv, NEW p \in Peer, NEW e \in owed[p],
                        stage[p] = "in", p \in up["primary"], synced[p], e.from # p,
                        wire["primary"][p] = <<>>
                 PROVE  ~IsNew(p, e) \/ e.seq <= asked[p]
    BY DEF MissingIsOld
  <2>2. Caught(p, e)
    BY <2>1 DEF PathsInv, AllCaught
  <2>3. 1 .. Len(wire["primary"][p]) = {}
    BY <2>1
  <2> QED
    BY <2>1, <2>2, <2>3 DEF Caught
<1>3. PathsInv => LeftIsGone
  BY DEF PathsInv, Seats, Seat, LeftIsGone
<1> QED
  BY <1>1, <1>2, <1>3, PathsHold, PTL DEF PathsRecover
=============================================================================
