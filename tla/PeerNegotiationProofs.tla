----------------------- MODULE PeerNegotiationProofs -----------------------
(***************************************************************************)
(* Theorems about PeerNegotiation, for any number of tracks: the state     *)
(* keeps its type, one offer is made at a time, and, unless descriptions   *)
(* are handled concurrently, the impolite peer's offer is never rolled     *)
(* back.                                                                   *)
(***************************************************************************)
EXTENDS PeerNegotiation, TLAPS

States == {"stable", "have-local-offer", "have-remote-offer"}

\* OneOfferAtATime of one chain c with flag m.
OneOffer(c, m) ==
  /\ m <=> \E i \in 1 .. Len(c) : c[i].op \in OfferOps
  /\ \A i, j \in 1 .. Len(c) : c[i].op \in OfferOps /\ c[j].op \in OfferOps => i = j

-----------------------------------------------------------------------------
(* Chains.                                                                 *)

\* What the chain is after its head completes and its handler queues `more'.
LEMMA Shifted ==
  ASSUME NEW c \in Seq(Operation), c # <<>>, NEW more \in Seq(Operation), Len(more) <= 1
  PROVE  /\ Tail(c) \o more \in Seq(Operation)
         /\ Len(Tail(c) \o more) = Len(c) - 1 + Len(more)
         /\ Len(c) >= 1
         /\ \A i \in 1 .. Len(c) - 1 : (Tail(c) \o more)[i] = c[i + 1]
         /\ Len(more) = 1 => (Tail(c) \o more)[Len(c)] = more[1]
<1>1. Len(c) \in Nat /\ Len(c) >= 1
  OBVIOUS
<1>2. Tail(c) \in Seq(Operation) /\ Len(Tail(c)) = Len(c) - 1
  OBVIOUS
<1>3. \A i \in 1 .. Len(c) - 1 : Tail(c)[i] = c[i + 1]
  OBVIOUS
<1>4. Len(Tail(c) \o more) = Len(c) - 1 + Len(more)
  BY <1>2
<1>5. \A i \in 1 .. Len(c) - 1 : (Tail(c) \o more)[i] = c[i + 1]
  BY <1>1, <1>2, <1>3
<1>6. Len(more) = 1 => (Tail(c) \o more)[Len(c)] = more[1]
  BY <1>1, <1>2
<1>. QED
  BY <1>1, <1>2, <1>4, <1>5, <1>6

\* What the chain is after a handler queues `more'.
LEMMA Extended ==
  ASSUME NEW c \in Seq(Operation), NEW more \in Seq(Operation), Len(more) <= 1
  PROVE  /\ c \o more \in Seq(Operation)
         /\ Len(c \o more) = Len(c) + Len(more)
         /\ \A i \in 1 .. Len(c) : (c \o more)[i] = c[i]
         /\ Len(more) = 1 => (c \o more)[Len(c) + 1] = more[1]
  OBVIOUS

LEMMA SingleOp ==
  ASSUME NEW x \in Operation
  PROVE  <<x>> \in Seq(Operation) /\ Len(<<x>>) = 1 /\ <<x>>[1] = x
  OBVIOUS

LEMMA NoOp == <<>> \in Seq(Operation) /\ Len(<<>>) = 0
  OBVIOUS

LEMMA AtMostOne ==
  ASSUME NEW s \in Seq(Operation), Len(s) <= 1
  PROVE  Len(s) = 0 \/ Len(s) = 1
<1>1. Len(s) \in Nat
  OBVIOUS
<1>2. \A n \in Nat : n <= 1 => n = 0 \/ n = 1
  OBVIOUS
<1>. QED
  BY <1>1, <1>2

\* A chain whose offer stands at position k.
LEMMA OfferAt ==
  ASSUME NEW c, NEW k \in 1 .. Len(c), c[k].op \in OfferOps,
         \A i \in 1 .. Len(c) : c[i].op \in OfferOps => i = k
  PROVE  OneOffer(c, TRUE)
<1>1. TRUE <=> \E i \in 1 .. Len(c) : c[i].op \in OfferOps
  OBVIOUS
<1>2. \A i, j \in 1 .. Len(c) : c[i].op \in OfferOps /\ c[j].op \in OfferOps => i = j
  OBVIOUS
<1>. QED
  BY <1>1, <1>2 DEF OneOffer

\* The offer being made fails or is sent.
LEMMA OfferLeaves ==
  ASSUME NEW c \in Seq(Operation), c # <<>>, NEW m \in BOOLEAN, OneOffer(c, m),
         Head(c).op \in OfferOps
  PROVE  OneOffer(Tail(c) \o <<>>, FALSE)
<1>. DEFINE d == Tail(c) \o <<>>
<1>1. /\ Len(d) = Len(c) - 1
      /\ Len(c) >= 1 /\ Len(c) \in Nat
      /\ \A i \in 1 .. Len(c) - 1 : d[i] = c[i + 1]
  BY Shifted, NoOp
<1>2. c[1].op \in OfferOps
  OBVIOUS
<1>3. \A i \in 1 .. Len(c) - 1 : i + 1 \in 1 .. Len(c) /\ i + 1 # 1 /\ 1 \in 1 .. Len(c)
  BY <1>1
<1>4. \A i \in 1 .. Len(d) : d[i].op \notin OfferOps
  BY <1>1, <1>2, <1>3 DEF OneOffer
<1>. QED
  BY <1>4 DEF OneOffer

\* createOffer() is followed by setLocalDescription(offer).
LEMMA OfferMoves ==
  ASSUME NEW c \in Seq(Operation), c # <<>>, NEW m \in BOOLEAN, OneOffer(c, m),
         Head(c).op \in OfferOps, NEW x \in Operation, x.op \in OfferOps
  PROVE  m = TRUE /\ OneOffer(Tail(c) \o <<x>>, TRUE)
<1>. DEFINE d == Tail(c) \o <<x>>
<1>1. /\ Len(d) = Len(c) - 1 + Len(<<x>>)
      /\ Len(c) >= 1
      /\ \A i \in 1 .. Len(c) - 1 : d[i] = c[i + 1]
      /\ Len(<<x>>) = 1 => d[Len(c)] = <<x>>[1]
  <2>1. <<x>> \in Seq(Operation) /\ Len(<<x>>) <= 1
    BY SingleOp
  <2>. QED
    BY <2>1, Shifted
<1>2. Len(d) = Len(c) /\ Len(c) \in Nat /\ d[Len(c)] = x
  BY <1>1, SingleOp
<1>3. c[1].op \in OfferOps
  OBVIOUS
<1>4. \A i \in 1 .. Len(c) - 1 : i + 1 \in 1 .. Len(c) /\ i + 1 # 1 /\ 1 \in 1 .. Len(c)
  BY <1>1, <1>2
<1>5. \A i \in 1 .. Len(c) - 1 : d[i].op \notin OfferOps
  BY <1>1, <1>3, <1>4 DEF OneOffer
<1>6. 1 \in 1 .. Len(c) /\ Len(c) \in 1 .. Len(d)
  BY <1>1, <1>2
<1>7. m
  BY <1>3, <1>6 DEF OneOffer
<1>8. ASSUME NEW i \in 1 .. Len(d), d[i].op \in OfferOps
      PROVE  i = Len(c)
  <2>1. i \in 1 .. Len(c) - 1 \/ i = Len(c)
    BY <1>2
  <2>. QED
    BY <2>1, <1>5, <1>8
<1>9. Len(c) \in 1 .. Len(d) /\ d[Len(c)].op \in OfferOps
  BY <1>2, <1>6
<1>10. OneOffer(d, TRUE)
  <2>. HIDE DEF d
  <2>. QED
    BY <1>8, <1>9, OfferAt
<1>. QED
  BY <1>7, <1>10

\* A handler of a description goes on to its next operation, or ends.
LEMMA OthersMove ==
  ASSUME NEW c \in Seq(Operation), c # <<>>, NEW m \in BOOLEAN, OneOffer(c, m),
         Head(c).op \notin OfferOps, NEW more \in Seq(Operation), Len(more) <= 1,
         Len(more) = 1 => more[1].op \notin OfferOps
  PROVE  OneOffer(Tail(c) \o more, m)
<1>. DEFINE d == Tail(c) \o more
<1>1. /\ Len(d) = Len(c) - 1 + Len(more)
      /\ Len(c) >= 1 /\ Len(c) \in Nat
      /\ \A i \in 1 .. Len(c) - 1 : d[i] = c[i + 1]
      /\ Len(more) = 1 => d[Len(c)] = more[1]
  BY Shifted
<1>2. c[1].op \notin OfferOps
  OBVIOUS
<1>3. Len(more) = 0 \/ Len(more) = 1
  BY AtMostOne
<1>4. \A i \in 1 .. Len(d) : d[i].op \in OfferOps => i \in 1 .. Len(c) - 1
  BY <1>1, <1>3
<1>5. \A i \in 1 .. Len(c) - 1 : i \in 1 .. Len(d) /\ i + 1 \in 1 .. Len(c)
  BY <1>1, <1>3
<1>6. \A k \in 1 .. Len(c) : c[k].op \in OfferOps => k - 1 \in 1 .. Len(c) - 1 /\ d[k - 1] = c[k]
  BY <1>1, <1>2
<1>7. m <=> \E i \in 1 .. Len(d) : d[i].op \in OfferOps
  <2>1. ASSUME m PROVE \E i \in 1 .. Len(d) : d[i].op \in OfferOps
    <3>1. PICK k \in 1 .. Len(c) : c[k].op \in OfferOps
      BY <2>1 DEF OneOffer
    <3>. QED
      BY <3>1, <1>5, <1>6
  <2>2. ASSUME NEW i \in 1 .. Len(d), d[i].op \in OfferOps PROVE m
    <3>1. i + 1 \in 1 .. Len(c) /\ c[i + 1].op \in OfferOps
      BY <2>2, <1>1, <1>4, <1>5
    <3>. QED
      BY <3>1 DEF OneOffer
  <2>. QED
    BY <2>1, <2>2
<1>8. ASSUME NEW i \in 1 .. Len(d), NEW j \in 1 .. Len(d),
             d[i].op \in OfferOps, d[j].op \in OfferOps
      PROVE  i = j
  <2>1. /\ i + 1 \in 1 .. Len(c) /\ c[i + 1].op \in OfferOps
        /\ j + 1 \in 1 .. Len(c) /\ c[j + 1].op \in OfferOps
    BY <1>8, <1>1, <1>4, <1>5
  <2>2. i + 1 = j + 1
    BY <2>1 DEF OneOffer
  <2>. QED
    BY <2>2
<1>. QED
  BY <1>7, <1>8 DEF OneOffer

\* negotiate() queues createOffer().
LEMMA OfferQueued ==
  ASSUME NEW c \in Seq(Operation), OneOffer(c, FALSE), NEW x \in Operation, x.op \in OfferOps
  PROVE  OneOffer(Append(c, x), TRUE)
<1>1. /\ Len(Append(c, x)) = Len(c) + 1 /\ Len(c) \in Nat
      /\ \A i \in 1 .. Len(c) : Append(c, x)[i] = c[i]
      /\ Append(c, x)[Len(c) + 1] = x
  OBVIOUS
<1>2. \A i \in 1 .. Len(c) : c[i].op \notin OfferOps
  BY DEF OneOffer
<1>3. \A i \in 1 .. Len(Append(c, x)) : Append(c, x)[i].op \in OfferOps => i = Len(c) + 1
  BY <1>1, <1>2
<1>4. /\ Len(c) + 1 \in 1 .. Len(Append(c, x))
      /\ Append(c, x)[Len(c) + 1].op \in OfferOps
  BY <1>1
<1>. DEFINE d == Append(c, x)
           k == Len(c) + 1
<1>5. /\ k \in 1 .. Len(d) /\ d[k].op \in OfferOps
      /\ \A i \in 1 .. Len(d) : d[i].op \in OfferOps => i = k
  BY <1>3, <1>4
<1>6. OneOffer(d, TRUE)
  <2>. HIDE DEF d, k
  <2>. QED
    BY <1>5, OfferAt
<1>. QED
  BY <1>6

\* A description's handler queues its first operation, if it has one.
LEMMA OtherQueued ==
  ASSUME NEW c \in Seq(Operation), NEW m \in BOOLEAN, OneOffer(c, m),
         NEW more \in Seq(Operation), Len(more) <= 1,
         Len(more) = 1 => more[1].op \notin OfferOps
  PROVE  OneOffer(c \o more, m)
<1>. DEFINE d == c \o more
<1>1. /\ Len(d) = Len(c) + Len(more) /\ Len(c) \in Nat
      /\ \A i \in 1 .. Len(c) : d[i] = c[i]
      /\ Len(more) = 1 => d[Len(c) + 1] = more[1]
  BY Extended
<1>2. Len(more) = 0 \/ Len(more) = 1
  BY AtMostOne
<1>3. \A i \in 1 .. Len(d) : d[i].op \in OfferOps => i \in 1 .. Len(c) /\ c[i].op \in OfferOps
  BY <1>1, <1>2
<1>4. \A i \in 1 .. Len(c) : i \in 1 .. Len(d) /\ d[i] = c[i]
  BY <1>1, <1>2
<1>. QED
  BY <1>3, <1>4 DEF OneOffer

-----------------------------------------------------------------------------
(* The impolite peer while no two descriptions are handled at once.        *)

\* At most one description is being handled; it is not backed out of; a remote
\* offer is next on the chain and finds the connection stable; its answer is
\* made in have-remote-offer.
CalmChain(c, state) ==
  \A i \in 1 .. Len(c) : c[i].op \notin OfferOps =>
    /\ \A j \in 1 .. Len(c) : c[j].op \notin OfferOps => i = j
    /\ c[i].op # "rollback"
    /\ c[i].op = "setRemote" /\ c[i].desc.type = "offer" => i = 1 /\ state = "stable"
    /\ c[i].op = "setAnswer" => state = "have-remote-offer"

\* An offer operation completes; the state is left alone or was not
\* have-remote-offer.
LEMMA CalmOfferMoves ==
  ASSUME NEW c \in Seq(Operation), c # <<>>, NEW old, NEW new, CalmChain(c, old),
         Head(c).op \in OfferOps, NEW more \in Seq(Operation), Len(more) <= 1,
         Len(more) = 1 => more[1].op \in OfferOps,
         new = old \/ old # "have-remote-offer"
  PROVE  CalmChain(Tail(c) \o more, new)
<1>. DEFINE d == Tail(c) \o more
<1>1. /\ Len(d) = Len(c) - 1 + Len(more)
      /\ Len(c) >= 1 /\ Len(c) \in Nat
      /\ \A i \in 1 .. Len(c) - 1 : d[i] = c[i + 1]
      /\ Len(more) = 1 => d[Len(c)] = more[1]
  BY Shifted
<1>2. c[1].op \in OfferOps
  OBVIOUS
<1>3. Len(more) = 0 \/ Len(more) = 1
  BY AtMostOne
<1>4. \A i \in 1 .. Len(d) : d[i].op \notin OfferOps =>
        i + 1 \in 1 .. Len(c) /\ i + 1 # 1 /\ d[i] = c[i + 1]
  <2>1. SUFFICES ASSUME NEW i \in 1 .. Len(d), d[i].op \notin OfferOps
                 PROVE  i \in 1 .. Len(c) - 1
    BY <1>1
  <2>2. i \in 1 .. Len(c) - 1 \/ (i = Len(c) /\ Len(more) = 1)
    BY <1>1, <1>3
  <2>. QED
    BY <2>1, <2>2, <1>1
<1>. SUFFICES ASSUME NEW i \in 1 .. Len(d), d[i].op \notin OfferOps
              PROVE  /\ \A j \in 1 .. Len(d) : d[j].op \notin OfferOps => i = j
                     /\ d[i].op # "rollback"
                     /\ ~(d[i].op = "setRemote" /\ d[i].desc.type = "offer")
                     /\ d[i].op = "setAnswer" => new = "have-remote-offer"
  BY DEF CalmChain
<1>5. i + 1 \in 1 .. Len(c) /\ i + 1 # 1 /\ d[i] = c[i + 1]
  BY <1>4
<1>6. ASSUME NEW j \in 1 .. Len(d), d[j].op \notin OfferOps PROVE i = j
  <2>1. j + 1 \in 1 .. Len(c) /\ d[j] = c[j + 1]
    BY <1>4, <1>6
  <2>2. i + 1 = j + 1
    BY <2>1, <1>5, <1>6 DEF CalmChain
  <2>. QED
    BY <2>2
<1>7. d[i].op # "rollback"
  BY <1>5 DEF CalmChain
<1>8. ~(d[i].op = "setRemote" /\ d[i].desc.type = "offer")
  BY <1>5 DEF CalmChain
<1>9. d[i].op = "setAnswer" => new = "have-remote-offer"
  BY <1>5 DEF CalmChain
<1>. QED
  BY <1>6, <1>7, <1>8, <1>9

\* The handler of a description ends, or goes on to make the answer.
LEMMA CalmOthersMove ==
  ASSUME NEW c \in Seq(Operation), c # <<>>, NEW old, NEW new, CalmChain(c, old),
         Head(c).op \notin OfferOps, NEW more \in Seq(Operation), Len(more) <= 1,
         Len(more) = 1 => more[1].op = "setAnswer" /\ new = "have-remote-offer"
  PROVE  CalmChain(Tail(c) \o more, new)
<1>. DEFINE d == Tail(c) \o more
<1>1. /\ Len(d) = Len(c) - 1 + Len(more)
      /\ Len(c) >= 1 /\ Len(c) \in Nat
      /\ \A i \in 1 .. Len(c) - 1 : d[i] = c[i + 1]
      /\ Len(more) = 1 => d[Len(c)] = more[1]
  BY Shifted
<1>2. c[1].op \notin OfferOps /\ 1 \in 1 .. Len(c)
  BY <1>1
<1>3. Len(more) = 0 \/ Len(more) = 1
  BY AtMostOne
<1>4. \A i \in 1 .. Len(c) - 1 : i + 1 \in 1 .. Len(c) /\ i + 1 # 1
  BY <1>1
<1>5. \A i \in 1 .. Len(c) - 1 : d[i].op \in OfferOps
  BY <1>1, <1>2, <1>4 DEF CalmChain
<1>6. ASSUME NEW i \in 1 .. Len(d), d[i].op \notin OfferOps
      PROVE  i = Len(c) /\ d[i].op = "setAnswer" /\ new = "have-remote-offer"
  <2>1. i \in 1 .. Len(c) - 1 \/ (i = Len(c) /\ Len(more) = 1)
    BY <1>1, <1>3
  <2>. QED
    BY <2>1, <1>1, <1>5, <1>6
<1>. QED
  BY <1>6 DEF CalmChain

\* negotiate() queues createOffer().
LEMMA CalmOfferQueued ==
  ASSUME NEW c \in Seq(Operation), NEW state, CalmChain(c, state),
         NEW x \in Operation, x.op \in OfferOps
  PROVE  CalmChain(Append(c, x), state)
<1>1. /\ Len(Append(c, x)) = Len(c) + 1 /\ Len(c) \in Nat
      /\ \A i \in 1 .. Len(c) : Append(c, x)[i] = c[i]
      /\ Append(c, x)[Len(c) + 1] = x
  OBVIOUS
<1>2. ASSUME NEW i \in 1 .. Len(Append(c, x)), Append(c, x)[i].op \notin OfferOps
      PROVE  i \in 1 .. Len(c) /\ Append(c, x)[i] = c[i]
  <2>1. i \in 1 .. Len(c) \/ i = Len(c) + 1
    BY <1>1
  <2>. QED
    BY <2>1, <1>1, <1>2
<1>. QED
  BY <1>2 DEF CalmChain

\* A description arrives while none is being handled; an offer that is not
\* ignored finds the chain empty and the connection stable.
LEMMA CalmAccepted ==
  ASSUME NEW c \in Seq(Operation), NEW state, \A i \in 1 .. Len(c) : c[i].op \in OfferOps,
         NEW x \in Operation, x.op = "setRemote",
         x.desc.type = "offer" => Len(c) = 0 /\ state = "stable"
  PROVE  CalmChain(c \o <<x>>, state)
<1>. DEFINE d == c \o <<x>>
<1>1. /\ Len(d) = Len(c) + 1 /\ Len(c) \in Nat
      /\ \A i \in 1 .. Len(c) : d[i] = c[i]
      /\ d[Len(c) + 1] = x
  OBVIOUS
<1>2. ASSUME NEW i \in 1 .. Len(d), d[i].op \notin OfferOps
      PROVE  i = Len(c) + 1 /\ d[i] = x
  <2>1. i \in 1 .. Len(c) \/ i = Len(c) + 1
    BY <1>1
  <2>. QED
    BY <2>1, <1>1, <1>2
<1>3. ASSUME NEW i \in 1 .. Len(d), d[i].op \notin OfferOps
      PROVE  /\ \A j \in 1 .. Len(d) : d[j].op \notin OfferOps => i = j
             /\ d[i].op # "rollback"
             /\ d[i].op = "setRemote" /\ d[i].desc.type = "offer" => i = 1 /\ state = "stable"
             /\ d[i].op = "setAnswer" => state = "have-remote-offer"
  <2>1. \A j \in 1 .. Len(d) : d[j].op \notin OfferOps => i = j
    BY <1>2, <1>3
  <2>2. d[i] = x /\ i = Len(c) + 1
    BY <1>2, <1>3
  <2>. QED
    BY <2>1, <2>2, <1>1
<1>. QED
  BY <1>3 DEF CalmChain

-----------------------------------------------------------------------------
(* The inductive invariant.                                                *)

Chains == \A p \in Peer : OneOffer(chain[p], makingOffer[p])

Calm == ~rushed => CalmChain(chain[Impolite], signaling[Impolite])

IInv == TypeOK /\ Chains /\ Calm

LEMMA ChainStep ==
  ASSUME TypeOK, Chains, NEW p \in Peer, NEW d \in Seq(Operation), NEW m \in BOOLEAN,
         OneOffer(d, m),
         chain' = [chain EXCEPT ![p] = d],
         makingOffer' = [makingOffer EXCEPT ![p] = m]
  PROVE  /\ chain' \in [Peer -> Seq(Operation)]
         /\ makingOffer' \in [Peer -> BOOLEAN]
         /\ Chains'
<1>1. chain \in [Peer -> Seq(Operation)] /\ makingOffer \in [Peer -> BOOLEAN]
  BY DEF TypeOK
<1>2. chain' \in [Peer -> Seq(Operation)]
  BY <1>1
<1>3. makingOffer' \in [Peer -> BOOLEAN]
  BY <1>1
<1>4. ASSUME NEW q \in Peer PROVE OneOffer(chain'[q], makingOffer'[q])
  <2>1. CASE q = p
    <3>1. chain'[q] = d
      BY <2>1, <1>1
    <3>2. makingOffer'[q] = m
      BY <2>1, <1>1
    <3>. QED
      BY <3>1, <3>2
  <2>2. CASE q # p
    <3>1. chain'[q] = chain[q]
      BY <2>2, <1>1
    <3>2. makingOffer'[q] = makingOffer[q]
      BY <2>2, <1>1
    <3>3. OneOffer(chain[q], makingOffer[q])
      BY DEF Chains
    <3>. QED
      BY <3>1, <3>2, <3>3
  <2>. QED
    BY <2>1, <2>2
<1>. QED
  BY <1>2, <1>3, <1>4 DEF Chains

LEMMA CalmStep ==
  ASSUME TypeOK, Calm, NEW p \in Peer, NEW d \in Seq(Operation), NEW state,
         chain' = [chain EXCEPT ![p] = d],
         signaling' = [signaling EXCEPT ![p] = state],
         rushed => rushed',
         p = Impolite /\ ~rushed' => CalmChain(d, state)
  PROVE  Calm'
<1>1. chain \in [Peer -> Seq(Operation)] /\ signaling \in [Peer -> States] /\ Impolite \in Peer
  BY DEF TypeOK, States, Peer
<1>2. CASE p = Impolite
  <2>1. chain'[Impolite] = d
    BY <1>1, <1>2
  <2>2. signaling'[Impolite] = state
    BY <1>1, <1>2
  <2>. QED
    BY <1>2, <2>1, <2>2 DEF Calm
<1>3. CASE p # Impolite
  <2>1. chain'[Impolite] = chain[Impolite]
    BY <1>1, <1>3
  <2>2. signaling'[Impolite] = signaling[Impolite]
    BY <1>1, <1>3
  <2>. QED
    BY <2>1, <2>2 DEF Calm
<1>. QED
  BY <1>2, <1>3

\* What the invariant says of the peer that takes a step.
LEMMA AtPeer ==
  ASSUME IInv, NEW p \in Peer
  PROVE  /\ chain[p] \in Seq(Operation)
         /\ makingOffer[p] \in BOOLEAN
         /\ signaling[p] \in States
         /\ OneOffer(chain[p], makingOffer[p])
         /\ p = Impolite /\ ~rushed => CalmChain(chain[p], signaling[p])
         /\ makingOffer = [makingOffer EXCEPT ![p] = makingOffer[p]]
         /\ signaling = [signaling EXCEPT ![p] = signaling[p]]
         /\ Other(p) \in Peer
<1>1. /\ chain \in [Peer -> Seq(Operation)]
      /\ makingOffer \in [Peer -> BOOLEAN]
      /\ signaling \in [Peer -> States]
  BY DEF IInv, TypeOK, States
<1>2. OneOffer(chain[p], makingOffer[p])
  BY DEF IInv, Chains
<1>3. p = Impolite /\ ~rushed => CalmChain(chain[p], signaling[p])
  BY DEF IInv, Calm
<1>4. makingOffer = [makingOffer EXCEPT ![p] = makingOffer[p]]
  BY <1>1
<1>5. signaling = [signaling EXCEPT ![p] = signaling[p]]
  BY <1>1
<1>6. Other(p) \in Peer
  BY DEF Other, Peer
<1>. QED
  BY <1>1, <1>2, <1>3, <1>4, <1>5, <1>6

\* The operation at the head of a chain, and the description it carries.
LEMMA HeadTyped ==
  ASSUME NEW c \in Seq(Operation), c # <<>>
  PROVE  /\ Head(c) \in Operation
         /\ Head(c).op # "createOffer" => Head(c).desc \in Description
<1>1. Head(c) \in Operation
  OBVIOUS
<1>. QED
  BY <1>1 DEF Operation

LEMMA DescTyped ==
  ASSUME TypeOK, NEW p \in Peer, NEW type \in {"offer", "answer"}
  PROVE  /\ Offer(p, type) \in Description
         /\ Answer(p) \in Description
         /\ version[p] + 1 \in Nat
<1>1. version[p] \in Nat /\ tracks[p] \in 0 .. MaxTracks /\ remote[p] \in 0 .. MaxTracks
  BY DEF TypeOK
<1>. QED
  BY <1>1 DEF Offer, Answer, Description

-----------------------------------------------------------------------------
(* The steps.                                                              *)

\* negotiate() up to its first await.
LEMMA NegotiateOK ==
  ASSUME IInv, NEW p \in Peer, Negotiate(p), UNCHANGED <<signaling, rushed>>
  PROVE  /\ chain' \in [Peer -> Seq(Operation)]
         /\ makingOffer' \in [Peer -> BOOLEAN]
         /\ Chains'
         /\ Calm'
<1>1. CASE UNCHANGED <<makingOffer, chain>>
  BY <1>1 DEF IInv, TypeOK, Chains, Calm
<1>2. CASE /\ ~makingOffer[p]
           /\ makingOffer' = [makingOffer EXCEPT ![p] = TRUE]
           /\ Awaits(p, [op |-> "createOffer"])
  <2>. DEFINE x == [op |-> "createOffer"]
              d == Append(chain[p], x)
  <2>1. x \in Operation /\ x.op \in OfferOps
    BY DEF Operation, OfferOps
  <2>2. chain' = [chain EXCEPT ![p] = d]
    BY <1>2 DEF Awaits
  <2>3. OneOffer(chain[p], FALSE) /\ chain[p] \in Seq(Operation)
    <3>1. makingOffer[p] = FALSE
      BY <1>2, AtPeer
    <3>. QED
      BY <3>1, AtPeer
  <2>4. d \in Seq(Operation) /\ OneOffer(d, TRUE)
    <3>1. d \in Seq(Operation)
      BY <2>1, <2>3
    <3>2. OneOffer(d, TRUE)
      BY <2>1, <2>3, OfferQueued
    <3>. QED
      BY <3>1, <3>2
  <2>5. p = Impolite /\ ~rushed' => CalmChain(d, signaling[p])
    BY <2>1, AtPeer, CalmOfferQueued
  <2>6. signaling' = [signaling EXCEPT ![p] = signaling[p]]
    BY AtPeer
  <2>. HIDE DEF d
  <2>7. chain' \in [Peer -> Seq(Operation)] /\ makingOffer' \in [Peer -> BOOLEAN] /\ Chains'
    BY <1>2, <2>2, <2>4, ChainStep DEF IInv
  <2>8. Calm'
    BY <2>2, <2>4, <2>5, <2>6, CalmStep DEF IInv
  <2>. QED
    BY <2>7, <2>8
<1>. QED
  BY <1>1, <1>2 DEF Negotiate

LEMMA PublishOK == ASSUME IInv, NEW p \in Peer, Publish(p) PROVE IInv'
<1>1. /\ chain' \in [Peer -> Seq(Operation)] /\ makingOffer' \in [Peer -> BOOLEAN]
      /\ Chains' /\ Calm'
  BY NegotiateOK DEF Publish
<1>2. tracks' \in [Peer -> 0 .. MaxTracks]
  <2>1. tracks \in [Peer -> 0 .. MaxTracks] /\ MaxTracks \in Nat
    BY NegotiationAssumption DEF IInv, TypeOK
  <2>2. tracks[p] + 1 \in 0 .. MaxTracks
    BY <2>1 DEF Publish
  <2>. QED
    BY <2>1, <2>2 DEF Publish
<1>3. TypeOK'
  BY <1>1, <1>2 DEF IInv, TypeOK, Publish
<1>. QED
  BY <1>1, <1>3 DEF IInv

LEMMA NegotiationNeededOK == ASSUME IInv, NEW p \in Peer, NegotiationNeeded(p) PROVE IInv'
<1>1. /\ chain' \in [Peer -> Seq(Operation)] /\ makingOffer' \in [Peer -> BOOLEAN]
      /\ Chains' /\ Calm'
  BY NegotiateOK DEF NegotiationNeeded
<1>2. needed' \in [Peer -> BOOLEAN]
  BY DEF IInv, TypeOK, NegotiationNeeded
<1>3. TypeOK'
  BY <1>1, <1>2 DEF IInv, TypeOK, NegotiationNeeded
<1>. QED
  BY <1>1, <1>3 DEF IInv

\* A step that completes the operation at the head of p's chain.
LEMMA CompletesOK ==
  ASSUME IInv, NEW p \in Peer, chain[p] # <<>>,
         NEW more \in Seq(Operation), Len(more) <= 1, Completes(p, more),
         NEW m \in BOOLEAN, makingOffer' = [makingOffer EXCEPT ![p] = m],
         OneOffer(Tail(chain[p]) \o more, m),
         NEW state \in States, signaling' = [signaling EXCEPT ![p] = state],
         UNCHANGED rushed,
         p = Impolite /\ ~rushed => CalmChain(Tail(chain[p]) \o more, state)
  PROVE  /\ chain' \in [Peer -> Seq(Operation)]
         /\ makingOffer' \in [Peer -> BOOLEAN]
         /\ signaling' \in [Peer -> States]
         /\ Chains'
         /\ Calm'
<1>. DEFINE d == Tail(chain[p]) \o more
<1>1. d \in Seq(Operation)
  BY AtPeer, Shifted
<1>2. chain' = [chain EXCEPT ![p] = d]
  BY DEF Completes
<1>3. OneOffer(d, m) /\ (p = Impolite /\ ~rushed' => CalmChain(d, state))
  OBVIOUS
<1>4. signaling' \in [Peer -> States]
  BY DEF IInv, TypeOK, States
<1>. HIDE DEF d
<1>5. chain' \in [Peer -> Seq(Operation)] /\ makingOffer' \in [Peer -> BOOLEAN] /\ Chains'
  BY <1>1, <1>2, <1>3, ChainStep DEF IInv
<1>6. Calm'
  BY <1>1, <1>2, <1>3, CalmStep DEF IInv
<1>. QED
  BY <1>4, <1>5, <1>6

\* Sending and the flag of the connection keep their types.
LEMMA SendTyped ==
  ASSUME TypeOK, NEW p \in Peer, NEW desc \in Description, Send(p, desc)
  PROVE  wire' \in [Peer -> Seq(Description)]
<1>1. wire \in [Peer -> Seq(Description)] /\ Other(p) \in Peer
  BY DEF TypeOK, Other, Peer
<1>2. Append(wire[Other(p)], desc) \in Seq(Description)
  BY <1>1
<1>. QED
  BY <1>1, <1>2 DEF Send

LEMMA BecomesTyped ==
  ASSUME TypeOK, NEW p \in Peer, NEW state \in States, Becomes(p, state)
  PROVE  /\ signaling' = [signaling EXCEPT ![p] = state]
         /\ needed' \in [Peer -> BOOLEAN]
<1>1. needed \in [Peer -> BOOLEAN] /\ needed[p] \in BOOLEAN
  BY DEF TypeOK
<1>2. needed' = [needed EXCEPT ![p] = @ /\ state # "stable"]
  BY DEF Becomes
<1>3. (needed[p] /\ state # "stable") \in BOOLEAN
  OBVIOUS
<1>. QED
  BY <1>1, <1>2, <1>3 DEF Becomes

LEMMA OfferCreatedOK == ASSUME IInv, NEW p \in Peer, OfferCreated(p) PROVE IInv'
<1>. DEFINE x == [op |-> "setOffer", desc |-> Offer(p, "offer")]
<1>1. x \in Operation /\ x.op \in OfferOps
  <2>1. Offer(p, "offer") \in Description
    BY DescTyped DEF IInv
  <2>. QED
    BY <2>1 DEF Operation, OfferOps
<1>2. <<x>> \in Seq(Operation) /\ Len(<<x>>) = 1 /\ <<x>>[1] = x
  BY <1>1, SingleOp
<1>3. chain[p] # <<>> /\ Head(chain[p]).op \in OfferOps
  BY DEF OfferCreated, Running, OfferOps
<1>4. Completes(p, <<x>>)
  BY DEF OfferCreated
<1>5. makingOffer[p] = TRUE /\ OneOffer(Tail(chain[p]) \o <<x>>, TRUE)
  <2>. HIDE DEF x
  <2>. QED
    BY <1>1, <1>3, AtPeer, OfferMoves
<1>6. p = Impolite /\ ~rushed => CalmChain(Tail(chain[p]) \o <<x>>, signaling[p])
  <2>. DEFINE more == <<x>>
  <2>1. more \in Seq(Operation) /\ Len(more) <= 1 /\ (Len(more) = 1 => more[1].op \in OfferOps)
    BY <1>1, <1>2
  <2>. HIDE DEF more
  <2>2. p = Impolite /\ ~rushed => CalmChain(Tail(chain[p]) \o more, signaling[p])
    BY <1>3, <2>1, AtPeer, CalmOfferMoves
  <2>. QED
    BY <2>2 DEF more
<1>7. makingOffer' = [makingOffer EXCEPT ![p] = TRUE]
  BY <1>5, AtPeer DEF OfferCreated
<1>8. signaling' = [signaling EXCEPT ![p] = signaling[p]] /\ signaling[p] \in States
  BY AtPeer DEF OfferCreated
<1>9. UNCHANGED rushed
  BY DEF OfferCreated
<1>. DEFINE more == <<x>>
<1>13. /\ more \in Seq(Operation) /\ Len(more) <= 1 /\ Completes(p, more)
       /\ OneOffer(Tail(chain[p]) \o more, TRUE)
       /\ (p = Impolite /\ ~rushed => CalmChain(Tail(chain[p]) \o more, signaling[p]))
  <2>1. more \in Seq(Operation) /\ Len(more) = 1
    BY <1>2
  <2>2. Len(more) <= 1
    BY <2>1
  <2>3. Completes(p, more)
    BY <1>4
  <2>4. OneOffer(Tail(chain[p]) \o more, TRUE)
    BY <1>5
  <2>5. p = Impolite /\ ~rushed => CalmChain(Tail(chain[p]) \o more, signaling[p])
    BY <1>6
  <2>. QED
    BY <2>1, <2>2, <2>3, <2>4, <2>5
<1>. HIDE DEF x, more
<1>10. /\ chain' \in [Peer -> Seq(Operation)] /\ makingOffer' \in [Peer -> BOOLEAN]
       /\ Chains' /\ Calm'
  BY <1>3, <1>7, <1>8, <1>9, <1>13, CompletesOK
<1>11. version' \in [Peer -> Nat]
  BY DEF OfferCreated, Versioned, IInv, TypeOK
<1>12. TypeOK'
  BY <1>10, <1>11 DEF IInv, TypeOK, OfferCreated
<1>. QED
  BY <1>10, <1>12 DEF IInv

\* The head operation is an offer operation and nothing follows it.
LEMMA OfferEnds ==
  ASSUME IInv, NEW p \in Peer, chain[p] # <<>>, Head(chain[p]).op \in OfferOps,
         Completes(p, <<>>), makingOffer' = [makingOffer EXCEPT ![p] = FALSE],
         NEW state \in States, signaling' = [signaling EXCEPT ![p] = state],
         state = signaling[p] \/ signaling[p] # "have-remote-offer",
         UNCHANGED rushed
  PROVE  /\ chain' \in [Peer -> Seq(Operation)]
         /\ makingOffer' \in [Peer -> BOOLEAN]
         /\ signaling' \in [Peer -> States]
         /\ Chains'
         /\ Calm'
<1>. DEFINE more == <<>>
<1>1. more \in Seq(Operation) /\ Len(more) <= 1 /\ Len(more) # 1
  BY NoOp
<1>2. OneOffer(Tail(chain[p]) \o more, FALSE)
  BY AtPeer, OfferLeaves
<1>3. Completes(p, more)
  OBVIOUS
<1>. HIDE DEF more
<1>4. p = Impolite /\ ~rushed => CalmChain(Tail(chain[p]) \o more, state)
  BY <1>1, AtPeer, CalmOfferMoves
<1>. QED
  BY <1>1, <1>2, <1>3, <1>4, CompletesOK

\* The head operation belongs to the handler of a description, which ends.
LEMMA OtherEnds ==
  ASSUME IInv, NEW p \in Peer, chain[p] # <<>>, Head(chain[p]).op \notin OfferOps,
         Completes(p, <<>>), UNCHANGED makingOffer,
         NEW state \in States, signaling' = [signaling EXCEPT ![p] = state],
         UNCHANGED rushed
  PROVE  /\ chain' \in [Peer -> Seq(Operation)]
         /\ makingOffer' \in [Peer -> BOOLEAN]
         /\ signaling' \in [Peer -> States]
         /\ Chains'
         /\ Calm'
<1>. DEFINE more == <<>>
<1>1. more \in Seq(Operation) /\ Len(more) <= 1 /\ Len(more) # 1
  BY NoOp
<1>2. Completes(p, more)
  OBVIOUS
<1>. HIDE DEF more
<1>3. OneOffer(Tail(chain[p]) \o more, makingOffer[p])
  BY <1>1, AtPeer, OthersMove
<1>4. p = Impolite /\ ~rushed => CalmChain(Tail(chain[p]) \o more, state)
  BY <1>1, AtPeer, CalmOthersMove
<1>5. makingOffer' = [makingOffer EXCEPT ![p] = makingOffer[p]] /\ makingOffer[p] \in BOOLEAN
  BY AtPeer
<1>. QED
  BY <1>1, <1>2, <1>3, <1>4, <1>5, CompletesOK

LEMMA OfferSetOK == ASSUME IInv, NEW p \in Peer, OfferSet(p) PROVE IInv'
<1>. DEFINE offer == Head(chain[p]).desc
<1>1. chain[p] # <<>> /\ Head(chain[p]).op = "setOffer"
  BY DEF OfferSet, Running
<1>2. offer \in Description
  BY <1>1, AtPeer, HeadTyped
<1>3. signaling' = [signaling EXCEPT ![p] = "have-local-offer"] /\ needed' \in [Peer -> BOOLEAN]
  BY BecomesTyped DEF OfferSet, States, IInv
<1>4. signaling[p] # "have-remote-offer"
  BY DEF OfferSet, MayOffer
<1>5. /\ chain' \in [Peer -> Seq(Operation)] /\ makingOffer' \in [Peer -> BOOLEAN]
      /\ signaling' \in [Peer -> States] /\ Chains' /\ Calm'
  <2>1. "have-local-offer" \in States /\ Head(chain[p]).op \in OfferOps
    BY <1>1 DEF States, OfferOps
  <2>2. /\ Completes(p, <<>>) /\ makingOffer' = [makingOffer EXCEPT ![p] = FALSE]
        /\ UNCHANGED rushed
    BY DEF OfferSet
  <2>. QED
    BY <1>1, <1>3, <1>4, <2>1, <2>2, OfferEnds
<1>6. local' \in [Peer -> 0 .. MaxTracks]
  <2>1. offer.tracks \in 0 .. MaxTracks
    BY <1>2 DEF Description
  <2>2. local' = [local EXCEPT ![p] = offer.tracks]
    BY DEF OfferSet
  <2>. QED
    BY <2>1, <2>2 DEF IInv, TypeOK
<1>7. wire' \in [Peer -> Seq(Description)]
  BY <1>2, SendTyped DEF OfferSet, IInv
<1>8. TypeOK'
  BY <1>3, <1>5, <1>6, <1>7 DEF IInv, TypeOK, OfferSet, States
<1>. QED
  BY <1>5, <1>8 DEF IInv

LEMMA OfferFailsOK == ASSUME IInv, NEW p \in Peer, OfferFails(p) PROVE IInv'
<1>1. chain[p] # <<>> /\ Head(chain[p]).op \in OfferOps
  BY DEF OfferFails, Running
<1>2. signaling' = [signaling EXCEPT ![p] = signaling[p]] /\ signaling[p] \in States
  BY AtPeer DEF OfferFails
<1>3. /\ chain' \in [Peer -> Seq(Operation)] /\ makingOffer' \in [Peer -> BOOLEAN]
      /\ Chains' /\ Calm'
  <2>1. /\ Completes(p, <<>>) /\ makingOffer' = [makingOffer EXCEPT ![p] = FALSE]
        /\ UNCHANGED rushed
    BY DEF OfferFails
  <2>. QED
    BY <1>1, <1>2, <2>1, OfferEnds
<1>4. TypeOK'
  BY <1>3 DEF IInv, TypeOK, OfferFails
<1>. QED
  BY <1>3, <1>4 DEF IInv

\* The head operation belongs to the handler of a description, which goes on.
LEMMA OtherGoesOn ==
  ASSUME IInv, NEW p \in Peer, chain[p] # <<>>, Head(chain[p]).op \notin OfferOps,
         NEW x \in Operation, x.op \notin OfferOps,
         Completes(p, <<x>>), UNCHANGED makingOffer,
         NEW state \in States, signaling' = [signaling EXCEPT ![p] = state],
         UNCHANGED rushed,
         p = Impolite /\ ~rushed => x.op = "setAnswer" /\ state = "have-remote-offer"
  PROVE  /\ chain' \in [Peer -> Seq(Operation)]
         /\ makingOffer' \in [Peer -> BOOLEAN]
         /\ signaling' \in [Peer -> States]
         /\ Chains'
         /\ Calm'
<1>. DEFINE more == <<x>>
<1>1. more \in Seq(Operation) /\ Len(more) = 1 /\ more[1] = x
  BY SingleOp
<1>2. Len(more) <= 1
  BY <1>1
<1>3. Completes(p, more)
  OBVIOUS
<1>. HIDE DEF more
<1>4. OneOffer(Tail(chain[p]) \o more, makingOffer[p])
  BY <1>1, <1>2, AtPeer, OthersMove
<1>5. p = Impolite /\ ~rushed => CalmChain(Tail(chain[p]) \o more, state)
  BY <1>1, <1>2, AtPeer, CalmOthersMove
<1>6. makingOffer' = [makingOffer EXCEPT ![p] = makingOffer[p]] /\ makingOffer[p] \in BOOLEAN
  BY AtPeer
<1>. QED
  BY <1>1, <1>2, <1>3, <1>4, <1>5, <1>6, CompletesOK

\* What Calm says of the operation that is running at the impolite peer.
LEMMA CalmHead ==
  ASSUME NEW c \in Seq(Operation), c # <<>>, NEW state, CalmChain(c, state)
  PROVE  /\ Head(c).op # "rollback"
         /\ Head(c).op = "setRemote" /\ Head(c).desc.type = "offer" => state = "stable"
         /\ Head(c).op = "setAnswer" => state = "have-remote-offer"
<1>1. 1 \in 1 .. Len(c) /\ Head(c) = c[1]
  OBVIOUS
<1>. QED
  BY <1>1 DEF CalmChain, OfferOps

LEMMA RolledBackOK == ASSUME IInv, NEW p \in Peer, RolledBack(p) PROVE IInv'
<1>. DEFINE x == [op |-> "setRemote", desc |-> Head(chain[p]).desc]
<1>1. chain[p] # <<>> /\ Head(chain[p]).op = "rollback"
  BY DEF RolledBack, Running
<1>2. Head(chain[p]).op \notin OfferOps /\ Head(chain[p]).desc \in Description
  BY <1>1, AtPeer, HeadTyped DEF OfferOps
<1>3. x \in Operation /\ x.op \notin OfferOps
  BY <1>2 DEF Operation, OfferOps
<1>4. ~(p = Impolite /\ ~rushed)
  BY <1>1, AtPeer, CalmHead
<1>5. signaling' = [signaling EXCEPT ![p] = "stable"] /\ needed' \in [Peer -> BOOLEAN]
  BY BecomesTyped DEF RolledBack, States, IInv
<1>6. Completes(p, <<x>>) /\ UNCHANGED <<makingOffer, rushed>> /\ "stable" \in States
  BY DEF RolledBack, States
<1>. HIDE DEF x
<1>7. /\ chain' \in [Peer -> Seq(Operation)] /\ makingOffer' \in [Peer -> BOOLEAN]
      /\ signaling' \in [Peer -> States] /\ Chains' /\ Calm'
  BY <1>1, <1>2, <1>3, <1>4, <1>5, <1>6, OtherGoesOn
<1>8. TypeOK'
  BY <1>5, <1>7 DEF IInv, TypeOK, RolledBack, States
<1>. QED
  BY <1>7, <1>8 DEF IInv

LEMMA RollbackFailsOK == ASSUME IInv, NEW p \in Peer, RollbackFails(p) PROVE IInv'
<1>1. chain[p] # <<>> /\ Head(chain[p]).op \notin OfferOps
  BY DEF RollbackFails, Running, OfferOps
<1>2. signaling' = [signaling EXCEPT ![p] = signaling[p]] /\ signaling[p] \in States
  BY AtPeer DEF RollbackFails
<1>3. /\ chain' \in [Peer -> Seq(Operation)] /\ makingOffer' \in [Peer -> BOOLEAN]
      /\ Chains' /\ Calm'
  BY <1>1, <1>2, OtherEnds DEF RollbackFails
<1>4. TypeOK'
  BY <1>3 DEF IInv, TypeOK, RollbackFails
<1>. QED
  BY <1>3, <1>4 DEF IInv

LEMMA OfferAppliedOK == ASSUME IInv, NEW p \in Peer, OfferApplied(p) PROVE IInv'
<1>. DEFINE desc == Head(chain[p]).desc
            x == [op |-> "setAnswer", desc |-> desc]
<1>1. chain[p] # <<>> /\ Head(chain[p]).op = "setRemote"
  BY DEF OfferApplied, Running
<1>2. Head(chain[p]).op \notin OfferOps /\ desc \in Description
  BY <1>1, AtPeer, HeadTyped DEF OfferOps
<1>3. x \in Operation /\ x.op \notin OfferOps /\ x.op = "setAnswer"
  BY <1>2 DEF Operation, OfferOps
<1>4. /\ signaling' = [signaling EXCEPT ![p] = "have-remote-offer"]
      /\ needed' \in [Peer -> BOOLEAN]
  BY BecomesTyped DEF OfferApplied, States, IInv
<1>5. Completes(p, <<x>>) /\ UNCHANGED <<makingOffer, rushed>> /\ "have-remote-offer" \in States
  BY DEF OfferApplied, States
<1>6. remote' \in [Peer -> 0 .. MaxTracks] /\ guard' \in [Peer -> Nat]
  <2>1. desc.tracks \in 0 .. MaxTracks /\ desc.version \in Nat
    BY <1>2 DEF Description
  <2>2. remote' = [remote EXCEPT ![p] = desc.tracks] /\ guard' = [guard EXCEPT ![p] = desc.version]
    BY DEF OfferApplied
  <2>. QED
    BY <2>1, <2>2 DEF IInv, TypeOK
<1>. HIDE DEF x
<1>7. /\ chain' \in [Peer -> Seq(Operation)] /\ makingOffer' \in [Peer -> BOOLEAN]
      /\ signaling' \in [Peer -> States] /\ Chains' /\ Calm'
  BY <1>1, <1>2, <1>3, <1>4, <1>5, OtherGoesOn
<1>8. TypeOK'
  BY <1>4, <1>6, <1>7 DEF IInv, TypeOK, OfferApplied, States
<1>. QED
  BY <1>7, <1>8 DEF IInv

LEMMA AnswerAppliedOK == ASSUME IInv, NEW p \in Peer, AnswerApplied(p) PROVE IInv'
<1>. DEFINE desc == Head(chain[p]).desc
<1>1. chain[p] # <<>> /\ Head(chain[p]).op = "setRemote"
  BY DEF AnswerApplied, Running
<1>2. Head(chain[p]).op \notin OfferOps /\ desc \in Description
  BY <1>1, AtPeer, HeadTyped DEF OfferOps
<1>3. signaling' = [signaling EXCEPT ![p] = "stable"] /\ needed' \in [Peer -> BOOLEAN]
  BY BecomesTyped DEF AnswerApplied, States, IInv
<1>4. Completes(p, <<>>) /\ UNCHANGED <<makingOffer, rushed>> /\ "stable" \in States
  BY DEF AnswerApplied, States
<1>5. /\ chain' \in [Peer -> Seq(Operation)] /\ makingOffer' \in [Peer -> BOOLEAN]
      /\ signaling' \in [Peer -> States] /\ Chains' /\ Calm'
  BY <1>1, <1>2, <1>3, <1>4, OtherEnds
<1>6. agreed' \in [Peer -> 0 .. MaxTracks] /\ guard' \in [Peer -> Nat]
  <2>1. desc.tracks \in 0 .. MaxTracks /\ desc.version \in Nat
    BY <1>2 DEF Description
  <2>2. agreed' = [agreed EXCEPT ![p] = desc.tracks] /\ guard' = [guard EXCEPT ![p] = desc.version]
    BY DEF AnswerApplied
  <2>. QED
    BY <2>1, <2>2 DEF IInv, TypeOK
<1>7. TypeOK'
  BY <1>3, <1>5, <1>6 DEF IInv, TypeOK, AnswerApplied, States
<1>. QED
  BY <1>5, <1>7 DEF IInv

LEMMA AnswerFailsOK == ASSUME IInv, NEW p \in Peer, AnswerFails(p) PROVE IInv'
<1>1. chain[p] # <<>> /\ Head(chain[p]).op \notin OfferOps
  BY DEF AnswerFails, Running, OfferOps
<1>2. signaling' = [signaling EXCEPT ![p] = signaling[p]] /\ signaling[p] \in States
  BY AtPeer DEF AnswerFails
<1>3. /\ chain' \in [Peer -> Seq(Operation)] /\ makingOffer' \in [Peer -> BOOLEAN]
      /\ Chains' /\ Calm'
  BY <1>1, <1>2, OtherEnds DEF AnswerFails
<1>4. TypeOK'
  BY <1>3 DEF IInv, TypeOK, AnswerFails
<1>. QED
  BY <1>3, <1>4 DEF IInv

LEMMA AnswerSetOK == ASSUME IInv, NEW p \in Peer, AnswerSet(p) PROVE IInv'
<1>1. chain[p] # <<>> /\ Head(chain[p]).op \notin OfferOps
  BY DEF AnswerSet, Running, OfferOps
<1>2. signaling' = [signaling EXCEPT ![p] = "stable"] /\ needed' \in [Peer -> BOOLEAN]
  BY BecomesTyped DEF AnswerSet, States, IInv
<1>3. Completes(p, <<>>) /\ UNCHANGED <<makingOffer, rushed>> /\ "stable" \in States
  BY DEF AnswerSet, States
<1>4. /\ chain' \in [Peer -> Seq(Operation)] /\ makingOffer' \in [Peer -> BOOLEAN]
      /\ signaling' \in [Peer -> States] /\ Chains' /\ Calm'
  BY <1>1, <1>2, <1>3, OtherEnds
<1>5. wire' \in [Peer -> Seq(Description)] /\ version' \in [Peer -> Nat]
  <2>1. Answer(p) \in Description /\ version[p] + 1 \in Nat
    BY DescTyped DEF IInv
  <2>2. wire' \in [Peer -> Seq(Description)]
    BY <2>1, SendTyped DEF AnswerSet, IInv
  <2>3. version' \in [Peer -> Nat]
    BY <2>1 DEF AnswerSet, Versioned, IInv, TypeOK
  <2>. QED
    BY <2>2, <2>3
<1>6. TypeOK'
  BY <1>2, <1>4, <1>5 DEF IInv, TypeOK, AnswerSet, States
<1>. QED
  BY <1>4, <1>6 DEF IInv

LEMMA OfferSetAsAnswerOK == ASSUME IInv, NEW p \in Peer, OfferSetAsAnswer(p) PROVE IInv'
<1>1. chain[p] # <<>> /\ Head(chain[p]).op \notin OfferOps
  BY DEF OfferSetAsAnswer, Running, OfferOps
<1>2. /\ signaling' = [signaling EXCEPT ![p] = "have-local-offer"]
      /\ needed' \in [Peer -> BOOLEAN]
  BY BecomesTyped DEF OfferSetAsAnswer, States, IInv
<1>3. Completes(p, <<>>) /\ UNCHANGED <<makingOffer, rushed>> /\ "have-local-offer" \in States
  BY DEF OfferSetAsAnswer, States
<1>4. /\ chain' \in [Peer -> Seq(Operation)] /\ makingOffer' \in [Peer -> BOOLEAN]
      /\ signaling' \in [Peer -> States] /\ Chains' /\ Calm'
  BY <1>1, <1>2, <1>3, OtherEnds
<1>5. /\ wire' \in [Peer -> Seq(Description)] /\ version' \in [Peer -> Nat]
      /\ local' \in [Peer -> 0 .. MaxTracks]
  <2>1. Offer(p, "answer") \in Description /\ version[p] + 1 \in Nat
    BY DescTyped DEF IInv
  <2>2. wire' \in [Peer -> Seq(Description)]
    BY <2>1, SendTyped DEF OfferSetAsAnswer, IInv
  <2>3. version' \in [Peer -> Nat]
    BY <2>1 DEF OfferSetAsAnswer, Versioned, IInv, TypeOK
  <2>4. local' \in [Peer -> 0 .. MaxTracks]
    BY DEF OfferSetAsAnswer, IInv, TypeOK
  <2>. QED
    BY <2>2, <2>3, <2>4
<1>6. TypeOK'
  BY <1>2, <1>4, <1>5 DEF IInv, TypeOK, OfferSetAsAnswer, States
<1>. QED
  BY <1>4, <1>6 DEF IInv

LEMMA IgnoreOK == ASSUME IInv, NEW p \in Peer, Ignore(p) PROVE IInv'
<1>1. chain' = chain /\ UNCHANGED <<makingOffer, signaling>> /\ (rushed => rushed')
  <2>1. chain \in [Peer -> Seq(Operation)] /\ chain[p] \o <<>> = chain[p]
    BY AtPeer DEF IInv, TypeOK
  <2>2. chain' = [chain EXCEPT ![p] = @ \o <<>>]
    BY DEF Ignore, Handles
  <2>3. chain' = chain
    BY <2>1, <2>2
  <2>. QED
    BY <2>3 DEF Ignore, Handles
<1>2. Chains' /\ Calm'
  BY <1>1 DEF IInv, Chains, Calm
<1>3. wire' \in [Peer -> Seq(Description)] /\ rushed' \in BOOLEAN
  <2>1. wire \in [Peer -> Seq(Description)] /\ Tail(wire[p]) \in Seq(Description)
    BY DEF IInv, TypeOK, Ignore
  <2>2. wire' = [wire EXCEPT ![p] = Tail(@)]
    BY DEF Ignore, Handles
  <2>. QED
    BY <2>1, <2>2 DEF Ignore, Handles, IInv, TypeOK
<1>4. TypeOK'
  BY <1>1, <1>3 DEF IInv, TypeOK, Ignore, Handles
<1>. QED
  BY <1>2, <1>4 DEF IInv

LEMMA AcceptOK == ASSUME IInv, NEW p \in Peer, Accept(p) PROVE IInv'
<1>. DEFINE desc == Head(wire[p])
            x == [op |-> IF BacksOut(p, desc) THEN "rollback" ELSE "setRemote", desc |-> desc]
            d == chain[p] \o <<x>>
<1>1. wire[p] \in Seq(Description) /\ wire[p] # <<>> /\ desc \in Description
  BY DEF IInv, TypeOK, Accept
<1>2. x \in Operation /\ x.op \notin OfferOps
  BY <1>1 DEF Operation, OfferOps
<1>3. /\ wire' = [wire EXCEPT ![p] = Tail(@)]
      /\ chain' = [chain EXCEPT ![p] = d]
      /\ rushed' = (rushed \/ \E i \in DOMAIN chain[p] : chain[p][i].op \notin OfferOps)
      /\ UNCHANGED <<makingOffer, guard, signaling, local, remote, version, needed, tracks, agreed>>
      /\ ~IgnoresOffer(p, desc)
  BY DEF Accept, Handles
<1>4. d \in Seq(Operation) /\ OneOffer(d, makingOffer[p])
  <2>. DEFINE more == <<x>>
  <2>1. more \in Seq(Operation) /\ Len(more) = 1 /\ more[1] = x
    <3>. HIDE DEF x
    <3>. QED
      BY <1>2, SingleOp
  <2>2. Len(more) <= 1
    BY <2>1
  <2>3. more[1].op \notin OfferOps
    BY <1>2, <2>1
  <2>. HIDE DEF more
  <2>4. chain[p] \in Seq(Operation) /\ makingOffer[p] \in BOOLEAN
        /\ OneOffer(chain[p], makingOffer[p])
    BY AtPeer
  <2>5. chain[p] \o more \in Seq(Operation)
    BY <2>1, <2>4
  <2>6. OneOffer(chain[p] \o more, makingOffer[p])
    BY <2>1, <2>2, <2>3, <2>4, OtherQueued
  <2>. QED
    BY <2>5, <2>6 DEF more
<1>5. p = Impolite /\ ~rushed' => CalmChain(d, signaling[p])
  <2>1. SUFFICES ASSUME p = Impolite, ~rushed' PROVE CalmChain(d, signaling[p])
    OBVIOUS
  <2>2. \A i \in 1 .. Len(chain[p]) : chain[p][i].op \in OfferOps
    <3>1. chain[p] \in Seq(Operation)
      BY AtPeer
    <3>2. DOMAIN chain[p] = 1 .. Len(chain[p])
      BY <3>1
    <3>. QED
      BY <1>3, <2>1, <3>2
  <2>3. desc.type = "offer" => ~makingOffer[p] /\ signaling[p] = "stable"
    BY <1>3, <2>1 DEF IgnoresOffer, Collides
  <2>4. x.op = "setRemote" /\ x.desc = desc
    BY <2>3 DEF BacksOut
  <2>5. x.desc.type = "offer" => Len(chain[p]) = 0 /\ signaling[p] = "stable"
    <3>1. SUFFICES ASSUME desc.type = "offer" PROVE Len(chain[p]) = 0
      BY <2>3, <2>4
    <3>2. \A i \in 1 .. Len(chain[p]) : chain[p][i].op \notin OfferOps
      BY <2>3, <3>1, AtPeer DEF OneOffer
    <3>3. ~\E i \in 1 .. Len(chain[p]) : TRUE
      BY <2>2, <3>2
    <3>4. Len(chain[p]) \in Nat
      BY AtPeer
    <3>. QED
      BY <3>3, <3>4
  <2>. HIDE DEF x
  <2>. QED
    BY <1>2, <2>2, <2>4, <2>5, AtPeer, CalmAccepted
<1>6. /\ makingOffer' = [makingOffer EXCEPT ![p] = makingOffer[p]] /\ makingOffer[p] \in BOOLEAN
      /\ signaling' = [signaling EXCEPT ![p] = signaling[p]]
      /\ (rushed => rushed')
  BY <1>3, AtPeer
<1>7. chain' = [chain EXCEPT ![p] = d]
  BY <1>3
<1>. HIDE DEF d
<1>8. chain' \in [Peer -> Seq(Operation)] /\ makingOffer' \in [Peer -> BOOLEAN] /\ Chains'
  BY <1>4, <1>6, <1>7, ChainStep DEF IInv
<1>9. Calm'
  BY <1>4, <1>5, <1>6, <1>7, CalmStep DEF IInv
<1>10. wire' \in [Peer -> Seq(Description)] /\ rushed' \in BOOLEAN
  <2>1. wire \in [Peer -> Seq(Description)] /\ Tail(wire[p]) \in Seq(Description)
    BY <1>1 DEF IInv, TypeOK
  <2>. QED
    BY <1>3, <2>1 DEF IInv, TypeOK
<1>11. TypeOK'
  BY <1>3, <1>8, <1>10 DEF IInv, TypeOK
<1>. QED
  BY <1>8, <1>9, <1>11 DEF IInv

-----------------------------------------------------------------------------
(* The theorems.                                                           *)

LEMMA InitOK == Init => IInv
<1>. SUFFICES ASSUME Init PROVE IInv
  OBVIOUS
<1>1. TypeOK
  <2>1. <<>> \in Seq(Operation) /\ <<>> \in Seq(Description)
    OBVIOUS
  <2>2. 0 \in 0 .. MaxTracks
    BY NegotiationAssumption
  <2>. QED
    BY <2>1, <2>2 DEF Init, TypeOK
<1>2. \A p \in Peer : chain[p] = <<>> /\ makingOffer[p] = FALSE
  BY DEF Init
<1>3. OneOffer(<<>>, FALSE)
  BY DEF OneOffer
<1>4. Chains
  BY <1>2, <1>3 DEF Chains
<1>5. Calm
  <2>1. chain[Impolite] = <<>>
    BY <1>2 DEF Peer
  <2>2. \A state : CalmChain(<<>>, state)
    BY DEF CalmChain
  <2>. QED
    BY <2>1, <2>2 DEF Calm
<1>. QED
  BY <1>1, <1>4, <1>5 DEF IInv

LEMMA NextOK == IInv /\ [Next]_vars => IInv'
<1>. SUFFICES ASSUME IInv, [Next]_vars PROVE IInv'
  OBVIOUS
<1>1. CASE UNCHANGED vars
  BY <1>1 DEF vars, IInv, TypeOK, Chains, Calm
<1>2. CASE Next
  <2>1. PICK p \in Peer : Publish(p) \/ NegotiationNeeded(p) \/ Receive(p) \/ Operate(p)
    BY <1>2 DEF Next
  <2>2. CASE Publish(p)
    BY <2>2, PublishOK
  <2>3. CASE NegotiationNeeded(p)
    BY <2>3, NegotiationNeededOK
  <2>4. CASE Receive(p)
    BY <2>4, IgnoreOK, AcceptOK DEF Receive
  <2>5. CASE Operate(p)
    BY <2>5, OfferCreatedOK, OfferSetOK, OfferFailsOK, RolledBackOK, RollbackFailsOK,
       OfferAppliedOK, AnswerAppliedOK, AnswerFailsOK, AnswerSetOK, OfferSetAsAnswerOK
       DEF Operate
  <2>. QED
    BY <2>1, <2>2, <2>3, <2>4, <2>5
<1>. QED
  BY <1>1, <1>2

LEMMA InvariantHolds == Spec => []IInv
<1>. QED
  BY InitOK, NextOK, PTL DEF Spec

\* The state of both managers, their operations and envelopes keep their types.
THEOREM TypeCorrect == Spec => []TypeOK
<1>1. IInv => TypeOK
  BY DEF IInv
<1>. QED
  BY <1>1, InvariantHolds, PTL

\* For any number of tracks, makingOffer is up exactly while the peer's one
\* offer is being made.
THEOREM OfferGuarded == Spec => []OneOfferAtATime
<1>1. IInv => OneOfferAtATime
  <2>. SUFFICES ASSUME IInv, NEW p \in Peer
                PROVE  /\ makingOffer[p] <=> \E i \in DOMAIN chain[p] : chain[p][i].op \in OfferOps
                       /\ \A i, j \in DOMAIN chain[p] :
                            chain[p][i].op \in OfferOps /\ chain[p][j].op \in OfferOps => i = j
    BY DEF OneOfferAtATime
  <2>1. chain[p] \in Seq(Operation) /\ OneOffer(chain[p], makingOffer[p])
    BY AtPeer
  <2>2. DOMAIN chain[p] = 1 .. Len(chain[p])
    BY <2>1
  <2>. QED
    BY <2>1, <2>2 DEF OneOffer
<1>. QED
  BY <1>1, InvariantHolds, PTL
-----------------------------------------------------------------------------
\* For any number of tracks, while descriptions are handled one at a time the
\* impolite peer's pending offer ends only by the answer to it.
THEOREM ImpoliteKeepsOffer == Spec => ImpoliteNeverYields
<1>. DEFINE Kept ==
       ~rushed /\ signaling[Impolite] = "have-local-offer" =>
         \/ signaling'[Impolite] = "have-local-offer"
         \/ /\ signaling'[Impolite] = "stable"
            /\ agreed'[Impolite] = local[Impolite]
<1>1. IInv /\ [Next]_vars => [Kept]_vars
  <2>. SUFFICES ASSUME IInv, Next, ~rushed, signaling[Impolite] = "have-local-offer",
                       signaling'[Impolite] # "have-local-offer"
                PROVE  /\ signaling'[Impolite] = "stable"
                       /\ agreed'[Impolite] = local[Impolite]
    OBVIOUS
  <2>1. /\ signaling \in [Peer -> States] /\ agreed \in [Peer -> 0 .. MaxTracks]
        /\ Impolite \in Peer
    BY DEF IInv, TypeOK, States, Peer
  <2>2. PICK p \in Peer : Publish(p) \/ NegotiationNeeded(p) \/ Receive(p) \/ Operate(p)
    BY DEF Next
  <2>3. CASE UNCHANGED signaling
    BY <2>3
  <2>4. CASE p # Impolite /\ \E state : Becomes(p, state)
    BY <2>1, <2>4 DEF Becomes
  <2>5. CASE p = Impolite /\ Operate(p)
    <3>1. CASE chain[p] = <<>>
      BY <2>5, <3>1 DEF Operate, OfferCreated, OfferSet, OfferFails, RolledBack, RollbackFails,
         OfferApplied, AnswerApplied, AnswerFails, AnswerSet, OfferSetAsAnswer, Running
    <3>2. CASE chain[p] # <<>>
      <4>1. /\ Head(chain[p]).op # "rollback"
            /\ ~(Head(chain[p]).op = "setRemote" /\ Head(chain[p]).desc.type = "offer")
            /\ Head(chain[p]).op # "setAnswer"
        BY <2>5, <3>2, AtPeer, CalmHead
      <4>2. OfferCreated(p) \/ OfferSet(p) \/ OfferFails(p) \/ AnswerApplied(p) \/ AnswerFails(p)
        BY <2>5, <4>1 DEF Operate, RolledBack, RollbackFails, OfferApplied, AnswerSet,
           OfferSetAsAnswer, Running
      <4>3. CASE AnswerApplied(p)
        BY <2>1, <2>5, <4>3 DEF AnswerApplied, Becomes, Fits
      <4>4. CASE OfferSet(p)
        BY <2>1, <2>5, <4>4 DEF OfferSet, Becomes
      <4>5. CASE OfferCreated(p) \/ OfferFails(p) \/ AnswerFails(p)
        BY <4>5 DEF OfferCreated, OfferFails, AnswerFails
      <4>. QED
        BY <4>2, <4>3, <4>4, <4>5
    <3>. QED
      BY <3>1, <3>2
  <2>6. CASE p # Impolite /\ Operate(p)
    <3>1. UNCHANGED signaling \/ \E state : Becomes(p, state)
      BY <2>6 DEF Operate, OfferCreated, OfferSet, OfferFails, RolledBack, RollbackFails,
         OfferApplied, AnswerApplied, AnswerFails, AnswerSet, OfferSetAsAnswer
    <3>. QED
      BY <2>3, <2>4, <2>6, <3>1
  <2>7. CASE Publish(p) \/ NegotiationNeeded(p) \/ Receive(p)
    <3>1. UNCHANGED signaling
      BY <2>7 DEF Publish, NegotiationNeeded, Receive, Ignore, Accept, Handles
    <3>. QED
      BY <2>3, <3>1
  <2>. QED
    BY <2>2, <2>5, <2>6, <2>7
<1>. QED
  BY <1>1, InvariantHolds, PTL DEF Spec, ImpoliteNeverYields
=============
