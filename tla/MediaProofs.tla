---------------------------- MODULE MediaProofs ----------------------------
(***************************************************************************)
(* The theorems about a client's connections: a change of the encryption   *)
(* key (room.ts setE2eeKey, e2ee.ts setupPeerConnection), for every set of *)
(* peers and of tracks and every number of keys; and one participant's     *)
(* session with an SFU (sfu-transport.ts, topology.ts, and the gateway's   *)
(* MediasoupAdapter and SfuRouter), for every set of tracks, every number  *)
(* of transports and every number of events.                               *)
(***************************************************************************)
EXTENDS MCMedia, TLAPS

-----------------------------------------------------------------------------
(* A change of the encryption key.                                         *)

\* An end that carries a transform.
Covered(p, e) == pipe[p][e] # 0

Types ==
  /\ key \in Nat /\ keys \in Nat
  /\ importing \subseteq Nat \ {0}
  /\ peers \subseteq Pc /\ rest \subseteq Pc
  /\ have \in [Pc -> SUBSET Ends]
  /\ pipe \in [Pc -> [Ends -> Nat]]
  /\ step \in [Setup -> {"idle", "import", "senders", "receivers", "inert", "left"}]
  /\ pub \subseteq Sender /\ bare \in BOOLEAN
  /\ step["rotation"] # "left"
  /\ at = [u \in Setup |-> at[u]] /\ \A p \in Pc : at[p] = p
  /\ step["rotation"] \in {"senders", "receivers"} => at["rotation"] \in Pc

\* What the rotation is at, what it still has to come to, and what it owes: ends that
\* the connections in the mesh's map have.
Rounds ==
  /\ step["rotation"] \in {"senders", "receivers"} => key # 0
  /\ owed \subseteq peers \X Ends
  /\ \A x \in owed : x[2] \in have[x[1]]

\* An end a rotation owes carries a transform, unless its connection is still to come,
\* or is the one at hand and its turn is.
Behind(p, e) ==
  \/ step["rotation"] \in {"senders", "receivers"} /\ p \in rest
  \/ step["rotation"] = "senders" /\ p = at["rotation"]
  \/ step["rotation"] = "receivers" /\ p = at["rotation"] /\ e \notin Sender
  \/ step["rotation"] = "import"

Turns == ~bare => \A x \in owed : Covered(x[1], x[2]) \/ Behind(x[1], x[2])

CoverInv == Types /\ Rounds /\ Turns

-----------------------------------------------------------------------------
\* Setting ends up covers those it is given and uncovers none; it does so on the
\* connection it is given alone.
LEMMA SetUpCovers ==
  ASSUME Types, NEW p \in Pc, NEW es
  PROVE  /\ SetUp(p, es) \in [Pc -> [Ends -> Nat]]
         /\ \A q \in Pc, e \in Ends : Covered(q, e) => SetUp(p, es)[q][e] # 0
         /\ key # 0 => \A e \in Ends \cap es : SetUp(p, es)[p][e] # 0
<1> DEFINE row == [e \in Ends |-> IF e \in es /\ pipe[p][e] = 0 THEN key ELSE pipe[p][e]]
<1>1. row \in [Ends -> Nat]
  BY DEF Types
<1>2. SetUp(p, es) = [pipe EXCEPT ![p] = row]
  BY DEF SetUp
<1>3. pipe \in [Pc -> [Ends -> Nat]] /\ key \in Nat
  BY DEF Types
<1>4. ASSUME NEW q \in Pc, NEW e \in Ends, Covered(q, e)
      PROVE  SetUp(p, es)[q][e] # 0
  <2>1. CASE q = p
    <3>1. SetUp(p, es)[q] = row
      BY <1>2, <1>3, <2>1
    <3> QED
      BY <3>1, <1>4, <2>1 DEF Covered
  <2>2. CASE q # p
    BY <1>2, <1>3, <1>4, <2>2 DEF Covered
  <2> QED
    BY <2>1, <2>2
<1>5. ASSUME key # 0, NEW e \in Ends \cap es
      PROVE  SetUp(p, es)[p][e] # 0
  <2>1. SetUp(p, es)[p] = row
    BY <1>2, <1>3
  <2> QED
    BY <2>1, <1>5
<1> HIDE DEF row
<1>6. SetUp(p, es) \in [Pc -> [Ends -> Nat]]
  BY <1>1, <1>2, <1>3
<1> QED
  BY <1>4, <1>5, <1>6

\* Who sets ends up does so on a connection of a peer.
LEMMA SeatedAt ==
  ASSUME Types, NEW u \in Setup, step[u] \in {"senders", "receivers"}
  PROVE  at[u] \in Pc
BY DEF Types, Setup

LEMMA SendersKeep ==
  ASSUME CoverInv, NEW u \in Setup, SetUpSenders(u)
  PROVE  CoverInv'
<1> DEFINE es == have[at[u]] \cap Sender
<1> USE DEF CoverInv
<1>1. at[u] \in Pc /\ pipe' = SetUp(at[u], es) /\ step' = [step EXCEPT ![u] = "receivers"]
  BY SeatedAt DEF SetUpSenders
<1>2. UNCHANGED <<key, importing, keys, pub, have, peers, at, rest, owed, bare>>
  BY DEF SetUpSenders
<1>3. /\ pipe' \in [Pc -> [Ends -> Nat]]
      /\ \A q \in Pc, e \in Ends : Covered(q, e) => Covered(q, e)'
      /\ key # 0 => \A e \in Ends \cap es : pipe'[at[u]][e] # 0
  BY <1>1, SetUpCovers DEF Covered
<1>4. step[u] = "senders"
  BY DEF SetUpSenders
<1>5. Types'
  BY <1>1, <1>2, <1>3, <1>4 DEF Types, Setup
<1>6. Rounds'
  BY <1>1, <1>2, <1>4 DEF Rounds, Types, Setup
<1>7. ASSUME ~bare, NEW x \in owed
      PROVE  Covered(x[1], x[2])' \/ Behind(x[1], x[2])'
  <2>1. x[1] \in Pc /\ x[2] \in Ends /\ x[2] \in have[x[1]]
    BY DEF Rounds, Types
  <2>2. CASE Covered(x[1], x[2])
    BY <2>1, <2>2, <1>3
  <2>3. CASE Behind(x[1], x[2]) /\ u # "rotation"
    <3>1. step'["rotation"] = step["rotation"]
      BY <1>1, <2>3 DEF Types, Setup
    <3> QED
      BY <3>1, <1>2, <2>3 DEF Behind
  <2>4. CASE Behind(x[1], x[2]) /\ u = "rotation"
    <3>1. step'["rotation"] = "receivers" /\ key # 0
      BY <1>1, <1>4, <2>4 DEF Types, Setup, Rounds
    <3>2. CASE x[1] \in rest
      BY <3>1, <3>2, <1>2 DEF Behind
    <3>3. CASE x[1] = at[u] /\ x[2] \in Sender
      BY <3>1, <3>3, <2>1, <1>3 DEF Covered
    <3>4. CASE x[1] = at[u] /\ x[2] \notin Sender
      BY <3>1, <3>4, <2>4, <1>2 DEF Behind
    <3> QED
      BY <3>2, <3>3, <3>4, <2>4, <1>4 DEF Behind
  <2> QED
    BY <2>2, <2>3, <2>4, <1>7 DEF Turns
<1>8. Turns'
  BY <1>7, <1>2 DEF Turns
<1> QED
  BY <1>5, <1>6, <1>8

LEMMA ReceiversKeep ==
  ASSUME CoverInv, NEW u \in Setup, SetUpReceivers(u)
  PROVE  CoverInv'
<1> DEFINE es == have[at[u]] \cap Receiver
<1> USE DEF CoverInv
<1>1. at[u] \in Pc /\ pipe' = SetUp(at[u], es) /\ step[u] = "receivers"
  BY SeatedAt DEF SetUpReceivers
<1>2. UNCHANGED <<key, importing, keys, pub, have, owed, bare>>
  BY DEF SetUpReceivers
<1>3. /\ pipe' \in [Pc -> [Ends -> Nat]]
      /\ \A q \in Pc, e \in Ends : Covered(q, e) => Covered(q, e)'
      /\ key # 0 => \A e \in Ends \cap es : pipe'[at[u]][e] # 0
  BY <1>1, SetUpCovers DEF Covered
<1>4. ASSUME NEW x \in owed
      PROVE  /\ x[1] \in Pc /\ x[2] \in Ends /\ x[2] \in have[x[1]]
             /\ Covered(x[1], x[2]) => Covered(x[1], x[2])'
  BY <1>3 DEF Rounds, Types
<1>5. CASE u = "rotation" /\ rest # {}
  <2>1. PICK p \in rest :
          /\ at' = [at EXCEPT ![u] = p] /\ rest' = rest \ {p}
          /\ step' = [step EXCEPT ![u] = "senders"] /\ UNCHANGED peers
    BY <1>5 DEF SetUpReceivers
  <2>2. Types'
    BY <1>1, <1>2, <1>3, <1>5, <2>1, RotationApart DEF Types, Setup
  <2>3. step'["rotation"] = "senders" /\ at'["rotation"] = p
    BY <1>5, <2>1 DEF Types, Setup
  <2>4. Rounds'
    BY <1>1, <1>2, <1>5, <2>1 DEF Rounds
  <2>5. ASSUME ~bare, NEW x \in owed
        PROVE  Covered(x[1], x[2])' \/ Behind(x[1], x[2])'
    <3>1. CASE Covered(x[1], x[2])
      BY <3>1, <1>4
    <3>2. CASE x[1] \in rest
      BY <3>2, <2>1, <2>3 DEF Behind
    <3>3. CASE x[1] = at["rotation"] /\ x[2] \notin Sender
      <4>1. x[2] \in Ends \cap es /\ key # 0
        BY <3>3, <1>4, <1>5, <1>1 DEF Ends, Rounds
      <4> QED
        BY <4>1, <1>3, <1>5, <3>3 DEF Covered
    <3> QED
      BY <3>1, <3>2, <3>3, <1>1, <1>5, <2>5 DEF Turns, Behind
  <2> QED
    BY <2>2, <2>4, <2>5, <1>2 DEF Turns
<1>6. CASE ~(u = "rotation" /\ rest # {})
  <2>1. /\ step' = [step EXCEPT ![u] = "idle"]
        /\ peers' = IF u \in Pc THEN peers \cup {u} ELSE peers
        /\ UNCHANGED <<at, rest>>
    BY <1>6 DEF SetUpReceivers
  <2>2. Types'
    BY <1>1, <1>2, <1>3, <2>1 DEF Types, Setup
  <2>3. Rounds'
    BY <1>1, <1>2, <2>1 DEF Rounds, Types, Setup
  <2>4. ASSUME ~bare, NEW x \in owed
        PROVE  Covered(x[1], x[2])' \/ Behind(x[1], x[2])'
    <3>1. CASE Covered(x[1], x[2])
      BY <3>1, <1>4
    <3>2. CASE Behind(x[1], x[2]) /\ u # "rotation"
      <4>1. step'["rotation"] = step["rotation"]
        BY <2>1, <3>2 DEF Types, Setup
      <4> QED
        BY <4>1, <2>1, <3>2 DEF Behind
    <3>3. CASE Behind(x[1], x[2]) /\ u = "rotation"
      <4>1. x[1] = at["rotation"] /\ x[2] \notin Sender
        BY <3>3, <1>1, <1>6 DEF Behind
      <4>2. x[2] \in Ends \cap es /\ key # 0
        BY <4>1, <1>4, <3>3, <1>1 DEF Ends, Rounds
      <4> QED
        BY <4>1, <4>2, <1>3, <3>3 DEF Covered
    <3> QED
      BY <3>1, <3>2, <3>3, <2>4 DEF Turns
  <2> QED
    BY <2>2, <2>3, <2>4, <1>2 DEF Turns
<1> QED
  BY <1>5, <1>6

LEMMA ImportKeeps ==
  ASSUME CoverInv, NEW k \in 1 .. MaxKey, Imported(k)
  PROVE  CoverInv'
<1> USE DEF CoverInv
<1>1. /\ k \in Nat \ {0} /\ key' = k /\ importing' = importing \ {k}
      /\ UNCHANGED <<keys, pub, have, pipe, peers, bare>>
  BY DEF Imported, Types
<1>2. CASE step["rotation"] = "import" /\ k = keys
  <2>1. owed' = {x \in peers \X Ends : x[2] \in have[x[1]]}
    BY <1>2 DEF Imported, Found
  <2>2. CASE peers = {}
    <3>1. step' = [step EXCEPT !["rotation"] = "idle"] /\ UNCHANGED <<at, rest>>
      BY <1>2, <2>2 DEF Imported
    <3>2. owed' = {}
      BY <2>1, <2>2
    <3> QED
      BY <1>1, <3>1, <3>2, <2>2 DEF Types, Rounds, Turns, Setup
  <2>3. CASE peers # {}
    <3>1. PICK p \in peers :
            /\ at' = [at EXCEPT !["rotation"] = p] /\ rest' = peers \ {p}
            /\ step' = [step EXCEPT !["rotation"] = "senders"]
      BY <1>2, <2>3 DEF Imported
    <3>2. Types'
      BY <1>1, <3>1, RotationApart DEF Types, Setup
    <3>3. Rounds'
      BY <1>1, <2>1 DEF Rounds
    <3>4. step'["rotation"] = "senders" /\ at'["rotation"] = p
      BY <3>1 DEF Types, Setup
    <3>5. \A x \in owed' : x[1] \in peers
      BY <2>1
    <3>6. Turns'
      BY <3>1, <3>4, <3>5 DEF Turns, Behind
    <3> QED
      BY <3>2, <3>3, <3>6
  <2> QED
    BY <2>2, <2>3
<1>3. CASE ~(step["rotation"] = "import" /\ k = keys)
  <2>1. UNCHANGED <<step, at, rest, owed>>
    BY <1>3 DEF Imported
  <2> QED
    BY <1>1, <2>1 DEF Types, Rounds, Turns, Covered, Behind
<1> QED
  BY <1>2, <1>3

LEMMA LeaveKeeps ==
  ASSUME CoverInv, NEW p \in Pc, handleRemoteLeave(p)
  PROVE  CoverInv'
<1> USE DEF CoverInv
<1> USE DEF handleRemoteLeave
<1>1. p # "rotation"
  BY RotationApart
<1>2. Types'
  BY <1>1 DEF Types, Setup
<1>3. step'["rotation"] = step["rotation"]
  BY <1>1 DEF Types, Setup
<1>4. \A x \in owed' : x \in owed /\ x[1] # p /\ x[1] \in Pc /\ x[2] \in Ends
  BY DEF Rounds, Types
<1>5. Rounds'
  BY <1>3, <1>4 DEF Rounds, Types
<1>6. \A x \in owed' : pipe'[x[1]] = pipe[x[1]]
  BY <1>4 DEF Types
<1>7. Turns'
  BY <1>3, <1>4, <1>6 DEF Turns, Covered, Behind
<1> QED
  BY <1>2, <1>5, <1>7

LEMMA KeyKeeps ==
  ASSUME CoverInv, setE2eeKey
  PROVE  CoverInv'
<1> USE DEF CoverInv
<1>1. /\ keys' = keys + 1 /\ importing' = importing \cup {keys + 1}
      /\ bare' = ~processor /\ UNCHANGED <<key, pub, have, pipe, peers, at, rest>>
  BY DEF setE2eeKey
<1>2. CASE processor
  <2>1. step' = [step EXCEPT !["rotation"] = "import"] /\ UNCHANGED owed
    BY <1>2 DEF setE2eeKey
  <2>2. step'["rotation"] = "import"
    BY <2>1 DEF Types, Setup
  <2>3. Types'
    BY <1>1, <1>2, <2>1, RotationApart DEF Types, Setup
  <2> QED
    BY <1>1, <2>1, <2>2, <2>3 DEF Rounds, Turns, Behind
<1>3. CASE ~processor
  <2>1. owed' = {x \in peers \X Ends : x[2] \in have[x[1]]} /\ UNCHANGED step
    BY <1>3 DEF setE2eeKey, Found
  <2>2. Types'
    BY <1>1, <1>3, <2>1 DEF Types
  <2>3. Rounds'
    BY <1>1, <2>1 DEF Rounds
  <2> QED
    BY <1>1, <1>3, <2>2, <2>3 DEF Turns
<1> QED
  BY <1>2, <1>3

LEMMA ReadyKeeps ==
  ASSUME CoverInv, NEW p \in Pc, Ready(p)
  PROVE  CoverInv'
<1> USE DEF CoverInv, Ready
<1>1. p # "rotation"
  BY RotationApart
<1>2. Types'
  BY <1>1 DEF Types, Setup
<1>3. step'["rotation"] = step["rotation"]
  BY <1>1 DEF Types, Setup
<1> QED
  BY <1>2, <1>3 DEF Rounds, Turns, Covered, Behind

LEMMA CoverStep ==
  ASSUME CoverInv, [Next]_vars
  PROVE  CoverInv'
<1> USE DEF CoverInv
<1>1. CASE setE2eeKey
  BY <1>1, KeyKeeps
<1>2. CASE \E k \in 1 .. MaxKey : Imported(k)
  BY <1>2, ImportKeeps
<1>3. CASE \E u \in Setup : SetUpSenders(u) \/ SetUpReceivers(u)
  BY <1>3, SendersKeep, ReceiversKeep
<1>4. ASSUME NEW p \in Pc, ensurePeer(p)
      PROVE  CoverInv'
  <2> USE <1>4 DEF ensurePeer
  <2>1. p # "rotation"
    BY RotationApart
  <2>2. Types'
    BY <2>1 DEF Types, Setup, Ends
  <2>3. step'["rotation"] = step["rotation"]
    BY <2>1 DEF Types, Setup
  <2>4. \A x \in owed : have'[x[1]] = have[x[1]]
    BY DEF Rounds, Types
  <2> QED
    BY <2>2, <2>3, <2>4 DEF Rounds, Turns, Covered, Behind
<1>5. ASSUME NEW p \in Pc, NEW r \in Receiver, ontrack(p, r)
      PROVE  CoverInv'
  <2> USE <1>5 DEF ontrack
  <2>1. Types'
    BY DEF Types, Ends
  <2>2. \A q \in Pc : have[q] \subseteq have'[q]
    BY DEF Types
  <2> QED
    BY <2>1, <2>2 DEF Types, Rounds, Turns, Covered, Behind
<1>6. ASSUME NEW s \in Sender, publish(s)
      PROVE  CoverInv'
  <2> USE <1>6 DEF publish
  <2>1. Types'
    BY DEF Types, Ends
  <2>2. \A q \in Pc : have[q] \subseteq have'[q]
    BY DEF Types
  <2> QED
    BY <2>1, <2>2 DEF Types, Rounds, Turns, Covered, Behind
<1>7. CASE UNCHANGED vars
  BY <1>7 DEF vars, Types, Rounds, Turns, Covered, Behind
<1> QED
  BY <1>1, <1>2, <1>3, <1>4, <1>5, <1>6, <1>7, LeaveKeeps, ReadyKeeps DEF Next, Others

\* setE2eeKey: when a key change of a Room with a processor is through, every end it found
\* on a connection that is still there carries a transform, also one that the key which made
\* the processor left without, whatever was published, arrived, joined or left while the keys
\* were imported and the connections gone through.
THEOREM KeyChangeCovers == Spec => []AllCovered
<1>1. Init => CoverInv
  <2> SUFFICES ASSUME Init PROVE CoverInv
    OBVIOUS
  <2>1. keys \in Nat /\ importing \subseteq Nat \ {0} /\ owed = {} /\ step["rotation"] = "idle"
    BY DEF Init, Setup
  <2>2. at = [u \in Setup |-> at[u]] /\ \A p \in Pc : at[p] = p
    BY DEF Init, Setup
  <2>3. have \in [Pc -> SUBSET Ends] /\ pipe \in [Pc -> [Ends -> Nat]] /\ key \in Nat
    BY DEF Init
  <2>4. /\ peers \subseteq Pc /\ rest \subseteq Pc /\ pub \subseteq Sender /\ bare \in BOOLEAN
        /\ step \in [Setup -> {"idle", "import", "senders", "receivers", "inert", "left"}]
    BY DEF Init
  <2> QED
    BY <2>1, <2>2, <2>3, <2>4 DEF CoverInv, Types, Rounds, Turns
<1>2. CoverInv /\ [Next]_vars => CoverInv'
  BY CoverStep
<1>3. CoverInv => AllCovered
  BY DEF CoverInv, Turns, Behind, Covered, AllCovered
<1> QED
  BY <1>1, <1>2, <1>3, PTL DEF Spec

-----------------------------------------------------------------------------
(* The session with an SFU: its invariants.                                *)

Stage == {"none", "joining", "local", "waiting", "ready", "failed"}
Transport ==
  [at : Stage, live : BOOLEAN, closed : BOOLEAN, onPc : SUBSET Track,
   sig : {"stable", "have-local-offer"}, offered : SUBSET Track,
   needed : {"no", "queued", "fired"}, neg : {"idle", "creating", "handling"},
   todo : SUBSET Track, waiting : SUBSET Track]
Session == [open : BOOLEAN, pending : SUBSET Track, producers : [Track -> Nat]]
Publishing == [k : T, t : Track, at : {"announce", "negotiate"}, init : BOOLEAN]
Handling == [k : T, via : {"client", "router"}, at : {"start", "producing"}, rest : SUBSET Track]

SessionTypes ==
  /\ auto \in BOOLEAN /\ left \in BOOLEAN
  /\ media \in 0 .. made /\ made \in 0 .. MaxT /\ current \in 0 .. MaxT
  /\ local \subseteq Track /\ tr \in [T -> Transport] /\ ss \in [T -> Session]
  /\ byRoom \subseteq Track \X T /\ pubs \subseteq Publishing /\ offers \subseteq Handling
  /\ answers \in [T -> BOOLEAN]
  /\ router \in [session : 0 .. MaxT, tracks : SUBSET Track]
  /\ history \in [orphaned : SUBSET T, unheard : SUBSET T, twice : SUBSET (0 .. MaxT)]

\* A transport nobody has joined with yet: nothing is known of it.
Fresh(k) ==
  /\ ~tr[k].live /\ tr[k].onPc = {} /\ tr[k].offered = {} /\ tr[k].sig = "stable"
  /\ tr[k].needed = "no" /\ tr[k].neg = "idle" /\ tr[k].todo = {}
  /\ ss[k] = NewSession /\ ~answers[k] /\ current # k /\ router.session # k
  /\ \A u \in pubs : u.k # k
  /\ \A o \in offers : o.k # k

\* Where init() stands with a transport, and what has joined the gateway.
Stages ==
  /\ ~auto => media = 1 /\ made = 1
  /\ \A k \in T : /\ k > made <=> tr[k].at = "none"
                  /\ tr[k].at \in {"none", "joining"} => Fresh(k)
                  /\ ss[k].open => tr[k].live
                  /\ tr[k].at \in {"local", "waiting", "ready"} /\ ~tr[k].live => tr[k].closed

\* The only transport of a participant whose switches and leave did not cross.
Only(k) ==
  /\ k <= made => k = 1 /\ made = 1
  /\ left => ~ss[k].open /\ tr[k].at # "joining"
  /\ tr[k].waiting \subseteq local /\ tr[k].todo \subseteq local
  /\ tr[k].at = "local" => /\ tr[k].todo \cap tr[k].onPc = {}
                           /\ tr[k].waiting \subseteq tr[k].todo \cup tr[k].onPc
  /\ tr[k].at = "waiting" => tr[k].todo \subseteq tr[k].onPc
  /\ tr[k].at \in {"waiting", "ready"} => tr[k].waiting = {}
  /\ k # media => /\ tr[k].waiting = {} /\ ~tr[k].closed
                  /\ tr[k].at = "waiting" => tr[k].todo = {}
                  /\ tr[k].at \in {"ready", "failed"} => ~ss[k].open
  /\ tr[k].closed => left

\* What the room's map and the router hold.
Listed ==
  /\ \A e \in byRoom : ss[e[2]].open /\ ss[e[2]].producers[e[1]] > 0
  /\ \A k \in T : ss[k].open /\ k = current =>
       \A t \in Track : ss[k].producers[t] > 0 => \E e \in byRoom : e[1] = t
  /\ router.tracks # {} => router.session # 0

OwnerInv == SessionTypes /\ Stages /\ (\A k \in T \ history.orphaned : Only(k)) /\ Listed

\* A track the session knows of is going to be produced: an offer is made or being handled,
\* or the browser will ask for one, now or when the answer is back.
Chance(k, t) ==
  \/ tr[k].neg = "creating"
  \/ \E o \in offers : o.k = k /\ (o.at = "start" \/ t \in o.rest)
  \/ tr[k].needed = "queued" /\ tr[k].sig = "stable"
  \/ /\ tr[k].sig = "have-local-offer" /\ t \in tr[k].onPc \ tr[k].offered
     /\ answers[k] \/ tr[k].neg = "handling"
Fed(k, t) == ss[k].producers[t] = 1 \/ (t \in ss[k].pending /\ Chance(k, t))

\* One handleOffer() at a time, which produces what is not produced yet.
Orderly(k) ==
  /\ \A o \in offers : o.k = k => o.via = "client" /\ tr[k].neg = "handling"
  /\ \A o, p \in offers : o.k = k /\ p.k = k => o = p
  /\ \A t \in Track : ss[k].producers[t] <= 1
  /\ \A t \in ss[k].pending : ss[k].producers[t] = 0
  /\ \A o \in offers : o.k = k => \A t \in o.rest : ss[k].producers[t] = 0
  /\ tr[k].needed = "fired" => tr[k].neg = "creating"
  /\ tr[k].sig = "stable" /\ ~(tr[k].onPc \subseteq tr[k].offered)
       => tr[k].needed = "queued" \/ tr[k].neg = "creating"

\* No published track is forgotten.
Feeding(k) ==
  /\ \A u \in pubs : u.k = k => u.t \in tr[k].onPc /\ (u.at = "negotiate" => Fed(k, u.t))
  /\ \A t \in local : \/ Fed(k, t)
                      \/ tr[k].at = "local" /\ t \in tr[k].todo
                      \/ \E u \in pubs : u.k = k /\ u.t = t /\ u.at = "announce"

\* The transports TracksForwarded makes no exception for
Heeded == T \ (history.orphaned \cup history.unheard \cup history.twice)
ForwardInv == OwnerInv /\ \A k \in Heeded : ss[k].open => Orderly(k) /\ Feeding(k)

-----------------------------------------------------------------------------
(* The session with an SFU: who owns it.                                   *)

LEMMA SessionInitial == SessionInit => ForwardInv
<1> SUFFICES ASSUME SessionInit PROVE ForwardInv
  OBVIOUS
<1> USE SessionAssumption
<1>1. made \in {0, 1} /\ media = made /\ (auto <=> made = 0) /\ auto \in BOOLEAN
  BY DEF SessionInit
<1>2. left = FALSE /\ local = {} /\ current = 0 /\ byRoom = {} /\ pubs = {} /\ offers = {}
      /\ router = [session |-> 0, tracks |-> {}] /\ answers = [k \in T |-> FALSE]
      /\ history = [orphaned |-> {}, unheard |-> {}, twice |-> {}]
      /\ ss = [k \in T |-> NewSession]
  BY DEF SessionInit
<1>3. tr = [k \in T |-> IF k <= made THEN [NewTransport EXCEPT !.at = "joining"] ELSE NewTransport]
  BY DEF SessionInit
<1>4. MaxT \in Nat /\ MaxT >= 1 /\ T = 1 .. MaxT
  BY DEF T
<1>5. NewTransport \in Transport /\ [NewTransport EXCEPT !.at = "joining"] \in Transport
      /\ NewSession \in Session
  BY DEF NewTransport, Transport, Stage, NewSession, Session
<1>6. SessionTypes
  <2>1. tr \in [T -> Transport]
    BY <1>3, <1>5
  <2>2. ss \in [T -> Session] /\ answers \in [T -> BOOLEAN]
    BY <1>2, <1>5
  <2>3. router \in [session : 0 .. MaxT, tracks : SUBSET Track]
        /\ history \in [orphaned : SUBSET T, unheard : SUBSET T, twice : SUBSET (0 .. MaxT)]
    BY <1>2, <1>4
  <2>4. media \in 0 .. made /\ made \in 0 .. MaxT /\ current \in 0 .. MaxT
    BY <1>1, <1>2, <1>4
  <2> QED
    BY <1>1, <1>2, <2>1, <2>2, <2>3, <2>4 DEF SessionTypes
<1>7. \A k \in T : /\ tr[k] \in {NewTransport, [NewTransport EXCEPT !.at = "joining"]}
                   /\ tr[k].at = "none" <=> k > made
                   /\ tr[k].at \in {"none", "joining"}
  BY <1>1, <1>3, <1>4 DEF NewTransport
<1>8. ASSUME NEW k \in T
      PROVE  Fresh(k) /\ tr[k].waiting = {} /\ ~tr[k].closed /\ ~ss[k].open
  <2>1. /\ ~tr[k].live /\ tr[k].onPc = {} /\ tr[k].offered = {} /\ tr[k].sig = "stable"
        /\ tr[k].needed = "no" /\ tr[k].neg = "idle" /\ tr[k].todo = {}
        /\ tr[k].waiting = {} /\ ~tr[k].closed
    BY <1>7 DEF NewTransport
  <2>2. ss[k] = NewSession /\ ~answers[k] /\ ~ss[k].open
    BY <1>2 DEF NewSession
  <2>3. k # 0
    BY <1>4
  <2> QED
    BY <1>2, <2>1, <2>2, <2>3 DEF Fresh
<1>9. Stages
  BY <1>1, <1>4, <1>7, <1>8 DEF Stages
<1>10. \A k \in T : Only(k)
  BY <1>1, <1>2, <1>4, <1>7, <1>8 DEF Only, Fresh
<1>11. Listed
  BY <1>2, <1>8 DEF Listed
<1> QED
  BY <1>6, <1>8, <1>9, <1>10, <1>11 DEF ForwardInv, OwnerInv, Heeded

\* The fields of what the tables hold.
LEMMA TransportFields ==
  ASSUME SessionTypes, NEW k \in T
  PROVE  /\ tr[k] \in Transport /\ ss[k] \in Session /\ answers[k] \in BOOLEAN
         /\ tr[k].at \in Stage /\ tr[k].live \in BOOLEAN /\ tr[k].closed \in BOOLEAN
         /\ tr[k].onPc \subseteq Track /\ tr[k].sig \in {"stable", "have-local-offer"}
         /\ tr[k].offered \subseteq Track /\ tr[k].needed \in {"no", "queued", "fired"}
         /\ tr[k].neg \in {"idle", "creating", "handling"}
         /\ tr[k].todo \subseteq Track /\ tr[k].waiting \subseteq Track
         /\ ss[k].open \in BOOLEAN /\ ss[k].pending \subseteq Track
         /\ ss[k].producers \in [Track -> Nat]
<1>1. tr[k] \in Transport /\ ss[k] \in Session /\ answers[k] \in BOOLEAN
  BY DEF SessionTypes
<1> QED
  BY <1>1 DEF Transport, Session

\* One transport, or one session, is another.
LEMMA TransportSet ==
  ASSUME SessionTypes, NEW k \in T, NEW new \in Transport, tr' = [tr EXCEPT ![k] = new]
  PROVE  tr' \in [T -> Transport] /\ tr'[k] = new /\ \A j \in T : j # k => tr'[j] = tr[j]
BY DEF SessionTypes
LEMMA SessionSet ==
  ASSUME SessionTypes, NEW k \in T, NEW new \in Session, ss' = [ss EXCEPT ![k] = new]
  PROVE  ss' \in [T -> Session] /\ ss'[k] = new /\ \A j \in T : j # k => ss'[j] = ss[j]
BY DEF SessionTypes

\* What is known of a transport that has not joined is as little as before.
LEMMA FreshStays ==
  ASSUME NEW k, Fresh(k), tr'[k] = tr[k], ss'[k] = ss[k], answers'[k] = answers[k],
         current' # k, router'.session # k,
         \A u \in pubs' : u \in pubs \/ u.k # k, \A o \in offers' : o \in offers \/ o.k # k
  PROVE  Fresh(k)'
BY DEF Fresh

LEMMA MigrateOwned == ASSUME OwnerInv, Migrate PROVE OwnerInv'
<1> USE DEF OwnerInv
<1> DEFINE n == made + 1
<1>1. auto /\ media = 0 /\ ~left /\ made < MaxT /\ made' = n
      /\ UNCHANGED <<auto, media, left, local, pubs, ss, current, byRoom, offers, answers, router>>
  BY DEF Migrate, OnMesh, server
<1>2. MaxT \in Nat /\ made \in Nat /\ n \in T /\ n > made /\ T = 1 .. MaxT
  BY <1>1, SessionAssumption DEF SessionTypes, T
<1>3. PICK a \in {"joining", "failed"} : tr' = [tr EXCEPT ![n] = [tr[n] EXCEPT !.at = a]]
  BY DEF Migrate, Set
<1>4. tr[n].at = "none" /\ Fresh(n)
  BY <1>2 DEF Stages
<1>6. tr[n] \in Transport /\ [tr[n] EXCEPT !.at = a] \in Transport
  <2>1. tr[n] \in Transport
    BY <1>2, TransportFields
  <2> QED
    BY <2>1 DEF Transport, Stage
<1>5. /\ tr' \in [T -> Transport] /\ tr'[n] = [tr[n] EXCEPT !.at = a]
      /\ \A k \in T : k # n => tr'[k] = tr[k]
  BY <1>2, <1>3, <1>6, TransportSet
<1>7. /\ tr'[n].at = a /\ tr'[n].live = tr[n].live /\ tr'[n].closed = tr[n].closed
      /\ tr'[n].onPc = tr[n].onPc /\ tr'[n].sig = tr[n].sig /\ tr'[n].offered = tr[n].offered
      /\ tr'[n].needed = tr[n].needed /\ tr'[n].neg = tr[n].neg /\ tr'[n].todo = tr[n].todo
      /\ tr'[n].waiting = tr[n].waiting
  BY <1>5, <1>6 DEF Transport
<1>8. /\ history' \in [orphaned : SUBSET T, unheard : SUBSET T, twice : SUBSET (0 .. MaxT)]
      /\ history'.orphaned = (IF made > 0 THEN history.orphaned \cup 1 .. n ELSE history.orphaned)
  <2>1. history' = [history EXCEPT !.orphaned = IF made > 0 THEN @ \cup 1 .. n ELSE @]
    BY DEF Migrate
  <2>2. 1 .. n \subseteq T
    BY <1>2
  <2> QED
    BY <2>1, <2>2 DEF SessionTypes
<1>9. SessionTypes'
  BY <1>1, <1>2, <1>5, <1>8 DEF SessionTypes
<1>10. ASSUME NEW k \in T, Fresh(k) PROVE Fresh(k)'
  <2>1. CASE k = n
    BY <1>1, <1>7, <1>10, <2>1 DEF Fresh
  <2>2. CASE k # n
    BY <1>1, <1>5, <1>10, <2>2, FreshStays DEF Fresh
  <2> QED
    BY <2>1, <2>2
<1>11. Stages'
  <2>1. ~ss[n].open
    BY <1>4 DEF Fresh, NewSession
  <2> QED
    BY <1>1, <1>2, <1>3, <1>4, <1>5, <1>7, <1>10, <2>1 DEF Stages
<1>12. ASSUME NEW k \in T \ history'.orphaned PROVE Only(k)'
  <2>1. Only(k) /\ (made > 0 => k > n)
    BY <1>2, <1>8
  <2>2. CASE k = n
    <3>1. ~ss[n].open /\ tr[n].todo = {} /\ n # media /\ n # media'
      BY <1>1, <1>2, <1>4 DEF Fresh, NewSession
    <3>2. tr[n].waiting = {} /\ ~tr[n].closed
      BY <2>1, <2>2, <3>1 DEF Only
    <3>3. made = 0 /\ made' = 1 /\ n = 1
      BY <1>1, <1>2, <2>1, <2>2
    <3> QED
      BY <1>1, <1>7, <2>2, <3>1, <3>2, <3>3 DEF Only
  <2>3. CASE k # n
    BY <1>1, <1>2, <1>5, <2>1, <2>3 DEF Only
  <2> QED
    BY <2>2, <2>3
<1>13. Listed'
  BY <1>1 DEF Listed
<1> QED
  BY <1>9, <1>11, <1>12, <1>13

\* The gateway's answer to a join.
LEMMA JoinedOwned == ASSUME OwnerInv, NEW n \in T, Joined(n) PROVE OwnerInv'
<1> USE DEF OwnerInv
<1>1. tr[n].at = "joining" /\ tr' = [tr EXCEPT ![n] = Start(n)]
      /\ ss' = [ss EXCEPT ![n].open = TRUE] /\ current' = n
      /\ router' \in {router, [router EXCEPT !.session = n]}
      /\ UNCHANGED <<auto, media, made, left, local, pubs, byRoom, offers, answers, history>>
  BY DEF Joined, Set
<1>2. Fresh(n) /\ n <= made /\ MaxT \in Nat /\ T = 1 .. MaxT
  BY <1>1, SessionAssumption DEF Stages, SessionTypes, T
<1>3. tr[n] \in Transport /\ ss[n] \in Session /\ local \subseteq Track
  BY TransportFields DEF SessionTypes
<1>4. /\ Start(n) \in Transport /\ Start(n).at = "local" /\ Start(n).live /\ Start(n).todo = local
      /\ Start(n).onPc = {} /\ Start(n).waiting = tr[n].waiting /\ Start(n).closed = tr[n].closed
  BY <1>2, <1>3 DEF Start, Transport, Stage, Fresh
<1>5. tr' \in [T -> Transport] /\ tr'[n] = Start(n) /\ \A k \in T : k # n => tr'[k] = tr[k]
  BY <1>1, <1>4 DEF SessionTypes
<1>6. /\ ss' \in [T -> Session] /\ ss'[n].open /\ ss'[n].producers = [t \in Track |-> 0]
      /\ \A k \in T : k # n => ss'[k] = ss[k]
  <2>1. ss[n] = NewSession
    BY <1>2 DEF Fresh
  <2>2. /\ [ss[n] EXCEPT !.open = TRUE] \in Session /\ [ss[n] EXCEPT !.open = TRUE].open
        /\ [ss[n] EXCEPT !.open = TRUE].producers = [t \in Track |-> 0]
    <3>1. ss[n].producers = [t \in Track |-> 0]
      BY <2>1 DEF NewSession
    <3> QED
      BY <1>3, <3>1 DEF Session
  <2>3. ss' = [ss EXCEPT ![n] = [ss[n] EXCEPT !.open = TRUE]]
    BY <1>1
  <2> QED
    BY <2>2, <2>3, SessionSet
<1>7. /\ router' \in [session : 0 .. MaxT, tracks : SUBSET Track]
      /\ router'.tracks = router.tracks /\ router'.session \in {router.session, n}
  BY <1>1, <1>2 DEF SessionTypes
<1>8. SessionTypes'
  BY <1>1, <1>2, <1>5, <1>6, <1>7 DEF SessionTypes
<1>9. \A k \in T : k # n /\ Fresh(k) => Fresh(k)'
  BY <1>1, <1>5, <1>6, <1>7 DEF Fresh
<1>10. Stages'
  BY <1>1, <1>2, <1>4, <1>5, <1>6, <1>9 DEF Stages
<1>11. ASSUME NEW k \in T \ history'.orphaned PROVE Only(k)'
  <2>1. Only(k)
    BY <1>1
  <2>2. CASE k = n
    BY <1>1, <1>2, <1>4, <1>5, <1>6, <2>1, <2>2 DEF Only
  <2>3. CASE k # n
    BY <1>1, <1>5, <1>6, <2>1, <2>3 DEF Only
  <2> QED
    BY <2>2, <2>3
<1>12. Listed'
  <2>1. \A e \in byRoom : e[2] # n
    BY <1>2 DEF Listed, Fresh, NewSession
  <2>2. \A e \in byRoom : e[1] \in Track /\ e[2] \in T
    BY DEF SessionTypes
  <2>3. \A e \in byRoom' : ss'[e[2]].open /\ ss'[e[2]].producers[e[1]] > 0
    BY <1>1, <1>6, <2>1, <2>2 DEF Listed
  <2>4. \A k \in T : ss'[k].open /\ k = current' =>
          \A t \in Track : ss'[k].producers[t] > 0 => \E e \in byRoom' : e[1] = t
    BY <1>1, <1>6
  <2>5. router'.tracks # {} => router'.session # 0
    BY <1>2, <1>7 DEF Listed
  <2> QED
    BY <2>3, <2>4, <2>5 DEF Listed
<1> QED
  BY <1>8, <1>10, <1>11, <1>12

\* A step that leaves every transport at its stage and opens no session.
LEMMA QuietOwned ==
  ASSUME OwnerInv, UNCHANGED <<auto, media, made, left>>, local \subseteq local',
         history'.orphaned = history.orphaned,
         \A k \in T : /\ tr'[k].at = tr[k].at /\ tr'[k].live = tr[k].live
                      /\ tr'[k].closed = tr[k].closed /\ tr'[k].onPc = tr[k].onPc
                      /\ tr'[k].todo = tr[k].todo /\ tr'[k].waiting = tr[k].waiting
                      /\ ss'[k].open => ss[k].open,
         \A k \in T : tr[k].at \in {"none", "joining"} => Fresh(k)'
  PROVE  Stages' /\ \A k \in T \ history'.orphaned : Only(k)'
<1>1. Stages'
  BY DEF OwnerInv, Stages
<1>2. ASSUME NEW k \in T \ history'.orphaned PROVE Only(k)'
  <2>1. Only(k)
    BY DEF OwnerInv
  <2> QED
    BY <2>1 DEF Only
<1> QED
  BY <1>1, <1>2

\* What is fresh has not joined; nothing that is called or routed is.
LEMMA NotFresh ==
  ASSUME OwnerInv, NEW k \in T, tr[k].at \in {"none", "joining"}
  PROVE  /\ Fresh(k) /\ ~tr[k].live /\ tr[k].neg = "idle" /\ tr[k].needed = "no" /\ ~answers[k]
         /\ ~ss[k].open /\ current # k /\ router.session # k
         /\ \A u \in pubs : u.k # k
         /\ \A o \in offers : o.k # k
<1>1. Fresh(k)
  BY DEF OwnerInv, Stages
<1> QED
  BY <1>1 DEF Fresh, NewSession

LEMMA AnnouncedOwned == ASSUME OwnerInv, NEW u \in pubs, Announced(u) PROVE OwnerInv'
<1> DEFINE n == u.k
           starts == Negotiates(n)
           newT == IF starts THEN [tr[n] EXCEPT !.neg = "creating"] ELSE tr[n]
           newS == [ss[n] EXCEPT !.pending = IF ss[n].producers[u.t] = 0 THEN @ \cup {u.t} ELSE @]
<1>0. SessionTypes
  BY DEF OwnerInv
<1>1. u \in Publishing /\ n \in T /\ u.t \in Track /\ u.init \in BOOLEAN
  BY <1>0 DEF SessionTypes, Publishing
<1>2. /\ ss' = [ss EXCEPT ![n] = newS] /\ tr' = [tr EXCEPT ![n] = newT]
      /\ pubs' = (pubs \ {u}) \cup IF starts THEN {[u EXCEPT !.at = "negotiate"]} ELSE {}
      /\ local' = IF starts \/ u.init THEN local ELSE local \cup {u.t}
      /\ history' = IF tr[n].neg = "handling" /\ u.t \in tr[n].offered
                    THEN [history EXCEPT !.unheard = @ \cup {n}] ELSE history
      /\ UNCHANGED <<auto, media, made, left, current, byRoom, offers, answers, router>>
  BY DEF Announced, Set
<1>3. tr[n] \in Transport /\ ss[n] \in Session
  BY <1>0, <1>1, TransportFields
<1>4. /\ newT \in Transport /\ newT.at = tr[n].at /\ newT.live = tr[n].live
      /\ newT.closed = tr[n].closed /\ newT.onPc = tr[n].onPc /\ newT.todo = tr[n].todo
      /\ newT.waiting = tr[n].waiting
  BY <1>3 DEF Transport
<1>5. newS \in Session /\ newS.open = ss[n].open /\ newS.producers = ss[n].producers
  BY <1>1, <1>3 DEF Session
<1> HIDE DEF newT, newS
<1>6. tr' \in [T -> Transport] /\ tr'[n] = newT /\ \A j \in T : j # n => tr'[j] = tr[j]
  BY <1>0, <1>1, <1>2, <1>4, TransportSet
<1>7. ss' \in [T -> Session] /\ ss'[n] = newS /\ \A j \in T : j # n => ss'[j] = ss[j]
  BY <1>0, <1>1, <1>2, <1>5, SessionSet
<1>8. /\ history' \in [orphaned : SUBSET T, unheard : SUBSET T, twice : SUBSET (0 .. MaxT)]
      /\ history'.orphaned = history.orphaned
  BY <1>0, <1>1, <1>2 DEF SessionTypes
<1>9. pubs' \subseteq Publishing /\ \A v \in pubs' : v \in pubs \/ v.k = n
  BY <1>0, <1>1, <1>2 DEF SessionTypes, Publishing
<1>10. SessionTypes'
  BY <1>0, <1>1, <1>2, <1>6, <1>7, <1>8, <1>9 DEF SessionTypes
<1>11. ASSUME NEW k \in T, tr[k].at \in {"none", "joining"} PROVE Fresh(k)'
  <2>1. Fresh(k) /\ k # n /\ current # k /\ router.session # k
    BY <1>11, NotFresh
  <2> QED
    BY <1>2, <1>6, <1>7, <1>9, <2>1, FreshStays
<1>12. Stages' /\ \A k \in T \ history'.orphaned : Only(k)'
  <2>1. local \subseteq local'
    BY <1>2
  <2>2. \A k \in T : /\ tr'[k].at = tr[k].at /\ tr'[k].live = tr[k].live
                     /\ tr'[k].closed = tr[k].closed /\ tr'[k].onPc = tr[k].onPc
                     /\ tr'[k].todo = tr[k].todo /\ tr'[k].waiting = tr[k].waiting
                     /\ ss'[k].open => ss[k].open
    BY <1>4, <1>5, <1>6, <1>7
  <2> QED
    BY <1>2, <1>8, <1>11, <2>1, <2>2, QuietOwned
<1>13. Listed'
  <2>1. \A k \in T : ss'[k].open = ss[k].open /\ ss'[k].producers = ss[k].producers
    BY <1>5, <1>7
  <2>2. \A e \in byRoom : e[2] \in T
    BY <1>0 DEF SessionTypes
  <2> QED
    BY <1>2, <2>1, <2>2 DEF OwnerInv, Listed
<1> QED
  BY <1>10, <1>12, <1>13 DEF OwnerInv

\* A step that changes no session, no transport's stage and no registration.
LEMMA StillOwned ==
  ASSUME OwnerInv, SessionTypes',
         UNCHANGED <<auto, media, made, left, ss, current, byRoom, router>>, local \subseteq local',
         history'.orphaned = history.orphaned,
         \A k \in T : /\ tr'[k].at = tr[k].at /\ tr'[k].live = tr[k].live
                      /\ tr'[k].closed = tr[k].closed /\ tr'[k].onPc = tr[k].onPc
                      /\ tr'[k].todo = tr[k].todo /\ tr'[k].waiting = tr[k].waiting,
         NEW n \in T, tr[n].at \notin {"none", "joining"},
         \A k \in T : k # n => tr'[k] = tr[k] /\ answers'[k] = answers[k],
         \A u \in pubs' : u \in pubs \/ u.k = n,
         \A o \in offers' : o \in offers \/ o.k = n \/ o.k = router.session
  PROVE  OwnerInv'
<1>1. ASSUME NEW k \in T, tr[k].at \in {"none", "joining"} PROVE Fresh(k)'
  <2>1. Fresh(k) /\ k # n /\ current # k /\ router.session # k
    BY <1>1, NotFresh
  <2> QED
    BY <2>1, FreshStays
<1>2. Stages' /\ \A k \in T \ history'.orphaned : Only(k)'
  BY <1>1, QuietOwned
<1>3. Listed'
  BY DEF OwnerInv, Listed
<1> QED
  BY <1>2, <1>3 DEF OwnerInv

LEMMA PublishedOwned == ASSUME OwnerInv, NEW u \in pubs, Published(u) PROVE OwnerInv'
<1>1. u \in Publishing /\ u.k \in T /\ u.t \in Track
  BY DEF OwnerInv, SessionTypes, Publishing
<1>2. pubs' = pubs \ {u} /\ local' = (IF u.init THEN local ELSE local \cup {u.t})
      /\ UNCHANGED <<auto, media, made, left, tr, ss, current, byRoom, offers, answers, router, history>>
  BY DEF Published, server
<1>3. SessionTypes'
  BY <1>1, <1>2 DEF OwnerInv, SessionTypes
<1>4. tr[u.k].at \notin {"none", "joining"}
  BY <1>1, NotFresh
<1>5. local \subseteq local'
  BY <1>2
<1> QED
  BY <1>1, <1>2, <1>3, <1>4, <1>5, StillOwned

LEMMA NeededOwned == ASSUME OwnerInv, NEW n \in T, Needed(n) PROVE OwnerInv'
<1> DEFINE new == [tr[n] EXCEPT !.needed = "fired", !.neg = IF Negotiates(n) THEN "creating" ELSE @]
<1>0. SessionTypes
  BY DEF OwnerInv
<1>1. /\ tr[n].live /\ tr' = [tr EXCEPT ![n] = new]
      /\ history' = IF Negotiates(n) THEN history ELSE [history EXCEPT !.unheard = @ \cup {n}]
      /\ UNCHANGED <<auto, media, made, left, local, pubs, ss, current, byRoom, offers, answers, router>>
  BY DEF Needed, Set, server
<1>2. tr[n] \in Transport
  BY <1>0, TransportFields
<1>3. /\ new \in Transport /\ new.at = tr[n].at /\ new.live = tr[n].live /\ new.closed = tr[n].closed
      /\ new.onPc = tr[n].onPc /\ new.todo = tr[n].todo /\ new.waiting = tr[n].waiting
  BY <1>2 DEF Transport
<1> HIDE DEF new
<1>4. tr' \in [T -> Transport] /\ tr'[n] = new /\ \A j \in T : j # n => tr'[j] = tr[j]
  BY <1>0, <1>1, <1>3, TransportSet
<1>5. /\ history' \in [orphaned : SUBSET T, unheard : SUBSET T, twice : SUBSET (0 .. MaxT)]
      /\ history'.orphaned = history.orphaned
  BY <1>0, <1>1 DEF SessionTypes
<1>6. SessionTypes'
  BY <1>0, <1>1, <1>4, <1>5 DEF SessionTypes
<1>7. tr[n].at \notin {"none", "joining"}
  BY <1>1, NotFresh
<1> QED
  BY <1>1, <1>3, <1>4, <1>5, <1>6, <1>7, StillOwned

LEMMA OfferOwned == ASSUME OwnerInv, NEW n \in T, Offer(n) PROVE OwnerInv'
<1> DEFINE new == IF ~tr[n].live THEN [tr[n] EXCEPT !.neg = "idle"]
                  ELSE [tr[n] EXCEPT !.neg = "handling", !.sig = "have-local-offer",
                                     !.offered = tr[n].onPc, !.needed = "no"]
<1>0. SessionTypes /\ MaxT \in Nat /\ T = 1 .. MaxT
  BY SessionAssumption DEF OwnerInv, T
<1>1. /\ tr[n].neg = "creating" /\ tr' = [tr EXCEPT ![n] = new]
      /\ UNCHANGED <<auto, media, made, left, local, pubs, ss, current, byRoom, answers, router>>
  BY DEF Offer, Set
<1>2. tr[n] \in Transport
  BY <1>0, TransportFields
<1>3. /\ new \in Transport /\ new.at = tr[n].at /\ new.live = tr[n].live /\ new.closed = tr[n].closed
      /\ new.onPc = tr[n].onPc /\ new.todo = tr[n].todo /\ new.waiting = tr[n].waiting
  BY <1>2 DEF Transport
<1> HIDE DEF new
<1>4. tr' \in [T -> Transport] /\ tr'[n] = new /\ \A j \in T : j # n => tr'[j] = tr[j]
  BY <1>0, <1>1, <1>3, TransportSet
<1>5. router.session \in 0 .. MaxT /\ 0 \in 0 .. MaxT /\ n \in 0 .. MaxT
  BY <1>0 DEF SessionTypes
<1>6. \/ UNCHANGED <<offers, history>>
      \/ /\ offers' = offers \cup {[k |-> n, via |-> "client", at |-> "start", rest |-> {}]}
              \cup IF router.session # 0
                   THEN {[k |-> router.session, via |-> "router", at |-> "start", rest |-> {}]}
                   ELSE {}
         /\ history' = IF router.session # 0 \/ \E o \in offers : o.k = n
                       THEN [history EXCEPT !.twice = @ \cup {n, router.session}] ELSE history
  BY DEF Offer
<1>7. /\ history' \in [orphaned : SUBSET T, unheard : SUBSET T, twice : SUBSET (0 .. MaxT)]
      /\ history'.orphaned = history.orphaned
  <2>1. history.twice \cup {n, router.session} \subseteq 0 .. MaxT
    BY <1>0, <1>5 DEF SessionTypes
  <2>2. history' \in {history, [history EXCEPT !.twice = history.twice \cup {n, router.session}]}
    BY <1>6
  <2> QED
    BY <1>0, <2>1, <2>2 DEF SessionTypes
<1>8. /\ offers' \subseteq Handling
      /\ \A o \in offers' : o \in offers \/ o.k = n \/ o.k = router.session
  BY <1>0, <1>5, <1>6 DEF SessionTypes, Handling
<1>9. SessionTypes'
  BY <1>0, <1>1, <1>4, <1>7, <1>8 DEF SessionTypes
<1>10. tr[n].at \notin {"none", "joining"}
  BY <1>1, NotFresh
<1> QED
  BY <1>1, <1>3, <1>4, <1>7, <1>8, <1>9, <1>10, StillOwned

LEMMA AnswerOwned == ASSUME OwnerInv, NEW n \in T, Answer(n) PROVE OwnerInv'
<1> DEFINE new == IF media = n /\ tr[n].live /\ tr[n].sig = "have-local-offer"
                  THEN [tr[n] EXCEPT !.sig = "stable",
                          !.needed = IF tr[n].onPc \subseteq tr[n].offered THEN "no" ELSE "queued"]
                  ELSE tr[n]
<1>0. SessionTypes
  BY DEF OwnerInv
<1>1. /\ answers[n] /\ answers' = [answers EXCEPT ![n] = FALSE]
      /\ history' = IF media # n THEN [history EXCEPT !.unheard = @ \cup {n}] ELSE history
      /\ UNCHANGED <<auto, media, made, left, local, pubs, ss, current, byRoom, offers, router>>
  BY DEF Answer
<1>2. tr[n] \in Transport /\ tr = [tr EXCEPT ![n] = tr[n]]
  BY <1>0, TransportFields DEF SessionTypes
<1>3. tr' = [tr EXCEPT ![n] = new]
  BY <1>2 DEF Answer, Set
<1>4. /\ new \in Transport /\ new.at = tr[n].at /\ new.live = tr[n].live /\ new.closed = tr[n].closed
      /\ new.onPc = tr[n].onPc /\ new.todo = tr[n].todo /\ new.waiting = tr[n].waiting
  BY <1>2 DEF Transport
<1> HIDE DEF new
<1>5. tr' \in [T -> Transport] /\ tr'[n] = new /\ \A j \in T : j # n => tr'[j] = tr[j]
  BY <1>0, <1>3, <1>4, TransportSet
<1>6. /\ history' \in [orphaned : SUBSET T, unheard : SUBSET T, twice : SUBSET (0 .. MaxT)]
      /\ history'.orphaned = history.orphaned
  BY <1>0, <1>1 DEF SessionTypes
<1>7. answers' \in [T -> BOOLEAN] /\ \A k \in T : k # n => answers'[k] = answers[k]
  BY <1>0, <1>1 DEF SessionTypes
<1>8. SessionTypes'
  BY <1>0, <1>1, <1>5, <1>6, <1>7 DEF SessionTypes
<1>9. tr[n].at \notin {"none", "joining"}
  BY <1>1, NotFresh
<1> QED
  BY <1>1, <1>4, <1>5, <1>6, <1>7, <1>8, <1>9, StillOwned

LEMMA OfferStartsOwned == ASSUME OwnerInv, NEW o \in offers, OfferStarts(o) PROVE OwnerInv'
<1>0. SessionTypes
  BY DEF OwnerInv
<1>1. o \in Handling /\ o.k \in T
  BY <1>0 DEF SessionTypes, Handling
<1>2. /\ offers' = (offers \ {o}) \cup {[o EXCEPT !.at = "producing", !.rest = ss[o.k].pending]}
      /\ UNCHANGED <<auto, media, made, left, local, tr, pubs, ss, current, byRoom, answers,
                     router, history>>
  BY DEF OfferStarts, client
<1>3. ss[o.k].pending \subseteq Track
  BY <1>0, <1>1, TransportFields
<1>4. offers' \subseteq Handling /\ \A p \in offers' : p \in offers \/ p.k = o.k
  BY <1>0, <1>1, <1>2, <1>3 DEF SessionTypes, Handling
<1>5. SessionTypes'
  BY <1>0, <1>2, <1>4 DEF SessionTypes
<1>6. tr[o.k].at \notin {"none", "joining"}
  BY <1>1, NotFresh
<1> QED
  BY <1>1, <1>2, <1>4, <1>5, <1>6, StillOwned

\* The negotiation an offer's end lets go on.
LEMMA FinishSets ==
  ASSUME SessionTypes, NEW o \in offers, Finish(o)
  PROVE  /\ o.k \in T /\ tr' \in [T -> Transport]
         /\ \A k \in T : /\ tr'[k].at = tr[k].at /\ tr'[k].live = tr[k].live
                         /\ tr'[k].closed = tr[k].closed /\ tr'[k].onPc = tr[k].onPc
                         /\ tr'[k].todo = tr[k].todo /\ tr'[k].waiting = tr[k].waiting
                         /\ tr'[k].sig = tr[k].sig /\ tr'[k].offered = tr[k].offered
                         /\ tr'[k].needed = tr[k].needed
                         /\ k # o.k => tr'[k] = tr[k]
                         /\ o.via = "client" => tr'[o.k].neg = "idle"
                         /\ o.via # "client" => tr' = tr
<1> DEFINE new == [tr[o.k] EXCEPT !.neg = "idle"]
<1>1. o.k \in T /\ tr \in [T -> Transport]
  BY DEF SessionTypes, Handling
<1>2. tr[o.k] \in Transport
  BY <1>1
<1>3. /\ new \in Transport /\ new.at = tr[o.k].at /\ new.live = tr[o.k].live
      /\ new.closed = tr[o.k].closed /\ new.onPc = tr[o.k].onPc /\ new.todo = tr[o.k].todo
      /\ new.waiting = tr[o.k].waiting /\ new.sig = tr[o.k].sig /\ new.offered = tr[o.k].offered
      /\ new.needed = tr[o.k].needed /\ new.neg = "idle"
  BY <1>2 DEF Transport
<1>4. tr' = (IF o.via = "client" THEN [tr EXCEPT ![o.k] = new] ELSE tr)
  BY DEF Finish
<1> HIDE DEF new
<1>5. CASE o.via = "client"
  <2>1. tr' \in [T -> Transport] /\ tr'[o.k] = new /\ \A j \in T : j # o.k => tr'[j] = tr[j]
    BY <1>1, <1>3, <1>4, <1>5, TransportSet
  <2> QED
    BY <1>1, <1>3, <1>5, <2>1
<1>6. CASE o.via # "client"
  BY <1>1, <1>4, <1>6
<1> QED
  BY <1>5, <1>6

LEMMA AnsweredOwned == ASSUME OwnerInv, NEW o \in offers, Answered(o) PROVE OwnerInv'
<1>0. SessionTypes
  BY DEF OwnerInv
<1>1. /\ offers' = offers \ {o} /\ Finish(o) /\ answers' = [answers EXCEPT ![o.k] = TRUE]
      /\ UNCHANGED <<auto, media, made, left, local, pubs, ss, current, byRoom, router, history>>
  BY DEF Answered
<1>2. o.k \in T /\ tr' \in [T -> Transport] /\ \A k \in T : k # o.k => tr'[k] = tr[k]
  BY <1>0, <1>1, FinishSets
<1>3. \A k \in T : /\ tr'[k].at = tr[k].at /\ tr'[k].live = tr[k].live
                   /\ tr'[k].closed = tr[k].closed /\ tr'[k].onPc = tr[k].onPc
                   /\ tr'[k].todo = tr[k].todo /\ tr'[k].waiting = tr[k].waiting
  BY <1>0, <1>1, FinishSets
<1>4. answers' \in [T -> BOOLEAN] /\ \A k \in T : k # o.k => answers'[k] = answers[k]
  BY <1>0, <1>1 DEF SessionTypes
<1>5. SessionTypes'
  BY <1>0, <1>1, <1>2, <1>4 DEF SessionTypes
<1>6. tr[o.k].at \notin {"none", "joining"}
  BY <1>2, NotFresh
<1> QED
  BY <1>1, <1>2, <1>3, <1>4, <1>5, <1>6, StillOwned

LEMMA SetTwice ==
  ASSUME NEW f, NEW k, NEW a, NEW b
  PROVE  [[f EXCEPT ![k] = a] EXCEPT ![k] = b] = [f EXCEPT ![k] = b]
OBVIOUS

\* A track is produced: the room's map names the session that produces it.
LEMMA ProducedOwned == ASSUME OwnerInv, NEW o \in offers, Produced(o) PROVE OwnerInv'
<1>0. SessionTypes
  BY DEF OwnerInv
<1>1. /\ o.at = "producing" /\ o \in Handling /\ o.k \in T /\ o.rest \subseteq Track
      /\ UNCHANGED <<auto, media, made, left, local, pubs, current, answers, router, history>>
  BY <1>0 DEF Produced, SessionTypes, Handling
<1>2. tr[o.k].at \notin {"none", "joining"}
  BY <1>1, NotFresh
<1>3. CASE ~ss[o.k].open /\ offers' = offers \ {o} /\ Finish(o) /\ UNCHANGED <<ss, byRoom>>
  <2>1. tr' \in [T -> Transport] /\ \A k \in T : k # o.k => tr'[k] = tr[k]
    BY <1>0, <1>3, FinishSets
  <2>2. \A k \in T : /\ tr'[k].at = tr[k].at /\ tr'[k].live = tr[k].live
                     /\ tr'[k].closed = tr[k].closed /\ tr'[k].onPc = tr[k].onPc
                     /\ tr'[k].todo = tr[k].todo /\ tr'[k].waiting = tr[k].waiting
    BY <1>0, <1>3, FinishSets
  <2>3. SessionTypes'
    BY <1>0, <1>1, <1>3, <2>1 DEF SessionTypes
  <2> QED
    BY <1>1, <1>2, <1>3, <2>1, <2>2, <2>3, StillOwned
<1>4. ASSUME NEW t \in o.rest, ss[o.k].open,
             ss' = [ss EXCEPT ![o.k].producers[t] = @ + 1, ![o.k].pending = @ \ {t}],
             byRoom' = EnteredAs(t, o.k),
             offers' = (offers \ {o}) \cup {[o EXCEPT !.rest = @ \ {t}]},
             UNCHANGED tr
      PROVE  OwnerInv'
  <2> DEFINE more == [ss[o.k].producers EXCEPT ![t] = @ + 1]
             new == [[ss[o.k] EXCEPT !.producers = more] EXCEPT !.pending = ss[o.k].pending \ {t}]
  <2>1. t \in Track /\ ss[o.k] \in Session /\ ss[o.k].producers \in [Track -> Nat]
    BY <1>0, <1>1, TransportFields
  <2>2. /\ new \in Session /\ new.open /\ new.producers[t] = ss[o.k].producers[t] + 1
        /\ \A u \in Track : u # t => new.producers[u] = ss[o.k].producers[u]
    <3>1. /\ more \in [Track -> Nat] /\ more[t] = ss[o.k].producers[t] + 1
          /\ \A u \in Track : u # t => more[u] = ss[o.k].producers[u]
      BY <2>1
    <3> HIDE DEF more
    <3> QED
      BY <1>4, <2>1, <3>1 DEF Session
  <2>3. ss' = [ss EXCEPT ![o.k] = new]
    <3>1. ss \in [T -> Session] /\ ss[o.k].pending \in SUBSET Track
      BY <1>0, <2>1 DEF SessionTypes, Session
    <3>2. ss' = [[ss EXCEPT ![o.k] = [ss[o.k] EXCEPT !.producers = more]]
                   EXCEPT ![o.k] = [[ss EXCEPT ![o.k] = [ss[o.k] EXCEPT !.producers = more]][o.k]
                                      EXCEPT !.pending = @ \ {t}]]
      BY <1>4
    <3>3. [ss EXCEPT ![o.k] = [ss[o.k] EXCEPT !.producers = more]][o.k]
            = [ss[o.k] EXCEPT !.producers = more]
      BY <1>1, <3>1
    <3>4. [ss[o.k] EXCEPT !.producers = more].pending = ss[o.k].pending
      BY <2>1 DEF Session
    <3>5. ss' = [[ss EXCEPT ![o.k] = [ss[o.k] EXCEPT !.producers = more]] EXCEPT ![o.k] = new]
      BY <3>2, <3>3, <3>4, Zenon
    <3> HIDE DEF more, new
    <3> QED
      BY <3>5, SetTwice
  <2> HIDE DEF new
  <2>4. ss' \in [T -> Session] /\ ss'[o.k] = new /\ \A j \in T : j # o.k => ss'[j] = ss[j]
    BY <1>0, <1>1, <2>2, <2>3, SessionSet
  <2>5. offers' \subseteq Handling /\ \A p \in offers' : p \in offers \/ p.k = o.k
    BY <1>0, <1>1, <1>4 DEF SessionTypes, Handling
  <2>6. byRoom' \subseteq Track \X T
    BY <1>0, <1>1, <1>4, <2>1 DEF SessionTypes, EnteredAs
  <2>7. SessionTypes'
    BY <1>0, <1>1, <1>4, <2>4, <2>5, <2>6 DEF SessionTypes
  <2>8. ASSUME NEW k \in T, tr[k].at \in {"none", "joining"} PROVE Fresh(k)'
    <3>1. Fresh(k) /\ k # o.k /\ current # k /\ router.session # k
      BY <2>8, <1>2, NotFresh
    <3> QED
      BY <1>1, <1>4, <2>4, <2>5, <3>1, FreshStays
  <2>9. \A k \in T : ss'[k].open = ss[k].open /\ \A u \in Track : ss'[k].producers[u] >= ss[k].producers[u]
    <3>1. \A k \in T : \A u \in Track : ss[k].producers[u] \in Nat
      BY <1>0, TransportFields
    <3> QED
      BY <1>4, <2>1, <2>2, <2>4, <3>1
  <2>10. Stages' /\ \A k \in T \ history'.orphaned : Only(k)'
    BY <1>1, <1>4, <2>8, <2>9, QuietOwned
  <2>11. ASSUME NEW e \in byRoom' PROVE ss'[e[2]].open /\ ss'[e[2]].producers[e[1]] > 0
    <3>1. CASE e \in byRoom
      <4>1. e[1] \in Track /\ e[2] \in T /\ ss[e[2]].open /\ ss[e[2]].producers[e[1]] > 0
        BY <1>0, <3>1 DEF OwnerInv, Listed, SessionTypes
      <4>2. ss[e[2]].producers[e[1]] \in Nat /\ ss'[e[2]].producers[e[1]] \in Nat
        BY <1>0, <2>4, <4>1, TransportFields DEF Session
      <4> QED
        BY <2>9, <4>1, <4>2
    <3>2. CASE e = <<t, o.k>>
      <4>1. ss[o.k].producers[t] \in Nat
        BY <2>1
      <4> QED
        BY <2>2, <2>4, <3>2, <4>1
    <3> QED
      BY <1>4, <3>1, <3>2 DEF EnteredAs
  <2>12. ASSUME NEW k \in T, ss'[k].open, k = current', NEW u \in Track, ss'[k].producers[u] > 0
         PROVE  \E e \in byRoom' : e[1] = u
    <3>1. CASE u = t
      <4>1. <<t, o.k>> \in byRoom'
        BY <1>4 DEF EnteredAs
      <4> QED
        BY <3>1, <4>1
    <3>2. CASE u # t
      <4>1. ss'[k].producers[u] = ss[k].producers[u]
        BY <1>1, <2>2, <2>4, <3>2
      <4>2. PICK e \in byRoom : e[1] = u
        BY <1>1, <2>9, <2>12, <4>1 DEF OwnerInv, Listed
      <4> QED
        BY <1>4, <3>2, <4>2 DEF EnteredAs
    <3> QED
      BY <3>1, <3>2
  <2>13. Listed'
    BY <1>1, <2>11, <2>12 DEF OwnerInv, Listed
  <2> QED
    BY <2>7, <2>10, <2>13 DEF OwnerInv
<1> QED
  BY <1>3, <1>4 DEF Produced

LEMMA RoutePublishOwned == ASSUME OwnerInv, NEW t \in Track, RoutePublish(t) PROVE OwnerInv'
<1> DEFINE n == router.session
           new == [ss[n] EXCEPT !.pending = @ \cup {t}]
<1>0. SessionTypes /\ MaxT \in Nat /\ T = 1 .. MaxT
  BY SessionAssumption DEF OwnerInv, T
<1>1. /\ n # 0 /\ ss' = [ss EXCEPT ![n] = new]
      /\ router' = [router EXCEPT !.tracks = @ \cup {t}]
      /\ UNCHANGED <<auto, media, made, left, local, tr, pubs, current, byRoom, offers, answers, history>>
  BY DEF RoutePublish, Registered, client
<1>2. n \in T
  BY <1>0, <1>1 DEF SessionTypes
<1>3. ss[n] \in Session
  BY <1>0, <1>2, TransportFields
<1>4. new \in Session /\ new.open = ss[n].open /\ new.producers = ss[n].producers
  BY <1>3 DEF Session
<1> HIDE DEF new
<1>5. ss' \in [T -> Session] /\ ss'[n] = new /\ \A j \in T : j # n => ss'[j] = ss[j]
  BY <1>0, <1>1, <1>2, <1>4, SessionSet
<1>6. router' \in [session : 0 .. MaxT, tracks : SUBSET Track] /\ router'.session = n
  BY <1>0, <1>1 DEF SessionTypes
<1>7. SessionTypes'
  BY <1>0, <1>1, <1>5, <1>6 DEF SessionTypes
<1>8. ASSUME NEW k \in T, tr[k].at \in {"none", "joining"} PROVE Fresh(k)'
  <2>1. Fresh(k) /\ k # n /\ current # k
    BY <1>8, NotFresh
  <2> QED
    BY <1>1, <1>5, <1>6, <2>1, FreshStays
<1>9. \A k \in T : ss'[k].open = ss[k].open /\ ss'[k].producers = ss[k].producers
  BY <1>4, <1>5
<1>10. Stages' /\ \A k \in T \ history'.orphaned : Only(k)'
  BY <1>1, <1>8, <1>9, QuietOwned
<1>11. \A e \in byRoom : e[2] \in T
  BY <1>0 DEF SessionTypes
<1>12. Listed'
  BY <1>1, <1>6, <1>9, <1>11 DEF OwnerInv, Listed
<1> QED
  BY <1>7, <1>10, <1>12 DEF OwnerInv

\* The end of a session: the room's map goes with it.
LEMMA SessionEnds ==
  ASSUME OwnerInv, NEW n \in T, EndSession(n)
  PROVE  /\ ss' \in [T -> Session] /\ ~ss'[n].open
         /\ \A k \in T : (ss'[k].open => ss[k].open) /\ (k # n => ss'[k] = ss[k])
         /\ current' \in {0, current} /\ byRoom' \subseteq byRoom
         /\ \A e \in byRoom' : ss'[e[2]].open /\ ss'[e[2]].producers[e[1]] > 0
         /\ \A k \in T : ss'[k].open /\ k = current' =>
              \A t \in Track : ss'[k].producers[t] > 0 => \E e \in byRoom' : e[1] = t
<1>0. SessionTypes /\ MaxT \in Nat /\ T = 1 .. MaxT /\ ss \in [T -> Session]
  BY SessionAssumption DEF OwnerInv, T, SessionTypes
<1>1. CASE ss[n].open
  <2>1. ss' = [ss EXCEPT ![n] = NewSession] /\ current' = 0 /\ byRoom' = {}
    BY <1>1 DEF EndSession
  <2>2. NewSession \in Session /\ ~NewSession.open
    BY DEF NewSession, Session
  <2>3. ss' \in [T -> Session] /\ ss'[n] = NewSession /\ \A j \in T : j # n => ss'[j] = ss[j]
    BY <1>0, <2>1, <2>2, SessionSet
  <2> QED
    BY <1>0, <2>1, <2>2, <2>3
<1>2. CASE ~ss[n].open
  <2>1. UNCHANGED <<ss, current, byRoom>>
    BY <1>2 DEF EndSession
  <2> QED
    BY <1>0, <1>2, <2>1 DEF OwnerInv, Listed
<1> QED
  BY <1>1, <1>2

LEMMA RouteLeaveOwned == ASSUME OwnerInv, RouteLeave PROVE OwnerInv'
<1> DEFINE n == router.session
<1>0. SessionTypes /\ MaxT \in Nat /\ T = 1 .. MaxT
  BY SessionAssumption DEF OwnerInv, T
<1>1. /\ n # 0 /\ EndSession(n) /\ router' = [session |-> 0, tracks |-> {}]
      /\ UNCHANGED <<auto, media, made, left, local, tr, pubs, offers, answers, history>>
  BY DEF RouteLeave, Registered, Unregister, client
<1>2. n \in T
  BY <1>0, <1>1 DEF SessionTypes
<1>3. /\ ss' \in [T -> Session] /\ current' \in {0, current} /\ byRoom' \subseteq byRoom
      /\ \A k \in T : (ss'[k].open => ss[k].open) /\ (k # n => ss'[k] = ss[k])
  BY <1>1, <1>2, SessionEnds
<1>4. router' \in [session : 0 .. MaxT, tracks : SUBSET Track] /\ router'.session = 0 /\ router'.tracks = {}
  BY <1>0, <1>1
<1>5. SessionTypes'
  BY <1>0, <1>1, <1>3, <1>4 DEF SessionTypes
<1>6. ASSUME NEW k \in T, tr[k].at \in {"none", "joining"} PROVE Fresh(k)'
  <2>1. Fresh(k) /\ k # n /\ current # k
    BY <1>6, NotFresh
  <2>2. k # 0
    BY <1>0
  <2> QED
    BY <1>1, <1>3, <1>4, <2>1, <2>2, FreshStays
<1>7. Stages' /\ \A k \in T \ history'.orphaned : Only(k)'
  BY <1>1, <1>3, <1>6, QuietOwned
<1>8. Listed'
  <2>1. \A e \in byRoom' : ss'[e[2]].open /\ ss'[e[2]].producers[e[1]] > 0
    BY <1>1, <1>2, SessionEnds
  <2>2. \A k \in T : ss'[k].open /\ k = current' =>
          \A t \in Track : ss'[k].producers[t] > 0 => \E e \in byRoom' : e[1] = t
    BY <1>1, <1>2, SessionEnds
  <2> QED
    BY <1>4, <2>1, <2>2 DEF Listed
<1> QED
  BY <1>5, <1>7, <1>8 DEF OwnerInv

\* The Room leaves: its transport is closed and leaves the session it has by now.
LEMMA LeaveOwned == ASSUME OwnerInv, Leave PROVE OwnerInv'
<1> DEFINE n == media
<1>0. SessionTypes /\ MaxT \in Nat /\ T = 1 .. MaxT
  BY SessionAssumption DEF OwnerInv, T
<1>1. /\ ~left /\ left' = TRUE
      /\ history' = [history EXCEPT !.orphaned = @ \cup
                       {k \in T : tr[k].at = "joining" \/ (k # n /\ tr[k].live)}]
      /\ UNCHANGED <<auto, media, made, local, pubs, offers, answers, router>>
  BY DEF Leave
<1>2. /\ history' \in [orphaned : SUBSET T, unheard : SUBSET T, twice : SUBSET (0 .. MaxT)]
      /\ history'.orphaned = history.orphaned \cup
           {k \in T : tr[k].at = "joining" \/ (k # n /\ tr[k].live)}
  BY <1>0, <1>1 DEF SessionTypes
<1>3. /\ tr' \in [T -> Transport]
      /\ \A k \in T : /\ tr'[k].at = tr[k].at /\ tr'[k].onPc = tr[k].onPc
                      /\ tr'[k].todo = tr[k].todo /\ tr'[k].waiting = tr[k].waiting
                      /\ tr'[k].sig = tr[k].sig /\ tr'[k].offered = tr[k].offered
                      /\ tr'[k].needed = tr[k].needed /\ tr'[k].neg = tr[k].neg
                      /\ k = n => ~tr'[k].live /\ tr'[k].closed
                      /\ k # n => tr'[k] = tr[k]
  <2>1. CASE n = 0
    BY <1>0, <2>1 DEF Leave, SessionTypes
  <2>2. CASE n # 0
    <3>1. n \in T /\ tr' = [tr EXCEPT ![n] = Closed(n)]
      BY <1>0, <2>2 DEF Leave, Set, SessionTypes
    <3>2. tr[n] \in Transport
      BY <1>0, <3>1, TransportFields
    <3>3. /\ Closed(n) \in Transport /\ Closed(n).at = tr[n].at /\ Closed(n).onPc = tr[n].onPc
          /\ Closed(n).todo = tr[n].todo /\ Closed(n).waiting = tr[n].waiting
          /\ Closed(n).sig = tr[n].sig /\ Closed(n).offered = tr[n].offered
          /\ Closed(n).needed = tr[n].needed /\ Closed(n).neg = tr[n].neg
          /\ ~Closed(n).live /\ Closed(n).closed
      BY <3>2 DEF Closed, Transport
    <3>4. tr' \in [T -> Transport] /\ tr'[n] = Closed(n) /\ \A j \in T : j # n => tr'[j] = tr[j]
      BY <1>0, <3>1, <3>3, TransportSet
    <3> QED
      BY <3>3, <3>4
  <2> QED
    BY <2>1, <2>2
<1>4. /\ ss' \in [T -> Session] /\ current' \in {0, current} /\ byRoom' \subseteq byRoom
      /\ \A k \in T : /\ ss'[k].open => ss[k].open
                      /\ k # n \/ ~ss[k].open => ss'[k] = ss[k]
                      /\ k = n => ~ss'[k].open
      /\ \A e \in byRoom' : ss'[e[2]].open /\ ss'[e[2]].producers[e[1]] > 0
      /\ \A k \in T : ss'[k].open /\ k = current' =>
           \A t \in Track : ss'[k].producers[t] > 0 => \E e \in byRoom' : e[1] = t
  <2>1. CASE n # 0 /\ tr[n].live
    <3>1. n \in T /\ EndSession(n)
      BY <1>0, <2>1 DEF Leave, Leaves, SessionTypes
    <3>2. ~ss[n].open => UNCHANGED ss
      BY <3>1 DEF EndSession
    <3> QED
      BY <3>1, <3>2, SessionEnds
  <2>2. CASE ~(n # 0 /\ tr[n].live)
    <3>1. UNCHANGED <<ss, current, byRoom>>
      BY <2>2 DEF Leave, Leaves
    <3>2. \A k \in T : k = n => ~ss[k].open
      BY <1>0, <2>2 DEF OwnerInv, Stages
    <3>3. ss \in [T -> Session]
      BY <1>0 DEF SessionTypes
    <3> QED
      BY <3>1, <3>2, <3>3 DEF OwnerInv, Listed
  <2> QED
    BY <2>1, <2>2
<1>5. SessionTypes'
  BY <1>0, <1>1, <1>2, <1>3, <1>4 DEF SessionTypes
<1>6. ASSUME NEW k \in T, tr[k].at \in {"none", "joining"} PROVE Fresh(k)'
  <2>1. Fresh(k) /\ ~ss[k].open /\ current # k /\ router.session # k
    BY <1>6, NotFresh
  <2>2. ss'[k] = ss[k] /\ current' # k /\ k # 0 /\ ~tr'[k].live
    BY <1>0, <1>3, <1>4, <2>1 DEF Fresh
  <2> QED
    BY <1>1, <1>3, <2>1, <2>2 DEF Fresh
<1>7. Stages'
  <2>1. \A k \in T : ss'[k].open => tr'[k].live
    BY <1>3, <1>4 DEF OwnerInv, Stages
  <2>2. \A k \in T : tr'[k].at \in {"local", "waiting", "ready"} /\ ~tr'[k].live => tr'[k].closed
    BY <1>3 DEF OwnerInv, Stages
  <2> QED
    BY <1>1, <1>3, <1>6, <2>1, <2>2 DEF OwnerInv, Stages
<1>8. ASSUME NEW k \in T \ history'.orphaned PROVE Only(k)'
  <2>1. Only(k) /\ tr[k].at # "joining" /\ (k # n => ~tr[k].live)
    BY <1>2 DEF OwnerInv
  <2>2. ~ss'[k].open
    BY <1>4, <2>1 DEF OwnerInv, Stages
  <2>3. k # n => tr'[k].closed = tr[k].closed
    BY <1>3
  <2> QED
    BY <1>1, <1>3, <2>1, <2>2, <2>3 DEF Only
<1>9. Listed'
  BY <1>1, <1>4 DEF OwnerInv, Listed
<1> QED
  BY <1>5, <1>7, <1>8, <1>9 DEF OwnerInv

\* A track put on the connection.
LEMMA AddTrackSets ==
  ASSUME SessionTypes, NEW k \in T, NEW t \in Track
  PROVE  /\ AddTrack(k, t) \in Transport /\ AddTrack(k, t).at = tr[k].at
         /\ AddTrack(k, t).live = tr[k].live /\ AddTrack(k, t).closed = tr[k].closed
         /\ AddTrack(k, t).onPc = tr[k].onPc \cup {t} /\ AddTrack(k, t).sig = tr[k].sig
         /\ AddTrack(k, t).offered = tr[k].offered /\ AddTrack(k, t).neg = tr[k].neg
         /\ AddTrack(k, t).todo = tr[k].todo /\ AddTrack(k, t).waiting = tr[k].waiting
         /\ AddTrack(k, t).needed = (IF tr[k].sig = "stable" /\ tr[k].needed = "no"
                                     THEN "queued" ELSE tr[k].needed)
<1>1. tr[k] \in Transport
  BY TransportFields
<1> QED
  BY <1>1 DEF AddTrack, Transport

\* init() publishes one track, goes on to those published before there was a session, or ends.
LEMMA InitStepSets ==
  ASSUME SessionTypes, NEW n \in T, InitStep(n)
  PROVE  /\ tr[n].at \in {"local", "waiting"} /\ tr' \in [T -> Transport]
         /\ \A u \in pubs : ~(u.k = n /\ u.init)
         /\ UNCHANGED <<auto, made, left, local, ss, current, byRoom, offers, answers, router, history>>
         /\ \A k \in T : k # n => tr'[k] = tr[k]
         /\ tr'[n].live = tr[n].live /\ tr'[n].closed = tr[n].closed /\ tr'[n].sig = tr[n].sig
         /\ tr'[n].offered = tr[n].offered /\ tr'[n].neg = tr[n].neg
         /\ \/ /\ tr'[n].at = "failed" /\ UNCHANGED <<media, pubs>>
               /\ tr[n].closed \/ tr[n].todo \cap tr[n].onPc # {}
               /\ tr'[n].onPc = tr[n].onPc /\ tr'[n].todo = tr[n].todo
               /\ tr'[n].waiting = tr[n].waiting /\ tr'[n].needed = tr[n].needed
            \/ \E t \in tr[n].todo :
                 /\ ~tr[n].closed /\ t \notin tr[n].onPc /\ tr'[n].at = tr[n].at
                 /\ tr'[n].onPc = tr[n].onPc \cup {t} /\ tr'[n].todo = tr[n].todo \ {t}
                 /\ tr'[n].waiting = tr[n].waiting /\ UNCHANGED media
                 /\ tr'[n].needed = (IF tr[n].sig = "stable" /\ tr[n].needed = "no"
                                     THEN "queued" ELSE tr[n].needed)
                 /\ pubs' = pubs \cup {[k |-> n, t |-> t, at |-> "announce", init |-> TRUE]}
            \/ /\ tr[n].todo = {} /\ tr[n].at = "local" /\ tr'[n].at = "waiting"
               /\ tr'[n].todo = tr[n].waiting /\ tr'[n].waiting = {} /\ tr'[n].onPc = tr[n].onPc
               /\ tr'[n].needed = tr[n].needed /\ UNCHANGED <<media, pubs>>
            \/ /\ tr[n].todo = {} /\ tr[n].at = "waiting" /\ tr'[n].at = "ready"
               /\ tr'[n].todo = {} /\ tr'[n].waiting = tr[n].waiting /\ tr'[n].onPc = tr[n].onPc
               /\ tr'[n].needed = tr[n].needed /\ UNCHANGED pubs
               /\ media' = IF auto THEN n ELSE media
<1> DEFINE x == tr[n]
<1>0. x \in Transport /\ x.todo \subseteq Track /\ x.waiting \subseteq Track
  BY TransportFields
<1>1. /\ x.at \in {"local", "waiting"} /\ \A u \in pubs : ~(u.k = n /\ u.init)
      /\ UNCHANGED <<auto, made, left, local, ss, current, byRoom, offers, answers, router, history>>
  BY DEF InitStep, server
<1>2. CASE \E t \in x.todo : /\ x.closed \/ t \in x.onPc
                             /\ Set(n, [tr[n] EXCEPT !.at = "failed"]) /\ UNCHANGED <<media, pubs>>
  <2>1. x.closed \/ x.todo \cap x.onPc # {}
    BY <1>2
  <2>2. tr' = [tr EXCEPT ![n] = [x EXCEPT !.at = "failed"]] /\ UNCHANGED <<media, pubs>>
    BY <1>2 DEF Set
  <2>3. [x EXCEPT !.at = "failed"] \in Transport
    BY <1>0 DEF Transport, Stage
  <2>4. tr' \in [T -> Transport] /\ tr'[n] = [x EXCEPT !.at = "failed"] /\ \A j \in T : j # n => tr'[j] = tr[j]
    BY <2>2, <2>3, TransportSet
  <2> HIDE DEF x
  <2>5. /\ [x EXCEPT !.at = "failed"].at = "failed" /\ [x EXCEPT !.at = "failed"].live = x.live
        /\ [x EXCEPT !.at = "failed"].closed = x.closed /\ [x EXCEPT !.at = "failed"].sig = x.sig
        /\ [x EXCEPT !.at = "failed"].offered = x.offered /\ [x EXCEPT !.at = "failed"].neg = x.neg
        /\ [x EXCEPT !.at = "failed"].onPc = x.onPc /\ [x EXCEPT !.at = "failed"].todo = x.todo
        /\ [x EXCEPT !.at = "failed"].waiting = x.waiting
        /\ [x EXCEPT !.at = "failed"].needed = x.needed
    BY <1>0 DEF Transport
  <2> QED
    BY <1>1, <2>1, <2>2, <2>4, <2>5 DEF x
<1>3. ASSUME NEW t \in x.todo, ~x.closed, t \notin x.onPc,
             Set(n, [AddTrack(n, t) EXCEPT !.todo = @ \ {t}]),
             pubs' = pubs \cup {[k |-> n, t |-> t, at |-> "announce", init |-> TRUE]},
             UNCHANGED media
      PROVE  /\ tr' \in [T -> Transport] /\ \A k \in T : k # n => tr'[k] = tr[k]
             /\ tr'[n].at = x.at /\ tr'[n].live = x.live /\ tr'[n].closed = x.closed
             /\ tr'[n].sig = x.sig /\ tr'[n].offered = x.offered /\ tr'[n].neg = x.neg
             /\ tr'[n].onPc = x.onPc \cup {t} /\ tr'[n].todo = x.todo \ {t}
             /\ tr'[n].waiting = x.waiting
             /\ tr'[n].needed = (IF x.sig = "stable" /\ x.needed = "no" THEN "queued" ELSE x.needed)
  <2> DEFINE a == AddTrack(n, t)
             new == [a EXCEPT !.todo = @ \ {t}]
  <2>1. /\ a \in Transport /\ a.at = x.at /\ a.live = x.live /\ a.closed = x.closed
        /\ a.onPc = x.onPc \cup {t} /\ a.sig = x.sig /\ a.offered = x.offered /\ a.neg = x.neg
        /\ a.todo = x.todo /\ a.waiting = x.waiting
        /\ a.needed = (IF x.sig = "stable" /\ x.needed = "no" THEN "queued" ELSE x.needed)
    BY <1>0, AddTrackSets
  <2>2. tr' = [tr EXCEPT ![n] = new]
    BY <1>3 DEF Set
  <2> HIDE DEF a, x
  <2>3. /\ new \in Transport /\ new.at = a.at /\ new.live = a.live /\ new.closed = a.closed
        /\ new.onPc = a.onPc /\ new.sig = a.sig /\ new.offered = a.offered /\ new.neg = a.neg
        /\ new.todo = a.todo \ {t} /\ new.waiting = a.waiting /\ new.needed = a.needed
    BY <2>1 DEF Transport
  <2> HIDE DEF new
  <2>4. tr' \in [T -> Transport] /\ tr'[n] = new /\ \A j \in T : j # n => tr'[j] = tr[j]
    BY <2>2, <2>3, TransportSet
  <2> QED
    BY <2>1, <2>3, <2>4
<1>4. CASE /\ x.todo = {} /\ x.at = "local" /\ UNCHANGED <<media, pubs>>
           /\ Set(n, [tr[n] EXCEPT !.at = "waiting", !.todo = tr[n].waiting, !.waiting = {}])
  <2> DEFINE new == [x EXCEPT !.at = "waiting", !.todo = x.waiting, !.waiting = {}]
  <2>1. tr' = [tr EXCEPT ![n] = new]
    BY <1>4 DEF Set
  <2> HIDE DEF x
  <2>2. /\ new \in Transport /\ new.at = "waiting" /\ new.live = x.live /\ new.closed = x.closed
        /\ new.onPc = x.onPc /\ new.sig = x.sig /\ new.offered = x.offered /\ new.neg = x.neg
        /\ new.todo = x.waiting /\ new.waiting = {} /\ new.needed = x.needed
    BY <1>0 DEF Transport, Stage
  <2> HIDE DEF new
  <2>3. tr' \in [T -> Transport] /\ tr'[n] = new /\ \A j \in T : j # n => tr'[j] = tr[j]
    BY <2>1, <2>2, TransportSet
  <2> QED
    BY <1>1, <1>4, <2>2, <2>3 DEF x
<1>5. CASE /\ x.todo = {} /\ x.at = "waiting" /\ media' = (IF auto THEN n ELSE media)
           /\ Set(n, [tr[n] EXCEPT !.at = "ready"]) /\ UNCHANGED pubs
  <2> DEFINE new == [x EXCEPT !.at = "ready"]
  <2>1. tr' = [tr EXCEPT ![n] = new]
    BY <1>5 DEF Set
  <2> HIDE DEF x
  <2>2. /\ new \in Transport /\ new.at = "ready" /\ new.live = x.live /\ new.closed = x.closed
        /\ new.onPc = x.onPc /\ new.sig = x.sig /\ new.offered = x.offered /\ new.neg = x.neg
        /\ new.todo = x.todo /\ new.waiting = x.waiting /\ new.needed = x.needed
    BY <1>0 DEF Transport, Stage
  <2> HIDE DEF new
  <2>3. tr' \in [T -> Transport] /\ tr'[n] = new /\ \A j \in T : j # n => tr'[j] = tr[j]
    BY <2>1, <2>2, TransportSet
  <2> QED
    BY <1>1, <1>5, <2>2, <2>3 DEF x
<1>6. \/ \E t \in x.todo : /\ x.closed \/ t \in x.onPc
                           /\ Set(n, [tr[n] EXCEPT !.at = "failed"]) /\ UNCHANGED <<media, pubs>>
      \/ \E t \in x.todo : /\ ~x.closed /\ t \notin x.onPc
                           /\ Set(n, [AddTrack(n, t) EXCEPT !.todo = @ \ {t}])
                           /\ pubs' = pubs \cup {[k |-> n, t |-> t, at |-> "announce", init |-> TRUE]}
                           /\ UNCHANGED media
      \/ /\ x.todo = {} /\ x.at = "local" /\ UNCHANGED <<media, pubs>>
         /\ Set(n, [tr[n] EXCEPT !.at = "waiting", !.todo = tr[n].waiting, !.waiting = {}])
      \/ /\ x.todo = {} /\ x.at = "waiting" /\ media' = (IF auto THEN n ELSE media)
         /\ Set(n, [tr[n] EXCEPT !.at = "ready"]) /\ UNCHANGED pubs
  BY DEF InitStep
<1>7. CASE \E t \in x.todo : /\ ~x.closed /\ t \notin x.onPc
                             /\ Set(n, [AddTrack(n, t) EXCEPT !.todo = @ \ {t}])
                             /\ pubs' = pubs \cup {[k |-> n, t |-> t, at |-> "announce", init |-> TRUE]}
                             /\ UNCHANGED media
  <2>1. PICK t \in x.todo : /\ ~x.closed /\ t \notin x.onPc
                            /\ Set(n, [AddTrack(n, t) EXCEPT !.todo = @ \ {t}])
                            /\ pubs' = pubs \cup {[k |-> n, t |-> t, at |-> "announce", init |-> TRUE]}
                            /\ UNCHANGED media
    BY <1>7
  <2> HIDE DEF x
  <2> QED
    BY <1>1, <1>3, <2>1 DEF x
<1> HIDE DEF x
<1> QED
  BY <1>2, <1>4, <1>5, <1>6, <1>7

LEMMA InitStepOwned == ASSUME OwnerInv, NEW n \in T, InitStep(n) PROVE OwnerInv'
<1>0. SessionTypes /\ MaxT \in Nat /\ T = 1 .. MaxT
  BY SessionAssumption DEF OwnerInv, T
<1>1. /\ tr[n].at \in {"local", "waiting"} /\ tr' \in [T -> Transport]
      /\ UNCHANGED <<auto, made, left, local, ss, current, byRoom, offers, answers, router, history>>
      /\ \A k \in T : k # n => tr'[k] = tr[k]
      /\ tr'[n].live = tr[n].live /\ tr'[n].closed = tr[n].closed
      /\ tr'[n].at \notin {"none", "joining"}
      /\ media' \in {media, n} /\ (~auto => media' = media)
      /\ tr'[n].at \in {"local", "waiting", "failed"} => media' = media
      /\ tr'[n].at = "ready" /\ auto => media' = n
  BY <1>0, InitStepSets
<1>2. n <= made /\ made \in Nat /\ \A k \in T : k \in Nat
  BY <1>0, <1>1 DEF OwnerInv, Stages, SessionTypes
<1>3. pubs' \subseteq Publishing /\ \A u \in pubs' : u \in pubs \/ u.k = n
  <2>1. \A t \in tr[n].todo : [k |-> n, t |-> t, at |-> "announce", init |-> TRUE] \in Publishing
    BY <1>0, TransportFields DEF Publishing
  <2>2. \/ pubs' = pubs
        \/ \E t \in tr[n].todo : pubs' = pubs \cup {[k |-> n, t |-> t, at |-> "announce", init |-> TRUE]}
    BY <1>0, InitStepSets
  <2> QED
    BY <1>0, <2>1, <2>2 DEF SessionTypes
<1>4. SessionTypes'
  <2>1. media' \in 0 .. made'
    BY <1>0, <1>1, <1>2 DEF SessionTypes
  <2> QED
    BY <1>0, <1>1, <1>3, <2>1 DEF SessionTypes
<1>5. ASSUME NEW k \in T, tr'[k].at \in {"none", "joining"} PROVE Fresh(k)'
  <2>1. k # n
    BY <1>1, <1>5
  <2>2. Fresh(k) /\ current # k /\ router.session # k
    BY <1>1, <1>5, <2>1, NotFresh
  <2> QED
    BY <1>1, <1>3, <2>1, <2>2, FreshStays
<1>6. Stages'
  <2>1. \A k \in T : ss'[k].open => tr'[k].live
    BY <1>1 DEF OwnerInv, Stages
  <2>2. \A k \in T : k > made' <=> tr'[k].at = "none"
    BY <1>1, <1>2 DEF OwnerInv, Stages
  <2>3. \A k \in T : tr'[k].at \in {"local", "waiting", "ready"} /\ ~tr'[k].live => tr'[k].closed
    BY <1>1 DEF OwnerInv, Stages
  <2>4. ~auto' => media' = 1 /\ made' = 1
    BY <1>1 DEF OwnerInv, Stages
  <2> QED
    BY <1>5, <2>1, <2>2, <2>3, <2>4 DEF Stages
<1>7. ASSUME NEW k \in T \ history'.orphaned PROVE Only(k)'
  <2>1. Only(k)
    BY <1>1 DEF OwnerInv
  <2>2. CASE k # n
    <3>1. k > made /\ tr'[k] = tr[k]
      BY <1>0, <1>1, <1>2, <2>1, <2>2 DEF Only
    <3>2. k # media /\ k # media'
      BY <1>0, <1>1, <1>2, <2>2, <3>1 DEF SessionTypes
    <3>3. tr[k].at = "none" /\ (k <= made => k = 1 /\ made = 1)
      BY <2>1, <3>1 DEF OwnerInv, Stages, Only
    <3> QED
      BY <1>1, <2>1, <3>1, <3>2, <3>3 DEF Only
  <2>3. CASE k = n
    <3> DEFINE x == tr[n]
               y == tr'[n]
    <3>1. n = 1 /\ made = 1
      BY <1>2, <2>1, <2>3 DEF Only
    <3>2. /\ x.todo \subseteq local /\ x.waiting \subseteq local
          /\ x.at = "local" => x.todo \cap x.onPc = {} /\ x.waiting \subseteq x.todo \cup x.onPc
          /\ x.at = "waiting" => x.todo \subseteq x.onPc /\ x.waiting = {}
          /\ n # media => x.waiting = {} /\ ~x.closed /\ (x.at = "waiting" => x.todo = {})
          /\ x.closed => left
          /\ left => ~ss[n].open
      BY <2>1, <2>3 DEF Only
    <3>3. CASE /\ y.at = "failed" /\ UNCHANGED <<media, pubs>>
               /\ x.closed \/ x.todo \cap x.onPc # {}
               /\ y.onPc = x.onPc /\ y.todo = x.todo /\ y.waiting = x.waiting
      <4>1. n = media'
        BY <1>1, <3>2, <3>3
      <4> HIDE DEF y
      <4>2. y.closed = x.closed /\ y = tr'[n]
        BY <1>1 DEF y
      <4> QED
        BY <1>1, <2>3, <3>1, <3>2, <3>3, <4>1, <4>2 DEF Only
    <3>4. ASSUME NEW t \in x.todo, t \notin x.onPc, y.at = x.at, y.onPc = x.onPc \cup {t},
                 y.todo = x.todo \ {t}, y.waiting = x.waiting, UNCHANGED media
          PROVE  Only(n)'
      <4>1. x.at = "local"
        BY <1>1, <3>2, <3>4
      <4> QED
        BY <1>1, <3>1, <3>2, <3>4, <4>1 DEF Only
    <3>5. CASE /\ x.todo = {} /\ x.at = "local" /\ y.at = "waiting" /\ y.todo = x.waiting
               /\ y.waiting = {} /\ y.onPc = x.onPc /\ UNCHANGED media
      BY <1>1, <2>3, <3>1, <3>2, <3>5 DEF Only
    <3>6. CASE /\ x.todo = {} /\ x.at = "waiting" /\ y.at = "ready" /\ y.todo = {}
               /\ y.waiting = x.waiting /\ y.onPc = x.onPc /\ media' = IF auto THEN n ELSE media
      <4>1. media' = n
        BY <3>1, <3>6 DEF OwnerInv, Stages
      <4> QED
        BY <1>1, <2>3, <3>1, <3>2, <3>6, <4>1 DEF Only
    <3>7. CASE \E t \in x.todo : /\ t \notin x.onPc /\ y.at = x.at /\ y.onPc = x.onPc \cup {t}
                                 /\ y.todo = x.todo \ {t} /\ y.waiting = x.waiting /\ UNCHANGED media
      BY <2>3, <3>4, <3>7
    <3> QED
      BY <1>0, <2>3, <3>3, <3>5, <3>6, <3>7, InitStepSets
  <2> QED
    BY <2>2, <2>3
<1>8. Listed'
  BY <1>1 DEF OwnerInv, Listed
<1> QED
  BY <1>4, <1>6, <1>7, <1>8 DEF OwnerInv

\* What the Room's publish() does, on the mesh, before there is a session, and with one.
LEMMA PublishSets ==
  ASSUME OwnerInv, NEW t \in Track, Publish(t)
  PROVE  /\ ~left /\ t \notin local /\ (\A u \in pubs : u.t # t) /\ tr' \in [T -> Transport]
         /\ UNCHANGED <<auto, media, made, left, ss, current, byRoom, offers, answers, router, history>>
         /\ \A k \in T : k # media => tr'[k] = tr[k]
         /\ \/ media = 0 /\ made = 0 /\ local' = local \cup {t} /\ UNCHANGED <<tr, pubs>>
            \/ /\ media \in T /\ ~tr[media].closed /\ ~tr[media].live
               /\ local' = local \cup {t} /\ UNCHANGED pubs
               /\ tr'[media].waiting = tr[media].waiting \cup {t}
               /\ tr'[media].at = tr[media].at /\ tr'[media].live = tr[media].live
               /\ tr'[media].closed = tr[media].closed /\ tr'[media].onPc = tr[media].onPc
               /\ tr'[media].sig = tr[media].sig /\ tr'[media].offered = tr[media].offered
               /\ tr'[media].needed = tr[media].needed /\ tr'[media].neg = tr[media].neg
               /\ tr'[media].todo = tr[media].todo
            \/ /\ media \in T /\ ~tr[media].closed /\ tr[media].live /\ t \notin tr[media].onPc
               /\ pubs' = pubs \cup {[k |-> media, t |-> t, at |-> "announce", init |-> FALSE]}
               /\ UNCHANGED local /\ tr'[media] = AddTrack(media, t)
<1>0. SessionTypes /\ MaxT \in Nat /\ T = 1 .. MaxT /\ media \in 0 .. MaxT
  BY SessionAssumption DEF OwnerInv, T, SessionTypes
<1>1. /\ ~left /\ t \notin local /\ (\A u \in pubs : u.t # t)
      /\ UNCHANGED <<auto, media, made, left, ss, current, byRoom, offers, answers, router, history>>
  BY DEF Publish, server
<1>2. CASE media = 0
  <2>1. made = 0 /\ local' = local \cup {t} /\ UNCHANGED <<tr, pubs>>
    BY <1>2 DEF Publish
  <2> QED
    BY <1>0, <1>1, <1>2, <2>1 DEF SessionTypes
<1>3. CASE media # 0 /\ ~tr[media].live
  <2> DEFINE n == media
             x == tr[n]
             new == [x EXCEPT !.waiting = @ \cup {t}]
  <2>1. n \in T /\ ~x.closed /\ local' = local \cup {t} /\ UNCHANGED pubs /\ tr' = [tr EXCEPT ![n] = new]
    BY <1>0, <1>3 DEF Publish, Set
  <2>2. x \in Transport
    BY <1>0, <2>1, TransportFields
  <2> HIDE DEF x, n
  <2>3. /\ new \in Transport /\ new.at = x.at /\ new.live = x.live /\ new.closed = x.closed
        /\ new.onPc = x.onPc /\ new.sig = x.sig /\ new.offered = x.offered /\ new.neg = x.neg
        /\ new.todo = x.todo /\ new.waiting = x.waiting \cup {t} /\ new.needed = x.needed
    BY <2>2 DEF Transport
  <2> HIDE DEF new
  <2>4. tr' \in [T -> Transport] /\ tr'[n] = new /\ \A j \in T : j # n => tr'[j] = tr[j]
    BY <1>0, <2>1, <2>3, TransportSet
  <2> QED
    BY <1>1, <1>3, <2>1, <2>3, <2>4 DEF n, x
<1>4. CASE media # 0 /\ tr[media].live
  <2>1. /\ media \in T /\ ~tr[media].closed /\ t \notin tr[media].onPc /\ UNCHANGED local
        /\ pubs' = pubs \cup {[k |-> media, t |-> t, at |-> "announce", init |-> FALSE]}
        /\ tr' = [tr EXCEPT ![media] = AddTrack(media, t)]
    BY <1>0, <1>4 DEF Publish, Set
  <2>2. AddTrack(media, t) \in Transport
    BY <1>0, <2>1, AddTrackSets
  <2>3. /\ tr' \in [T -> Transport] /\ tr'[media] = AddTrack(media, t)
        /\ \A j \in T : j # media => tr'[j] = tr[j]
    BY <1>0, <2>1, <2>2, TransportSet
  <2> QED
    BY <1>1, <1>4, <2>1, <2>3
<1> QED
  BY <1>2, <1>3, <1>4

LEMMA PublishOwned == ASSUME OwnerInv, NEW t \in Track, Publish(t) PROVE OwnerInv'
<1> DEFINE n == media
<1>0. SessionTypes /\ MaxT \in Nat /\ T = 1 .. MaxT
  BY SessionAssumption DEF OwnerInv, T
<1>1. /\ tr' \in [T -> Transport] /\ local' \in {local, local \cup {t}} /\ ~left
      /\ UNCHANGED <<auto, media, made, left, ss, current, byRoom, offers, answers, router, history>>
      /\ \A k \in T : k # media => tr'[k] = tr[k]
      /\ t \notin local
  BY PublishSets
<1>2. Listed'
  BY <1>1 DEF OwnerInv, Listed
<1>3. CASE media = 0 /\ made = 0 /\ local' = local \cup {t} /\ UNCHANGED <<tr, pubs>>
  <2>1. SessionTypes'
    BY <1>0, <1>1, <1>3 DEF SessionTypes
  <2>2. ASSUME NEW k \in T, tr[k].at \in {"none", "joining"} PROVE Fresh(k)'
    BY <1>1, <1>3, <2>2, NotFresh, FreshStays
  <2>3. Stages' /\ \A k \in T \ history'.orphaned : Only(k)'
    BY <1>1, <1>3, <2>2, QuietOwned
  <2> QED
    BY <1>2, <2>1, <2>3 DEF OwnerInv
<1>4. CASE /\ n \in T /\ ~tr[n].closed /\ ~tr[n].live
           /\ local' = local \cup {t} /\ UNCHANGED pubs
           /\ tr'[n].waiting = tr[n].waiting \cup {t}
           /\ tr'[n].at = tr[n].at /\ tr'[n].live = tr[n].live
           /\ tr'[n].closed = tr[n].closed /\ tr'[n].onPc = tr[n].onPc
           /\ tr'[n].sig = tr[n].sig /\ tr'[n].offered = tr[n].offered
           /\ tr'[n].needed = tr[n].needed /\ tr'[n].neg = tr[n].neg
           /\ tr'[n].todo = tr[n].todo
  <2>1. SessionTypes'
    BY <1>0, <1>1, <1>4 DEF SessionTypes
  <2>2. ASSUME NEW k \in T, tr'[k].at \in {"none", "joining"} PROVE Fresh(k)'
    <3>1. Fresh(k)
      BY <1>1, <1>4, <2>2 DEF OwnerInv, Stages
    <3> QED
      BY <1>1, <1>4, <3>1 DEF Fresh
  <2>3. Stages'
    BY <1>1, <1>4, <2>2 DEF OwnerInv, Stages
  <2>4. tr[n].at \notin {"local", "waiting", "ready"}
    BY <1>4 DEF OwnerInv, Stages
  <2>5. ASSUME NEW k \in T \ history'.orphaned PROVE Only(k)'
    <3>1. Only(k)
      BY <1>1 DEF OwnerInv
    <3> QED
      BY <1>1, <1>4, <2>4, <3>1 DEF Only
  <2> QED
    BY <1>2, <2>1, <2>3, <2>5 DEF OwnerInv
<1>5. CASE /\ n \in T /\ ~tr[n].closed /\ tr[n].live /\ t \notin tr[n].onPc
           /\ pubs' = pubs \cup {[k |-> n, t |-> t, at |-> "announce", init |-> FALSE]}
           /\ UNCHANGED local /\ tr'[n] = AddTrack(n, t)
  <2>1. /\ tr'[n].at = tr[n].at /\ tr'[n].live = tr[n].live /\ tr'[n].closed = tr[n].closed
        /\ tr'[n].todo = tr[n].todo /\ tr'[n].waiting = tr[n].waiting
        /\ tr'[n].onPc = tr[n].onPc \cup {t}
    <3>1. n \in T /\ tr'[n] = AddTrack(n, t)
      BY <1>5
    <3> HIDE DEF n
    <3> QED
      BY <1>0, <3>1, AddTrackSets
  <2>2. tr[n].at \notin {"none", "joining"}
    BY <1>5, NotFresh
  <2>3. SessionTypes'
    <3>1. [k |-> n, t |-> t, at |-> "announce", init |-> FALSE] \in Publishing
      BY <1>5 DEF Publishing
    <3>2. pubs' \subseteq Publishing
      BY <1>0, <1>5, <3>1 DEF SessionTypes
    <3> QED
      BY <1>0, <1>1, <1>5, <3>2 DEF SessionTypes
  <2>4. ASSUME NEW k \in T, tr'[k].at \in {"none", "joining"} PROVE Fresh(k)'
    <3>1. k # n
      BY <2>1, <2>2, <2>4
    <3>2. Fresh(k) /\ current # k /\ router.session # k
      BY <1>1, <2>4, <3>1, NotFresh
    <3> QED
      BY <1>1, <1>5, <3>1, <3>2, FreshStays
  <2>5. Stages'
    BY <1>1, <2>1, <2>4 DEF OwnerInv, Stages
  <2>6. ASSUME NEW k \in T \ history'.orphaned PROVE Only(k)'
    <3>1. Only(k)
      BY <1>1 DEF OwnerInv
    <3>2. k # n => tr'[k] = tr[k]
      BY <1>1
    <3> QED
      BY <1>1, <1>5, <2>1, <3>1, <3>2 DEF Only
  <2> QED
    BY <1>2, <2>3, <2>5, <2>6 DEF OwnerInv
<1> QED
  BY <1>3, <1>4, <1>5, PublishSets

LEMMA OwnerStep == OwnerInv /\ [SessionNext]_sessionVars => OwnerInv'
<1> SUFFICES ASSUME OwnerInv, [SessionNext]_sessionVars PROVE OwnerInv'
  OBVIOUS
<1>1. CASE UNCHANGED sessionVars
  BY <1>1 DEF sessionVars, client, server, OwnerInv, SessionTypes, Stages, Only, Listed, Fresh
<1>2. CASE Migrate \/ Leave \/ RouteLeave
  BY <1>2, MigrateOwned, LeaveOwned, RouteLeaveOwned
<1>3. CASE \E k \in T : Joined(k) \/ InitStep(k) \/ Needed(k) \/ Offer(k) \/ Answer(k)
  BY <1>3, JoinedOwned, InitStepOwned, NeededOwned, OfferOwned, AnswerOwned
<1>4. CASE \E t \in Track : Publish(t) \/ RoutePublish(t)
  BY <1>4, PublishOwned, RoutePublishOwned
<1>5. CASE \E u \in pubs : Announced(u) \/ Published(u)
  BY <1>5, AnnouncedOwned, PublishedOwned
<1>6. CASE \E o \in offers : OfferStarts(o) \/ Produced(o) \/ Answered(o)
  BY <1>6, OfferStartsOwned, ProducedOwned, AnsweredOwned
<1> QED
  BY <1>1, <1>2, <1>3, <1>4, <1>5, <1>6 DEF SessionNext

-----------------------------------------------------------------------------
(* The session with an SFU: what it produces.                              *)

\* A session the property makes no exception for is the participant's only one, and all that
\* is under way is of it.
LEMMA Serving ==
  ASSUME ForwardInv, NEW k \in Heeded, ss[k].open
  PROVE  /\ SessionTypes /\ k \in T /\ k = 1 /\ made = 1 /\ ~left /\ tr[k].live
         /\ tr[k].at \notin {"none", "joining"} /\ Only(k) /\ Orderly(k) /\ Feeding(k)
         /\ \A u \in pubs : u \in Publishing /\ u.k = k /\ u.t \in Track
         /\ \A o \in offers : o \in Handling /\ o.k = k
         /\ router.session \in {0, k}
         /\ \A j \in T : j # k => /\ ~tr[j].live /\ tr[j].neg = "idle" /\ ~answers[j] /\ ~ss[j].open
                                  /\ tr[j].at = "none"
<1>0. SessionTypes /\ MaxT \in Nat /\ T = 1 .. MaxT /\ OwnerInv
  BY SessionAssumption DEF ForwardInv, OwnerInv, T
<1>1. k \in T /\ Only(k) /\ Orderly(k) /\ Feeding(k)
  <2>1. k \in T \ history.orphaned
    BY DEF Heeded
  <2>2. Only(k)
    BY <1>0, <2>1 DEF OwnerInv
  <2>3. \A j \in Heeded : ss[j].open => Orderly(j) /\ Feeding(j)
    BY DEF ForwardInv
  <2>4. Orderly(k) /\ Feeding(k)
    BY <2>3
  <2> QED
    BY <2>1, <2>2, <2>4
<1>2. tr[k].live /\ tr[k].at \notin {"none", "joining"}
  <2>1. tr[k].live
    BY <1>0, <1>1 DEF OwnerInv, Stages
  <2> QED
    BY <1>0, <1>1, <2>1, NotFresh
<1>3. k <= made
  BY <1>0, <1>1, <1>2 DEF OwnerInv, Stages, SessionTypes
<1>4. k = 1 /\ made = 1 /\ ~left
  BY <1>1, <1>3 DEF Only
<1>5. ASSUME NEW j \in T, j # k
      PROVE  /\ ~tr[j].live /\ tr[j].neg = "idle" /\ ~answers[j] /\ ~ss[j].open
             /\ tr[j].at = "none" /\ router.session # j
             /\ \A u \in pubs : u.k # j
             /\ \A o \in offers : o.k # j
  <2>1. j > made
    BY <1>0, <1>4, <1>5
  <2>2. tr[j].at = "none"
    BY <1>0, <2>1 DEF OwnerInv, Stages
  <2> QED
    BY <1>0, <2>2, NotFresh
<1>6. \A u \in pubs : u \in Publishing /\ u.k \in T /\ u.t \in Track
  BY <1>0 DEF SessionTypes, Publishing
<1>7. \A o \in offers : o \in Handling /\ o.k \in T
  BY <1>0 DEF SessionTypes, Handling
<1>8. router.session \in T \cup {0}
  BY <1>0 DEF SessionTypes
<1> QED
  BY <1>0, <1>1, <1>2, <1>4, <1>5, <1>6, <1>7, <1>8

LEMMA HeededBefore ==
  ASSUME history.orphaned \subseteq history'.orphaned, history.unheard \subseteq history'.unheard,
         history.twice \subseteq history'.twice, NEW k \in Heeded'
  PROVE  k \in Heeded
BY DEF Heeded

\* What is promised to the tracks goes on being promised.
LEMMA FeedingStays ==
  ASSUME SessionTypes, NEW k \in T, Feeding(k), UNCHANGED <<pubs, local>>,
         tr'[k].at = tr[k].at, tr'[k].todo = tr[k].todo, tr'[k].onPc = tr[k].onPc,
         \A t \in Track : Fed(k, t) => Fed(k, t)'
  PROVE  Feeding(k)'
<1>1. \A u \in pubs : u.t \in Track
  BY DEF SessionTypes, Publishing
<1>2. \A t \in local : t \in Track
  BY DEF SessionTypes
<1> QED
  BY <1>1, <1>2 DEF Feeding

LEMMA MigrateForward ==
  ASSUME ForwardInv, Migrate, NEW k \in Heeded', ss'[k].open
  PROVE  Orderly(k)' /\ Feeding(k)'
<1>0. SessionTypes
  BY DEF ForwardInv, OwnerInv
<1>1. /\ ss' = ss
      /\ history' = [history EXCEPT !.orphaned = IF made > 0 THEN @ \cup 1 .. made + 1 ELSE @]
  BY DEF Migrate, server
<1>2. /\ history'.orphaned = (IF made > 0 THEN history.orphaned \cup 1 .. made + 1 ELSE history.orphaned)
      /\ history'.unheard = history.unheard /\ history'.twice = history.twice
  BY <1>0, <1>1 DEF SessionTypes
<1>3. k \in Heeded
  BY <1>2 DEF Heeded
<1>4. k = 1 /\ made = 1
  BY <1>1, <1>3, Serving
<1>5. 1 \in 1 .. made + 1
  BY <1>4
<1> QED
  BY <1>2, <1>4, <1>5 DEF Heeded

LEMMA LeaveForward ==
  ASSUME OwnerInv', Leave, NEW k \in Heeded', ss'[k].open
  PROVE  Orderly(k)' /\ Feeding(k)'
<1>1. left' /\ Only(k)'
  BY DEF Leave, OwnerInv, Heeded
<1> QED
  BY <1>1 DEF Only

LEMMA RouteLeaveForward ==
  ASSUME ForwardInv, RouteLeave, NEW k \in Heeded', ss'[k].open
  PROVE  Orderly(k)' /\ Feeding(k)'
<1>0. SessionTypes /\ MaxT \in Nat /\ T = 1 .. MaxT /\ OwnerInv
  BY SessionAssumption DEF ForwardInv, OwnerInv, T
<1>1. /\ router.session # 0 /\ EndSession(router.session)
      /\ UNCHANGED <<tr, pubs, local, offers, answers, history>>
  BY DEF RouteLeave, Registered, client
<1>2. router.session \in T /\ k \in Heeded /\ k \in T
  BY <1>0, <1>1 DEF SessionTypes, Heeded
<1>3. ss[k].open /\ ss'[k] = ss[k]
  BY <1>0, <1>1, <1>2, SessionEnds
<1>4. Orderly(k) /\ Feeding(k)
  BY <1>2, <1>3, Serving
<1> QED
  BY <1>1, <1>3, <1>4 DEF Orderly, Feeding, Fed, Chance

LEMMA JoinedForward ==
  ASSUME ForwardInv, OwnerInv', NEW n \in T, Joined(n), NEW k \in Heeded', ss'[k].open
  PROVE  Orderly(k)' /\ Feeding(k)'
<1>0. SessionTypes /\ OwnerInv
  BY DEF ForwardInv, OwnerInv
<1>1. /\ tr[n].at = "joining" /\ tr' = [tr EXCEPT ![n] = Start(n)]
      /\ ss' = [ss EXCEPT ![n].open = TRUE]
      /\ UNCHANGED <<media, local, pubs, offers, answers, history>>
  BY DEF Joined, Set
<1>2. k \in T /\ k \in Heeded
  BY <1>1 DEF Heeded
<1>3. CASE k # n
  <2>1. ss[k].open
    BY <1>1, <1>2, <1>3
  <2> QED
    BY <1>1, <1>2, <1>3, <2>1, Serving
<1>4. CASE k = n
  <2>1. Fresh(n) /\ tr[n] \in Transport /\ tr \in [T -> Transport] /\ ss \in [T -> Session]
    BY <1>0, <1>1 DEF OwnerInv, Stages, SessionTypes
  <2>2. /\ tr'[n].needed = "no" /\ tr'[n].onPc = {} /\ tr'[n].at = "local" /\ tr'[n].todo = local
    BY <1>1, <2>1 DEF Fresh, Start, Transport
  <2>3. ss'[n].pending = {} /\ ss'[n].producers = [t \in Track |-> 0]
    BY <1>1, <2>1 DEF Fresh, NewSession
  <2>4. \A u \in pubs : u.k # n
    BY <2>1 DEF Fresh
  <2>5. \A o \in offers : o.k # n
    BY <2>1 DEF Fresh
  <2>6. Orderly(n)'
    BY <1>1, <2>2, <2>3, <2>5 DEF Orderly
  <2>7. Feeding(n)'
    BY <1>1, <2>2, <2>4 DEF Feeding
  <2> QED
    BY <1>4, <2>6, <2>7
<1> QED
  BY <1>3, <1>4

\* A track is put on the connection, its announcement is under way.
LEMMA AddedForward ==
  ASSUME SessionTypes, NEW k \in T, NEW t \in Track, NEW i \in BOOLEAN, Orderly(k), Feeding(k),
         t \notin tr[k].onPc, UNCHANGED <<local, ss, offers, answers>>,
         tr'[k].sig = tr[k].sig, tr'[k].offered = tr[k].offered, tr'[k].neg = tr[k].neg,
         tr'[k].at = tr[k].at, tr[k].todo \subseteq tr'[k].todo \cup {t},
         tr'[k].onPc = tr[k].onPc \cup {t},
         tr'[k].needed = (IF tr[k].sig = "stable" /\ tr[k].needed = "no" THEN "queued" ELSE tr[k].needed),
         pubs' = pubs \cup {[k |-> k, t |-> t, at |-> "announce", init |-> i]}
  PROVE  Orderly(k)' /\ Feeding(k)'
<1> DEFINE v == [k |-> k, t |-> t, at |-> "announce", init |-> i]
<1>1. tr[k].needed \in {"no", "queued", "fired"}
  BY TransportFields
<1>2. Orderly(k)'
  BY <1>1 DEF Orderly
<1>3. \A s \in Track : Chance(k, s) => Chance(k, s)'
  BY DEF Chance
<1>4. \A s \in Track : Fed(k, s) => Fed(k, s)'
  BY <1>3 DEF Fed
<1>5. v \in pubs' /\ v.k = k /\ v.t = t /\ v.at = "announce"
  OBVIOUS
<1>6. \A u \in pubs : u.t \in Track
  BY DEF SessionTypes, Publishing
<1>7. ASSUME NEW u \in pubs', u.k = k PROVE u.t \in tr'[k].onPc /\ (u.at = "negotiate" => Fed(k, u.t)')
  <2>1. CASE u \in pubs
    <3>1. u.t \in tr[k].onPc /\ u.t \in Track /\ (u.at = "negotiate" => Fed(k, u.t))
      BY <1>6, <1>7, <2>1 DEF Feeding
    <3> QED
      BY <1>4, <3>1
  <2>2. CASE u = v
    BY <1>5, <2>2
  <2> QED
    BY <2>1, <2>2
<1>8. ASSUME NEW s \in local
      PROVE  \/ Fed(k, s)'
             \/ tr'[k].at = "local" /\ s \in tr'[k].todo
             \/ \E u \in pubs' : u.k = k /\ u.t = s /\ u.at = "announce"
  <2>1. s \in Track
    BY DEF SessionTypes
  <2> HIDE DEF v
  <2> QED
    BY <1>4, <1>5, <2>1 DEF Feeding
<1>9. Feeding(k)'
  BY <1>7, <1>8 DEF Feeding
<1> QED
  BY <1>2, <1>9

LEMMA InitStepForward ==
  ASSUME ForwardInv, NEW n \in T, InitStep(n), NEW k \in Heeded', ss'[k].open
  PROVE  Orderly(k)' /\ Feeding(k)'
<1>0. SessionTypes
  BY DEF ForwardInv, OwnerInv
<1>1. /\ tr[n].at \in {"local", "waiting"}
      /\ UNCHANGED <<local, ss, offers, answers, history>>
      /\ tr'[n].sig = tr[n].sig /\ tr'[n].offered = tr[n].offered /\ tr'[n].neg = tr[n].neg
  BY <1>0, InitStepSets
<1>2. k \in Heeded /\ ss[k].open
  BY <1>1 DEF Heeded
<1>3. /\ Orderly(k) /\ Feeding(k) /\ Only(k) /\ ~left /\ k \in T
      /\ \A j \in T : j # k => tr[j].at = "none"
  BY <1>2, Serving
<1>4. k = n
  BY <1>1, <1>3
<1>5. ASSUME NEW t \in tr[n].todo, t \notin tr[n].onPc, tr'[n].at = tr[n].at,
             tr'[n].onPc = tr[n].onPc \cup {t}, tr'[n].todo = tr[n].todo \ {t},
             tr'[n].needed = (IF tr[n].sig = "stable" /\ tr[n].needed = "no"
                              THEN "queued" ELSE tr[n].needed),
             pubs' = pubs \cup {[k |-> n, t |-> t, at |-> "announce", init |-> TRUE]}
      PROVE  Orderly(k)' /\ Feeding(k)'
  <2>1. t \in Track
    BY <1>0, TransportFields
  <2> QED
    BY <1>0, <1>1, <1>3, <1>4, <1>5, <2>1, AddedForward
<1>6. CASE /\ tr'[n].onPc = tr[n].onPc /\ tr'[n].needed = tr[n].needed /\ UNCHANGED pubs
           /\ tr[n].at = "local" => tr[n].todo = {}
  BY <1>1, <1>3, <1>4, <1>6 DEF Orderly, Feeding, Fed, Chance
<1>7. CASE /\ tr'[n].at = "failed" /\ (tr[n].closed \/ tr[n].todo \cap tr[n].onPc # {})
           /\ tr'[n].onPc = tr[n].onPc /\ tr'[n].needed = tr[n].needed /\ UNCHANGED pubs
  <2>1. tr[n].at # "local"
    BY <1>3, <1>4, <1>7 DEF Only
  <2> QED
    BY <1>6, <1>7, <2>1
<1>8. CASE \E t \in tr[n].todo :
             /\ t \notin tr[n].onPc /\ tr'[n].at = tr[n].at
             /\ tr'[n].onPc = tr[n].onPc \cup {t} /\ tr'[n].todo = tr[n].todo \ {t}
             /\ tr'[n].needed = (IF tr[n].sig = "stable" /\ tr[n].needed = "no"
                                 THEN "queued" ELSE tr[n].needed)
             /\ pubs' = pubs \cup {[k |-> n, t |-> t, at |-> "announce", init |-> TRUE]}
  BY <1>5, <1>8
<1> QED
  BY <1>0, <1>6, <1>7, <1>8, InitStepSets

LEMMA PublishForward ==
  ASSUME ForwardInv, NEW t \in Track, Publish(t), NEW k \in Heeded', ss'[k].open
  PROVE  Orderly(k)' /\ Feeding(k)'
<1>0. SessionTypes /\ OwnerInv /\ MaxT \in Nat /\ T = 1 .. MaxT
  BY SessionAssumption DEF ForwardInv, OwnerInv, T
<1>1. UNCHANGED <<ss, offers, answers, history>>
  BY <1>0, PublishSets
<1>2. k \in Heeded /\ ss[k].open
  BY <1>1 DEF Heeded
<1>3. Orderly(k) /\ Feeding(k) /\ tr[k].live /\ k = 1 /\ made = 1 /\ k \in T
  BY <1>2, Serving
<1>4. CASE media \in T
  <2>1. media = k
    BY <1>0, <1>3, <1>4 DEF SessionTypes
  <2>2. /\ t \notin tr[k].onPc /\ UNCHANGED local /\ tr'[k] = AddTrack(k, t)
        /\ pubs' = pubs \cup {[k |-> k, t |-> t, at |-> "announce", init |-> FALSE]}
    BY <1>0, <1>3, <2>1, PublishSets
  <2>3. /\ tr'[k].sig = tr[k].sig /\ tr'[k].offered = tr[k].offered /\ tr'[k].neg = tr[k].neg
        /\ tr'[k].at = tr[k].at /\ tr'[k].todo = tr[k].todo /\ tr'[k].onPc = tr[k].onPc \cup {t}
        /\ tr'[k].needed = (IF tr[k].sig = "stable" /\ tr[k].needed = "no"
                            THEN "queued" ELSE tr[k].needed)
    BY <1>0, <1>3, <2>2, AddTrackSets
  <2> QED
    BY <1>0, <1>1, <1>3, <2>2, <2>3, AddedForward
<1> QED
  BY <1>0, <1>3, <1>4, PublishSets

\* The session learns of a track: an offer made from now on has it.
LEMMA AnnouncedForward ==
  ASSUME ForwardInv, NEW u \in pubs, Announced(u), NEW k \in Heeded', ss'[k].open
  PROVE  Orderly(k)' /\ Feeding(k)'
<1> DEFINE starts == Negotiates(u.k)
           newT == [tr[u.k] EXCEPT !.neg = "creating"]
           newS == [ss[u.k] EXCEPT !.pending = IF ss[u.k].producers[u.t] = 0 THEN @ \cup {u.t} ELSE @]
<1>0. SessionTypes
  BY DEF ForwardInv, OwnerInv
<1>1. u.k \in T /\ u.t \in Track
  BY <1>0 DEF SessionTypes, Publishing
<1>2. tr[u.k] \in Transport /\ ss[u.k] \in Session
  BY <1>0, <1>1, TransportFields
<1>3. /\ ss' = [ss EXCEPT ![u.k] = newS]
      /\ tr' = [tr EXCEPT ![u.k] = IF starts THEN newT ELSE tr[u.k]]
      /\ pubs' = (pubs \ {u}) \cup IF starts THEN {[u EXCEPT !.at = "negotiate"]} ELSE {}
      /\ local' = (IF starts \/ u.init THEN local ELSE local \cup {u.t})
      /\ history' = IF tr[u.k].neg = "handling" /\ u.t \in tr[u.k].offered
                    THEN [history EXCEPT !.unheard = @ \cup {u.k}] ELSE history
      /\ UNCHANGED <<offers, answers>> /\ u.at = "announce"
  BY DEF Announced, Set
<1>4. /\ newS \in Session /\ newS.open = ss[u.k].open /\ newS.producers = ss[u.k].producers
      /\ newS.pending = (IF ss[u.k].producers[u.t] = 0 THEN ss[u.k].pending \cup {u.t} ELSE ss[u.k].pending)
  BY <1>1, <1>2 DEF Session
<1>5. /\ newT \in Transport /\ newT.at = tr[u.k].at /\ newT.onPc = tr[u.k].onPc
      /\ newT.sig = tr[u.k].sig /\ newT.offered = tr[u.k].offered /\ newT.needed = tr[u.k].needed
      /\ newT.todo = tr[u.k].todo /\ newT.neg = "creating"
  BY <1>2 DEF Transport
<1> HIDE DEF newT, newS
<1>6. tr'[u.k] = (IF starts THEN newT ELSE tr[u.k])
  BY <1>0, <1>1, <1>3 DEF SessionTypes
<1>7. ss'[u.k] = newS /\ \A j \in T : j # u.k => ss'[j] = ss[j]
  BY <1>0, <1>1, <1>3, <1>4, SessionSet
<1>8. /\ history.orphaned \subseteq history'.orphaned /\ history.twice \subseteq history'.twice
      /\ history.unheard \subseteq history'.unheard
      /\ tr[u.k].neg = "handling" /\ u.t \in tr[u.k].offered => u.k \in history'.unheard
  BY <1>0, <1>3 DEF SessionTypes
<1>9. k \in Heeded /\ k \in T /\ k \notin history'.unheard
  BY <1>8, HeededBefore DEF Heeded
<1>10. ss[k].open
  BY <1>4, <1>7, <1>9
<1>11. u.k = k /\ Orderly(k) /\ Feeding(k) /\ tr[k].live
  BY <1>9, <1>10, Serving
<1>12. ss[k].producers[u.t] \in Nat /\ ss[k].producers[u.t] <= 1 /\ u.t \in tr[k].onPc
  BY <1>0, <1>1, <1>11, TransportFields DEF Orderly, Feeding
<1>13. /\ tr'[k].at = tr[k].at /\ tr'[k].onPc = tr[k].onPc /\ tr'[k].sig = tr[k].sig
       /\ tr'[k].offered = tr[k].offered /\ tr'[k].needed = tr[k].needed /\ tr'[k].todo = tr[k].todo
       /\ tr'[k].neg = (IF starts THEN "creating" ELSE tr[k].neg)
       /\ tr'[k].neg = (IF tr[k].neg = "idle" THEN "creating" ELSE tr[k].neg)
       /\ starts <=> tr[k].neg = "idle"
  BY <1>5, <1>6, <1>11 DEF Negotiates
<1>14. /\ ss'[k].producers = ss[k].producers
       /\ ss'[k].pending = (IF ss[k].producers[u.t] = 0 THEN ss[k].pending \cup {u.t} ELSE ss[k].pending)
  BY <1>4, <1>7, <1>11
<1> HIDE DEF starts
<1>15. Orderly(k)'
  BY <1>3, <1>11, <1>13, <1>14 DEF Orderly
<1>16. \A s \in Track : Fed(k, s) => Fed(k, s)'
  <2>1. \A s \in Track : Chance(k, s) => Chance(k, s)'
    BY <1>3, <1>13 DEF Chance
  <2> QED
    BY <1>14, <2>1 DEF Fed
<1>17. Fed(k, u.t)'
  <2>1. CASE ss[k].producers[u.t] = 1
    BY <1>14, <2>1 DEF Fed
  <2>2. CASE ss[k].producers[u.t] = 0
    <3>1. u.t \in ss'[k].pending
      BY <1>14, <2>2
    <3>2. Chance(k, u.t)'
      <4>1. CASE tr'[k].neg = "creating"
        BY <4>1 DEF Chance
      <4>2. CASE tr'[k].neg # "creating"
        <5>1. tr[k].neg = "handling" /\ tr'[k].neg = "handling"
          BY <1>0, <1>9, <1>13, <4>2, TransportFields
        <5>2. u.t \notin tr[k].offered
          BY <1>8, <1>9, <1>11, <5>1
        <5>3. tr[k].sig = "stable" => tr[k].needed = "queued"
          BY <1>11, <1>12, <5>1, <5>2 DEF Orderly
        <5>4. tr[k].sig \in {"stable", "have-local-offer"}
          BY <1>0, <1>9, TransportFields
        <5> QED
          BY <1>12, <1>13, <5>1, <5>2, <5>3, <5>4 DEF Chance
      <4> QED
        BY <4>1, <4>2
    <3> QED
      BY <3>1, <3>2 DEF Fed
  <2> QED
    BY <1>12, <2>1, <2>2
<1>18. Feeding(k)'
  <2>1. ASSUME NEW v \in pubs', v.k = k
        PROVE  v.t \in tr'[k].onPc /\ (v.at = "negotiate" => Fed(k, v.t)')
    <3>1. CASE v \in pubs
      <4>1. v.t \in Track
        BY <1>0, <3>1 DEF SessionTypes, Publishing
      <4> QED
        BY <1>11, <1>13, <1>16, <2>1, <3>1, <4>1 DEF Feeding
    <3>2. CASE v = [u EXCEPT !.at = "negotiate"]
      <4>1. v.t = u.t
        BY <1>0, <3>2 DEF SessionTypes, Publishing
      <4> QED
        BY <1>12, <1>13, <1>17, <4>1
    <3> QED
      BY <1>3, <2>1, <3>1, <3>2
  <2>2. ASSUME NEW s \in local'
        PROVE  \/ Fed(k, s)'
               \/ tr'[k].at = "local" /\ s \in tr'[k].todo
               \/ \E v \in pubs' : v.k = k /\ v.t = s /\ v.at = "announce"
    <3>1. CASE s = u.t
      BY <1>17, <3>1
    <3>2. CASE s # u.t
      <4>1. s \in local /\ s \in Track
        BY <1>0, <1>3, <2>2, <3>2 DEF SessionTypes
      <4>2. CASE \E v \in pubs : v.k = k /\ v.t = s /\ v.at = "announce"
        <5>1. PICK v \in pubs : v.k = k /\ v.t = s /\ v.at = "announce"
          BY <4>2
        <5>2. v \in pubs'
          BY <1>3, <3>2, <5>1
        <5> QED
          BY <5>1, <5>2
      <4> QED
        BY <1>11, <1>13, <1>16, <4>1, <4>2 DEF Feeding
    <3> QED
      BY <3>1, <3>2
  <2> QED
    BY <2>1, <2>2 DEF Feeding
<1> QED
  BY <1>15, <1>18

LEMMA PublishedForward ==
  ASSUME ForwardInv, NEW u \in pubs, Published(u), NEW k \in Heeded', ss'[k].open
  PROVE  Orderly(k)' /\ Feeding(k)'
<1>1. /\ u.at = "negotiate" /\ pubs' = pubs \ {u} /\ local' \subseteq local \cup {u.t}
      /\ UNCHANGED <<tr, ss, offers, answers, history>>
  BY DEF Published, server
<1>2. k \in Heeded /\ ss[k].open
  BY <1>1 DEF Heeded
<1>3. Orderly(k) /\ Feeding(k) /\ u.k = k
  BY <1>2, Serving
<1>4. Fed(k, u.t)
  BY <1>1, <1>3 DEF Feeding
<1>5. \A t : Fed(k, t)' <=> Fed(k, t)
  BY <1>1 DEF Fed, Chance
<1>6. Orderly(k)'
  BY <1>1, <1>3 DEF Orderly
<1>7. ASSUME NEW t \in local'
      PROVE  \/ Fed(k, t)'
             \/ tr'[k].at = "local" /\ t \in tr'[k].todo
             \/ \E v \in pubs' : v.k = k /\ v.t = t /\ v.at = "announce"
  <2>1. CASE \E v \in pubs : v.k = k /\ v.t = t /\ v.at = "announce"
    <3>1. PICK v \in pubs : v.k = k /\ v.t = t /\ v.at = "announce"
      BY <2>1
    <3>2. v \in pubs'
      BY <1>1, <3>1
    <3> QED
      BY <3>1, <3>2
  <2> QED
    BY <1>1, <1>3, <1>4, <1>5, <2>1 DEF Feeding
<1>8. \A v \in pubs' : v.k = k => v.t \in tr'[k].onPc /\ (v.at = "negotiate" => Fed(k, v.t)')
  BY <1>1, <1>3, <1>5 DEF Feeding
<1>9. Feeding(k)'
  BY <1>7, <1>8 DEF Feeding
<1> QED
  BY <1>6, <1>9

LEMMA NeededForward ==
  ASSUME ForwardInv, NEW n \in T, Needed(n), NEW k \in Heeded', ss'[k].open
  PROVE  Orderly(k)' /\ Feeding(k)'
<1> DEFINE new == [tr[n] EXCEPT !.needed = "fired", !.neg = IF Negotiates(n) THEN "creating" ELSE @]
<1>0. SessionTypes
  BY DEF ForwardInv, OwnerInv
<1>1. /\ tr[n].live /\ tr' = [tr EXCEPT ![n] = new]
      /\ history' = (IF Negotiates(n) THEN history ELSE [history EXCEPT !.unheard = @ \cup {n}])
      /\ UNCHANGED <<local, pubs, ss, offers, answers>>
  BY DEF Needed, Set, server
<1>2. /\ history.orphaned \subseteq history'.orphaned /\ history.twice \subseteq history'.twice
      /\ history.unheard \subseteq history'.unheard /\ (~Negotiates(n) => n \in history'.unheard)
  BY <1>0, <1>1 DEF SessionTypes
<1>3. k \in Heeded /\ k \in T /\ k \notin history'.unheard /\ ss[k].open
  BY <1>1, <1>2, HeededBefore DEF Heeded
<1>4. k = n /\ Orderly(k) /\ Feeding(k)
  BY <1>1, <1>3, Serving
<1>5. Negotiates(n)
  BY <1>2, <1>3, <1>4
<1>6. tr[n] \in Transport
  BY <1>0, TransportFields
<1>7. /\ new \in Transport /\ new.at = tr[n].at /\ new.todo = tr[n].todo /\ new.onPc = tr[n].onPc
      /\ new.neg = "creating"
  BY <1>5, <1>6 DEF Transport
<1> HIDE DEF new
<1>8. tr'[n] = new
  BY <1>0, <1>1, <1>7, TransportSet
<1>9. \A o \in offers : o.k # k
  BY <1>4, <1>5 DEF Orderly, Negotiates
<1>10. Orderly(k)'
  BY <1>1, <1>4, <1>7, <1>8, <1>9 DEF Orderly
<1>11. \A t \in Track : Fed(k, t) => Fed(k, t)'
  BY <1>1, <1>4, <1>7, <1>8 DEF Fed, Chance
<1>12. Feeding(k)'
  BY <1>0, <1>1, <1>4, <1>7, <1>8, <1>11, FeedingStays
<1> QED
  BY <1>10, <1>12

\* An offer has whatever the session knows of.
LEMMA OfferForward ==
  ASSUME ForwardInv, NEW n \in T, Offer(n), NEW k \in Heeded', ss'[k].open
  PROVE  Orderly(k)' /\ Feeding(k)'
<1> DEFINE new == [tr[n] EXCEPT !.neg = "handling", !.sig = "have-local-offer",
                                !.offered = tr[n].onPc, !.needed = "no"]
           made1 == [k |-> n, via |-> "client", at |-> "start", rest |-> {}]
<1>0. SessionTypes
  BY DEF ForwardInv, OwnerInv
<1>1. tr[n].neg = "creating" /\ UNCHANGED <<local, pubs, ss, answers>>
  BY DEF Offer
<1>2. /\ history.orphaned \subseteq history'.orphaned /\ history.twice \subseteq history'.twice
      /\ history.unheard \subseteq history'.unheard
      /\ tr[n].live /\ (router.session # 0 \/ \E o \in offers : o.k = n) => n \in history'.twice
  <2>1. \/ ~tr[n].live /\ history' = history
        \/ tr[n].live /\ history' = IF router.session # 0 \/ \E o \in offers : o.k = n
                       THEN [history EXCEPT !.twice = @ \cup {n, router.session}] ELSE history
    BY DEF Offer
  <2> QED
    BY <1>0, <2>1 DEF SessionTypes
<1>3. k \in Heeded /\ k \in T /\ k \notin history'.twice /\ ss[k].open
  BY <1>1, <1>2, HeededBefore DEF Heeded
<1>4. k = n /\ Orderly(k) /\ Feeding(k) /\ tr[k].live
  BY <1>1, <1>3, Serving
<1>5. router.session = 0 /\ \A o \in offers : o.k # k
  BY <1>2, <1>3, <1>4
<1>6. tr' = [tr EXCEPT ![n] = new] /\ offers' = offers \cup {made1}
  BY <1>4, <1>5 DEF Offer, Set
<1>7. tr[n] \in Transport /\ tr[n].onPc \subseteq Track
  BY <1>0, TransportFields
<1>8. /\ new \in Transport /\ new.at = tr[n].at /\ new.todo = tr[n].todo /\ new.onPc = tr[n].onPc
      /\ new.neg = "handling" /\ new.sig = "have-local-offer" /\ new.needed = "no"
  BY <1>7 DEF Transport
<1> HIDE DEF new
<1>9. tr'[n] = new
  BY <1>0, <1>6, <1>8, TransportSet
<1>10. made1 \in offers' /\ made1.k = k /\ made1.via = "client" /\ made1.at = "start" /\ made1.rest = {}
  BY <1>4, <1>6
<1>11. \A o \in offers' : o.k = k => o = made1
  BY <1>5, <1>6
<1> HIDE DEF made1
<1>12. Orderly(k)'
  BY <1>1, <1>4, <1>8, <1>9, <1>10, <1>11 DEF Orderly
<1>13. \A t \in Track : Fed(k, t) => Fed(k, t)'
  <2>1. \A t \in Track : Chance(k, t)'
    BY <1>10 DEF Chance
  <2> QED
    BY <1>1, <2>1 DEF Fed
<1>14. Feeding(k)'
  BY <1>0, <1>1, <1>4, <1>8, <1>9, <1>13, FeedingStays
<1> QED
  BY <1>12, <1>14

LEMMA AnswerForward ==
  ASSUME ForwardInv, NEW n \in T, Answer(n), NEW k \in Heeded', ss'[k].open
  PROVE  Orderly(k)' /\ Feeding(k)'
<1> DEFINE new == [tr[n] EXCEPT !.sig = "stable",
                          !.needed = IF tr[n].onPc \subseteq tr[n].offered THEN "no" ELSE "queued"]
<1>0. SessionTypes
  BY DEF ForwardInv, OwnerInv
<1>1. /\ answers[n] /\ answers' = [answers EXCEPT ![n] = FALSE]
      /\ history' = (IF media # n THEN [history EXCEPT !.unheard = @ \cup {n}] ELSE history)
      /\ UNCHANGED <<local, pubs, ss, offers>>
  BY DEF Answer
<1>2. /\ history.orphaned \subseteq history'.orphaned /\ history.twice \subseteq history'.twice
      /\ history.unheard \subseteq history'.unheard /\ (media # n => n \in history'.unheard)
  BY <1>0, <1>1 DEF SessionTypes
<1>3. k \in Heeded /\ k \in T /\ k \notin history'.unheard /\ ss[k].open
  BY <1>1, <1>2, HeededBefore DEF Heeded
<1>4. k = n /\ Orderly(k) /\ Feeding(k) /\ tr[k].live /\ media = n
  BY <1>1, <1>2, <1>3, Serving
<1>5. tr[n] \in Transport /\ tr \in [T -> Transport]
  BY <1>0, TransportFields DEF SessionTypes
<1>6. CASE tr[n].sig = "have-local-offer"
  <2>1. tr' = [tr EXCEPT ![n] = new]
    BY <1>4, <1>6 DEF Answer, Set
  <2>2. /\ new \in Transport /\ new.at = tr[n].at /\ new.todo = tr[n].todo /\ new.onPc = tr[n].onPc
        /\ new.neg = tr[n].neg /\ new.sig = "stable" /\ new.offered = tr[n].offered
        /\ new.needed = IF tr[n].onPc \subseteq tr[n].offered THEN "no" ELSE "queued"
    BY <1>5 DEF Transport
  <2> HIDE DEF new
  <2>3. tr'[n] = new
    BY <1>0, <2>1, <2>2, TransportSet
  <2>4. Orderly(k)'
    BY <1>1, <1>4, <2>2, <2>3 DEF Orderly
  <2>5. \A t \in Track : Fed(k, t) => Fed(k, t)'
    <3>1. \A t \in Track : Chance(k, t) => Chance(k, t)'
      BY <1>1, <1>4, <1>6, <2>2, <2>3 DEF Chance
    <3> QED
      BY <1>1, <3>1 DEF Fed
  <2>6. Feeding(k)'
    BY <1>0, <1>1, <1>4, <2>2, <2>3, <2>5, FeedingStays
  <2> QED
    BY <2>4, <2>6
<1>7. CASE tr[n].sig # "have-local-offer"
  <2>1. tr' = tr
    BY <1>7 DEF Answer
  <2>2. Orderly(k)'
    BY <1>1, <1>4, <2>1 DEF Orderly
  <2>3. \A t \in Track : Fed(k, t) => Fed(k, t)'
    BY <1>1, <1>4, <1>7, <2>1 DEF Fed, Chance
  <2>4. Feeding(k)'
    BY <1>0, <1>1, <1>4, <2>1, <2>3, FeedingStays
  <2> QED
    BY <2>2, <2>4
<1> QED
  BY <1>6, <1>7

LEMMA OfferStartsForward ==
  ASSUME ForwardInv, NEW o \in offers, OfferStarts(o), NEW k \in Heeded', ss'[k].open
  PROVE  Orderly(k)' /\ Feeding(k)'
<1> DEFINE p == [o EXCEPT !.at = "producing", !.rest = ss[o.k].pending]
<1>0. SessionTypes
  BY DEF ForwardInv, OwnerInv
<1>1. /\ offers' = (offers \ {o}) \cup {p} /\ UNCHANGED <<local, tr, pubs, ss, answers, history>>
  BY DEF OfferStarts, client
<1>2. k \in Heeded /\ k \in T /\ ss[k].open
  BY <1>1 DEF Heeded
<1>3. o.k = k /\ o \in Handling /\ Orderly(k) /\ Feeding(k) /\ \A q \in offers : q.k = k
  BY <1>2, Serving
<1>4. p.k = k /\ p.via = o.via /\ p.rest = ss[k].pending
  BY <1>3 DEF Handling
<1>5. ss[k].pending \subseteq Track
  BY <1>0, <1>2, TransportFields
<1> HIDE DEF p
<1>6. offers' = {p}
  <2>1. offers \ {o} = {}
    BY <1>3 DEF Orderly
  <2> QED
    BY <1>1, <2>1
<1>7. Orderly(k)'
  BY <1>1, <1>3, <1>4, <1>6 DEF Orderly
<1>8. \A t \in Track : Fed(k, t) => Fed(k, t)'
  <2>1. \A t \in ss[k].pending : Chance(k, t)'
    BY <1>4, <1>6 DEF Chance
  <2> QED
    BY <1>1, <2>1 DEF Fed
<1>9. Feeding(k)'
  BY <1>0, <1>1, <1>2, <1>3, <1>8, FeedingStays
<1> QED
  BY <1>7, <1>9

LEMMA ProducedForward ==
  ASSUME ForwardInv, NEW o \in offers, Produced(o), NEW k \in Heeded', ss'[k].open
  PROVE  Orderly(k)' /\ Feeding(k)'
<1>0. SessionTypes
  BY DEF ForwardInv, OwnerInv
<1>1. o.at = "producing" /\ UNCHANGED <<local, pubs, answers, history>>
  BY DEF Produced
<1>2. k \in Heeded /\ k \in T
  BY <1>1 DEF Heeded
<1>3. ss[k].open
  <2>1. o.k \in T /\ o.rest \subseteq Track /\ ss \in [T -> Session]
    BY <1>0 DEF SessionTypes, Handling
  <2>2. \/ UNCHANGED ss
        \/ \E t \in o.rest : ss[o.k].open /\ ss' = [ss EXCEPT ![o.k].producers[t] = @ + 1, ![o.k].pending = @ \ {t}]
    BY DEF Produced
  <2> QED
    BY <1>2, <2>1, <2>2
<1>4. o.k = k /\ o \in Handling /\ Orderly(k) /\ Feeding(k) /\ \A q \in offers : q.k = k
  BY <1>2, <1>3, Serving
<1>5. PICK t \in o.rest : /\ ss' = [ss EXCEPT ![k].producers[t] = @ + 1, ![k].pending = @ \ {t}]
                          /\ offers' = (offers \ {o}) \cup {[o EXCEPT !.rest = @ \ {t}]}
                          /\ UNCHANGED tr
  BY <1>3, <1>4 DEF Produced
<1>6. t \in Track /\ o.rest \subseteq Track /\ ss \in [T -> Session] /\ ss[k] \in Session
  BY <1>0, <1>2, <1>4, <1>5 DEF SessionTypes, Handling
<1>7. ss[k].producers[t] = 0 /\ ss[k].producers \in [Track -> Nat] /\ ss[k].pending \subseteq Track
  BY <1>4, <1>5, <1>6 DEF Orderly, Session
<1>8. /\ ss'[k].pending = ss[k].pending \ {t} /\ ss'[k].producers[t] = 1
      /\ \A s \in Track : s # t => ss'[k].producers[s] = ss[k].producers[s]
  <2> DEFINE more == [ss[k].producers EXCEPT ![t] = @ + 1]
             mid == [ss[k] EXCEPT !.producers = more]
             new == [mid EXCEPT !.pending = @ \ {t}]
  <2>1. /\ more \in [Track -> Nat] /\ more[t] = 1
        /\ \A s \in Track : s # t => more[s] = ss[k].producers[s]
    BY <1>6, <1>7
  <2>2. ss'[k] = new
    BY <1>2, <1>5, <1>6
  <2> HIDE DEF more
  <2>3. new.pending = ss[k].pending \ {t} /\ new.producers = more
    BY <1>6, <2>1 DEF Session
  <2> HIDE DEF new
  <2> QED
    BY <2>1, <2>2, <2>3
<1> DEFINE p == [o EXCEPT !.rest = @ \ {t}]
<1>9. p.k = k /\ p.via = o.via /\ p.rest = o.rest \ {t} /\ p.at = o.at
  BY <1>4 DEF Handling
<1>10. offers' = {p}
  <2>1. offers \ {o} = {}
    BY <1>4 DEF Orderly
  <2> QED
    BY <1>5, <2>1
<1> HIDE DEF p
<1>11. Orderly(k)'
  <2>1. \A s \in Track : ss'[k].producers[s] <= 1
    BY <1>4, <1>7, <1>8 DEF Orderly
  <2>2. \A s \in ss'[k].pending : ss'[k].producers[s] = 0
    BY <1>4, <1>7, <1>8 DEF Orderly
  <2>3. \A s \in p.rest : ss'[k].producers[s] = 0
    BY <1>4, <1>6, <1>8, <1>9 DEF Orderly
  <2> QED
    BY <1>4, <1>5, <1>9, <1>10, <2>1, <2>2, <2>3 DEF Orderly
<1>12. ASSUME NEW s \in Track, Fed(k, s) PROVE Fed(k, s)'
  <2>1. CASE s = t
    BY <1>8, <2>1 DEF Fed
  <2>2. CASE s # t
    <3>1. ss'[k].producers[s] = ss[k].producers[s] /\ (s \in ss[k].pending => s \in ss'[k].pending)
      BY <1>8, <2>2
    <3>2. (\E q \in offers : q.k = k /\ (q.at = "start" \/ s \in q.rest)) => s \in p.rest
      BY <1>1, <1>4, <1>9, <2>2 DEF Orderly
    <3>3. Chance(k, s) => Chance(k, s)'
      BY <1>1, <1>5, <1>9, <1>10, <3>2 DEF Chance
    <3> QED
      BY <1>12, <3>1, <3>3 DEF Fed
  <2> QED
    BY <2>1, <2>2
<1>13. Feeding(k)'
  BY <1>0, <1>1, <1>2, <1>4, <1>5, <1>12, FeedingStays
<1> QED
  BY <1>11, <1>13

LEMMA AnsweredForward ==
  ASSUME ForwardInv, NEW o \in offers, Answered(o), NEW k \in Heeded', ss'[k].open
  PROVE  Orderly(k)' /\ Feeding(k)'
<1>0. SessionTypes
  BY DEF ForwardInv, OwnerInv
<1>1. /\ offers' = offers \ {o} /\ Finish(o) /\ answers' = [answers EXCEPT ![o.k] = TRUE]
      /\ o.at = "producing" /\ o.rest = {} /\ UNCHANGED <<local, pubs, ss, history>>
  BY DEF Answered
<1>2. k \in Heeded /\ k \in T /\ ss[k].open
  BY <1>1 DEF Heeded
<1>3. o.k = k /\ Orderly(k) /\ Feeding(k) /\ \A q \in offers : q.k = k
  BY <1>2, Serving
<1>4. o.via = "client" /\ tr[k].neg = "handling" /\ offers' = {}
  BY <1>1, <1>3 DEF Orderly
<1>5. /\ tr'[k].at = tr[k].at /\ tr'[k].onPc = tr[k].onPc /\ tr'[k].todo = tr[k].todo
      /\ tr'[k].sig = tr[k].sig /\ tr'[k].offered = tr[k].offered /\ tr'[k].needed = tr[k].needed
      /\ tr'[k].neg = "idle"
  BY <1>0, <1>1, <1>3, <1>4, FinishSets
<1>6. answers'[k]
  BY <1>0, <1>1, <1>2, <1>3 DEF SessionTypes
<1>7. Orderly(k)'
  BY <1>1, <1>3, <1>4, <1>5 DEF Orderly
<1>8. \A t \in Track : Chance(k, t) => Chance(k, t)'
  <2>1. ASSUME NEW t \in Track, Chance(k, t) PROVE Chance(k, t)'
    <3>1. ~\E q \in offers : q.k = k /\ (q.at = "start" \/ t \in q.rest)
      BY <1>1, <1>3 DEF Orderly
    <3> QED
      BY <1>4, <1>5, <1>6, <2>1, <3>1 DEF Chance
  <2> QED
    BY <2>1
<1>9. \A t \in Track : Fed(k, t) => Fed(k, t)'
  BY <1>1, <1>8 DEF Fed
<1>10. Feeding(k)'
  BY <1>0, <1>1, <1>2, <1>3, <1>5, <1>9, FeedingStays
<1> QED
  BY <1>7, <1>10

LEMMA RoutePublishForward ==
  ASSUME ForwardInv, NEW t \in Track, RoutePublish(t), NEW k \in Heeded', ss'[k].open
  PROVE  Orderly(k)' /\ Feeding(k)'
<1> DEFINE n == router.session
           new == [ss[n] EXCEPT !.pending = @ \cup {t}]
<1>0. SessionTypes /\ MaxT \in Nat /\ T = 1 .. MaxT
  BY SessionAssumption DEF ForwardInv, OwnerInv, T
<1>1. /\ n # 0 /\ ss' = [ss EXCEPT ![n] = new] /\ ss[n].producers[t] = 0
      /\ UNCHANGED <<local, tr, pubs, offers, answers, history>>
  BY DEF RoutePublish, Registered, client
<1>2. n \in T /\ ss[n] \in Session
  BY <1>0, <1>1, TransportFields DEF SessionTypes
<1>3. /\ new \in Session /\ new.open = ss[n].open /\ new.producers = ss[n].producers
      /\ new.pending = ss[n].pending \cup {t}
  BY <1>2 DEF Session
<1> HIDE DEF new
<1>4. ss'[n] = new /\ \A j \in T : j # n => ss'[j] = ss[j]
  BY <1>0, <1>1, <1>2, <1>3, SessionSet
<1>5. k \in Heeded /\ k \in T /\ ss[k].open
  BY <1>1, <1>3, <1>4 DEF Heeded
<1>6. n = k /\ Orderly(k) /\ Feeding(k)
  BY <1>1, <1>5, Serving
<1>7. Orderly(k)'
  BY <1>1, <1>3, <1>4, <1>6 DEF Orderly
<1>8. \A s \in Track : Fed(k, s) => Fed(k, s)'
  BY <1>1, <1>3, <1>4, <1>6 DEF Fed, Chance
<1>9. Feeding(k)'
  BY <1>0, <1>1, <1>5, <1>6, <1>8, FeedingStays
<1> QED
  BY <1>7, <1>9

LEMMA ForwardStep == ForwardInv /\ [SessionNext]_sessionVars => ForwardInv'
<1> SUFFICES ASSUME ForwardInv, [SessionNext]_sessionVars PROVE ForwardInv'
  OBVIOUS
<1>1. OwnerInv'
  BY OwnerStep DEF ForwardInv
<1>2. ASSUME NEW k \in Heeded', ss'[k].open PROVE Orderly(k)' /\ Feeding(k)'
  <2>1. CASE UNCHANGED sessionVars
    BY <1>2, <2>1 DEF sessionVars, client, server, ForwardInv, Heeded, Orderly, Feeding, Fed, Chance
  <2>2. CASE Migrate \/ Leave \/ RouteLeave
    BY <1>1, <1>2, <2>2, MigrateForward, LeaveForward, RouteLeaveForward
  <2>3. CASE \E n \in T : Joined(n) \/ InitStep(n) \/ Needed(n) \/ Offer(n) \/ Answer(n)
    BY <1>1, <1>2, <2>3, JoinedForward, InitStepForward, NeededForward, OfferForward, AnswerForward
  <2>4. CASE \E t \in Track : Publish(t) \/ RoutePublish(t)
    BY <1>2, <2>4, PublishForward, RoutePublishForward
  <2>5. CASE \E u \in pubs : Announced(u) \/ Published(u)
    BY <1>2, <2>5, AnnouncedForward, PublishedForward
  <2>6. CASE \E o \in offers : OfferStarts(o) \/ Produced(o) \/ Answered(o)
    BY <1>2, <2>6, OfferStartsForward, ProducedForward, AnsweredForward
  <2> QED
    BY <2>1, <2>2, <2>3, <2>4, <2>5, <2>6 DEF SessionNext
<1> QED
  BY <1>1, <1>2 DEF ForwardInv

LEMMA OwnerHolds == OwnerInv => OneSession /\ NothingOutlives
<1> SUFFICES ASSUME OwnerInv PROVE OneSession /\ NothingOutlives
  OBVIOUS
<1>1. OneSession
  <2>1. ASSUME NEW k \in T \ history.orphaned, ss[k].open, tr[k].at \in {"ready", "failed"}
        PROVE  k = media /\ ~left
    BY <2>1 DEF OwnerInv, Only
  <2> QED
    BY <2>1 DEF OneSession
<1>2. NothingOutlives
  BY DEF OwnerInv, Listed, NothingOutlives
<1> QED
  BY <1>1, <1>2

LEMMA ForwardHolds == ForwardInv => TracksForwarded
<1> SUFFICES ASSUME ForwardInv, AtRest, media # 0, ~left, media \notin history.orphaned,
                    NEW t \in local
             PROVE  \/ ss[media].producers[t] = 1
                    \/ ~ss[media].open
                    \/ media \in history.unheard \cup history.twice
  BY DEF TracksForwarded
<1>0. SessionTypes /\ MaxT \in Nat /\ T = 1 .. MaxT
  BY SessionAssumption DEF ForwardInv, OwnerInv, T
<1>1. media \in T
  BY <1>0 DEF SessionTypes
<1>2. CASE ss[media].open /\ media \notin history.unheard \cup history.twice
  <2>1. media \in Heeded
    BY <1>1, <1>2 DEF Heeded
  <2>2. Feeding(media) /\ tr[media].live
    BY <1>2, <2>1, Serving
  <2>3. /\ pubs = {} /\ offers = {} /\ ~answers[media] /\ tr[media].at # "local"
        /\ tr[media].neg = "idle" /\ ~(tr[media].needed = "queued" /\ tr[media].sig = "stable")
    BY <1>1, <2>2 DEF AtRest
  <2>4. Fed(media, t)
    BY <2>2, <2>3 DEF Feeding
  <2>5. ~Chance(media, t)
    BY <2>3 DEF Chance
  <2> QED
    BY <2>4, <2>5 DEF Fed
<1> QED
  BY <1>2

\* sfu-transport.ts, room.ts leave and switchMediaTransport, mediasoup-adapter.ts: the gateway
\* keeps a session of a participant only for the transport its Room uses and none after leave(),
\* and neither the room's map nor the router offers what no session produces, however many
\* transports a Room makes.
THEOREM SessionOwned == SessionSpec => []SessionsOwned
<1>1. SessionInit => OwnerInv
  BY SessionInitial DEF ForwardInv
<1>2. OwnerInv /\ [SessionNext]_sessionVars => OwnerInv'
  BY OwnerStep
<1>3. OwnerInv => SessionsOwned
  BY OwnerHolds DEF SessionsOwned
<1> QED
  BY <1>1, <1>2, <1>3, PTL DEF SessionSpec

\* sfu-transport.ts publish, negotiate and onnegotiationneeded, mediasoup-adapter.ts handleOffer:
\* at rest every track the Room lists is produced once, whatever was published, announced,
\* offered and answered in whatever order.
THEOREM TracksProducedOnce == SessionSpec => []TracksForwarded
<1>1. SessionInit => ForwardInv
  BY SessionInitial
<1>2. ForwardInv /\ [SessionNext]_sessionVars => ForwardInv'
  BY ForwardStep
<1>3. ForwardInv => TracksForwarded
  BY ForwardHolds
<1> QED
  BY <1>1, <1>2, <1>3, PTL DEF SessionSpec
=============================================================================
