--------------------------- MODULE RoomMeshProofs ---------------------------
(***************************************************************************)
(* Proofs about RoomMesh, for any peers, tracks and bounds: the peer       *)
(* connections of a Room are exactly what its roster and publications      *)
(* say (PeersExact), a leave is the end of a Room, here and with           *)
(* everybody else (LeaveHolds), and a call at rest is complete             *)
(* (CallAtRest, at the end).                                               *)
(*                                                                         *)
(* None is inductive. RoomInv adds to PeersExact what a suspended call has *)
(* already made (Making), that one call at most makes a connection nothing *)
(* crossed, and that a track has one publish() at most; and to             *)
(* LeaveIsFinal the places where join() and leave() stand (LifeOK).        *)
(* GhostInv follows a leave along the wires: behind it nothing but leaves  *)
(* of its session come, and what is sent after it goes to a peer that is   *)
(* crossed or is raced.                                                    *)
(***************************************************************************)
EXTENDS RoomMesh, TLAPS

USE RoomAssumption

-----------------------------------------------------------------------------
(* What holds in every state.                                              *)

\* The types.
JoinStep == {"idle", "transport", "presence", "announce", "rollback"}
LeaveStep == {"none", "announce", "transport", "done", "crashed"}
Life ==
  [sess : Nat \ {0}, joinAt : JoinStep, leaveAt : LeaveStep, tries : Int,
   joined : BOOLEAN, closed : BOOLEAN, mediaClosed : BOOLEAN, bound : BOOLEAN,
   timers : BOOLEAN, sampling : BOOLEAN, attached : Int, tracked : Int,
   failed : Int, told : BOOLEAN, raced : BOOLEAN]
Envelope == [type : {"join", "leave", "offer"}, seq : Int, sess : Int, tracks : SUBSET Track]
Wires == [Peer -> [Peer -> Seq(Envelope)]]
Call == [who : Peer, why : Track \cup {"join", "offer"}, at : {"loop", "reply", "ice", "setup"},
         tracks : SUBSET Track, got : SUBSET Track, id : Int \X Int]

\* A loop is a publish() of p's own, a reply answers a join.
Placed(p, t) ==
  /\ t.at = "loop" => t.why \in Track /\ t.who = p /\ t.tracks = {}
  /\ t.at = "reply" => t.why = "join"

MeshTypes ==
  /\ remotes \in [Peer -> SUBSET Peer] /\ pubs \in [Peer -> SUBSET Track]
  /\ peers \in [Peer -> SUBSET Peer] /\ open \in [Peer -> [Peer -> Int]]
  /\ sent \in [Peer -> [Peer -> SUBSET Track]]
  /\ visited \in [Peer -> [Track -> SUBSET Peer]]
  /\ tasks \in [Peer -> SUBSET Call]
  /\ \A p \in Peer : \A t \in tasks[p] : Placed(p, t)
  /\ crossed \in [Peer -> SUBSET Peer] /\ gone \in [Peer -> [Peer -> Int]]

Types ==
  /\ life \in [Peer -> Life] /\ seq \in [Peer -> Int] /\ wire \in Wires
  /\ MeshTypes

\* Where a Room stands.  What is said of the handlers and timers holds as long as
\* no leave() met a join() under way.
LifeOK(l) ==
  /\ l.closed <=> l.leaveAt # "none"
  /\ ~l.closed => ~l.raced
  /\ l.mediaClosed <=> l.closed /\ l.leaveAt # "crashed"
  /\ l.leaveAt = "crashed" => l.joinAt = "idle" /\ l.attached = 0
  /\ ~l.raced =>
       /\ l.closed => l.joinAt = "idle" /\ ~l.sampling
       /\ l.leaveAt = "done" => l.tracked = 0
       /\ l.attached = l.failed + l.tracked
       /\ l.joinAt \in {"transport", "presence", "announce"} => l.bound
       /\ l.timers => l.bound
       /\ l.joinAt = "transport" => ~l.timers
       /\ l.joinAt \in {"transport", "rollback"} => l.tracked = 0
       /\ l.joinAt \in {"presence", "announce"} => l.tracked = 1
       /\ l.joinAt = "idle" /\ ~l.joined => l.tracked = 0

\* A crashed Room holds no calls and no publications.
LifeInv == \A p \in Peer :
  LifeOK(life[p]) /\ (life[p].leaveAt = "crashed" => tasks[p] = {} /\ pubs[p] = {})

\* The call t is setting up a connection with q.
Makes(t, q) == t.who = q /\ t.at \in {"ice", "setup"}

\* A track has one publish() under way at most, and none once it is published.
PublishOK(p) == \A k \in Track :
  /\ \A t, u \in tasks[p] : t.why = k /\ u.why = k => t = u
  /\ k \in pubs[p] => visited[p][k] = {} /\ \A t \in tasks[p] : t.why # k

\* The one call that sets up the connection with q, and what it has so far.
Making(p, q, t) ==
  /\ ~life[p].mediaClosed /\ q \in remotes[p] /\ q \notin peers[p]
  /\ \A k \in Track : q \notin visited[p][k]
  /\ t.at = "ice" => open[p][q] = 0
  /\ t.at = "setup" => open[p][q] = 1 /\ t.tracks = pubs[p]
  /\ \A u \in tasks[p] : Makes(u, q) => u = t

\* What a connection with q has to carry.
Carried(p, q) == pubs[p] \cup {k \in Track : q \in visited[p][k]}

\* Nothing is being set up with q: what PeersExact says, and that a publish()
\* has visited only ids with a connection.
Exact(p, q) ==
  /\ open[p][q] = IF q \in peers[p] THEN 1 ELSE 0
  /\ q \in peers[p] =>
       q \in remotes[p] /\ ~life[p].mediaClosed /\ sent[p][q] = Carried(p, q)
  /\ q \notin peers[p] /\ ~life[p].mediaClosed => \A k \in Track : q \notin visited[p][k]

PairOK(p, q) ==
  /\ \A t \in tasks[p] : Makes(t, q) => Making(p, q, t)
  /\ (\A t \in tasks[p] : ~Makes(t, q)) => Exact(p, q)

MeshOK(p) == PublishOK(p) /\ \A q \in Peer \ crossed[p] : PairOK(p, q)

\* The leave of q is out, or the server's for it.
Over(q) == life[q].leaveAt \in {"transport", "done", "crashed"}
\* The cases NoGhost excepts.
Exempt(p, q) == q \in crossed[p] \/ p \in crossed[q] \/ life[q].raced
\* A leave of session s has only leaves behind it.
LeavesLast(w, s) ==
  \A i, j \in 1 .. Len(w) : i < j /\ w[i].type = "leave" /\ w[i].sess = s => w[j].type = "leave"
OnlyLeaves(w) == \A i \in 1 .. Len(w) : w[i].type = "leave"
HasLeave(w, s) == \E i \in 1 .. Len(w) : w[i].type = "leave" /\ w[i].sess = s
Past(w, s) == \A i \in 1 .. Len(w) : w[i].sess =< s

\* What p has accepted of the leaves of q, and what is still on its way.
GhostInv == \A p, q \in Peer :
  /\ gone[p][q] =< life[q].sess /\ (p = q => gone[p][q] = 0)
  /\ Past(wire[q][p], life[q].sess)
  /\ HasLeave(wire[q][p], life[q].sess) \/ gone[p][q] = life[q].sess => Over(q)
  /\ ~Exempt(p, q) => LeavesLast(wire[q][p], life[q].sess)
  /\ ~Exempt(p, q) /\ gone[p][q] = life[q].sess =>
       OnlyLeaves(wire[q][p]) /\ q \notin remotes[p] /\ \A t \in tasks[p] : t.who # q

-----------------------------------------------------------------------------
(* Every step of a join or a leave keeps the fields of a Room.             *)

\* The types of the fields of a Room.
LEMMA LifeFields ==
  ASSUME NEW l \in Life
  PROVE  /\ l.sess \in Nat \ {0} /\ l.joinAt \in JoinStep /\ l.leaveAt \in LeaveStep
         /\ l.tries \in Int /\ l.joined \in BOOLEAN /\ l.closed \in BOOLEAN
         /\ l.mediaClosed \in BOOLEAN /\ l.bound \in BOOLEAN /\ l.timers \in BOOLEAN
         /\ l.sampling \in BOOLEAN /\ l.attached \in Int /\ l.tracked \in Int
         /\ l.failed \in Int /\ l.told \in BOOLEAN /\ l.raced \in BOOLEAN
BY DEF Life

\* What a new or crashed Room is left with is a Room.
LEMMA FreshType ==
  ASSUME NEW s \in Nat \ {0}, NEW o \in BOOLEAN, NEW x \in BOOLEAN
  PROVE  /\ Fresh(s) \in Life
         /\ [Fresh(s) EXCEPT !.told = o] \in Life
         /\ [Fresh(s) EXCEPT !.closed = TRUE, !.leaveAt = "crashed", !.raced = x, !.told = o] \in Life
<1>1. Fresh(s) \in Life
  BY DEF Fresh, Life, JoinStep, LeaveStep
<1> DEFINE l == Fresh(s)
<1> HIDE DEF l
<1>2. [l EXCEPT !.told = o] \in Life
  BY <1>1 DEF Life, l
<1>3. [l EXCEPT !.closed = TRUE, !.leaveAt = "crashed", !.raced = x, !.told = o] \in Life
  BY <1>1 DEF Life, LeaveStep, l
<1> QED
  BY <1>1, <1>2, <1>3 DEF l

\* The fields that a step writes keep their types.
LEMMA JoinWrites ==
  ASSUME NEW l \in Life, NEW n \in Int, NEW j \in JoinStep, NEW b \in BOOLEAN
  PROVE  [l EXCEPT !.tries = n, !.joinAt = j, !.bound = b] \in Life
BY DEF Life, LeaveStep

LEMMA JoinTransportWrites ==
  ASSUME NEW l \in Life, NEW t \in BOOLEAN, NEW n \in Int, NEW k \in Int, NEW f \in Int, NEW j \in JoinStep
  PROVE  [l EXCEPT !.timers = t, !.attached = n, !.tracked = k, !.failed = f, !.joinAt = j] \in Life
BY DEF Life, LeaveStep

LEMMA JoinAnnounceWrites ==
  ASSUME NEW l \in Life, NEW j \in JoinStep, NEW k \in Int, NEW f \in Int
  PROVE  [l EXCEPT !.joinAt = j, !.tracked = k, !.failed = f] \in Life
BY DEF Life, LeaveStep

LEMMA JoinFailWrites ==
  ASSUME NEW l \in Life, NEW k \in Int, NEW f \in Int, NEW b \in BOOLEAN, NEW t \in BOOLEAN, NEW j \in JoinStep
  PROVE  [l EXCEPT !.tracked = k, !.failed = f, !.bound = b, !.timers = t, !.joinAt = j] \in Life
BY DEF Life, LeaveStep

LEMMA RollbackWrites ==
  ASSUME NEW l \in Life, NEW j \in JoinStep, NEW o \in BOOLEAN, NEW b \in BOOLEAN, NEW t \in BOOLEAN
  PROVE  [l EXCEPT !.joinAt = j, !.told = o, !.bound = b, !.timers = t] \in Life
BY DEF Life, LeaveStep

LEMMA LeaveTransportWrites ==
  ASSUME NEW l \in Life, NEW n \in Int, NEW k \in Int, NEW b \in BOOLEAN, NEW t \in BOOLEAN
  PROVE  [l EXCEPT !.leaveAt = "done", !.attached = n, !.tracked = k, !.bound = b, !.timers = t] \in Life
BY DEF Life, LeaveStep

\* What each step writes is a Room.
LEMMA JoinType ==
  ASSUME NEW p \in Peer, life[p] \in Life, Join(p)
  PROVE  \E r \in Life : Set(p, r)
<1> DEFINE l == life[p]
           j == IF l.bound THEN "rollback" ELSE "transport"
           n == l.tries + 1
           b == TRUE
<1>1. l \in Life /\ j \in JoinStep /\ n \in Int /\ b \in BOOLEAN
  BY LifeFields DEF JoinStep
<1>2. Set(p, [l EXCEPT !.tries = n, !.joinAt = j, !.bound = b])
  BY DEF Join, Set
<1>3. [l EXCEPT !.tries = n, !.joinAt = j, !.bound = b] \in Life
  <2> HIDE DEF l, j, n, b
  <2> QED
    BY <1>1, JoinWrites
<1> QED
  BY <1>2, <1>3

LEMMA JoinTransportType ==
  ASSUME NEW p \in Peer, life[p] \in Life, JoinTransport(p)
  PROVE  \E r \in Life : Set(p, r)
<1> DEFINE l == life[p]
           t == TRUE
           n == l.attached + 1
           k == IF l.bound THEN l.tracked + 1 ELSE 0
           f == IF l.bound THEN l.failed ELSE l.failed + 1
           j == IF l.bound THEN "presence" ELSE IF l.closed THEN "idle" ELSE "rollback"
           r == [l EXCEPT !.timers = t, !.attached = n, !.tracked = k, !.failed = f, !.joinAt = j]
<1>1. l \in Life /\ j \in JoinStep /\ n \in Int /\ k \in Int /\ f \in Int /\ t \in BOOLEAN
  BY LifeFields DEF JoinStep
<1>2. Set(p, r)
  BY DEF JoinTransport, Set
<1>3. r \in Life
  <2> HIDE DEF l, j, n, k, f, t
  <2> QED
    BY <1>1, JoinTransportWrites
<1> QED
  BY <1>2, <1>3

LEMMA JoinAnnounceType ==
  ASSUME NEW p \in Peer, life[p] \in Life, JoinAnnounce(p)
  PROVE  \E r \in Life : Set(p, r)
<1> DEFINE l == life[p]
           j == "idle"
           f == l.failed + 1
           k == 0
           r == [l EXCEPT !.joinAt = j, !.tracked = k, !.failed = f]
<1>1. CASE l.bound
  <2>1. Set(p, [l EXCEPT !.joinAt = "announce"])
    BY <1>1 DEF JoinAnnounce
  <2>2. [l EXCEPT !.joinAt = "announce"] \in Life
    BY DEF Life, JoinStep
  <2> QED
    BY <2>1, <2>2
<1>2. CASE ~l.bound
  <2>1. l \in Life /\ j \in JoinStep /\ f \in Int /\ k \in Int
    BY LifeFields DEF JoinStep
  <2>2. Set(p, r)
    BY <1>2 DEF JoinAnnounce, Set
  <2>3. r \in Life
    <3> HIDE DEF l, j, k, f
    <3> QED
      BY <2>1, JoinAnnounceWrites
  <2> QED
    BY <2>2, <2>3
<1> QED
  BY <1>1, <1>2

LEMMA JoinFailType ==
  ASSUME NEW p \in Peer, life[p] \in Life, JoinFail(p)
  PROVE  \E r \in Life : Set(p, r)
<1>1. PICK u \in BOOLEAN :
        Set(p, [life[p] EXCEPT !.tracked = 0,
                    !.failed = IF life[p].joinAt = "transport" THEN @ ELSE @ + 1,
                    !.bound = @ /\ ~u,
                    !.timers = @ \/ (life[p].joinAt = "transport" /\ ~u),
                    !.joinAt = IF life[p].closed THEN "idle" ELSE "rollback"])
  BY DEF JoinFail
<1> DEFINE l == life[p]
           k == 0
           f == IF l.joinAt = "transport" THEN l.failed ELSE l.failed + 1
           b == l.bound /\ ~u
           t == l.timers \/ (l.joinAt = "transport" /\ ~u)
           j == IF l.closed THEN "idle" ELSE "rollback"
           r == [l EXCEPT !.tracked = k, !.failed = f, !.bound = b, !.timers = t, !.joinAt = j]
<1>2. l \in Life /\ j \in JoinStep /\ k \in Int /\ f \in Int /\ t \in BOOLEAN /\ b \in BOOLEAN
  BY LifeFields DEF JoinStep
<1>3. Set(p, r)
  BY <1>1
<1>4. r \in Life
  <2> HIDE DEF l, j, k, f, t, b
  <2> QED
    BY <1>2, JoinFailWrites
<1> QED
  BY <1>3, <1>4

LEMMA RollbackType ==
  ASSUME NEW p \in Peer, life[p] \in Life, Rollback(p)
  PROVE  \E r \in Life : Set(p, r)
<1>1. PICK ok \in BOOLEAN :
        Set(p, [life[p] EXCEPT !.joinAt = "idle", !.told = @ \/ seq[p] > 0,
                           !.bound = @ /\ ~ok,
                           !.timers = @ /\ ~(life[p].bound /\ ok)])
  BY DEF Rollback
<1> DEFINE l == life[p]
           o == l.told \/ seq[p] > 0
           b == l.bound /\ ~ok
           t == l.timers /\ ~(l.bound /\ ok)
           j == "idle"
           r == [l EXCEPT !.joinAt = j, !.told = o, !.bound = b, !.timers = t]
<1>2. l \in Life /\ j \in JoinStep /\ o \in BOOLEAN /\ t \in BOOLEAN /\ b \in BOOLEAN
  BY LifeFields DEF JoinStep
<1>3. Set(p, r)
  BY <1>1
<1>4. r \in Life
  <2> HIDE DEF l, j, o, t, b
  <2> QED
    BY <1>2, RollbackWrites
<1> QED
  BY <1>3, <1>4

LEMMA LeaveTransportType ==
  ASSUME NEW p \in Peer, life[p] \in Life, LeaveTransport(p)
  PROVE  \E r \in Life : Set(p, r)
<1>1. PICK ok \in BOOLEAN :
        Set(p, [life[p] EXCEPT !.leaveAt = "done", !.attached = @ - life[p].tracked,
                    !.tracked = 0, !.bound = @ /\ ~ok,
                    !.timers = @ /\ ~(life[p].bound /\ ok)])
  BY DEF LeaveTransport
<1> DEFINE l == life[p]
           n == l.attached - l.tracked
           k == 0
           b == l.bound /\ ~ok
           t == l.timers /\ ~(l.bound /\ ok)
           r == [l EXCEPT !.leaveAt = "done", !.attached = n, !.tracked = k, !.bound = b, !.timers = t]
<1>2. l \in Life /\ n \in Int /\ k \in Int /\ t \in BOOLEAN /\ b \in BOOLEAN
  BY LifeFields
<1>3. Set(p, r)
  BY <1>1
<1>4. r \in Life
  <2> HIDE DEF l, n, k, t, b
  <2> QED
    BY <1>2, LeaveTransportWrites
<1> QED
  BY <1>3, <1>4

LEMMA CrashType ==
  ASSUME NEW p \in Peer, life[p] \in Life, Crash(p)
  PROVE  \E r \in Life : Set(p, r)
<1> DEFINE o == life[p].told \/ seq[p] > 0
<1>1. Set(p, [Fresh(life[p].sess) EXCEPT !.closed = TRUE, !.leaveAt = "crashed",
                                         !.raced = life[p].raced, !.told = o])
  BY DEF Crash
<1>2. life[p].sess \in Nat \ {0} /\ o \in BOOLEAN /\ life[p].raced \in BOOLEAN
  BY LifeFields
<1> HIDE DEF o
<1>3. [Fresh(life[p].sess) EXCEPT !.closed = TRUE, !.leaveAt = "crashed",
                                  !.raced = life[p].raced, !.told = o] \in Life
  BY <1>2, FreshType
<1> QED
  BY <1>1, <1>3

LEMMA ReopenType ==
  ASSUME NEW p \in Peer, life[p] \in Life, Reopen(p)
  PROVE  \E r \in Life : Set(p, r)
<1> DEFINE o == life[p].told \/ life[p].raced
<1>1. Set(p, [Fresh(life[p].sess + 1) EXCEPT !.told = o])
  BY DEF Reopen
<1>2. life[p].sess + 1 \in Nat \ {0} /\ o \in BOOLEAN
  BY LifeFields
<1> HIDE DEF o
<1>3. [Fresh(life[p].sess + 1) EXCEPT !.told = o] \in Life
  BY <1>2, FreshType
<1> QED
  BY <1>1, <1>3

\* The steps of join() and leave() that leave the mesh alone.
Living(p) ==
  \/ Join(p) \/ JoinTransport(p) \/ JoinAnnounce(p) \/ JoinDone(p) \/ JoinFail(p)
  \/ Rollback(p) \/ LeaveAnnounce(p) \/ LeaveTransport(p)

\* A step of p changes the life of p at most, and keeps it a Room.
LEMMA LifeType ==
  ASSUME life \in [Peer -> Life], NEW p \in Peer, Living(p) \/ Leave(p) \/ Crash(p) \/ Reopen(p)
  PROVE  life' \in [Peer -> Life] /\ \A o \in Peer \ {p} : life'[o] = life[o]
<1>0. life[p] \in Life
  OBVIOUS
<1>1. ASSUME \E r \in Life : Set(p, r)
      PROVE  life' \in [Peer -> Life] /\ \A o \in Peer \ {p} : life'[o] = life[o]
  BY <1>1 DEF Set
<1>2. CASE JoinDone(p)
  BY <1>0, <1>2, <1>1 DEF JoinDone, Life, JoinStep
<1>3. CASE LeaveAnnounce(p)
  BY <1>0, <1>3, <1>1 DEF LeaveAnnounce, Life, LeaveStep
<1>4. CASE Leave(p)
  BY <1>0, <1>4, <1>1 DEF Leave, Life, LeaveStep
<1> QED
  BY <1>0, <1>1, <1>2, <1>3, <1>4, JoinType, JoinTransportType, JoinAnnounceType, JoinFailType,
     RollbackType, LeaveTransportType, CrashType, ReopenType DEF Living

-----------------------------------------------------------------------------
(* The life of a Room.                                                     *)

\* What no step of a join or a leave changes, and where they may get to.
Continues(l, r) ==
  /\ r.sess = l.sess /\ r.mediaClosed = l.mediaClosed /\ r.raced = l.raced /\ r.closed = l.closed
  /\ \/ r.leaveAt = l.leaveAt
     \/ l.leaveAt = "announce" /\ r.leaveAt = "transport"
     \/ l.leaveAt = "transport" /\ r.leaveAt = "done"

\* They keep LifeOK.
LEMMA RollbackLife ==
  ASSUME life \in [Peer -> Life], NEW p \in Peer, LifeOK(life[p]), Rollback(p)
  PROVE  LifeOK(life'[p]) /\ Continues(life[p], life'[p])
<1>1. PICK ok \in BOOLEAN :
        Set(p, [life[p] EXCEPT !.joinAt = "idle", !.told = @ \/ seq[p] > 0,
                           !.bound = @ /\ ~ok,
                           !.timers = @ /\ ~(life[p].bound /\ ok)])
  BY DEF Rollback
<1>2. life[p] \in Life /\ life[p].joinAt = "rollback"
  BY DEF Rollback
<1>3. CASE ok
  BY <1>1, <1>2, <1>3 DEF Set, LifeOK, Continues, Life
<1>4. CASE ~ok
  BY <1>1, <1>2, <1>4 DEF Set, LifeOK, Continues, Life
<1> QED
  BY <1>3, <1>4

LEMMA JoinFailLife ==
  ASSUME life \in [Peer -> Life], NEW p \in Peer, LifeOK(life[p]), JoinFail(p)
  PROVE  LifeOK(life'[p]) /\ Continues(life[p], life'[p])
<1>1. PICK u \in IF life[p].joinAt = "transport" THEN BOOLEAN ELSE {FALSE} :
        Set(p, [life[p] EXCEPT !.tracked = 0,
                    !.failed = IF life[p].joinAt = "transport" THEN @ ELSE @ + 1,
                    !.bound = @ /\ ~u,
                    !.timers = @ \/ (life[p].joinAt = "transport" /\ ~u),
                    !.joinAt = IF life[p].closed THEN "idle" ELSE "rollback"])
  BY DEF JoinFail
<1>2. life[p] \in Life /\ life[p].joinAt \in {"transport", "presence", "announce"}
  BY DEF JoinFail
<1>3. CASE u
  <2>1. life[p].joinAt = "transport"
    BY <1>3
  <2> QED
    BY <1>1, <1>2, <1>3, <2>1 DEF Set, LifeOK, Continues, Life
<1>4. CASE ~u
  <2>1. CASE life[p].joinAt = "transport"
    BY <1>1, <1>2, <1>4, <2>1 DEF Set, LifeOK, Continues, Life
  <2>2. CASE life[p].joinAt # "transport"
    BY <1>1, <1>2, <1>4, <2>2 DEF Set, LifeOK, Continues, Life
  <2> QED
    BY <2>1, <2>2
<1> QED
  BY <1>3, <1>4

LEMMA LivingLife ==
  ASSUME life \in [Peer -> Life], NEW p \in Peer, LifeOK(life[p]), Living(p)
  PROVE  LifeOK(life'[p]) /\ Continues(life[p], life'[p])
<1>1. CASE Join(p)
  BY <1>1 DEF Join, Set, LifeOK, Continues, Life
<1>2. CASE JoinTransport(p)
  BY <1>2 DEF JoinTransport, Set, LifeOK, Continues, Life
<1>3. CASE JoinAnnounce(p)
  BY <1>3 DEF JoinAnnounce, Set, LifeOK, Continues, Life
<1>4. CASE JoinDone(p)
  BY <1>4 DEF JoinDone, Set, LifeOK, Continues, Life
<1>6. CASE LeaveAnnounce(p)
  BY <1>6 DEF LeaveAnnounce, Set, LifeOK, Continues, Life
<1>7. CASE LeaveTransport(p)
  BY <1>7 DEF LeaveTransport, Set, LifeOK, Continues, Life
<1> QED
  BY <1>1, <1>2, <1>3, <1>4, <1>6, <1>7, JoinFailLife, RollbackLife DEF Living

\* So do the calls that end a Room or begin the next.
LEMMA EndLife ==
  ASSUME life \in [Peer -> Life], NEW p \in Peer, LifeOK(life[p]), Leave(p) \/ Crash(p) \/ Reopen(p)
  PROVE  LifeOK(life'[p])
<1>1. CASE Leave(p)
  <2>1. CASE life[p].joinAt = "idle"
    BY <1>1, <2>1 DEF Leave, Set, LifeOK, Continues, Life
  <2>2. CASE life[p].joinAt # "idle"
    BY <1>1, <2>2 DEF Leave, Set, LifeOK, Continues, Life
  <2> QED
    BY <2>1, <2>2
<1>2. CASE Crash(p)
  BY <1>2 DEF Crash, Set, LifeOK, Life, Fresh
<1>3. CASE Reopen(p)
  BY <1>3 DEF Reopen, Set, LifeOK, Life, Fresh
<1> QED
  BY <1>1, <1>2, <1>3

-----------------------------------------------------------------------------
(* Calls and envelopes.                                                    *)

\* The forms a suspended call takes.
LEMMA CallOK ==
  ASSUME NEW t \in Call, NEW q \in Peer, NEW g \in SUBSET Track
  PROVE  /\ t.who \in Peer /\ t.why \in Track \cup {"join", "offer"} /\ t.got \in SUBSET Track
         /\ t.tracks \in SUBSET Track
         /\ LET u == [t EXCEPT !.at = "ice"]
            IN  u \in Call /\ u.who = t.who /\ u.why = t.why /\ u.at = "ice"
         /\ LET u == [t EXCEPT !.at = "setup", !.tracks = g]
            IN  u \in Call /\ u.who = t.who /\ u.why = t.why /\ u.at = "setup" /\ u.tracks = g
         /\ LET u == [t EXCEPT !.who = q, !.at = "loop", !.tracks = {}]
            IN  u \in Call /\ u.who = q /\ u.why = t.why /\ u.at = "loop"
         /\ LET u == [t EXCEPT !.who = q]
            IN  u \in Call /\ u.who = q /\ u.why = t.why /\ u.at = t.at /\ u.tracks = t.tracks
BY DEF Call

LEMMA TaskOK ==
  ASSUME NEW q \in Peer, NEW why \in Track \cup {"join", "offer"},
         NEW at \in {"loop", "reply", "ice", "setup"}, NEW got \in SUBSET Track, NEW id \in Int \X Int
  PROVE  LET u == Task(q, why, at, got, id)
         IN  u \in Call /\ u.who = q /\ u.why = why /\ u.at = at
BY DEF Call, Task

\* The next envelope is one.
LEMMA HeadOK ==
  ASSUME wire \in Wires, NEW p \in Peer, NEW q \in Peer, wire[q][p] # <<>>
  PROVE  /\ Head(wire[q][p]) \in Envelope
         /\ Head(wire[q][p]).tracks \in SUBSET Track
         /\ <<Head(wire[q][p]).sess, Head(wire[q][p]).seq>> \in Int \X Int
<1>1. wire[q][p] \in Seq(Envelope)
  BY DEF Wires
<1>2. Head(wire[q][p]) \in Envelope
  BY <1>1
<1> QED
  BY <1>2 DEF Envelope

\* What is left on the wires of what was there.
Shrunk(w, v) == v = w \/ v = <<>> \/ (w # <<>> /\ v = Tail(w))
Shrinks(v, w) == w \in Wires /\ \A x, y \in Peer : Shrunk(v[x][y], w[x][y])

\* What p puts on top of w.
Adds(w, v, p, to, type) ==
  /\ v \in Wires
  /\ \A x, y \in Peer :
       \/ v[x][y] = w[x][y]
       \/ /\ x = p /\ y \in to /\ y # p
          /\ \E m \in Envelope :
               m.type = type /\ m.sess = life[p].sess /\ v[x][y] = Append(w[x][y], m)

\* Post only appends, from p to some of `to'.
LEMMA PostOK ==
  ASSUME NEW w \in Wires, NEW p \in Peer, NEW to, NEW n \in Int,
         NEW type \in {"join", "leave", "offer"}, NEW tracks \in SUBSET Track,
         life \in [Peer -> Life]
  PROVE  Adds(w, Post(w, p, to, n, type, tracks), p, to, type)
<1> DEFINE m == [type |-> type, seq |-> n, sess |-> life[p].sess, tracks |-> tracks]
           v == Post(w, p, to, n, type, tracks)
<1>1. m \in Envelope /\ m.type = type /\ m.sess = life[p].sess
  <2>1. life[p].sess \in Int
    BY LifeFields
  <2> QED
    BY <2>1 DEF Envelope
<1> HIDE DEF m
<1>2. \A x \in Peer : w[x] \in [Peer -> Seq(Envelope)]
  BY DEF Wires
<1>3. \A x, y \in Peer : w[x][y] \in Seq(Envelope) /\ Append(w[x][y], m) \in Seq(Envelope)
  BY <1>1, <1>2
<1>4. v = [w EXCEPT ![p] = [q \in Peer |->
             IF q \in to \ {p} /\ life[p].bound /\ life[q].bound
             THEN Append(w[p][q], m) ELSE w[p][q]]]
  BY DEF Post, m
<1> HIDE DEF v
<1>5. v \in Wires
  BY <1>3, <1>4 DEF Wires
<1>6. ASSUME NEW x \in Peer, NEW y \in Peer
      PROVE  v[x][y] = w[x][y] \/ (x = p /\ y \in to /\ y # p /\ v[x][y] = Append(w[x][y], m))
  BY <1>2, <1>4 DEF Wires
<1>7. Adds(w, v, p, to, type)
  BY <1>1, <1>5, <1>6 DEF Adds
<1> QED
  BY <1>7 DEF v

LEMMA QuietOK ==
  ASSUME NEW w \in Wires, NEW p, NEW to, NEW type
  PROVE  Adds(w, w, p, to, type)
BY DEF Adds

\* Unsubscribing and taking an envelope only shorten the wires.
LEMMA ShrinksOK ==
  ASSUME wire \in Wires, NEW p \in Peer, NEW q \in Peer
  PROVE  /\ Shrinks(wire, wire) /\ Shrinks(wire, Unsubscribed(p))
         /\ wire[q][p] # <<>> => Shrinks(wire, Pop(q, p)) /\ Pop(q, p)[q][p] = Tail(wire[q][p])
<1>1. \A x \in Peer : wire[x] \in [Peer -> Seq(Envelope)]
  BY DEF Wires
<1>2. Shrinks(wire, wire)
  BY DEF Shrinks, Shrunk
<1>3. Shrinks(wire, Unsubscribed(p))
  <2>1. Unsubscribed(p) = [x \in Peer |-> [wire[x] EXCEPT ![p] = <<>>]]
    BY DEF Unsubscribed
  <2>2. <<>> \in Seq(Envelope)
    OBVIOUS
  <2>3. Unsubscribed(p) \in Wires
    BY <1>1, <2>1, <2>2 DEF Wires
  <2>4. \A x, y \in Peer : Unsubscribed(p)[x][y] = IF y = p THEN <<>> ELSE wire[x][y]
    BY <1>1, <2>1
  <2> QED
    BY <2>3, <2>4 DEF Shrinks, Shrunk
<1>4. ASSUME wire[q][p] # <<>> PROVE Shrinks(wire, Pop(q, p)) /\ Pop(q, p)[q][p] = Tail(wire[q][p])
  <2>1. Tail(wire[q][p]) \in Seq(Envelope)
    BY <1>1, <1>4
  <2>2. Pop(q, p) = [wire EXCEPT ![q] = [wire[q] EXCEPT ![p] = Tail(wire[q][p])]]
    BY <1>1 DEF Pop, Wires
  <2>3. Pop(q, p) \in Wires
    BY <1>1, <2>1, <2>2 DEF Wires
  <2>4. \A x, y \in Peer :
          Pop(q, p)[x][y] = IF x = q /\ y = p THEN Tail(wire[q][p]) ELSE wire[x][y]
    BY <1>1, <2>2 DEF Wires
  <2> QED
    BY <1>4, <2>3, <2>4 DEF Shrinks, Shrunk
<1> QED
  BY <1>2, <1>3, <1>4

-----------------------------------------------------------------------------
(* The mesh of one peer.                                                   *)

\* Nothing of r's mesh changed.
Same(r) ==
  /\ remotes'[r] = remotes[r] /\ pubs'[r] = pubs[r] /\ peers'[r] = peers[r]
  /\ open'[r] = open[r] /\ sent'[r] = sent[r] /\ visited'[r] = visited[r]
  /\ tasks'[r] = tasks[r] /\ crossed'[r] = crossed[r]
  /\ life'[r].mediaClosed = life[r].mediaClosed

\* A mesh that nothing changed stays right.
LEMMA SameMesh ==
  ASSUME NEW r \in Peer, MeshOK(r), Same(r)
  PROVE  MeshOK(r)'
BY DEF MeshOK, Same, PublishOK, PairOK, Making, Exact, Carried, Makes

\* Creating(p) are the ids some call of p makes a connection with.
LEMMA CreatingIff ==
  ASSUME NEW p \in Peer, NEW q
  PROVE  q \in Creating(p) <=> \E t \in tasks[p] : Makes(t, q)
BY DEF Creating, Makes

\* The loop of a publish() that its call goes back to.
Looping(p, t) == [t EXCEPT !.who = p, !.at = "loop", !.tracks = {}]

\* ensurePeer() hands out the stored connection, which carries `base'.
LEMMA UseMesh ==
  ASSUME MeshTypes, NEW p \in Peer, MeshOK(p), NEW t \in Call, NEW base \in SUBSET Track,
         NEW w, UsePeer(p, t, w, base),
         peers' = [peers EXCEPT ![p] = @ \cup {t.who}],
         UNCHANGED <<remotes, pubs, open, crossed, gone>>,
         life'[p].mediaClosed = life[p].mediaClosed,
         t.why \in Track =>
           /\ \A u \in tasks[p] : u.why = t.why => u = t \/ u = Looping(p, t)
           /\ t.why \notin pubs[p],
         t.who \notin crossed[p] =>
           /\ t.who \in remotes[p] /\ open[p][t.who] = 1 /\ ~life[p].mediaClosed
           /\ base = Carried(p, t.who)
           /\ \A u \in tasks[p] : Makes(u, t.who) => u = t
  PROVE  MeshTypes' /\ MeshOK(p)'
<1> DEFINE q == t.who
           now == IF t.why \in Track THEN base \cup {t.why} ELSE base
<1>1. q \in Peer /\ Looping(p, t) \in Call /\ Looping(p, t).who = p /\ Looping(p, t).at = "loop"
      /\ Looping(p, t).why = t.why /\ Looping(p, t).tracks = {}
  BY DEF Call, Looping
<1>2. now \in SUBSET Track
  OBVIOUS
<1>3. /\ sent' = [sent EXCEPT ![p][q] = now]
      /\ visited' = (IF t.why \in Track THEN [visited EXCEPT ![p][t.why] = @ \cup {q}] ELSE visited)
      /\ tasks' = [tasks EXCEPT ![p] = IF t.why \in Track THEN (@ \ {t}) \cup {Looping(p, t)} ELSE @ \ {t}]
  BY DEF UsePeer, Looping, MeshTypes
<1> HIDE DEF now
<1>4. sent' \in [Peer -> [Peer -> SUBSET Track]] /\ sent'[p][q] = now
      /\ \A o \in Peer \ {q} : sent'[p][o] = sent[p][o]
  BY <1>1, <1>2, <1>3 DEF MeshTypes
<1>5. /\ visited' \in [Peer -> [Track -> SUBSET Peer]]
      /\ \A k \in Track : visited'[p][k] = IF k = t.why THEN visited[p][k] \cup {q} ELSE visited[p][k]
  <2>1. CASE t.why \in Track
    <3>1. visited' = [visited EXCEPT ![p][t.why] = @ \cup {q}]
      BY <1>3, <2>1
    <3>2. visited[p] \in [Track -> SUBSET Peer] /\ visited[p][t.why] \cup {q} \in SUBSET Peer
      BY <1>1, <2>1 DEF MeshTypes
    <3>3. visited'[p] = [visited[p] EXCEPT ![t.why] = @ \cup {q}]
      BY <3>1 DEF MeshTypes
    <3> QED
      BY <2>1, <3>1, <3>2, <3>3 DEF MeshTypes
  <2>2. CASE t.why \notin Track
    BY <1>3, <2>2 DEF MeshTypes
  <2> QED
    BY <2>1, <2>2
<1>6. /\ tasks' \in [Peer -> SUBSET Call]
      /\ \A r \in Peer : \A u \in tasks'[r] :
           u \in tasks[r] \/ (r = p /\ u = Looping(p, t) /\ t.why \in Track)
      /\ \A u \in tasks[p] : u \in tasks'[p] \/ u = t
      /\ t \in tasks'[p] => t = Looping(p, t)
  <2> DEFINE x == Looping(p, t)
  <2> HIDE DEF x
  <2>1. CASE t.why \in Track
    <3>1. tasks' = [tasks EXCEPT ![p] = (@ \ {t}) \cup {x}] /\ x \in Call
      BY <1>1, <1>3, <2>1 DEF x
    <3>2. tasks' \in [Peer -> SUBSET Call] /\ tasks'[p] = (tasks[p] \ {t}) \cup {x}
          /\ \A r \in Peer \ {p} : tasks'[r] = tasks[r]
      BY <3>1 DEF MeshTypes
    <3> QED
      BY <2>1, <3>2 DEF x
  <2>2. CASE t.why \notin Track
    <3>1. tasks' = [tasks EXCEPT ![p] = @ \ {t}]
      BY <1>3, <2>2
    <3>2. tasks' \in [Peer -> SUBSET Call] /\ tasks'[p] = tasks[p] \ {t}
          /\ \A r \in Peer \ {p} : tasks'[r] = tasks[r]
      BY <3>1 DEF MeshTypes
    <3> QED
      BY <2>2, <3>2
  <2> QED
    BY <2>1, <2>2
<1>7. /\ peers' \in [Peer -> SUBSET Peer] /\ peers'[p] = peers[p] \cup {q}
  BY <1>1 DEF MeshTypes
<1>8. MeshTypes'
  <2>1. \A r \in Peer : \A u \in tasks'[r] : Placed(r, u)
    BY <1>1, <1>6 DEF MeshTypes, Placed
  <2> QED
    BY <1>4, <1>5, <1>6, <1>7, <2>1 DEF MeshTypes
<1>9. PublishOK(p)'
  <2>1. ASSUME NEW k \in Track, NEW u \in tasks'[p], NEW v \in tasks'[p], u.why = k, v.why = k
        PROVE  u = v
    <3>1. CASE k = t.why
      <4>1. \A x \in tasks'[p] : x.why = k => x = Looping(p, t)
        BY <1>6, <3>1
      <4> QED
        BY <2>1, <4>1
    <3>2. CASE k # t.why
      BY <1>1, <1>6, <2>1, <3>2 DEF MeshOK, PublishOK
    <3> QED
      BY <3>1, <3>2
  <2>2. ASSUME NEW k \in Track, k \in pubs[p]
        PROVE  visited'[p][k] = {} /\ \A u \in tasks'[p] : u.why # k
    <3>1. k # t.why /\ visited[p][k] = {} /\ \A u \in tasks[p] : u.why # k
      BY <2>2 DEF MeshOK, PublishOK
    <3> QED
      BY <1>1, <1>5, <1>6, <3>1
  <2> QED
    BY <2>1, <2>2 DEF PublishOK
<1>10. ASSUME NEW o \in Peer \ crossed[p] PROVE PairOK(p, o)'
  <2>1. \A u \in tasks'[p] : Makes(u, o) => u \in tasks[p]
    BY <1>1, <1>6 DEF Makes
  <2>2. CASE o = q
    <3>1. \A u \in tasks'[p] : ~Makes(u, o)
      BY <1>1, <1>6, <2>1, <2>2 DEF Makes
    <3>2. Carried(p, o)' = now
      BY <1>5, <2>2 DEF Carried, now
    <3>3. Exact(p, o)'
      BY <1>4, <1>7, <2>2, <3>2 DEF Exact
    <3> QED
      BY <3>1, <3>3 DEF PairOK
  <2>3. CASE o # q
    <3>1. \A u \in tasks[p] : Makes(u, o) => u \in tasks'[p]
      BY <1>6, <2>3 DEF Makes
    <3>2. \A k \in Track : o \in visited'[p][k] <=> o \in visited[p][k]
      BY <1>5, <2>3
    <3>3. Carried(p, o)' = Carried(p, o)
      BY <3>2 DEF Carried
    <3>4. PairOK(p, o)
      BY DEF MeshOK
    <3>5. Exact(p, o) => Exact(p, o)'
      BY <1>4, <1>7, <2>3, <3>2, <3>3 DEF Exact
    <3>6. ASSUME NEW u \in tasks[p], Making(p, o, u) PROVE Making(p, o, u)'
      BY <1>7, <2>1, <2>3, <3>2, <3>6 DEF Making
    <3> QED
      BY <2>1, <3>1, <3>4, <3>5, <3>6 DEF PairOK
  <2> QED
    BY <2>2, <2>3
<1> QED
  BY <1>8, <1>9, <1>10 DEF MeshOK

\* A call that waits for the ICE servers.
Icing(t) == [t EXCEPT !.at = "ice"]

\* ensurePeer(): the call `t', which goes on from `old', uses the stored
\* connection or waits for one of its own.
LEMMA EnsureMesh ==
  ASSUME MeshTypes, NEW p \in Peer, MeshOK(p), NEW old, NEW t \in Call, NEW w,
         EnsurePeer(p, old, t, w),
         UNCHANGED <<pubs, gone>>, life'[p].mediaClosed = life[p].mediaClosed,
         \A x : Makes(old, x) => x = t.who,
         t.why \in Track =>
           /\ \A u \in tasks[p] : u.why = t.why => u = old /\ old = Looping(p, t)
           /\ t.why \notin pubs[p]
  PROVE  MeshTypes' /\ MeshOK(p)'
<1> DEFINE q == t.who
<1>1. q \in Peer
  BY DEF Call
<1>2. CASE q \in peers[p]
  <2>1. UsePeer(p, t, w, sent[p][q]) /\ UNCHANGED <<remotes, peers, open, crossed>>
    BY <1>2 DEF EnsurePeer
  <2>2. sent[p][q] \in SUBSET Track
    BY <1>1 DEF MeshTypes
  <2>3. peers' = [peers EXCEPT ![p] = @ \cup {t.who}]
    BY <1>2, <2>1 DEF MeshTypes
  <2>4. q \notin crossed[p] =>
           /\ q \in remotes[p] /\ open[p][q] = 1 /\ ~life[p].mediaClosed
           /\ sent[p][q] = Carried(p, q)
           /\ \A u \in tasks[p] : Makes(u, q) => u = t
    <3> SUFFICES ASSUME q \notin crossed[p]
                 PROVE  /\ q \in remotes[p] /\ open[p][q] = 1 /\ ~life[p].mediaClosed
                        /\ sent[p][q] = Carried(p, q)
                        /\ \A u \in tasks[p] : Makes(u, q) => u = t
      OBVIOUS
    <3>1. PairOK(p, q)
      BY <1>1 DEF MeshOK
    <3>2. \A u \in tasks[p] : ~Makes(u, q)
      BY <1>2, <3>1 DEF PairOK, Making
    <3> QED
      BY <1>2, <3>1, <3>2 DEF PairOK, Exact
  <2>5. t.why \in Track =>
           /\ \A u \in tasks[p] : u.why = t.why => u = t \/ u = Looping(p, t)
           /\ t.why \notin pubs[p]
    OBVIOUS
  <2> HIDE DEF q
  <2> QED
    BY <2>1, <2>2, <2>3, <2>4, <2>5, UseMesh DEF q
<1>3. CASE q \notin peers[p] /\ life[p].mediaClosed
  <2>1. /\ tasks' = [tasks EXCEPT ![p] = @ \ {old}]
        /\ UNCHANGED <<remotes, crossed, peers, open, sent, visited>>
    BY <1>3 DEF EnsurePeer
  <2>2. tasks' \in [Peer -> SUBSET Call] /\ tasks'[p] = tasks[p] \ {old}
        /\ \A r \in Peer \ {p} : tasks'[r] = tasks[r]
    BY <2>1 DEF MeshTypes
  <2>3. MeshTypes'
    BY <2>1, <2>2 DEF MeshTypes
  <2>4. PublishOK(p)'
    BY <2>1, <2>2 DEF MeshOK, PublishOK
  <2>5. ASSUME NEW o \in Peer \ crossed[p] PROVE PairOK(p, o)'
    <3>1. PairOK(p, o)
      BY DEF MeshOK
    <3>2. \A u \in tasks[p] : ~Makes(u, o)
      BY <1>3, <3>1 DEF PairOK, Making
    <3>3. Exact(p, o)'
      BY <2>1, <3>1, <3>2 DEF PairOK, Exact, Carried
    <3>4. \A u \in tasks'[p] : ~Makes(u, o)
      BY <2>2, <3>2
    <3> QED
      BY <3>3, <3>4 DEF PairOK
  <2> QED
    BY <2>1, <2>3, <2>4, <2>5 DEF MeshOK
<1>4. CASE q \notin peers[p] /\ ~life[p].mediaClosed
  <2>1. /\ tasks' = [tasks EXCEPT ![p] = (@ \ {old}) \cup {Icing(t)}]
        /\ remotes' = [remotes EXCEPT ![p] = @ \cup {q}]
        /\ crossed' = (IF q \in Creating(p) THEN [crossed EXCEPT ![p] = @ \cup {q}] ELSE crossed)
        /\ UNCHANGED <<peers, open, sent, visited>>
    BY <1>4 DEF EnsurePeer, Icing
  <2>2. Icing(t) \in Call /\ Icing(t).who = q /\ Icing(t).why = t.why /\ Icing(t).at = "ice"
    BY DEF Icing, Call
  <2> DEFINE x == Icing(t)
  <2> HIDE DEF x
  <2>3. tasks' \in [Peer -> SUBSET Call] /\ tasks'[p] = (tasks[p] \ {old}) \cup {x}
        /\ \A r \in Peer \ {p} : tasks'[r] = tasks[r]
    <3>1. tasks' = [tasks EXCEPT ![p] = (@ \ {old}) \cup {x}] /\ x \in Call
      BY <2>1, <2>2 DEF x
    <3> QED
      BY <3>1 DEF MeshTypes
  <2>4. remotes' \in [Peer -> SUBSET Peer] /\ remotes'[p] = remotes[p] \cup {q}
    BY <1>1, <2>1 DEF MeshTypes
  <2>5. crossed' \in [Peer -> SUBSET Peer] /\ crossed[p] \subseteq crossed'[p]
        /\ (q \in Creating(p) => q \in crossed'[p])
    BY <1>1, <2>1 DEF MeshTypes
  <2>6. MeshTypes'
    <3>1. \A r \in Peer : \A u \in tasks'[r] : Placed(r, u)
      <4>1. \A r \in Peer : \A u \in tasks'[r] : u \in tasks[r] \/ u.at = "ice"
        BY <2>2, <2>3 DEF x
      <4> QED
        BY <4>1 DEF MeshTypes, Placed
    <3> QED
      BY <2>1, <2>3, <2>4, <2>5, <3>1 DEF MeshTypes
  <2>7. PublishOK(p)'
    <3>1. ASSUME NEW k \in Track, NEW u \in tasks'[p], NEW v \in tasks'[p], u.why = k, v.why = k
          PROVE  u = v
      <4>1. CASE k = t.why
        <5>0. \A y \in tasks[p] : y.why = k => y = old
          BY <4>1
        <5>1. \A y \in tasks'[p] : y.why = k => y = x
          BY <2>3, <5>0
        <5> QED
          BY <3>1, <5>1
      <4>2. CASE k # t.why
        BY <2>2, <2>3, <3>1, <4>2 DEF MeshOK, PublishOK, x
      <4> QED
        BY <4>1, <4>2
    <3>2. ASSUME NEW k \in Track, k \in pubs[p]
          PROVE  visited'[p][k] = {} /\ \A u \in tasks'[p] : u.why # k
      <4>1. k # t.why /\ visited[p][k] = {} /\ \A u \in tasks[p] : u.why # k
        BY <3>2 DEF MeshOK, PublishOK
      <4> QED
        BY <2>1, <2>2, <2>3, <4>1 DEF x
    <3> QED
      BY <3>1, <3>2 DEF PublishOK
  <2>8. ASSUME NEW o \in Peer \ crossed'[p] PROVE PairOK(p, o)'
    <3>1. PairOK(p, o)
      BY <2>5 DEF MeshOK
    <3>2. CASE o = q
      <4>1. \A u \in tasks[p] : ~Makes(u, o)
        BY <2>5, <3>2, CreatingIff
      <4>2. Exact(p, o)
        BY <3>1, <4>1 DEF PairOK
      <4>3. \A u \in tasks'[p] : Makes(u, o) => u = x
        BY <2>3, <4>1
      <4>4. Making(p, o, x)'
        <5>1. ~life'[p].mediaClosed /\ o \in remotes'[p] /\ o \notin peers'[p]
          BY <1>4, <2>1, <2>4, <3>2
        <5>2. (\A k \in Track : o \notin visited'[p][k]) /\ open'[p][o] = 0
          BY <1>4, <2>1, <3>2, <4>2 DEF Exact
        <5>3. x.at = "ice"
          BY <2>2 DEF x
        <5> QED
          BY <4>3, <5>1, <5>2, <5>3 DEF Making
      <4>5. x \in tasks'[p] /\ Makes(x, o)
        BY <2>2, <2>3, <3>2 DEF x, Makes
      <4> QED
        BY <4>3, <4>4, <4>5 DEF PairOK
    <3>3. CASE o # q
      <4>1. \A u : Makes(u, o) => (u \in tasks'[p] <=> u \in tasks[p])
        BY <2>2, <2>3, <3>3 DEF Makes, x
      <4>2. Exact(p, o) => Exact(p, o)'
        BY <2>1, <2>4 DEF Exact, Carried
      <4>3. ASSUME NEW u, Making(p, o, u) PROVE Making(p, o, u)'
        BY <2>1, <2>4, <4>1, <4>3 DEF Making
      <4> QED
        BY <3>1, <4>1, <4>2, <4>3 DEF PairOK
    <3> QED
      BY <3>2, <3>3
  <2> QED
    BY <2>6, <2>7, <2>8 DEF MeshOK
<1> QED
  BY <1>2, <1>3, <1>4

-----------------------------------------------------------------------------
(* Every handler keeps the mesh of the peer that runs it.                  *)

LEMMA StoreMesh ==
  ASSUME MeshTypes, NEW p \in Peer, MeshOK(p), NEW t \in tasks[p], StorePeer(p, t)
  PROVE  MeshTypes' /\ MeshOK(p)'
<1>1. t \in Call /\ t.who \in Peer /\ t.tracks \in SUBSET Track
  <2>1. t \in Call
    BY DEF MeshTypes
  <2> QED
    BY <2>1 DEF Call
<1>2. /\ UsePeer(p, t, wire, t.tracks) /\ peers' = [peers EXCEPT ![p] = @ \cup {t.who}]
      /\ UNCHANGED <<life, remotes, pubs, open, crossed, gone>> /\ t.at = "setup"
  BY DEF StorePeer, hist
<1>3. t.why \in Track =>
           /\ \A u \in tasks[p] : u.why = t.why => u = t \/ u = Looping(p, t)
           /\ t.why \notin pubs[p]
  BY DEF MeshOK, PublishOK
<1>4. t.who \notin crossed[p] =>
           /\ t.who \in remotes[p] /\ open[p][t.who] = 1 /\ ~life[p].mediaClosed
           /\ t.tracks = Carried(p, t.who)
           /\ \A u \in tasks[p] : Makes(u, t.who) => u = t
  <2> SUFFICES ASSUME t.who \notin crossed[p]
               PROVE  /\ t.who \in remotes[p] /\ open[p][t.who] = 1 /\ ~life[p].mediaClosed
                      /\ t.tracks = Carried(p, t.who)
                      /\ \A u \in tasks[p] : Makes(u, t.who) => u = t
    OBVIOUS
  <2>1. Making(p, t.who, t)
    BY <1>1, <1>2 DEF MeshOK, PairOK, Makes
  <2> QED
    BY <1>2, <2>1 DEF Making, Carried
<1> QED
  BY <1>1, <1>2, <1>3, <1>4, UseMesh

LEMMA CallMesh ==
  ASSUME MeshTypes, NEW p \in Peer, MeshOK(p), NEW t \in tasks[p], CallNewcomer(p, t)
  PROVE  MeshTypes' /\ MeshOK(p)'
<1>1. t \in Call /\ t.who \in Peer
  BY DEF MeshTypes, Call
<1>2. UNCHANGED <<life, pubs, gone>> /\ t.at = "reply"
  BY DEF CallNewcomer
<1>3. CASE pubs[p] = {}
  <2>1. tasks' = [tasks EXCEPT ![p] = @ \ {t}] /\ UNCHANGED <<remotes, peers, open, sent, visited, crossed>>
    BY <1>3 DEF CallNewcomer
  <2>2. tasks' \in [Peer -> SUBSET Call] /\ tasks'[p] = tasks[p] \ {t}
        /\ \A r \in Peer \ {p} : tasks'[r] = tasks[r]
    BY <2>1 DEF MeshTypes
  <2>3. MeshTypes'
    BY <1>2, <2>1, <2>2 DEF MeshTypes
  <2>4. PublishOK(p)'
    BY <1>2, <2>1, <2>2 DEF MeshOK, PublishOK
  <2>5. \A o, u : Makes(u, o) => (u \in tasks'[p] <=> u \in tasks[p])
    BY <1>2, <2>2 DEF Makes
  <2>6. ASSUME NEW o \in Peer \ crossed[p] PROVE PairOK(p, o)'
    BY <1>2, <2>1, <2>5 DEF MeshOK, PairOK, Making, Exact, Carried
  <2> QED
    BY <2>1, <2>3, <2>4, <2>6 DEF MeshOK
<1>4. CASE pubs[p] # {}
  <2>1. EnsurePeer(p, t, t, wire)
    BY <1>4 DEF CallNewcomer
  <2>2. \A x : Makes(t, x) => x = t.who
    BY DEF Makes
  <2>3. t.why \in Track =>
           /\ \A u \in tasks[p] : u.why = t.why => u = t /\ t = Looping(p, t)
           /\ t.why \notin pubs[p]
    BY <1>2, RoomAssumption DEF MeshTypes, Placed
  <2> QED
    BY <1>1, <1>2, <2>1, <2>2, <2>3, EnsureMesh
<1> QED
  BY <1>3, <1>4

LEMMA NextMesh ==
  ASSUME MeshTypes, NEW p \in Peer, MeshOK(p), NEW t \in tasks[p], PublishNext(p, t)
  PROVE  MeshTypes' /\ MeshOK(p)'
<1>1. t \in Call /\ t.at = "loop" /\ t.why \in Track /\ t.who = p /\ t.tracks = {}
  BY DEF PublishNext, MeshTypes, Placed
<1>2. PICK q \in remotes[p] \ visited[p][t.why] : EnsurePeer(p, t, [t EXCEPT !.who = q], wire)
  BY DEF PublishNext
<1> DEFINE u == [t EXCEPT !.who = q]
<1>3. q \in Peer
  BY DEF MeshTypes
<1>4. u \in Call /\ u.who = q /\ u.why = t.why
  BY <1>1, <1>3 DEF Call
<1>5. t = Looping(p, u)
  BY <1>1, <1>3 DEF Looping, Call
<1>6. UNCHANGED <<pubs, gone>> /\ life'[p].mediaClosed = life[p].mediaClosed
  BY DEF PublishNext
<1>7. \A x : Makes(t, x) => x = u.who
  BY <1>1 DEF Makes
<1>8. u.why \in Track =>
           /\ \A v \in tasks[p] : v.why = u.why => v = t /\ t = Looping(p, u)
           /\ u.why \notin pubs[p]
  BY <1>4, <1>5 DEF MeshOK, PublishOK
<1>9. EnsurePeer(p, t, u, wire)
  BY <1>2
<1> HIDE DEF u
<1> QED
  BY <1>4, <1>6, <1>7, <1>8, <1>9, EnsureMesh

LEMMA OfferMesh ==
  ASSUME MeshTypes, wire \in Wires, NEW p \in Peer, MeshOK(p), NEW q \in Peer, RemoteOffer(p, q)
  PROVE  MeshTypes' /\ MeshOK(p)'
<1> DEFINE m == Head(wire[q][p])
           t == Task(q, "offer", "ice", m.tracks, <<m.sess, m.seq>>)
<1>1. wire[q][p] # <<>> /\ UNCHANGED <<life, pubs, gone>> /\ EnsurePeer(p, t, t, Pop(q, p))
  BY DEF RemoteOffer, Accept, Accepts
<1>2. m.tracks \in SUBSET Track /\ <<m.sess, m.seq>> \in Int \X Int
  BY <1>1, HeadOK
<1> HIDE DEF m
<1>3. t \in Call /\ t.who = q /\ t.why = "offer"
  BY <1>2, TaskOK
<1>4. t.why \notin Track
  BY <1>3, RoomAssumption
<1> HIDE DEF t
<1>5. \A x : Makes(t, x) => x = t.who
  BY DEF Makes
<1> QED
  BY <1>1, <1>3, <1>4, <1>5, EnsureMesh

LEMMA BuildMesh ==
  ASSUME MeshTypes, NEW p \in Peer, MeshOK(p), NEW t \in tasks[p], BuildPeer(p, t)
  PROVE  MeshTypes' /\ MeshOK(p)'
<1> DEFINE q == t.who
<1>1. t \in Call /\ pubs[p] \in SUBSET Track
  BY DEF MeshTypes
<1> PICK x : x = [t EXCEPT !.at = "setup", !.tracks = pubs[p]]
  OBVIOUS
<1>2. q \in Peer /\ x \in Call /\ x.who = q /\ x.why = t.why /\ x.at = "setup" /\ x.tracks = pubs[p]
  BY <1>1 DEF Call
<1>3. /\ open' = [open EXCEPT ![p][q] = @ + 1] /\ tasks' = [tasks EXCEPT ![p] = (@ \ {t}) \cup {x}]
      /\ UNCHANGED <<life, remotes, pubs, peers, sent, visited, crossed, gone>> /\ t.at = "ice"
  BY DEF BuildPeer, hist
<1> HIDE DEF q
<1>4. open' \in [Peer -> [Peer -> Int]] /\ open'[p][q] = open[p][q] + 1
      /\ \A o \in Peer \ {q} : open'[p][o] = open[p][o]
  BY <1>2, <1>3 DEF MeshTypes
<1>5. tasks' \in [Peer -> SUBSET Call] /\ tasks'[p] = (tasks[p] \ {t}) \cup {x}
      /\ \A r \in Peer \ {p} : tasks'[r] = tasks[r]
  BY <1>2, <1>3 DEF MeshTypes
<1>6. MeshTypes'
  <2>1. \A r \in Peer : \A u \in tasks'[r] : u \in tasks[r] \/ u.at = "setup"
    BY <1>2, <1>5
  <2>2. \A r \in Peer : \A u \in tasks'[r] : Placed(r, u)
    BY <2>1 DEF MeshTypes, Placed
  <2> QED
    BY <1>3, <1>4, <1>5, <2>2 DEF MeshTypes
<1>7. PublishOK(p)'
  <2>1. PublishOK(p)
    BY DEF MeshOK
  <2>2. \A u \in tasks'[p] : u \in tasks[p] \/ u.why = t.why
    BY <1>2, <1>5
  <2>3. ASSUME NEW k \in Track, NEW u \in tasks'[p], NEW v \in tasks'[p], u.why = k, v.why = k
        PROVE  u = v
    <3>1. CASE k = t.why
      <4>1. \A y \in tasks[p] : y.why = k => y = t
        BY <2>1, <3>1 DEF PublishOK
      <4> QED
        BY <1>5, <2>3, <4>1
    <3>2. CASE k # t.why
      BY <1>2, <1>5, <2>1, <2>3, <3>2 DEF PublishOK
    <3> QED
      BY <3>1, <3>2
  <2> QED
    BY <1>3, <2>1, <2>2, <2>3 DEF PublishOK
<1>8. ASSUME NEW o \in Peer \ crossed[p] PROVE PairOK(p, o)'
  <2>1. PairOK(p, o)
    BY DEF MeshOK
  <2>2. CASE o = q
    <3>1. Makes(t, o) /\ Making(p, o, t)
      BY <1>3, <2>1, <2>2 DEF Makes, PairOK, q
    <3>2. \A u \in tasks'[p] : Makes(u, o) => u = x
      BY <1>5, <3>1 DEF Making
    <3>3. Making(p, o, x)'
      BY <1>2, <1>3, <1>4, <2>2, <3>1, <3>2 DEF Making
    <3>4. x \in tasks'[p] /\ Makes(x, o)
      BY <1>2, <1>5, <2>2 DEF Makes
    <3> QED
      BY <3>2, <3>3, <3>4 DEF PairOK
  <2>3. CASE o # q
    <3>1. \A u : Makes(u, o) => (u \in tasks'[p] <=> u \in tasks[p])
      BY <1>2, <1>5, <2>3 DEF Makes, q
    <3>2. Exact(p, o) => Exact(p, o)'
      BY <1>3, <1>4, <2>3 DEF Exact, Carried
    <3>3. ASSUME NEW u, Making(p, o, u) PROVE Making(p, o, u)'
      BY <1>3, <1>4, <2>3, <3>1, <3>3 DEF Making
    <3> QED
      BY <2>1, <3>1, <3>2, <3>3 DEF PairOK
  <2> QED
    BY <2>2, <2>3
<1> QED
  BY <1>3, <1>6, <1>7, <1>8 DEF MeshOK

\* A participant nothing is set up for is listed, by a join or by the calls it
\* may bring, and a publish() begins.
LEMMA JoinMesh ==
  ASSUME MeshTypes, wire \in Wires, NEW p \in Peer, MeshOK(p), NEW q \in Peer, RemoteJoin(p, q)
  PROVE  MeshTypes' /\ MeshOK(p)'
<1> DEFINE m == Head(wire[q][p])
           x == Task(q, "join", "reply", {}, <<m.sess, m.seq>>)
<1>1. wire[q][p] # <<>> /\ UNCHANGED <<life, pubs, peers, open, sent, visited, gone>>
  BY DEF RemoteJoin, Accept, Accepts
<1>2. CASE q \in remotes[p]
  <2>1. UNCHANGED <<remotes, tasks, crossed>>
    BY <1>2 DEF RemoteJoin
  <2> QED
    BY <1>1, <2>1, SameMesh DEF MeshTypes, Same
<1>3. CASE q \notin remotes[p]
  <2>1. /\ remotes' = [remotes EXCEPT ![p] = @ \cup {q}]
        /\ tasks' = [tasks EXCEPT ![p] = @ \cup {x}]
        /\ crossed' = IF life[p].closed THEN [crossed EXCEPT ![p] = @ \cup {q}] ELSE crossed
    BY <1>3 DEF RemoteJoin
  <2>2. <<m.sess, m.seq>> \in Int \X Int
    BY <1>1, HeadOK
  <2> HIDE DEF m
  <2>3. x \in Call /\ x.who = q /\ x.why = "join" /\ x.at = "reply"
    BY <2>2, TaskOK
  <2> HIDE DEF x
  <2>4. tasks' \in [Peer -> SUBSET Call] /\ tasks'[p] = tasks[p] \cup {x}
        /\ \A r \in Peer \ {p} : tasks'[r] = tasks[r]
    BY <2>1, <2>3 DEF MeshTypes
  <2>5. remotes' \in [Peer -> SUBSET Peer] /\ remotes'[p] = remotes[p] \cup {q}
        /\ crossed' \in [Peer -> SUBSET Peer] /\ crossed[p] \subseteq crossed'[p]
    BY <2>1 DEF MeshTypes
  <2>6. MeshTypes'
    <3>1. \A r \in Peer : \A u \in tasks'[r] : u \in tasks[r] \/ (u.at = "reply" /\ u.why = "join")
      BY <2>3, <2>4
    <3>2. \A r \in Peer : \A u \in tasks'[r] : Placed(r, u)
      BY <3>1 DEF MeshTypes, Placed
    <3> QED
      BY <1>1, <2>4, <2>5, <3>2 DEF MeshTypes
  <2>7. PublishOK(p)'
    <3>1. x.why \notin Track
      BY <2>3, RoomAssumption
    <3> QED
      BY <1>1, <2>4, <3>1 DEF MeshOK, PublishOK
  <2>8. \A o, u : Makes(u, o) => (u \in tasks'[p] <=> u \in tasks[p])
    BY <2>3, <2>4 DEF Makes
  <2>9. ASSUME NEW o \in Peer \ crossed'[p] PROVE PairOK(p, o)'
    <3>1. PairOK(p, o)
      BY <2>5 DEF MeshOK
    <3>2. Exact(p, o) => Exact(p, o)'
      BY <1>1, <2>5 DEF Exact, Carried
    <3>3. ASSUME NEW u, Making(p, o, u) PROVE Making(p, o, u)'
      BY <1>1, <2>5, <2>8, <3>3 DEF Making
    <3> QED
      BY <2>8, <3>1, <3>2, <3>3 DEF PairOK
  <2> QED
    BY <2>6, <2>7, <2>9 DEF MeshOK
<1> QED
  BY <1>2, <1>3

LEMMA PeerLeaveMesh ==
  ASSUME Types, NEW p \in Peer, MeshOK(p), NEW q \in Peer, RemoteLeave(p, q)
  PROVE  MeshTypes' /\ MeshOK(p)'
<1>1. /\ remotes' = [remotes EXCEPT ![p] = @ \ {q}]
      /\ peers' = [peers EXCEPT ![p] = @ \ {q}]
      /\ open' = IF q \in peers[p] THEN [open EXCEPT ![p][q] = @ - 1] ELSE open
      /\ sent' = [sent EXCEPT ![p][q] = {}]
      /\ visited' = [visited EXCEPT ![p] = [t \in Track |-> visited[p][t] \ {q}]]
      /\ gone' = [gone EXCEPT ![p][q] = Head(wire[q][p]).sess]
      /\ crossed' = IF \E t \in tasks[p] : t.who = q
                    THEN [crossed EXCEPT ![p] = @ \cup {q}] ELSE crossed
      /\ UNCHANGED <<life, pubs, tasks>>
      /\ wire[q][p] # <<>>
  BY DEF RemoteLeave, Accept, Accepts
<1>2. Head(wire[q][p]).sess \in Int
  BY <1>1, HeadOK DEF Types, Envelope
<1>3. /\ remotes' \in [Peer -> SUBSET Peer] /\ remotes'[p] = remotes[p] \ {q}
      /\ peers' \in [Peer -> SUBSET Peer] /\ peers'[p] = peers[p] \ {q}
      /\ gone' \in [Peer -> [Peer -> Int]]
  BY <1>1, <1>2 DEF Types, MeshTypes
<1>4. /\ open' \in [Peer -> [Peer -> Int]]
      /\ open'[p][q] = IF q \in peers[p] THEN open[p][q] - 1 ELSE open[p][q]
      /\ \A o \in Peer \ {q} : open'[p][o] = open[p][o]
  BY <1>1 DEF Types, MeshTypes
<1>5. /\ sent' \in [Peer -> [Peer -> SUBSET Track]]
      /\ \A o \in Peer \ {q} : sent'[p][o] = sent[p][o]
  BY <1>1 DEF Types, MeshTypes
<1>6. /\ visited' \in [Peer -> [Track -> SUBSET Peer]]
      /\ \A k \in Track : visited'[p][k] = visited[p][k] \ {q}
  <2>1. visited \in [Peer -> [Track -> SUBSET Peer]]
    BY DEF Types, MeshTypes
  <2>2. PICK f : f = [t \in Track |-> visited[p][t] \ {q}]
    OBVIOUS
  <2>3. f \in [Track -> SUBSET Peer]
    BY <2>1, <2>2
  <2>4. visited' = [visited EXCEPT ![p] = f]
    BY <1>1, <2>2
  <2> QED
    BY <2>1, <2>2, <2>3, <2>4
<1>7. /\ crossed' \in [Peer -> SUBSET Peer] /\ crossed[p] \subseteq crossed'[p]
      /\ (\E t \in tasks[p] : t.who = q) => q \in crossed'[p]
  BY <1>1 DEF Types, MeshTypes
<1>8. MeshTypes'
  BY <1>1, <1>3, <1>4, <1>5, <1>6, <1>7 DEF Types, MeshTypes
<1>9. PublishOK(p)'
  BY <1>1, <1>6 DEF MeshOK, PublishOK
<1>10. ASSUME NEW o \in Peer \ crossed'[p] PROVE PairOK(p, o)'
  <2>1. PairOK(p, o)
    BY <1>7 DEF MeshOK
  <2>2. CASE o = q
    <3>1. \A t \in tasks[p] : ~Makes(t, o)
      BY <1>7, <2>2 DEF Makes
    <3>2. Exact(p, o)'
      BY <1>1, <1>3, <1>4, <1>6, <2>1, <2>2, <3>1 DEF PairOK, Exact
    <3> QED
      BY <1>1, <3>1, <3>2 DEF PairOK
  <2>3. CASE o # q
    <3>1. \A k \in Track : o \in visited'[p][k] <=> o \in visited[p][k]
      BY <1>6, <2>3
    <3>2. Carried(p, o)' = Carried(p, o)
      BY <1>1, <3>1 DEF Carried
    <3>3. Exact(p, o) => Exact(p, o)'
      BY <1>1, <1>3, <1>4, <1>5, <2>3, <3>1, <3>2 DEF Exact
    <3>4. ASSUME NEW u, Making(p, o, u) PROVE Making(p, o, u)'
      BY <1>1, <1>3, <1>4, <2>3, <3>1, <3>4 DEF Making
    <3> QED
      BY <1>1, <2>1, <3>3, <3>4 DEF PairOK
  <2> QED
    BY <2>2, <2>3
<1> QED
  BY <1>8, <1>9, <1>10 DEF MeshOK

LEMMA PublishMesh ==
  ASSUME MeshTypes, NEW p \in Peer, MeshOK(p), NEW k \in Track, Publish(p, k)
  PROVE  MeshTypes' /\ MeshOK(p)'
<1> DEFINE x == Task(p, k, "loop", {}, <<0, 0>>)
<1>1. /\ tasks' = [tasks EXCEPT ![p] = @ \cup {x}]
      /\ k \notin pubs[p] /\ \A u \in tasks[p] : u.why # k
      /\ UNCHANGED <<life, remotes, pubs, peers, open, sent, visited, crossed, gone>>
  BY DEF Publish, media, hist
<1>2. x \in Call /\ x.who = p /\ x.why = k /\ x.at = "loop" /\ x.tracks = {}
  BY DEF Task, Call
<1> HIDE DEF x
<1>3. tasks' \in [Peer -> SUBSET Call] /\ tasks'[p] = tasks[p] \cup {x}
      /\ \A r \in Peer \ {p} : tasks'[r] = tasks[r]
  BY <1>1, <1>2 DEF MeshTypes
<1>4. MeshTypes'
  <2>1. \A r \in Peer : \A u \in tasks'[r] : u \in tasks[r] \/ (r = p /\ u = x)
    BY <1>3
  <2>2. \A r \in Peer : \A u \in tasks'[r] : Placed(r, u)
    BY <1>2, <2>1 DEF MeshTypes, Placed
  <2> QED
    BY <1>1, <1>3, <2>2 DEF MeshTypes
<1>5. PublishOK(p)'
  BY <1>1, <1>2, <1>3 DEF MeshOK, PublishOK
<1>6. \A o, u : Makes(u, o) => (u \in tasks'[p] <=> u \in tasks[p])
  BY <1>2, <1>3 DEF Makes
<1>7. ASSUME NEW o \in Peer \ crossed[p] PROVE PairOK(p, o)'
  BY <1>1, <1>6 DEF MeshOK, PairOK, Making, Exact, Carried
<1> QED
  BY <1>1, <1>4, <1>5, <1>7 DEF MeshOK

LEMMA PublishedMesh ==
  ASSUME MeshTypes, NEW p \in Peer, MeshOK(p), NEW t \in tasks[p], PublishDone(p, t)
  PROVE  MeshTypes' /\ MeshOK(p)'
<1> DEFINE k == t.why
<1>1. t \in Call /\ t.at = "loop" /\ k \in Track
  BY DEF PublishDone, MeshTypes, Placed
<1>2. /\ remotes[p] \subseteq visited[p][k]
      /\ pubs' = [pubs EXCEPT ![p] = @ \cup {k}]
      /\ visited' = [visited EXCEPT ![p][k] = {}]
      /\ tasks' = [tasks EXCEPT ![p] = @ \ {t}]
      /\ UNCHANGED <<life, remotes, peers, open, sent, crossed, gone>>
  BY DEF PublishDone, hist
<1>3. /\ pubs' \in [Peer -> SUBSET Track] /\ pubs'[p] = pubs[p] \cup {k}
      /\ tasks' \in [Peer -> SUBSET Call] /\ tasks'[p] = tasks[p] \ {t}
      /\ \A r \in Peer \ {p} : tasks'[r] = tasks[r]
  BY <1>1, <1>2 DEF MeshTypes
<1>4. /\ visited' \in [Peer -> [Track -> SUBSET Peer]]
      /\ \A n \in Track : visited'[p][n] = IF n = k THEN {} ELSE visited[p][n]
  BY <1>1, <1>2 DEF MeshTypes
<1>5. MeshTypes'
  BY <1>2, <1>3, <1>4 DEF MeshTypes
<1>6. PublishOK(p)'
  <2>1. \A u \in tasks'[p] : u.why # k
    BY <1>1, <1>3 DEF MeshOK, PublishOK
  <2> QED
    BY <1>3, <1>4, <2>1 DEF MeshOK, PublishOK
<1>7. ASSUME NEW o \in Peer \ crossed[p] PROVE PairOK(p, o)'
  <2>1. PairOK(p, o)
    BY DEF MeshOK
  <2>2. \A u : Makes(u, o) => (u \in tasks'[p] <=> u \in tasks[p])
    BY <1>1, <1>3 DEF Makes
  <2>3. CASE \E u \in tasks[p] : Makes(u, o)
    <3>1. PICK u \in tasks[p] : Makes(u, o)
      BY <2>3
    <3>2. Making(p, o, u)
      BY <2>1, <3>1 DEF PairOK
    <3>3. o \in visited[p][k]
      BY <1>2, <3>2 DEF Making
    <3> QED
      BY <1>1, <3>2, <3>3 DEF Making
  <2>4. CASE \A u \in tasks[p] : ~Makes(u, o)
    <3>1. Exact(p, o)
      BY <2>1, <2>4 DEF PairOK
    <3>2. o \in remotes[p] => Carried(p, o)' = Carried(p, o)
      <4>1. o \in remotes[p] => o \in visited[p][k]
        BY <1>2
      <4> QED
        BY <1>1, <1>3, <1>4, <4>1 DEF Carried
    <3>3. Exact(p, o)'
      BY <1>2, <1>4, <3>1, <3>2 DEF Exact
    <3> QED
      BY <2>2, <2>4, <3>3 DEF PairOK
  <2> QED
    BY <2>3, <2>4
<1> QED
  BY <1>2, <1>5, <1>6, <1>7 DEF MeshOK

LEMMA UnpublishMesh ==
  ASSUME MeshTypes, NEW p \in Peer, MeshOK(p), NEW k \in Track, Unpublish(p, k)
  PROVE  MeshTypes' /\ MeshOK(p)'
<1>1. /\ k \in pubs[p] /\ pubs' = [pubs EXCEPT ![p] = @ \ {k}]
      /\ sent' = [sent EXCEPT ![p] = [q \in Peer |-> sent[p][q] \ {k}]]
      /\ crossed' = [crossed EXCEPT ![p] = @ \cup Creating(p)]
      /\ UNCHANGED <<life, remotes, peers, open, visited, tasks, gone>>
  BY DEF Unpublish
<1>2. Creating(p) \subseteq Peer
  BY DEF Creating, MeshTypes, Call
<1>3. /\ pubs' \in [Peer -> SUBSET Track] /\ pubs'[p] = pubs[p] \ {k}
      /\ sent' \in [Peer -> [Peer -> SUBSET Track]]
      /\ \A q \in Peer : sent'[p][q] = sent[p][q] \ {k}
      /\ crossed' \in [Peer -> SUBSET Peer] /\ crossed'[p] = crossed[p] \cup Creating(p)
  BY <1>1, <1>2 DEF MeshTypes
<1>4. MeshTypes'
  BY <1>1, <1>3 DEF MeshTypes
<1>5. PublishOK(p)'
  BY <1>1, <1>3 DEF MeshOK, PublishOK
<1>6. ASSUME NEW o \in Peer \ crossed'[p] PROVE PairOK(p, o)'
  <2>1. PairOK(p, o)
    BY <1>3 DEF MeshOK
  <2>2. \A u \in tasks[p] : ~Makes(u, o)
    BY <1>3, CreatingIff
  <2>3. visited[p][k] = {}
    BY <1>1 DEF MeshOK, PublishOK
  <2>4. Carried(p, o)' = Carried(p, o) \ {k}
    BY <1>1, <1>3, <2>3 DEF Carried
  <2>5. Exact(p, o)'
    BY <1>1, <1>3, <2>1, <2>2, <2>4 DEF PairOK, Exact
  <2> QED
    BY <1>1, <2>2, <2>5 DEF PairOK
<1> QED
  BY <1>4, <1>5, <1>6 DEF MeshOK

LEMMA LeaveMesh ==
  ASSUME Types, NEW p \in Peer, MeshOK(p), Leave(p)
  PROVE  MeshTypes' /\ MeshOK(p)'
<1>1. /\ peers' = [peers EXCEPT ![p] = {}]
      /\ open' = [open EXCEPT ![p] = [q \in Peer |-> IF q \in peers[p] THEN open[p][q] - 1 ELSE open[p][q]]]
      /\ sent' = [sent EXCEPT ![p] = None]
      /\ crossed' = [crossed EXCEPT ![p] = @ \cup Creating(p)]
      /\ UNCHANGED <<remotes, pubs, visited, tasks, gone>>
  BY DEF Leave
<1>2. Creating(p) \subseteq Peer
  BY DEF Creating, Types, MeshTypes, Call
<1>3. life'[p].mediaClosed
  BY DEF Leave, Set, Types, Life
<1>4. /\ peers' \in [Peer -> SUBSET Peer] /\ peers'[p] = {}
      /\ open' \in [Peer -> [Peer -> Int]]
      /\ \A q \in Peer : open'[p][q] = IF q \in peers[p] THEN open[p][q] - 1 ELSE open[p][q]
      /\ crossed' \in [Peer -> SUBSET Peer] /\ crossed'[p] = crossed[p] \cup Creating(p)
  BY <1>1, <1>2 DEF Types, MeshTypes
<1>5. sent' \in [Peer -> [Peer -> SUBSET Track]]
  <2>1. None \in [Peer -> SUBSET Track]
    BY DEF None
  <2> QED
    BY <1>1, <2>1 DEF Types, MeshTypes
<1>6. MeshTypes'
  BY <1>1, <1>4, <1>5 DEF Types, MeshTypes
<1>7. PublishOK(p)'
  BY <1>1 DEF MeshOK, PublishOK
<1>8. ASSUME NEW o \in Peer \ crossed'[p] PROVE PairOK(p, o)'
  <2>1. PairOK(p, o)
    BY <1>4 DEF MeshOK
  <2>2. \A u \in tasks[p] : ~Makes(u, o)
    BY <1>4, CreatingIff
  <2>3. Exact(p, o)'
    BY <1>3, <1>4, <2>1, <2>2 DEF PairOK, Exact
  <2> QED
    BY <1>1, <2>2, <2>3 DEF PairOK
<1> QED
  BY <1>6, <1>7, <1>8 DEF MeshOK

LEMMA WipeMesh ==
  ASSUME MeshTypes, NEW p \in Peer, Wipe(p), crossed' = crossed
  PROVE  MeshTypes' /\ MeshOK(p)'
<1>1. /\ remotes' \in [Peer -> SUBSET Peer] /\ pubs' \in [Peer -> SUBSET Track] /\ pubs'[p] = {}
      /\ peers' \in [Peer -> SUBSET Peer] /\ peers'[p] = {}
      /\ tasks' \in [Peer -> SUBSET Call] /\ tasks'[p] = {}
      /\ \A r \in Peer \ {p} : tasks'[r] = tasks[r]
  BY DEF Wipe, MeshTypes
<1>2. /\ open' \in [Peer -> [Peer -> Int]] /\ \A q \in Peer : open'[p][q] = 0
      /\ visited' \in [Peer -> [Track -> SUBSET Peer]] /\ \A k \in Track : visited'[p][k] = {}
      /\ gone' \in [Peer -> [Peer -> Int]]
  BY DEF Wipe, MeshTypes
<1>3. sent' \in [Peer -> [Peer -> SUBSET Track]]
  <2>1. None \in [Peer -> SUBSET Track]
    BY DEF None
  <2> QED
    BY <2>1 DEF Wipe, MeshTypes
<1>4. MeshTypes'
  BY <1>1, <1>2, <1>3 DEF MeshTypes
<1>5. MeshOK(p)'
  BY <1>1, <1>2 DEF MeshOK, PublishOK, PairOK, Exact, MeshTypes
<1> QED
  BY <1>4, <1>5

-----------------------------------------------------------------------------
(* What a step of p leaves alone, and what it puts on the wires.           *)

\* A step of p changes nothing of another peer.
Apart(p) ==
  /\ seq' \in [Peer -> Int]
  /\ \A r \in Peer \ {p} : Same(r) /\ gone'[r] = gone[r] /\ life'[r] = life[r]

\* w is what is left on the wires before p sends.
Sends(p, w, to, type) == Shrinks(wire, w) /\ Adds(w, wire', p, to, type)

LEMMA SendsWires ==
  ASSUME NEW p, NEW w, NEW to, NEW type, Sends(p, w, to, type)
  PROVE  wire' \in Wires /\ w \in Wires
BY DEF Sends, Adds, Shrinks

\* A step of p that uses or makes a connection leaves the others alone and
\* offers to its peer at most.
LEMMA UseFrame ==
  ASSUME Types, NEW p \in Peer, NEW t \in Call, NEW base \in SUBSET Track, NEW w \in Wires,
         UsePeer(p, t, w, base)
  PROVE  /\ seq' \in [Peer -> Int]
         /\ \A r \in Peer \ {p} : sent'[r] = sent[r] /\ visited'[r] = visited[r] /\ tasks'[r] = tasks[r]
         /\ \A u \in tasks'[p] : u \in tasks[p] \/ u.who = p
         /\ t.why = "offer" => Adds(w, wire', p, {}, "offer")
         /\ t.why # "offer" => Adds(w, wire', p, {t.who}, "offer")
<1> DEFINE now == IF t.why \in Track THEN base \cup {t.why} ELSE base
<1>1. now \in SUBSET Track
  OBVIOUS
<1>2. /\ sent' = [sent EXCEPT ![p][t.who] = now]
      /\ visited' = (IF t.why \in Track THEN [visited EXCEPT ![p][t.why] = @ \cup {t.who}] ELSE visited)
      /\ tasks' = [tasks EXCEPT ![p] = IF t.why \in Track THEN (tasks[p] \ {t}) \cup {Looping(p, t)}
                                       ELSE tasks[p] \ {t}]
      /\ IF t.why = "offer" THEN wire' = w /\ seq' = seq
         ELSE /\ wire' = Post(w, p, {t.who}, seq[p], "offer", now)
              /\ seq' = [seq EXCEPT ![p] = @ + 1]
  BY DEF UsePeer, Looping
<1> HIDE DEF now
<1>3. \A r \in Peer \ {p} : sent'[r] = sent[r]
  BY <1>2 DEF Types, MeshTypes
<1>4. \A r \in Peer \ {p} : visited'[r] = visited[r]
  BY <1>2 DEF Types, MeshTypes
<1>5. Looping(p, t).who = p
  BY DEF Looping, Call
<1>6. PICK x : x = Looping(p, t)
  OBVIOUS
<1>7. /\ \A r \in Peer \ {p} : tasks'[r] = tasks[r]
      /\ \A u \in tasks'[p] : u \in tasks[p] \/ u = x
  BY <1>2, <1>6 DEF Types, MeshTypes
<1>8. seq' \in [Peer -> Int] /\ seq[p] \in Int
  BY <1>2 DEF Types
<1>9. t.why = "offer" => Adds(w, wire', p, {}, "offer")
  BY <1>2, QuietOK
<1>10. t.why # "offer" => Adds(w, wire', p, {t.who}, "offer")
  <2> SUFFICES ASSUME t.why # "offer" PROVE Adds(w, wire', p, {t.who}, "offer")
    OBVIOUS
  <2>1. wire' = Post(w, p, {t.who}, seq[p], "offer", now)
    BY <1>2
  <2>2. Adds(w, Post(w, p, {t.who}, seq[p], "offer", now), p, {t.who}, "offer")
    BY <1>1, <1>8, PostOK DEF Types
  <2> QED
    BY <2>1, <2>2
<1> QED
  BY <1>3, <1>4, <1>5, <1>6, <1>7, <1>8, <1>9, <1>10

LEMMA EnsureFrame ==
  ASSUME Types, NEW p \in Peer, NEW old, NEW t \in Call, NEW w \in Wires,
         EnsurePeer(p, old, t, w)
  PROVE  /\ seq' \in [Peer -> Int]
         /\ \A r \in Peer \ {p} : /\ sent'[r] = sent[r] /\ visited'[r] = visited[r] /\ tasks'[r] = tasks[r]
                                  /\ remotes'[r] = remotes[r] /\ peers'[r] = peers[r]
                                  /\ open'[r] = open[r] /\ crossed'[r] = crossed[r]
         /\ \A u \in tasks'[p] : u \in tasks[p] \/ u.who \in {p, t.who}
         /\ remotes'[p] \subseteq remotes[p] \cup {t.who}
         /\ crossed[p] \subseteq crossed'[p]
         /\ \/ Adds(w, wire', p, {}, "offer")
            \/ t.who \in peers[p] /\ Adds(w, wire', p, {t.who}, "offer")
<1> DEFINE q == t.who
<1>1. q \in Peer
  BY DEF Call
<1>2. CASE q \in peers[p]
  <2>1. UsePeer(p, t, w, sent[p][q]) /\ UNCHANGED <<remotes, peers, open, crossed>>
    BY <1>2 DEF EnsurePeer
  <2>2. sent[p][q] \in SUBSET Track
    BY <1>1 DEF Types, MeshTypes
  <2> HIDE DEF q
  <2>3. /\ seq' \in [Peer -> Int]
        /\ \A r \in Peer \ {p} : sent'[r] = sent[r] /\ visited'[r] = visited[r] /\ tasks'[r] = tasks[r]
        /\ \A u \in tasks'[p] : u \in tasks[p] \/ u.who = p
        /\ t.why = "offer" => Adds(w, wire', p, {}, "offer")
        /\ t.why # "offer" => Adds(w, wire', p, {t.who}, "offer")
    BY <2>1, <2>2, UseFrame
  <2> QED
    BY <1>2, <2>1, <2>3 DEF q
<1>3. CASE q \notin peers[p]
  <2> PICK x : x = [t EXCEPT !.at = "ice"]
    OBVIOUS
  <2>1. x.who = q
    BY DEF Call
  <2>2. /\ tasks' = [tasks EXCEPT ![p] = (tasks[p] \ {old}) \cup IF life[p].mediaClosed THEN {} ELSE {x}]
        /\ wire' = w /\ UNCHANGED <<seq, peers, open, sent, heard, visited>>
        /\ remotes' = IF life[p].mediaClosed THEN remotes ELSE [remotes EXCEPT ![p] = @ \cup {q}]
        /\ crossed' = IF q \in Creating(p) /\ ~life[p].mediaClosed
                      THEN [crossed EXCEPT ![p] = @ \cup {q}] ELSE crossed
    BY <1>3 DEF EnsurePeer
  <2>3. /\ \A r \in Peer \ {p} : tasks'[r] = tasks[r] /\ remotes'[r] = remotes[r] /\ crossed'[r] = crossed[r]
        /\ \A u \in tasks'[p] : u \in tasks[p] \/ u = x
        /\ remotes'[p] \subseteq remotes[p] \cup {q} /\ crossed[p] \subseteq crossed'[p]
    BY <2>2 DEF Types, MeshTypes
  <2>4. Adds(w, wire', p, {}, "offer") /\ seq' \in [Peer -> Int]
    BY <2>2, QuietOK DEF Types
  <2> QED
    BY <2>1, <2>2, <2>3, <2>4
<1> QED
  BY <1>2, <1>3

\* A step of join() or leave() sends the join or the leave of p, if anything.
LEMMA LivingFrame ==
  ASSUME Types, NEW p \in Peer, LifeOK(life[p]), Living(p)
  PROVE  /\ Apart(p) /\ Same(p) /\ gone'[p] = gone[p] /\ UNCHANGED <<media, tasks, hist>>
         /\ \E w \in {wire, Unsubscribed(p)} :
              \/ Sends(p, w, {}, "join")
              \/ JoinAnnounce(p) /\ Sends(p, w, Peer, "join")
              \/ LeaveAnnounce(p) /\ Sends(p, w, Peer, "leave")
<1>1. UNCHANGED <<media, tasks, hist>>
  BY DEF Living, Join, JoinTransport, JoinAnnounce, JoinDone, JoinFail, Rollback, LeaveAnnounce, LeaveTransport
<1>2. /\ life'[p].mediaClosed = life[p].mediaClosed
      /\ \A r \in Peer \ {p} : life'[r] = life[r]
  BY LivingLife, LifeType DEF Types, Continues
<1>3. Same(p) /\ gone'[p] = gone[p] /\ \A r \in Peer \ {p} : Same(r) /\ gone'[r] = gone[r]
  BY <1>1, <1>2 DEF Same, media, hist
<1>4. seq[p] \in Int /\ wire \in Wires /\ Unsubscribed(p) \in Wires
      /\ Shrinks(wire, wire) /\ Shrinks(wire, Unsubscribed(p))
  BY ShrinksOK DEF Types, Shrinks
<1>5. CASE JoinAnnounce(p)
  <2>1. wire' = Post(wire, p, Peer, seq[p], "join", {}) /\ seq' = [seq EXCEPT ![p] = @ + 1]
    BY <1>5 DEF JoinAnnounce, Emit
  <2>2. Adds(wire, wire', p, Peer, "join")
    BY <1>4, <2>1, PostOK DEF Types
  <2>3. seq' \in [Peer -> Int]
    BY <1>4, <2>1 DEF Types
  <2> QED
    BY <1>1, <1>2, <1>3, <1>4, <1>5, <2>2, <2>3 DEF Apart, Sends
<1>6. CASE LeaveAnnounce(p)
  <2>1. wire' = Post(wire, p, Peer, seq[p], "leave", {}) /\ seq' = [seq EXCEPT ![p] = @ + 1]
    BY <1>6 DEF LeaveAnnounce, Emit
  <2>2. Adds(wire, wire', p, Peer, "leave")
    BY <1>4, <2>1, PostOK DEF Types
  <2>3. seq' \in [Peer -> Int]
    BY <1>4, <2>1 DEF Types
  <2> QED
    BY <1>1, <1>2, <1>3, <1>4, <1>6, <2>2, <2>3 DEF Apart, Sends
<1>7. CASE Join(p) \/ JoinTransport(p) \/ JoinDone(p) \/ JoinFail(p) \/ Rollback(p) \/ LeaveTransport(p)
  <2>1. seq' = seq /\ wire' \in {wire, Unsubscribed(p)}
    BY <1>7 DEF Join, JoinTransport, JoinDone, JoinFail, Rollback, LeaveTransport
  <2>2. Adds(wire', wire', p, {}, "join")
    BY <1>4, <2>1, QuietOK
  <2>3. Sends(p, wire', {}, "join")
    BY <1>4, <2>1, <2>2 DEF Sends
  <2> QED
    BY <1>1, <1>2, <1>3, <2>1, <2>3 DEF Apart, Types
<1> QED
  BY <1>5, <1>6, <1>7 DEF Living

LEMMA LeaveFrame ==
  ASSUME Types, NEW p \in Peer, Leave(p)
  PROVE  /\ Apart(p) /\ Sends(p, wire, {}, "join")
         /\ UNCHANGED <<remotes, tasks, pubs, gone>> /\ crossed[p] \subseteq crossed'[p]
<1>1. /\ UNCHANGED <<seq, remotes, pubs, visited, tasks, wire, gone>>
      /\ peers' = [peers EXCEPT ![p] = {}]
      /\ open' = [open EXCEPT ![p] = [q \in Peer |-> IF q \in peers[p] THEN @[q] - 1 ELSE @[q]]]
      /\ sent' = [sent EXCEPT ![p] = None]
      /\ crossed' = [crossed EXCEPT ![p] = @ \cup Creating(p)]
  BY DEF Leave
<1>2. \A r \in Peer \ {p} : life'[r] = life[r]
  BY LifeType DEF Types
<1>3. \A r \in Peer \ {p} : /\ peers'[r] = peers[r] /\ open'[r] = open[r] /\ sent'[r] = sent[r]
                            /\ crossed'[r] = crossed[r]
  BY <1>1 DEF Types, MeshTypes
<1>4. Apart(p)
  BY <1>1, <1>2, <1>3 DEF Apart, Same, Types
<1>5. Sends(p, wire, {}, "join")
  BY <1>1, ShrinksOK, QuietOK DEF Sends, Types
<1> QED
  BY <1>1, <1>4, <1>5 DEF Types, MeshTypes

LEMMA WipeFrame ==
  ASSUME Types, NEW p \in Peer, Crash(p) \/ Reopen(p)
  PROVE  /\ Apart(p) /\ crossed' = crossed
         /\ remotes'[p] = {} /\ tasks'[p] = {} /\ pubs'[p] = {} /\ \A q \in Peer : gone'[p][q] = 0
         /\ Crash(p) => Sends(p, Unsubscribed(p), Peer, "leave")
         /\ Reopen(p) => Sends(p, Unsubscribed(p), {}, "join")
<1>1. Wipe(p) /\ crossed' = crossed
  BY DEF Crash, Reopen
<1>2. \A r \in Peer \ {p} : life'[r] = life[r]
  BY LifeType DEF Types
<1>3. \A r \in Peer \ {p} : /\ remotes'[r] = remotes[r] /\ pubs'[r] = pubs[r] /\ peers'[r] = peers[r]
                            /\ open'[r] = open[r] /\ sent'[r] = sent[r] /\ visited'[r] = visited[r]
                            /\ tasks'[r] = tasks[r] /\ gone'[r] = gone[r]
  BY <1>1 DEF Wipe, Types, MeshTypes
<1>4. seq' \in [Peer -> Int]
  BY <1>1 DEF Wipe, Types
<1>5. Apart(p)
  BY <1>1, <1>2, <1>3, <1>4 DEF Apart, Same
<1>6. remotes'[p] = {} /\ tasks'[p] = {} /\ pubs'[p] = {} /\ \A q \in Peer : gone'[p][q] = 0
  BY <1>1 DEF Wipe, Types, MeshTypes
<1>7. Shrinks(wire, Unsubscribed(p)) /\ Unsubscribed(p) \in Wires
  BY ShrinksOK DEF Types, Shrinks
<1>8. Crash(p) => Sends(p, Unsubscribed(p), Peer, "leave")
  <2>1. PICK n \in Int : n = 0
    OBVIOUS
  <2>2. Adds(Unsubscribed(p), Post(Unsubscribed(p), p, Peer, n, "leave", {}), p, Peer, "leave")
    BY <1>7, PostOK DEF Types
  <2> QED
    BY <1>7, <2>1, <2>2 DEF Sends, Crash
<1>9. Reopen(p) => Sends(p, Unsubscribed(p), {}, "join")
  BY <1>7, QuietOK DEF Sends, Reopen
<1> QED
  BY <1>1, <1>5, <1>6, <1>8, <1>9

\* The life of no Room changes in the steps below.
LEMMA StoreFrame ==
  ASSUME Types, NEW p \in Peer, NEW t \in tasks[p], StorePeer(p, t)
  PROVE  /\ Apart(p) /\ life' = life /\ UNCHANGED <<remotes, crossed, gone, pubs>>
         /\ \A u \in tasks'[p] : u \in tasks[p] \/ u.who = p
         /\ Sends(p, wire, {}, "offer") \/ Sends(p, wire, {t.who}, "offer")
<1>1. t \in Call /\ t.tracks \in SUBSET Track
  <2>1. t \in Call
    BY DEF Types, MeshTypes
  <2> QED
    BY <2>1 DEF Call
<1>2. /\ UsePeer(p, t, wire, t.tracks) /\ peers' = [peers EXCEPT ![p] = @ \cup {t.who}]
      /\ UNCHANGED <<life, remotes, pubs, open, crossed, gone>>
  BY DEF StorePeer, hist
<1>3. wire \in Wires
  BY DEF Types
<1>4. /\ seq' \in [Peer -> Int]
      /\ \A r \in Peer \ {p} : sent'[r] = sent[r] /\ visited'[r] = visited[r] /\ tasks'[r] = tasks[r]
      /\ \A u \in tasks'[p] : u \in tasks[p] \/ u.who = p
      /\ t.why = "offer" => Adds(wire, wire', p, {}, "offer")
      /\ t.why # "offer" => Adds(wire, wire', p, {t.who}, "offer")
  BY <1>1, <1>2, <1>3, UseFrame
<1>5. \A r \in Peer \ {p} : peers'[r] = peers[r]
  BY <1>2 DEF Types, MeshTypes
<1>6. Shrinks(wire, wire)
  BY <1>3, ShrinksOK
<1> QED
  BY <1>2, <1>4, <1>5, <1>6 DEF Apart, Same, Sends

LEMMA CallFrame ==
  ASSUME Types, NEW p \in Peer, NEW t \in tasks[p], CallNewcomer(p, t)
  PROVE  /\ Apart(p) /\ UNCHANGED <<life, gone, pubs>> /\ t.who \in Peer
         /\ \A u \in tasks'[p] : u \in tasks[p] \/ u.who \in {p, t.who}
         /\ remotes'[p] \subseteq remotes[p] \cup {t.who} /\ crossed[p] \subseteq crossed'[p]
         /\ \/ Sends(p, wire, {}, "offer")
            \/ t.who \in peers[p] /\ Sends(p, wire, {t.who}, "offer")
<1>1. t \in Call /\ t.who \in Peer
  BY DEF Types, MeshTypes, Call
<1>2. UNCHANGED <<life, pubs, gone>>
  BY DEF CallNewcomer
<1>3. wire \in Wires /\ Shrinks(wire, wire)
  BY ShrinksOK DEF Types
<1>4. CASE pubs[p] = {}
  <2>1. tasks' = [tasks EXCEPT ![p] = @ \ {t}]
        /\ UNCHANGED <<seq, wire, remotes, peers, open, sent, visited, crossed>>
    BY <1>4 DEF CallNewcomer
  <2>2. (\A r \in Peer \ {p} : tasks'[r] = tasks[r]) /\ tasks'[p] \subseteq tasks[p]
    BY <2>1 DEF Types, MeshTypes
  <2>3. Apart(p)
    BY <1>2, <2>1, <2>2 DEF Apart, Same, Types
  <2>4. Sends(p, wire, {}, "offer")
    BY <1>3, <2>1, QuietOK DEF Sends
  <2> QED
    BY <1>1, <1>2, <2>1, <2>2, <2>3, <2>4
<1>5. CASE pubs[p] # {}
  <2>1. EnsurePeer(p, t, t, wire)
    BY <1>5 DEF CallNewcomer
  <2> QED
    BY <1>1, <1>2, <1>3, <2>1, EnsureFrame DEF Apart, Same, Sends
<1> QED
  BY <1>4, <1>5

LEMMA NextFrame ==
  ASSUME Types, NEW p \in Peer, NEW t \in tasks[p], PublishNext(p, t)
  PROVE  \E q \in remotes[p] :
         /\ Apart(p) /\ UNCHANGED <<life, gone, pubs>>
         /\ \A u \in tasks'[p] : u \in tasks[p] \/ u.who \in {p, q}
         /\ remotes'[p] \subseteq remotes[p] \cup {q} /\ crossed[p] \subseteq crossed'[p]
         /\ \/ Sends(p, wire, {}, "offer")
            \/ q \in peers[p] /\ Sends(p, wire, {q}, "offer")
<1>1. t \in Call
  BY DEF Types, MeshTypes
<1>2. PICK q \in remotes[p] \ visited[p][t.why] : EnsurePeer(p, t, [t EXCEPT !.who = q], wire)
  BY DEF PublishNext
<1> DEFINE u == [t EXCEPT !.who = q]
<1>3. q \in Peer
  BY DEF Types, MeshTypes
<1>4. u \in Call /\ u.who = q
  BY <1>1, <1>3 DEF Call
<1>5. UNCHANGED <<life, pubs, gone>>
  BY DEF PublishNext
<1>6. EnsurePeer(p, t, u, wire)
  BY <1>2
<1>7. wire \in Wires /\ Shrinks(wire, wire)
  BY ShrinksOK DEF Types
<1> HIDE DEF u
<1>8. /\ seq' \in [Peer -> Int]
      /\ \A r \in Peer \ {p} : /\ sent'[r] = sent[r] /\ visited'[r] = visited[r] /\ tasks'[r] = tasks[r]
                                  /\ remotes'[r] = remotes[r] /\ peers'[r] = peers[r]
                                  /\ open'[r] = open[r] /\ crossed'[r] = crossed[r]
      /\ \A x \in tasks'[p] : x \in tasks[p] \/ x.who \in {p, u.who}
      /\ remotes'[p] \subseteq remotes[p] \cup {u.who}
      /\ crossed[p] \subseteq crossed'[p]
      /\ \/ Adds(wire, wire', p, {}, "offer")
         \/ u.who \in peers[p] /\ Adds(wire, wire', p, {u.who}, "offer")
  BY <1>4, <1>6, <1>7, EnsureFrame
<1> QED
  BY <1>4, <1>5, <1>7, <1>8 DEF Apart, Same, Sends

LEMMA OfferFrame ==
  ASSUME Types, NEW p \in Peer, NEW q \in Peer, RemoteOffer(p, q)
  PROVE  /\ Apart(p) /\ UNCHANGED <<life, gone, pubs>>
         /\ wire[q][p] # <<>> /\ Head(wire[q][p]).type = "offer" /\ life[p].attached > 0
         /\ \A u \in tasks'[p] : u \in tasks[p] \/ u.who \in {p, q}
         /\ remotes'[p] \subseteq remotes[p] \cup {q} /\ crossed[p] \subseteq crossed'[p]
         /\ \/ Sends(p, Pop(q, p), {}, "offer")
            \/ q \in peers[p] /\ Sends(p, Pop(q, p), {q}, "offer")
<1> DEFINE m == Head(wire[q][p])
           t == Task(q, "offer", "ice", m.tracks, <<m.sess, m.seq>>)
<1>1. /\ wire[q][p] # <<>> /\ m.type = "offer" /\ life[p].attached > 0
      /\ UNCHANGED <<life, pubs, gone>> /\ EnsurePeer(p, t, t, Pop(q, p))
  BY DEF RemoteOffer, Accept, Accepts
<1>2. m.tracks \in SUBSET Track /\ <<m.sess, m.seq>> \in Int \X Int
  BY <1>1, HeadOK DEF Types
<1>3. Pop(q, p) \in Wires /\ Shrinks(wire, Pop(q, p))
  BY <1>1, ShrinksOK DEF Types, Shrinks
<1> HIDE DEF m
<1>4. t \in Call /\ t.who = q
  BY <1>2, TaskOK
<1> HIDE DEF t
<1>5. /\ seq' \in [Peer -> Int]
      /\ \A r \in Peer \ {p} : /\ sent'[r] = sent[r] /\ visited'[r] = visited[r] /\ tasks'[r] = tasks[r]
                                  /\ remotes'[r] = remotes[r] /\ peers'[r] = peers[r]
                                  /\ open'[r] = open[r] /\ crossed'[r] = crossed[r]
      /\ \A x \in tasks'[p] : x \in tasks[p] \/ x.who \in {p, t.who}
      /\ remotes'[p] \subseteq remotes[p] \cup {t.who}
      /\ crossed[p] \subseteq crossed'[p]
      /\ \/ Adds(Pop(q, p), wire', p, {}, "offer")
         \/ t.who \in peers[p] /\ Adds(Pop(q, p), wire', p, {t.who}, "offer")
  BY <1>1, <1>3, <1>4, EnsureFrame
<1> QED
  BY <1>1, <1>3, <1>4, <1>5 DEF Apart, Same, Sends, m

LEMMA BuildFrame ==
  ASSUME Types, NEW p \in Peer, NEW t \in tasks[p], BuildPeer(p, t)
  PROVE  /\ Apart(p) /\ UNCHANGED <<life, pubs, remotes, hist>> /\ Sends(p, wire, {}, "join")
         /\ \A u \in tasks'[p] : u \in tasks[p] \/ u.who = t.who
<1> PICK x : x = [t EXCEPT !.at = "setup", !.tracks = pubs[p]]
  OBVIOUS
<1>1. x.who = t.who
  BY DEF Types, MeshTypes, Call
<1>2. /\ open' = [open EXCEPT ![p][t.who] = @ + 1] /\ tasks' = [tasks EXCEPT ![p] = (@ \ {t}) \cup {x}]
      /\ UNCHANGED <<life, seq, wire, remotes, pubs, peers, sent, visited, crossed, gone, early>>
  BY DEF BuildPeer, hist
<1>3. /\ \A r \in Peer \ {p} : open'[r] = open[r] /\ tasks'[r] = tasks[r]
      /\ \A u \in tasks'[p] : u \in tasks[p] \/ u = x
  BY <1>2 DEF Types, MeshTypes
<1>4. Sends(p, wire, {}, "join")
  BY <1>2, ShrinksOK, QuietOK DEF Sends, Types
<1> QED
  BY <1>1, <1>2, <1>3, <1>4 DEF Apart, Same, Types, hist

LEMMA PublishedFrame ==
  ASSUME Types, NEW p \in Peer, NEW t \in tasks[p], PublishDone(p, t)
  PROVE  /\ Apart(p) /\ UNCHANGED <<life, remotes, hist>> /\ Sends(p, wire, {}, "join")
         /\ tasks'[p] \subseteq tasks[p]
<1>1. /\ pubs' = [pubs EXCEPT ![p] = @ \cup {t.why}]
      /\ visited' = [visited EXCEPT ![p][t.why] = {}]
      /\ tasks' = [tasks EXCEPT ![p] = @ \ {t}]
      /\ UNCHANGED <<life, seq, wire, remotes, peers, open, sent, crossed, gone, early>>
  BY DEF PublishDone, hist
<1>2. /\ \A r \in Peer \ {p} : pubs'[r] = pubs[r] /\ visited'[r] = visited[r] /\ tasks'[r] = tasks[r]
      /\ tasks'[p] \subseteq tasks[p]
  BY <1>1 DEF Types, MeshTypes
<1>3. Sends(p, wire, {}, "join")
  BY <1>1, ShrinksOK, QuietOK DEF Sends, Types
<1> QED
  BY <1>1, <1>2, <1>3 DEF Apart, Same, Types, hist

LEMMA PublishFrame ==
  ASSUME Types, NEW p \in Peer, NEW k \in Track, Publish(p, k)
  PROVE  /\ Apart(p) /\ UNCHANGED <<life, pubs, remotes, hist>> /\ Sends(p, wire, {}, "join")
         /\ ~life[p].closed
         /\ \A u \in tasks'[p] : u \in tasks[p] \/ u.who = p
<1> PICK x : x = Task(p, k, "loop", {}, <<0, 0>>)
  OBVIOUS
<1>1. x.who = p
  BY DEF Task
<1>2. /\ tasks' = [tasks EXCEPT ![p] = @ \cup {x}] /\ ~life[p].closed
      /\ UNCHANGED <<life, seq, wire, remotes, pubs, peers, open, sent, visited, crossed, gone, early>>
  BY DEF Publish, media, hist
<1>3. /\ \A r \in Peer \ {p} : tasks'[r] = tasks[r]
      /\ \A u \in tasks'[p] : u \in tasks[p] \/ u = x
  BY <1>2 DEF Types, MeshTypes
<1>4. Sends(p, wire, {}, "join")
  BY <1>2, ShrinksOK, QuietOK DEF Sends, Types
<1> QED
  BY <1>1, <1>2, <1>3, <1>4 DEF Apart, Same, Types, hist

LEMMA UnpublishFrame ==
  ASSUME Types, NEW p \in Peer, NEW k \in Track, Unpublish(p, k)
  PROVE  /\ Apart(p) /\ UNCHANGED <<life, remotes, tasks, gone>> /\ pubs[p] # {}
         /\ pubs'[p] \subseteq pubs[p] /\ crossed[p] \subseteq crossed'[p]
         /\ Sends(p, wire, peers[p], "offer")
<1>1. /\ k \in pubs[p] /\ pubs' = [pubs EXCEPT ![p] = @ \ {k}]
      /\ sent' = [sent EXCEPT ![p] = [q \in Peer |-> sent[p][q] \ {k}]]
      /\ crossed' = [crossed EXCEPT ![p] = @ \cup Creating(p)]
      /\ wire' = Post(wire, p, peers[p], seq[p], "offer", pubs[p] \ {k})
      /\ seq' = [seq EXCEPT ![p] = @ + 1]
      /\ UNCHANGED <<life, remotes, peers, open, visited, tasks, gone>>
  BY DEF Unpublish
<1>2. /\ \A r \in Peer \ {p} : pubs'[r] = pubs[r] /\ sent'[r] = sent[r] /\ crossed'[r] = crossed[r]
      /\ pubs'[p] \subseteq pubs[p] /\ crossed[p] \subseteq crossed'[p]
      /\ seq' \in [Peer -> Int] /\ seq[p] \in Int /\ pubs[p] \ {k} \in SUBSET Track
  BY <1>1 DEF Types, MeshTypes
<1>3. Adds(wire, Post(wire, p, peers[p], seq[p], "offer", pubs[p] \ {k}), p, peers[p], "offer")
  BY <1>2, PostOK DEF Types
<1>4. Sends(p, wire, peers[p], "offer")
  BY <1>1, <1>3, ShrinksOK DEF Sends, Types
<1> QED
  BY <1>1, <1>2, <1>4 DEF Apart, Same

LEMMA RefuseFrame ==
  ASSUME Types, NEW p \in Peer, NEW q \in Peer, Refuse(p, q)
  PROVE  /\ Apart(p) /\ Same(p) /\ UNCHANGED <<life, media, tasks, hist>>
         /\ Sends(p, Pop(q, p), {}, "join")
<1>1. wire[q][p] # <<>> /\ wire' = Pop(q, p) /\ UNCHANGED <<life, seq, media, tasks, hist>>
  BY DEF Refuse
<1>2. Shrinks(wire, Pop(q, p)) /\ Pop(q, p) \in Wires
  BY <1>1, ShrinksOK DEF Types, Shrinks
<1>3. Sends(p, Pop(q, p), {}, "join")
  BY <1>1, <1>2, QuietOK DEF Sends
<1> QED
  BY <1>1, <1>3 DEF Apart, Same, media, hist, Types

LEMMA JoinFrame ==
  ASSUME Types, NEW p \in Peer, NEW q \in Peer, RemoteJoin(p, q)
  PROVE  /\ Apart(p) /\ UNCHANGED <<life, pubs, gone>> /\ crossed[p] \subseteq crossed'[p]
         /\ wire[q][p] # <<>> /\ Head(wire[q][p]).type = "join" /\ life[p].attached > 0
         /\ \A u \in tasks'[p] : u \in tasks[p] \/ u.who = q
         /\ remotes'[p] \subseteq remotes[p] \cup {q}
         /\ \/ Sends(p, Pop(q, p), {}, "join")
            \/ Sends(p, Pop(q, p), {q}, "join") /\ (life[p].closed => q \in crossed'[p])
<1> DEFINE m == Head(wire[q][p])
<1>1. /\ wire[q][p] # <<>> /\ m.type = "join" /\ life[p].attached > 0
      /\ UNCHANGED <<life, pubs, peers, open, sent, visited, gone>>
  BY DEF RemoteJoin, Accept, Accepts
<1>2. Shrinks(wire, Pop(q, p)) /\ Pop(q, p) \in Wires
  BY <1>1, ShrinksOK DEF Types, Shrinks
<1>3. CASE q \in remotes[p]
  <2>1. wire' = Pop(q, p) /\ UNCHANGED <<seq, remotes, tasks, crossed>>
    BY <1>3 DEF RemoteJoin
  <2>2. Sends(p, Pop(q, p), {}, "join")
    BY <1>2, <2>1, QuietOK DEF Sends
  <2> QED
    BY <1>1, <2>1, <2>2 DEF Apart, Same, Types
<1>4. CASE q \notin remotes[p]
  <2> PICK x : x = Task(q, "join", "reply", {}, <<m.sess, m.seq>>)
    OBVIOUS
  <2>1. /\ remotes' = [remotes EXCEPT ![p] = @ \cup {q}]
        /\ wire' = Post(Pop(q, p), p, {q}, seq[p], "join", {})
        /\ seq' = [seq EXCEPT ![p] = @ + 1]
        /\ tasks' = [tasks EXCEPT ![p] = @ \cup {x}]
        /\ crossed' = IF life[p].closed THEN [crossed EXCEPT ![p] = @ \cup {q}] ELSE crossed
    BY <1>4 DEF RemoteJoin
  <2>2. x.who = q
    BY DEF Task
  <2>3. /\ \A r \in Peer \ {p} : remotes'[r] = remotes[r] /\ tasks'[r] = tasks[r] /\ crossed'[r] = crossed[r]
        /\ \A u \in tasks'[p] : u \in tasks[p] \/ u = x
        /\ remotes'[p] \subseteq remotes[p] \cup {q}
        /\ seq' \in [Peer -> Int] /\ seq[p] \in Int
    BY <2>1 DEF Types, MeshTypes
  <2>4. crossed[p] \subseteq crossed'[p] /\ (life[p].closed => q \in crossed'[p])
    BY <2>1 DEF Types, MeshTypes
  <2>5. Adds(Pop(q, p), Post(Pop(q, p), p, {q}, seq[p], "join", {}), p, {q}, "join")
    BY <1>2, <2>3, PostOK DEF Types
  <2>6. Sends(p, Pop(q, p), {q}, "join")
    BY <1>2, <2>1, <2>5 DEF Sends
  <2> QED
    BY <1>1, <2>2, <2>3, <2>4, <2>6 DEF Apart, Same
<1> QED
  BY <1>3, <1>4

LEMMA PeerLeaveFrame ==
  ASSUME Types, NEW p \in Peer, NEW q \in Peer, RemoteLeave(p, q)
  PROVE  /\ Apart(p) /\ UNCHANGED <<life, pubs, tasks>> /\ crossed[p] \subseteq crossed'[p]
         /\ (\E t \in tasks[p] : t.who = q) => q \in crossed'[p]
         /\ wire[q][p] # <<>> /\ Head(wire[q][p]).type = "leave"
         /\ remotes'[p] \subseteq remotes[p] \ {q}
         /\ gone'[p][q] = Head(wire[q][p]).sess
         /\ \A r \in Peer \ {q} : gone'[p][r] = gone[p][r]
         /\ Sends(p, Pop(q, p), {}, "join")
<1>1. /\ remotes' = [remotes EXCEPT ![p] = @ \ {q}]
      /\ peers' = [peers EXCEPT ![p] = @ \ {q}]
      /\ open' = IF q \in peers[p] THEN [open EXCEPT ![p][q] = @ - 1] ELSE open
      /\ sent' = [sent EXCEPT ![p][q] = {}]
      /\ visited' = [visited EXCEPT ![p] = [t \in Track |-> visited[p][t] \ {q}]]
      /\ gone' = [gone EXCEPT ![p][q] = Head(wire[q][p]).sess]
      /\ crossed' = IF \E t \in tasks[p] : t.who = q
                    THEN [crossed EXCEPT ![p] = @ \cup {q}] ELSE crossed
      /\ UNCHANGED <<life, seq, pubs, tasks>> /\ wire' = Pop(q, p)
      /\ wire[q][p] # <<>> /\ Head(wire[q][p]).type = "leave"
  BY DEF RemoteLeave, Accept, Accepts
<1>2. \A r \in Peer \ {p} : /\ remotes'[r] = remotes[r] /\ peers'[r] = peers[r] /\ open'[r] = open[r]
                            /\ sent'[r] = sent[r] /\ visited'[r] = visited[r]
  BY <1>1 DEF Types, MeshTypes
<1>3. /\ \A r \in Peer \ {p} : gone'[r] = gone[r] /\ crossed'[r] = crossed[r]
      /\ crossed[p] \subseteq crossed'[p]
      /\ (\E t \in tasks[p] : t.who = q) => q \in crossed'[p]
  BY <1>1 DEF Types, MeshTypes
<1>4. /\ remotes'[p] \subseteq remotes[p] \ {q}
      /\ gone'[p][q] = Head(wire[q][p]).sess
      /\ \A r \in Peer \ {q} : gone'[p][r] = gone[p][r]
  BY <1>1 DEF Types, MeshTypes
<1>5. Shrinks(wire, Pop(q, p)) /\ Pop(q, p) \in Wires
  BY <1>1, ShrinksOK DEF Types, Shrinks
<1>6. Sends(p, Pop(q, p), {}, "join")
  BY <1>1, <1>5, QuietOK DEF Sends
<1> QED
  BY <1>1, <1>2, <1>3, <1>4, <1>6 DEF Apart, Same, Types

-----------------------------------------------------------------------------
(* Every step keeps the types, the lives and the meshes.                   *)

\* What Next says of one peer.
Step(p) ==
  \/ Living(p) \/ Leave(p) \/ Crash(p) \/ Reopen(p)
  \/ Resume(p)
  \/ \E q \in Peer \ {p} : Receive(p, q)
  \/ \E t \in Track : Publish(p, t) \/ Unpublish(p, t)

LEMMA NextStep ==
  ASSUME Next
  PROVE  \E p \in Peer : Step(p)
BY DEF Next, Step, Living, Proceed

\* The inductive invariant behind PeersExact and LeaveIsFinal.
MeshInv == \A p \in Peer : MeshOK(p)
RoomInv == Types /\ LifeInv /\ MeshInv

\* Every step keeps the mesh of the peer that takes it ...
LEMMA MeshStep ==
  ASSUME RoomInv, NEW p \in Peer, Step(p)
  PROVE  Apart(p) /\ wire' \in Wires /\ MeshTypes' /\ MeshOK(p)'
<1>0. Types /\ MeshTypes /\ MeshOK(p) /\ wire \in Wires /\ LifeOK(life[p])
  BY DEF RoomInv, Types, LifeInv, MeshInv
<1>1. CASE Living(p)
  <2>1. Apart(p) /\ Same(p) /\ UNCHANGED <<media, tasks, hist>> /\ wire' \in Wires
    BY <1>0, <1>1, LivingFrame, SendsWires
  <2>2. UNCHANGED <<remotes, pubs, peers, open, sent, visited, tasks, crossed, gone>>
    BY <2>1 DEF media, hist
  <2>3. MeshTypes'
    BY <1>0, <2>2 DEF MeshTypes, Placed
  <2> QED
    BY <1>0, <2>1, <2>3, SameMesh
<1>2. CASE Leave(p)
  BY <1>0, <1>2, LeaveFrame, LeaveMesh, SendsWires
<1>3. CASE Crash(p) \/ Reopen(p)
  <2>1. Wipe(p)
    BY <1>3 DEF Crash, Reopen
  <2> QED
    BY <1>0, <1>3, <2>1, WipeFrame, WipeMesh, SendsWires
<1>4. ASSUME NEW t \in tasks[p],
             CallNewcomer(p, t) \/ BuildPeer(p, t) \/ StorePeer(p, t) \/ PublishNext(p, t) \/ PublishDone(p, t)
      PROVE  Apart(p) /\ wire' \in Wires /\ MeshTypes' /\ MeshOK(p)'
  <2>1. CASE CallNewcomer(p, t)
    <3>1. Apart(p) /\ (Sends(p, wire, {}, "offer") \/ Sends(p, wire, {t.who}, "offer"))
      BY <1>0, <2>1, CallFrame
    <3>2. wire' \in Wires
      BY <3>1, SendsWires
    <3>3. MeshTypes' /\ MeshOK(p)'
      BY <1>0, <2>1, CallMesh
    <3> QED
      BY <3>1, <3>2, <3>3
  <2>2. CASE BuildPeer(p, t)
    BY <1>0, <2>2, BuildFrame, BuildMesh, SendsWires
  <2>3. CASE StorePeer(p, t)
    BY <1>0, <2>3, StoreFrame, StoreMesh, SendsWires
  <2>4. CASE PublishNext(p, t)
    BY <1>0, <2>4, NextFrame, NextMesh, SendsWires
  <2>5. CASE PublishDone(p, t)
    BY <1>0, <2>5, PublishedFrame, PublishedMesh, SendsWires
  <2> QED
    BY <1>4, <2>1, <2>2, <2>3, <2>4, <2>5
<1>5. ASSUME NEW q \in Peer, Receive(p, q)
      PROVE  Apart(p) /\ wire' \in Wires /\ MeshTypes' /\ MeshOK(p)'
  <2>1. CASE Refuse(p, q)
    <3>1. Apart(p) /\ Same(p) /\ UNCHANGED <<media, tasks, hist>> /\ wire' \in Wires
      BY <1>0, <2>1, RefuseFrame, SendsWires
    <3>2. UNCHANGED <<remotes, pubs, peers, open, sent, visited, tasks, crossed, gone>>
      BY <3>1 DEF media, hist
    <3>3. MeshTypes'
      BY <1>0, <3>2 DEF MeshTypes, Placed
    <3> QED
      BY <1>0, <3>1, <3>3, SameMesh
  <2>2. CASE RemoteJoin(p, q)
    BY <1>0, <2>2, JoinFrame, JoinMesh, SendsWires
  <2>3. CASE RemoteLeave(p, q)
    BY <1>0, <2>3, PeerLeaveFrame, PeerLeaveMesh, SendsWires
  <2>4. CASE RemoteOffer(p, q)
    <3>1. Apart(p) /\ (Sends(p, Pop(q, p), {}, "offer") \/ Sends(p, Pop(q, p), {q}, "offer"))
      BY <1>0, <2>4, OfferFrame
    <3>2. wire' \in Wires
      BY <3>1, SendsWires
    <3>3. MeshTypes' /\ MeshOK(p)'
      BY <1>0, <2>4, OfferMesh
    <3> QED
      BY <3>1, <3>2, <3>3
  <2> QED
    BY <1>5, <2>1, <2>2, <2>3, <2>4 DEF Receive
<1>6. ASSUME NEW k \in Track, Publish(p, k) \/ Unpublish(p, k)
      PROVE  Apart(p) /\ wire' \in Wires /\ MeshTypes' /\ MeshOK(p)'
  BY <1>0, <1>6, PublishFrame, PublishMesh, UnpublishFrame, UnpublishMesh, SendsWires
<1> QED
  BY <1>1, <1>2, <1>3, <1>4, <1>5, <1>6 DEF Step, Resume

\* ... and where its Room stands.
LEMMA LifeStep ==
  ASSUME RoomInv, NEW p \in Peer, Step(p)
  PROVE  /\ life' \in [Peer -> Life] /\ LifeOK(life'[p])
         /\ life'[p].leaveAt = "crashed" => tasks'[p] = {} /\ pubs'[p] = {}
         /\ Living(p) \/ Leave(p) \/ Crash(p) \/ Reopen(p) \/ life' = life
<1>0. Types /\ life \in [Peer -> Life] /\ LifeOK(life[p])
      /\ (life[p].leaveAt = "crashed" => tasks[p] = {} /\ pubs[p] = {})
  BY DEF RoomInv, Types, LifeInv
<1>1. CASE Living(p)
  <2>1. LifeOK(life'[p]) /\ Continues(life[p], life'[p])
    BY <1>0, <1>1, LivingLife
  <2>2. tasks' = tasks /\ pubs' = pubs
    BY <1>0, <1>1, LivingFrame DEF media
  <2>3. life'[p].leaveAt = "crashed" => life[p].leaveAt = "crashed"
    BY <2>1 DEF Continues
  <2> QED
    BY <1>0, <1>1, <2>1, <2>2, <2>3, LifeType
<1>2. CASE Leave(p)
  <2>1. life'[p].leaveAt = "announce"
    BY <1>0, <1>2 DEF Leave, Set, Life
  <2> QED
    BY <1>0, <1>2, <2>1, LifeType, EndLife
<1>3. CASE Crash(p) \/ Reopen(p)
  BY <1>0, <1>3, LifeType, EndLife, WipeFrame
<1>4. ASSUME life' = life, life[p].leaveAt # "crashed" \/ (tasks'[p] = {} /\ pubs'[p] = {})
      PROVE  /\ life' \in [Peer -> Life] /\ LifeOK(life'[p])
             /\ life'[p].leaveAt = "crashed" => tasks'[p] = {} /\ pubs'[p] = {}
  BY <1>0, <1>4
<1>5. ASSUME NEW t \in tasks[p],
             CallNewcomer(p, t) \/ BuildPeer(p, t) \/ StorePeer(p, t) \/ PublishNext(p, t) \/ PublishDone(p, t)
      PROVE  life' = life /\ life[p].leaveAt # "crashed"
  BY <1>0, <1>5 DEF CallNewcomer, BuildPeer, StorePeer, PublishNext, PublishDone
<1>6. ASSUME NEW q \in Peer, Receive(p, q)
      PROVE  life' = life /\ (life[p].leaveAt # "crashed" \/ (tasks'[p] = {} /\ pubs'[p] = {}))
  <2>1. CASE Refuse(p, q)
    BY <1>0, <2>1 DEF Refuse, media
  <2>2. CASE ~Refuse(p, q)
    <3>1. life' = life /\ life[p].attached > 0
      BY <1>6, <2>2 DEF Receive, RemoteJoin, RemoteLeave, RemoteOffer, Accept, Accepts
    <3> QED
      BY <1>0, <3>1 DEF LifeOK
  <2> QED
    BY <2>1, <2>2
<1>7. ASSUME NEW k \in Track, Publish(p, k) \/ Unpublish(p, k)
      PROVE  life' = life /\ life[p].leaveAt # "crashed"
  <2>1. life' = life /\ (~life[p].closed \/ pubs[p] # {})
    BY <1>0, <1>7, PublishFrame, UnpublishFrame
  <2> QED
    BY <1>0, <2>1 DEF LifeOK
<1> QED
  BY <1>1, <1>2, <1>3, <1>4, <1>5, <1>6, <1>7 DEF Step, Resume

LEMMA RoomInit ==
  ASSUME Init
  PROVE  RoomInv
<1>1. \A p \in Peer : life[p] = Fresh(1)
  BY DEF Init
<1>2. Fresh(1) \in Life
  <2>1. 1 \in Nat \ {0} /\ TRUE \in BOOLEAN
    OBVIOUS
  <2> QED
    BY <2>1, FreshType
<1>3. life \in [Peer -> Life] /\ seq \in [Peer -> Int]
  BY <1>2 DEF Init
<1>4. wire \in Wires
  BY DEF Init, Wires
<1>5. None \in [Peer -> SUBSET Peer] /\ None \in [Peer -> SUBSET Track] /\ None \in [Peer -> SUBSET Call]
      /\ \A p \in Peer : None[p] = {}
  BY DEF None
<1>6. /\ remotes \in [Peer -> SUBSET Peer] /\ pubs \in [Peer -> SUBSET Track]
      /\ peers \in [Peer -> SUBSET Peer] /\ open \in [Peer -> [Peer -> Int]]
      /\ sent \in [Peer -> [Peer -> SUBSET Track]]
      /\ visited \in [Peer -> [Track -> SUBSET Peer]]
      /\ tasks \in [Peer -> SUBSET Call] /\ crossed \in [Peer -> SUBSET Peer]
      /\ gone \in [Peer -> [Peer -> Int]]
  BY <1>5 DEF Init
<1>7. \A p \in Peer : tasks[p] = {} /\ pubs[p] = {} /\ peers[p] = {}
  BY <1>5 DEF Init
<1>8. Types
  BY <1>3, <1>4, <1>6, <1>7 DEF Types, MeshTypes
<1>9. LifeInv
  BY <1>1, <1>7 DEF LifeInv, LifeOK, Fresh
<1>10. ASSUME NEW p \in Peer PROVE MeshOK(p)
  <2>1. \A k \in Track : visited[p][k] = {}
    BY DEF Init
  <2>2. \A q \in Peer : open[p][q] = 0
    BY DEF Init
  <2> QED
    BY <1>7, <2>1, <2>2 DEF MeshOK, PublishOK, PairOK, Exact
<1> QED
  BY <1>8, <1>9, <1>10 DEF RoomInv, MeshInv

LEMMA RoomStep ==
  ASSUME RoomInv, [Next]_vars
  PROVE  RoomInv'
<1>1. ASSUME NEW p \in Peer, Step(p) PROVE RoomInv'
  <2>1. Apart(p) /\ wire' \in Wires /\ MeshTypes' /\ MeshOK(p)'
    BY <1>1, MeshStep
  <2>2. /\ life' \in [Peer -> Life] /\ LifeOK(life'[p])
        /\ life'[p].leaveAt = "crashed" => tasks'[p] = {} /\ pubs'[p] = {}
    BY <1>1, LifeStep
  <2>3. Types'
    BY <2>1, <2>2 DEF Types, Apart
  <2>4. ASSUME NEW r \in Peer \ {p}
        PROVE  /\ MeshOK(r)' /\ LifeOK(life'[r])
               /\ life'[r].leaveAt = "crashed" => tasks'[r] = {} /\ pubs'[r] = {}
    <3>1. Same(r) /\ life'[r] = life[r] /\ tasks'[r] = tasks[r] /\ pubs'[r] = pubs[r]
      BY <2>1 DEF Apart, Same
    <3>2. MeshOK(r) /\ LifeOK(life[r]) /\ (life[r].leaveAt = "crashed" => tasks[r] = {} /\ pubs[r] = {})
      BY DEF RoomInv, MeshInv, LifeInv
    <3> QED
      BY <3>1, <3>2, SameMesh
  <2>5. LifeInv'
    BY <2>2, <2>4 DEF LifeInv
  <2>6. MeshInv'
    BY <2>1, <2>4 DEF MeshInv
  <2> QED
    BY <2>3, <2>5, <2>6 DEF RoomInv
<1>2. CASE UNCHANGED vars
  <2>1. UNCHANGED <<life, seq, wire, remotes, pubs, peers, open, sent, visited, tasks, crossed, gone>>
    BY <1>2 DEF vars, media, hist
  <2>2. Types'
    BY <2>1 DEF RoomInv, Types, MeshTypes, Placed
  <2>3. LifeInv'
    BY <2>1 DEF RoomInv, LifeInv
  <2>4. MeshInv'
    BY <2>1, SameMesh DEF RoomInv, MeshInv, Same
  <2> QED
    BY <2>2, <2>3, <2>4 DEF RoomInv
<1> QED
  BY <1>1, <1>2, NextStep

-----------------------------------------------------------------------------
(* Leaves and the roster.                                                  *)

\* What is said of a wire holds when its head or all of it is gone ...
LEMMA ShrunkKeeps ==
  ASSUME NEW w \in Seq(Envelope), NEW v \in Seq(Envelope), NEW s \in Int, Shrunk(w, v)
  PROVE  /\ Past(w, s) => Past(v, s)
         /\ LeavesLast(w, s) => LeavesLast(v, s)
         /\ OnlyLeaves(w) => OnlyLeaves(v)
         /\ HasLeave(v, s) => HasLeave(w, s)
<1>1. CASE v = w
  BY <1>1
<1>2. CASE v = <<>>
  BY <1>2 DEF Past, LeavesLast, OnlyLeaves, HasLeave
<1>3. CASE w # <<>> /\ v = Tail(w)
  <2>1. Len(v) = Len(w) - 1 /\ Len(w) \in Nat /\ \A i \in 1 .. Len(v) : v[i] = w[i + 1]
    BY <1>3
  <2>2. \A i \in 1 .. Len(v) : i + 1 \in 1 .. Len(w)
    BY <2>1
  <2>3. Past(w, s) => Past(v, s)
    BY <2>1, <2>2 DEF Past
  <2>4. OnlyLeaves(w) => OnlyLeaves(v)
    BY <2>1, <2>2 DEF OnlyLeaves
  <2>5. HasLeave(v, s) => HasLeave(w, s)
    BY <2>1, <2>2 DEF HasLeave
  <2>6. ASSUME LeavesLast(w, s), NEW i \in 1 .. Len(v), NEW j \in 1 .. Len(v), i < j,
               v[i].type = "leave", v[i].sess = s
        PROVE  v[j].type = "leave"
    <3>1. i + 1 < j + 1 /\ i + 1 \in 1 .. Len(w) /\ j + 1 \in 1 .. Len(w)
      BY <2>1, <2>2, <2>6
    <3>2. w[i + 1].type = "leave" /\ w[i + 1].sess = s
      BY <2>1, <2>6
    <3>3. w[j + 1].type = "leave"
      BY <2>6, <3>1, <3>2 DEF LeavesLast
    <3> QED
      BY <2>1, <3>3
  <2>7. LeavesLast(w, s) => LeavesLast(v, s)
    BY <2>6 DEF LeavesLast
  <2> QED
    BY <2>3, <2>4, <2>5, <2>7
<1> QED
  BY <1>1, <1>2, <1>3 DEF Shrunk

\* ... a leave that is last has only leaves behind it ...
LEMMA HeadLeaves ==
  ASSUME NEW w \in Seq(Envelope), NEW s \in Int, w # <<>>
  PROVE  /\ Past(w, s) => Head(w).sess =< s
         /\ Head(w).type = "leave" /\ Head(w).sess = s => HasLeave(w, s)
         /\ LeavesLast(w, s) /\ Head(w).type = "leave" /\ Head(w).sess = s => OnlyLeaves(Tail(w))
         /\ OnlyLeaves(w) => Head(w).type = "leave"
<1>1. Head(w) = w[1] /\ 1 \in 1 .. Len(w)
  OBVIOUS
<1>2. Len(Tail(w)) = Len(w) - 1 /\ Len(w) \in Nat /\ \A i \in 1 .. Len(Tail(w)) : Tail(w)[i] = w[i + 1]
  OBVIOUS
<1>3. ASSUME LeavesLast(w, s), Head(w).type = "leave", Head(w).sess = s, NEW i \in 1 .. Len(Tail(w))
      PROVE  Tail(w)[i].type = "leave"
  <2>1. i + 1 \in 1 .. Len(w) /\ 1 < i + 1
    BY <1>2
  <2>2. w[i + 1].type = "leave"
    BY <1>1, <1>3, <2>1 DEF LeavesLast
  <2> QED
    BY <1>2, <2>2
<1> QED
  BY <1>1, <1>3 DEF Past, HasLeave, OnlyLeaves

\* ... and what may come behind it without breaking that.
LEMMA AppendKeeps ==
  ASSUME NEW w \in Seq(Envelope), NEW m \in Envelope, NEW s \in Int
  PROVE  /\ Past(w, s) /\ m.sess =< s => Past(Append(w, m), s)
         /\ HasLeave(Append(w, m), s) => HasLeave(w, s) \/ m.type = "leave"
         /\ LeavesLast(w, s) /\ m.type = "leave" => LeavesLast(Append(w, m), s)
         /\ ~HasLeave(w, s) => LeavesLast(Append(w, m), s)
         /\ OnlyLeaves(w) /\ m.type = "leave" => OnlyLeaves(Append(w, m))
<1> DEFINE v == Append(w, m)
<1>1. /\ Len(v) = Len(w) + 1 /\ Len(w) \in Nat
      /\ \A i \in 1 .. Len(w) : v[i] = w[i]
      /\ v[Len(w) + 1] = m
  OBVIOUS
<1>2. \A i \in 1 .. Len(v) : i \in 1 .. Len(w) \/ (i = Len(w) + 1 /\ v[i] = m)
  BY <1>1
<1> HIDE DEF v
<1>3. Past(w, s) /\ m.sess =< s => Past(v, s)
  BY <1>1, <1>2 DEF Past
<1>4. HasLeave(v, s) => HasLeave(w, s) \/ m.type = "leave"
  BY <1>1, <1>2 DEF HasLeave
<1>5. OnlyLeaves(w) /\ m.type = "leave" => OnlyLeaves(v)
  BY <1>1, <1>2 DEF OnlyLeaves
<1>6. LeavesLast(w, s) /\ m.type = "leave" => LeavesLast(v, s)
  BY <1>1, <1>2 DEF LeavesLast
<1>7. ASSUME ~HasLeave(w, s), NEW i \in 1 .. Len(v), NEW j \in 1 .. Len(v), i < j,
             v[i].type = "leave", v[i].sess = s
      PROVE  FALSE
  <2>1. i \in 1 .. Len(w)
    BY <1>1, <1>2, <1>7
  <2> QED
    BY <1>1, <1>7, <2>1 DEF HasLeave
<1>8. ~HasLeave(w, s) => LeavesLast(v, s)
  BY <1>7 DEF LeavesLast
<1> QED
  BY <1>3, <1>4, <1>5, <1>6, <1>8 DEF v

\* How one peer stands to another: what GhostInv says of them.
Ghostless(p, q) ==
  /\ gone[p][q] =< life[q].sess /\ (p = q => gone[p][q] = 0)
  /\ Past(wire[q][p], life[q].sess)
  /\ HasLeave(wire[q][p], life[q].sess) \/ gone[p][q] = life[q].sess => Over(q)
  /\ ~Exempt(p, q) => LeavesLast(wire[q][p], life[q].sess)
  /\ ~Exempt(p, q) /\ gone[p][q] = life[q].sess =>
       OnlyLeaves(wire[q][p]) /\ q \notin remotes[p] /\ \A t \in tasks[p] : t.who # q

LEMMA GhostAll == GhostInv <=> \A p, q \in Peer : Ghostless(p, q)
BY DEF GhostInv, Ghostless

\* What is out on the wire from q to p after a step of a, in which no Room is
\* replaced: w is what a left there.
LEMMA WireStep ==
  ASSUME Types, Types', NEW a \in Peer, NEW p \in Peer, NEW q \in Peer, NEW w, NEW to,
         NEW type \in {"join", "leave", "offer"}, Sends(a, w, to, type), Ghostless(p, q),
         life'[q].sess = life[q].sess,
         Over(q) => Over(q)', Exempt(p, q) => Exempt(p, q)',
         q = a /\ type = "leave" => Over(q)',
         q = a /\ p \in to /\ p # a /\ type # "leave" => ~Over(q) \/ Exempt(p, q)'
  PROVE  /\ Past(wire'[q][p], life'[q].sess)
         /\ HasLeave(wire'[q][p], life'[q].sess) => Over(q)'
         /\ ~Exempt(p, q)' => LeavesLast(wire'[q][p], life'[q].sess)
         /\ ~Exempt(p, q)' /\ OnlyLeaves(w[q][p]) /\ Over(q) => OnlyLeaves(wire'[q][p])
<1> DEFINE s == life[q].sess
           u == wire[q][p]
           v == w[q][p]
           x == wire'[q][p]
<1>1. s \in Int /\ u \in Seq(Envelope) /\ v \in Seq(Envelope) /\ x \in Seq(Envelope)
  <2>1. s \in Int
    BY LifeFields DEF Types
  <2> QED
    BY <2>1, SendsWires DEF Types, Wires
<1>2. Shrunk(u, v)
  BY DEF Sends, Shrinks
<1>3. \/ x = v
      \/ /\ q = a /\ p \in to /\ p # a
         /\ \E m \in Envelope : m.type = type /\ m.sess = s /\ x = Append(v, m)
  BY DEF Sends, Adds
<1>4. Past(u, s) /\ (HasLeave(u, s) => Over(q)) /\ (~Exempt(p, q) => LeavesLast(u, s))
  BY DEF Ghostless
<1> HIDE DEF s, u, v, x
<1>5. Past(v, s) /\ (HasLeave(v, s) => Over(q)) /\ (~Exempt(p, q) => LeavesLast(v, s))
  BY <1>1, <1>2, <1>4, ShrunkKeeps
<1>6. Past(x, s) /\ (HasLeave(x, s) => Over(q)') /\ (~Exempt(p, q)' => LeavesLast(x, s))
      /\ (~Exempt(p, q)' /\ OnlyLeaves(v) /\ Over(q) => OnlyLeaves(x))
  <2>1. CASE x = v
    BY <1>5, <2>1
  <2>2. ASSUME q = a, p \in to, p # a, NEW m \in Envelope, m.type = type, m.sess = s, x = Append(v, m)
        PROVE  /\ Past(x, s) /\ (HasLeave(x, s) => Over(q)') /\ (~Exempt(p, q)' => LeavesLast(x, s))
               /\ (~Exempt(p, q)' /\ OnlyLeaves(v) /\ Over(q) => OnlyLeaves(x))
    <3>1. m.sess =< s
      BY <1>1, <2>2
    <3>2. CASE type = "leave"
      BY <1>1, <1>5, <2>2, <3>1, <3>2, AppendKeeps
    <3>3. CASE type # "leave"
      BY <1>1, <1>5, <2>2, <3>1, <3>3, AppendKeeps
    <3> QED
      BY <3>2, <3>3
  <2> QED
    BY <1>3, <2>1, <2>2
<1> QED
  BY <1>6 DEF s, v, x

\* After a step of a, what a says of the others agrees with what is left for it.
Told(a, w) == \A q \in Peer :
  /\ gone'[a][q] =< life[q].sess /\ (a = q => gone'[a][q] = 0)
  /\ gone'[a][q] = life[q].sess => Over(q)
  /\ ~Exempt(a, q)' /\ gone'[a][q] = life[q].sess =>
       OnlyLeaves(w[q][a]) /\ q \notin remotes'[a] /\ \A t \in tasks'[a] : t.who # q

\* A step of a keeps GhostInv when it sends nothing after its leave, but to
\* peers that are excepted, and what it says of the others is Told.
LEMMA GhostStep ==
  ASSUME Types, Types', GhostInv, NEW a \in Peer, NEW w, NEW to,
         NEW type \in {"join", "leave", "offer"}, Apart(a), Sends(a, w, to, type),
         life'[a].sess = life[a].sess, Over(a) => Over(a)',
         life[a].raced => life'[a].raced, crossed[a] \subseteq crossed'[a],
         type = "leave" => Over(a)',
         type # "leave" => \A p \in to \ {a} : Over(a) => Exempt(p, a)',
         Told(a, w)
  PROVE  GhostInv'
<1>1. SUFFICES ASSUME NEW p \in Peer, NEW q \in Peer PROVE Ghostless(p, q)'
  BY DEF GhostInv, Ghostless
<1>2. Ghostless(p, q)
  BY GhostAll
<1>3. /\ life'[q].sess = life[q].sess /\ (Over(q) => Over(q)')
      /\ (life[q].raced => life'[q].raced)
      /\ crossed[p] \subseteq crossed'[p] /\ crossed[q] \subseteq crossed'[q]
  BY DEF Apart, Same, Over
<1>4. Exempt(p, q) => Exempt(p, q)'
  BY <1>3 DEF Exempt
<1>5. /\ Past(wire'[q][p], life'[q].sess)
      /\ HasLeave(wire'[q][p], life'[q].sess) => Over(q)'
      /\ ~Exempt(p, q)' => LeavesLast(wire'[q][p], life'[q].sess)
      /\ ~Exempt(p, q)' /\ OnlyLeaves(w[q][p]) /\ Over(q) => OnlyLeaves(wire'[q][p])
  BY <1>2, <1>3, <1>4, WireStep
<1>6. /\ gone'[p][q] =< life[q].sess /\ (p = q => gone'[p][q] = 0)
      /\ gone'[p][q] = life[q].sess => Over(q)
      /\ ~Exempt(p, q)' /\ gone'[p][q] = life[q].sess =>
           OnlyLeaves(w[q][p]) /\ q \notin remotes'[p] /\ \A t \in tasks'[p] : t.who # q
  <2>1. CASE p = a
    BY <2>1 DEF Told
  <2>2. CASE p # a
    <3>1. gone'[p] = gone[p] /\ remotes'[p] = remotes[p] /\ tasks'[p] = tasks[p]
      BY <2>2 DEF Apart, Same
    <3>2. OnlyLeaves(wire[q][p]) => OnlyLeaves(w[q][p])
      <4>1. wire[q][p] \in Seq(Envelope) /\ w[q][p] \in Seq(Envelope) /\ Shrunk(wire[q][p], w[q][p])
        BY SendsWires DEF Types, Wires, Sends, Shrinks
      <4> QED
        BY <4>1, ShrunkKeeps
    <3> QED
      BY <1>2, <1>4, <3>1, <3>2 DEF Ghostless
  <2> QED
    BY <2>1, <2>2
<1> QED
  BY <1>3, <1>5, <1>6 DEF Ghostless

\* What a peer said of another before a step holds after one in which it learns
\* of nobody and calls nobody new.
LEMMA ToldStill ==
  ASSUME Types, GhostInv, NEW a \in Peer, NEW w \in Wires, Shrinks(wire, w),
         gone'[a] = gone[a], life[a].raced => life'[a].raced,
         \A r \in Peer \ {a} : life'[r] = life[r] /\ crossed'[r] = crossed[r],
         crossed[a] \subseteq crossed'[a],
         NEW q \in Peer,
         ~Exempt(a, q) /\ gone[a][q] = life[q].sess =>
           (q \in remotes'[a] => q \in remotes[a]),
         ~Exempt(a, q) /\ gone[a][q] = life[q].sess =>
           \A u \in tasks'[a] : u.who = q => u.who = a \/ \E t \in tasks[a] : t.who = q
  PROVE  /\ gone'[a][q] =< life[q].sess /\ (a = q => gone'[a][q] = 0)
         /\ gone'[a][q] = life[q].sess => Over(q)
         /\ ~Exempt(a, q)' /\ gone'[a][q] = life[q].sess =>
              OnlyLeaves(w[q][a]) /\ q \notin remotes'[a] /\ \A t \in tasks'[a] : t.who # q
<1>1. Ghostless(a, q)
  BY GhostAll
<1>2. Exempt(a, q) => Exempt(a, q)'
  <2>1. life[q].raced => life'[q].raced
    OBVIOUS
  <2>2. crossed[q] \subseteq crossed'[q]
    OBVIOUS
  <2> QED
    BY <2>1, <2>2 DEF Exempt
<1>3. gone[a][q] = life[q].sess => a # q
  BY <1>1, LifeFields DEF Ghostless, Types
<1>4. OnlyLeaves(wire[q][a]) => OnlyLeaves(w[q][a])
  <2>1. wire[q][a] \in Seq(Envelope) /\ w[q][a] \in Seq(Envelope) /\ Shrunk(wire[q][a], w[q][a])
    BY DEF Types, Wires, Shrinks
  <2> QED
    BY <2>1, ShrunkKeeps
<1> QED
  BY <1>1, <1>2, <1>3, <1>4 DEF Ghostless

\* Once its leave is out, a peer sends offers to nobody nothing crossed.
LEMMA NoOffers ==
  ASSUME RoomInv, NEW a \in Peer, NEW q \in Peer, Over(a),
         tasks[a] # {} \/ pubs[a] # {} \/ life[a].attached > 0,
         q \in peers[a] \/ \E t \in tasks[a] : Makes(t, q)
  PROVE  q \in crossed[a]
<1>1. LifeOK(life[a]) /\ (life[a].leaveAt = "crashed" => tasks[a] = {} /\ pubs[a] = {})
  BY DEF RoomInv, LifeInv
<1>2. life[a] \in Life
  BY DEF RoomInv, Types
<1>3. life[a].mediaClosed
  BY <1>1, <1>2, LifeFields DEF LifeOK, Over
<1>4. q \in crossed[a] \/ PairOK(a, q)
  BY DEF RoomInv, MeshInv, MeshOK
<1> QED
  BY <1>3, <1>4 DEF PairOK, Making, Exact

\* Every step keeps GhostInv.
LEMMA LivingGhost ==
  ASSUME RoomInv, RoomInv', GhostInv, NEW p \in Peer, Living(p)
  PROVE  GhostInv'
<1>0. Types /\ Types' /\ LifeOK(life[p]) /\ life \in [Peer -> Life]
  BY DEF RoomInv, Types, LifeInv
<1>1. /\ Apart(p) /\ gone'[p] = gone[p] /\ UNCHANGED <<media, tasks, hist>>
      /\ \E w \in {wire, Unsubscribed(p)} :
              \/ Sends(p, w, {}, "join")
              \/ JoinAnnounce(p) /\ Sends(p, w, Peer, "join")
              \/ LeaveAnnounce(p) /\ Sends(p, w, Peer, "leave")
  BY <1>0, LivingFrame
<1>2. UNCHANGED <<remotes, tasks, crossed, gone>>
  BY <1>1 DEF media, hist
<1>3. Continues(life[p], life'[p])
  BY <1>0, LivingLife
<1>4. /\ life'[p].sess = life[p].sess /\ (Over(p) => Over(p)') /\ (life[p].raced => life'[p].raced)
  BY <1>3 DEF Continues, Over
<1>5. PICK w \in {wire, Unsubscribed(p)} :
              \/ Sends(p, w, {}, "join")
              \/ JoinAnnounce(p) /\ Sends(p, w, Peer, "join")
              \/ LeaveAnnounce(p) /\ Sends(p, w, Peer, "leave")
  BY <1>1
<1>6. Told(p, w)
  <2>1. w \in Wires /\ Shrinks(wire, w)
    BY <1>5, SendsWires DEF Sends
  <2>2. \A r \in Peer \ {p} : life'[r] = life[r] /\ crossed'[r] = crossed[r]
    BY <1>1, <1>2 DEF Apart
  <2> QED
    BY <1>0, <1>2, <1>4, <2>1, <2>2, ToldStill DEF Told
<1>7. CASE Sends(p, w, {}, "join")
  BY <1>0, <1>1, <1>2, <1>4, <1>6, <1>7, GhostStep
<1>8. CASE JoinAnnounce(p) /\ Sends(p, w, Peer, "join")
  <2>1. Over(p) => life[p].raced
    BY <1>0, <1>8 DEF Over, LifeOK, JoinAnnounce
  <2>2. \A r \in Peer \ {p} : Over(p) => Exempt(r, p)'
    BY <1>4, <2>1 DEF Exempt
  <2> QED
    BY <1>0, <1>1, <1>2, <1>4, <1>6, <1>8, <2>2, GhostStep
<1>9. CASE LeaveAnnounce(p) /\ Sends(p, w, Peer, "leave")
  <2>1. Over(p)'
    BY <1>0, <1>9 DEF Over, LeaveAnnounce, Set, Life
  <2> QED
    BY <1>0, <1>1, <1>2, <1>4, <1>6, <1>9, <2>1, GhostStep
<1> QED
  BY <1>5, <1>7, <1>8, <1>9

LEMMA LeaveGhost ==
  ASSUME RoomInv, RoomInv', GhostInv, NEW p \in Peer, Leave(p)
  PROVE  GhostInv'
<1>0. Types /\ Types' /\ LifeOK(life[p]) /\ life[p] \in Life
  BY DEF RoomInv, Types, LifeInv
<1>1. /\ Apart(p) /\ Sends(p, wire, {}, "join")
      /\ UNCHANGED <<remotes, tasks, pubs, gone>> /\ crossed[p] \subseteq crossed'[p]
  BY <1>0, LeaveFrame
<1>2. life'[p].sess = life[p].sess /\ ~life[p].closed
  BY <1>0 DEF Leave, Set, Types, Life
<1>3. (Over(p) => Over(p)') /\ (life[p].raced => life'[p].raced)
  BY <1>0, <1>2 DEF LifeOK, Over
<1>4. Told(p, wire)
  <2>1. wire \in Wires /\ Shrinks(wire, wire)
    BY <1>1, SendsWires DEF Sends
  <2>2. \A r \in Peer \ {p} : life'[r] = life[r] /\ crossed'[r] = crossed[r]
    BY <1>1 DEF Apart, Same
  <2> QED
    BY <1>0, <1>1, <1>3, <2>1, <2>2, ToldStill DEF Told
<1> QED
  BY <1>0, <1>1, <1>2, <1>3, <1>4, GhostStep

LEMMA CrashGhost ==
  ASSUME RoomInv, RoomInv', GhostInv, NEW p \in Peer, Crash(p)
  PROVE  GhostInv'
<1>0. Types /\ Types' /\ LifeOK(life[p]) /\ life[p] \in Life
  BY DEF RoomInv, Types, LifeInv
<1>1. /\ Apart(p) /\ crossed' = crossed
      /\ remotes'[p] = {} /\ tasks'[p] = {} /\ \A q \in Peer : gone'[p][q] = 0
      /\ Sends(p, Unsubscribed(p), Peer, "leave")
  BY <1>0, WipeFrame
<1>2. life'[p].sess = life[p].sess /\ life'[p].raced = life[p].raced /\ Over(p)'
  BY <1>0 DEF Crash, Set, Types, Life, Fresh, Over
<1>3. Told(p, Unsubscribed(p))
  <2>1. \A q \in Peer : life[q].sess \in Nat \ {0}
    BY <1>0, LifeFields DEF Types
  <2> QED
    BY <1>1, <2>1 DEF Told
<1> QED
  BY <1>0, <1>1, <1>2, <1>3, GhostStep

\* The next session of a peer starts where the wires and the others know only
\* earlier ones.
LEMMA ReopenGhost ==
  ASSUME RoomInv, RoomInv', GhostInv, NEW p \in Peer, Reopen(p)
  PROVE  GhostInv'
<1>0. Types /\ Types' /\ life[p] \in Life
  BY DEF RoomInv, Types
<1>1. /\ Apart(p) /\ crossed' = crossed
      /\ remotes'[p] = {} /\ tasks'[p] = {} /\ \A q \in Peer : gone'[p][q] = 0
      /\ wire' = Unsubscribed(p)
  BY <1>0, WipeFrame DEF Reopen
<1>2. life'[p].sess = life[p].sess + 1
  <2>1. Set(p, [Fresh(life[p].sess + 1) EXCEPT !.told = life[p].told \/ life[p].raced])
    BY DEF Reopen
  <2> QED
    BY <1>0, <2>1 DEF Set, Types, Fresh
<1>3. \A q \in Peer : life[q].sess \in Nat \ {0}
  BY <1>0, LifeFields DEF Types
<1>4. SUFFICES ASSUME NEW x \in Peer, NEW y \in Peer PROVE Ghostless(x, y)'
  BY DEF GhostInv, Ghostless
<1>5. Ghostless(x, y)
  BY GhostAll
<1>6. wire[y][x] \in Seq(Envelope) /\ wire'[y][x] \in Seq(Envelope) /\ Shrunk(wire[y][x], wire'[y][x])
  <2>1. wire \in Wires /\ wire' \in Wires
    BY <1>0 DEF Types
  <2>2. Shrinks(wire, wire')
    BY <1>1, <2>1, ShrinksOK
  <2> QED
    BY <2>1, <2>2 DEF Wires, Shrinks
<1>7. CASE y = p
  <2>1. gone'[x][y] =< life[y].sess /\ (x = y => gone'[x][y] = 0)
    BY <1>1, <1>3, <1>5, <1>7 DEF Ghostless, Apart
  <2>2. gone'[x][y] \in Int
    BY <1>0 DEF Types, MeshTypes
  <2>3. gone'[x][y] =< life'[y].sess /\ gone'[x][y] # life'[y].sess
    BY <1>2, <1>3, <1>7, <2>1, <2>2
  <2>4. Past(wire'[y][x], life[y].sess)
    BY <1>3, <1>5, <1>6, ShrunkKeeps DEF Ghostless
  <2>5. /\ \A i \in 1 .. Len(wire'[y][x]) :
             wire'[y][x][i].sess =< life'[y].sess /\ wire'[y][x][i].sess # life'[y].sess
    <3>1. \A i \in 1 .. Len(wire'[y][x]) : wire'[y][x][i].sess \in Int
      <4>1. \A v \in Seq(Envelope) : \A i \in 1 .. Len(v) : v[i] \in Envelope
        OBVIOUS
      <4>2. \A m \in Envelope : m.sess \in Int
        BY DEF Envelope
      <4> QED
        BY <1>6, <4>1, <4>2
    <3> QED
      BY <1>2, <1>3, <1>7, <2>4, <3>1 DEF Past
  <2>6. Past(wire'[y][x], life'[y].sess) /\ ~HasLeave(wire'[y][x], life'[y].sess)
        /\ LeavesLast(wire'[y][x], life'[y].sess)
    BY <2>5 DEF Past, HasLeave, LeavesLast
  <2> QED
    BY <2>1, <2>3, <2>6 DEF Ghostless
<1>8. CASE y # p
  <2>1. life'[y] = life[y] /\ (Over(y)' <=> Over(y)) /\ (Exempt(x, y)' <=> Exempt(x, y))
    BY <1>1, <1>8 DEF Apart, Over, Exempt
  <2>2. /\ Past(wire[y][x], life[y].sess) => Past(wire'[y][x], life[y].sess)
        /\ LeavesLast(wire[y][x], life[y].sess) => LeavesLast(wire'[y][x], life[y].sess)
        /\ OnlyLeaves(wire[y][x]) => OnlyLeaves(wire'[y][x])
        /\ HasLeave(wire'[y][x], life[y].sess) => HasLeave(wire[y][x], life[y].sess)
    BY <1>3, <1>6, ShrunkKeeps
  <2>3. CASE x = p
    BY <1>1, <1>3, <1>5, <2>1, <2>2, <2>3 DEF Ghostless
  <2>4. CASE x # p
    <3>1. gone'[x] = gone[x] /\ remotes'[x] = remotes[x] /\ tasks'[x] = tasks[x]
      BY <1>1, <2>4 DEF Apart, Same
    <3> QED
      BY <1>5, <2>1, <2>2, <3>1 DEF Ghostless
  <2> QED
    BY <2>3, <2>4
<1> QED
  BY <1>7, <1>8

\* A step that changes no life: whom a peer whose leave is out still sends to
\* is crossed.
LEMMA QuietGhost ==
  ASSUME RoomInv, RoomInv', GhostInv, NEW a \in Peer, NEW w, NEW to, NEW type \in {"join", "offer"},
         Apart(a), life' = life, crossed[a] \subseteq crossed'[a], Sends(a, w, to, type),
         \A q \in to \ {a} : Over(a) => q \in crossed'[a],
         Told(a, w)
  PROVE  GhostInv'
<1>1. \A q \in to \ {a} : Over(a) => Exempt(q, a)'
  BY DEF Exempt
<1>2. Over(a)' <=> Over(a)
  BY DEF Over
<1> QED
  BY <1>1, <1>2, GhostStep DEF RoomInv

\* ... and it learns of nobody that has left.
LEMMA CalmGhost ==
  ASSUME RoomInv, RoomInv', GhostInv, NEW a \in Peer, NEW w, NEW to, NEW type \in {"join", "offer"},
         Apart(a), life' = life, crossed[a] \subseteq crossed'[a], Sends(a, w, to, type),
         \A q \in to \ {a} : Over(a) => q \in crossed'[a],
         gone'[a] = gone[a],
         \A q \in Peer : ~Exempt(a, q) /\ gone[a][q] = life[q].sess =>
           /\ q \in remotes'[a] => q \in remotes[a]
           /\ \A u \in tasks'[a] : u.who = q => u.who = a \/ \E t \in tasks[a] : t.who = q
  PROVE  GhostInv'
<1>1. Types /\ w \in Wires /\ Shrinks(wire, w)
  BY SendsWires DEF Sends, RoomInv
<1>2. \A r \in Peer \ {a} : life'[r] = life[r] /\ crossed'[r] = crossed[r]
  BY DEF Apart, Same
<1>3. Told(a, w)
  BY <1>1, <1>2, ToldStill DEF Told
<1> QED
  BY <1>3, QuietGhost

LEMMA ResumeGhost ==
  ASSUME RoomInv, RoomInv', GhostInv, NEW p \in Peer, Resume(p)
  PROVE  GhostInv'
<1>0. Types /\ wire \in Wires /\ \A q \in Peer : Ghostless(p, q)
  BY GhostAll DEF RoomInv, Types
<1>1. PICK t \in tasks[p] :
        CallNewcomer(p, t) \/ BuildPeer(p, t) \/ StorePeer(p, t) \/ PublishNext(p, t) \/ PublishDone(p, t)
  BY DEF Resume
<1>2. CASE CallNewcomer(p, t)
  <2>1. /\ Apart(p) /\ UNCHANGED <<life, gone, pubs>> /\ t.who \in Peer
        /\ \A u \in tasks'[p] : u \in tasks[p] \/ u.who \in {p, t.who}
        /\ remotes'[p] \subseteq remotes[p] \cup {t.who} /\ crossed[p] \subseteq crossed'[p]
        /\ \/ Sends(p, wire, {}, "offer")
           \/ t.who \in peers[p] /\ Sends(p, wire, {t.who}, "offer")
    BY <1>0, <1>2, CallFrame
  <2>2. t.who \in peers[p] /\ Over(p) => t.who \in crossed'[p]
    BY <2>1, NoOffers
  <2>3. \A q \in Peer : ~Exempt(p, q) /\ gone[p][q] = life[q].sess => q # t.who
    BY <1>0 DEF Ghostless
  <2>4. \A q \in Peer : ~Exempt(p, q) /\ gone[p][q] = life[q].sess =>
           /\ q \in remotes'[p] => q \in remotes[p]
           /\ \A u \in tasks'[p] : u.who = q => u.who = p \/ \E v \in tasks[p] : v.who = q
    BY <2>1, <2>3
  <2> QED
    BY <2>1, <2>2, <2>4, CalmGhost
<1>3. CASE BuildPeer(p, t)
  <2>1. /\ Apart(p) /\ UNCHANGED <<life, pubs, remotes, hist>> /\ Sends(p, wire, {}, "join")
        /\ \A u \in tasks'[p] : u \in tasks[p] \/ u.who = t.who
    BY <1>0, <1>3, BuildFrame
  <2> QED
    BY <2>1, CalmGhost DEF hist
<1>4. CASE StorePeer(p, t)
  <2>1. /\ Apart(p) /\ life' = life /\ UNCHANGED <<remotes, crossed, gone, pubs>>
        /\ \A u \in tasks'[p] : u \in tasks[p] \/ u.who = p
        /\ Sends(p, wire, {}, "offer") \/ Sends(p, wire, {t.who}, "offer")
    BY <1>0, <1>4, StoreFrame
  <2>2. Makes(t, t.who) /\ t.who \in Peer
    BY <1>0, <1>4 DEF StorePeer, Makes, Types, MeshTypes, Call
  <2>3. Over(p) => t.who \in crossed'[p]
    BY <2>1, <2>2, NoOffers
  <2> QED
    BY <2>1, <2>3, CalmGhost
<1>5. CASE PublishNext(p, t)
  <2>1. PICK q \in remotes[p] :
         /\ Apart(p) /\ UNCHANGED <<life, gone, pubs>>
         /\ \A u \in tasks'[p] : u \in tasks[p] \/ u.who \in {p, q}
         /\ remotes'[p] \subseteq remotes[p] \cup {q} /\ crossed[p] \subseteq crossed'[p]
         /\ \/ Sends(p, wire, {}, "offer")
            \/ q \in peers[p] /\ Sends(p, wire, {q}, "offer")
    BY <1>0, <1>5, NextFrame
  <2>2. q \in Peer
    BY <1>0 DEF Types, MeshTypes
  <2>3. q \in peers[p] /\ Over(p) => q \in crossed'[p]
    BY <2>1, <2>2, NoOffers
  <2>4. \A y \in Peer : ~Exempt(p, y) /\ gone[p][y] = life[y].sess => y # q
    BY <1>0 DEF Ghostless
  <2>5. \A y \in Peer : ~Exempt(p, y) /\ gone[p][y] = life[y].sess =>
           /\ y \in remotes'[p] => y \in remotes[p]
           /\ \A u \in tasks'[p] : u.who = y => u.who = p \/ \E v \in tasks[p] : v.who = y
    BY <2>1, <2>4
  <2> QED
    BY <2>1, <2>3, <2>5, CalmGhost
<1>6. CASE PublishDone(p, t)
  <2>1. /\ Apart(p) /\ UNCHANGED <<life, remotes, hist>> /\ Sends(p, wire, {}, "join")
        /\ tasks'[p] \subseteq tasks[p]
    BY <1>0, <1>6, PublishedFrame
  <2> QED
    BY <2>1, CalmGhost DEF hist
<1> QED
  BY <1>1, <1>2, <1>3, <1>4, <1>5, <1>6

LEMMA ReceiveGhost ==
  ASSUME RoomInv, RoomInv', GhostInv, NEW p \in Peer, NEW q \in Peer, p # q, Receive(p, q)
  PROVE  GhostInv'
<1>0. Types /\ wire \in Wires /\ (\A y \in Peer : Ghostless(p, y)) /\ LifeOK(life[p]) /\ life[p] \in Life
  BY GhostAll DEF RoomInv, Types, LifeInv
<1>1. wire[q][p] \in Seq(Envelope) /\ life[q].sess \in Nat \ {0}
  BY <1>0, LifeFields DEF Types, Wires
<1>2. ASSUME wire[q][p] # <<>>, Head(wire[q][p]).type # "leave"
      PROVE  \A y \in Peer : ~Exempt(p, y) /\ gone[p][y] = life[y].sess => y # q
  BY <1>0, <1>1, <1>2, HeadLeaves DEF Ghostless
<1>3. CASE Refuse(p, q)
  <2>1. /\ Apart(p) /\ UNCHANGED <<life, media, tasks, hist>>
        /\ Sends(p, Pop(q, p), {}, "join")
    BY <1>0, <1>3, RefuseFrame
  <2>2. UNCHANGED <<remotes, crossed, gone, tasks>>
    BY <2>1 DEF media, hist
  <2> QED
    BY <2>1, <2>2, CalmGhost
<1>4. CASE RemoteJoin(p, q)
  <2>1. /\ Apart(p) /\ UNCHANGED <<life, pubs, gone>> /\ crossed[p] \subseteq crossed'[p]
        /\ wire[q][p] # <<>> /\ Head(wire[q][p]).type = "join"
        /\ \A u \in tasks'[p] : u \in tasks[p] \/ u.who = q
        /\ remotes'[p] \subseteq remotes[p] \cup {q}
        /\ \/ Sends(p, Pop(q, p), {}, "join")
           \/ Sends(p, Pop(q, p), {q}, "join") /\ (life[p].closed => q \in crossed'[p])
    BY <1>0, <1>4, JoinFrame
  <2>2. Over(p) => life[p].closed
    BY <1>0 DEF Over, LifeOK
  <2>3. \A y \in Peer : ~Exempt(p, y) /\ gone[p][y] = life[y].sess => y # q
    BY <1>2, <2>1
  <2>4. \A y \in Peer : ~Exempt(p, y) /\ gone[p][y] = life[y].sess =>
           /\ y \in remotes'[p] => y \in remotes[p]
           /\ \A u \in tasks'[p] : u.who = y => u.who = p \/ \E v \in tasks[p] : v.who = y
    BY <2>1, <2>3
  <2> QED
    BY <2>1, <2>2, <2>4, CalmGhost
<1>5. CASE RemoteOffer(p, q)
  <2>1. /\ Apart(p) /\ UNCHANGED <<life, gone, pubs>>
        /\ wire[q][p] # <<>> /\ Head(wire[q][p]).type = "offer" /\ life[p].attached > 0
        /\ \A u \in tasks'[p] : u \in tasks[p] \/ u.who \in {p, q}
        /\ remotes'[p] \subseteq remotes[p] \cup {q} /\ crossed[p] \subseteq crossed'[p]
        /\ \/ Sends(p, Pop(q, p), {}, "offer")
           \/ q \in peers[p] /\ Sends(p, Pop(q, p), {q}, "offer")
    BY <1>0, <1>5, OfferFrame
  <2>2. q \in peers[p] /\ Over(p) => q \in crossed'[p]
    BY <2>1, NoOffers
  <2>3. \A y \in Peer : ~Exempt(p, y) /\ gone[p][y] = life[y].sess => y # q
    BY <1>2, <2>1
  <2>4. \A y \in Peer : ~Exempt(p, y) /\ gone[p][y] = life[y].sess =>
           /\ y \in remotes'[p] => y \in remotes[p]
           /\ \A u \in tasks'[p] : u.who = y => u.who = p \/ \E v \in tasks[p] : v.who = y
    BY <2>1, <2>3
  <2> QED
    BY <2>1, <2>2, <2>4, CalmGhost
<1>6. CASE RemoteLeave(p, q)
  <2>1. /\ Apart(p) /\ UNCHANGED <<life, pubs, tasks>> /\ crossed[p] \subseteq crossed'[p]
        /\ (\E t \in tasks[p] : t.who = q) => q \in crossed'[p]
        /\ wire[q][p] # <<>> /\ Head(wire[q][p]).type = "leave"
        /\ remotes'[p] \subseteq remotes[p] \ {q}
        /\ gone'[p][q] = Head(wire[q][p]).sess
        /\ \A r \in Peer \ {q} : gone'[p][r] = gone[p][r]
        /\ Sends(p, Pop(q, p), {}, "join")
    BY <1>0, <1>6, PeerLeaveFrame
  <2>2. Pop(q, p)[q][p] = Tail(wire[q][p]) /\ Shrinks(wire, Pop(q, p)) /\ Pop(q, p) \in Wires
    BY <1>0, <2>1, ShrinksOK DEF Shrinks
  <2>3. /\ gone'[p][q] =< life[q].sess
        /\ gone'[p][q] = life[q].sess => Over(q)
        /\ ~Exempt(p, q) /\ gone'[p][q] = life[q].sess => OnlyLeaves(Pop(q, p)[q][p])
    BY <1>0, <1>1, <2>1, <2>2, HeadLeaves DEF Ghostless
  <2>4. \A y \in Peer : Exempt(p, y) => Exempt(p, y)'
    BY <2>1 DEF Apart, Same, Exempt
  <2>5. ~Exempt(p, q)' => q \notin remotes'[p] /\ \A t \in tasks'[p] : t.who # q
    BY <2>1 DEF Exempt
  <2>6. ASSUME NEW y \in Peer \ {q}
        PROVE  /\ gone'[p][y] =< life[y].sess /\ (p = y => gone'[p][y] = 0)
               /\ gone'[p][y] = life[y].sess => Over(y)
               /\ ~Exempt(p, y)' /\ gone'[p][y] = life[y].sess =>
                    OnlyLeaves(Pop(q, p)[y][p]) /\ y \notin remotes'[p] /\ \A t \in tasks'[p] : t.who # y
    <3>1. Ghostless(p, y) /\ gone'[p][y] = gone[p][y]
      BY <1>0, <2>1
    <3>2. OnlyLeaves(wire[y][p]) => OnlyLeaves(Pop(q, p)[y][p])
      <4>1. wire[y][p] \in Seq(Envelope) /\ Pop(q, p)[y][p] \in Seq(Envelope)
            /\ Shrunk(wire[y][p], Pop(q, p)[y][p])
        BY <1>0, <2>2 DEF Wires, Shrinks
      <4> QED
        BY <1>1, <4>1, ShrunkKeeps
    <3> QED
      BY <2>1, <2>4, <3>1, <3>2 DEF Ghostless
  <2>7. Told(p, Pop(q, p))
    <3> SUFFICES ASSUME NEW y \in Peer
                 PROVE  /\ gone'[p][y] =< life[y].sess /\ (p = y => gone'[p][y] = 0)
                        /\ gone'[p][y] = life[y].sess => Over(y)
                        /\ ~Exempt(p, y)' /\ gone'[p][y] = life[y].sess =>
                             OnlyLeaves(Pop(q, p)[y][p]) /\ y \notin remotes'[p]
                             /\ \A t \in tasks'[p] : t.who # y
      BY DEF Told
    <3>1. CASE y = q
      BY <2>3, <2>4, <2>5, <3>1
    <3>2. CASE y # q
      BY <2>6, <3>2
    <3> QED
      BY <3>1, <3>2
  <2> QED
    BY <2>1, <2>7, QuietGhost
<1> QED
  BY <1>3, <1>4, <1>5, <1>6 DEF Receive

LEMMA PublishGhost ==
  ASSUME RoomInv, RoomInv', GhostInv, NEW p \in Peer, NEW k \in Track, Publish(p, k) \/ Unpublish(p, k)
  PROVE  GhostInv'
<1>0. Types
  BY DEF RoomInv
<1>1. CASE Publish(p, k)
  <2>1. /\ Apart(p) /\ UNCHANGED <<life, pubs, remotes, hist>> /\ Sends(p, wire, {}, "join")
        /\ \A u \in tasks'[p] : u \in tasks[p] \/ u.who = p
    BY <1>0, <1>1, PublishFrame
  <2> QED
    BY <2>1, CalmGhost DEF hist
<1>2. CASE Unpublish(p, k)
  <2>1. /\ Apart(p) /\ UNCHANGED <<life, remotes, tasks, gone>> /\ pubs[p] # {}
        /\ crossed[p] \subseteq crossed'[p] /\ Sends(p, wire, peers[p], "offer")
    BY <1>0, <1>2, UnpublishFrame
  <2>2. \A q \in peers[p] : Over(p) => q \in crossed'[p]
    BY <1>0, <2>1, NoOffers DEF Types, MeshTypes
  <2> QED
    BY <2>1, <2>2, CalmGhost
<1> QED
  BY <1>1, <1>2

LEMMA GhostNext ==
  ASSUME RoomInv, RoomInv', GhostInv, [Next]_vars
  PROVE  GhostInv'
<1>1. CASE UNCHANGED vars
  BY <1>1 DEF vars, media, hist, GhostInv, Over, Exempt
<1>2. ASSUME NEW p \in Peer, Step(p) PROVE GhostInv'
  BY <1>2, LivingGhost, LeaveGhost, CrashGhost, ReopenGhost, ResumeGhost, ReceiveGhost, PublishGhost DEF Step
<1> QED
  BY <1>1, <1>2, NextStep

LEMMA GhostInit ==
  ASSUME Init
  PROVE  GhostInv
<1>1. \A p \in Peer : life[p].sess = 1
  BY DEF Init, Fresh
<1>2. \A p, q \in Peer : gone[p][q] = 0 /\ wire[q][p] = <<>>
  BY DEF Init
<1> QED
  BY <1>1, <1>2 DEF GhostInv, Past, HasLeave, LeavesLast

-----------------------------------------------------------------------------
\* What the invariants say of the properties.
LEMMA MeshExact == RoomInv => PeersExact
<1> SUFFICES ASSUME RoomInv, NEW p \in Peer, NEW q \in Peer \ (crossed[p] \cup Creating(p))
             PROVE  /\ open[p][q] = IF q \in peers[p] THEN 1 ELSE 0
                    /\ q \in peers[p] =>
                         /\ q \in remotes[p]
                         /\ sent[p][q] = pubs[p] \cup {t \in Track : q \in visited[p][t]}
  BY DEF PeersExact
<1>1. PairOK(p, q)
  BY DEF RoomInv, MeshInv, MeshOK
<1>2. \A t \in tasks[p] : ~Makes(t, q)
  BY CreatingIff
<1> QED
  BY <1>1, <1>2 DEF PairOK, Exact, Carried

LEMMA LifeFinal == RoomInv => LeaveIsFinal
<1> SUFFICES ASSUME RoomInv, NEW p \in Peer, life[p].leaveAt = "done", ~life[p].raced
             PROVE  /\ ~life[p].sampling /\ life[p].attached = life[p].failed /\ life[p].tracked = 0
                    /\ life[p].timers => life[p].bound
  BY DEF LeaveIsFinal
<1>1. LifeOK(life[p]) /\ life[p] \in Life
  BY DEF RoomInv, LifeInv, Types
<1>2. life[p].closed /\ life[p].tracked = 0 /\ life[p].attached = life[p].failed + life[p].tracked
  BY <1>1 DEF LifeOK
<1>3. life[p].failed \in Int
  BY <1>1, LifeFields
<1> QED
  BY <1>1, <1>2, <1>3 DEF LifeOK

LEMMA GhostHolds == RoomInv /\ GhostInv => NoGhost
BY DEF GhostInv, NoGhost, Exempt

\* However joins, leaves, crashes, publishes and offers overlap, a peer that
\* nothing crossed has one connection iff one is stored, only for a participant
\* of the roster, carrying exactly what is published
\* (MeshMediaTransport.ensurePeer and createPeer, Room.publish and unpublish).
THEOREM ConnectionsExact == Spec => []PeersExact
<1>1. Init => RoomInv
  BY RoomInit
<1>2. RoomInv /\ [Next]_vars => RoomInv'
  BY RoomStep
<1> QED
  BY <1>1, <1>2, MeshExact, PTL DEF Spec

\* After leave() a Room leaves nothing running or registered, and nobody that
\* handled its leave lists it again, but for the crossings NoGhost and
\* LeaveIsFinal name (Room.leave, runJoin and handleRemoteLeave).
THEOREM LeavesHeld == Spec => []LeaveHolds
<1>1. Init => RoomInv /\ GhostInv
  BY RoomInit, GhostInit
<1>2. RoomInv /\ GhostInv /\ [Next]_vars => (RoomInv /\ GhostInv)'
  BY RoomStep, GhostNext
<1>3. RoomInv /\ GhostInv => LeaveHolds
  BY LifeFinal, GhostHolds DEF LeaveHolds
<1> QED
  BY <1>1, <1>2, <1>3, PTL DEF Spec

-----------------------------------------------------------------------------
(***************************************************************************)
(* A call that is at rest is complete (CallAtRest).                        *)
(*                                                                         *)
(* The invariant is about pairs.  End(p, q) is all that p holds about q    *)
(* and the wire from p to q; Pair(e, o) says of two ends what was sent and *)
(* accepted in which order (Roots), and that a participant who is not in   *)
(* the roster yet will be, because of what is still on its way (Links).    *)
(* CallInv claims Pair of any two peers that nothing led apart (Fair).     *)
(*                                                                         *)
(* A step of p does to its pair with q one of twelve things (Moves), and   *)
(* each keeps Pair, on ends alone: the ...Meet lemmas.  The ...Moves       *)
(* lemmas show of every action which of the twelve it is.                  *)
(***************************************************************************)

HIDE RoomAssumption

(* What is on a wire, its sender being in session s.                       *)

NoLeave(w) == \A i \in 1 .. Len(w) : w[i].type # "leave"
Live(w, s) == \E i \in 1 .. Len(w) : w[i].type # "leave" /\ w[i].sess = s
Offers(w, s) == \E i \in 1 .. Len(w) : w[i].type = "offer" /\ w[i].sess = s
Brings(w, s, t) ==
  \E i \in 1 .. Len(w) : w[i].type = "offer" /\ w[i].sess = s /\ t \in w[i].tracks
Old(w, s) == \E i \in 1 .. Len(w) : w[i].sess # s
Silent(w, s) == \A i \in 1 .. Len(w) : w[i].sess # s
\* The first envelope of the session is a join.
Opens(w, s) ==
  \E i \in 1 .. Len(w) :
    w[i].type = "join" /\ w[i].sess = s /\ \A j \in 1 .. i - 1 : w[j].sess # s
\* All of it, or all that is not of the session, has a leave at or behind it.
Finishes(w) == \A i \in 1 .. Len(w) : \E j \in i .. Len(w) : w[j].type = "leave"
Ends(w, s) ==
  \A i \in 1 .. Len(w) : w[i].sess # s => \E j \in i .. Len(w) : w[j].type = "leave"

\* Sessions and sequence numbers rise, above what f says was accepted, and those
\* of session s stay below n.
Within(w, s) == \A i \in 1 .. Len(w) : w[i].sess \in 1 .. s
Rising(w) ==
  \A i, j \in 1 .. Len(w) :
    i < j => w[i].sess < w[j].sess \/ (w[i].sess = w[j].sess /\ w[i].seq < w[j].seq)
Above(w, f) == \A i \in 1 .. Len(w) : f[w[i].sess] < w[i].seq
Below(w, s, n) == \A i \in 1 .. Len(w) : w[i].sess = s => w[i].seq < n

\* An empty wire says nothing.
LEMMA EmptyWire ==
  ASSUME NEW s, NEW f, NEW n
  PROVE  /\ NoLeave(<<>>) /\ ~Live(<<>>, s) /\ ~Offers(<<>>, s) /\ ~Old(<<>>, s) /\ Silent(<<>>, s)
         /\ ~Opens(<<>>, s) /\ Ends(<<>>, s) /\ Finishes(<<>>) /\ Within(<<>>, s) /\ Rising(<<>>) /\ Above(<<>>, f)
         /\ Below(<<>>, s, n) /\ ~HasLeave(<<>>, s) /\ \A t : ~Brings(<<>>, s, t)
<1>1. \A i \in 1 .. Len(<<>>) : FALSE
  OBVIOUS
<1> QED
  BY <1>1 DEF NoLeave, Live, Offers, Old, Silent, Opens, Ends, Finishes, Within, Rising, Above, Below, HasLeave, Brings

\* What one more envelope changes.
LEMMA AppendSays ==
  ASSUME NEW w \in Seq(Envelope), NEW m \in Envelope, NEW s \in Int
  PROVE  LET v == Append(w, m) IN
         /\ v \in Seq(Envelope) /\ v # <<>>
         /\ NoLeave(v) <=> NoLeave(w) /\ m.type # "leave"
         /\ HasLeave(v, s) <=> HasLeave(w, s) \/ (m.type = "leave" /\ m.sess = s)
         /\ Live(v, s) <=> Live(w, s) \/ (m.type # "leave" /\ m.sess = s)
         /\ Offers(v, s) <=> Offers(w, s) \/ (m.type = "offer" /\ m.sess = s)
         /\ Old(v, s) <=> Old(w, s) \/ m.sess # s
         /\ \A t : Brings(v, s, t) <=> Brings(w, s, t) \/ (m.type = "offer" /\ m.sess = s /\ t \in m.tracks)
<1> DEFINE v == Append(w, m)
<1>1. /\ v \in Seq(Envelope) /\ v # <<>> /\ Len(v) = Len(w) + 1 /\ Len(w) \in Nat
      /\ \A i \in 1 .. Len(w) : v[i] = w[i]
      /\ v[Len(w) + 1] = m
  OBVIOUS
<1>2. /\ \A i \in 1 .. Len(v) : i \in 1 .. Len(w) \/ (i = Len(w) + 1 /\ v[i] = m)
      /\ Len(w) + 1 \in 1 .. Len(v)
      /\ \A i \in 1 .. Len(w) : i \in 1 .. Len(v)
  BY <1>1
<1> HIDE DEF v
<1>3. NoLeave(v) <=> NoLeave(w) /\ m.type # "leave"
  BY <1>1, <1>2 DEF NoLeave
<1>4. HasLeave(v, s) <=> HasLeave(w, s) \/ (m.type = "leave" /\ m.sess = s)
  BY <1>1, <1>2 DEF HasLeave
<1>5. Live(v, s) <=> Live(w, s) \/ (m.type # "leave" /\ m.sess = s)
  BY <1>1, <1>2 DEF Live
<1>6. Offers(v, s) <=> Offers(w, s) \/ (m.type = "offer" /\ m.sess = s)
  BY <1>1, <1>2 DEF Offers
<1>7. Old(v, s) <=> Old(w, s) \/ m.sess # s
  BY <1>1, <1>2 DEF Old
<1>8. \A t : Brings(v, s, t) <=> Brings(w, s, t) \/ (m.type = "offer" /\ m.sess = s /\ t \in m.tracks)
  BY <1>1, <1>2 DEF Brings
<1> QED
  BY <1>1, <1>3, <1>4, <1>5, <1>6, <1>7, <1>8 DEF v

LEMMA AppendOpens ==
  ASSUME NEW w \in Seq(Envelope), NEW m \in Envelope, NEW s \in Int
  PROVE  /\ Opens(w, s) => Opens(Append(w, m), s)
         /\ Silent(w, s) /\ m.type = "join" /\ m.sess = s => Opens(Append(w, m), s)
<1> DEFINE v == Append(w, m)
<1>1. /\ Len(v) = Len(w) + 1 /\ Len(w) \in Nat
      /\ \A i \in 1 .. Len(w) : v[i] = w[i]
      /\ v[Len(w) + 1] = m
  OBVIOUS
<1>2. /\ Len(w) + 1 \in 1 .. Len(v)
      /\ \A i \in 1 .. Len(w) : i \in 1 .. Len(v) /\ \A j \in 1 .. i - 1 : j \in 1 .. Len(w)
      /\ \A j \in 1 .. (Len(w) + 1) - 1 : j \in 1 .. Len(w)
  BY <1>1
<1> HIDE DEF v
<1>3. Opens(w, s) => Opens(v, s)
  BY <1>1, <1>2 DEF Opens
<1>4. Silent(w, s) /\ m.type = "join" /\ m.sess = s => Opens(v, s)
  BY <1>1, <1>2 DEF Opens, Silent
<1> QED
  BY <1>3, <1>4 DEF v

LEMMA AppendEnds ==
  ASSUME NEW w \in Seq(Envelope), NEW m \in Envelope, NEW s \in Int
  PROVE  /\ m.type = "leave" => Ends(Append(w, m), s) /\ Finishes(Append(w, m))
         /\ Ends(w, s) /\ m.sess = s => Ends(Append(w, m), s)
<1> DEFINE v == Append(w, m)
<1>1. /\ Len(v) = Len(w) + 1 /\ Len(w) \in Nat
      /\ \A i \in 1 .. Len(w) : v[i] = w[i]
      /\ v[Len(w) + 1] = m
  OBVIOUS
<1>2. /\ \A i \in 1 .. Len(v) : i \in 1 .. Len(w) \/ (i = Len(w) + 1 /\ v[i] = m)
      /\ \A i \in 1 .. Len(v) : Len(w) + 1 \in i .. Len(v)
      /\ \A i \in 1 .. Len(w) : \A j \in i .. Len(w) : j \in 1 .. Len(w) /\ j \in i .. Len(v)
  BY <1>1
<1> HIDE DEF v
<1>3. m.type = "leave" => Ends(v, s) /\ Finishes(v)
  BY <1>1, <1>2 DEF Ends, Finishes
<1>4. ASSUME Ends(w, s), m.sess = s, NEW i \in 1 .. Len(v), v[i].sess # s
      PROVE  \E j \in i .. Len(v) : v[j].type = "leave"
  <2>1. i \in 1 .. Len(w) /\ w[i].sess # s
    BY <1>1, <1>2, <1>4
  <2>2. PICK j \in i .. Len(w) : w[j].type = "leave"
    BY <1>4, <2>1 DEF Ends
  <2> QED
    BY <1>1, <1>2, <2>1, <2>2
<1>5. Ends(w, s) /\ m.sess = s => Ends(v, s)
  BY <1>4 DEF Ends
<1> QED
  BY <1>3, <1>5 DEF v

LEMMA AppendOrder ==
  ASSUME NEW w \in Seq(Envelope), NEW m \in Envelope, NEW s \in Int, NEW n \in Int, NEW f,
         Within(w, s), m.sess = s, s >= 1
  PROVE  /\ Within(Append(w, m), s)
         /\ Rising(w) /\ Below(w, s, m.seq) => Rising(Append(w, m))
         /\ Above(w, f) /\ f[s] < m.seq => Above(Append(w, m), f)
         /\ Below(w, s, n) /\ m.seq < n => Below(Append(w, m), s, n)
<1> DEFINE v == Append(w, m)
<1>1. /\ Len(v) = Len(w) + 1 /\ Len(w) \in Nat
      /\ \A i \in 1 .. Len(w) : v[i] = w[i] /\ w[i] \in Envelope
      /\ v[Len(w) + 1] = m
  OBVIOUS
<1>2. \A i \in 1 .. Len(v) : i \in 1 .. Len(w) \/ (i = Len(w) + 1 /\ v[i] = m)
  BY <1>1
<1> HIDE DEF v
<1>3. Within(v, s)
  BY <1>1, <1>2 DEF Within
<1>4. Above(w, f) /\ f[s] < m.seq => Above(v, f)
  BY <1>1, <1>2 DEF Above
<1>5. Below(w, s, n) /\ m.seq < n => Below(v, s, n)
  BY <1>1, <1>2 DEF Below
<1>6. ASSUME Rising(w), Below(w, s, m.seq), NEW i \in 1 .. Len(v), NEW j \in 1 .. Len(v), i < j
      PROVE  v[i].sess < v[j].sess \/ (v[i].sess = v[j].sess /\ v[i].seq < v[j].seq)
  <2>1. i \in 1 .. Len(w)
    BY <1>1, <1>2, <1>6
  <2>2. CASE j \in 1 .. Len(w)
    BY <1>1, <1>6, <2>1, <2>2 DEF Rising
  <2>3. CASE v[j] = m
    <3>1. w[i].sess \in 1 .. s /\ (w[i].sess = s => w[i].seq < m.seq)
      BY <1>6, <2>1 DEF Within, Below
    <3>2. w[i].sess < s \/ (w[i].sess = s /\ w[i].seq < m.seq)
      BY <3>1
    <3> QED
      BY <1>1, <2>1, <2>3, <3>2
  <2> QED
    BY <1>2, <2>2, <2>3
<1>7. Rising(w) /\ Below(w, s, m.seq) => Rising(v)
  BY <1>6 DEF Rising
<1> QED
  BY <1>3, <1>4, <1>5, <1>7 DEF v

\* A leave that is not of the session is old.
LEMMA LeaveOld ==
  ASSUME NEW w \in Seq(Envelope), NEW s \in Int, ~NoLeave(w), ~HasLeave(w, s)
  PROVE  Old(w, s)
BY DEF NoLeave, HasLeave, Old

\* What was said before the first envelope is read, after.
LEMMA TailSays ==
  ASSUME NEW w \in Seq(Envelope), w # <<>>, NEW s \in Int
  PROVE  LET v == Tail(w) m == Head(w) IN
         /\ v \in Seq(Envelope) /\ m \in Envelope
         /\ NoLeave(w) <=> NoLeave(v) /\ m.type # "leave"
         /\ HasLeave(w, s) <=> HasLeave(v, s) \/ (m.type = "leave" /\ m.sess = s)
         /\ Live(w, s) <=> Live(v, s) \/ (m.type # "leave" /\ m.sess = s)
         /\ Offers(w, s) <=> Offers(v, s) \/ (m.type = "offer" /\ m.sess = s)
         /\ Old(w, s) <=> Old(v, s) \/ m.sess # s
         /\ \A t : Brings(w, s, t) <=> Brings(v, s, t) \/ (m.type = "offer" /\ m.sess = s /\ t \in m.tracks)
<1> DEFINE v == Tail(w)
           m == Head(w)
<1>1. /\ v \in Seq(Envelope) /\ m \in Envelope /\ Len(v) = Len(w) - 1 /\ Len(w) \in Nat /\ Len(w) >= 1
      /\ \A i \in 1 .. Len(v) : v[i] = w[i + 1]
      /\ w[1] = m
  OBVIOUS
<1>2. /\ \A i \in 1 .. Len(v) : i + 1 \in 1 .. Len(w)
      /\ 1 \in 1 .. Len(w)
      /\ \A i \in 1 .. Len(w) : i = 1 \/ (i - 1 \in 1 .. Len(v) /\ w[i] = v[i - 1])
  <2>1. ASSUME NEW i \in 1 .. Len(w), i # 1 PROVE i - 1 \in 1 .. Len(v) /\ w[i] = v[i - 1]
    <3>1. i - 1 \in 1 .. Len(v) /\ (i - 1) + 1 = i
      BY <1>1, <2>1
    <3> QED
      BY <1>1, <3>1
  <2> QED
    BY <1>1, <2>1
<1> HIDE DEF v, m
<1>3. NoLeave(w) <=> NoLeave(v) /\ m.type # "leave"
  BY <1>1, <1>2 DEF NoLeave
<1>4. HasLeave(w, s) <=> HasLeave(v, s) \/ (m.type = "leave" /\ m.sess = s)
  BY <1>1, <1>2 DEF HasLeave
<1>5. Live(w, s) <=> Live(v, s) \/ (m.type # "leave" /\ m.sess = s)
  BY <1>1, <1>2 DEF Live
<1>6. Offers(w, s) <=> Offers(v, s) \/ (m.type = "offer" /\ m.sess = s)
  BY <1>1, <1>2 DEF Offers
<1>7. Old(w, s) <=> Old(v, s) \/ m.sess # s
  BY <1>1, <1>2 DEF Old
<1>8. \A t : Brings(w, s, t) <=> Brings(v, s, t) \/ (m.type = "offer" /\ m.sess = s /\ t \in m.tracks)
  BY <1>1, <1>2 DEF Brings
<1> QED
  BY <1>1, <1>3, <1>4, <1>5, <1>6, <1>7, <1>8 DEF v, m

LEMMA TailOpens ==
  ASSUME NEW w \in Seq(Envelope), w # <<>>, NEW s \in Int, Opens(w, s)
  PROVE  \/ Head(w).type = "join" /\ Head(w).sess = s
         \/ Head(w).sess # s /\ Opens(Tail(w), s)
<1> DEFINE v == Tail(w)
<1>1. /\ Len(v) = Len(w) - 1 /\ Len(w) \in Nat
      /\ \A i \in 1 .. Len(v) : v[i] = w[i + 1]
      /\ w[1] = Head(w)
  OBVIOUS
<1>2. PICK i \in 1 .. Len(w) : w[i].type = "join" /\ w[i].sess = s /\ \A j \in 1 .. i - 1 : w[j].sess # s
  BY DEF Opens
<1>3. CASE i = 1
  BY <1>1, <1>2, <1>3
<1>4. CASE i # 1
  <2>1. i - 1 \in 1 .. Len(v) /\ v[i - 1] = w[i]
    <3>1. i - 1 \in 1 .. Len(v) /\ (i - 1) + 1 = i
      BY <1>1, <1>4
    <3> QED
      BY <1>1, <3>1
  <2>2. ASSUME NEW j \in 1 .. (i - 1) - 1 PROVE v[j].sess # s
    <3>1. j \in 1 .. Len(v) /\ j + 1 \in 1 .. i - 1
      BY <1>1, <2>1
    <3> QED
      BY <1>1, <1>2, <3>1
  <2>3. 1 \in 1 .. i - 1
    BY <1>4
  <2> QED
    BY <1>1, <1>2, <2>1, <2>2, <2>3 DEF Opens
<1> QED
  BY <1>3, <1>4

LEMMA TailEnds ==
  ASSUME NEW w \in Seq(Envelope), w # <<>>, NEW s \in Int, Ends(w, s)
  PROVE  /\ Ends(Tail(w), s)
         /\ Finishes(w) => Finishes(Tail(w)) /\ ~NoLeave(w)
         /\ Head(w).sess # s => ~NoLeave(w)
<1> DEFINE v == Tail(w)
<1>1. /\ Len(v) = Len(w) - 1 /\ Len(w) \in Nat /\ Len(w) >= 1
      /\ \A i \in 1 .. Len(v) : v[i] = w[i + 1]
      /\ w[1] = Head(w)
  OBVIOUS
<1> HIDE DEF v
<1>2. ASSUME NEW i \in 1 .. Len(v), v[i].sess # s \/ Finishes(w)
      PROVE  \E j \in i .. Len(v) : v[j].type = "leave"
  <2>1. i + 1 \in 1 .. Len(w) /\ (w[i + 1].sess # s \/ Finishes(w))
    BY <1>1, <1>2
  <2>2. PICK j \in i + 1 .. Len(w) : w[j].type = "leave"
    BY <2>1 DEF Ends, Finishes
  <2>3. j - 1 \in i .. Len(v) /\ j - 1 \in 1 .. Len(v) /\ (j - 1) + 1 = j
    BY <1>1, <2>2
  <2> QED
    BY <1>1, <2>2, <2>3
<1>3. Ends(v, s) /\ (Finishes(w) => Finishes(v))
  BY <1>2 DEF Ends, Finishes
<1>4. (Head(w).sess # s \/ Finishes(w)) => ~NoLeave(w)
  BY <1>1 DEF Ends, Finishes, NoLeave
<1> QED
  BY <1>3, <1>4 DEF v

LEMMA TailOrder ==
  ASSUME NEW w \in Seq(Envelope), w # <<>>, NEW s \in Int, NEW n \in Int, NEW f,
         Within(w, s), Rising(w)
  PROVE  LET v == Tail(w) m == Head(w) IN
         /\ Within(v, s) /\ m.sess \in 1 .. s /\ Rising(v)
         /\ m.sess = s => ~Old(v, s)
         /\ Above(w, f) => f[m.sess] < m.seq /\ \A i \in 1 .. Len(v) : f[v[i].sess] < v[i].seq
         /\ \A i \in 1 .. Len(v) : v[i].sess = m.sess => m.seq < v[i].seq
         /\ Below(w, s, n) => Below(v, s, n) /\ (m.sess = s => m.seq < n)
<1> DEFINE v == Tail(w)
           m == Head(w)
<1>1. /\ v \in Seq(Envelope) /\ m \in Envelope /\ Len(v) = Len(w) - 1 /\ Len(w) \in Nat /\ Len(w) >= 1
      /\ \A i \in 1 .. Len(v) : v[i] = w[i + 1] /\ v[i] \in Envelope
      /\ w[1] = m
  OBVIOUS
<1>2. \A i \in 1 .. Len(v) : i + 1 \in 1 .. Len(w) /\ 1 < i + 1
  BY <1>1
<1>3. 1 \in 1 .. Len(w)
  BY <1>1
<1> HIDE DEF v, m
<1>4. Within(v, s) /\ m.sess \in 1 .. s
  BY <1>1, <1>2, <1>3 DEF Within
<1>5. ASSUME NEW i \in 1 .. Len(v), NEW j \in 1 .. Len(v), i < j
      PROVE  v[i].sess < v[j].sess \/ (v[i].sess = v[j].sess /\ v[i].seq < v[j].seq)
  <2>1. i + 1 < j + 1 /\ i + 1 \in 1 .. Len(w) /\ j + 1 \in 1 .. Len(w)
    BY <1>2, <1>5
  <2>2. \/ w[i + 1].sess < w[j + 1].sess
        \/ w[i + 1].sess = w[j + 1].sess /\ w[i + 1].seq < w[j + 1].seq
    BY <2>1 DEF Rising
  <2>3. v[i] = w[i + 1] /\ v[j] = w[j + 1]
    BY <1>1
  <2> QED
    BY <2>2, <2>3
<1>6. ASSUME NEW i \in 1 .. Len(v)
      PROVE  m.sess < v[i].sess \/ (m.sess = v[i].sess /\ m.seq < v[i].seq)
  BY <1>1, <1>2, <1>3, <1>6 DEF Rising
<1>7. m.sess = s => ~Old(v, s)
  <2> SUFFICES ASSUME m.sess = s, NEW i \in 1 .. Len(v) PROVE v[i].sess = s
    BY DEF Old
  <2>1. v[i].sess \in 1 .. s /\ (m.sess < v[i].sess \/ m.sess = v[i].sess)
    BY <1>4, <1>6 DEF Within
  <2> QED
    BY <2>1
<1>8. \A i \in 1 .. Len(v) : v[i].sess = m.sess => m.seq < v[i].seq
  <2> SUFFICES ASSUME NEW i \in 1 .. Len(v), v[i].sess = m.sess PROVE m.seq < v[i].seq
    OBVIOUS
  <2>1. m.sess \in Int
    BY <1>1 DEF Envelope
  <2> QED
    BY <1>6, <2>1
<1>9. Above(w, f) => f[m.sess] < m.seq /\ \A i \in 1 .. Len(v) : f[v[i].sess] < v[i].seq
  BY <1>1, <1>2, <1>3 DEF Above
<1>10. Below(w, s, n) => Below(v, s, n) /\ (m.sess = s => m.seq < n)
  BY <1>1, <1>2, <1>3 DEF Below
<1>11. Rising(v)
  BY <1>5 DEF Rising
<1> QED
  BY <1>4, <1>7, <1>8, <1>9, <1>10, <1>11 DEF v, m

-----------------------------------------------------------------------------
(* One end of a pair: what p holds about q, and the wire from p to q.      *)

\* The calls of p about q.
About(p, q) == {u \in tasks[p] : u.who = q}
\* p is calling q: a reply task, or a connection being made that will offer.
Calls(p, q) ==
  \E u \in About(p, q) : u.at = "reply" \/ (u.at \in {"ice", "setup"} /\ u.why # "offer")
Busy(p, q) == About(p, q) # {}
\* What p accepted of the sessions of q, the tracks it added for q, and the
\* tracks of q that it heard or that an offer brought which still waits.
Read(p, q) == [s \in 1 .. MaxSess |-> seen[p][<<q, s>>]]
Put(p, q) == {t \in Track : q \in visited[p][t]}
Hear(p, q) ==
  heard[p][q] \cup {t \in Track : \E u \in About(p, q) : u.why = "offer" /\ t \in u.got}

End(p, q) ==
  [l |-> life[p], n |-> seq[p], f |-> Read(p, q), k |-> q \in remotes[p], out |-> wire[p][q],
   pubs |-> pubs[p], put |-> Put(p, q), got |-> Hear(p, q), calls |-> Calls(p, q), busy |-> Busy(p, q)]

Left(l) == l.leaveAt \in {"transport", "done", "crashed"}
Announced(l) == l.joinAt = "announce" \/ l.joined
\* The peer of o is in its session: something of it is on the wire.
Speaks(o) == Live(o.out, o.l.sess)
\* e has the peer of o in its roster, and no leave is about to take it out.
Knows(e, o) == e.k /\ NoLeave(o.out)
\* ... or will have it, once it reads what is on the wire.
Has(e, o) == Knows(e, o) \/ (e.l.attached > 0 /\ Speaks(o))
\* A join of e is on its way that o will answer.
Asks(e, o) == ~Knows(o, e) /\ Opens(e.out, e.l.sess)
Both(e, o) == ~e.l.closed /\ ~o.l.closed
\* The peer of o hears t, now or once it reads what is on the wire.
Got(e, o, t) == Brings(e.out, e.l.sess, t) \/ (NoLeave(e.out) /\ t \in o.got)

\* What was sent and what was accepted is in order.
Ordered(e, o) ==
  /\ Within(o.out, o.l.sess) /\ Rising(o.out) /\ Above(o.out, e.f)
  /\ o.l.leaveAt # "crashed" => Below(o.out, o.l.sess, o.n) /\ e.f[o.l.sess] < o.n
  /\ \A s \in o.l.sess + 1 .. MaxSess : e.f[s] = -1
  /\ HasLeave(o.out, o.l.sess) => Left(o.l)
\* An earlier session of o ends with a leave, and so does one that is left.
Closing(e, o) == Ends(o.out, o.l.sess) /\ (Left(o.l) => Finishes(o.out))
\* Who has a roster is in the room and listens.
Rooted(e) == e.k /\ ~e.l.closed => e.l.bound /\ e.l.attached > 0 /\ e.n > 0
\* Who is known has not left, and is in the room and listens.
Present(e, o) ==
  /\ ~e.l.closed /\ Knows(e, o) => ~Left(o.l)
  /\ ~Left(o.l) /\ (Speaks(o) \/ (~e.l.closed /\ Knows(e, o)))
       => o.l.bound /\ o.n > 0 /\ (~o.l.closed => o.l.attached > 0)
\* Calls are about the participants of the roster.
Owned(e) == e.busy => e.k
\* Who is known knows, or will.
Mutual(e, o) == Both(e, o) /\ Knows(o, e) => Has(e, o)
\* A participant that announced itself stays known, or will be known again.
Met(e, o) == Both(e, o) /\ Announced(o.l) /\ e.k => Has(e, o)
\* Behind an earlier session the announced one speaks.
Renewed(o) == ~o.l.closed /\ Announced(o.l) /\ Old(o.out, o.l.sess) => Speaks(o)
\* Nobody offers or replies to a peer it will not have.
Called(e, o) ==
  Both(e, o) /\ Announced(o.l) /\ (Offers(e.out, e.l.sess) \/ (Speaks(e) /\ ~Announced(e.l)))
    => Has(e, o)
\* Both announced: one has the other or asks it.
Greeted(e, o) == Both(e, o) /\ Announced(e.l) /\ Announced(o.l) => Has(e, o) \/ Asks(e, o)
\* What e publishes reaches o, or e is about to call o.
Fed(e, o) ==
  Both(e, o) /\ Knows(e, o) =>
    \A t \in Track : /\ t \in e.put => Got(e, o, t)
                     /\ t \in e.pubs => Got(e, o, t) \/ e.calls

Roots(e, o) == Ordered(e, o) /\ Closing(e, o) /\ Rooted(e) /\ Present(e, o) /\ Owned(e)
Links(e, o) ==
  Mutual(e, o) /\ Met(e, o) /\ Renewed(o) /\ Called(e, o) /\ Greeted(e, o) /\ Fed(e, o)
Pair(e, o) == Roots(e, o) /\ Links(e, o)

\* What a Room keeps whoever it meets.
More(l, n) ==
  /\ l.sess =< MaxSess /\ n >= 0 /\ l.failed >= 0
  /\ l.joined /\ ~l.closed => l.joinAt = "idle" /\ l.bound /\ l.tracked = 1
  /\ l.joinAt = "announce" => n > 0
  /\ l.leaveAt = "crashed" => ~l.bound

\* Nothing is on its way to a transport in no room.
Reads(e, o) == o.out # <<>> => e.l.bound

EndOK(e) ==
  /\ e.l \in Life /\ LifeOK(e.l) /\ e.n \in Int /\ More(e.l, e.n)
  /\ e.f \in [1 .. MaxSess -> Int] /\ e.out \in Seq(Envelope)
  /\ e.k \in BOOLEAN /\ e.calls \in BOOLEAN /\ e.busy \in BOOLEAN
Meet(e, o) ==
  EndOK(e) /\ EndOK(o) /\ Reads(e, o) /\ Reads(o, e) /\ Pair(e, o) /\ Pair(o, e)

\* The other end keeps all but what is on its wire.
Still(o, c) ==
  /\ c.l = o.l /\ c.n = o.n /\ c.f = o.f /\ c.k = o.k
  /\ c.pubs = o.pubs /\ c.put = o.put /\ c.got = o.got /\ c.calls = o.calls /\ c.busy = o.busy
\* A step that neither reads nor touches the mesh.
Aside(e, d) ==
  /\ d.f = e.f /\ d.k = e.k
  /\ d.pubs = e.pubs /\ d.put = e.put /\ d.got = e.got /\ d.calls = e.calls /\ d.busy = e.busy
Steady(l, r) ==
  r.sess = l.sess /\ r.closed = l.closed /\ r.leaveAt = l.leaveAt

-----------------------------------------------------------------------------
Waits(e, o, d, c) ==
  /\ Aside(e, d) /\ Steady(e.l, d.l) /\ d.n >= e.n /\ d.out = e.out /\ c.out = o.out
  /\ d.l.attached >= e.l.attached /\ (e.l.bound => d.l.bound)
  /\ Announced(d.l) <=> Announced(e.l)

\* A higher bound holds too.
LEMMA BelowMore ==
  ASSUME NEW w \in Seq(Envelope), NEW s \in Int, NEW n \in Int, NEW m \in Int, n =< m, Below(w, s, n)
  PROVE  Below(w, s, m)
<1>0. \A i \in 1 .. Len(w) : w[i] \in Envelope
  OBVIOUS
<1>1. \A i \in 1 .. Len(w) : w[i].seq \in Int
  BY <1>0 DEF Envelope
<1> QED
  BY <1>1 DEF Below

LEMMA EndTypes ==
  ASSUME NEW e, EndOK(e)
  PROVE  /\ e.l \in Life /\ LifeOK(e.l) /\ e.n \in Int /\ e.n >= 0
         /\ e.l.sess \in 1 .. MaxSess /\ e.l.sess \in Int /\ \A s \in 1 .. MaxSess : e.f[s] \in Int
         /\ e.l.attached \in Int /\ e.out \in Seq(Envelope)
<1>1. e.l \in Life
  BY DEF EndOK
<1>2. e.l.sess \in Nat \ {0} /\ e.l.attached \in Int
  BY <1>1, LifeFields
<1> QED
  BY <1>1, <1>2, RoomAssumption DEF EndOK, More, RoomAssumption

LEMMA WaitsMeet ==
  ASSUME NEW e, NEW o, NEW d, NEW c, Meet(e, o), EndOK(d), EndOK(c), Still(o, c), Waits(e, o, d, c)
  PROVE  Pair(d, c) /\ Pair(c, d)
<1>1. /\ Roots(e, o) /\ Roots(o, e) /\ Links(e, o) /\ Links(o, e)
      /\ d.out = e.out /\ c.out = o.out /\ d.n >= e.n /\ d.n \in Int /\ e.n \in Int
      /\ e.l.attached \in Int /\ d.l.attached \in Int /\ d.l.attached >= e.l.attached
  BY LifeFields DEF Meet, Pair, EndOK, Waits
<1>2. Ordered(d, c) /\ Closing(d, c)
  BY <1>1 DEF Roots, Ordered, Closing, Waits, Aside, Still
<1>3. Closing(c, d)
  BY <1>1 DEF Roots, Ordered, Closing, Waits, Aside, Still, Steady, Left
<1>4. Ordered(c, d)
  <2>1. Below(e.out, e.l.sess, e.n) => Below(d.out, d.l.sess, d.n)
    BY <1>1, EndTypes, BelowMore DEF Meet, Waits, Steady
  <2>2. o.f[e.l.sess] < e.n => c.f[d.l.sess] < d.n
    BY <1>1, EndTypes DEF Meet, Waits, Steady, Still
  <2> QED
    BY <1>1, <2>1, <2>2 DEF Roots, Ordered, Waits, Still, Steady, Left
<1>5. Rooted(d) /\ Rooted(c) /\ Owned(d) /\ Owned(c)
  BY <1>1 DEF Roots, Rooted, Owned, Waits, Aside, Still, Steady
<1>6. Present(d, c) /\ Present(c, d)
  BY <1>1 DEF Roots, Present, Knows, Speaks, Waits, Aside, Still, Steady, Left
<1>7. Has(e, o) => Has(d, c)
  BY <1>1 DEF Has, Knows, Speaks, Waits, Aside, Still, Steady
<1>8. Has(o, e) => Has(c, d)
  BY <1>1 DEF Has, Knows, Speaks, Waits, Aside, Still, Steady
<1>9. Mutual(d, c) /\ Mutual(c, d) /\ Met(d, c) /\ Met(c, d)
  BY <1>1, <1>7, <1>8 DEF Links, Mutual, Met, Both, Knows, Waits, Aside, Still, Steady
<1>10. Renewed(d) /\ Renewed(c)
  BY <1>1 DEF Links, Renewed, Speaks, Waits, Aside, Still, Steady
<1>11. Called(d, c) /\ Called(c, d)
  BY <1>1, <1>7, <1>8 DEF Links, Called, Both, Speaks, Waits, Aside, Still, Steady
<1>12. Greeted(d, c) /\ Greeted(c, d)
  BY <1>1, <1>7, <1>8 DEF Links, Greeted, Both, Asks, Knows, Waits, Aside, Still, Steady
<1>13. Fed(d, c) /\ Fed(c, d)
  BY <1>1 DEF Links, Fed, Both, Got, Knows, Waits, Aside, Still, Steady
<1> QED
  BY <1>2, <1>3, <1>4, <1>5, <1>6, <1>9, <1>10, <1>11, <1>12, <1>13 DEF Pair, Roots, Links

-----------------------------------------------------------------------------
\* A join that sent nothing is rolled back: the room is left, and what was on
\* its way is never read.
Unbinds(e, o, d, c) ==
  /\ Aside(e, d) /\ Steady(e.l, d.l) /\ e.n = 0 /\ d.n = 0 /\ d.out = e.out /\ c.out = <<>>
  /\ ~e.l.closed /\ ~Announced(d.l) /\ ~Announced(e.l) /\ d.l.attached = e.l.attached

LEMMA UnbindsMeet ==
  ASSUME NEW e, NEW o, NEW d, NEW c, Meet(e, o), EndOK(d), EndOK(c), Still(o, c), Unbinds(e, o, d, c)
  PROVE  Pair(d, c) /\ Pair(c, d)
<1>1. /\ Roots(e, o) /\ Roots(o, e) /\ Links(e, o) /\ Links(o, e)
      /\ d.out = e.out /\ c.out = <<>> /\ ~e.l.closed /\ ~d.l.closed /\ ~Left(e.l) /\ ~Left(d.l)
  BY EndTypes DEF Meet, Pair, Unbinds, Steady, LifeOK, Left
<1>2. ~e.k /\ ~Speaks(e) /\ (~o.l.closed => ~Knows(o, e))
  BY <1>1 DEF Roots, Rooted, Present, Unbinds
<1>3. ~d.k /\ ~Speaks(d) /\ (~c.l.closed => ~Knows(c, d)) /\ ~Speaks(c) /\ ~Knows(d, c)
  BY <1>1, <1>2, EmptyWire DEF Unbinds, Aside, Still, Steady, Speaks, Knows
<1>4. Ordered(d, c) /\ Closing(d, c)
  BY <1>1, EmptyWire, EndTypes DEF Roots, Ordered, Closing, Meet, Unbinds, Aside, Still
<1>5. Ordered(c, d) /\ Closing(c, d)
  BY <1>1 DEF Roots, Ordered, Closing, Unbinds, Still, Steady, Left
<1>6. Rooted(d) /\ Rooted(c) /\ Owned(d) /\ Owned(c) /\ Present(d, c) /\ Present(c, d)
  BY <1>1, <1>2, <1>3 DEF Roots, Rooted, Owned, Present, Unbinds, Aside, Still, Steady
<1>7. Has(o, e) <=> Has(c, d)
  BY <1>1 DEF Has, Knows, Speaks, Unbinds, Still, Steady
<1>8. Mutual(d, c) /\ Mutual(c, d) /\ Met(d, c) /\ Met(c, d)
  BY <1>1, <1>3 DEF Mutual, Met, Both, Unbinds
<1>9. Renewed(d) /\ Renewed(c)
  BY <1>1, EmptyWire DEF Renewed, Unbinds
<1>10. Offers(d.out, d.l.sess) => Speaks(d)
  BY DEF Offers, Speaks, Live
<1>11. Called(d, c) /\ Called(c, d)
  BY <1>1, <1>3, <1>10 DEF Called, Unbinds
<1>12. Greeted(d, c) /\ Greeted(c, d)
  BY <1>1 DEF Greeted, Unbinds
<1>13. Fed(d, c) /\ Fed(c, d)
  BY <1>1, <1>3 DEF Fed, Both
<1> QED
  BY <1>4, <1>5, <1>6, <1>8, <1>9, <1>11, <1>12, <1>13 DEF Pair, Roots, Links

\* An offer is of the session it was made in.
LEMMA OffersLive ==
  ASSUME NEW e
  PROVE  Offers(e.out, e.l.sess) => Speaks(e)
BY DEF Offers, Speaks, Live

\* What p posts, if both are in the room.
Posts(e, o, d, type) ==
  \/ ~(e.l.bound /\ o.l.bound) /\ d.out = e.out
  \/ /\ e.l.bound /\ o.l.bound
     /\ \E m \in Envelope :
          /\ m.type = type /\ m.seq = e.n /\ m.sess = e.l.sess
          /\ d.out = Append(e.out, m)

\* What an envelope of the session does to the order and to what is said.
LEMMA PostSays ==
  ASSUME NEW e, NEW o, NEW d, NEW type, EndOK(e), Posts(e, o, d, type), e.l.bound, o.l.bound
  PROVE  LET s == e.l.sess IN
         /\ NoLeave(d.out) <=> NoLeave(e.out) /\ type # "leave"
         /\ HasLeave(d.out, s) <=> HasLeave(e.out, s) \/ type = "leave"
         /\ Live(d.out, s) <=> Live(e.out, s) \/ type # "leave"
         /\ Offers(d.out, s) <=> Offers(e.out, s) \/ type = "offer"
         /\ Old(d.out, s) <=> Old(e.out, s)
         /\ Opens(e.out, s) => Opens(d.out, s)
         /\ Silent(e.out, s) /\ type = "join" => Opens(d.out, s)
         /\ type = "leave" => Ends(d.out, s) /\ Finishes(d.out)
         /\ Ends(e.out, s) => Ends(d.out, s)
         /\ \A t : Brings(e.out, s, t) => Brings(d.out, s, t)
<1>1. PICK m \in Envelope : m.type = type /\ m.seq = e.n /\ m.sess = e.l.sess /\ d.out = Append(e.out, m)
  BY DEF Posts
<1>2. e.out \in Seq(Envelope) /\ e.l.sess \in Int
  BY EndTypes
<1> QED
  BY <1>1, <1>2, AppendSays, AppendOpens, AppendEnds

LEMMA PostOrder ==
  ASSUME NEW e, NEW o, NEW d, NEW type, EndOK(e), EndOK(o), Posts(e, o, d, type), e.l.bound, o.l.bound,
         Within(e.out, e.l.sess), Rising(e.out), Below(e.out, e.l.sess, e.n), Above(e.out, o.f),
         o.f[e.l.sess] < e.n, NEW n \in Int, e.n < n
  PROVE  /\ Within(d.out, e.l.sess) /\ Rising(d.out) /\ Above(d.out, o.f)
         /\ Below(d.out, e.l.sess, n) /\ o.f[e.l.sess] < n
<1>1. PICK m \in Envelope : m.type = type /\ m.seq = e.n /\ m.sess = e.l.sess /\ d.out = Append(e.out, m)
  BY DEF Posts
<1>2. /\ e.out \in Seq(Envelope) /\ e.l.sess \in Int /\ e.n \in Int /\ e.l.sess >= 1
      /\ o.f[e.l.sess] \in Int
  BY EndTypes
<1>3. Below(e.out, e.l.sess, n) /\ o.f[e.l.sess] < n
  BY <1>2, BelowMore
<1> QED
  BY <1>1, <1>2, <1>3, AppendOrder

\* The join is announced to whoever is in the room.
Announces(e, o, d, c) ==
  /\ Aside(e, d) /\ Steady(e.l, d.l) /\ d.n = e.n + 1 /\ c.out = o.out /\ Posts(e, o, d, "join")
  /\ ~e.l.closed /\ e.l.bound /\ d.l.bound /\ e.l.attached > 0 /\ d.l.attached = e.l.attached
  /\ ~Announced(e.l) /\ Announced(d.l)

\* Who announced itself is in the room and listens.
LEMMA AnnouncedHere ==
  ASSUME NEW e, EndOK(e), Announced(e.l), ~e.l.closed
  PROVE  e.l.bound /\ e.l.attached > 0
<1>1. /\ LifeOK(e.l) /\ More(e.l, e.n) /\ ~e.l.raced
      /\ e.l.attached \in Int /\ e.l.failed \in Int /\ e.l.tracked \in Int
  BY EndTypes, LifeFields DEF EndOK, LifeOK
<1>2. CASE e.l.joinAt = "announce"
  BY <1>1, <1>2 DEF LifeOK, More
<1>3. CASE e.l.joined
  BY <1>1, <1>3 DEF LifeOK, More
<1> QED
  BY <1>2, <1>3 DEF Announced

LEMMA AnnouncesMeet ==
  ASSUME NEW e, NEW o, NEW d, NEW c, Meet(e, o), EndOK(d), EndOK(c), Still(o, c), Announces(e, o, d, c)
  PROVE  Pair(d, c) /\ Pair(c, d)
<1>1. /\ Roots(e, o) /\ Roots(o, e) /\ Links(e, o) /\ Links(o, e) /\ Reads(o, e) /\ EndOK(e) /\ EndOK(o)
      /\ c.out = o.out /\ ~e.l.closed /\ ~d.l.closed /\ ~Left(e.l) /\ ~Left(d.l) /\ e.l.bound /\ d.l.bound
      /\ d.n = e.n + 1 /\ e.n \in Int /\ e.n >= 0 /\ e.l.sess = d.l.sess /\ c.l = o.l /\ c.k = o.k /\ d.k = e.k
      /\ e.l.attached > 0 /\ d.l.attached = e.l.attached /\ ~Announced(e.l) /\ Announced(d.l)
      /\ Posts(e, o, d, "join") /\ e.l.leaveAt # "crashed" /\ d.l.leaveAt # "crashed"
  BY EndTypes DEF Meet, Pair, Announces, Steady, LifeOK, Left, Still, Aside
<1>2. CASE ~o.l.bound
  <2>1. d.out = e.out /\ e.out = <<>> /\ (o.l.closed \/ ~Announced(o.l)) /\ (o.l.closed \/ ~o.k)
    BY <1>1, <1>2, AnnouncedHere DEF Posts, Reads, Roots, Rooted
  <2>2. (~Knows(e, o) /\ ~Speaks(o)) \/ o.l.closed
    BY <1>1, <1>2 DEF Roots, Present, LifeOK, Left, EndOK
  <2>3. Ordered(d, c) /\ Closing(d, c) /\ Closing(c, d)
    BY <1>1, <2>1, EmptyWire DEF Roots, Ordered, Closing, Announces, Aside, Still, Left
  <2>4. Ordered(c, d)
    <3>1. o.f[e.l.sess] < e.n /\ o.f[e.l.sess] \in Int
      BY <1>1, EndTypes DEF Roots, Ordered
    <3>2. c.f = o.f /\ o.f[e.l.sess] < d.n
      BY <1>1, <3>1 DEF Still
    <3>3. /\ Within(d.out, d.l.sess) /\ Rising(d.out) /\ Above(d.out, c.f) /\ Below(d.out, d.l.sess, d.n)
          /\ ~HasLeave(d.out, d.l.sess)
      BY <2>1, EmptyWire
    <3> QED
      BY <1>1, <3>2, <3>3 DEF Roots, Ordered
  <2>5. Rooted(d) /\ Rooted(c) /\ Owned(d) /\ Owned(c)
    BY <1>1 DEF Roots, Rooted, Owned, Announces, Aside, Still, Steady
  <2>6. Present(d, c) /\ Present(c, d)
    BY <1>1, <2>1, EmptyWire DEF Roots, Present, Knows, Speaks, Announces, Aside, Still, Steady
  <2>7. Mutual(d, c) /\ Mutual(c, d) /\ Met(d, c) /\ Met(c, d) /\ Fed(d, c) /\ Fed(c, d)
    BY <1>1, <2>1, <2>2 DEF Mutual, Met, Fed, Both, Knows, Speaks
  <2>8. Renewed(d) /\ Renewed(c)
    BY <1>1, <2>1, EmptyWire DEF Renewed
  <2>9. Called(d, c) /\ Called(c, d) /\ Greeted(d, c) /\ Greeted(c, d)
    <3>1. c.l.closed \/ (~Offers(c.out, c.l.sess) /\ ~Speaks(c))
      <4>1. Offers(o.out, o.l.sess) => Speaks(o)
        BY OffersLive
      <4>2. Speaks(c) <=> Speaks(o)
        BY <1>1 DEF Speaks
      <4> QED
        BY <1>1, <2>2, <4>1, <4>2
    <3> QED
      BY <1>1, <2>1, <3>1 DEF Called, Greeted, Both
  <2> QED
    BY <2>3, <2>4, <2>5, <2>6, <2>7, <2>8, <2>9 DEF Pair, Roots, Links
<1>3. CASE o.l.bound
  <2>1. /\ NoLeave(d.out) <=> NoLeave(e.out)
        /\ HasLeave(d.out, e.l.sess) <=> HasLeave(e.out, e.l.sess)
        /\ Live(d.out, e.l.sess) /\ (Offers(d.out, e.l.sess) <=> Offers(e.out, e.l.sess))
        /\ Old(d.out, e.l.sess) <=> Old(e.out, e.l.sess)
        /\ Silent(e.out, e.l.sess) => Opens(d.out, e.l.sess)
        /\ Ends(e.out, e.l.sess) => Ends(d.out, e.l.sess)
        /\ \A t : Brings(e.out, e.l.sess, t) => Brings(d.out, e.l.sess, t)
    BY <1>1, <1>3, PostSays
  <2>2. Speaks(d) /\ (Knows(d, c) <=> Knows(e, o)) /\ (Knows(c, d) <=> Knows(o, e)) /\ (Speaks(c) <=> Speaks(o))
    BY <1>1, <2>1 DEF Knows, Speaks
  <2>3. Ordered(d, c) /\ Closing(d, c)
    BY <1>1 DEF Roots, Ordered, Closing, Announces, Aside, Still
  <2>4. Ordered(c, d)
    <3>1. Within(d.out, e.l.sess) /\ Rising(d.out) /\ Above(d.out, o.f) /\ Below(d.out, e.l.sess, d.n) /\ o.f[e.l.sess] < d.n
      BY <1>1, <1>3, PostOrder DEF Roots, Ordered
    <3> QED
      BY <1>1, <2>1, <3>1 DEF Roots, Ordered, Still, Announces
  <2>5. Closing(c, d)
    BY <1>1, <2>1 DEF Roots, Closing
  <2>6. Rooted(d) /\ Rooted(c) /\ Owned(d) /\ Owned(c)
    BY <1>1 DEF Roots, Rooted, Owned, Announces, Aside, Still, Steady
  <2>7. Present(d, c) /\ Present(c, d)
    BY <1>1, <2>2 DEF Roots, Present, Announces, Aside, Still, Steady
  <2>8. (Has(d, c) <=> Has(e, o)) /\ (Has(o, e) => Has(c, d)) /\ (~o.l.closed /\ o.l.attached > 0 => Has(c, d))
    BY <1>1, <2>2 DEF Has
  <2>9. Mutual(d, c) /\ Mutual(c, d)
    BY <1>1, <2>2, <2>8 DEF Links, Mutual, Both
  <2>10. Met(d, c) /\ Met(c, d)
    BY <1>1, <2>8 DEF Links, Met, Both, Roots, Rooted
  <2>11. Renewed(d) /\ Renewed(c)
    BY <1>1, <2>2 DEF Links, Renewed, Speaks
  <2>12. Called(d, c) /\ Called(c, d)
    <3>1. Offers(o.out, o.l.sess) => Speaks(o)
      BY OffersLive
    <3>2. ~o.l.closed => ~Left(o.l)
      BY <1>1 DEF EndOK, LifeOK, Left
    <3>3. ~o.l.closed /\ (Offers(c.out, c.l.sess) \/ Speaks(c)) => o.l.attached > 0
      BY <1>1, <2>2, <3>1, <3>2 DEF Roots, Present
    <3> QED
      BY <1>1, <2>1, <2>2, <2>8, <3>3 DEF Links, Called, Both
  <2>13. Greeted(c, d)
    BY <1>1, <2>8, AnnouncedHere DEF Greeted, Both
  <2>14. Greeted(d, c)
    <3> SUFFICES ASSUME ~o.l.closed, Announced(o.l), ~Has(e, o) PROVE Asks(d, c)
      BY <1>1, <2>8 DEF Greeted, Both
    <3>1. ~Knows(c, d) /\ ~Speaks(e)
      BY <1>1, <2>2 DEF Links, Mutual, Called, Both
    <3>2. ~HasLeave(e.out, e.l.sess)
      BY <1>1 DEF Roots, Ordered
    <3>3. Silent(e.out, e.l.sess)
      BY <3>1, <3>2 DEF Silent, Speaks, Live, HasLeave
    <3> QED
      BY <1>1, <2>1, <3>1, <3>3 DEF Asks
  <2>15. Fed(d, c) /\ Fed(c, d)
    BY <1>1, <2>1, <2>2 DEF Links, Fed, Both, Got, Announces, Aside, Still
  <2> QED
    BY <2>3, <2>4, <2>5, <2>6, <2>7, <2>9, <2>10, <2>11, <2>12, <2>13, <2>14, <2>15 DEF Pair, Roots, Links
<1> QED
  BY <1>2, <1>3

\* leave() starts: from here on e is closed.
Closes(e, o, d, c) ==
  /\ Aside(e, d) /\ d.n = e.n /\ d.out = e.out /\ c.out = o.out
  /\ d.l.sess = e.l.sess /\ d.l.closed /\ ~Left(d.l) /\ ~Left(e.l)
  /\ d.l.bound = e.l.bound /\ d.l.attached = e.l.attached

LEMMA ClosesMeet ==
  ASSUME NEW e, NEW o, NEW d, NEW c, Meet(e, o), EndOK(d), EndOK(c), Still(o, c), Closes(e, o, d, c)
  PROVE  Pair(d, c) /\ Pair(c, d)
<1>1. /\ Roots(e, o) /\ Roots(o, e) /\ Links(e, o) /\ d.l.closed
      /\ d.out = e.out /\ c.out = o.out /\ d.n = e.n /\ d.l.sess = e.l.sess /\ ~Left(d.l) /\ ~Left(e.l)
      /\ d.l.leaveAt # "crashed" /\ e.l.leaveAt # "crashed" /\ d.l.bound = e.l.bound
      /\ d.f = e.f /\ d.k = e.k /\ d.busy = e.busy
      /\ c.l = o.l /\ c.n = o.n /\ c.f = o.f /\ c.k = o.k /\ c.busy = o.busy
  BY DEF Meet, Pair, Closes, Aside, Still, Left
<1>2. Ordered(d, c) /\ Ordered(c, d) /\ Closing(d, c) /\ Closing(c, d)
  BY <1>1 DEF Roots, Ordered, Closing
<1>3. Rooted(d) /\ Rooted(c) /\ Owned(d) /\ Owned(c)
  BY <1>1 DEF Roots, Rooted, Owned
<1>4. Present(d, c) /\ Present(c, d)
  BY <1>1 DEF Roots, Present, Knows, Speaks
<1>5. Mutual(d, c) /\ Mutual(c, d) /\ Met(d, c) /\ Met(c, d) /\ Called(d, c) /\ Called(c, d)
      /\ Greeted(d, c) /\ Greeted(c, d) /\ Fed(d, c) /\ Fed(c, d)
  BY <1>1 DEF Mutual, Met, Called, Greeted, Fed, Both
<1>6. Renewed(d) /\ Renewed(c)
  BY <1>1 DEF Links, Renewed, Speaks
<1> QED
  BY <1>2, <1>3, <1>4, <1>5, <1>6 DEF Pair, Roots, Links

\* The leave is out.
Bids(e, o, d, c) ==
  /\ Aside(e, d) /\ d.n = e.n + 1 /\ c.out = o.out /\ Posts(e, o, d, "leave")
  /\ d.l.sess = e.l.sess /\ e.l.closed /\ d.l.closed /\ ~Left(e.l) /\ Left(d.l)
  /\ e.l.leaveAt # "crashed" /\ d.l.leaveAt # "crashed"
  /\ d.l.bound = e.l.bound /\ d.l.attached = e.l.attached

LEMMA BidsMeet ==
  ASSUME NEW e, NEW o, NEW d, NEW c, Meet(e, o), EndOK(d), EndOK(c), Still(o, c), Bids(e, o, d, c)
  PROVE  Pair(d, c) /\ Pair(c, d)
<1>1. /\ Roots(e, o) /\ Roots(o, e) /\ Links(e, o) /\ Reads(o, e) /\ EndOK(e) /\ EndOK(o)
      /\ d.l.closed /\ c.out = o.out /\ d.n = e.n + 1 /\ d.l.sess = e.l.sess /\ Left(d.l) /\ ~Left(e.l)
      /\ d.l.leaveAt # "crashed" /\ e.l.leaveAt # "crashed" /\ d.l.bound = e.l.bound /\ e.n \in Int
      /\ d.f = e.f /\ d.k = e.k /\ d.busy = e.busy /\ Posts(e, o, d, "leave") /\ e.n >= 0
      /\ c.l = o.l /\ c.n = o.n /\ c.f = o.f /\ c.k = o.k /\ c.busy = o.busy /\ e.out \in Seq(Envelope)
  BY EndTypes DEF Meet, Pair, Bids, Aside, Still
<1>2. o.f[e.l.sess] < d.n /\ o.f[e.l.sess] < e.n
  BY <1>1, EndTypes DEF Roots, Ordered
<1>3. ASSUME e.l.bound, o.l.bound PROVE Ordered(c, d) /\ Closing(c, d) /\ Present(c, d)
  <2>1. /\ ~NoLeave(d.out)
        /\ Live(d.out, e.l.sess) <=> Live(e.out, e.l.sess)
        /\ Old(d.out, e.l.sess) <=> Old(e.out, e.l.sess)
        /\ Ends(d.out, e.l.sess) /\ Finishes(d.out)
    BY <1>1, <1>3, PostSays
  <2>2. Within(d.out, e.l.sess) /\ Rising(d.out) /\ Above(d.out, o.f) /\ Below(d.out, e.l.sess, d.n)
    BY <1>1, <1>2, <1>3, PostOrder DEF Roots, Ordered
  <2>3. Ordered(c, d) /\ Closing(c, d)
    BY <1>1, <1>2, <2>1, <2>2 DEF Roots, Ordered, Closing
  <2>4. Present(c, d)
    BY <1>1, <2>1 DEF Present, Knows
  <2> QED
    BY <2>3, <2>4
<1>4. ASSUME ~(e.l.bound /\ o.l.bound) PROVE Ordered(c, d) /\ Closing(c, d) /\ Present(c, d)
  <2>1. d.out = e.out
    BY <1>1, <1>4 DEF Posts
  <2>2. Ordered(c, d)
    <3>1. Below(e.out, e.l.sess, d.n)
      BY <1>1, EndTypes, BelowMore DEF Roots, Ordered
    <3> QED
      BY <1>1, <1>2, <2>1, <3>1 DEF Roots, Ordered
  <2>3. Finishes(e.out)
    <3>1. CASE ~o.l.bound
      BY <1>1, <3>1, EmptyWire DEF Reads
    <3>2. CASE ~e.l.bound
      <4>1. ~Live(e.out, e.l.sess) /\ ~HasLeave(e.out, e.l.sess)
        BY <1>1, <3>2 DEF Roots, Ordered, Present, Speaks
      <4>2. \A i \in 1 .. Len(e.out) : e.out[i].sess # e.l.sess
        BY <4>1 DEF Live, HasLeave
      <4> QED
        BY <1>1, <4>2 DEF Roots, Closing, Ends, Finishes
    <3> QED
      BY <1>4, <3>1, <3>2
  <2>4. Closing(c, d)
    BY <1>1, <2>1, <2>3 DEF Roots, Closing
  <2>5. Present(c, d)
    <3>1. o.l.closed \/ ~Knows(o, e)
      BY <1>1, <1>4 DEF Roots, Rooted, Present, Knows
    <3> QED
      BY <1>1, <2>1, <3>1 DEF Present, Knows
  <2> QED
    BY <2>2, <2>4, <2>5
<1>5. Ordered(d, c) /\ Closing(d, c) /\ Rooted(d) /\ Rooted(c) /\ Owned(d) /\ Owned(c)
  BY <1>1 DEF Roots, Ordered, Closing, Rooted, Owned
<1>6. Present(d, c)
  BY <1>1 DEF Roots, Present, Knows, Speaks
<1>7. Mutual(d, c) /\ Mutual(c, d) /\ Met(d, c) /\ Met(c, d) /\ Called(d, c) /\ Called(c, d)
      /\ Greeted(d, c) /\ Greeted(c, d) /\ Fed(d, c) /\ Fed(c, d)
  BY <1>1 DEF Mutual, Met, Called, Greeted, Fed, Both
<1>8. Renewed(d) /\ Renewed(c)
  BY <1>1 DEF Links, Renewed, Speaks
<1> QED
  BY <1>3, <1>4, <1>5, <1>6, <1>7, <1>8 DEF Pair, Roots, Links

\* The transport is left, or fails to leave.
Detaches(e, o, d, c) ==
  /\ Aside(e, d) /\ d.n = e.n /\ d.out = e.out /\ c.out \in {o.out, <<>>}
  /\ d.l.sess = e.l.sess /\ e.l.closed /\ d.l.closed /\ Left(e.l) /\ Left(d.l)
  /\ e.l.leaveAt # "crashed" /\ d.l.leaveAt # "crashed"

LEMMA DetachesMeet ==
  ASSUME NEW e, NEW o, NEW d, NEW c, Meet(e, o), EndOK(d), EndOK(c), Still(o, c), Detaches(e, o, d, c)
  PROVE  Pair(d, c) /\ Pair(c, d)
<1>1. /\ Roots(e, o) /\ Roots(o, e) /\ Links(e, o) /\ EndOK(e) /\ EndOK(o)
      /\ d.l.closed /\ e.l.closed /\ d.n = e.n /\ d.l.sess = e.l.sess /\ Left(d.l) /\ Left(e.l) /\ d.out = e.out
      /\ d.l.leaveAt # "crashed" /\ e.l.leaveAt # "crashed"
      /\ d.f = e.f /\ d.k = e.k /\ d.busy = e.busy /\ c.out \in {o.out, <<>>}
      /\ c.l = o.l /\ c.n = o.n /\ c.f = o.f /\ c.k = o.k /\ c.busy = o.busy
  BY DEF Meet, Pair, Detaches, Aside, Still
<1>2. Ordered(d, c) /\ Closing(d, c)
  BY <1>1, EmptyWire DEF Roots, Ordered, Closing
<1>3. Ordered(c, d) /\ Closing(c, d) /\ Rooted(d) /\ Rooted(c) /\ Owned(d) /\ Owned(c)
  BY <1>1 DEF Roots, Ordered, Closing, Rooted, Owned
<1>4. Present(c, d)
  BY <1>1 DEF Roots, Present, Knows, Speaks
<1>5. Present(d, c)
  BY <1>1, EmptyWire DEF Roots, Present, Knows, Speaks
<1>6. Mutual(d, c) /\ Mutual(c, d) /\ Met(d, c) /\ Met(c, d) /\ Called(d, c) /\ Called(c, d)
      /\ Greeted(d, c) /\ Greeted(c, d) /\ Fed(d, c) /\ Fed(c, d)
  BY <1>1 DEF Mutual, Met, Called, Greeted, Fed, Both
<1>7. Renewed(d) /\ Renewed(c)
  BY <1>1, EmptyWire DEF Links, Renewed, Speaks
<1> QED
  BY <1>2, <1>3, <1>4, <1>5, <1>6, <1>7 DEF Pair, Roots, Links

\* The mesh of e is gone.
Blank(d) == ~d.k /\ ~d.busy /\ \A s \in 1 .. MaxSess : d.f[s] = -1

\* It has accepted nothing, and nothing is on its way to it.
LEMMA BlankOrder ==
  ASSUME NEW d, NEW c, EndOK(c), Blank(d), c.out = <<>>
  PROVE  Ordered(d, c) /\ Closing(d, c)
<1>1. c.n >= 0 /\ c.n \in Int /\ c.l.sess \in 1 .. MaxSess
  BY EndTypes
<1>2. \A s \in c.l.sess + 1 .. MaxSess : s \in 1 .. MaxSess
  BY <1>1, RoomAssumption DEF RoomAssumption
<1>3. d.f[c.l.sess] < c.n /\ \A s \in c.l.sess + 1 .. MaxSess : d.f[s] = -1
  BY <1>1, <1>2 DEF Blank
<1> QED
  BY <1>3, EmptyWire DEF Ordered, Closing

\* The tab dies before it sent anything; the server sends its leave.
Dies(e, o, d, c) ==
  /\ Blank(d) /\ e.n = 0 /\ d.n = 0 /\ c.out = <<>> /\ e.l.bound /\ Posts(e, o, d, "leave")
  /\ d.l.sess = e.l.sess /\ d.l.closed /\ d.l.leaveAt = "crashed" /\ e.l.leaveAt # "crashed"

LEMMA DiesMeet ==
  ASSUME NEW e, NEW o, NEW d, NEW c, Meet(e, o), EndOK(d), EndOK(c), Still(o, c), Dies(e, o, d, c)
  PROVE  Pair(d, c) /\ Pair(c, d)
<1>1. /\ Roots(e, o) /\ Roots(o, e) /\ Links(e, o) /\ Reads(o, e) /\ EndOK(e) /\ EndOK(o)
      /\ Blank(d) /\ e.n = 0 /\ d.n = 0 /\ c.out = <<>> /\ e.l.bound /\ Posts(e, o, d, "leave")
      /\ d.l.sess = e.l.sess /\ d.l.closed /\ d.l.leaveAt = "crashed" /\ e.l.leaveAt # "crashed" /\ Left(d.l)
      /\ c.l = o.l /\ c.n = o.n /\ c.f = o.f /\ c.k = o.k /\ c.busy = o.busy
  BY DEF Meet, Pair, Dies, Still, Left
<1>2. Ordered(d, c) /\ Closing(d, c)
  BY <1>1, BlankOrder
<1>3. ASSUME o.l.bound PROVE Ordered(c, d) /\ Closing(c, d) /\ Present(c, d)
  <2>1. /\ ~NoLeave(d.out) /\ Ends(d.out, e.l.sess) /\ Finishes(d.out)
    BY <1>1, <1>3, PostSays
  <2>2. PICK n \in Int : n = 1
    OBVIOUS
  <2>3. Within(d.out, e.l.sess) /\ Rising(d.out) /\ Above(d.out, o.f)
    BY <1>1, <1>3, <2>2, PostOrder DEF Roots, Ordered
  <2> QED
    BY <1>1, <2>1, <2>3 DEF Roots, Ordered, Closing, Present, Knows
<1>4. ASSUME ~o.l.bound PROVE Ordered(c, d) /\ Closing(c, d) /\ Present(c, d)
  <2>1. d.out = <<>> /\ (o.l.closed \/ ~o.k)
    BY <1>1, <1>4 DEF Posts, Reads, Roots, Rooted
  <2> QED
    BY <1>1, <2>1, EmptyWire DEF Roots, Ordered, Closing, Present, Knows
<1>5. Rooted(d) /\ Rooted(c) /\ Owned(d) /\ Owned(c)
  BY <1>1 DEF Roots, Rooted, Owned, Blank
<1>6. Present(d, c)
  BY <1>1, EmptyWire DEF Present, Knows, Speaks, Blank
<1>7. Mutual(d, c) /\ Mutual(c, d) /\ Met(d, c) /\ Met(c, d) /\ Called(d, c) /\ Called(c, d)
      /\ Greeted(d, c) /\ Greeted(c, d) /\ Fed(d, c) /\ Fed(c, d)
  BY <1>1 DEF Mutual, Met, Called, Greeted, Fed, Both
<1>8. Renewed(d) /\ Renewed(c)
  BY <1>1, EmptyWire DEF Renewed
<1> QED
  BY <1>2, <1>3, <1>4, <1>5, <1>6, <1>7, <1>8 DEF Pair, Roots, Links

\* The next Room of a participant that left.
Reopens(e, o, d, c) ==
  /\ Blank(d) /\ d.n = 0 /\ d.out = e.out /\ c.out = <<>>
  /\ Left(e.l) /\ d.l.sess = e.l.sess + 1 /\ ~d.l.closed /\ ~Left(d.l) /\ ~Announced(d.l)

LEMMA ReopensMeet ==
  ASSUME NEW e, NEW o, NEW d, NEW c, Meet(e, o), EndOK(d), EndOK(c), Still(o, c), Reopens(e, o, d, c)
  PROVE  Pair(d, c) /\ Pair(c, d)
<1>1. /\ Roots(e, o) /\ Roots(o, e) /\ Links(e, o) /\ EndOK(e) /\ EndOK(o) /\ EndOK(d)
      /\ Blank(d) /\ d.n = 0 /\ c.out = <<>> /\ d.out = e.out
      /\ d.l.sess = e.l.sess + 1 /\ ~d.l.closed /\ ~Left(d.l) /\ Left(e.l) /\ ~Announced(d.l)
      /\ c.l = o.l /\ c.n = o.n /\ c.f = o.f /\ c.k = o.k /\ c.busy = o.busy
  BY DEF Meet, Pair, Reopens, Still
<1>2. Ordered(d, c) /\ Closing(d, c)
  BY <1>1, BlankOrder
<1>3. /\ e.l.sess \in 1 .. MaxSess /\ e.l.sess + 1 \in 1 .. MaxSess /\ MaxSess \in Nat /\ e.out \in Seq(Envelope)
      /\ Within(e.out, e.l.sess) /\ Finishes(e.out) /\ Rising(e.out) /\ Above(e.out, o.f)
  BY <1>1, EndTypes, RoomAssumption DEF Roots, Ordered, Closing, RoomAssumption
<1>4. \A i \in 1 .. Len(e.out) : e.out[i].sess \in 1 .. e.l.sess
  BY <1>3 DEF Within
<1>5. \A i \in 1 .. Len(e.out) : e.out[i].sess # d.l.sess /\ e.out[i].sess \in 1 .. d.l.sess
  BY <1>1, <1>3, <1>4
<1>6. ~Live(d.out, d.l.sess) /\ ~Offers(d.out, d.l.sess) /\ ~HasLeave(d.out, d.l.sess)
      /\ Within(d.out, d.l.sess) /\ Below(d.out, d.l.sess, 0) /\ Ends(d.out, d.l.sess)
  BY <1>1, <1>3, <1>5 DEF Live, Offers, HasLeave, Within, Below, Ends, Finishes
<1>7. Ordered(c, d)
  <2>1. e.l.sess + 1 \in e.l.sess + 1 .. MaxSess /\ \A s \in d.l.sess + 1 .. MaxSess : s \in e.l.sess + 1 .. MaxSess
    BY <1>1, <1>3
  <2>2. c.f[d.l.sess] = -1 /\ \A s \in d.l.sess + 1 .. MaxSess : c.f[s] = -1
    BY <1>1, <2>1 DEF Roots, Ordered
  <2> QED
    BY <1>1, <1>3, <1>6, <2>2 DEF Ordered
<1>8. Closing(c, d)
  BY <1>1, <1>6 DEF Closing
<1>9. Rooted(d) /\ Rooted(c) /\ Owned(d) /\ Owned(c)
  BY <1>1 DEF Roots, Rooted, Owned, Blank
<1>10. c.l.closed \/ ~Knows(c, d)
  BY <1>1 DEF Roots, Present, Knows
<1>11. Present(d, c) /\ Present(c, d)
  BY <1>1, <1>6, <1>10, EmptyWire DEF Present, Knows, Speaks, Blank
<1>12. Mutual(d, c) /\ Mutual(c, d) /\ Met(d, c) /\ Met(c, d)
  BY <1>1, <1>10 DEF Mutual, Met, Knows, Both, Blank
<1>13. Called(d, c) /\ Called(c, d) /\ Greeted(d, c) /\ Greeted(c, d)
  BY <1>1, <1>6 DEF Called, Greeted, Speaks
<1>14. Fed(d, c) /\ Fed(c, d)
  BY <1>1, <1>10 DEF Fed, Both, Knows, Blank
<1>15. Renewed(d) /\ Renewed(c)
  BY <1>1, EmptyWire DEF Renewed
<1> QED
  BY <1>2, <1>7, <1>8, <1>9, <1>11, <1>12, <1>13, <1>14, <1>15 DEF Pair, Roots, Links

\* What a call of e goes on with: tracks that are published or added are in the
\* offer it sent, `new', or a call is still to come.
Grows(e, d, new) ==
  \A t \in Track :
    /\ t \in d.put => t \in e.put \cup new
    /\ t \in d.pubs => t \in e.put \cup new \/ d.calls \/ (t \in e.pubs /\ ~e.calls)
\* A call or a publish() of e goes on, and may offer to the participant o.
Works(e, o, d, c) ==
  /\ d.l = e.l /\ d.f = e.f /\ d.k = e.k /\ d.n >= e.n /\ c.out = o.out
  /\ e.got \subseteq d.got /\ (d.busy => d.k)
  /\ \/ d.out = e.out /\ (e.k /\ e.l.bound /\ o.l.bound /\ ~e.l.closed => Grows(e, d, {}))
     \/ /\ e.k /\ ~e.l.closed /\ e.l.bound /\ o.l.bound /\ d.n > e.n
        /\ \E m \in Envelope :
             /\ m.type = "offer" /\ m.seq = e.n /\ m.sess = e.l.sess
             /\ d.out = Append(e.out, m) /\ Grows(e, d, m.tracks)

LEMMA WorksMeet ==
  ASSUME NEW e, NEW o, NEW d, NEW c, Meet(e, o), EndOK(d), EndOK(c), Still(o, c), Works(e, o, d, c)
  PROVE  Pair(d, c) /\ Pair(c, d)
<1>1. /\ Roots(e, o) /\ Roots(o, e) /\ Links(e, o) /\ Links(o, e) /\ EndOK(e) /\ EndOK(o) /\ EndOK(d)
      /\ d.l = e.l /\ d.f = e.f /\ d.k = e.k /\ d.n >= e.n /\ c.out = o.out
      /\ e.got \subseteq d.got /\ (d.busy => d.k) /\ d.n \in Int /\ e.n \in Int
      /\ c.l = o.l /\ c.n = o.n /\ c.f = o.f /\ c.k = o.k /\ c.busy = o.busy /\ c.put = o.put
      /\ c.pubs = o.pubs /\ c.got = o.got /\ c.calls = o.calls
  BY EndTypes DEF Meet, Pair, Works, Still
<1>2. Ordered(d, c) /\ Closing(d, c) /\ Rooted(c) /\ Owned(d) /\ Owned(c)
  BY <1>1 DEF Roots, Ordered, Closing, Rooted, Owned
<1>3. Rooted(d)
  BY <1>1 DEF Roots, Rooted
<1>4. ~d.l.closed => ~Left(d.l) /\ d.l.leaveAt # "crashed"
  BY <1>1 DEF EndOK, LifeOK, Left
<1>5. Both(e, o) /\ Knows(e, o) => e.l.bound /\ o.l.bound
  <2>1. ~o.l.closed => ~Left(o.l)
    BY <1>1 DEF EndOK, LifeOK, Left
  <2> QED
    BY <1>1, <2>1 DEF Roots, Rooted, Present, Both, Knows
<1>6. ASSUME d.out = e.out, e.k /\ e.l.bound /\ o.l.bound /\ ~e.l.closed => Grows(e, d, {})
      PROVE  Pair(d, c) /\ Pair(c, d)
  <2>1. Ordered(c, d)
    <3>1. d.l.leaveAt # "crashed" => Below(d.out, d.l.sess, d.n) /\ c.f[d.l.sess] < d.n
      BY <1>1, <1>6, EndTypes, BelowMore DEF Roots, Ordered
    <3> QED
      BY <1>1, <1>6, <3>1 DEF Roots, Ordered
  <2>2. Closing(c, d) /\ Present(d, c) /\ Present(c, d)
    BY <1>1, <1>6 DEF Roots, Closing, Present, Knows, Speaks
  <2>3. (Has(e, o) <=> Has(d, c)) /\ (Has(o, e) <=> Has(c, d)) /\ (Knows(e, o) <=> Knows(d, c))
        /\ (Knows(o, e) <=> Knows(c, d)) /\ (Speaks(e) <=> Speaks(d)) /\ (Speaks(o) <=> Speaks(c))
    BY <1>1, <1>6 DEF Has, Knows, Speaks
  <2>4. Mutual(d, c) /\ Mutual(c, d) /\ Met(d, c) /\ Met(c, d) /\ Renewed(d) /\ Renewed(c)
    BY <1>1, <1>6, <2>3 DEF Links, Mutual, Met, Renewed, Both
  <2>5. Called(d, c) /\ Called(c, d) /\ Greeted(d, c) /\ Greeted(c, d)
    BY <1>1, <1>6, <2>3 DEF Links, Called, Greeted, Asks, Both
  <2>6. Fed(d, c)
    <3> SUFFICES ASSUME Both(e, o), Knows(e, o), NEW t \in Track
                 PROVE  (t \in d.put => Got(d, c, t)) /\ (t \in d.pubs => Got(d, c, t) \/ d.calls)
      BY <1>1, <2>3 DEF Fed, Both
    <3>1. /\ t \in d.put => t \in e.put
          /\ t \in d.pubs => t \in e.put \/ d.calls \/ (t \in e.pubs /\ ~e.calls)
      BY <1>1, <1>5, <1>6 DEF Grows, Both, Knows
    <3>2. Got(e, o, t) <=> Got(d, c, t)
      BY <1>1, <1>6 DEF Got
    <3> QED
      BY <1>1, <3>1, <3>2 DEF Links, Fed
  <2>7. Fed(c, d)
    BY <1>1, <1>6, <2>3 DEF Links, Fed, Both, Got
  <2> QED
    BY <1>2, <1>3, <2>1, <2>2, <2>4, <2>5, <2>6, <2>7 DEF Pair, Roots, Links
<1>7. ASSUME NEW m \in Envelope, m.type = "offer", m.seq = e.n, m.sess = e.l.sess, d.out = Append(e.out, m),
             Grows(e, d, m.tracks), e.k, ~e.l.closed, e.l.bound, o.l.bound, d.n > e.n
      PROVE  Pair(d, c) /\ Pair(c, d)
  <2>0. /\ Posts(e, o, d, "offer") /\ e.out \in Seq(Envelope) /\ e.l.sess \in Int
        /\ EndOK(e) /\ EndOK(o) /\ e.l.bound /\ o.l.bound
    BY <1>1, <1>7, EndTypes DEF Posts
  <2>1. /\ NoLeave(d.out) <=> NoLeave(e.out)
        /\ HasLeave(d.out, e.l.sess) <=> HasLeave(e.out, e.l.sess)
        /\ Live(d.out, e.l.sess)
        /\ Old(d.out, e.l.sess) <=> Old(e.out, e.l.sess)
        /\ Opens(e.out, e.l.sess) => Opens(d.out, e.l.sess)
        /\ Ends(e.out, e.l.sess) => Ends(d.out, e.l.sess)
    BY <2>0, PostSays
  <2>2. \A t : Brings(d.out, e.l.sess, t) <=> Brings(e.out, e.l.sess, t) \/ t \in m.tracks
    BY <1>7, <2>0, AppendSays
  <2>3. Speaks(d) /\ (Knows(d, c) <=> Knows(e, o)) /\ (Knows(c, d) <=> Knows(o, e)) /\ (Speaks(c) <=> Speaks(o))
    BY <1>1, <2>1 DEF Knows, Speaks
  <2>4. Ordered(c, d)
    <3>1. Within(d.out, e.l.sess) /\ Rising(d.out) /\ Above(d.out, o.f) /\ Below(d.out, e.l.sess, d.n) /\ o.f[e.l.sess] < d.n
      BY <1>1, <1>4, <1>7, <2>0, PostOrder DEF Roots, Ordered
    <3> QED
      BY <1>1, <2>1, <3>1 DEF Roots, Ordered
  <2>5. Closing(c, d)
    BY <1>1, <1>4, <1>7, <2>1 DEF Roots, Closing
  <2>6. Present(d, c)
    BY <1>1, <2>3 DEF Roots, Present
  <2>7. Present(c, d)
    BY <1>1, <1>7, <2>3, <1>3 DEF Roots, Present, Rooted
  <2>8. (Has(e, o) <=> Has(d, c)) /\ (Has(o, e) => Has(c, d))
    BY <1>1, <2>3 DEF Has
  <2>9. Mutual(d, c) /\ Mutual(c, d) /\ Met(d, c) /\ Met(c, d) /\ Renewed(d) /\ Renewed(c)
    BY <1>1, <2>1, <2>3, <2>8 DEF Links, Mutual, Met, Renewed, Both
  <2>10. Called(d, c) /\ Called(c, d)
    BY <1>1, <1>7, <2>3, <2>8 DEF Links, Called, Met, Both
  <2>11. Greeted(d, c) /\ Greeted(c, d)
    BY <1>1, <2>1, <2>3, <2>8 DEF Links, Greeted, Asks, Both
  <2>12. Fed(d, c)
    <3> SUFFICES ASSUME Both(e, o), Knows(e, o), NEW t \in Track
                 PROVE  (t \in d.put => Got(d, c, t)) /\ (t \in d.pubs => Got(d, c, t) \/ d.calls)
      BY <1>1, <2>3 DEF Fed, Both
    <3>1. /\ t \in d.put => t \in e.put \/ t \in m.tracks
          /\ t \in d.pubs => t \in e.put \/ t \in m.tracks \/ d.calls \/ (t \in e.pubs /\ ~e.calls)
      BY <1>7 DEF Grows
    <3>2. (Got(e, o, t) => Got(d, c, t)) /\ (t \in m.tracks => Got(d, c, t))
      BY <1>1, <2>1, <2>2 DEF Got
    <3> QED
      BY <1>1, <3>1, <3>2 DEF Links, Fed
  <2>13. Fed(c, d)
    BY <1>1, <2>1, <2>3 DEF Links, Fed, Both, Got
  <2> QED
    BY <1>2, <1>3, <2>4, <2>5, <2>6, <2>7, <2>9, <2>10, <2>11, <2>12, <2>13 DEF Pair, Roots, Links
<1> QED
  BY <1>6, <1>7 DEF Works

\* The next envelope of o is taken off the wire; f records it when it is accepted.
Takes(e, o, d, c) == o.out # <<>> /\ c.out = Tail(o.out) /\ d.l = e.l /\ d.pubs = e.pubs
Accepted(e, o, d) ==
  /\ e.l.attached > 0
  /\ d.f = [s \in 1 .. MaxSess |-> IF s = Head(o.out).sess THEN Head(o.out).seq ELSE e.f[s]]

\* What remains on the wire.
LEMMA TakesSays ==
  ASSUME NEW e, NEW o, NEW d, NEW c, Meet(e, o), Still(o, c), Takes(e, o, d, c)
  PROVE  LET h == Head(o.out) s == o.l.sess IN
         /\ h \in Envelope /\ h.sess \in 1 .. s
         /\ NoLeave(o.out) <=> NoLeave(c.out) /\ h.type # "leave"
         /\ HasLeave(o.out, s) <=> HasLeave(c.out, s) \/ (h.type = "leave" /\ h.sess = s)
         /\ Speaks(o) <=> Speaks(c) \/ (h.type # "leave" /\ h.sess = s)
         /\ Offers(o.out, s) <=> Offers(c.out, s) \/ (h.type = "offer" /\ h.sess = s)
         /\ Old(o.out, s) <=> Old(c.out, s) \/ h.sess # s
         /\ h.sess = s => ~Old(c.out, s)
         /\ \A t : Brings(o.out, s, t) <=> Brings(c.out, s, t) \/ (h.type = "offer" /\ h.sess = s /\ t \in h.tracks)
         /\ Opens(o.out, s) => (h.type = "join" /\ h.sess = s) \/ Opens(c.out, s)
         /\ h.sess # s => ~NoLeave(o.out)
         /\ Left(o.l) => ~NoLeave(o.out)
         /\ ~Left(o.l) /\ h.sess = s => h.type # "leave" /\ NoLeave(c.out)
<1> DEFINE h == Head(o.out)
           s == o.l.sess
<1>1. /\ o.out \in Seq(Envelope) /\ o.out # <<>> /\ s \in Int /\ o.n \in Int /\ c.out = Tail(o.out) /\ c.l = o.l
      /\ Within(o.out, s) /\ Rising(o.out) /\ Ends(o.out, s) /\ (Left(o.l) => Finishes(o.out))
      /\ HasLeave(o.out, s) => Left(o.l)
  BY EndTypes DEF Meet, Pair, Roots, Ordered, Closing, Takes, Still
<1>2. /\ c.out \in Seq(Envelope) /\ h \in Envelope
      /\ NoLeave(o.out) <=> NoLeave(c.out) /\ h.type # "leave"
      /\ HasLeave(o.out, s) <=> HasLeave(c.out, s) \/ (h.type = "leave" /\ h.sess = s)
      /\ Live(o.out, s) <=> Live(c.out, s) \/ (h.type # "leave" /\ h.sess = s)
      /\ Offers(o.out, s) <=> Offers(c.out, s) \/ (h.type = "offer" /\ h.sess = s)
      /\ Old(o.out, s) <=> Old(c.out, s) \/ h.sess # s
      /\ \A t : Brings(o.out, s, t) <=> Brings(c.out, s, t) \/ (h.type = "offer" /\ h.sess = s /\ t \in h.tracks)
  BY <1>1, TailSays
<1>3. Opens(o.out, s) => (h.type = "join" /\ h.sess = s) \/ Opens(c.out, s)
  BY <1>1, TailOpens
<1>4. (h.sess # s => ~NoLeave(o.out)) /\ (Left(o.l) => ~NoLeave(o.out))
  BY <1>1, TailEnds
<1>5. h.sess \in 1 .. s /\ (h.sess = s => ~Old(c.out, s))
  BY <1>1, TailOrder
<1>6. ~Left(o.l) /\ h.sess = s => h.type # "leave" /\ NoLeave(c.out)
  BY <1>1, <1>2, <1>5, LeaveOld
<1> QED
  BY <1>1, <1>2, <1>3, <1>4, <1>5, <1>6 DEF Speaks

\* What was accepted and what remains is in order.
LEMMA TakesOrder ==
  ASSUME NEW e, NEW o, NEW d, NEW c, Meet(e, o), Still(o, c), Takes(e, o, d, c),
         d.f = e.f \/ Accepted(e, o, d)
  PROVE  Ordered(d, c) /\ Closing(d, c)
<1> DEFINE h == Head(o.out)
           s == o.l.sess
<1>1. /\ o.out \in Seq(Envelope) /\ o.out # <<>> /\ s \in 1 .. MaxSess /\ o.n \in Int /\ c.out = Tail(o.out)
      /\ c.l = o.l /\ c.n = o.n /\ s \in Int /\ MaxSess \in Nat
      /\ Within(o.out, s) /\ Rising(o.out) /\ Ends(o.out, s) /\ (Left(o.l) => Finishes(o.out))
      /\ Above(o.out, e.f) /\ (HasLeave(o.out, s) => Left(o.l))
      /\ o.l.leaveAt # "crashed" => Below(o.out, s, o.n) /\ e.f[s] < o.n
      /\ \A r \in s + 1 .. MaxSess : e.f[r] = -1
  BY EndTypes, RoomAssumption DEF Meet, Pair, Roots, Ordered, Closing, Takes, Still, RoomAssumption
<1>2. /\ Within(c.out, s) /\ h.sess \in 1 .. s /\ Rising(c.out)
      /\ \A i \in 1 .. Len(c.out) : e.f[c.out[i].sess] < c.out[i].seq
      /\ \A i \in 1 .. Len(c.out) : c.out[i].sess = h.sess => h.seq < c.out[i].seq
      /\ o.l.leaveAt # "crashed" => Below(c.out, s, o.n) /\ (h.sess = s => h.seq < o.n)
  BY <1>1, TailOrder
<1>3. (HasLeave(c.out, s) => HasLeave(o.out, s)) /\ c.out \in Seq(Envelope)
  BY <1>1, TailSays
<1>4. \A i \in 1 .. Len(c.out) : c.out[i].sess \in 1 .. MaxSess
  BY <1>1, <1>2 DEF Within
<1>5. Above(c.out, d.f)
  BY <1>2, <1>4 DEF Above, Accepted
<1>6. o.l.leaveAt # "crashed" => d.f[s] < o.n
  BY <1>1, <1>2 DEF Accepted
<1>7. \A r \in s + 1 .. MaxSess : r \in 1 .. MaxSess /\ r \notin 1 .. s
  BY <1>1
<1>8. \A r \in s + 1 .. MaxSess : d.f[r] = -1
  BY <1>1, <1>2, <1>7 DEF Accepted
<1>9. Ends(c.out, s) /\ (Left(o.l) => Finishes(c.out))
  BY <1>1, TailEnds
<1> QED
  BY <1>1, <1>2, <1>3, <1>5, <1>6, <1>8, <1>9 DEF Ordered, Closing

\* Nobody listens, or an envelope of a participant of the roster is handled.
Hears(e, o, d, c) ==
  /\ Takes(e, o, d, c) /\ d.n = e.n /\ d.out = e.out /\ d.k = e.k /\ d.put = e.put
  /\ (d.busy => d.k) /\ (e.calls => d.calls) /\ e.got \subseteq d.got
  /\ \/ d.f = e.f /\ ~(e.l.attached > 0 /\ Head(o.out).seq > e.f[Head(o.out).sess])
     \/ /\ Accepted(e, o, d) /\ e.k
        /\ \/ Head(o.out).type = "join"
           \/ Head(o.out).type = "offer" /\ (~e.l.closed => Head(o.out).tracks \subseteq d.got)

LEMMA HearsMeet ==
  ASSUME NEW e, NEW o, NEW d, NEW c, Meet(e, o), EndOK(d), EndOK(c), Still(o, c), Hears(e, o, d, c)
  PROVE  Pair(d, c) /\ Pair(c, d)
<1> DEFINE h == Head(o.out)
           s == o.l.sess
<1>1. /\ Roots(e, o) /\ Roots(o, e) /\ Links(e, o) /\ Links(o, e) /\ EndOK(e) /\ EndOK(o)
      /\ d.l = e.l /\ d.k = e.k /\ d.n = e.n /\ d.out = e.out /\ (d.busy => d.k) /\ (e.calls => d.calls)
      /\ e.got \subseteq d.got /\ d.pubs = e.pubs /\ d.put = e.put /\ Takes(e, o, d, c)
      /\ c.l = o.l /\ c.n = o.n /\ c.f = o.f /\ c.k = o.k /\ c.busy = o.busy /\ c.put = o.put
      /\ c.pubs = o.pubs /\ c.got = o.got /\ c.calls = o.calls
  BY DEF Meet, Pair, Hears, Takes, Still
<1>2. /\ NoLeave(o.out) <=> NoLeave(c.out) /\ h.type # "leave"
      /\ Speaks(o) <=> Speaks(c) \/ (h.type # "leave" /\ h.sess = s)
      /\ Offers(o.out, s) <=> Offers(c.out, s) \/ (h.type = "offer" /\ h.sess = s)
      /\ Old(o.out, s) <=> Old(c.out, s) \/ h.sess # s
      /\ h.sess = s => ~Old(c.out, s)
      /\ \A t : Brings(o.out, s, t) <=> Brings(c.out, s, t) \/ (h.type = "offer" /\ h.sess = s /\ t \in h.tracks)
      /\ Opens(o.out, s) => (h.type = "join" /\ h.sess = s) \/ Opens(c.out, s)
      /\ ~Left(o.l) /\ h.sess = s => h.type # "leave" /\ NoLeave(c.out)
  BY <1>1, TakesSays
<1>3. (~e.l.closed => ~Left(e.l)) /\ (~o.l.closed => ~Left(o.l))
  BY <1>1 DEF EndOK, LifeOK, Left
<1>4. Ordered(d, c) /\ Closing(d, c)
  BY <1>1, TakesOrder DEF Hears
<1>5. Ordered(c, d) /\ Closing(c, d) /\ Rooted(d) /\ Rooted(c) /\ Owned(d) /\ Owned(c)
  BY <1>1 DEF Roots, Ordered, Closing, Rooted, Owned
<1>6. Present(c, d)
  BY <1>1 DEF Roots, Present, Knows, Speaks
<1>7. /\ Knows(c, d) <=> Knows(o, e)
      /\ Speaks(d) <=> Speaks(e)
      /\ Has(o, e) <=> Has(c, d)
  BY <1>1 DEF Knows, Speaks, Has
<1>8. Renewed(d) /\ Renewed(c)
  BY <1>1, <1>2, <1>7 DEF Links, Renewed
<1>9. ASSUME d.f = e.f, ~(e.l.attached > 0 /\ h.seq > e.f[h.sess]) PROVE Pair(d, c) /\ Pair(c, d)
  <2>1. /\ o.out \in Seq(Envelope) /\ o.out # <<>> /\ s \in 1 .. MaxSess /\ MaxSess \in Nat /\ Above(o.out, e.f)
        /\ h \in Envelope /\ h.sess \in 1 .. s
    BY <1>1, EndTypes, TakesSays, RoomAssumption DEF RoomAssumption, Takes, Roots, Ordered
  <2>2. h.sess \in 1 .. MaxSess /\ h.seq \in Int /\ e.f[h.sess] < h.seq
    <3>1. 1 \in 1 .. Len(o.out) /\ o.out[1] = h
      BY <2>1
    <3> QED
      BY <2>1, <3>1 DEF Above, Envelope
  <2>3. ~(e.l.attached > 0)
    BY <1>1, <1>9, <2>2, EndTypes
  <2>4. e.l.closed \/ (~e.k /\ ~Announced(e.l) /\ (o.l.closed \/ ~Knows(o, e)))
    <3>1. e.k => e.l.closed
      BY <1>1, <2>3 DEF Roots, Rooted
    <3>2. Announced(e.l) => e.l.closed
      BY <1>1, <2>3, AnnouncedHere
    <3>3. Knows(o, e) => e.l.closed \/ o.l.closed
      BY <1>1, <1>3, <2>3 DEF Roots, Present
    <3> QED
      BY <3>1, <3>2, <3>3
  <2>5. e.l.closed \/ o.l.closed \/ ~Has(e, o)
    BY <2>3, <2>4 DEF Has, Knows
  <2>6. Present(d, c)
    BY <1>1, <1>2, <2>4 DEF Roots, Present, Knows
  <2>7. Mutual(d, c) /\ Mutual(c, d) /\ Met(d, c) /\ Met(c, d) /\ Fed(d, c) /\ Fed(c, d)
    BY <1>1, <1>7, <2>4 DEF Mutual, Met, Fed, Both, Knows
  <2>8. Called(d, c) /\ Called(c, d) /\ Greeted(d, c) /\ Greeted(c, d)
    BY <1>1, <1>7, <2>4, <2>5 DEF Links, Called, Greeted, Both
  <2> QED
    BY <1>4, <1>5, <1>6, <1>8, <2>6, <2>7, <2>8 DEF Pair, Roots, Links
<1>10. ASSUME Accepted(e, o, d), e.k,
              h.type = "join" \/ (h.type = "offer" /\ (~e.l.closed => h.tracks \subseteq d.got))
       PROVE  Pair(d, c) /\ Pair(c, d)
  <2>1. /\ Knows(d, c) <=> Knows(e, o)
        /\ ~Left(o.l) /\ h.sess = s => Knows(d, c)
    BY <1>1, <1>2, <1>10 DEF Knows
  <2>2. ~o.l.closed /\ Has(e, o) => Has(d, c)
    BY <1>1, <1>2, <1>3, <2>1 DEF Has
  <2>3. Present(d, c)
    BY <1>1, <1>2, <2>1 DEF Roots, Present
  <2>4. Mutual(d, c) /\ Mutual(c, d) /\ Met(d, c) /\ Met(c, d)
    BY <1>1, <1>7, <2>1, <2>2 DEF Links, Mutual, Met, Both
  <2>5. Called(d, c) /\ Called(c, d)
    BY <1>1, <1>2, <1>7, <2>2 DEF Links, Called, Both
  <2>6. Greeted(d, c)
    BY <1>1, <1>7, <2>2 DEF Links, Greeted, Both, Asks
  <2>7. Greeted(c, d)
    BY <1>1, <1>2, <1>3, <1>7, <2>1 DEF Links, Greeted, Both, Asks
  <2>8. Fed(d, c)
    BY <1>1, <2>1 DEF Links, Fed, Both, Got
  <2>9. Fed(c, d)
    <3> SUFFICES ASSUME Both(o, e), Knows(o, e), NEW t \in Track, Got(o, e, t) PROVE Got(c, d, t)
      BY <1>1, <1>7 DEF Links, Fed, Both
    <3>1. CASE Brings(o.out, s, t)
      BY <1>1, <1>2, <1>3, <1>10, <3>1 DEF Got, Both
    <3>2. CASE NoLeave(o.out) /\ t \in e.got
      BY <1>1, <1>2, <3>2 DEF Got
    <3> QED
      BY <3>1, <3>2 DEF Got
  <2> QED
    BY <1>4, <1>5, <1>6, <1>8, <2>3, <2>4, <2>5, <2>6, <2>7, <2>8, <2>9 DEF Pair, Roots, Links
<1> QED
  BY <1>1, <1>9, <1>10 DEF Hears

\* A leave is handled that crosses nothing.
Parts(e, o, d, c) ==
  /\ Takes(e, o, d, c) /\ Accepted(e, o, d) /\ Head(o.out).type = "leave"
  /\ d.n = e.n /\ d.out = e.out /\ ~d.k /\ ~d.busy

LEMMA PartsMeet ==
  ASSUME NEW e, NEW o, NEW d, NEW c, Meet(e, o), EndOK(d), EndOK(c), Still(o, c), Parts(e, o, d, c)
  PROVE  Pair(d, c) /\ Pair(c, d)
<1> DEFINE h == Head(o.out)
           s == o.l.sess
<1>1. /\ Roots(e, o) /\ Roots(o, e) /\ Links(e, o) /\ Links(o, e) /\ EndOK(e) /\ EndOK(o)
      /\ d.l = e.l /\ ~d.k /\ d.n = e.n /\ d.out = e.out /\ ~d.busy /\ h.type = "leave"
      /\ Takes(e, o, d, c) /\ Accepted(e, o, d)
      /\ c.l = o.l /\ c.n = o.n /\ c.f = o.f /\ c.k = o.k /\ c.busy = o.busy /\ c.put = o.put
      /\ c.pubs = o.pubs /\ c.got = o.got /\ c.calls = o.calls
  BY DEF Meet, Pair, Parts, Takes, Still
<1>2. /\ NoLeave(o.out) <=> NoLeave(c.out) /\ h.type # "leave"
      /\ Speaks(o) <=> Speaks(c) \/ (h.type # "leave" /\ h.sess = s)
      /\ Offers(o.out, s) <=> Offers(c.out, s) \/ (h.type = "offer" /\ h.sess = s)
      /\ Old(o.out, s) <=> Old(c.out, s) \/ h.sess # s
      /\ h.sess = s => ~Old(c.out, s)
      /\ \A t : Brings(o.out, s, t) <=> Brings(c.out, s, t) \/ (h.type = "offer" /\ h.sess = s /\ t \in h.tracks)
      /\ Opens(o.out, s) => (h.type = "join" /\ h.sess = s) \/ Opens(c.out, s)
  BY <1>1, TakesSays
<1>3. Ordered(d, c) /\ Closing(d, c)
  BY <1>1, TakesOrder
<1>4. Ordered(c, d) /\ Closing(c, d) /\ Rooted(d) /\ Rooted(c) /\ Owned(d) /\ Owned(c)
  BY <1>1 DEF Roots, Ordered, Closing, Rooted, Owned
<1>5. Present(c, d)
  BY <1>1 DEF Roots, Present, Knows, Speaks
<1>6. Present(d, c)
  BY <1>1, <1>2 DEF Roots, Present, Knows
<1>7. /\ Knows(c, d) <=> Knows(o, e)
      /\ Speaks(d) <=> Speaks(e)
      /\ Has(o, e) <=> Has(c, d)
      /\ ~Knows(d, c) /\ ~Knows(e, o)
      /\ Has(e, o) <=> Has(d, c)
  BY <1>1, <1>2 DEF Knows, Speaks, Has
<1>8. Renewed(d) /\ Renewed(c)
  BY <1>1, <1>2, <1>7 DEF Links, Renewed
<1>9. Mutual(d, c) /\ Mutual(c, d) /\ Met(d, c) /\ Met(c, d)
  BY <1>1, <1>7 DEF Links, Mutual, Met, Both
<1>10. Called(d, c) /\ Called(c, d)
  BY <1>1, <1>2, <1>7 DEF Links, Called, Both
<1>11. Greeted(d, c) /\ Greeted(c, d)
  BY <1>1, <1>2, <1>7 DEF Links, Greeted, Both, Asks
<1>12. Fed(d, c) /\ Fed(c, d)
  BY <1>1, <1>2, <1>7 DEF Links, Fed, Both, Got
<1> QED
  BY <1>3, <1>4, <1>5, <1>6, <1>8, <1>9, <1>10, <1>11, <1>12 DEF Pair, Roots, Links

\* A newcomer is added, and answered.
Greets(e, o, d, c) ==
  /\ Takes(e, o, d, c) /\ Accepted(e, o, d) /\ Head(o.out).type = "join" /\ ~e.l.closed
  /\ ~e.k /\ d.k /\ d.n = e.n + 1 /\ Posts(e, o, d, "join") /\ d.got = e.got /\ d.put = {} /\ d.calls

LEMMA GreetsMeet ==
  ASSUME NEW e, NEW o, NEW d, NEW c, Meet(e, o), EndOK(d), EndOK(c), Still(o, c), Greets(e, o, d, c)
  PROVE  Pair(d, c) /\ Pair(c, d)
<1> DEFINE h == Head(o.out)
           s == o.l.sess
<1>1. /\ Roots(e, o) /\ Roots(o, e) /\ Links(e, o) /\ Links(o, e) /\ EndOK(e) /\ EndOK(o)
      /\ d.l = e.l /\ d.k /\ ~e.k /\ d.n = e.n + 1 /\ h.type = "join" /\ ~e.l.closed /\ d.got = e.got /\ d.put = {}
      /\ Takes(e, o, d, c) /\ Accepted(e, o, d) /\ d.calls /\ Posts(e, o, d, "join") /\ e.n \in Int /\ e.n >= 0
      /\ c.l = o.l /\ c.n = o.n /\ c.f = o.f /\ c.k = o.k /\ c.busy = o.busy /\ c.put = o.put
      /\ c.pubs = o.pubs /\ c.got = o.got /\ c.calls = o.calls /\ e.l.attached > 0
      /\ e.l.bound /\ Reads(o, e)
  BY EndTypes DEF Meet, Pair, Greets, Takes, Still, Reads, Accepted
<1>2. /\ NoLeave(o.out) <=> NoLeave(c.out)
      /\ Speaks(o) <=> Speaks(c) \/ h.sess = s
      /\ Offers(o.out, s) <=> Offers(c.out, s)
      /\ Old(o.out, s) <=> Old(c.out, s) \/ h.sess # s
      /\ h.sess = s => ~Old(c.out, s)
      /\ \A t : Brings(o.out, s, t) <=> Brings(c.out, s, t)
      /\ Opens(o.out, s) => h.sess = s \/ Opens(c.out, s)
      /\ h.sess # s => ~NoLeave(o.out)
      /\ Left(o.l) => ~NoLeave(o.out)
      /\ ~Left(o.l) /\ h.sess = s => NoLeave(c.out)
  BY <1>1, TakesSays
<1>3. ~Left(e.l) /\ (~o.l.closed => ~Left(o.l)) /\ e.l.leaveAt # "crashed"
  BY <1>1 DEF EndOK, LifeOK, Left
<1>4. Ordered(d, c) /\ Closing(d, c)
  BY <1>1, TakesOrder
<1>5. Rooted(d) /\ Rooted(c) /\ Owned(d) /\ Owned(c)
  BY <1>1 DEF Roots, Rooted, Owned
<1>6. Present(c, d)
  BY <1>1, <1>3 DEF Present
<1>7. /\ Knows(d, c) <=> NoLeave(c.out)
      /\ ~Left(o.l) /\ h.sess = s => Knows(d, c)
      /\ Knows(d, c) => Speaks(o) /\ ~Left(o.l) /\ h.sess = s
  BY <1>1, <1>2 DEF Knows
<1>8. Present(d, c)
  BY <1>1, <1>2, <1>7 DEF Roots, Present
<1>9. Renewed(c)
  BY <1>1, <1>2 DEF Links, Renewed
<1>10. ~Knows(e, o) /\ (~o.l.closed /\ Has(e, o) => Has(d, c))
  BY <1>1, <1>2, <1>3, <1>7 DEF Has, Knows
<1>11. Met(d, c) /\ Called(d, c) /\ Greeted(d, c)
  <2> SUFFICES ASSUME Both(e, o), Announced(o.l) PROVE Has(d, c)
    BY <1>1 DEF Met, Called, Greeted, Both
  <2>1. CASE h.sess = s
    BY <1>3, <1>7, <2>1 DEF Both, Has
  <2>2. CASE h.sess # s
    BY <1>1, <1>2, <2>2 DEF Both, Links, Renewed, Has
  <2> QED
    BY <2>1, <2>2
<1>12. Fed(d, c)
  BY <1>1 DEF Fed
<1>13. ASSUME o.l.bound PROVE Pair(d, c) /\ Pair(c, d)
  <2>1. /\ NoLeave(d.out) <=> NoLeave(e.out)
        /\ HasLeave(d.out, e.l.sess) <=> HasLeave(e.out, e.l.sess)
        /\ Live(d.out, e.l.sess)
        /\ Old(d.out, e.l.sess) <=> Old(e.out, e.l.sess)
        /\ Ends(e.out, e.l.sess) => Ends(d.out, e.l.sess)
    BY <1>1, <1>13, PostSays
  <2>2. Within(d.out, e.l.sess) /\ Rising(d.out) /\ Above(d.out, o.f) /\ Below(d.out, e.l.sess, d.n) /\ o.f[e.l.sess] < d.n
    <3>1. EndOK(e) /\ EndOK(o) /\ Posts(e, o, d, "join") /\ e.l.bound /\ o.l.bound /\ d.n \in Int /\ e.n < d.n
      BY <1>1, <1>13
    <3>2. /\ Within(e.out, e.l.sess) /\ Rising(e.out) /\ Below(e.out, e.l.sess, e.n) /\ Above(e.out, o.f)
          /\ o.f[e.l.sess] < e.n
      BY <1>1, <1>3 DEF Roots, Ordered
    <3> QED
      BY <3>1, <3>2, PostOrder
  <2>3. Ordered(c, d) /\ Closing(c, d)
    BY <1>1, <1>3, <2>1, <2>2 DEF Roots, Ordered, Closing
  <2>4. Speaks(d) /\ (Knows(c, d) <=> Knows(o, e)) /\ (Has(o, e) => Has(c, d))
        /\ (o.l.attached > 0 => Has(c, d))
    BY <1>1, <2>1 DEF Speaks, Knows, Has
  <2>5. Mutual(d, c)
    BY <1>1, <1>10, <2>4 DEF Links, Mutual, Both
  <2>6. Mutual(c, d)
    BY <1>1, <1>7, <2>4 DEF Roots, Present, Mutual, Both
  <2>7. Met(c, d) /\ Called(c, d)
    BY <1>1, <1>2, <2>4 DEF Links, Met, Called, Both
  <2>8. Greeted(c, d)
    <3> SUFFICES ASSUME Both(o, e), Announced(o.l), Announced(e.l) PROVE Has(c, d)
      BY <1>1 DEF Greeted, Both
    <3> QED
      BY <1>1, <2>4, AnnouncedHere DEF Both
  <2>9. Renewed(d)
    BY <2>4 DEF Renewed
  <2>10. Fed(c, d)
    BY <1>1, <1>2, <2>4 DEF Links, Fed, Both, Got
  <2> QED
    BY <1>4, <1>5, <1>6, <1>8, <1>9, <1>11, <1>12, <2>3, <2>5, <2>6, <2>7, <2>8, <2>9, <2>10 DEF Pair, Roots, Links
<1>14. ASSUME ~o.l.bound PROVE Pair(d, c) /\ Pair(c, d)
  <2>1. d.out = <<>> /\ e.out = <<>> /\ (o.l.closed \/ (~o.k /\ ~Announced(o.l)))
    BY <1>1, <1>14, AnnouncedHere DEF Posts, Reads, Roots, Rooted
  <2>2. /\ Within(d.out, e.l.sess) /\ Rising(d.out) /\ Above(d.out, o.f) /\ Below(d.out, e.l.sess, d.n)
        /\ ~HasLeave(d.out, e.l.sess) /\ Ends(d.out, e.l.sess) /\ ~Old(d.out, e.l.sess)
    BY <2>1, EmptyWire
  <2>3. o.f[e.l.sess] < d.n
    BY <1>1, <1>3, EndTypes DEF Roots, Ordered
  <2>4. Ordered(c, d) /\ Closing(c, d)
    BY <1>1, <1>3, <2>2, <2>3 DEF Roots, Ordered, Closing
  <2>5. ~Knows(d, c) \/ o.l.closed
    BY <1>1, <1>7, <1>14 DEF Roots, Present
  <2>6. (~Offers(c.out, s) /\ ~Speaks(c)) \/ o.l.closed
    <3>1. Offers(o.out, o.l.sess) => Speaks(o)
      BY OffersLive
    <3> QED
      BY <1>1, <1>2, <1>3, <1>14, <3>1 DEF Roots, Present
  <2>7. Mutual(d, c) /\ Mutual(c, d) /\ Met(c, d) /\ Called(c, d) /\ Greeted(c, d) /\ Fed(c, d)
    BY <1>1, <2>1, <2>5, <2>6 DEF Mutual, Met, Called, Greeted, Fed, Both, Knows
  <2>8. Renewed(d)
    BY <1>1, <2>2 DEF Renewed
  <2> QED
    BY <1>4, <1>5, <1>6, <1>8, <1>9, <1>11, <1>12, <2>4, <2>7, <2>8 DEF Pair, Roots, Links
<1> QED
  BY <1>13, <1>14

-----------------------------------------------------------------------------
(* The ends of a pair, and what a step of one peer leaves alone.           *)

\* The fields of an end, before and after a step.
LEMMA EndFields ==
  ASSUME NEW p, NEW q
  PROVE  /\ End(p, q).l = life[p] /\ End(p, q).n = seq[p] /\ End(p, q).f = Read(p, q)
         /\ End(p, q).k = (q \in remotes[p]) /\ End(p, q).out = wire[p][q] /\ End(p, q).pubs = pubs[p]
         /\ End(p, q).put = Put(p, q) /\ End(p, q).got = Hear(p, q)
         /\ End(p, q).calls = Calls(p, q) /\ End(p, q).busy = Busy(p, q)
         /\ End(p, q)'.l = life'[p] /\ End(p, q)'.n = seq'[p] /\ End(p, q)'.f = Read(p, q)'
         /\ End(p, q)'.k = (q \in remotes'[p]) /\ End(p, q)'.out = wire'[p][q] /\ End(p, q)'.pubs = pubs'[p]
         /\ End(p, q)'.put = Put(p, q)' /\ End(p, q)'.got = Hear(p, q)'
         /\ End(p, q)'.calls = Calls(p, q)' /\ End(p, q)'.busy = Busy(p, q)'
BY DEF End

\* What was accepted and what was heard.
Logs == seen \in [Peer -> [Session -> Int]] /\ heard \in [Peer -> [Peer -> SUBSET Track]]

\* Who else is on the wires of p is not touched when p sends, leaves or reads.
LEMMA PostIs ==
  ASSUME NEW w \in Wires, NEW p \in Peer, NEW to, NEW n, NEW type, NEW tracks, NEW x \in Peer, NEW y \in Peer
  PROVE  Post(w, p, to, n, type, tracks)[x][y] =
           IF x = p /\ y \in to \ {p} /\ life[p].bound /\ life[y].bound
           THEN Append(w[x][y], [type |-> type, seq |-> n, sess |-> life[p].sess, tracks |-> tracks])
           ELSE w[x][y]
BY DEF Post, Wires

LEMMA PostFar ==
  ASSUME NEW w \in Wires, NEW p \in Peer, NEW to, NEW n, NEW type, NEW tracks, NEW x \in Peer, NEW y \in Peer, x # p
  PROVE  Post(w, p, to, n, type, tracks)[x][y] = w[x][y]
BY DEF Post, Wires

LEMMA PostTo ==
  ASSUME NEW w \in Wires, NEW p \in Peer, NEW to, NEW n, NEW type, NEW tracks, NEW x \in Peer, NEW y \in Peer
  PROVE  Post(w, p, to, n, type, tracks)[x][y] = w[x][y] \/ (y # p /\ life[y].bound)
BY DEF Post, Wires

LEMMA UnsubscribedIs ==
  ASSUME wire \in Wires, NEW p \in Peer, NEW x \in Peer, NEW y \in Peer
  PROVE  Unsubscribed(p)[x][y] = IF y = p THEN <<>> ELSE wire[x][y]
BY DEF Unsubscribed, Wires

LEMMA PopIs ==
  ASSUME wire \in Wires, NEW p \in Peer, NEW q \in Peer, NEW x \in Peer, NEW y \in Peer
  PROVE  Pop(q, p)[x][y] = IF x = q /\ y = p THEN Tail(wire[q][p]) ELSE wire[x][y]
BY DEF Pop, Wires

\* The three shapes a wire takes in a step of p.
Mailed(p, w) == \E to, n, type, tracks : wire' = w \/ wire' = Post(w, p, to, n, type, tracks)

Kept(p, w) ==
  \/ w = wire \/ w = Unsubscribed(p)
  \/ \E q \in Peer : wire[q][p] # <<>> /\ w = Pop(q, p)

LEMMA FarWires ==
  ASSUME wire \in Wires, NEW p \in Peer, NEW w, Kept(p, w), Mailed(p, w), NEW x \in Peer \ {p}, NEW y \in Peer \ {p}
  PROVE  wire'[x][y] = wire[x][y]
<1>1. w \in Wires
  BY ShrinksOK DEF Shrinks, Kept
<1>2. w[x][y] = wire[x][y]
  BY UnsubscribedIs, PopIs DEF Kept
<1>3. wire'[x][y] = w[x][y]
  <2>1. PICK to, n, type, tracks : wire' = w \/ wire' = Post(w, p, to, n, type, tracks)
    BY DEF Mailed
  <2>2. x \in Peer /\ y \in Peer /\ x # p
    OBVIOUS
  <2>3. Post(w, p, to, n, type, tracks)[x][y] = w[x][y]
    BY <1>1, <2>2, PostFar
  <2> QED
    BY <2>1, <2>3
<1> QED
  BY <1>2, <1>3

\* A step of p changes what no other has sent, accepted or heard.
Far(p) ==
  /\ \A r \in Peer \ {p} : seq'[r] = seq[r] /\ seen'[r] = seen[r] /\ heard'[r] = heard[r]
  /\ Logs'
  /\ \A x, y \in Peer \ {p} : wire'[x][y] = wire[x][y]
  /\ \E w : Kept(p, w) /\ Mailed(p, w)

LEMMA FarLiving ==
  ASSUME Types, Logs, NEW p \in Peer, Living(p) \/ Leave(p) \/ Crash(p) \/ Reopen(p)
  PROVE  Far(p)
<1>0. wire \in Wires /\ seq \in [Peer -> Int] /\ Logs
  BY DEF Types
<1>1. CASE Crash(p) \/ Reopen(p)
  <2>1. Wipe(p) /\ Mailed(p, Unsubscribed(p))
    BY <1>1 DEF Crash, Reopen, Mailed
  <2>2. \A x, y \in Peer \ {p} : wire'[x][y] = wire[x][y]
    BY <1>0, <2>1, FarWires DEF Kept
  <2>3. None \in [Peer -> SUBSET Track] /\ [k \in Session |-> -1] \in [Session -> Int]
    BY DEF None
  <2>4. seen' = [seen EXCEPT ![p] = [k \in Session |-> -1]] /\ heard' = [heard EXCEPT ![p] = None]
        /\ seq' = [seq EXCEPT ![p] = 0]
    BY <2>1 DEF Wipe
  <2>5. Logs'
    BY <1>0, <2>3, <2>4 DEF Logs
  <2> QED
    BY <1>0, <2>1, <2>2, <2>4, <2>5 DEF Far, Logs, Kept
<1>2. CASE Living(p) \/ Leave(p)
  <2>1. UNCHANGED <<seen, heard>>
    BY <1>2 DEF Living, Join, JoinTransport, JoinAnnounce, JoinDone, JoinFail, Rollback, LeaveAnnounce, LeaveTransport,
                Leave, media
  <2>2. seq' = seq \/ seq' = [seq EXCEPT ![p] = @ + 1]
    BY <1>2 DEF Living, Join, JoinTransport, JoinAnnounce, JoinDone, JoinFail, Rollback, LeaveAnnounce, LeaveTransport,
                Leave, Emit
  <2>3. Mailed(p, wire) \/ Mailed(p, Unsubscribed(p))
    BY <1>2 DEF Living, Join, JoinTransport, JoinAnnounce, JoinDone, JoinFail, Rollback, LeaveAnnounce, LeaveTransport,
                Leave, Emit, Mailed
  <2>4. \A x, y \in Peer \ {p} : wire'[x][y] = wire[x][y]
    BY <1>0, <2>3, FarWires DEF Kept
  <2> QED
    BY <1>0, <2>1, <2>2, <2>3, <2>4 DEF Far, Logs, Kept
<1> QED
  BY <1>1, <1>2

LEMMA FarUse ==
  ASSUME Types, Logs, NEW p \in Peer, NEW t \in Call, NEW w, NEW base, UsePeer(p, t, w, base)
  PROVE  /\ \A r \in Peer \ {p} : seq'[r] = seq[r] /\ heard'[r] = heard[r]
         /\ heard' \in [Peer -> [Peer -> SUBSET Track]] /\ Mailed(p, w)
<1>1. t.got \in SUBSET Track /\ t.who \in Peer
  BY DEF Call
<1>2. \/ heard' = heard
      \/ heard' = [heard EXCEPT ![p][t.who] = @ \cup t.got]
  BY DEF UsePeer
<1>3. seq' = seq \/ seq' = [seq EXCEPT ![p] = @ + 1]
  BY DEF UsePeer
<1>4. Mailed(p, w)
  <2>1. CASE t.why = "offer"
    BY <2>1 DEF UsePeer, Mailed
  <2>2. CASE t.why # "offer"
    <3>1. \E n, now : wire' = Post(w, p, {t.who}, n, "offer", now)
      BY <2>2 DEF UsePeer
    <3> QED
      BY <3>1 DEF Mailed
  <2> QED
    BY <2>1, <2>2
<1>5. \A r \in Peer \ {p} : heard'[r] = heard[r]
  BY <1>2 DEF Logs
<1>6. heard' \in [Peer -> [Peer -> SUBSET Track]]
  <2>1. heard[p][t.who] \cup t.got \in SUBSET Track
    BY <1>1 DEF Logs
  <2>2. PICK g \in SUBSET Track : g = heard[p][t.who] \cup t.got
    BY <2>1
  <2>3. heard' = heard \/ heard' = [heard EXCEPT ![p] = [heard[p] EXCEPT ![t.who] = g]]
    BY <1>2, <2>2
  <2>4. [heard[p] EXCEPT ![t.who] = g] \in [Peer -> SUBSET Track]
    BY <1>1 DEF Logs
  <2> QED
    BY <2>3, <2>4 DEF Logs
<1>7. \A r \in Peer \ {p} : seq'[r] = seq[r]
  BY <1>3 DEF Types
<1> QED
  BY <1>4, <1>5, <1>6, <1>7

LEMMA FarEnsure ==
  ASSUME Types, Logs, NEW p \in Peer, NEW old, NEW t \in Call, NEW w, EnsurePeer(p, old, t, w)
  PROVE  /\ \A r \in Peer \ {p} : seq'[r] = seq[r] /\ heard'[r] = heard[r]
         /\ heard' \in [Peer -> [Peer -> SUBSET Track]] /\ Mailed(p, w)
<1>1. CASE t.who \in peers[p]
  BY <1>1, FarUse DEF EnsurePeer
<1>2. CASE t.who \notin peers[p]
  BY <1>2 DEF EnsurePeer, Mailed, Logs
<1> QED
  BY <1>1, <1>2

LEMMA FarResume ==
  ASSUME Types, Logs, NEW p \in Peer, NEW t \in tasks[p],
         CallNewcomer(p, t) \/ BuildPeer(p, t) \/ StorePeer(p, t) \/ PublishNext(p, t) \/ PublishDone(p, t)
  PROVE  Far(p)
<1>0. t \in Call /\ wire \in Wires /\ \A q \in remotes[p] : [t EXCEPT !.who = q] \in Call
  <2>1. t \in Call /\ remotes[p] \subseteq Peer
    BY DEF Types, MeshTypes
  <2> QED
    BY <2>1, CallOK DEF Types
<1>1. seen' = seen
  BY DEF CallNewcomer, BuildPeer, StorePeer, PublishNext, PublishDone
<1>2. /\ \A r \in Peer \ {p} : seq'[r] = seq[r] /\ heard'[r] = heard[r]
      /\ heard' \in [Peer -> [Peer -> SUBSET Track]] /\ Mailed(p, wire)
  <2>1. CASE CallNewcomer(p, t)
    <3>1. CASE pubs[p] = {}
      BY <2>1, <3>1 DEF CallNewcomer, Mailed, Logs
    <3>2. CASE pubs[p] # {}
      BY <1>0, <2>1, <3>2, FarEnsure DEF CallNewcomer
    <3> QED
      BY <3>1, <3>2
  <2>2. CASE BuildPeer(p, t) \/ PublishDone(p, t)
    BY <2>2 DEF BuildPeer, PublishDone, Mailed, Logs
  <2>3. CASE StorePeer(p, t)
    BY <1>0, <2>3, FarUse DEF StorePeer
  <2>4. CASE PublishNext(p, t)
    <3>1. PICK q \in remotes[p] : EnsurePeer(p, t, [t EXCEPT !.who = q], wire)
      BY <2>4 DEF PublishNext
    <3>2. PICK u \in Call : u = [t EXCEPT !.who = q]
      BY <1>0
    <3>3. EnsurePeer(p, t, u, wire)
      BY <3>1, <3>2
    <3> QED
      BY <3>3, FarEnsure
  <2> QED
    BY <2>1, <2>2, <2>3, <2>4
<1>3. \A x, y \in Peer \ {p} : wire'[x][y] = wire[x][y]
  BY <1>0, <1>2, FarWires DEF Kept
<1> QED
  BY <1>1, <1>2, <1>3 DEF Far, Logs, Kept

\* p notes the envelope m of q.
Notes(p, q, m) ==
  \A r \in Peer : \A s \in 1 .. MaxSess :
    seen'[p][<<r, s>>] = IF r = q /\ s = m.sess THEN m.seq ELSE seen[p][<<r, s>>]

\* The envelope p accepts from q.
LEMMA AcceptLogs ==
  ASSUME Types, Logs, NEW p \in Peer, NEW q \in Peer, q # p, NEW type, Accept(p, q, type)
  PROVE  LET m == Head(wire[q][p]) IN
         /\ wire[q][p] # <<>> /\ m \in Envelope /\ m.type = type /\ life[p].attached > 0
         /\ m.seq > seen[p][<<q, m.sess>>]
         /\ seen' \in [Peer -> [Session -> Int]] /\ UNCHANGED <<life, pubs, events>>
         /\ \A r \in Peer \ {p} : seen'[r] = seen[r]
         /\ Notes(p, q, m) /\ wire \in Wires /\ Pop(q, p) \in Wires
<1> DEFINE m == Head(wire[q][p])
<1>1. /\ wire[q][p] # <<>> /\ m.type = type /\ life[p].attached > 0 /\ m.seq > seen[p][<<q, m.sess>>]
      /\ seen' = [seen EXCEPT ![p][<<q, m.sess>>] = m.seq] /\ UNCHANGED <<life, pubs, events>>
  BY DEF Accept, Accepts
<1>2. m \in Envelope
  BY <1>1, HeadOK DEF Types
<1>4. wire \in Wires /\ Pop(q, p) \in Wires
  BY <1>1, ShrinksOK DEF Types, Shrinks
<1> HIDE DEF m
<1>5. m.seq \in Int
  BY <1>2 DEF Envelope
<1>6. \A r \in Peer : \A s \in 1 .. MaxSess : <<r, s>> \in Session
  BY DEF Session
<1>7. seen' \in [Peer -> [Session -> Int]] /\ \A r \in Peer \ {p} : seen'[r] = seen[r]
  BY <1>1, <1>5 DEF Logs
<1>8. \A k \in Session : seen'[p][k] = IF k = <<q, m.sess>> THEN m.seq ELSE seen[p][k]
  BY <1>1, <1>5 DEF Logs
<1>9. Notes(p, q, m)
  BY <1>6, <1>8 DEF Notes
<1> QED
  BY <1>1, <1>2, <1>4, <1>7, <1>9 DEF m

LEMMA FarReceive ==
  ASSUME Types, Logs, NEW p \in Peer, NEW q \in Peer \ {p}, Receive(p, q)
  PROVE  Far(p)
<1>0. wire \in Wires /\ q \in Peer /\ q # p
  BY DEF Types
<1> DEFINE m == Head(wire[q][p])
<1>1. CASE Refuse(p, q)
  <2>1. wire[q][p] # <<>> /\ Mailed(p, Pop(q, p)) /\ UNCHANGED <<seq, seen, heard>>
    BY <1>1 DEF Refuse, media, Mailed
  <2>2. \A x, y \in Peer \ {p} : wire'[x][y] = wire[x][y]
    BY <1>0, <2>1, FarWires DEF Kept
  <2> QED
    BY <1>0, <2>1, <2>2 DEF Far, Logs, Kept
<1>2. CASE RemoteJoin(p, q) \/ RemoteLeave(p, q) \/ RemoteOffer(p, q)
  <2>1. PICK type : Accept(p, q, type)
    BY <1>2 DEF RemoteJoin, RemoteLeave, RemoteOffer
  <2>2. /\ wire[q][p] # <<>> /\ m \in Envelope /\ seen' \in [Peer -> [Session -> Int]]
        /\ \A r \in Peer \ {p} : seen'[r] = seen[r]
    BY <1>0, <2>1, AcceptLogs
  <2>3. /\ \A r \in Peer \ {p} : seq'[r] = seq[r] /\ heard'[r] = heard[r]
        /\ heard' \in [Peer -> [Peer -> SUBSET Track]] /\ Mailed(p, Pop(q, p))
    <3>1. CASE RemoteJoin(p, q)
      <4>1. heard' = heard /\ (seq' = seq \/ seq' = [seq EXCEPT ![p] = @ + 1])
        BY <3>1 DEF RemoteJoin
      <4>2. Mailed(p, Pop(q, p))
        <5>1. CASE q \in remotes[p]
          BY <3>1, <5>1 DEF RemoteJoin, Mailed
        <5>2. CASE q \notin remotes[p]
          <6>1. wire' = Post(Pop(q, p), p, {q}, seq[p], "join", {})
            BY <3>1, <5>2 DEF RemoteJoin
          <6> QED
            BY <6>1 DEF Mailed
        <5> QED
          BY <5>1, <5>2
      <4> QED
        BY <4>1, <4>2 DEF Logs, Types
    <3>2. CASE RemoteLeave(p, q)
      <4>1. heard' = [heard EXCEPT ![p][q] = {}] /\ seq' = seq /\ wire' = Pop(q, p)
        BY <3>2 DEF RemoteLeave
      <4> QED
        BY <4>1 DEF Logs, Mailed
    <3>3. CASE RemoteOffer(p, q)
      <4>1. EnsurePeer(p, Task(q, "offer", "ice", m.tracks, <<m.sess, m.seq>>),
                       Task(q, "offer", "ice", m.tracks, <<m.sess, m.seq>>), Pop(q, p))
        BY <3>3 DEF RemoteOffer
      <4>2. m.tracks \in SUBSET Track /\ <<m.sess, m.seq>> \in Int \X Int
        BY <1>0, <2>2, HeadOK
      <4>3. PICK t \in Call : t = Task(q, "offer", "ice", m.tracks, <<m.sess, m.seq>>)
        BY <1>0, <4>2, TaskOK
      <4>4. EnsurePeer(p, t, t, Pop(q, p))
        BY <4>1, <4>3
      <4> QED
        BY <4>4, FarEnsure
    <3> QED
      BY <1>2, <3>1, <3>2, <3>3
  <2>4. \A x, y \in Peer \ {p} : wire'[x][y] = wire[x][y]
    BY <1>0, <2>2, <2>3, FarWires DEF Kept
  <2> QED
    BY <1>0, <2>2, <2>3, <2>4 DEF Far, Logs, Kept
<1> QED
  BY <1>1, <1>2 DEF Receive

LEMMA FarPublish ==
  ASSUME Types, Logs, NEW p \in Peer, NEW k \in Track, Publish(p, k) \/ Unpublish(p, k)
  PROVE  Far(p)
<1>0. wire \in Wires
  BY DEF Types
<1>1. UNCHANGED <<seen, heard>> /\ (seq' = seq \/ seq' = [seq EXCEPT ![p] = @ + 1])
  BY DEF Publish, Unpublish, media
<1>2. Mailed(p, wire)
  <2>1. CASE Publish(p, k)
    BY <2>1 DEF Publish, Mailed
  <2>2. CASE Unpublish(p, k)
    <3>1. wire' = Post(wire, p, peers[p], seq[p], "offer", pubs[p] \ {k})
      BY <2>2 DEF Unpublish
    <3> QED
      BY <3>1 DEF Mailed
  <2> QED
    BY <2>1, <2>2
<1>3. \A x, y \in Peer \ {p} : wire'[x][y] = wire[x][y]
  BY <1>0, <1>2, FarWires DEF Kept
<1> QED
  BY <1>1, <1>2, <1>3 DEF Far, Logs, Types, Kept

-----------------------------------------------------------------------------
(* The invariant of two Rooms that nothing led apart.                      *)

\* A participant that vanished without a leave, or may have; one that left in
\* the middle of its join.
Astray(p) == life[p].told \/ life[p].raced \/ (life[p].joinAt = "rollback" /\ seq[p] > 0)
Apace(p, q) == ~Astray(p) /\ q \notin crossed[p] /\ q \notin early[p]
Fair(p, q) == Apace(p, q) /\ Apace(q, p)

Base ==
  /\ RoomInv /\ Logs /\ early \in [Peer -> SUBSET Peer]
  /\ \A p \in Peer : More(life[p], seq[p])
  /\ \A p, q \in Peer : wire[p][q] # <<>> => life[q].bound
CallInv ==
  /\ Base
  /\ \A p, q \in Peer : p # q /\ Fair(p, q) => Pair(End(p, q), End(q, p))

\* What an end is made of.
LEMMA EndsOK ==
  ASSUME Base, NEW p \in Peer, NEW q \in Peer
  PROVE  EndOK(End(p, q))
<1>1. /\ life[p] \in Life /\ LifeOK(life[p]) /\ seq[p] \in Int /\ wire[p][q] \in Seq(Envelope)
      /\ More(life[p], seq[p])
  BY DEF Base, RoomInv, Types, LifeInv, Wires
<1>2. Read(p, q) \in [1 .. MaxSess -> Int]
  BY DEF Base, Logs, Session, Read
<1>3. Calls(p, q) \in BOOLEAN /\ Busy(p, q) \in BOOLEAN
  BY DEF Calls, Busy
<1>4. End(p, q).k \in BOOLEAN
  <2>1. (q \in remotes[p]) \in BOOLEAN
    OBVIOUS
  <2>2. End(p, q).k = (q \in remotes[p])
    BY EndFields
  <2> QED
    BY <2>1, <2>2, Zenon
<1>5. End(p, q).l = life[p] /\ End(p, q).n = seq[p] /\ End(p, q).f = Read(p, q) /\ End(p, q).out = wire[p][q]
      /\ End(p, q).calls = Calls(p, q) /\ End(p, q).busy = Busy(p, q)
  BY EndFields
<1> QED
  BY <1>1, <1>2, <1>3, <1>4, <1>5 DEF EndOK

LEMMA EndsNext ==
  ASSUME Base', NEW p \in Peer, NEW q \in Peer
  PROVE  EndOK(End(p, q)')
<1>1. /\ life'[p] \in Life /\ LifeOK(life'[p]) /\ seq'[p] \in Int /\ wire'[p][q] \in Seq(Envelope)
      /\ More(life'[p], seq'[p])
  BY DEF Base, RoomInv, Types, LifeInv, Wires
<1>2. Read(p, q)' \in [1 .. MaxSess -> Int]
  BY DEF Base, Logs, Session, Read
<1>3. Calls(p, q)' \in BOOLEAN /\ Busy(p, q)' \in BOOLEAN
  BY DEF Calls, Busy
<1>4. End(p, q)'.k \in BOOLEAN
  <2>1. (q \in remotes'[p]) \in BOOLEAN
    OBVIOUS
  <2>2. End(p, q)'.k = (q \in remotes'[p])
    BY EndFields
  <2> QED
    BY <2>1, <2>2, Zenon
<1>5. End(p, q)'.l = life'[p] /\ End(p, q)'.n = seq'[p] /\ End(p, q)'.f = Read(p, q)' /\ End(p, q)'.out = wire'[p][q]
      /\ End(p, q)'.calls = Calls(p, q)' /\ End(p, q)'.busy = Busy(p, q)'
  BY EndFields
<1> QED
  BY <1>1, <1>2, <1>3, <1>4, <1>5 DEF EndOK

LEMMA EndsMeet ==
  ASSUME CallInv, NEW p \in Peer, NEW q \in Peer, p # q, Fair(p, q)
  PROVE  Meet(End(p, q), End(q, p))
<1>1. Fair(q, p)
  BY DEF Fair
<1>2. Reads(End(p, q), End(q, p)) /\ Reads(End(q, p), End(p, q))
  BY EndFields DEF CallInv, Base, Reads
<1> QED
  BY <1>1, <1>2, EndsOK DEF CallInv, Meet

\* What leaves the mesh towards q alone.
LEMMA AsideIs ==
  ASSUME NEW p, NEW q,
         q \in remotes'[p] <=> q \in remotes[p], pubs'[p] = pubs[p], heard'[p][q] = heard[p][q],
         \A t \in Track : q \in visited'[p][t] <=> q \in visited[p][t],
         \A s \in 1 .. MaxSess : seen'[p][<<q, s>>] = seen[p][<<q, s>>],
         About(p, q)' = About(p, q)
  PROVE  Aside(End(p, q), End(p, q)')
<1>1. Calls(p, q)' = Calls(p, q) /\ Busy(p, q)' = Busy(p, q) /\ Hear(p, q)' = Hear(p, q)
  BY DEF Calls, Busy, Hear
<1>2. Put(p, q)' = Put(p, q)
  BY DEF Put
<1>3. Read(p, q)' = Read(p, q)
  BY DEF Read
<1> QED
  BY <1>1, <1>2, <1>3, EndFields DEF Aside

\* The end of another peer stays as it is.
LEMMA StillIs ==
  ASSUME NEW p \in Peer, NEW q \in Peer, p # q, Apart(p), Far(p)
  PROVE  Still(End(q, p), End(q, p)')
<1>1. /\ seq'[q] = seq[q] /\ seen'[q] = seen[q] /\ heard'[q] = heard[q] /\ life'[q] = life[q]
      /\ remotes'[q] = remotes[q] /\ pubs'[q] = pubs[q] /\ visited'[q] = visited[q] /\ tasks'[q] = tasks[q]
  BY DEF Apart, Far, Same
<1>2. About(q, p)' = About(q, p)
  BY <1>1 DEF About
<1>3. Aside(End(q, p), End(q, p)')
  BY <1>1, <1>2, AsideIs
<1> QED
  BY <1>1, <1>3, EndFields DEF Aside, Still

\* What one step of a peer may do to a pair it is in.
Moves(e, o, d, c) ==
  \/ Waits(e, o, d, c) \/ Unbinds(e, o, d, c) \/ Announces(e, o, d, c) \/ Closes(e, o, d, c)
  \/ Bids(e, o, d, c) \/ Detaches(e, o, d, c) \/ Dies(e, o, d, c) \/ Reopens(e, o, d, c)
  \/ Works(e, o, d, c) \/ Hears(e, o, d, c) \/ Parts(e, o, d, c) \/ Greets(e, o, d, c)

LEMMA MovesMeet ==
  ASSUME NEW e, NEW o, NEW d, NEW c, Meet(e, o), EndOK(d), EndOK(c), Still(o, c), Moves(e, o, d, c)
  PROVE  Pair(d, c) /\ Pair(c, d)
BY WaitsMeet, UnbindsMeet, AnnouncesMeet, ClosesMeet, BidsMeet, DetachesMeet, DiesMeet, ReopensMeet, WorksMeet,
   HearsMeet, PartsMeet, GreetsMeet DEF Moves

\* What p posts to q.
LEMMA PostsIs ==
  ASSUME Types, NEW p \in Peer, NEW q \in Peer, p # q, NEW w \in Wires, w[p][q] = wire[p][q], NEW to, q \in to,
         NEW type \in {"join", "leave", "offer"}, NEW tracks \in SUBSET Track,
         wire' = Post(w, p, to, seq[p], type, tracks)
  PROVE  /\ Posts(End(p, q), End(q, p), End(p, q)', type)
         /\ life[p].bound /\ life[q].bound => End(p, q)'.out = Append(End(p, q).out,
               [type |-> type, seq |-> End(p, q).n, sess |-> End(p, q).l.sess, tracks |-> tracks])
         /\ ~(life[p].bound /\ life[q].bound) => End(p, q)'.out = End(p, q).out
         /\ wire'[q][p] = w[q][p]
         /\ [type |-> type, seq |-> seq[p], sess |-> life[p].sess, tracks |-> tracks] \in Envelope
<1> DEFINE m == [type |-> type, seq |-> seq[p], sess |-> life[p].sess, tracks |-> tracks]
<1>1. m \in Envelope
  <2>1. life[p].sess \in Int /\ seq[p] \in Int
    BY LifeFields DEF Types
  <2> QED
    BY <2>1 DEF Envelope
<1>2. wire'[p][q] = IF life[p].bound /\ life[q].bound THEN Append(wire[p][q], m) ELSE wire[p][q]
  BY PostIs
<1>3. wire'[q][p] = w[q][p]
  BY PostFar
<1>4. m.type = type /\ m.seq = seq[p] /\ m.sess = life[p].sess
  OBVIOUS
<1> HIDE DEF m
<1>5. End(p, q).l = life[p] /\ End(q, p).l = life[q] /\ End(p, q).n = seq[p] /\ End(p, q).out = wire[p][q]
      /\ End(p, q)'.out = wire'[p][q]
  BY EndFields
<1>6. Posts(End(p, q), End(q, p), End(p, q)', type)
  BY <1>1, <1>2, <1>4, <1>5 DEF Posts
<1> QED
  BY <1>1, <1>2, <1>3, <1>5, <1>6 DEF m

LEMMA FarStep ==
  ASSUME Types, Logs, NEW p \in Peer, Step(p)
  PROVE  Far(p)
BY FarLiving, FarResume, FarReceive, FarPublish DEF Step, Resume

\* Nothing is on its way to a transport in no room.
LEMMA ReadsNext ==
  ASSUME wire \in Wires, \A x, y \in Peer : wire[x][y] # <<>> => life[y].bound, NEW p \in Peer,
         \A r \in Peer \ {p} : life'[r] = life[r], NEW w, Kept(p, w), Mailed(p, w),
         w = Unsubscribed(p) \/ (life[p].bound => life'[p].bound)
  PROVE  \A x, y \in Peer : wire'[x][y] # <<>> => life'[y].bound
<1>1. w \in Wires
  BY ShrinksOK DEF Shrinks, Kept
<1>2. \A x, y \in Peer : w[x][y] # <<>> => wire[x][y] # <<>> /\ (w = Unsubscribed(p) => y # p)
  BY UnsubscribedIs, PopIs DEF Kept
<1>3. ASSUME NEW x \in Peer, NEW y \in Peer
      PROVE  wire'[x][y] = w[x][y] \/ (y # p /\ life[y].bound)
  <2>1. PICK to, n, type, tracks : wire' = w \/ wire' = Post(w, p, to, n, type, tracks)
    BY DEF Mailed
  <2>2. Post(w, p, to, n, type, tracks)[x][y] = w[x][y] \/ (y # p /\ life[y].bound)
    BY <1>1, PostTo
  <2> QED
    BY <2>1, <2>2
<1> QED
  BY <1>2, <1>3

\* A step of join() or leave() clears the room with the wires.
LEMMA LivingReads ==
  ASSUME life \in [Peer -> Life], NEW p \in Peer, Living(p) \/ Leave(p) \/ Crash(p) \/ Reopen(p)
  PROVE  \/ Mailed(p, Unsubscribed(p))
         \/ Mailed(p, wire) /\ (life[p].bound => life'[p].bound)
<1>0. life[p] \in Life
  OBVIOUS
<1>1. CASE Crash(p) \/ Reopen(p)
  BY <1>1 DEF Crash, Reopen, Mailed
<1>2. CASE Join(p) \/ JoinTransport(p) \/ JoinDone(p) \/ Leave(p)
  <2>1. wire' = wire
    BY <1>2 DEF Join, JoinTransport, JoinDone, Leave
  <2>2. life'[p].bound = life[p].bound \/ life'[p].bound = TRUE
    <3>1. CASE Join(p)
      BY <1>0, <3>1 DEF Join, Set, Life
    <3>2. CASE JoinTransport(p)
      BY <1>0, <3>2 DEF JoinTransport, Set, Life
    <3>3. CASE JoinDone(p)
      BY <1>0, <3>3 DEF JoinDone, Set, Life
    <3>4. CASE Leave(p)
      BY <1>0, <3>4 DEF Leave, Set, Life
    <3> QED
      BY <1>2, <3>1, <3>2, <3>3, <3>4
  <2> QED
    BY <2>1, <2>2 DEF Mailed
<1>3. CASE JoinAnnounce(p)
  <2>1. wire' = Post(wire, p, Peer, seq[p], "join", {})
    BY <1>3 DEF JoinAnnounce, Emit
  <2>2. life[p].bound => life'[p].bound
    BY <1>0, <1>3 DEF JoinAnnounce, Set, Life
  <2> QED
    BY <2>1, <2>2 DEF Mailed
<1>4. CASE LeaveAnnounce(p)
  <2>1. wire' = Post(wire, p, Peer, seq[p], "leave", {})
    BY <1>4 DEF LeaveAnnounce, Emit
  <2>2. life[p].bound => life'[p].bound
    BY <1>0, <1>4 DEF LeaveAnnounce, Set, Life
  <2> QED
    BY <2>1, <2>2 DEF Mailed
<1>5. CASE JoinFail(p)
  BY <1>0, <1>5 DEF JoinFail, Set, Life, Mailed
<1>6. CASE Rollback(p)
  BY <1>0, <1>6 DEF Rollback, Set, Life, Mailed
<1>7. CASE LeaveTransport(p)
  BY <1>0, <1>7 DEF LeaveTransport, Set, Life, Mailed
<1> QED
  BY <1>1, <1>2, <1>3, <1>4, <1>5, <1>6, <1>7 DEF Living

\* What a Room keeps, it keeps in every step of a join or a leave.
LEMMA LivingMore ==
  ASSUME life \in [Peer -> Life], seq \in [Peer -> Int], NEW p \in Peer, LifeOK(life[p]), More(life[p], seq[p]),
         Living(p) \/ Leave(p) \/ Crash(p) \/ Reopen(p)
  PROVE  More(life'[p], seq'[p])
<1>0. life[p] \in Life /\ seq[p] \in Int /\ MaxSess \in Nat /\ life[p].failed \in Int /\ life[p].sess \in Nat
  <2>1. life[p] \in Life
    OBVIOUS
  <2> QED
    BY <2>1, LifeFields, RoomAssumption DEF RoomAssumption
<1>1. CASE Join(p)
  BY <1>0, <1>1 DEF Join, Set, Life, LifeOK, More
<1>2. CASE JoinTransport(p)
  BY <1>0, <1>2 DEF JoinTransport, Set, Life, LifeOK, More
<1>3. CASE JoinAnnounce(p)
  BY <1>0, <1>3 DEF JoinAnnounce, Emit, Set, Life, LifeOK, More
<1>4. CASE JoinDone(p)
  BY <1>0, <1>4 DEF JoinDone, Set, Life, LifeOK, More
<1>5. CASE JoinFail(p)
  BY <1>0, <1>5 DEF JoinFail, Set, Life, LifeOK, More
<1>6. CASE Rollback(p)
  BY <1>0, <1>6 DEF Rollback, Set, Life, LifeOK, More
<1>7. CASE LeaveAnnounce(p)
  BY <1>0, <1>7 DEF LeaveAnnounce, Emit, Set, Life, LifeOK, More
<1>8. CASE LeaveTransport(p)
  BY <1>0, <1>8 DEF LeaveTransport, Set, Life, LifeOK, More
<1>9. CASE Leave(p)
  BY <1>0, <1>9 DEF Leave, Set, Life, LifeOK, More
<1>10. CASE Crash(p)
  <2>1. seq'[p] = 0 /\ life'[p].sess = life[p].sess /\ life'[p].failed = 0 /\ ~life'[p].joined
        /\ life'[p].joinAt = "idle" /\ ~life'[p].bound
    BY <1>0, <1>10 DEF Crash, Wipe, Set, Fresh
  <2> QED
    BY <1>0, <2>1 DEF More
<1>11. CASE Reopen(p)
  <2>1. seq'[p] = 0 /\ life'[p].sess = life[p].sess + 1 /\ life'[p].failed = 0 /\ ~life'[p].joined
        /\ life'[p].joinAt = "idle" /\ ~life'[p].bound /\ life[p].sess < MaxSess
    BY <1>0, <1>11 DEF Reopen, Wipe, Set, Fresh
  <2> QED
    BY <1>0, <2>1 DEF More
<1> QED
  BY <1>1, <1>2, <1>3, <1>4, <1>5, <1>6, <1>7, <1>8, <1>9, <1>10, <1>11 DEF Living

\* A Room sends one envelope per step at most.
Counts(p) == seq'[p] = seq[p] \/ seq'[p] = seq[p] + 1

LEMMA UseCounts ==
  ASSUME seq \in [Peer -> Int], NEW p \in Peer, NEW t, NEW w, NEW base, UsePeer(p, t, w, base)
  PROVE  Counts(p)
<1>1. seq' = seq \/ seq' = [seq EXCEPT ![p] = @ + 1]
  BY DEF UsePeer
<1> QED
  BY <1>1 DEF Counts

LEMMA StepCounts ==
  ASSUME seq \in [Peer -> Int], NEW p \in Peer, Step(p), ~Crash(p), ~Reopen(p)
  PROVE  Counts(p)
<1>0. ASSUME seq' = seq \/ seq' = [seq EXCEPT ![p] = @ + 1] PROVE Counts(p)
  BY <1>0 DEF Counts
<1>1. ASSUME NEW old, NEW t, NEW w, EnsurePeer(p, old, t, w) PROVE Counts(p)
  <2>1. CASE t.who \in peers[p]
    BY <1>1, <2>1, UseCounts DEF EnsurePeer
  <2>2. CASE t.who \notin peers[p]
    BY <1>1, <2>2, <1>0 DEF EnsurePeer
  <2> QED
    BY <2>1, <2>2
<1>2. CASE Living(p) \/ Leave(p)
  BY <1>0, <1>2 DEF Living, Join, JoinTransport, JoinAnnounce, JoinDone, JoinFail, Rollback, LeaveAnnounce,
                    LeaveTransport, Leave, Emit
<1>3. ASSUME NEW t \in tasks[p],
             CallNewcomer(p, t) \/ BuildPeer(p, t) \/ StorePeer(p, t) \/ PublishNext(p, t) \/ PublishDone(p, t)
      PROVE  Counts(p)
  <2>1. CASE CallNewcomer(p, t)
    BY <1>0, <1>1, <2>1 DEF CallNewcomer
  <2>2. CASE BuildPeer(p, t) \/ PublishDone(p, t)
    BY <1>0, <2>2 DEF BuildPeer, PublishDone
  <2>3. CASE StorePeer(p, t)
    BY <2>3, UseCounts DEF StorePeer
  <2>4. CASE PublishNext(p, t)
    BY <1>1, <2>4 DEF PublishNext
  <2> QED
    BY <1>3, <2>1, <2>2, <2>3, <2>4
<1>4. ASSUME NEW q \in Peer, Receive(p, q) PROVE Counts(p)
  <2>1. CASE Refuse(p, q) \/ RemoteJoin(p, q) \/ RemoteLeave(p, q)
    BY <1>0, <2>1 DEF Refuse, RemoteJoin, RemoteLeave
  <2>2. CASE RemoteOffer(p, q)
    BY <1>1, <2>2 DEF RemoteOffer
  <2> QED
    BY <1>4, <2>1, <2>2 DEF Receive
<1>5. ASSUME NEW k \in Track, Publish(p, k) \/ Unpublish(p, k) PROVE Counts(p)
  BY <1>0, <1>5 DEF Publish, Unpublish
<1> QED
  BY <1>2, <1>3, <1>4, <1>5 DEF Step, Resume

\* An offer of a peer that is not in the roster is the only thing that is early.
LEMMA StepEarly ==
  ASSUME NEW p \in Peer, Step(p)
  PROVE  early' = early \/ \E q \in Peer : early' = [early EXCEPT ![p] = @ \cup {q}]
<1>1. CASE Living(p) \/ Leave(p) \/ Crash(p) \/ Reopen(p)
  BY <1>1 DEF Living, Join, JoinTransport, JoinAnnounce, JoinDone, JoinFail, Rollback, LeaveAnnounce,
              LeaveTransport, Leave, Crash, Reopen, hist
<1>2. ASSUME NEW t \in tasks[p],
             CallNewcomer(p, t) \/ BuildPeer(p, t) \/ StorePeer(p, t) \/ PublishNext(p, t) \/ PublishDone(p, t)
      PROVE  early' = early
  BY <1>2 DEF CallNewcomer, BuildPeer, StorePeer, PublishNext, PublishDone, hist
<1>3. ASSUME NEW q \in Peer, Receive(p, q)
      PROVE  early' = early \/ early' = [early EXCEPT ![p] = @ \cup {q}]
  BY <1>3 DEF Receive, Refuse, RemoteJoin, RemoteLeave, RemoteOffer, hist
<1>4. ASSUME NEW k \in Track, Publish(p, k) \/ Unpublish(p, k) PROVE early' = early
  BY <1>4 DEF Publish, Unpublish, hist
<1> QED
  BY <1>1, <1>2, <1>3, <1>4 DEF Step, Resume

\* What crossed stays so.
LEMMA StepCrossed ==
  ASSUME Types, NEW p \in Peer, LifeOK(life[p]), Step(p)
  PROVE  crossed[p] \subseteq crossed'[p]
<1>1. CASE Living(p)
  BY <1>1, LivingFrame DEF hist
<1>2. CASE Leave(p) \/ Crash(p) \/ Reopen(p)
  BY <1>2, LeaveFrame, WipeFrame
<1>3. ASSUME NEW t \in tasks[p],
             CallNewcomer(p, t) \/ BuildPeer(p, t) \/ StorePeer(p, t) \/ PublishNext(p, t) \/ PublishDone(p, t)
      PROVE  crossed[p] \subseteq crossed'[p]
  <2>1. CASE CallNewcomer(p, t)
    BY <2>1, CallFrame
  <2>2. CASE BuildPeer(p, t) \/ PublishDone(p, t)
    BY <2>2 DEF BuildPeer, PublishDone, hist
  <2>3. CASE StorePeer(p, t)
    BY <2>3, StoreFrame
  <2>4. CASE PublishNext(p, t)
    BY <2>4, NextFrame
  <2> QED
    BY <1>3, <2>1, <2>2, <2>3, <2>4
<1>4. ASSUME NEW q \in Peer, Receive(p, q)
      PROVE  crossed[p] \subseteq crossed'[p]
  BY <1>4, RefuseFrame, JoinFrame, PeerLeaveFrame, OfferFrame DEF Receive, hist
<1>5. ASSUME NEW k \in Track, Publish(p, k) \/ Unpublish(p, k) PROVE crossed[p] \subseteq crossed'[p]
  BY <1>5, PublishFrame, UnpublishFrame DEF hist
<1> QED
  BY <1>1, <1>2, <1>3, <1>4, <1>5 DEF Step, Resume

\* Where each step of join() and leave() leads.
LEMMA JoinLeads ==
  ASSUME life \in [Peer -> Life], NEW p \in Peer, Join(p) \/ JoinTransport(p) \/ JoinDone(p)
  PROVE  LET l == life[p] r == life'[p] IN
         /\ Steady(l, r) /\ (l.bound => r.bound) /\ r.attached >= l.attached
         /\ (l.told => r.told) /\ (l.raced => r.raced) /\ l.joinAt # "rollback"
         /\ (~l.closed /\ ~l.joined /\ l.joinAt # "announce" => r.joinAt # "announce" /\ ~r.joined)
         /\ (l.joined => r.joined) /\ (l.joinAt = "announce" => r.joined)
         /\ (r.joined => l.joined \/ l.joinAt = "announce") /\ r.joinAt # "announce"
<1>0. life[p] \in Life /\ life[p].attached \in Int
  BY LifeFields
<1>1. CASE Join(p)
  BY <1>0, <1>1 DEF Join, Set, Life, Steady
<1>2. CASE JoinTransport(p)
  BY <1>0, <1>2 DEF JoinTransport, Set, Life, Steady
<1>3. CASE JoinDone(p)
  BY <1>0, <1>3 DEF JoinDone, Set, Life, Steady
<1> QED
  BY <1>1, <1>2, <1>3

LEMMA AnnounceLeads ==
  ASSUME life \in [Peer -> Life], NEW p \in Peer, JoinAnnounce(p)
  PROVE  LET l == life[p] r == life'[p] IN
         /\ Steady(l, r) /\ (r.bound <=> l.bound) /\ r.attached = l.attached
         /\ (l.told => r.told) /\ (l.raced => r.raced) /\ l.joinAt = "presence"
         /\ (l.bound => r.joinAt = "announce") /\ (~l.bound => r.joinAt = "idle") /\ (l.joined => r.joined)
         /\ (r.joined => l.joined)
<1>0. life[p] \in Life /\ life[p].attached \in Int
  BY LifeFields
<1> QED
  BY <1>0 DEF JoinAnnounce, Set, Life, Steady

LEMMA FailLeads ==
  ASSUME life \in [Peer -> Life], NEW p \in Peer, JoinFail(p)
  PROVE  LET l == life[p] r == life'[p] IN
         /\ Steady(l, r) /\ r.attached = l.attached /\ (l.told => r.told) /\ (l.raced => r.raced)
         /\ l.joinAt \in {"transport", "presence", "announce"}
         /\ r.joinAt = IF l.closed THEN "idle" ELSE "rollback"
         /\ (r.joined => l.joined) /\ (l.joined => r.joined)
         /\ \/ wire' = wire /\ (l.bound => r.bound)
            \/ wire' = Unsubscribed(p) /\ l.joinAt = "transport"
<1> DEFINE l == life[p] r == life'[p]
<1>0. life[p] \in Life /\ life[p].bound \in BOOLEAN /\ life[p].joined \in BOOLEAN
  BY LifeFields
<1>1. Steady(l, r) /\ r.attached = l.attached /\ (l.told => r.told) /\ (l.raced => r.raced)
  BY <1>0 DEF JoinFail, Set, Life, Steady
<1>2. /\ l.joinAt \in {"transport", "presence", "announce"}
      /\ r.joinAt = IF l.closed THEN "idle" ELSE "rollback"
  BY <1>0 DEF JoinFail, Set, Life
<1>3. (r.joined => l.joined) /\ (l.joined => r.joined)
  BY <1>0 DEF JoinFail, Set, Life
<1>4. \/ wire' = wire /\ (l.bound => r.bound)
      \/ wire' = Unsubscribed(p) /\ l.joinAt = "transport"
  <2>1. CASE wire' = Unsubscribed(p) /\ l.joinAt = "transport"
    BY <2>1
  <2>2. CASE ~(wire' = Unsubscribed(p) /\ l.joinAt = "transport")
    <3>1. l.joinAt = "transport" \/ l.joinAt # "transport"
      OBVIOUS
    <3>2. PICK u \in IF l.joinAt = "transport" THEN BOOLEAN ELSE {FALSE} :
            /\ Set(p, [l EXCEPT !.tracked = 0,
                         !.failed = IF l.joinAt = "transport" THEN @ ELSE @ + 1,
                         !.bound = @ /\ ~u,
                         !.timers = @ \/ (l.joinAt = "transport" /\ ~u),
                         !.joinAt = IF l.closed THEN "idle" ELSE "rollback"])
            /\ wire' = IF u THEN Unsubscribed(p) ELSE wire
      BY DEF JoinFail
    <3>3. ~u
      BY <2>2, <3>1, <3>2
    <3>4. r.bound = (l.bound /\ ~u)
      BY <1>0, <3>2 DEF Set, Life
    <3> QED
      BY <3>2, <3>3, <3>4
  <2> QED
    BY <2>1, <2>2
<1> QED
  BY <1>1, <1>2, <1>3, <1>4

LEMMA RollbackLeads ==
  ASSUME life \in [Peer -> Life], NEW p \in Peer, Rollback(p)
  PROVE  LET l == life[p] r == life'[p] IN
         /\ Steady(l, r) /\ r.attached = l.attached /\ (l.told \/ seq[p] > 0 => r.told) /\ (l.raced => r.raced)
         /\ l.joinAt = "rollback" /\ r.joinAt = "idle" /\ (r.joined => l.joined) /\ (l.joined => r.joined)
         /\ \/ wire' = wire /\ (l.bound => r.bound)
            \/ wire' = Unsubscribed(p)
<1> DEFINE l == life[p] r == life'[p]
<1>0. life[p] \in Life /\ life[p].bound \in BOOLEAN /\ life[p].joined \in BOOLEAN
  BY LifeFields
<1>1. Steady(l, r) /\ r.attached = l.attached /\ (l.told \/ seq[p] > 0 => r.told) /\ (l.raced => r.raced)
  <2>1. PICK ok \in BOOLEAN :
          Set(p, [l EXCEPT !.joinAt = "idle", !.told = @ \/ seq[p] > 0,
                           !.bound = @ /\ ~ok,
                           !.timers = @ /\ ~(l.bound /\ ok)])
    BY DEF Rollback
  <2>2. r.told = (l.told \/ seq[p] > 0)
    BY <1>0, <2>1 DEF Set, Life
  <2>3. Steady(l, r) /\ r.attached = l.attached
    BY <1>0, <2>1 DEF Set, Life, Steady
  <2>4. l.raced => r.raced
    BY <1>0, <2>1 DEF Set, Life
  <2> QED
    BY <2>2, <2>3, <2>4
<1>2. l.joinAt = "rollback" /\ r.joinAt = "idle"
  BY <1>0 DEF Rollback, Set, Life
<1>3. (r.joined => l.joined) /\ (l.joined => r.joined)
  BY <1>0 DEF Rollback, Set, Life
<1>4. \/ wire' = wire /\ (l.bound => r.bound)
      \/ wire' = Unsubscribed(p)
  <2>1. CASE wire' = Unsubscribed(p)
    BY <2>1
  <2>2. CASE wire' # Unsubscribed(p)
    <3>1. wire' = wire
      BY <2>2 DEF Rollback
    <3>2. l.bound => r.bound
      BY <1>0, <2>2 DEF Rollback, Set, Life
    <3> QED
      BY <3>1, <3>2
  <2> QED
    BY <2>1, <2>2
<1> QED
  BY <1>1, <1>2, <1>3, <1>4

LEMMA LeaveLeads ==
  ASSUME life \in [Peer -> Life], NEW p \in Peer, Leave(p)
  PROVE  LET l == life[p] r == life'[p] IN
         /\ r.sess = l.sess /\ ~l.closed /\ r.closed /\ r.leaveAt = "announce" /\ r.joinAt = l.joinAt
         /\ r.bound = l.bound /\ r.attached = l.attached
         /\ (l.told => r.told) /\ (l.joinAt # "idle" => r.raced)
<1>0. life[p] \in Life /\ life[p].attached \in Int
  BY LifeFields
<1> QED
  BY <1>0 DEF Leave, Set, Life

LEMMA BidLeads ==
  ASSUME life \in [Peer -> Life], NEW p \in Peer, LeaveAnnounce(p)
  PROVE  LET l == life[p] r == life'[p] IN
         /\ r.sess = l.sess /\ (r.closed <=> l.closed) /\ l.leaveAt = "announce" /\ r.leaveAt = "transport"
         /\ r.bound = l.bound /\ r.attached = l.attached
         /\ (l.told => r.told) /\ (l.raced => r.raced) /\ r.joinAt = l.joinAt
<1>0. life[p] \in Life /\ life[p].attached \in Int
  BY LifeFields
<1> QED
  BY <1>0 DEF LeaveAnnounce, Set, Life

LEMMA DetachLeads ==
  ASSUME life \in [Peer -> Life], NEW p \in Peer, LeaveTransport(p)
  PROVE  LET l == life[p] r == life'[p] IN
         /\ r.sess = l.sess /\ (r.closed <=> l.closed) /\ l.leaveAt = "transport" /\ r.leaveAt = "done"
         /\ (l.told => r.told) /\ (l.raced => r.raced) /\ r.joinAt = l.joinAt
         /\ (wire' = wire \/ wire' = Unsubscribed(p))
<1>0. life[p] \in Life
  OBVIOUS
<1> QED
  BY <1>0 DEF LeaveTransport, Set, Life

LEMMA CrashLeads ==
  ASSUME life \in [Peer -> Life], NEW p \in Peer, Crash(p)
  PROVE  LET l == life[p] r == life'[p] IN
         /\ r.sess = l.sess /\ r.closed /\ r.leaveAt = "crashed" /\ l.bound /\ ~r.bound /\ r.joinAt = "idle"
         /\ (l.told \/ seq[p] > 0 => r.told) /\ (l.raced => r.raced)
BY DEF Crash, Set, Fresh

LEMMA ReopenLeads ==
  ASSUME life \in [Peer -> Life], NEW p \in Peer, Reopen(p)
  PROVE  LET l == life[p] r == life'[p] IN
         /\ r.sess = l.sess + 1 /\ ~r.closed /\ r.leaveAt = "none" /\ l.leaveAt \in {"done", "crashed"}
         /\ r.joinAt = "idle" /\ l.joinAt = "idle" /\ ~r.joined /\ (l.told \/ l.raced => r.told)
BY DEF Reopen, Set, Fresh

\* Who is astray stays so.
LEMMA StepAstray ==
  ASSUME Base, NEW p \in Peer, Step(p), Astray(p)
  PROVE  Astray(p)'
<1>0. life[p] \in Life /\ seq[p] \in Int /\ LifeOK(life[p]) /\ More(life[p], seq[p]) /\ seq \in [Peer -> Int]
      /\ life \in [Peer -> Life] /\ RoomInv
  BY DEF Base, RoomInv, Types, LifeInv
<1>00. seq[p] >= 0
  BY <1>0 DEF More
<1>1. CASE Join(p) \/ JoinTransport(p) \/ JoinDone(p)
  BY <1>0, <1>1, JoinLeads DEF Astray
<1>2. CASE JoinAnnounce(p)
  BY <1>0, <1>2, AnnounceLeads DEF Astray
<1>3. CASE LeaveAnnounce(p) \/ LeaveTransport(p)
  <2>1. seq'[p] >= seq[p] /\ seq'[p] \in Int
    <3>1. CASE LeaveAnnounce(p)
      BY <1>0, <3>1 DEF LeaveAnnounce, Emit
    <3>2. CASE LeaveTransport(p)
      BY <1>0, <3>2 DEF LeaveTransport
    <3> QED
      BY <1>3, <3>1, <3>2
  <2> QED
    BY <1>0, <1>00, <1>3, <2>1, BidLeads, DetachLeads DEF Astray
<1>4. CASE JoinFail(p)
  BY <1>0, <1>4, FailLeads DEF Astray
<1>5. CASE Rollback(p)
  BY <1>0, <1>5, RollbackLeads DEF Astray
<1>6. CASE Leave(p)
  BY <1>0, <1>6, LeaveLeads DEF Astray, LifeOK
<1>7. CASE Crash(p)
  BY <1>0, <1>7, CrashLeads DEF Astray
<1>8. CASE Reopen(p)
  BY <1>0, <1>8, ReopenLeads DEF Astray
<1>9. CASE ~(Living(p) \/ Leave(p) \/ Crash(p) \/ Reopen(p))
  <2>1. life' = life
    BY <1>0, <1>9, LifeStep
  <2>2. Counts(p)
    BY <1>0, <1>9, StepCounts
  <2> QED
    BY <1>0, <1>00, <2>1, <2>2 DEF Astray, Counts
<1> QED
  BY <1>1, <1>2, <1>3, <1>4, <1>5, <1>6, <1>7, <1>8, <1>9 DEF Living

\* Peers that a step leaves on good terms were so before.
LEMMA FairBack ==
  ASSUME Base, NEW a \in Peer, Step(a), NEW p \in Peer, NEW q \in Peer, Fair(p, q)'
  PROVE  Fair(p, q)
<1>0. RoomInv /\ Types /\ Logs /\ early \in [Peer -> SUBSET Peer] /\ LifeOK(life[a])
  BY DEF Base, RoomInv, LifeInv
<1>1. Apart(a) /\ Far(a)
  BY <1>0, MeshStep, FarStep
<1>2. ASSUME NEW x \in Peer PROVE /\ Astray(x) => Astray(x)'
                                  /\ crossed[x] \subseteq crossed'[x] /\ early[x] \subseteq early'[x]
  <2>1. early[x] \subseteq early'[x]
    BY <1>0, StepEarly
  <2>2. CASE x = a
    BY <1>0, <2>1, <2>2, StepAstray, StepCrossed
  <2>3. CASE x # a
    <3>1. life'[x] = life[x] /\ seq'[x] = seq[x] /\ crossed'[x] = crossed[x]
      BY <1>1, <2>3 DEF Apart, Far, Same
    <3> QED
      BY <2>1, <3>1 DEF Astray
  <2> QED
    BY <2>2, <2>3
<1>3. Apace(p, q)
  BY <1>2 DEF Fair, Apace
<1>4. Apace(q, p)
  BY <1>2 DEF Fair, Apace
<1> QED
  BY <1>3, <1>4 DEF Fair

LEMMA BaseStep ==
  ASSUME Base, NEW a \in Peer, Step(a), [Next]_vars
  PROVE  Base'
<1>0. RoomInv /\ Types /\ Logs /\ early \in [Peer -> SUBSET Peer] /\ LifeOK(life[a]) /\ wire \in Wires
      /\ life \in [Peer -> Life] /\ seq \in [Peer -> Int]
  BY DEF Base, RoomInv, LifeInv, Types
<1>1. Apart(a) /\ Far(a) /\ RoomInv'
  BY <1>0, MeshStep, FarStep, RoomStep
<1>2. Logs'
  BY <1>1 DEF Far
<1>3. early' \in [Peer -> SUBSET Peer]
  BY <1>0, StepEarly
<1>6. /\ More(life'[a], seq'[a])
      /\ \E w : Kept(a, w) /\ Mailed(a, w) /\ (w = Unsubscribed(a) \/ (life[a].bound => life'[a].bound))
  <2>4. CASE Living(a) \/ Leave(a) \/ Crash(a) \/ Reopen(a)
    <3>1. More(life'[a], seq'[a])
      BY <1>0, <2>4, LivingMore DEF Base
    <3>2. Mailed(a, Unsubscribed(a)) \/ (Mailed(a, wire) /\ (life[a].bound => life'[a].bound))
      BY <1>0, <2>4, LivingReads
    <3>3. \E w : Kept(a, w) /\ Mailed(a, w) /\ (w = Unsubscribed(a) \/ (life[a].bound => life'[a].bound))
      BY <3>2 DEF Kept
    <3> QED
      BY <3>1, <3>3
  <2>5. CASE ~(Living(a) \/ Leave(a) \/ Crash(a) \/ Reopen(a))
    <3>1. life' = life
      BY <1>0, <2>5, LifeStep
    <3>2. Counts(a)
      BY <1>0, <2>5, StepCounts
    <3>3. seq[a] \in Int /\ More(life[a], seq[a])
      BY <1>0 DEF Base
    <3>4. More(life'[a], seq'[a])
      BY <3>1, <3>2, <3>3 DEF More, Counts
    <3>5. \E w : Kept(a, w) /\ Mailed(a, w)
      BY <1>1 DEF Far
    <3> QED
      BY <3>1, <3>4, <3>5
  <2> QED
    BY <2>4, <2>5
<1>7. \A x, y \in Peer : wire'[x][y] # <<>> => life'[y].bound
  <2>1. \A r \in Peer \ {a} : life'[r] = life[r]
    BY <1>1 DEF Apart
  <2>2. \A x, y \in Peer : wire[x][y] # <<>> => life[y].bound
    BY DEF Base
  <2> QED
    BY <1>0, <1>6, <2>1, <2>2, ReadsNext
<1>8. \A p \in Peer : More(life'[p], seq'[p])
  <2>1. \A r \in Peer \ {a} : life'[r] = life[r] /\ seq'[r] = seq[r]
    BY <1>1 DEF Apart, Far
  <2> QED
    BY <1>6, <2>1 DEF Base
<1> QED
  BY <1>1, <1>2, <1>3, <1>7, <1>8 DEF Base

-----------------------------------------------------------------------------
(* What a step of a does to its pair with b.                               *)

\* What is known of a that gets on with b.
LEMMA FairLife ==
  ASSUME Base, NEW a \in Peer, NEW b \in Peer, Fair(a, b)
  PROVE  /\ life \in [Peer -> Life] /\ seq \in [Peer -> Int] /\ wire \in Wires /\ Types /\ Logs /\ MeshOK(a)
         /\ LifeOK(life[a]) /\ More(life[a], seq[a]) /\ life[a] \in Life
         /\ seq[a] \in Int /\ seq[a] >= 0 /\ ~life[a].told /\ ~life[a].raced
         /\ (life[a].joinAt = "rollback" => seq[a] = 0)
         /\ b \notin crossed[a] /\ b \notin early[a]
<1>1. More(life[a], seq[a]) /\ seq[a] \in Int
  BY DEF Base, RoomInv, Types
<1> QED
  BY <1>1 DEF Base, RoomInv, Types, LifeInv, MeshInv, Fair, Apace, Astray, More

LEMMA FairNext ==
  ASSUME Base', NEW a \in Peer, NEW b \in Peer, Fair(a, b)'
  PROVE  /\ seq'[a] \in Int /\ seq'[a] >= 0 /\ ~life'[a].told /\ ~life'[a].raced
         /\ (life'[a].joinAt = "rollback" => seq'[a] = 0)
         /\ b \notin crossed'[a] /\ b \notin early'[a]
<1>1. More(life'[a], seq'[a]) /\ seq'[a] \in Int
  BY DEF Base, RoomInv, Types
<1> QED
  BY <1>1 DEF Fair, Apace, Astray, More

LEMMA QuietAside ==
  ASSUME NEW a, NEW b, UNCHANGED <<media, tasks, seen>>
  PROVE  Aside(End(a, b), End(a, b)')
<1>1. About(a, b)' = About(a, b)
  BY DEF About
<1> QED
  BY <1>1, AsideIs DEF media

LEMMA Broadcasts ==
  ASSUME Types, NEW p \in Peer, NEW q \in Peer, p # q, NEW w \in Wires, w[p][q] = wire[p][q],
         NEW type \in {"join", "leave", "offer"}, wire' = Post(w, p, Peer, seq[p], type, {})
  PROVE  Posts(End(p, q), End(q, p), End(p, q)', type) /\ wire'[q][p] = w[q][p]
<1>1. PICK tracks \in SUBSET Track : tracks = {}
  OBVIOUS
<1>3. PICK to : to = Peer
  OBVIOUS
<1>4. wire' = Post(w, p, to, seq[p], type, tracks)
  BY <1>1, <1>3
<1>5. q \in to
  BY <1>3
<1>6. ASSUME NEW x \in {"join", "leave", "offer"}, wire' = Post(w, p, to, seq[p], x, tracks)
      PROVE  Posts(End(p, q), End(q, p), End(p, q)', x)
  BY <1>5, <1>6, PostsIs
<1>7. wire'[q][p] = w[q][p]
  BY PostFar, <1>4
<1> QED
  BY <1>4, <1>6, <1>7

LEMMA JoinMoves ==
  ASSUME Base, NEW a \in Peer, NEW b \in Peer, a # b, Fair(a, b), Join(a) \/ JoinTransport(a) \/ JoinDone(a)
  PROVE  Waits(End(a, b), End(b, a), End(a, b)', End(b, a)')
<1>0. life \in [Peer -> Life]
  BY FairLife
<1>1. wire' = wire /\ seq' = seq /\ UNCHANGED <<media, tasks, seen>>
  BY DEF Join, JoinTransport, JoinDone
<1>2. Aside(End(a, b), End(a, b)')
  BY <1>1, QuietAside
<1>3. Announced(life'[a]) <=> Announced(life[a])
  <2>1. LifeOK(life[a]) /\ More(life[a], seq[a]) /\ ~life[a].raced
    BY FairLife
  <2> QED
    BY <1>0, <2>1, JoinLeads DEF Announced
<1>4. seq'[a] >= seq[a]
  BY <1>1, FairLife
<1>5. Steady(life[a], life'[a]) /\ life'[a].attached >= life[a].attached /\ (life[a].bound => life'[a].bound)
  BY <1>0, JoinLeads
<1> QED
  BY <1>1, <1>2, <1>3, <1>4, <1>5, EndFields DEF Waits

LEMMA AnnounceMoves ==
  ASSUME Base, NEW a \in Peer, NEW b \in Peer, a # b, Fair(a, b), JoinAnnounce(a)
  PROVE  Announces(End(a, b), End(b, a), End(a, b)', End(b, a)')
<1>0. /\ life \in [Peer -> Life] /\ Types /\ LifeOK(life[a]) /\ More(life[a], seq[a]) /\ ~life[a].raced
      /\ seq \in [Peer -> Int] /\ wire \in Wires /\ life[a] \in Life
  BY FairLife
<1>1. UNCHANGED <<media, tasks, seen>> /\ wire' = Post(wire, a, Peer, seq[a], "join", {})
      /\ seq'[a] = seq[a] + 1
  BY <1>0 DEF JoinAnnounce, Emit
<1>2. Aside(End(a, b), End(a, b)')
  BY <1>1, QuietAside
<1>3. Posts(End(a, b), End(b, a), End(a, b)', "join") /\ wire'[b][a] = wire[b][a]
  BY <1>0, <1>1, Broadcasts
<1>4. /\ Steady(life[a], life'[a]) /\ (life'[a].bound <=> life[a].bound) /\ life'[a].attached = life[a].attached
      /\ life[a].joinAt = "presence" /\ (life[a].bound => life'[a].joinAt = "announce")
  BY <1>0, AnnounceLeads
<1>5. ~life[a].closed /\ life[a].bound /\ life[a].attached > 0
  <2>1. life[a].attached \in Int /\ life[a].failed \in Int
    BY <1>0, LifeFields
  <2> QED
    BY <1>0, <1>4, <2>1 DEF LifeOK, More
<1>6. ~Announced(life[a]) /\ Announced(life'[a])
  BY <1>0, <1>4, <1>5 DEF Announced, More
<1> QED
  BY <1>1, <1>2, <1>3, <1>4, <1>5, <1>6, EndFields DEF Announces

LEMMA FailMoves ==
  ASSUME Base, Base', NEW a \in Peer, NEW b \in Peer, a # b, Fair(a, b), Fair(a, b)', JoinFail(a) \/ Rollback(a)
  PROVE  \/ Waits(End(a, b), End(b, a), End(a, b)', End(b, a)')
         \/ Unbinds(End(a, b), End(b, a), End(a, b)', End(b, a)')
<1>0. /\ life \in [Peer -> Life] /\ Types /\ LifeOK(life[a]) /\ More(life[a], seq[a]) /\ ~life[a].raced
      /\ seq \in [Peer -> Int] /\ wire \in Wires /\ life[a] \in Life /\ seq[a] \in Int /\ seq[a] >= 0
      /\ (life[a].joinAt = "rollback" => seq[a] = 0)
  BY FairLife
<1>1. UNCHANGED <<media, tasks, seen, seq>>
  BY DEF JoinFail, Rollback
<1>2. Aside(End(a, b), End(a, b)')
  BY <1>1, QuietAside
<1>3. /\ Steady(life[a], life'[a]) /\ life'[a].attached = life[a].attached
      /\ life[a].joinAt \in {"transport", "presence", "announce", "rollback"}
      /\ (life'[a].joined <=> life[a].joined) /\ life'[a].joinAt \in {"idle", "rollback"}
      /\ (life[a].joinAt # "rollback" /\ ~life[a].closed => life'[a].joinAt = "rollback")
      /\ \/ wire' = wire /\ (life[a].bound => life'[a].bound)
         \/ wire' = Unsubscribed(a) /\ life[a].joinAt \in {"transport", "rollback"}
  <2>1. CASE JoinFail(a)
    BY <1>0, <2>1, FailLeads
  <2>2. CASE Rollback(a)
    BY <1>0, <2>2, RollbackLeads
  <2> QED
    BY <2>1, <2>2
<1>4. ~life[a].closed
  BY <1>0, <1>3 DEF LifeOK
<1>5. seq[a] = 0
  <2>1. CASE life[a].joinAt = "rollback"
    BY <1>0, <2>1
  <2>2. CASE life[a].joinAt # "rollback"
    BY <1>1, <1>3, <1>4, <2>2, FairNext
  <2> QED
    BY <2>1, <2>2
<1>6. ~Announced(life[a]) /\ ~Announced(life'[a])
  BY <1>0, <1>3, <1>4, <1>5 DEF More, Announced
<1>7. CASE wire' = wire /\ (life[a].bound => life'[a].bound)
  <2>1. life'[a].attached >= life[a].attached
    BY <1>0, <1>3, LifeFields
  <2> QED
    BY <1>0, <1>1, <1>2, <1>3, <1>6, <1>7, <2>1, EndFields DEF Waits
<1>8. CASE wire' = Unsubscribed(a)
  <2>1. wire'[a][b] = wire[a][b] /\ wire'[b][a] = <<>>
    BY <1>0, <1>8, UnsubscribedIs
  <2> QED
    BY <1>1, <1>2, <1>3, <1>4, <1>5, <1>6, <2>1, EndFields DEF Unbinds
<1> QED
  BY <1>3, <1>7, <1>8

LEMMA LeaveMoves ==
  ASSUME Base, NEW a \in Peer, NEW b \in Peer, a # b, Fair(a, b), Leave(a)
  PROVE  Closes(End(a, b), End(b, a), End(a, b)', End(b, a)')
<1>0. life \in [Peer -> Life] /\ LifeOK(life[a])
  BY FairLife
<1>1. wire' = wire /\ seq' = seq /\ UNCHANGED <<remotes, pubs, heard, visited, tasks, seen>>
  BY DEF Leave
<1>2. Aside(End(a, b), End(a, b)')
  <2>1. About(a, b)' = About(a, b)
    BY <1>1 DEF About
  <2> QED
    BY <1>1, <2>1, AsideIs
<1>3. ~Left(life[a]) /\ ~Left(life'[a])
  BY <1>0, LeaveLeads DEF LifeOK, Left
<1>4. /\ life'[a].sess = life[a].sess /\ life'[a].closed
      /\ life'[a].bound = life[a].bound /\ life'[a].attached = life[a].attached
  BY <1>0, LeaveLeads DEF Left
<1> QED
  BY <1>1, <1>2, <1>3, <1>4, EndFields DEF Closes

LEMMA BidMoves ==
  ASSUME Base, NEW a \in Peer, NEW b \in Peer, a # b, Fair(a, b), LeaveAnnounce(a)
  PROVE  Bids(End(a, b), End(b, a), End(a, b)', End(b, a)')
<1>0. life \in [Peer -> Life] /\ LifeOK(life[a]) /\ Types /\ seq \in [Peer -> Int] /\ wire \in Wires
  BY FairLife
<1>1. UNCHANGED <<media, tasks, seen>> /\ wire' = Post(wire, a, Peer, seq[a], "leave", {})
      /\ seq'[a] = seq[a] + 1
  BY <1>0 DEF LeaveAnnounce, Emit
<1>2. Aside(End(a, b), End(a, b)')
  BY <1>1, QuietAside
<1>3. Posts(End(a, b), End(b, a), End(a, b)', "leave") /\ wire'[b][a] = wire[b][a]
  BY <1>0, <1>1, Broadcasts
<1>4. ~Left(life[a]) /\ Left(life'[a]) /\ life[a].closed /\ life'[a].closed
  BY <1>0, BidLeads DEF LifeOK, Left
<1>5. /\ life'[a].sess = life[a].sess /\ life[a].leaveAt # "crashed" /\ life'[a].leaveAt # "crashed"
      /\ life'[a].bound = life[a].bound /\ life'[a].attached = life[a].attached
  BY <1>0, BidLeads
<1> QED
  BY <1>1, <1>2, <1>3, <1>4, <1>5, EndFields DEF Bids

LEMMA DetachMoves ==
  ASSUME Base, NEW a \in Peer, NEW b \in Peer, a # b, Fair(a, b), LeaveTransport(a)
  PROVE  Detaches(End(a, b), End(b, a), End(a, b)', End(b, a)')
<1>0. life \in [Peer -> Life] /\ LifeOK(life[a]) /\ wire \in Wires
  BY FairLife
<1>1. UNCHANGED <<media, tasks, seen, seq>>
  BY DEF LeaveTransport
<1>2. Aside(End(a, b), End(a, b)')
  BY <1>1, QuietAside
<1>3. wire'[a][b] = wire[a][b] /\ wire'[b][a] \in {wire[b][a], <<>>}
  BY <1>0, DetachLeads, UnsubscribedIs
<1>4. Left(life[a]) /\ Left(life'[a]) /\ life[a].closed /\ life'[a].closed
  BY <1>0, DetachLeads DEF LifeOK, Left
<1> QED
  BY <1>0, <1>1, <1>2, <1>3, <1>4, DetachLeads, EndFields DEF Detaches

LEMMA WipeBlank ==
  ASSUME Types, Logs, NEW a \in Peer, NEW b \in Peer, Wipe(a)
  PROVE  Blank(End(a, b)') /\ seq'[a] = 0
<1>1. remotes'[a] = {} /\ tasks'[a] = {} /\ seq'[a] = 0 /\ seen'[a] = [k \in Session |-> -1]
  BY DEF Wipe, Types, MeshTypes, Logs
<1>2. ~Busy(a, b)'
  BY <1>1 DEF Busy, About
<1>3. \A s \in 1 .. MaxSess : Read(a, b)'[s] = -1
  BY <1>1 DEF Read, Session
<1>4. End(a, b)'.f = Read(a, b)' /\ End(a, b)'.busy = Busy(a, b)' /\ End(a, b)'.k = (b \in remotes'[a])
  BY EndFields
<1> QED
  BY <1>1, <1>2, <1>3, <1>4 DEF Blank

LEMMA CrashMoves ==
  ASSUME Base, Base', NEW a \in Peer, NEW b \in Peer, a # b, Fair(a, b), Fair(a, b)', Crash(a)
  PROVE  Dies(End(a, b), End(b, a), End(a, b)', End(b, a)')
<1>0. life \in [Peer -> Life] /\ More(life[a], seq[a]) /\ wire \in Wires /\ Types /\ Logs /\ seq[a] \in Int /\ seq[a] >= 0
  BY FairLife
<1>1. Blank(End(a, b)') /\ seq'[a] = 0
  BY <1>0, WipeBlank DEF Crash
<1>2. seq[a] = 0
  BY <1>0, CrashLeads, FairNext
<1>3. Unsubscribed(a) \in Wires /\ Unsubscribed(a)[a][b] = wire[a][b] /\ Unsubscribed(a)[b][a] = <<>>
  BY <1>0, ShrinksOK, UnsubscribedIs DEF Shrinks, Unsubscribed, Wires
<1>4. Posts(End(a, b), End(b, a), End(a, b)', "leave") /\ wire'[b][a] = <<>>
  <2>1. wire' = Post(Unsubscribed(a), a, Peer, seq[a], "leave", {})
    BY <1>2 DEF Crash
  <2> QED
    BY <1>0, <1>3, <2>1, Broadcasts
<1>5. life[a].leaveAt # "crashed"
  BY <1>0, CrashLeads DEF More
<1> QED
  BY <1>0, <1>1, <1>2, <1>4, <1>5, CrashLeads, EndFields DEF Dies

LEMMA ReopenMoves ==
  ASSUME Base, NEW a \in Peer, NEW b \in Peer, a # b, Fair(a, b), Reopen(a)
  PROVE  Reopens(End(a, b), End(b, a), End(a, b)', End(b, a)')
<1>0. life \in [Peer -> Life] /\ wire \in Wires /\ Types /\ Logs
  BY FairLife
<1>1. Blank(End(a, b)') /\ seq'[a] = 0
  BY <1>0, WipeBlank DEF Reopen
<1>2. wire'[a][b] = wire[a][b] /\ wire'[b][a] = <<>>
  BY <1>0, UnsubscribedIs DEF Reopen
<1>3. Left(life[a]) /\ ~Left(life'[a]) /\ ~Announced(life'[a])
  BY <1>0, ReopenLeads DEF Left, Announced
<1> QED
  BY <1>0, <1>1, <1>2, <1>3, ReopenLeads, EndFields DEF Reopens

LEMMA LivingMoves ==
  ASSUME Base, Base', NEW a \in Peer, NEW b \in Peer, a # b, Fair(a, b), Fair(a, b)',
         Living(a) \/ Leave(a) \/ Crash(a) \/ Reopen(a)
  PROVE  Moves(End(a, b), End(b, a), End(a, b)', End(b, a)')
BY JoinMoves, AnnounceMoves, FailMoves, LeaveMoves, BidMoves, DetachMoves, CrashMoves, ReopenMoves DEF Living, Moves

\* What a call about another peer leaves alone between a and b.
LEMMA UseOther ==
  ASSUME Types, Logs, NEW a \in Peer, NEW b \in Peer, a # b, NEW t \in Call, t.who # b, NEW w \in Wires,
         NEW base, UsePeer(a, t, w, base)
  PROVE  /\ heard'[a][b] = heard[a][b] /\ \A k \in Track : b \in visited'[a][k] <=> b \in visited[a][k]
         /\ About(a, b)' = About(a, b) /\ seq'[a] >= seq[a]
         /\ wire'[a][b] = w[a][b] /\ wire'[b][a] = w[b][a]
<1>0. t.who \in Peer /\ t.why \in Track \cup {"join", "offer"} /\ seq[a] \in Int
  BY CallOK DEF Types
<1>1. heard'[a][b] = heard[a][b]
  BY <1>0 DEF UsePeer, Logs
<1>2. \A k \in Track : b \in visited'[a][k] <=> b \in visited[a][k]
  <2>1. visited \in [Peer -> [Track -> SUBSET Peer]]
    BY DEF Types, MeshTypes
  <2>2. visited' = visited \/ (t.why \in Track /\ visited' = [visited EXCEPT ![a][t.why] = @ \cup {t.who}])
    BY DEF UsePeer
  <2> QED
    BY <1>0, <2>1, <2>2
<1>3. About(a, b)' = About(a, b)
  <2>1. tasks \in [Peer -> SUBSET Call]
    BY DEF Types, MeshTypes
  <2>2. tasks'[a] = tasks[a] \ {t} \/ tasks'[a] = (tasks[a] \ {t}) \cup {Looping(a, t)}
    <3>1. CASE t.why \in Track
      BY <2>1, <3>1 DEF UsePeer, Looping
    <3>2. CASE t.why \notin Track
      BY <2>1, <3>2 DEF UsePeer, Looping
    <3> QED
      BY <3>1, <3>2
  <2>3. Looping(a, t).who = a
    BY DEF Looping, Call
  <2> QED
    BY <2>2, <2>3 DEF About
<1>4. (wire' = w /\ seq' = seq) \/ \E base2 : wire' = Post(w, a, {t.who}, seq[a], "offer", base2)
                                              /\ seq' = [seq EXCEPT ![a] = @ + 1]
  BY DEF UsePeer
<1>5. seq'[a] >= seq[a]
  BY <1>0, <1>4 DEF Types
<1>6. wire'[a][b] = w[a][b] /\ wire'[b][a] = w[b][a]
  <2>1. CASE wire' = w
    BY <2>1
  <2>2. CASE wire' # w
    <3>1. PICK base2, n : wire' = Post(w, a, {t.who}, n, "offer", base2)
      BY <1>4, <2>2
    <3>2. /\ Post(w, a, {t.who}, n, "offer", base2)[a][b] = w[a][b]
          /\ Post(w, a, {t.who}, n, "offer", base2)[b][a] = w[b][a]
      BY <1>0 DEF Post, Wires
    <3> QED
      BY <3>1, <3>2
  <2> QED
    BY <2>1, <2>2
<1> QED
  BY <1>1, <1>2, <1>3, <1>5, <1>6

LEMMA EnsureOther ==
  ASSUME Types, Logs, NEW a \in Peer, NEW b \in Peer, a # b, NEW old, old.who # b, NEW t \in Call, t.who # b,
         NEW w \in Wires, EnsurePeer(a, old, t, w)
  PROVE  /\ heard'[a][b] = heard[a][b] /\ \A k \in Track : b \in visited'[a][k] <=> b \in visited[a][k]
         /\ About(a, b)' = About(a, b) /\ seq'[a] >= seq[a] /\ (b \in remotes'[a] <=> b \in remotes[a])
         /\ wire'[a][b] = w[a][b] /\ wire'[b][a] = w[b][a]
<1>0. tasks \in [Peer -> SUBSET Call] /\ seq[a] \in Int /\ remotes \in [Peer -> SUBSET Peer]
  BY DEF Types, MeshTypes
<1>1. CASE t.who \in peers[a]
  <2>1. UsePeer(a, t, w, sent[a][t.who]) /\ remotes' = remotes
    BY <1>1 DEF EnsurePeer
  <2> QED
    BY <2>1, UseOther
<1>2. CASE t.who \notin peers[a]
  <2>1. UNCHANGED <<seq, heard, visited>> /\ wire' = w
    BY <1>2 DEF EnsurePeer
  <2>2. remotes' = remotes \/ remotes' = [remotes EXCEPT ![a] = @ \cup {t.who}]
    BY <1>2 DEF EnsurePeer
  <2>3. [t EXCEPT !.at = "ice"].who # b
    BY CallOK
  <2>4. tasks'[a] = (tasks[a] \ {old}) \/ tasks'[a] = (tasks[a] \ {old}) \cup {[t EXCEPT !.at = "ice"]}
    BY <1>0, <1>2 DEF EnsurePeer
  <2>5. About(a, b)' = About(a, b)
    BY <2>3, <2>4 DEF About
  <2>6. b \in remotes'[a] <=> b \in remotes[a]
    BY <1>0, <2>2
  <2> QED
    BY <1>0, <2>1, <2>5, <2>6
<1> QED
  BY <1>1, <1>2

\* A step in which nothing is said of b.
LEMMA OtherWaits ==
  ASSUME Base, NEW a \in Peer, NEW b \in Peer, a # b, Fair(a, b), life' = life, pubs'[a] = pubs[a],
         heard'[a][b] = heard[a][b], \A k \in Track : b \in visited'[a][k] <=> b \in visited[a][k],
         About(a, b)' = About(a, b), seq'[a] >= seq[a], b \in remotes'[a] <=> b \in remotes[a],
         wire'[a][b] = wire[a][b], wire'[b][a] = wire[b][a],
         \A s \in 1 .. MaxSess : seen'[a][<<b, s>>] = seen[a][<<b, s>>]
  PROVE  Waits(End(a, b), End(b, a), End(a, b)', End(b, a)')
<1>1. Aside(End(a, b), End(a, b)')
  BY AsideIs
<1>2. Steady(life[a], life'[a]) /\ (Announced(life'[a]) <=> Announced(life[a]))
  BY DEF Steady
<1>3. life'[a].attached >= life[a].attached /\ (life[a].bound => life'[a].bound)
  <2>1. life[a] \in Life
    BY FairLife
  <2>2. life[a].attached \in Int
    BY <2>1, LifeFields
  <2> QED
    BY <2>2
<1> QED
  BY <1>1, <1>2, <1>3, EndFields DEF Waits

\* The peer that an envelope comes from is another.
LEMMA ReceiveOther ==
  ASSUME Base, NEW a \in Peer, NEW b \in Peer, a # b, Fair(a, b), NEW q \in Peer \ {a}, q # b, Receive(a, q)
  PROVE  Waits(End(a, b), End(b, a), End(a, b)', End(b, a)')
<1>0. /\ Types /\ Logs /\ wire \in Wires /\ seq[a] \in Int /\ tasks \in [Peer -> SUBSET Call]
      /\ remotes \in [Peer -> SUBSET Peer] /\ seq \in [Peer -> Int] /\ heard \in [Peer -> [Peer -> SUBSET Track]]
      /\ visited \in [Peer -> [Track -> SUBSET Peer]]
  BY FairLife DEF Types, MeshTypes, Logs
<1>q. q \in Peer /\ q # a
  OBVIOUS
<1>1. Pop(q, a)[a][b] = wire[a][b] /\ Pop(q, a)[b][a] = wire[b][a]
  BY <1>0, PopIs
<1>2. CASE Refuse(a, q)
  <2>1. UNCHANGED <<life, seq, seen, media, tasks>> /\ wire' = Pop(q, a)
    BY <1>2 DEF Refuse
  <2>2. About(a, b)' = About(a, b)
    BY <2>1 DEF About
  <2> QED
    BY <1>0, <1>1, <2>1, <2>2, OtherWaits DEF media
<1>3. ASSUME NEW type, Accept(a, q, type)
      PROVE  /\ UNCHANGED <<life, pubs>> /\ Head(wire[q][a]) \in Envelope /\ Pop(q, a) \in Wires
             /\ \A s \in 1 .. MaxSess : seen'[a][<<b, s>>] = seen[a][<<b, s>>]
  <2>1. Head(wire[q][a]) \in Envelope /\ UNCHANGED <<life, pubs>> /\ Pop(q, a) \in Wires
    BY <1>0, <1>q, <1>3, AcceptLogs
  <2>2. Notes(a, q, Head(wire[q][a]))
    BY <1>0, <1>q, <1>3, AcceptLogs
  <2> QED
    BY <2>1, <2>2 DEF Notes
<1>4. CASE RemoteJoin(a, q)
  <2>1. Accept(a, q, "join") /\ UNCHANGED <<heard, visited>>
    BY <1>4 DEF RemoteJoin
  <2>2. /\ wire' = Pop(q, a) \/ \E n : wire' = Post(Pop(q, a), a, {q}, n, "join", {})
        /\ seq' = seq \/ seq' = [seq EXCEPT ![a] = @ + 1]
        /\ remotes' = remotes \/ remotes' = [remotes EXCEPT ![a] = @ \cup {q}]
        /\ tasks' = tasks \/ \E id : tasks' = [tasks EXCEPT ![a] = @ \cup {Task(q, "join", "reply", {}, id)}]
    BY <1>4 DEF RemoteJoin
  <2>3. wire'[a][b] = wire[a][b] /\ wire'[b][a] = wire[b][a]
    <3>1. CASE wire' = Pop(q, a)
      BY <1>1, <3>1
    <3>2. CASE wire' # Pop(q, a)
      <4>1. PICK n : wire' = Post(Pop(q, a), a, {q}, n, "join", {})
        BY <2>2, <3>2
      <4>2. Pop(q, a) \in Wires
        BY <1>3, <2>1
      <4>3. /\ Post(Pop(q, a), a, {q}, n, "join", {})[a][b] = Pop(q, a)[a][b]
            /\ Post(Pop(q, a), a, {q}, n, "join", {})[b][a] = Pop(q, a)[b][a]
        BY <4>2, <1>q DEF Post, Wires
      <4> QED
        BY <1>1, <4>1, <4>3
    <3> QED
      BY <3>1, <3>2
  <2>4. About(a, b)' = About(a, b)
    BY <1>0, <2>2 DEF About, Task
  <2>5. seq'[a] >= seq[a] /\ (b \in remotes'[a] <=> b \in remotes[a])
    BY <1>0, <2>2
  <2> QED
    BY <1>3, <2>1, <2>3, <2>4, <2>5, OtherWaits
<1>5. CASE RemoteLeave(a, q)
  <2>1. /\ Accept(a, q, "leave") /\ wire' = Pop(q, a) /\ UNCHANGED <<seq, tasks>>
        /\ remotes' = [remotes EXCEPT ![a] = @ \ {q}] /\ heard' = [heard EXCEPT ![a][q] = {}]
        /\ visited' = [visited EXCEPT ![a] = [t \in Track |-> @[t] \ {q}]]
    BY <1>5 DEF RemoteLeave
  <2>2. About(a, b)' = About(a, b)
    BY <2>1 DEF About
  <2>3. b \in remotes'[a] <=> b \in remotes[a]
    BY <1>0, <2>1
  <2>4. heard'[a][b] = heard[a][b]
    BY <1>0, <2>1
  <2>5. \A k \in Track : b \in visited'[a][k] <=> b \in visited[a][k]
    BY <1>0, <2>1
  <2>6. UNCHANGED <<life, pubs>> /\ \A s \in 1 .. MaxSess : seen'[a][<<b, s>>] = seen[a][<<b, s>>]
    BY <1>3, <2>1
  <2>7. wire'[a][b] = wire[a][b] /\ wire'[b][a] = wire[b][a] /\ seq'[a] >= seq[a]
    BY <1>0, <1>1, <2>1
  <2> QED
    BY <2>2, <2>3, <2>4, <2>5, <2>6, <2>7, OtherWaits
<1>6. CASE RemoteOffer(a, q)
  <2>1. PICK t : /\ t = Task(q, "offer", "ice", Head(wire[q][a]).tracks,
                             <<Head(wire[q][a]).sess, Head(wire[q][a]).seq>>)
                 /\ Accept(a, q, "offer") /\ EnsurePeer(a, t, t, Pop(q, a))
    BY <1>6 DEF RemoteOffer
  <2>2. t \in Call /\ t.who = q
    BY <1>3, <2>1, TaskOK DEF Envelope
  <2> HIDE <2>1
  <2>3. EnsurePeer(a, t, t, Pop(q, a)) /\ Accept(a, q, "offer")
    BY <2>1
  <2>4. /\ heard'[a][b] = heard[a][b] /\ \A k \in Track : b \in visited'[a][k] <=> b \in visited[a][k]
        /\ About(a, b)' = About(a, b) /\ seq'[a] >= seq[a] /\ (b \in remotes'[a] <=> b \in remotes[a])
        /\ wire'[a][b] = Pop(q, a)[a][b] /\ wire'[b][a] = Pop(q, a)[b][a]
    BY <1>0, <1>3, <2>2, <2>3, EnsureOther
  <2> QED
    BY <1>1, <1>3, <2>3, <2>4, OtherWaits
<1> QED
  BY <1>2, <1>4, <1>5, <1>6 DEF Receive

\* An envelope of b is taken off the wire ...
LEMMA TakesIs ==
  ASSUME CallInv, NEW a \in Peer, NEW b \in Peer, a # b, Fair(a, b), wire[b][a] # <<>>,
         wire'[b][a] = Tail(wire[b][a]), life' = life, pubs'[a] = pubs[a]
  PROVE  /\ Takes(End(a, b), End(b, a), End(a, b)', End(b, a)')
         /\ Head(wire[b][a]) \in Envelope /\ Head(wire[b][a]).sess \in 1 .. MaxSess
<1>1. wire[b][a] \in Seq(Envelope) /\ life[b].sess =< MaxSess /\ life[b].sess \in Int
  <2>1. life[b] \in Life /\ More(life[b], seq[b])
    BY DEF CallInv, Base, RoomInv, Types
  <2> QED
    BY <2>1, LifeFields DEF CallInv, Base, RoomInv, Types, Wires, More
<1>2. Within(wire[b][a], life[b].sess)
  <2>1. Meet(End(a, b), End(b, a))
    BY EndsMeet
  <2>2. Within(End(b, a).out, End(b, a).l.sess)
    BY <2>1 DEF Meet, Pair, Roots, Ordered
  <2> QED
    BY <2>2, EndFields
<1>3. Head(wire[b][a]) \in Envelope /\ Head(wire[b][a]) = wire[b][a][1] /\ 1 \in 1 .. Len(wire[b][a])
  BY <1>1
<1>4. Head(wire[b][a]).sess \in 1 .. MaxSess
  <2>1. Head(wire[b][a]).sess \in Int
    BY <1>3 DEF Envelope
  <2>2. 1 =< Head(wire[b][a]).sess /\ Head(wire[b][a]).sess =< life[b].sess
    BY <1>2, <1>3, <2>1 DEF Within
  <2> QED
    BY <1>1, <2>1, <2>2, RoomAssumption DEF RoomAssumption
<1>5. Takes(End(a, b), End(b, a), End(a, b)', End(b, a)')
  BY EndFields DEF Takes
<1> QED
  BY <1>3, <1>4, <1>5

\* ... and accepted.
LEMMA AcceptedIs ==
  ASSUME NEW a \in Peer, NEW b \in Peer, life[a].attached > 0, Notes(a, b, Head(wire[b][a]))
  PROVE  Accepted(End(a, b), End(b, a), End(a, b)')
<1>1. \A s \in 1 .. MaxSess :
        seen'[a][<<b, s>>] = IF s = Head(wire[b][a]).sess THEN Head(wire[b][a]).seq ELSE seen[a][<<b, s>>]
  BY DEF Notes
<1>2. Read(a, b)' = [s \in 1 .. MaxSess |->
        IF s = Head(wire[b][a]).sess THEN Head(wire[b][a]).seq ELSE Read(a, b)[s]]
  BY <1>1 DEF Read
<1>3. End(a, b)'.f = Read(a, b)' /\ End(a, b).f = Read(a, b) /\ End(b, a).out = wire[b][a] /\ End(a, b).l = life[a]
  BY EndFields
<1> QED
  BY <1>2, <1>3 DEF Accepted

\* Whom a is busy with it has in its roster.
LEMMA OwnedIs ==
  ASSUME CallInv, NEW a \in Peer, NEW b \in Peer, a # b, Fair(a, b), NEW t \in tasks[a], t.who = b
  PROVE  b \in remotes[a]
<1>1. Meet(End(a, b), End(b, a))
  BY EndsMeet
<1>2. End(a, b).busy => End(a, b).k
  BY <1>1 DEF Meet, Pair, Roots, Owned
<1>3. Busy(a, b)
  BY DEF Busy, About
<1> QED
  BY <1>2, <1>3, EndFields

LEMMA RefuseMoves ==
  ASSUME CallInv, NEW a \in Peer, NEW b \in Peer, a # b, Fair(a, b), Refuse(a, b)
  PROVE  Hears(End(a, b), End(b, a), End(a, b)', End(b, a)')
<1>0. wire \in Wires /\ Base
  BY FairLife DEF CallInv
<1>1. UNCHANGED <<life, seq, seen, media, tasks>> /\ wire' = Pop(b, a) /\ wire[b][a] # <<>> /\ ~Accepts(a, b)
  BY DEF Refuse
<1>2. About(a, b)' = About(a, b)
  BY <1>1 DEF About
<1>3. Aside(End(a, b), End(a, b)')
  BY <1>1, QuietAside
<1>4. wire'[b][a] = Tail(wire[b][a]) /\ wire'[a][b] = wire[a][b]
  BY <1>0, <1>1, PopIs
<1>5. Takes(End(a, b), End(b, a), End(a, b)', End(b, a)') /\ Head(wire[b][a]).sess \in 1 .. MaxSess
  BY <1>1, <1>4, TakesIs DEF media
<1>6. End(a, b).busy => End(a, b).k
  <2>1. Busy(a, b) => b \in remotes[a]
    BY OwnedIs DEF Busy, About
  <2>2. End(a, b).busy = Busy(a, b) /\ End(a, b).k = (b \in remotes[a])
    BY EndFields
  <2> QED
    BY <2>1, <2>2
<1>7. ~(life[a].attached > 0 /\ Head(wire[b][a]).seq > Read(a, b)[Head(wire[b][a]).sess])
  BY <1>1, <1>5 DEF Accepts, Read
<1>8. /\ End(a, b).f = Read(a, b) /\ End(a, b).l = life[a] /\ End(b, a).out = wire[b][a]
      /\ End(a, b).n = seq[a] /\ End(a, b)'.n = seq'[a] /\ End(a, b).out = wire[a][b] /\ End(a, b)'.out = wire'[a][b]
  BY EndFields
<1> QED
  BY <1>1, <1>3, <1>4, <1>5, <1>6, <1>7, <1>8 DEF Hears, Aside

\* What an accepted envelope of b does to the end of a.
LEMMA AcceptIs ==
  ASSUME CallInv, NEW a \in Peer, NEW b \in Peer, a # b, Fair(a, b), NEW type, Accept(a, b, type),
         wire'[b][a] = Pop(b, a)[b][a]
  PROVE  /\ Takes(End(a, b), End(b, a), End(a, b)', End(b, a)') /\ Accepted(End(a, b), End(b, a), End(a, b)')
         /\ Head(wire[b][a]).type = type /\ Head(wire[b][a]) \in Envelope /\ UNCHANGED <<life, pubs>>
         /\ Pop(b, a) \in Wires /\ Pop(b, a)[a][b] = wire[a][b] /\ wire[b][a] # <<>>
<1>0. Types /\ Logs /\ wire \in Wires
  BY FairLife DEF CallInv
<1>1. /\ wire[b][a] # <<>> /\ Head(wire[b][a]).type = type /\ life[a].attached > 0 /\ UNCHANGED <<life, pubs>>
      /\ Notes(a, b, Head(wire[b][a])) /\ Pop(b, a) \in Wires
  BY <1>0, AcceptLogs
<1>2. Pop(b, a)[b][a] = Tail(wire[b][a]) /\ Pop(b, a)[a][b] = wire[a][b]
  BY <1>0, PopIs
<1> QED
  BY <1>1, <1>2, TakesIs, AcceptedIs

\* The roster, before and after.
LEMMA EndRoster ==
  ASSUME NEW a, NEW b
  PROVE  /\ (End(a, b).k => b \in remotes[a]) /\ (b \in remotes[a] => End(a, b).k)
         /\ (End(a, b)'.k => b \in remotes'[a]) /\ (b \in remotes'[a] => End(a, b)'.k)
<1>1. End(a, b).k = (b \in remotes[a]) /\ End(a, b)'.k = (b \in remotes'[a])
  BY EndFields
<1> QED
  BY <1>1

LEMMA GreetMoves ==
  ASSUME CallInv, Base', NEW a \in Peer, NEW b \in Peer, a # b, Fair(a, b), Fair(a, b)', RemoteJoin(a, b)
  PROVE  \/ Hears(End(a, b), End(b, a), End(a, b)', End(b, a)')
         \/ Greets(End(a, b), End(b, a), End(a, b)', End(b, a)')
<1>0. /\ Types /\ Logs /\ wire \in Wires /\ seq[a] \in Int /\ tasks \in [Peer -> SUBSET Call] /\ seq \in [Peer -> Int]
      /\ remotes \in [Peer -> SUBSET Peer] /\ MeshOK(a) /\ LifeOK(life[a]) /\ b \notin crossed[a] /\ Base
      /\ crossed \in [Peer -> SUBSET Peer]
  BY FairLife DEF CallInv, Types, MeshTypes
<1>1. Accept(a, b, "join") /\ UNCHANGED <<heard, visited>>
  BY DEF RemoteJoin
<1>2. CASE b \in remotes[a]
  <2>1. wire' = Pop(b, a) /\ UNCHANGED <<seq, remotes, tasks>>
    BY <1>2 DEF RemoteJoin
  <2>2. /\ Takes(End(a, b), End(b, a), End(a, b)', End(b, a)') /\ Accepted(End(a, b), End(b, a), End(a, b)')
        /\ Head(wire[b][a]).type = "join" /\ wire'[a][b] = wire[a][b]
    BY <1>1, <2>1, AcceptIs
  <2>3. Calls(a, b)' = Calls(a, b) /\ Busy(a, b)' = Busy(a, b) /\ Hear(a, b)' = Hear(a, b) /\ Put(a, b)' = Put(a, b)
    BY <1>1, <2>1 DEF Calls, Busy, Hear, Put, About
  <2>4. End(a, b).k /\ End(a, b)'.k
    BY <1>2, <2>1, EndRoster
  <2> QED
    BY <2>1, <2>2, <2>3, <2>4, EndFields DEF Hears
<1>3. CASE b \notin remotes[a]
  <2>1. PICK m : m = Head(wire[b][a])
    OBVIOUS
  <2>2. /\ remotes' = [remotes EXCEPT ![a] = @ \cup {b}]
        /\ wire' = Post(Pop(b, a), a, {b}, seq[a], "join", {})
        /\ seq' = [seq EXCEPT ![a] = @ + 1]
        /\ tasks' = [tasks EXCEPT ![a] = @ \cup {Task(b, "join", "reply", {}, <<m.sess, m.seq>>)}]
        /\ crossed' = IF life[a].closed THEN [crossed EXCEPT ![a] = @ \cup {b}] ELSE crossed
    BY <1>3, <2>1 DEF RemoteJoin
  <2>3. Pop(b, a) \in Wires
    BY <1>0, <1>1, AcceptLogs
  <2>4. wire'[b][a] = Pop(b, a)[b][a]
    BY <2>2, <2>3 DEF Post, Wires
  <2>5. /\ Takes(End(a, b), End(b, a), End(a, b)', End(b, a)') /\ Accepted(End(a, b), End(b, a), End(a, b)')
        /\ Head(wire[b][a]).type = "join" /\ Pop(b, a)[a][b] = wire[a][b]
    BY <1>1, <2>4, AcceptIs
  <2>6. Posts(End(a, b), End(b, a), End(a, b)', "join")
    <3>1. wire'[a][b] = Post(Pop(b, a), a, Peer, seq[a], "join", {})[a][b]
      BY <2>2, <2>3 DEF Post, Wires
    <3>2. PICK tracks \in SUBSET Track : tracks = {}
      OBVIOUS
    <3>3. PICK to : to = {b}
      OBVIOUS
    <3>5. PICK w \in Wires : w = Pop(b, a)
      BY <2>3
    <3>4. ASSUME NEW x \in {"join", "leave", "offer"}, wire' = Post(w, a, to, seq[a], x, tracks)
          PROVE  Posts(End(a, b), End(b, a), End(a, b)', x)
      <4>1. b \in to /\ w[a][b] = wire[a][b]
        BY <2>5, <3>3, <3>5
      <4>2. Types /\ a # b
        BY <1>0
      <4> QED
        BY <3>4, <4>1, <4>2, PostsIs
    <3> QED
      BY <2>2, <3>2, <3>3, <3>4, <3>5
  <2>7. ~life[a].closed
    BY <1>0, <2>2, FairNext
  <2>8. PICK u : u = Task(b, "join", "reply", {}, <<m.sess, m.seq>>)
    OBVIOUS
  <2>9. u.who = b /\ u.at = "reply" /\ u.why = "join" /\ tasks'[a] = tasks[a] \cup {u}
    BY <1>0, <2>2, <2>8 DEF Task
  <2>10. About(a, b)' = About(a, b) \cup {u}
    BY <2>9 DEF About
  <2>11. Calls(a, b)'
    BY <2>9, <2>10 DEF Calls
  <2>12. Hear(a, b)' = Hear(a, b)
    BY <1>1, <2>9, <2>10 DEF Hear
  <2>13. Put(a, b)' = {}
    <3>1. PairOK(a, b)
      BY <1>0 DEF MeshOK
    <3>2. \A t \in tasks[a] : ~Makes(t, b)
      BY <1>3, <3>1 DEF PairOK, Making
    <3>3. Exact(a, b)
      BY <3>1, <3>2 DEF PairOK
    <3>4. \A k \in Track : b \notin visited[a][k]
      BY <1>0, <1>3, <2>7, <3>3 DEF Exact, LifeOK
    <3> QED
      BY <1>1, <3>4 DEF Put
  <2>14. ~End(a, b).k /\ End(a, b)'.k
    BY <1>0, <1>3, <2>2, EndRoster
  <2>15. seq'[a] = seq[a] + 1
    BY <1>0, <2>2
  <2> QED
    BY <2>5, <2>6, <2>7, <2>11, <2>12, <2>13, <2>14, <2>15, EndFields DEF Greets
<1> QED
  BY <1>2, <1>3

LEMMA PartMoves ==
  ASSUME CallInv, Base', NEW a \in Peer, NEW b \in Peer, a # b, Fair(a, b), Fair(a, b)', RemoteLeave(a, b)
  PROVE  Parts(End(a, b), End(b, a), End(a, b)', End(b, a)')
<1>0. /\ Types /\ remotes \in [Peer -> SUBSET Peer] /\ crossed \in [Peer -> SUBSET Peer]
  BY FairLife DEF CallInv, Types, MeshTypes
<1>1. /\ Accept(a, b, "leave") /\ wire' = Pop(b, a) /\ UNCHANGED <<seq, tasks>>
      /\ remotes' = [remotes EXCEPT ![a] = @ \ {b}]
      /\ crossed' = IF \E t \in tasks[a] : t.who = b THEN [crossed EXCEPT ![a] = @ \cup {b}] ELSE crossed
  BY DEF RemoteLeave
<1>2. /\ Takes(End(a, b), End(b, a), End(a, b)', End(b, a)') /\ Accepted(End(a, b), End(b, a), End(a, b)')
      /\ Head(wire[b][a]).type = "leave" /\ wire'[a][b] = wire[a][b]
  BY <1>1, AcceptIs
<1>3. ~Busy(a, b)'
  <2>1. \A t \in tasks[a] : t.who # b
    BY <1>0, <1>1, FairNext
  <2> QED
    BY <1>1, <2>1 DEF Busy, About
<1>4. ~End(a, b)'.k
  BY <1>0, <1>1, EndRoster
<1> QED
  BY <1>1, <1>2, <1>3, <1>4, EndFields DEF Parts

LEMMA OfferMoves ==
  ASSUME CallInv, Base', NEW a \in Peer, NEW b \in Peer, a # b, Fair(a, b), Fair(a, b)', RemoteOffer(a, b)
  PROVE  Hears(End(a, b), End(b, a), End(a, b)', End(b, a)')
<1>0. /\ Types /\ Logs /\ wire \in Wires /\ tasks \in [Peer -> SUBSET Call] /\ heard \in [Peer -> [Peer -> SUBSET Track]]
      /\ remotes \in [Peer -> SUBSET Peer] /\ MeshOK(a) /\ LifeOK(life[a]) /\ b \notin crossed[a] /\ Base
      /\ early \in [Peer -> SUBSET Peer] /\ Track \cap {"join", "offer"} = {}
  BY FairLife, RoomAssumption DEF CallInv, Types, MeshTypes, Base, Logs, RoomAssumption
<1>1. PICK t : /\ t = Task(b, "offer", "ice", Head(wire[b][a]).tracks,
                           <<Head(wire[b][a]).sess, Head(wire[b][a]).seq>>)
               /\ Accept(a, b, "offer") /\ EnsurePeer(a, t, t, Pop(b, a))
               /\ early' = IF b \in remotes[a] THEN early ELSE [early EXCEPT ![a] = @ \cup {b}]
  BY DEF RemoteOffer
<1>2. /\ Head(wire[b][a]).tracks \in SUBSET Track /\ Pop(b, a) \in Wires
      /\ <<Head(wire[b][a]).sess, Head(wire[b][a]).seq>> \in Int \X Int
  <2>1. Pop(b, a) \in Wires /\ wire[b][a] # <<>>
    BY <1>0, <1>1, AcceptLogs
  <2> QED
    BY <1>0, <2>1, HeadOK
<1>3. /\ t \in Call /\ t.who = b /\ t.why = "offer" /\ t.at = "ice" /\ t.got = Head(wire[b][a]).tracks
      /\ [t EXCEPT !.at = "ice"] = t /\ Makes(t, b)
  <2>1. t \in Call /\ t.who = b
    BY <1>1, <1>2, TaskOK
  <2>2. t.why = "offer" /\ t.at = "ice" /\ t.got = Head(wire[b][a]).tracks
    BY <1>1 DEF Task
  <2>3. [t EXCEPT !.at = "ice"] = t
    BY <2>1, <2>2 DEF Call
  <2> QED
    BY <2>1, <2>2, <2>3 DEF Makes
<1>4. b \in remotes[a]
  BY <1>0, <1>1, FairNext
<1>u. /\ b \in peers[a] => UsePeer(a, t, Pop(b, a), sent[a][b]) /\ remotes' = remotes
      /\ t.why \notin Track
  BY <1>0, <1>1, <1>3 DEF EnsurePeer
<1>5. wire' = Pop(b, a) /\ UNCHANGED <<seq, visited>> /\ b \in remotes'[a]
  <2>1. CASE b \in peers[a]
    BY <1>3, <1>4, <1>u, <2>1 DEF UsePeer
  <2>2. CASE b \notin peers[a]
    <3>1. wire' = Pop(b, a) /\ UNCHANGED <<seq, visited>>
      BY <1>1, <1>3, <2>2 DEF EnsurePeer
    <3>2. remotes' = remotes \/ remotes' = [remotes EXCEPT ![a] = @ \cup {t.who}]
      BY <1>1, <1>3, <2>2 DEF EnsurePeer
    <3> QED
      BY <1>0, <1>4, <3>1, <3>2
  <2> QED
    BY <2>1, <2>2
<1>6. /\ Takes(End(a, b), End(b, a), End(a, b)', End(b, a)') /\ Accepted(End(a, b), End(b, a), End(a, b)')
      /\ Head(wire[b][a]).type = "offer" /\ wire'[a][b] = wire[a][b]
  BY <1>1, <1>5, AcceptIs
<1>7. /\ tasks[a] \ {t} \subseteq tasks'[a]
      /\ Hear(a, b) \subseteq Hear(a, b)' /\ (~life[a].closed => t.got \subseteq Hear(a, b)')
  <2>1. t.got \subseteq Track
    BY <1>3, CallOK
  <2>2. CASE b \in peers[a]
    <3>1. heard'[a][b] = heard[a][b] \cup t.got /\ tasks'[a] = tasks[a] \ {t}
      BY <1>0, <1>3, <1>4, <1>u, <2>2 DEF UsePeer
    <3>2. Hear(a, b) \subseteq Hear(a, b)'
      BY <2>1, <3>1 DEF Hear, About
    <3> QED
      BY <3>1, <3>2 DEF Hear
  <2>3. CASE b \notin peers[a]
    <3>1. heard' = heard /\ tasks'[a] = (tasks[a] \ {t}) \cup (IF life[a].mediaClosed THEN {} ELSE {t})
      BY <1>0, <1>1, <1>3, <2>3 DEF EnsurePeer
    <3>2. life[a].mediaClosed => t \notin tasks[a]
      BY <1>0, <1>3 DEF MeshOK, PairOK, Making
    <3>3. tasks[a] \subseteq tasks'[a] /\ (~life[a].mediaClosed => t \in tasks'[a])
      BY <3>1, <3>2
    <3>4. Hear(a, b) \subseteq Hear(a, b)'
      BY <3>1, <3>3 DEF Hear, About
    <3>5. ~life[a].closed => t.got \subseteq Hear(a, b)'
      BY <1>0, <1>3, <2>1, <3>3 DEF Hear, About, LifeOK
    <3> QED
      BY <3>3, <3>4, <3>5
  <2> QED
    BY <2>2, <2>3
<1>8. Calls(a, b) => Calls(a, b)'
  BY <1>3, <1>7 DEF Calls, About
<1>9. End(a, b).k /\ End(a, b)'.k
  BY <1>4, <1>5, EndRoster
<1>10. Put(a, b)' = Put(a, b)
  BY <1>5 DEF Put
<1>11. /\ End(a, b)'.got = Hear(a, b)' /\ End(a, b).got = Hear(a, b) /\ End(a, b).calls = Calls(a, b)
       /\ End(a, b)'.calls = Calls(a, b)' /\ End(b, a).out = wire[b][a] /\ End(a, b).l = life[a]
  BY EndFields
<1> QED
  BY <1>3, <1>5, <1>6, <1>7, <1>8, <1>9, <1>10, <1>11, EndFields DEF Hears

\* The calls of a go on: with no envelope to b ...
LEMMA QuietWorks ==
  ASSUME CallInv, NEW a \in Peer, NEW b \in Peer, a # b, Fair(a, b), life' = life, seen' = seen,
         b \in remotes'[a] <=> b \in remotes[a], seq'[a] >= seq[a],
         wire'[a][b] = wire[a][b], wire'[b][a] = wire[b][a],
         Hear(a, b) \subseteq Hear(a, b)', Busy(a, b)' => b \in remotes[a],
         life[a].closed \/ b \notin remotes[a] \/ \A k \in Track :
           /\ k \in Put(a, b)' => k \in Put(a, b)
           /\ k \in pubs'[a] => k \in Put(a, b) \/ Calls(a, b)' \/ (k \in pubs[a] /\ ~Calls(a, b))
  PROVE  Works(End(a, b), End(b, a), End(a, b)', End(b, a)')
<1>1. /\ End(a, b).l = life[a] /\ End(a, b)'.l = life'[a] /\ End(a, b).n = seq[a] /\ End(a, b)'.n = seq'[a]
      /\ End(a, b).out = wire[a][b] /\ End(a, b)'.out = wire'[a][b] /\ End(b, a).out = wire[b][a]
      /\ End(b, a)'.out = wire'[b][a] /\ End(a, b).got = Hear(a, b) /\ End(a, b)'.got = Hear(a, b)'
      /\ End(a, b).put = Put(a, b) /\ End(a, b)'.put = Put(a, b)'
      /\ End(a, b).pubs = pubs[a] /\ End(a, b)'.pubs = pubs'[a]
      /\ End(a, b).calls = Calls(a, b) /\ End(a, b)'.calls = Calls(a, b)' /\ End(a, b)'.busy = Busy(a, b)'
      /\ End(a, b).f = Read(a, b) /\ End(a, b)'.f = Read(a, b)'
      /\ End(a, b).k = (b \in remotes[a]) /\ End(a, b)'.k = (b \in remotes'[a])
  BY EndFields
<1>2. Read(a, b)' = Read(a, b)
  BY DEF Read
<1>3. ~life[a].closed /\ b \in remotes[a] => Grows(End(a, b), End(a, b)', {})
  BY <1>1 DEF Grows
<1>5. End(a, b).k => b \in remotes[a]
  BY EndRoster
<1>4. End(a, b)'.k = End(a, b).k /\ (End(a, b)'.busy => End(a, b)'.k)
  <2>1. (b \in remotes'[a]) = (b \in remotes[a])
    OBVIOUS
  <2>2. End(a, b)'.k = End(a, b).k
    BY <1>1, <2>1
  <2>3. End(a, b)'.busy => End(a, b)'.k
    BY <1>1, EndRoster
  <2> QED
    BY <2>2, <2>3
<1> QED
  BY <1>1, <1>2, <1>3, <1>4, <1>5 DEF Works

\* ... and with an offer of `tracks'.
LEMMA OfferWorks ==
  ASSUME CallInv, NEW a \in Peer, NEW b \in Peer, a # b, Fair(a, b), life' = life, seen' = seen,
         remotes' = remotes, b \in remotes[a], ~life[a].closed, seq'[a] = seq[a] + 1,
         NEW to, b \in to, NEW tracks \in SUBSET Track, wire' = Post(wire, a, to, seq[a], "offer", tracks),
         Hear(a, b) \subseteq Hear(a, b)',
         \A k \in Track : /\ k \in Put(a, b)' => k \in Put(a, b) \cup tracks
                          /\ k \in pubs'[a] => k \in Put(a, b) \cup tracks \/ Calls(a, b)'
  PROVE  Works(End(a, b), End(b, a), End(a, b)', End(b, a)')
<1>1. /\ End(a, b).l = life[a] /\ End(a, b)'.l = life'[a] /\ End(a, b).n = seq[a] /\ End(a, b)'.n = seq'[a]
      /\ End(a, b).out = wire[a][b] /\ End(a, b)'.out = wire'[a][b] /\ End(b, a).out = wire[b][a]
      /\ End(b, a)'.out = wire'[b][a] /\ End(a, b).got = Hear(a, b) /\ End(a, b)'.got = Hear(a, b)'
      /\ End(a, b).put = Put(a, b) /\ End(a, b)'.put = Put(a, b)'
      /\ End(a, b).pubs = pubs[a] /\ End(a, b)'.pubs = pubs'[a]
      /\ End(a, b).calls = Calls(a, b) /\ End(a, b)'.calls = Calls(a, b)' /\ End(b, a).l = life[b]
      /\ End(a, b).f = Read(a, b) /\ End(a, b)'.f = Read(a, b)'
      /\ End(a, b).k = (b \in remotes[a]) /\ End(a, b)'.k = (b \in remotes'[a])
  BY EndFields
<1>2. Read(a, b)' = Read(a, b)
  BY DEF Read
<1>3. Types /\ seq[a] \in Int /\ life[a] \in Life /\ wire \in Wires
  BY FairLife DEF CallInv
<1>4. PICK m : m = [type |-> "offer", seq |-> seq[a], sess |-> life[a].sess, tracks |-> tracks]
  OBVIOUS
<1>5. m \in Envelope /\ m.type = "offer" /\ m.seq = seq[a] /\ m.sess = life[a].sess /\ m.tracks = tracks
  <2>1. life[a].sess \in Int
    BY <1>3, LifeFields
  <2> QED
    BY <1>3, <1>4, <2>1 DEF Envelope
<1>6. wire'[a][b] = IF life[a].bound /\ life[b].bound THEN Append(wire[a][b], m) ELSE wire[a][b]
  BY <1>3, <1>4 DEF Post, Wires
<1>7. wire'[b][a] = wire[b][a]
  BY <1>3 DEF Post, Wires
<1>8. Grows(End(a, b), End(a, b)', m.tracks)
  BY <1>1, <1>5 DEF Grows
<1>9. End(a, b)'.k = End(a, b).k /\ End(a, b).k
  BY <1>1
<1>10. End(a, b)'.n > End(a, b).n /\ End(a, b)'.n >= End(a, b).n
  BY <1>1, <1>3
<1> QED
  BY <1>1, <1>2, <1>5, <1>6, <1>7, <1>8, <1>9, <1>10 DEF Works

\* A call about b goes on with a connection that carries what it has to.
LEMMA UseWorks ==
  ASSUME CallInv, NEW a \in Peer, NEW b \in Peer, a # b, Fair(a, b), UNCHANGED <<life, seen, pubs, remotes>>,
         b \in remotes[a], ~life[a].closed, NEW t \in Call, t.who = b, t.why = "offer" => t.at # "reply",
         NEW base \in SUBSET Track, Carried(a, b) \subseteq base, UsePeer(a, t, wire, base)
  PROVE  Works(End(a, b), End(b, a), End(a, b)', End(b, a)')
<1>0. /\ seq \in [Peer -> Int] /\ tasks \in [Peer -> SUBSET Call] /\ visited \in [Peer -> [Track -> SUBSET Peer]]
      /\ heard \in [Peer -> [Peer -> SUBSET Track]] /\ Track \cap {"join", "offer"} = {}
      /\ t.why \in Track \cup {"join", "offer"} /\ t.got \subseteq Track
  BY FairLife, CallOK, RoomAssumption DEF CallInv, Types, MeshTypes, Logs, RoomAssumption
<1>1. tasks[a] \ {t} \subseteq tasks'[a]
  BY <1>0 DEF UsePeer
<1>2. CASE t.why = "offer"
  <2>1. /\ wire' = wire /\ UNCHANGED <<seq, visited>> /\ heard'[a][b] = heard[a][b] \cup t.got
    BY <1>0, <1>2 DEF UsePeer
  <2>2. Hear(a, b) \subseteq Hear(a, b)'
    BY <1>1, <2>1 DEF Hear, About
  <2>3. Calls(a, b) => Calls(a, b)'
    BY <1>1, <1>2 DEF Calls, About
  <2>4. Put(a, b)' = Put(a, b)
    BY <2>1 DEF Put
  <2>5. seq'[a] >= seq[a]
    BY <1>0, <2>1
  <2> QED
    BY <2>1, <2>2, <2>3, <2>4, <2>5, QuietWorks
<1>3. CASE t.why # "offer"
  <2>1. PICK now \in SUBSET Track :
          /\ base \subseteq now /\ (t.why \in Track => t.why \in now)
          /\ wire' = Post(wire, a, {b}, seq[a], "offer", now)
    <3>1. wire' = Post(wire, a, {b}, seq[a], "offer", IF t.why \in Track THEN base \cup {t.why} ELSE base)
      BY <1>3 DEF UsePeer
    <3> QED
      BY <3>1
  <2>2. /\ seq' = [seq EXCEPT ![a] = @ + 1] /\ heard' = heard
        /\ visited' = IF t.why \in Track THEN [visited EXCEPT ![a][t.why] = @ \cup {b}] ELSE visited
    BY <1>3 DEF UsePeer
  <2>3. seq'[a] = seq[a] + 1
    BY <1>0, <2>2
  <2>4. \A k \in Track : k \in Put(a, b)' => k \in Put(a, b) \cup now
    BY <1>0, <2>1, <2>2 DEF Put
  <2>5. \A k \in Track : k \in pubs'[a] => k \in now
    BY <2>1 DEF Carried
  <2>6. Hear(a, b) \subseteq Hear(a, b)'
    BY <1>1, <1>3, <2>2 DEF Hear, About
  <2>7. PICK to : to = {b}
    OBVIOUS
  <2>8. b \in to /\ wire' = Post(wire, a, to, seq[a], "offer", now)
    BY <2>1, <2>7
  <2> QED
    BY <2>3, <2>4, <2>5, <2>6, <2>8, OfferWorks
<1> QED
  BY <1>2, <1>3

\* A stored connection carries what it has to.
LEMMA StoredIs ==
  ASSUME NEW a \in Peer, NEW b \in Peer, MeshOK(a), b \notin crossed[a], b \in peers[a]
  PROVE  b \in remotes[a] /\ ~life[a].mediaClosed /\ sent[a][b] = Carried(a, b)
<1>1. PairOK(a, b)
  BY DEF MeshOK
<1>2. \A t \in tasks[a] : ~Makes(t, b)
  BY <1>1 DEF PairOK, Making
<1> QED
  BY <1>1, <1>2 DEF PairOK, Exact

\* Who calls has not crashed.
LEMMA CallerHere ==
  ASSUME CallInv, NEW a \in Peer, tasks[a] # {} \/ pubs[a] # {}
  PROVE  life[a].closed <=> life[a].mediaClosed
BY DEF CallInv, Base, RoomInv, LifeInv, LifeOK

\* A call about b asks for a connection.
LEMMA EnsureWorks ==
  ASSUME CallInv, NEW a \in Peer, NEW b \in Peer, a # b, Fair(a, b), UNCHANGED <<life, seen, pubs>>,
         b \in remotes[a], NEW old \in tasks[a], old.why # "offer", NEW t \in Call, t.who = b, t.why # "offer",
         EnsurePeer(a, old, t, wire)
  PROVE  Works(End(a, b), End(b, a), End(a, b)', End(b, a)')
<1>0. /\ Types /\ tasks \in [Peer -> SUBSET Call] /\ sent \in [Peer -> [Peer -> SUBSET Track]] /\ MeshOK(a)
      /\ b \notin crossed[a] /\ remotes \in [Peer -> SUBSET Peer] /\ seq[a] \in Int
  BY FairLife DEF CallInv, Types, MeshTypes
<1>1. life[a].closed <=> life[a].mediaClosed
  BY CallerHere
<1>2. CASE b \in peers[a]
  <2>1. ~life[a].mediaClosed /\ sent[a][b] = Carried(a, b)
    BY <1>0, <1>2, StoredIs
  <2>2. UsePeer(a, t, wire, sent[a][b]) /\ remotes' = remotes
    BY <1>2 DEF EnsurePeer
  <2>3. PICK base \in SUBSET Track : base = sent[a][b]
    BY <1>0
  <2>4. Carried(a, b) \subseteq base /\ UsePeer(a, t, wire, base)
    BY <2>1, <2>2, <2>3
  <2> QED
    BY <1>1, <2>1, <2>2, <2>4, UseWorks
<1>3. CASE b \notin peers[a]
  <2>1. /\ wire' = wire /\ UNCHANGED <<seq, heard, visited>>
        /\ tasks'[a] = (tasks[a] \ {old}) \cup (IF life[a].mediaClosed THEN {} ELSE {[t EXCEPT !.at = "ice"]})
    BY <1>0, <1>3 DEF EnsurePeer
  <2>2. b \in remotes'[a]
    <3>1. remotes' = remotes \/ remotes' = [remotes EXCEPT ![a] = @ \cup {t.who}]
      BY <1>3 DEF EnsurePeer
    <3> QED
      BY <1>0, <3>1
  <2>3. PICK u : u = [t EXCEPT !.at = "ice"]
    OBVIOUS
  <2>4. u.who = b /\ u.at = "ice" /\ u.why # "offer"
    BY <2>3, CallOK
  <2>5. Hear(a, b) \subseteq Hear(a, b)'
    BY <2>1 DEF Hear, About
  <2>6. life[a].closed \/ Calls(a, b)'
    BY <1>1, <2>1, <2>3, <2>4 DEF Calls, About
  <2>7. Put(a, b)' = Put(a, b) /\ seq'[a] >= seq[a]
    BY <1>0, <2>1 DEF Put
  <2> QED
    BY <2>1, <2>2, <2>5, <2>6, <2>7, QuietWorks
<1> QED
  BY <1>2, <1>3

LEMMA CallMoves ==
  ASSUME CallInv, NEW a \in Peer, NEW b \in Peer, a # b, Fair(a, b), NEW t \in tasks[a], CallNewcomer(a, t)
  PROVE  \/ Waits(End(a, b), End(b, a), End(a, b)', End(b, a)')
         \/ Works(End(a, b), End(b, a), End(a, b)', End(b, a)')
<1>0. /\ Types /\ Logs /\ Base /\ tasks \in [Peer -> SUBSET Call] /\ wire \in Wires /\ seq[a] \in Int
      /\ Track \cap {"join", "offer"} = {} /\ Placed(a, t) /\ t \in Call
  BY FairLife, RoomAssumption DEF CallInv, Types, MeshTypes, RoomAssumption
<1>1. UNCHANGED <<life, seen, pubs>> /\ t.at = "reply" /\ t.why = "join"
  BY <1>0 DEF CallNewcomer, Placed
<1>2. CASE pubs[a] = {}
  <2>1. /\ tasks'[a] = tasks[a] \ {t}
        /\ UNCHANGED <<seq, remotes, heard, visited, wire>>
    BY <1>0, <1>2 DEF CallNewcomer
  <2>2. Hear(a, b)' = Hear(a, b) /\ Put(a, b)' = Put(a, b)
    BY <1>1, <2>1 DEF Hear, About, Put
  <2>3. Busy(a, b)' => b \in remotes[a]
    BY <2>1, OwnedIs DEF Busy, About
  <2> QED
    BY <1>0, <1>1, <1>2, <2>1, <2>2, <2>3, QuietWorks
<1>3. CASE pubs[a] # {}
  <2>1. EnsurePeer(a, t, t, wire)
    BY <1>3 DEF CallNewcomer
  <2>2. CASE t.who = b
    <3>1. b \in remotes[a]
      BY <2>2, OwnedIs
    <3> QED
      BY <1>0, <1>1, <2>1, <2>2, <3>1, EnsureWorks
  <2>3. CASE t.who # b
    <3>1. /\ heard'[a][b] = heard[a][b] /\ \A k \in Track : b \in visited'[a][k] <=> b \in visited[a][k]
          /\ About(a, b)' = About(a, b) /\ seq'[a] >= seq[a] /\ (b \in remotes'[a] <=> b \in remotes[a])
          /\ wire'[a][b] = wire[a][b] /\ wire'[b][a] = wire[b][a]
      BY <1>0, <2>1, <2>3, EnsureOther
    <3> QED
      BY <1>0, <1>1, <3>1, OtherWaits
  <2> QED
    BY <2>2, <2>3
<1> QED
  BY <1>2, <1>3

LEMMA BuildMoves ==
  ASSUME CallInv, NEW a \in Peer, NEW b \in Peer, a # b, Fair(a, b), NEW t \in tasks[a], BuildPeer(a, t)
  PROVE  \/ Waits(End(a, b), End(b, a), End(a, b)', End(b, a)')
         \/ Works(End(a, b), End(b, a), End(a, b)', End(b, a)')
<1>0. Base /\ tasks \in [Peer -> SUBSET Call] /\ seq[a] \in Int /\ t \in Call
  BY FairLife DEF CallInv, Types, MeshTypes
<1>1. /\ UNCHANGED <<life, seq, seen, remotes, pubs, heard, visited, wire>> /\ t.at = "ice"
      /\ tasks'[a] = (tasks[a] \ {t}) \cup {[t EXCEPT !.at = "setup", !.tracks = pubs[a]]}
  BY <1>0 DEF BuildPeer
<1>2. PICK u : u = [t EXCEPT !.at = "setup", !.tracks = pubs[a]]
  OBVIOUS
<1>3. u.who = t.who /\ u.why = t.why /\ u.got = t.got /\ u.at = "setup"
  BY <1>0, <1>2 DEF Call
<1>4. tasks'[a] = (tasks[a] \ {t}) \cup {u}
  BY <1>1, <1>2
<1>5. seq'[a] >= seq[a]
  BY <1>0, <1>1
<1>6. CASE t.who = b
  <2>1. Hear(a, b)' = Hear(a, b) /\ Put(a, b)' = Put(a, b)
    BY <1>1, <1>3, <1>4 DEF Hear, About, Put
  <2>2. Calls(a, b) => Calls(a, b)'
    BY <1>1, <1>3, <1>4 DEF Calls, About
  <2>3. b \in remotes[a]
    BY <1>6, OwnedIs
  <2> QED
    BY <1>1, <1>5, <2>1, <2>2, <2>3, QuietWorks
<1>7. CASE t.who # b
  <2>1. About(a, b)' = About(a, b)
    BY <1>3, <1>4, <1>7 DEF About
  <2> QED
    BY <1>0, <1>1, <1>5, <2>1, OtherWaits
<1> QED
  BY <1>6, <1>7

LEMMA StoreMoves ==
  ASSUME CallInv, NEW a \in Peer, NEW b \in Peer, a # b, Fair(a, b), NEW t \in tasks[a], StorePeer(a, t)
  PROVE  \/ Waits(End(a, b), End(b, a), End(a, b)', End(b, a)')
         \/ Works(End(a, b), End(b, a), End(a, b)', End(b, a)')
<1>0. /\ Types /\ Logs /\ Base /\ tasks \in [Peer -> SUBSET Call] /\ wire \in Wires
      /\ t \in Call /\ MeshOK(a) /\ b \notin crossed[a] /\ t.tracks \in SUBSET Track
  <2>1. Types /\ Logs /\ Base /\ wire \in Wires /\ MeshOK(a) /\ b \notin crossed[a]
    BY FairLife DEF CallInv
  <2>2. tasks \in [Peer -> SUBSET Call]
    BY <2>1 DEF Types, MeshTypes
  <2>3. t \in Call
    BY <2>2
  <2>4. t.tracks \in SUBSET Track
    BY <2>3 DEF Call
  <2> QED
    BY <2>1, <2>2, <2>3, <2>4
<1>1. UNCHANGED <<life, seen, remotes, pubs>> /\ t.at = "setup" /\ UsePeer(a, t, wire, t.tracks)
  BY DEF StorePeer
<1>2. CASE t.who = b
  <2>1. Making(a, b, t)
    BY <1>0, <1>1, <1>2 DEF MeshOK, PairOK, Makes
  <2>2. b \in remotes[a] /\ Carried(a, b) \subseteq t.tracks /\ ~life[a].closed
    BY <1>1, <2>1, CallerHere DEF Making, Carried
  <2> QED
    BY <1>0, <1>1, <1>2, <2>2, UseWorks
<1>3. CASE t.who # b
  <2>1. /\ heard'[a][b] = heard[a][b] /\ \A k \in Track : b \in visited'[a][k] <=> b \in visited[a][k]
        /\ About(a, b)' = About(a, b) /\ seq'[a] >= seq[a]
        /\ wire'[a][b] = wire[a][b] /\ wire'[b][a] = wire[b][a]
    BY <1>0, <1>1, <1>3, UseOther
  <2> QED
    BY <1>0, <1>1, <2>1, OtherWaits
<1> QED
  BY <1>2, <1>3

LEMMA NextMoves ==
  ASSUME CallInv, NEW a \in Peer, NEW b \in Peer, a # b, Fair(a, b), NEW t \in tasks[a], PublishNext(a, t)
  PROVE  \/ Waits(End(a, b), End(b, a), End(a, b)', End(b, a)')
         \/ Works(End(a, b), End(b, a), End(a, b)', End(b, a)')
<1>0. /\ Types /\ Logs /\ Base /\ wire \in Wires /\ Track \cap {"join", "offer"} = {} /\ Placed(a, t) /\ t \in Call
      /\ remotes \in [Peer -> SUBSET Peer]
  BY FairLife, RoomAssumption DEF CallInv, Types, MeshTypes, RoomAssumption
<1>1. UNCHANGED <<life, seen, pubs>> /\ t.at = "loop" /\ t.why \in Track /\ t.who = a
  BY <1>0 DEF PublishNext, Placed
<1>2. PICK q \in remotes[a] : EnsurePeer(a, t, [t EXCEPT !.who = q], wire)
  BY DEF PublishNext
<1>3. PICK u : u = [t EXCEPT !.who = q]
  OBVIOUS
<1>4. u \in Call /\ u.who = q /\ u.why = t.why /\ EnsurePeer(a, t, u, wire)
  <2>1. q \in Peer
    BY <1>0
  <2>2. u \in Call /\ u.who = q /\ u.why = t.why
    BY <1>0, <1>3, <2>1 DEF Call
  <2> QED
    BY <1>2, <1>3, <2>2
<1>5. CASE q = b
  BY <1>0, <1>1, <1>2, <1>4, <1>5, EnsureWorks
<1>6. CASE q # b
  <2>1. /\ heard'[a][b] = heard[a][b] /\ \A k \in Track : b \in visited'[a][k] <=> b \in visited[a][k]
        /\ About(a, b)' = About(a, b) /\ seq'[a] >= seq[a] /\ (b \in remotes'[a] <=> b \in remotes[a])
        /\ wire'[a][b] = wire[a][b] /\ wire'[b][a] = wire[b][a]
    BY <1>0, <1>1, <1>4, <1>6, EnsureOther
  <2> QED
    BY <1>0, <1>1, <2>1, OtherWaits
<1> QED
  BY <1>5, <1>6

LEMMA DoneMoves ==
  ASSUME CallInv, NEW a \in Peer, NEW b \in Peer, a # b, Fair(a, b), NEW t \in tasks[a], PublishDone(a, t)
  PROVE  Works(End(a, b), End(b, a), End(a, b)', End(b, a)')
<1>0. /\ tasks \in [Peer -> SUBSET Call] /\ Placed(a, t) /\ seq[a] \in Int
      /\ visited \in [Peer -> [Track -> SUBSET Peer]] /\ pubs \in [Peer -> SUBSET Track]
  BY FairLife DEF CallInv, Types, MeshTypes
<1>1. /\ UNCHANGED <<life, seq, seen, remotes, heard, wire>> /\ t.who = a /\ t.why \in Track
      /\ remotes[a] \subseteq visited[a][t.why] /\ tasks'[a] = tasks[a] \ {t}
      /\ pubs'[a] = pubs[a] \cup {t.why} /\ visited' = [visited EXCEPT ![a][t.why] = {}]
  BY <1>0 DEF PublishDone, Placed
<1>2. About(a, b)' = About(a, b)
  BY <1>1 DEF About
<1>3. Hear(a, b)' = Hear(a, b) /\ (Calls(a, b) => Calls(a, b)')
  BY <1>1, <1>2 DEF Hear, Calls
<1>4. Busy(a, b)' => b \in remotes[a]
  BY <1>2, OwnedIs DEF Busy, About
<1>5. \A k \in Track : k \in Put(a, b)' => k \in Put(a, b)
  BY <1>0, <1>1 DEF Put
<1>6. b \in remotes[a] => \A k \in Track : k \in pubs'[a] => k \in Put(a, b) \/ k \in pubs[a]
  BY <1>1 DEF Put
<1>7. seq'[a] >= seq[a]
  BY <1>0, <1>1
<1> QED
  BY <1>1, <1>3, <1>4, <1>5, <1>6, <1>7, QuietWorks

LEMMA PublishMoves ==
  ASSUME CallInv, NEW a \in Peer, NEW b \in Peer, a # b, Fair(a, b), NEW k \in Track, Publish(a, k)
  PROVE  Waits(End(a, b), End(b, a), End(a, b)', End(b, a)')
<1>0. tasks \in [Peer -> SUBSET Call] /\ seq[a] \in Int /\ Base
  BY FairLife DEF CallInv, Types, MeshTypes
<1>1. /\ UNCHANGED <<life, seq, seen, media, wire>>
      /\ tasks'[a] = tasks[a] \cup {Task(a, k, "loop", {}, <<0, 0>>)}
  BY <1>0 DEF Publish
<1>2. PICK u : u = Task(a, k, "loop", {}, <<0, 0>>)
  OBVIOUS
<1>3. u.who = a /\ tasks'[a] = tasks[a] \cup {u}
  BY <1>1, <1>2 DEF Task
<1>4. About(a, b)' = About(a, b)
  BY <1>3 DEF About
<1>5. seq'[a] >= seq[a]
  BY <1>0, <1>1
<1> QED
  BY <1>0, <1>1, <1>4, <1>5, OtherWaits DEF media

LEMMA UnpublishMoves ==
  ASSUME CallInv, NEW a \in Peer, NEW b \in Peer, a # b, Fair(a, b), NEW k \in Track, Unpublish(a, k)
  PROVE  Works(End(a, b), End(b, a), End(a, b)', End(b, a)')
<1>0. /\ wire \in Wires /\ seq[a] \in Int /\ seq \in [Peer -> Int] /\ pubs \in [Peer -> SUBSET Track] /\ MeshOK(a)
      /\ b \notin crossed[a]
  BY FairLife DEF CallInv, Types, MeshTypes
<1>1. /\ UNCHANGED <<life, seen, remotes, heard, visited, tasks>> /\ k \in pubs[a]
      /\ pubs'[a] = pubs[a] \ {k} /\ seq'[a] = seq[a] + 1
      /\ wire' = Post(wire, a, peers[a], seq[a], "offer", pubs[a] \ {k})
  BY <1>0 DEF Unpublish
<1>2. Hear(a, b)' = Hear(a, b) /\ Put(a, b)' = Put(a, b) /\ Calls(a, b)' = Calls(a, b) /\ Busy(a, b)' = Busy(a, b)
  BY <1>1 DEF Hear, Put, Calls, Busy, About
<1>3. CASE b \in peers[a]
  <2>1. b \in remotes[a] /\ ~life[a].closed
    BY <1>0, <1>1, <1>3, StoredIs, CallerHere
  <2>2. PICK tracks \in SUBSET Track : tracks = pubs[a] \ {k}
    BY <1>0
  <2>3. PICK to : to = peers[a]
    OBVIOUS
  <2>4. wire' = Post(wire, a, to, seq[a], "offer", tracks) /\ b \in to
    BY <1>1, <1>3, <2>2, <2>3
  <2>5. \A j \in Track : j \in pubs'[a] => j \in tracks
    BY <1>1, <2>2
  <2> QED
    BY <1>1, <1>2, <2>1, <2>4, <2>5, OfferWorks
<1>4. CASE b \notin peers[a]
  <2>1. wire'[a][b] = wire[a][b] /\ wire'[b][a] = wire[b][a]
    BY <1>0, <1>1, <1>4 DEF Post, Wires
  <2>2. Busy(a, b)' => b \in remotes[a]
    BY <1>2, OwnedIs DEF Busy, About
  <2>3. seq'[a] >= seq[a]
    BY <1>0, <1>1
  <2>4. \A j \in Track : j \in pubs'[a] => j \in pubs[a]
    BY <1>1
  <2> QED
    BY <1>1, <1>2, <2>1, <2>2, <2>3, <2>4, QuietWorks
<1> QED
  BY <1>3, <1>4

\* What one step of a may do to its pair with b.
LEMMA StepMoves ==
  ASSUME CallInv, Base', NEW a \in Peer, NEW b \in Peer, a # b, Fair(a, b), Fair(a, b)', Step(a)
  PROVE  Moves(End(a, b), End(b, a), End(a, b)', End(b, a)')
<1>0. Base
  BY DEF CallInv
<1>1. CASE Living(a) \/ Leave(a) \/ Crash(a) \/ Reopen(a)
  BY <1>0, <1>1, LivingMoves
<1>2. CASE Resume(a)
  BY <1>2, CallMoves, BuildMoves, StoreMoves, NextMoves, DoneMoves DEF Resume, Moves
<1>3. ASSUME NEW q \in Peer \ {a}, Receive(a, q) PROVE Moves(End(a, b), End(b, a), End(a, b)', End(b, a)')
  <2>1. CASE q = b
    BY <1>3, <2>1, RefuseMoves, GreetMoves, PartMoves, OfferMoves DEF Receive, Moves
  <2>2. CASE q # b
    BY <1>0, <1>3, <2>2, ReceiveOther DEF Moves
  <2> QED
    BY <2>1, <2>2
<1>4. ASSUME NEW k \in Track, Publish(a, k) \/ Unpublish(a, k)
      PROVE  Moves(End(a, b), End(b, a), End(a, b)', End(b, a)')
  BY <1>4, PublishMoves, UnpublishMoves DEF Moves
<1> QED
  BY <1>1, <1>2, <1>3, <1>4 DEF Step

-----------------------------------------------------------------------------
(* Every step keeps every pair.                                            *)

\* A step of a third peer is none of theirs.
LEMMA FarSame ==
  ASSUME NEW a \in Peer, NEW p \in Peer, NEW q \in Peer, p # a, q # a, Apart(a), Far(a)
  PROVE  End(p, q)' = End(p, q)
<1>1. /\ seq'[p] = seq[p] /\ seen'[p] = seen[p] /\ heard'[p] = heard[p] /\ life'[p] = life[p]
      /\ remotes'[p] = remotes[p] /\ pubs'[p] = pubs[p] /\ visited'[p] = visited[p] /\ tasks'[p] = tasks[p]
      /\ wire'[p][q] = wire[p][q]
  BY DEF Apart, Far, Same
<1>2. About(p, q)' = About(p, q)
  BY <1>1 DEF About
<1>3. Calls(p, q)' = Calls(p, q) /\ Busy(p, q)' = Busy(p, q) /\ Hear(p, q)' = Hear(p, q)
  BY <1>1, <1>2 DEF Calls, Busy, Hear
<1>4. Read(p, q)' = Read(p, q) /\ Put(p, q)' = Put(p, q)
  BY <1>1 DEF Read, Put
<1> QED
  BY <1>1, <1>3, <1>4 DEF End

LEMMA PairStep ==
  ASSUME CallInv, Base', NEW a \in Peer, Step(a), NEW p \in Peer, NEW q \in Peer, p # q, Fair(p, q)'
  PROVE  Pair(End(p, q)', End(q, p)')
<1>0. Types /\ Logs /\ Base /\ RoomInv
  BY DEF CallInv, Base, RoomInv
<1>1. Apart(a) /\ Far(a)
  BY <1>0, MeshStep, FarStep
<1>2. Fair(p, q) /\ Fair(q, p) /\ Fair(q, p)'
  <2>1. Fair(p, q)
    BY <1>0, FairBack
  <2> QED
    BY <2>1 DEF Fair
<1>3. ASSUME NEW b \in Peer, a # b, Fair(a, b), Fair(a, b)'
      PROVE  Pair(End(a, b)', End(b, a)') /\ Pair(End(b, a)', End(a, b)')
  <2>1. Moves(End(a, b), End(b, a), End(a, b)', End(b, a)')
    BY <1>3, StepMoves
  <2>2. Still(End(b, a), End(b, a)')
    BY <1>1, <1>3, StillIs
  <2>3. Meet(End(a, b), End(b, a))
    BY <1>3, EndsMeet
  <2>4. EndOK(End(a, b)') /\ EndOK(End(b, a)')
    BY EndsNext
  <2> QED
    BY <2>1, <2>2, <2>3, <2>4, MovesMeet
<1>4. CASE p = a
  BY <1>2, <1>3, <1>4
<1>5. CASE q = a
  BY <1>2, <1>3, <1>5
<1>6. CASE p # a /\ q # a
  <2>1. End(p, q)' = End(p, q) /\ End(q, p)' = End(q, p)
    BY <1>1, <1>6, FarSame
  <2>2. Pair(End(p, q), End(q, p))
    BY <1>2 DEF CallInv
  <2> QED
    BY <2>1, <2>2
<1> QED
  BY <1>4, <1>5, <1>6

LEMMA CallStep ==
  ASSUME CallInv, [Next]_vars
  PROVE  CallInv'
<1>0. Base /\ RoomInv
  BY DEF CallInv, Base
<1>1. CASE Next
  <2>1. PICK a \in Peer : Step(a)
    BY <1>1, NextStep
  <2>2. Base'
    BY <1>0, <2>1, BaseStep
  <2>3. ASSUME NEW p \in Peer, NEW q \in Peer, p # q, Fair(p, q)' PROVE Pair(End(p, q)', End(q, p)')
    BY <2>1, <2>2, <2>3, PairStep
  <2> QED
    BY <2>2, <2>3 DEF CallInv
<1>2. CASE UNCHANGED vars
  <2>0. UNCHANGED <<life, seq, seen, remotes, pubs, heard, visited, tasks, wire, crossed, early>>
    BY <1>2 DEF vars, media, hist
  <2>1. RoomInv'
    BY <1>0, RoomStep
  <2>2. Base'
    BY <1>0, <2>0, <2>1 DEF Base, Logs
  <2>3. ASSUME NEW p \in Peer, NEW q \in Peer PROVE /\ End(p, q)' = End(p, q)
                                                    /\ Fair(p, q)' => Fair(p, q)
    <3>1. About(p, q)' = About(p, q)
      BY <2>0 DEF About
    <3>2. Calls(p, q)' = Calls(p, q) /\ Busy(p, q)' = Busy(p, q) /\ Hear(p, q)' = Hear(p, q)
      BY <2>0, <3>1 DEF Calls, Busy, Hear
    <3>3. Read(p, q)' = Read(p, q) /\ Put(p, q)' = Put(p, q)
      BY <2>0 DEF Read, Put
    <3>4. End(p, q)' = End(p, q)
      BY <2>0, <3>2, <3>3 DEF End
    <3>5. Fair(p, q)' => Fair(p, q)
      BY <2>0 DEF Fair, Apace, Astray
    <3> QED
      BY <3>4, <3>5
  <2>4. ASSUME NEW p \in Peer, NEW q \in Peer, p # q, Fair(p, q)' PROVE Pair(End(p, q)', End(q, p)')
    <3>1. Pair(End(p, q), End(q, p))
      BY <2>3, <2>4 DEF CallInv
    <3> QED
      BY <2>3, <3>1
  <2> QED
    BY <2>2, <2>4 DEF CallInv
<1> QED
  BY <1>1, <1>2

LEMMA CallInit ==
  ASSUME Init
  PROVE  CallInv
<1>1. RoomInv
  BY RoomInit
<1>2. /\ \A p \in Peer : life[p] = Fresh(1) /\ seq[p] = 0 /\ remotes[p] = {} /\ tasks[p] = {}
      /\ \A p, q \in Peer : wire[p][q] = <<>>
      /\ seen = [p \in Peer |-> [k \in Session |-> -1]]
      /\ heard = [p \in Peer |-> [q \in Peer |-> {}]] /\ early = [p \in Peer |-> {}]
  BY DEF Init, None
<1>3. Base
  <2>1. Logs /\ early \in [Peer -> SUBSET Peer]
    BY <1>2 DEF Logs
  <2>2. \A p \in Peer : More(life[p], seq[p])
    BY <1>2, RoomAssumption DEF More, Fresh, RoomAssumption
  <2> QED
    BY <1>1, <1>2, <2>1, <2>2 DEF Base
<1>4. ASSUME NEW p \in Peer, NEW q \in Peer PROVE Pair(End(p, q), End(q, p))
  <2>1. /\ End(p, q).l = Fresh(1) /\ End(q, p).l = Fresh(1) /\ End(p, q).out = <<>> /\ End(q, p).out = <<>>
    BY <1>2, EndFields
  <2>2. ASSUME NEW x \in Peer, NEW y \in Peer PROVE Blank(End(x, y))
    <3>1. ~Busy(x, y)
      BY <1>2 DEF Busy, About
    <3>2. \A s \in 1 .. MaxSess : Read(x, y)[s] = -1
      BY <1>2 DEF Read, Session
    <3>3. ~End(x, y).k
      BY <1>2, EndRoster
    <3>4. End(x, y).f = Read(x, y) /\ End(x, y).busy = Busy(x, y)
      BY EndFields
    <3> QED
      BY <3>1, <3>2, <3>3, <3>4 DEF Blank
  <2>3. Ordered(End(p, q), End(q, p)) /\ Closing(End(p, q), End(q, p))
    BY <1>3, <2>1, <2>2, EndsOK, BlankOrder
  <2>4. ~Announced(Fresh(1)) /\ ~Fresh(1).closed /\ ~Left(Fresh(1))
    BY DEF Announced, Fresh, Left
  <2>5. ~Speaks(End(q, p)) /\ ~Speaks(End(p, q))
    BY <2>1, EmptyWire DEF Speaks
  <2>6. Blank(End(p, q)) /\ Blank(End(q, p))
    BY <2>2
  <2>7. Roots(End(p, q), End(q, p))
    BY <2>3, <2>5, <2>6 DEF Roots, Rooted, Present, Owned, Knows, Blank
  <2>8. Links(End(p, q), End(q, p))
    BY <2>1, <2>4, <2>6 DEF Links, Mutual, Met, Renewed, Called, Greeted, Fed, Knows, Blank
  <2> QED
    BY <2>7, <2>8 DEF Pair
<1> QED
  BY <1>3, <1>4 DEF CallInv

\* At rest nothing is on its way and nobody is calling.
LEMMA CallRest ==
  ASSUME CallInv, AtRest, NEW p \in Peer, NEW q \in Peer, p # q, Settled(p), Settled(q), ~Missed(p, q), ~Missed(q, p)
  PROVE  q \in remotes[p] /\ p \in remotes[q] /\ pubs[p] \subseteq heard[q][p]
<1>1. Fair(p, q)
  <2>1. LifeOK(life[p]) /\ LifeOK(life[q])
    BY DEF CallInv, Base, RoomInv, LifeInv
  <2> QED
    BY <2>1 DEF Fair, Apace, Astray, AtRest, Settled, Missed, LifeOK
<1>2. Meet(End(p, q), End(q, p))
  BY <1>1, EndsMeet
<1>3. /\ End(p, q).l = life[p] /\ End(q, p).l = life[q] /\ End(p, q).out = <<>> /\ End(q, p).out = <<>>
      /\ End(p, q).pubs = pubs[p] /\ End(q, p).got = Hear(q, p) /\ End(p, q).calls = Calls(p, q)
  BY EndFields DEF AtRest
<1>4. /\ Greeted(End(p, q), End(q, p)) /\ Greeted(End(q, p), End(p, q)) /\ Fed(End(p, q), End(q, p))
  BY <1>2 DEF Meet, Pair, Links
<1>5. Both(End(p, q), End(q, p)) /\ Both(End(q, p), End(p, q)) /\ Announced(life[p]) /\ Announced(life[q])
  BY <1>3 DEF Both, Announced, Settled
<1>6. Knows(End(p, q), End(q, p)) /\ Knows(End(q, p), End(p, q))
  BY <1>3, <1>4, <1>5, EmptyWire DEF Greeted, Has, Asks, Speaks
<1>7. q \in remotes[p] /\ p \in remotes[q]
  BY <1>6, EndRoster DEF Knows
<1>8. ~Calls(p, q) /\ Hear(q, p) = heard[q][p]
  <2>1. About(p, q) = {} /\ About(q, p) = {}
    BY DEF AtRest, About
  <2> QED
    BY <2>1 DEF Calls, Hear
<1>9. \A t \in Track : t \in pubs[p] => t \in heard[q][p]
  BY <1>3, <1>4, <1>5, <1>6, <1>8, EmptyWire DEF Fed, Got
<1>10. pubs[p] \subseteq Track
  BY DEF CallInv, Base, RoomInv, Types, MeshTypes
<1> QED
  BY <1>7, <1>9, <1>10

LEMMA CallHolds == CallInv => CallAtRest
<1> SUFFICES ASSUME CallInv PROVE CallAtRest
  OBVIOUS
<1>1. RosterAtRest
  BY CallRest DEF RosterAtRest
<1>2. MediaAtRest
  BY CallRest DEF MediaAtRest
<1> QED
  BY <1>1, <1>2 DEF CallAtRest

\* However joins, publishes, offers and replies overlap, once a call is at rest
\* Rooms that nothing led apart list one another, and each has received whatever
\* the other publishes (Room.handleRemoteJoin, publish and MeshMediaTransport.ensurePeer).
THEOREM CallSettles == Spec => []CallAtRest
<1>1. Init => CallInv
  BY CallInit
<1>2. CallInv /\ [Next]_vars => CallInv'
  BY CallStep
<1>3. CallInv => CallAtRest
  BY CallHolds
<1> QED
  BY <1>1, <1>2, <1>3, PTL DEF Spec

===============================================================================
