----------------------- MODULE ClientProofs -----------------------
(***************************************************************************)
(* Theorems about a client.  Its recordings, for every set of streams and  *)
(* every number of recorders and chunks; its devices, for every set of them*)
(* and every number of cameras and calls under way; what an application sees*)
(* of a room, for every number of listeners, events, tracks and peers; its *)
(* local media, for every number of participants, calls and tracks; the    *)
(* quality policy and its application to the senders, for every set of     *)
(* remote participants, every report their connections may make, every     *)
(* stability window and every number of applications under way at once.    *)
(***************************************************************************)
EXTENDS MCClient, AdaptiveQuality, FiniteSetTheorems, FunctionTheorems, WellFoundedInduction,
        TLAPS

-----------------------------------------------------------------------------
(* The recording.                                                          *)

States == {"idle", "recording", "paused", "stopping", "error"}
Recorder == [stream : Stream \cup {"none"}, st : States, n : Nat, secret : BOOLEAN]
Chunk == [r : R, index : Nat, secret : BOOLEAN]
Wait == [of : SUBSET R, report : BOOLEAN]

RecordingTypeOK ==
  /\ rec \in [R -> Recorder] /\ made \in Nat
  /\ hooks \in [Stream -> 0 .. MaxR]
  /\ activeMode \in {"client", "sfu"} /\ key \in BOOLEAN /\ asked \in BOOLEAN
  /\ waits \subseteq Wait /\ uploads \subseteq Chunk
  /\ resting \in BOOLEAN
  /\ noted \in [reasked : BOOLEAN, again : BOOLEAN, failed : BOOLEAN, overtook : BOOLEAN]

NoneActive == \A r \in R : rec[r].st \notin Active

\* Recorders that are not made yet are idle.
Unmade == \A r \in R : r > made => rec[r].st = "idle"

\* Unless start was called again: what records does so under the key that was asked for, and
\* a chunk keeps the secrecy of the recorder it comes from.
KeyInv ==
  ~noted.reasked =>
    /\ \A r \in R : rec[r].st \in Live => rec[r].secret = key /\ key = asked
    /\ \A u \in uploads : u.r <= made /\ u.secret = rec[u.r].secret

\* Unless start was called again or a stream replaced: a recorder that goes on is in the map,
\* and there is none while stop() is awaited, after it, or when the server records.
ActiveInv ==
  ~noted.reasked /\ ~noted.again =>
    /\ \A r \in R : rec[r].st \in Active => r \in Hooked
    /\ waits # {} \/ resting \/ activeMode # "client" => NoneActive

RecordingInv == RecordingTypeOK /\ Unmade /\ KeyInv /\ ActiveInv

\* The recorders are numbered one after the other.
LEMMA OrderExists ==
  ASSUME NEW D \in SUBSET Stream, made \in Nat
  PROVE  /\ Cardinality(D) \in Nat
         /\ \E f \in [D -> made + 1 .. made + Cardinality(D)] :
              \A s, t \in D : s # t => f[s] # f[t]
<1>1. IsFiniteSet(D)
  BY RecordingAssumption, FS_Subset
<1>2. Cardinality(D) \in Nat /\ ExistsBijection(1 .. Cardinality(D), D)
  BY <1>1, FS_CardinalityType
<1>3. ExistsBijection(D, 1 .. Cardinality(D))
  BY <1>2, Fun_ExistsBijSymmetric
<1>4. PICK g \in Bijection(D, 1 .. Cardinality(D)) : TRUE
  BY <1>3 DEF ExistsBijection
<1>5. g \in [D -> 1 .. Cardinality(D)] /\ \A s, t \in D : s # t => g[s] # g[t]
  BY <1>4 DEF Bijection, Injection, IsInjective
<1> DEFINE f == [s \in D |-> made + g[s]]
<1>6. f \in [D -> made + 1 .. made + Cardinality(D)]
  <2> SUFFICES ASSUME NEW s \in D PROVE made + g[s] \in made + 1 .. made + Cardinality(D)
    OBVIOUS
  <2>1. g[s] \in 1 .. Cardinality(D)
    BY <1>5
  <2> QED
    BY <2>1, <1>2
<1>7. \A s, t \in D : s # t => f[s] # f[t]
  <2> SUFFICES ASSUME NEW s \in D, NEW t \in D, s # t PROVE made + g[s] # made + g[t]
    OBVIOUS
  <2>1. g[s] \in 1 .. Cardinality(D) /\ g[t] \in 1 .. Cardinality(D) /\ g[s] # g[t]
    BY <1>5
  <2> QED
    BY <2>1, <1>2
<1> QED
  BY <1>2, <1>6, <1>7

\* What getState() says of the recorders in the map.
LEMMA StateTells ==
  ASSUME RecordingTypeOK
  PROVE  /\ Hooked \subseteq R
         /\ \A st \in {"recording", "paused"} :
              State = st => \E r \in R : rec[r].st = st
<1>1. Hooked \subseteq R
  BY RecordingAssumption DEF RecordingTypeOK, Hooked, R
<1>2. \A st \in {"recording", "paused"} : State = st => st \in {rec[r].st : r \in Hooked}
  BY DEF State
<1> QED
  BY <1>1, <1>2

LEMMA RecorderOK ==
  ASSUME RecordingTypeOK, NEW r \in R
  PROVE  /\ rec[r] \in Recorder /\ rec[r].st \in States /\ rec[r].n \in Nat
         /\ rec[r].secret \in BOOLEAN /\ rec[r].stream \in Stream \cup {"none"}
BY DEF RecordingTypeOK, Recorder

\* What stop() does to the recorders of a set.
LEMMA StopAllOK ==
  ASSUME RecordingTypeOK, NEW S
  PROVE  /\ StopAll(S) \in [R -> Recorder]
         /\ \A r \in R :
              /\ StopAll(S)[r].secret = rec[r].secret
              /\ StopAll(S)[r].st \in Live => rec[r].st \in Live
              /\ StopAll(S)[r].st \in Active => rec[r].st \in Active /\ r \notin S
              /\ rec[r].st = "idle" => StopAll(S)[r].st = "idle"
<1> SUFFICES ASSUME NEW r \in R
             PROVE  /\ StopAll(S)[r] \in Recorder
                    /\ StopAll(S)[r].secret = rec[r].secret
                    /\ StopAll(S)[r].st \in Live => rec[r].st \in Live
                    /\ StopAll(S)[r].st \in Active => rec[r].st \in Active /\ r \notin S
                    /\ rec[r].st = "idle" => StopAll(S)[r].st = "idle"
  BY DEF StopAll
<1>1. rec[r] \in Recorder
  BY RecorderOK
<1>2. StopAll(S)[r] = IF r \in S /\ Stops(r) THEN [rec[r] EXCEPT !.st = "stopping"] ELSE rec[r]
  BY DEF StopAll
<1> QED
  BY <1>1, <1>2 DEF Recorder, States, Stops, Live, Active

\* A step after which no recorder is live that was not, under the same options.
LEMMA Fewer ==
  ASSUME RecordingInv, noted' = noted, key' = key, asked' = asked, made' = made,
         rec' \in [R -> Recorder], uploads' \subseteq uploads, uploads' \subseteq Chunk,
         \A r \in R : /\ rec'[r].secret = rec[r].secret
                      /\ rec'[r].st \in Live => rec[r].st \in Live
                      /\ r > made => rec'[r].st = "idle"
  PROVE  Unmade' /\ KeyInv'
<1>1. Unmade'
  BY DEF Unmade
<1>2. KeyInv'
  <2> SUFFICES ASSUME ~noted.reasked
               PROVE  /\ \A r \in R : rec'[r].st \in Live => rec'[r].secret = key /\ key = asked
                      /\ \A u \in uploads' : u.r <= made /\ u.secret = rec'[u.r].secret
    BY DEF KeyInv
  <2>1. \A u \in uploads' : u \in uploads /\ u.r \in R
    BY DEF Chunk
  <2> QED
    BY <2>1 DEF RecordingInv, KeyInv
<1> QED
  BY <1>1, <1>2

LEMMA RecordingInvInit == RecordingInit => RecordingInv
<1> SUFFICES ASSUME RecordingInit PROVE RecordingInv
  OBVIOUS
<1> USE DEF RecordingInit
<1>1. RecordingTypeOK
  <2>1. rec \in [R -> Recorder]
    BY DEF Recorder, States
  <2>2. 0 \in 0 .. MaxR
    BY RecordingAssumption
  <2>3. hooks \in [Stream -> 0 .. MaxR]
    BY <2>2
  <2>4. noted \in [reasked : BOOLEAN, again : BOOLEAN, failed : BOOLEAN, overtook : BOOLEAN]
    OBVIOUS
  <2> QED
    BY <2>1, <2>3, <2>4 DEF RecordingTypeOK
<1>2. NoneActive /\ \A r \in R : rec[r].st = "idle"
  BY DEF NoneActive, Active
<1>3. Unmade /\ KeyInv /\ ActiveInv
  BY <1>2 DEF Unmade, KeyInv, ActiveInv, NoneActive, Active, Live
<1> QED
  BY <1>1, <1>3 DEF RecordingInv

\* The recorders that start() makes.
LEMMA MakeAllOK ==
  ASSUME RecordingInv, NEW D \in SUBSET Stream, NEW bad \in SUBSET D, NEW e \in BOOLEAN,
         MakeAll(D, bad, e)
  PROVE  /\ rec' \in [R -> Recorder] /\ made' \in Nat /\ made' >= made
         /\ hooks' \in [Stream -> 0 .. MaxR] /\ waits' \subseteq Wait
         /\ \A r \in R : r <= made => rec'[r] = rec[r]
         /\ \A r \in R : r > made' => rec'[r].st = "idle"
         /\ \A r \in R : rec'[r] = rec[r]
                         \/ /\ rec'[r].secret = e
                            /\ rec'[r].st \in Active => r \in Hooked' /\ bad = {}
         /\ bad = {} => waits' = waits
<1> DEFINE C == Cardinality(D)
           order == CHOOSE f \in [D -> made + 1 .. made + C] : \A s, t \in D : s # t => f[s] # f[t]
           started == {order[s] : s \in D \ bad}
           st(s) == IF s \in bad THEN "error" ELSE IF bad = {} THEN "recording" ELSE "stopping"
<1>1. made \in Nat
  BY DEF RecordingInv, RecordingTypeOK
<1>2. C \in Nat /\ order \in [D -> made + 1 .. made + C]
      /\ \A s, t \in D : s # t => order[s] # order[t]
  BY <1>1, OrderExists
<1>3. /\ made + C <= MaxR /\ made' = made + C
      /\ hooks' = [s \in Stream |-> IF bad # {} /\ started = {} THEN 0
                                    ELSE IF s \in D THEN order[s] ELSE hooks[s]]
      /\ rec' = [r \in R |-> IF \E s \in D : order[s] = r
                             THEN LET s == CHOOSE t \in D : order[t] = r
                                  IN NewRecorder(s, st(s), e)
                             ELSE rec[r]]
      /\ waits' = IF bad = {} \/ started = {} THEN waits
                  ELSE waits \cup {[of |-> started, report |-> FALSE]}
  BY DEF MakeAll
<1> HIDE DEF order
<1>4. MaxR \in Nat
  BY RecordingAssumption
<1>5. \A s \in D : order[s] \in R /\ order[s] > made /\ order[s] <= made + C /\ order[s] # 0
  <2> TAKE s \in D
  <2>1. order[s] \in made + 1 .. made + C
    BY <1>2
  <2> QED
    BY <2>1, <1>1, <1>2, <1>3, <1>4 DEF R
<1>6. hooks' \in [Stream -> 0 .. MaxR]
  <2>1. hooks \in [Stream -> 0 .. MaxR] /\ R \subseteq 0 .. MaxR /\ 0 \in 0 .. MaxR
    BY <1>4 DEF RecordingInv, RecordingTypeOK, R
  <2> QED
    BY <1>3, <1>5, <2>1
<1>7. waits' \subseteq Wait
  <2>1. started \subseteq R
    BY <1>5
  <2>2. [of |-> started, report |-> FALSE] \in Wait
    BY <2>1 DEF Wait
  <2>3. waits' \subseteq waits \cup {[of |-> started, report |-> FALSE]}
    BY <1>3
  <2> QED
    BY <2>2, <2>3 DEF RecordingInv, RecordingTypeOK
<1>8. ASSUME NEW r \in R, NEW t \in D, order[t] = r
      PROVE  rec'[r] = NewRecorder(t, st(t), e)
  <2>1. rec'[r] = LET s == CHOOSE u \in D : order[u] = r IN NewRecorder(s, st(s), e)
    BY <1>3, <1>8
  <2> DEFINE s == CHOOSE u \in D : order[u] = r
  <2>2. s \in D /\ order[s] = r
    BY <1>8
  <2>3. s = t
    BY <2>2, <1>8, <1>2
  <2> QED
    BY <2>1, <2>3
<1>9. ASSUME NEW r \in R, ~ \E t \in D : order[t] = r
      PROVE  rec'[r] = rec[r]
  BY <1>3, <1>9
<1>10. rec' \in [R -> Recorder]
  <2> SUFFICES ASSUME NEW r \in R PROVE rec'[r] \in Recorder
    BY <1>3
  <2>1. ASSUME NEW t \in D, order[t] = r
        PROVE  rec'[r] \in Recorder
    <3>1. t \in Stream /\ st(t) \in States
      BY DEF States
    <3>2. NewRecorder(t, st(t), e) \in Recorder
      BY <3>1 DEF NewRecorder, Recorder
    <3> QED
      BY <3>2, <1>8, <2>1
  <2>2. CASE ~ \E t \in D : order[t] = r
    BY <2>2, <1>9 DEF RecordingInv, RecordingTypeOK
  <2> QED
    BY <2>1, <2>2
<1>11. \A r \in R : r <= made => rec'[r] = rec[r]
  BY <1>1, <1>5, <1>9 DEF R
<1>12. \A r \in R : r > made' => rec'[r].st = "idle"
  <2> SUFFICES ASSUME NEW r \in R, r > made + C PROVE rec'[r].st = "idle"
    BY <1>3
  <2>1. rec'[r] = rec[r] /\ r > made
    BY <1>1, <1>2, <1>5, <1>9 DEF R
  <2> QED
    BY <2>1 DEF RecordingInv, Unmade
<1>13. ASSUME NEW r \in R
       PROVE  rec'[r] = rec[r]
              \/ /\ rec'[r].secret = e
                 /\ rec'[r].st \in Active => r \in Hooked' /\ bad = {}
  <2>1. CASE ~ \E t \in D : order[t] = r
    BY <2>1, <1>9
  <2>2. ASSUME NEW t \in D, order[t] = r
        PROVE  /\ rec'[r].secret = e
               /\ rec'[r].st \in Active => r \in Hooked' /\ bad = {}
    <3>1. rec'[r].secret = e /\ rec'[r].st = st(t)
      <4>1. rec'[r] = NewRecorder(t, st(t), e)
        BY <2>2, <1>8
      <4> HIDE DEF st
      <4> QED
        BY <4>1 DEF NewRecorder
    <3>2. rec'[r].st \in Active => bad = {}
      BY <3>1 DEF Active
    <3>3. bad = {} => hooks'[t] = r
      BY <2>2, <1>3
    <3>4. t \in Stream /\ r # 0
      BY <2>2, <1>5
    <3> QED
      BY <3>1, <3>2, <3>3, <3>4 DEF Hooked
  <2> QED
    BY <2>1, <2>2
<1>14. made' \in Nat /\ made' >= made /\ (bad = {} => waits' = waits)
  BY <1>1, <1>2, <1>3
<1> QED
  BY <1>6, <1>7, <1>10, <1>11, <1>12, <1>13, <1>14

\* startRecording().
LEMMA StartInv ==
  ASSUME RecordingInv, NEW m \in {"client", "sfu"}, NEW e \in BOOLEAN,
         NEW D \in SUBSET Stream, NEW bad \in SUBSET D, Start(m, e, D, bad)
  PROVE  RecordingInv'
<1>1. /\ activeMode' = m /\ key' = e /\ resting' = FALSE /\ uploads' = uploads
      /\ noted' = [noted EXCEPT !.reasked = @ \/ \E r \in R : rec[r].st \in Live]
      /\ \A w \in waits : \E r \in w.of : rec[r].st \in Live
  BY DEF Start, KeyFor, Call, server
<1>2. \/ MakeAll(D, bad, e) /\ asked' = e /\ m = "client"
      \/ UNCHANGED <<rec, made, hooks, asked, waits>>
  BY DEF Start
<1>0. ASSUME MakeAll(D, bad, e)
      PROVE  /\ made' \in Nat /\ made' >= made
             /\ \A r \in R : r <= made => rec'[r] = rec[r]
             /\ \A r \in R : rec'[r] = rec[r]
                             \/ /\ rec'[r].secret = e
                                /\ rec'[r].st \in Active => r \in Hooked' /\ bad = {}
             /\ bad = {} => waits' = waits
  BY <1>0, MakeAllOK
<1> USE DEF RecordingInv, RecordingTypeOK
<1>3. /\ noted' \in [reasked : BOOLEAN, again : BOOLEAN, failed : BOOLEAN, overtook : BOOLEAN]
      /\ ~noted'.reasked => ~noted.reasked /\ \A r \in R : rec[r].st \notin Live
      /\ noted'.again = noted.again
  BY <1>1
<1>4. ~noted'.reasked => waits = {}
  <2> SUFFICES ASSUME ~noted'.reasked, NEW w \in waits PROVE FALSE
    OBVIOUS
  <2>1. w \in Wait
    OBVIOUS
  <2>2. w.of \subseteq R
    BY <2>1 DEF Wait
  <2>3. PICK r \in w.of : rec[r].st \in Live
    BY <1>1
  <2> QED
    BY <2>2, <2>3, <1>3
<1>5. RecordingTypeOK'
  <2>1. CASE MakeAll(D, bad, e) /\ asked' = e
    <3>1. /\ rec' \in [R -> Recorder] /\ made' \in Nat
          /\ hooks' \in [Stream -> 0 .. MaxR] /\ waits' \subseteq Wait
      BY <2>1, MakeAllOK
    <3> QED
      BY <3>1, <1>1, <1>3, <2>1
  <2>2. CASE UNCHANGED <<rec, made, hooks, asked, waits>>
    BY <2>2, <1>1, <1>3
  <2> QED
    BY <1>2, <2>1, <2>2
<1>6. Unmade'
  <2>1. CASE MakeAll(D, bad, e)
    BY <2>1, MakeAllOK DEF Unmade
  <2>2. CASE UNCHANGED <<rec, made, hooks, asked, waits>>
    BY <2>2 DEF Unmade
  <2> QED
    BY <1>2, <2>1, <2>2
<1>7. KeyInv'
  <2> SUFFICES ASSUME ~noted'.reasked
               PROVE  /\ \A r \in R : rec'[r].st \in Live => rec'[r].secret = e /\ e = asked'
                      /\ \A u \in uploads : u.r <= made' /\ u.secret = rec'[u.r].secret
    BY <1>1 DEF KeyInv
  <2>1. \A u \in uploads : u.r \in R /\ u.r <= made /\ u.secret = rec[u.r].secret
    BY <1>3 DEF KeyInv, Chunk
  <2>2. CASE MakeAll(D, bad, e) /\ asked' = e
    <3>1. /\ made' \in Nat /\ made' >= made
          /\ \A r \in R : r <= made => rec'[r] = rec[r]
          /\ \A r \in R : rec'[r] = rec[r] \/ rec'[r].secret = e
      BY <2>2, <1>0
    <3>2. \A u \in uploads : u.r <= made' /\ u.secret = rec'[u.r].secret
      BY <2>1, <3>1 DEF R
    <3> QED
      BY <3>1, <3>2, <2>2, <1>3
  <2>3. CASE UNCHANGED <<rec, made, hooks, asked, waits>>
    BY <2>3, <2>1, <1>3
  <2> QED
    BY <1>2, <2>2, <2>3
<1>8. ActiveInv'
  <2> SUFFICES ASSUME ~noted'.reasked
               PROVE  /\ \A r \in R : rec'[r].st \in Active => r \in Hooked'
                      /\ waits' # {} \/ m # "client" => NoneActive'
    BY <1>1 DEF ActiveInv
  <2>1. \A r \in R : rec[r].st \notin Active
    BY <1>3 DEF Live
  <2>2. CASE MakeAll(D, bad, e) /\ m = "client"
    <3>1. /\ \A r \in R : rec'[r] = rec[r] \/ (rec'[r].st \in Active => r \in Hooked' /\ bad = {})
          /\ bad = {} => waits' = waits
      BY <2>2, <1>0
    <3> QED
      BY <3>1, <2>1, <2>2, <1>4 DEF NoneActive
  <2>3. CASE UNCHANGED <<rec, made, hooks, asked, waits>>
    BY <2>3, <2>1 DEF NoneActive
  <2> QED
    BY <1>2, <2>2, <2>3
<1> QED
  BY <1>5, <1>6, <1>7, <1>8

\* stopRecording().
LEMMA StopInv == RecordingInv /\ Stop => RecordingInv'
<1> SUFFICES ASSUME RecordingInv, Stop PROVE RecordingInv'
  OBVIOUS
<1>1. /\ made' = made /\ hooks' = hooks /\ activeMode' = activeMode /\ key' = key
      /\ asked' = asked /\ uploads' = uploads /\ noted' = noted
  BY DEF Stop, facade
<1>2. \/ activeMode # "client" /\ resting' = TRUE /\ rec' = rec /\ waits' = waits
      \/ activeMode = "client" /\ rec' = StopAll(Hooked) /\ Hooked = {} /\ resting' = TRUE
         /\ waits' = waits
      \/ activeMode = "client" /\ rec' = StopAll(Hooked) /\ resting' = FALSE
         /\ waits' = waits \cup {[of |-> Awaited(Hooked), report |-> TRUE]}
  BY DEF Stop
<1>3. RecordingTypeOK
  BY DEF RecordingInv
<1>4. /\ rec' \in [R -> Recorder]
      /\ \A r \in R : /\ rec'[r].secret = rec[r].secret
                      /\ rec'[r].st \in Live => rec[r].st \in Live
                      /\ rec'[r].st \in Active => rec[r].st \in Active
                      /\ rec[r].st = "idle" => rec'[r].st = "idle"
  <2>1. CASE rec' = rec
    BY <2>1, <1>3 DEF RecordingTypeOK
  <2>2. CASE rec' = StopAll(Hooked)
    BY <2>2, <1>3, StopAllOK
  <2> QED
    BY <1>2, <2>1, <2>2
<1>5. waits' \subseteq Wait /\ resting' \in BOOLEAN
  <2>1. Awaited(Hooked) \subseteq R
    BY <1>3, StateTells DEF Awaited
  <2>2. [of |-> Awaited(Hooked), report |-> TRUE] \in Wait
    BY <2>1 DEF Wait
  <2> QED
    BY <2>2, <1>2, <1>3 DEF RecordingTypeOK
<1>6. RecordingTypeOK'
  BY <1>1, <1>3, <1>4, <1>5 DEF RecordingTypeOK
<1>7. Unmade' /\ KeyInv'
  <2>1. uploads' \subseteq uploads /\ uploads' \subseteq Chunk
    BY <1>1, <1>3 DEF RecordingTypeOK
  <2>2. \A r \in R : r > made => rec'[r].st = "idle"
    BY <1>4 DEF RecordingInv, Unmade
  <2> QED
    BY <2>1, <2>2, <1>1, <1>4, Fewer
<1>8. ActiveInv'
  <2> SUFFICES ASSUME ~noted.reasked, ~noted.again
               PROVE  /\ \A r \in R : rec'[r].st \in Active => r \in Hooked'
                      /\ waits' # {} \/ resting' \/ activeMode' # "client" => NoneActive'
    BY <1>1 DEF ActiveInv
  <2>1. /\ \A r \in R : rec[r].st \in Active => r \in Hooked
        /\ waits # {} \/ resting \/ activeMode # "client" => NoneActive
    BY DEF RecordingInv, ActiveInv
  <2>2. Hooked' = Hooked
    BY <1>1 DEF Hooked
  <2>3. CASE activeMode # "client"
    BY <2>1, <2>3, <1>4, <2>2 DEF NoneActive
  <2>4. CASE rec' = StopAll(Hooked)
    <3>1. \A r \in R : rec'[r].st \notin Active
      BY <2>4, <2>1, <1>3, StopAllOK
    <3> QED
      BY <3>1 DEF NoneActive
  <2> QED
    BY <1>2, <2>3, <2>4
<1> QED
  BY <1>6, <1>7, <1>8 DEF RecordingInv

\* The awaited recorders have settled.
LEMMA SettledInv ==
  ASSUME RecordingInv, NEW w \in waits, Settled(w)
  PROVE  RecordingInv'
<1>1. /\ waits' = waits \ {w} /\ hooks' = [s \in Stream |-> 0] /\ rec' = rec /\ made' = made
      /\ activeMode' = activeMode /\ key' = key /\ asked' = asked /\ uploads' = uploads
      /\ noted' = noted /\ resting' \in BOOLEAN
  BY DEF Settled, facade, RecordingInv, RecordingTypeOK
<1>2. RecordingTypeOK'
  BY <1>1, RecordingAssumption DEF RecordingInv, RecordingTypeOK
<1>3. Unmade' /\ KeyInv'
  BY <1>1 DEF RecordingInv, Unmade, KeyInv
<1>4. ActiveInv'
  BY <1>1 DEF RecordingInv, ActiveInv, NoneActive
<1> QED
  BY <1>2, <1>3, <1>4 DEF RecordingInv

\* pause() and resume().
LEMMA PauseInv ==
  ASSUME RecordingInv, NEW from \in Active, NEW to \in Active, Pause(from, to)
  PROVE  RecordingInv'
<1>1. /\ made' = made /\ hooks' = hooks /\ activeMode' = activeMode /\ key' = key
      /\ asked' = asked /\ uploads' = uploads /\ noted' = noted /\ waits' = waits
      /\ resting' = resting
      /\ rec' = [r \in R |-> IF r \in Hooked /\ rec[r].st = from
                             THEN [rec[r] EXCEPT !.st = to] ELSE rec[r]]
  BY DEF Pause, facade, server
<1>2. RecordingTypeOK
  BY DEF RecordingInv
<1>3. /\ rec' \in [R -> Recorder]
      /\ \A r \in R : /\ rec'[r].secret = rec[r].secret
                      /\ rec'[r].st \in Live => rec[r].st \in Live
                      /\ rec'[r].st \in Active => rec[r].st \in Active
                      /\ rec[r].st = "idle" => rec'[r].st = "idle"
  <2> SUFFICES ASSUME NEW r \in R
               PROVE  /\ rec'[r] \in Recorder
                      /\ rec'[r].secret = rec[r].secret
                      /\ rec'[r].st \in Live => rec[r].st \in Live
                      /\ rec'[r].st \in Active => rec[r].st \in Active
                      /\ rec[r].st = "idle" => rec'[r].st = "idle"
    BY <1>1
  <2>1. rec[r] \in Recorder
    BY <1>2 DEF RecordingTypeOK
  <2>2. rec'[r] = IF r \in Hooked /\ rec[r].st = from THEN [rec[r] EXCEPT !.st = to] ELSE rec[r]
    BY <1>1
  <2> QED
    BY <2>1, <2>2 DEF Recorder, States, Live, Active
<1>4. RecordingTypeOK'
  BY <1>1, <1>2, <1>3 DEF RecordingTypeOK
<1>5. Unmade' /\ KeyInv'
  <2>1. uploads' \subseteq uploads /\ uploads' \subseteq Chunk
    BY <1>1, <1>2 DEF RecordingTypeOK
  <2>2. \A r \in R : r > made => rec'[r].st = "idle"
    BY <1>3 DEF RecordingInv, Unmade
  <2> QED
    BY <2>1, <2>2, <1>1, <1>3, Fewer
<1>6. ActiveInv'
  <2>1. Hooked' = Hooked
    BY <1>1 DEF Hooked
  <2> QED
    BY <2>1, <1>1, <1>3 DEF RecordingInv, ActiveInv, NoneActive
<1> QED
  BY <1>4, <1>5, <1>6 DEF RecordingInv

\* addRemoteStream().
LEMMA AddRemoteInv ==
  ASSUME RecordingInv, NEW s \in Stream, NEW st \in {"recording", "error"}, AddRemote(s, st)
  PROVE  RecordingInv'
<1> DEFINE new == NewRecorder(s, st, asked)
<1>1. /\ State = "recording" /\ made < MaxR /\ made' = made + 1
      /\ hooks' = [hooks EXCEPT ![s] = made + 1]
      /\ rec' = [rec EXCEPT ![made + 1] = new]
      /\ noted' = [noted EXCEPT !.again = @ \/ hooks[s] # 0]
      /\ activeMode' = activeMode /\ key' = key /\ asked' = asked /\ uploads' = uploads
      /\ waits' = waits /\ resting' = resting
  BY DEF AddRemote, facade, server
<1>2. RecordingTypeOK
  BY DEF RecordingInv
<1>3. made \in Nat /\ made + 1 \in R /\ made + 1 \in 0 .. MaxR
  BY <1>1, <1>2, RecordingAssumption DEF RecordingTypeOK, R
<1>4. /\ new \in Recorder /\ new.st = st /\ new.secret = asked
  BY <1>2 DEF NewRecorder, Recorder, States, RecordingTypeOK
<1> HIDE DEF new
<1>5. PICK q \in R : rec[q].st = "recording"
  BY <1>1, <1>2, StateTells
<1>6. /\ rec' \in [R -> Recorder] /\ rec'[made + 1] = new
      /\ \A r \in R \ {made + 1} : rec'[r] = rec[r]
  BY <1>1, <1>2, <1>3, <1>4 DEF RecordingTypeOK
<1>7. /\ noted' \in [reasked : BOOLEAN, again : BOOLEAN, failed : BOOLEAN, overtook : BOOLEAN]
      /\ noted'.reasked = noted.reasked
      /\ ~noted'.again => ~noted.again /\ hooks[s] = 0
  BY <1>1, <1>2 DEF RecordingTypeOK
<1>8. RecordingTypeOK'
  <2>1. hooks' \in [Stream -> 0 .. MaxR] /\ made' \in Nat
    BY <1>1, <1>2, <1>3 DEF RecordingTypeOK
  <2> QED
    BY <2>1, <1>1, <1>2, <1>6, <1>7 DEF RecordingTypeOK
<1>9. Unmade'
  <2> SUFFICES ASSUME NEW r \in R, r > made + 1 PROVE rec'[r].st = "idle"
    BY <1>1 DEF Unmade
  <2>1. r > made /\ r # made + 1
    BY <1>3 DEF R
  <2> QED
    BY <2>1, <1>6 DEF RecordingInv, Unmade
<1>10. KeyInv'
  <2> SUFFICES ASSUME ~noted.reasked
               PROVE  /\ \A r \in R : rec'[r].st \in Live => rec'[r].secret = key /\ key = asked
                      /\ \A u \in uploads : u.r <= made + 1 /\ u.secret = rec'[u.r].secret
    BY <1>1, <1>7 DEF KeyInv
  <2>1. /\ \A r \in R : rec[r].st \in Live => rec[r].secret = key /\ key = asked
        /\ \A u \in uploads : u.r \in R /\ u.r <= made /\ u.secret = rec[u.r].secret
    BY <1>2 DEF RecordingInv, KeyInv, RecordingTypeOK, Chunk
  <2>2. key = asked
    BY <1>5, <2>1 DEF Live, Active
  <2>3. \A r \in R : rec'[r].st \in Live => rec'[r].secret = key
    <3> TAKE r \in R
    <3>1. CASE r = made + 1
      BY <3>1, <1>4, <1>6, <2>2
    <3>2. CASE r # made + 1
      BY <3>2, <1>6, <2>1
    <3> QED
      BY <3>1, <3>2
  <2>4. \A u \in uploads : u.r <= made + 1 /\ u.secret = rec'[u.r].secret
    <3> TAKE u \in uploads
    <3>1. u.r \in R /\ u.r <= made /\ u.secret = rec[u.r].secret
      BY <2>1
    <3>2. u.r # made + 1 /\ u.r <= made + 1
      BY <3>1, <1>3 DEF R
    <3> QED
      BY <3>1, <3>2, <1>6
  <2> QED
    BY <2>2, <2>3, <2>4
<1>11. ActiveInv'
  <2> SUFFICES ASSUME ~noted.reasked, ~noted'.again
               PROVE  /\ \A r \in R : rec'[r].st \in Active => r \in Hooked'
                      /\ ~(waits # {} \/ resting \/ activeMode # "client")
    BY <1>1, <1>7 DEF ActiveInv
  <2>1. /\ \A r \in R : rec[r].st \in Active => r \in Hooked
        /\ waits # {} \/ resting \/ activeMode # "client" => NoneActive
        /\ hooks[s] = 0
    BY <1>7 DEF RecordingInv, ActiveInv
  <2>2. ~NoneActive
    BY <1>5 DEF NoneActive, Active
  <2>3. \A r \in R : rec'[r].st \in Active => r \in Hooked'
    <3> SUFFICES ASSUME NEW r \in R, rec'[r].st \in Active
                 PROVE  r \in {hooks'[t] : t \in Stream} \ {0}
      BY DEF Hooked
    <3>1. r # 0
      BY RecordingAssumption DEF R
    <3>2. CASE r = made + 1
      <4>1. hooks'[s] = made + 1
        BY <1>1, <1>2 DEF RecordingTypeOK
      <4> QED
        BY <4>1, <3>1, <3>2
    <3>3. CASE r # made + 1
      <4>1. PICK t \in Stream : hooks[t] = r
        BY <3>3, <1>6, <2>1 DEF Hooked
      <4>2. t # s /\ hooks'[t] = r
        BY <4>1, <3>1, <2>1, <1>1, <1>2 DEF RecordingTypeOK
      <4> QED
        BY <4>2, <3>1
    <3> QED
      BY <3>2, <3>3
  <2> QED
    BY <2>1, <2>2, <2>3
<1> QED
  BY <1>8, <1>9, <1>10, <1>11 DEF RecordingInv

\* removeRemoteStream().
LEMMA RemoveRemoteInv ==
  ASSUME RecordingInv, NEW s \in Stream, RemoveRemote(s)
  PROVE  RecordingInv'
<1>1. /\ hooks' = [hooks EXCEPT ![s] = 0] /\ rec' = StopAll({hooks[s]}) /\ made' = made
      /\ activeMode' = activeMode /\ key' = key /\ asked' = asked /\ uploads' = uploads
      /\ waits' = waits /\ resting' = resting /\ noted' = noted
  BY DEF RemoveRemote, facade, server
<1>2. RecordingTypeOK
  BY DEF RecordingInv
<1>3. /\ rec' \in [R -> Recorder]
      /\ \A r \in R : /\ rec'[r].secret = rec[r].secret
                      /\ rec'[r].st \in Live => rec[r].st \in Live
                      /\ rec'[r].st \in Active => rec[r].st \in Active /\ r # hooks[s]
                      /\ rec[r].st = "idle" => rec'[r].st = "idle"
  BY <1>1, <1>2, StopAllOK
<1>4. hooks' \in [Stream -> 0 .. MaxR]
  BY <1>1, <1>2, RecordingAssumption DEF RecordingTypeOK
<1>5. RecordingTypeOK'
  BY <1>1, <1>2, <1>3, <1>4 DEF RecordingTypeOK
<1>6. Unmade' /\ KeyInv'
  <2>1. uploads' \subseteq uploads /\ uploads' \subseteq Chunk
    BY <1>1, <1>2 DEF RecordingTypeOK
  <2>2. \A r \in R : r > made => rec'[r].st = "idle"
    BY <1>3 DEF RecordingInv, Unmade
  <2> QED
    BY <2>1, <2>2, <1>1, <1>3, Fewer
<1>7. ActiveInv'
  <2> SUFFICES ASSUME ~noted.reasked, ~noted.again
               PROVE  /\ \A r \in R : rec'[r].st \in Active => r \in Hooked'
                      /\ waits # {} \/ resting \/ activeMode # "client" => NoneActive'
    BY <1>1 DEF ActiveInv
  <2>1. /\ \A r \in R : rec[r].st \in Active => r \in Hooked
        /\ waits # {} \/ resting \/ activeMode # "client" => NoneActive
    BY DEF RecordingInv, ActiveInv
  <2>2. ASSUME NEW r \in R, rec'[r].st \in Active
        PROVE  r \in {hooks'[t] : t \in Stream} \ {0}
    <3>1. PICK t \in Stream : hooks[t] = r /\ r # 0
      BY <2>1, <2>2, <1>3 DEF Hooked
    <3>2. hooks'[t] = r
      BY <3>1, <2>2, <1>1, <1>2, <1>3 DEF RecordingTypeOK
    <3> QED
      BY <3>1, <3>2
  <2>3. \A r \in R : rec'[r].st \in Active => r \in Hooked'
    BY <2>2 DEF Hooked
  <2> QED
    BY <2>1, <2>3, <1>3 DEF NoneActive
<1> QED
  BY <1>5, <1>6, <1>7 DEF RecordingInv

\* A recorder's data and its end.
LEMMA DataInv ==
  ASSUME RecordingInv, NEW r \in R, Data(r)
  PROVE  RecordingInv'
<1> DEFINE new == [rec[r] EXCEPT !.n = @ + 1]
<1>1. /\ rec[r].st \in {"recording", "stopping"}
      /\ rec' = [rec EXCEPT ![r] = new] /\ uploads' = uploads \cup {Upload(r)}
      /\ made' = made /\ hooks' = hooks /\ activeMode' = activeMode /\ key' = key
      /\ asked' = asked /\ waits' = waits /\ resting' = resting /\ noted' = noted
  BY DEF Data, facade
<1>2. RecordingTypeOK
  BY DEF RecordingInv
<1>3. rec[r] \in Recorder
  BY <1>2 DEF RecordingTypeOK
<1>4. new \in Recorder /\ new.st = rec[r].st /\ new.secret = rec[r].secret
  BY <1>3 DEF Recorder
<1>5. Upload(r) \in Chunk /\ Upload(r).r = r /\ Upload(r).secret = key
  BY <1>2, <1>3 DEF Upload, Chunk, Recorder, RecordingTypeOK
<1> HIDE DEF new
<1>6. /\ rec' \in [R -> Recorder]
      /\ \A q \in R : rec'[q].st = rec[q].st /\ rec'[q].secret = rec[q].secret
  BY <1>1, <1>2, <1>4 DEF RecordingTypeOK
<1>7. RecordingTypeOK'
  BY <1>1, <1>2, <1>5, <1>6 DEF RecordingTypeOK
<1>8. Unmade'
  BY <1>1, <1>6 DEF RecordingInv, Unmade
<1>9. KeyInv'
  <2> SUFFICES ASSUME ~noted.reasked
               PROVE  /\ \A q \in R : rec'[q].st \in Live => rec'[q].secret = key /\ key = asked
                      /\ \A u \in uploads' : u.r <= made /\ u.secret = rec'[u.r].secret
    BY <1>1 DEF KeyInv
  <2>1. /\ \A q \in R : rec[q].st \in Live => rec[q].secret = key /\ key = asked
        /\ \A u \in uploads : u.r \in R /\ u.r <= made /\ u.secret = rec[u.r].secret
    BY <1>2 DEF RecordingInv, KeyInv, RecordingTypeOK, Chunk
  <2>2. r <= made
    BY <1>1, <1>2 DEF RecordingInv, RecordingTypeOK, Unmade, R
  <2>3. rec[r].secret = key
    BY <1>1, <2>1 DEF Live, Active
  <2>4. \A u \in uploads' : u.r <= made /\ u.secret = rec'[u.r].secret
    BY <1>1, <1>5, <1>6, <2>1, <2>2, <2>3
  <2> QED
    BY <2>1, <2>4, <1>6
<1>10. ActiveInv'
  <2>1. Hooked' = Hooked
    BY <1>1 DEF Hooked
  <2> QED
    BY <2>1, <1>1, <1>6 DEF RecordingInv, ActiveInv, NoneActive
<1> QED
  BY <1>7, <1>8, <1>9, <1>10 DEF RecordingInv

LEMMA EndsInv ==
  ASSUME RecordingInv, NEW r \in R, NEW st \in {"idle", "error"}, Ends(r, st)
  PROVE  RecordingInv'
<1> DEFINE new == [rec[r] EXCEPT !.st = st]
<1>1. /\ rec[r].st \in Live /\ rec' = [rec EXCEPT ![r] = new] /\ uploads' = uploads
      /\ made' = made /\ hooks' = hooks /\ activeMode' = activeMode /\ key' = key
      /\ asked' = asked /\ waits' = waits /\ resting' = resting /\ noted' = noted
  BY DEF Ends, facade, server
<1>2. RecordingTypeOK
  BY DEF RecordingInv
<1>3. new \in Recorder /\ new.st = st /\ new.secret = rec[r].secret
  BY <1>2 DEF RecordingTypeOK, Recorder, States
<1> HIDE DEF new
<1>4. /\ rec' \in [R -> Recorder]
      /\ \A q \in R : /\ rec'[q].secret = rec[q].secret
                      /\ rec'[q].st \in Live => rec[q].st \in Live
                      /\ rec'[q].st \in Active => rec[q].st \in Active
                      /\ rec[q].st = "idle" => rec'[q].st = "idle"
  BY <1>1, <1>2, <1>3 DEF RecordingTypeOK, Live, Active
<1>5. RecordingTypeOK'
  BY <1>1, <1>2, <1>4 DEF RecordingTypeOK
<1>6. Unmade' /\ KeyInv'
  <2>1. uploads' \subseteq uploads /\ uploads' \subseteq Chunk
    BY <1>1, <1>2 DEF RecordingTypeOK
  <2>2. \A q \in R : q > made => rec'[q].st = "idle"
    BY <1>4 DEF RecordingInv, Unmade
  <2> QED
    BY <2>1, <2>2, <1>1, <1>4, Fewer
<1>7. ActiveInv'
  <2>1. Hooked' = Hooked
    BY <1>1 DEF Hooked
  <2> QED
    BY <2>1, <1>1, <1>4 DEF RecordingInv, ActiveInv, NoneActive
<1> QED
  BY <1>5, <1>6, <1>7 DEF RecordingInv

\* The server's steps.
LEMMA ServerInv ==
  ASSUME RecordingInv,
         (\E u \in uploads : Uploaded(u)) \/ (\E f \in reports : Finalized(f))
  PROVE  RecordingInv'
<1>1. /\ rec' = rec /\ uploads' \subseteq uploads
      /\ made' = made /\ hooks' = hooks /\ activeMode' = activeMode /\ key' = key
      /\ asked' = asked /\ waits' = waits /\ resting' = resting
      /\ \/ noted' = noted
         \/ noted' = [noted EXCEPT !.failed = TRUE]
         \/ noted' = [noted EXCEPT !.overtook = @ \/ uploads # {}]
  BY DEF Uploaded, Finalized, facade
<1>2. RecordingTypeOK
  BY DEF RecordingInv
<1>3. /\ noted' \in [reasked : BOOLEAN, again : BOOLEAN, failed : BOOLEAN, overtook : BOOLEAN]
      /\ noted'.reasked = noted.reasked /\ noted'.again = noted.again
  BY <1>1, <1>2 DEF RecordingTypeOK
<1>4. RecordingTypeOK'
  BY <1>1, <1>2, <1>3 DEF RecordingTypeOK
<1>5. Unmade' /\ KeyInv'
  BY <1>1, <1>3 DEF RecordingInv, Unmade, KeyInv
<1>6. ActiveInv'
  <2>1. Hooked' = Hooked
    BY <1>1 DEF Hooked
  <2> QED
    BY <2>1, <1>1, <1>3 DEF RecordingInv, ActiveInv, NoneActive
<1> QED
  BY <1>4, <1>5, <1>6 DEF RecordingInv

LEMMA RecordingInvNext == RecordingInv /\ [RecordingNext]_recordingVars => RecordingInv'
<1> SUFFICES ASSUME RecordingInv, [RecordingNext]_recordingVars PROVE RecordingInv'
  OBVIOUS
<1>1. ASSUME NEW m \in {"client", "sfu"}, NEW e \in BOOLEAN, NEW D \in SUBSET Stream \ {{}},
             NEW bad \in {{}} \cup {{s} : s \in D}, Start(m, e, D, bad)
      PROVE  RecordingInv'
  <2>1. D \in SUBSET Stream /\ bad \in SUBSET D
    OBVIOUS
  <2> QED
    BY <1>1, <2>1, StartInv
<1>2. CASE Stop
  BY <1>2, StopInv
<1>3. CASE Pause("recording", "paused") \/ Pause("paused", "recording")
  BY <1>3, PauseInv DEF Active
<1>4. CASE \E w \in waits : Settled(w)
  BY <1>4, SettledInv
<1>5. CASE \E s \in Stream : AddRemote(s, "recording") \/ AddRemote(s, "error") \/ RemoveRemote(s)
  BY <1>5, AddRemoteInv, RemoveRemoteInv
<1>6. CASE \E r \in R : Data(r) \/ Ends(r, "idle") \/ Ends(r, "error")
  BY <1>6, DataInv, EndsInv
<1>7. CASE (\E u \in uploads : Uploaded(u)) \/ (\E f \in reports : Finalized(f))
  BY <1>7, ServerInv
<1>8. CASE UNCHANGED recordingVars
  <2>1. /\ rec' = rec /\ uploads' = uploads /\ noted' = noted
        /\ made' = made /\ hooks' = hooks /\ activeMode' = activeMode /\ key' = key
        /\ asked' = asked /\ waits' = waits /\ resting' = resting
    BY <1>8 DEF recordingVars, facade, server
  <2>2. Hooked' = Hooked
    BY <2>1 DEF Hooked
  <2> QED
    BY <2>1, <2>2 DEF RecordingInv, RecordingTypeOK, Unmade, KeyInv, ActiveInv, NoneActive
<1> QED
  BY <1>1, <1>2, <1>3, <1>4, <1>5, <1>6, <1>7, <1>8 DEF RecordingNext

LEMMA RecordingInvImplies == RecordingInv => RecordingAsAsked
<1> SUFFICES ASSUME RecordingInv PROVE AskedFor /\ StopStops
  BY DEF RecordingAsAsked
<1>1. AskedFor
  BY DEF RecordingInv, KeyInv, AskedFor
<1>2. StopStops
  BY DEF RecordingInv, ActiveInv, NoneActive, StopStops
<1> QED
  BY <1>1, <1>2

\* A part's steps are its own and leave the other parts alone.
LEMMA PartsSteps ==
  /\ PartsInit => MediaInit /\ RecordingInit /\ DeviceInit /\ ViewInit
  /\ [PartsNext]_partsVars => /\ [MediaNext]_mediaVars /\ [RecordingNext]_recordingVars
                              /\ [DeviceNext]_deviceVars /\ [ViewNext]_viewVars
<1>1. PartsInit => MediaInit /\ RecordingInit /\ DeviceInit /\ ViewInit
  BY DEF PartsInit
<1>2. UNCHANGED partsVars => /\ UNCHANGED mediaVars /\ UNCHANGED recordingVars
                             /\ UNCHANGED deviceVars /\ UNCHANGED viewVars
  BY DEF partsVars
<1>3. PartsNext => /\ [MediaNext]_mediaVars /\ [RecordingNext]_recordingVars
                   /\ [DeviceNext]_deviceVars /\ [ViewNext]_viewVars
  BY DEF PartsNext
<1> QED
  BY <1>1, <1>2, <1>3

\* Every chunk is encrypted exactly if its recording was asked to be, and after stopRecording()
\* no recorder goes on (RoomRecordingFacade, CompositeRecordingHook), unless start was called
\* while something was recording: for every set of streams and every number of recorders and
\* chunks.
THEOREM RecordingObeys == PartsSpec => []RecordingAsAsked
<1>1. PartsInit => RecordingInv
  BY PartsSteps, RecordingInvInit
<1>2. RecordingInv /\ [PartsNext]_partsVars => RecordingInv'
  BY PartsSteps, RecordingInvNext
<1>3. RecordingInv => RecordingAsAsked
  BY RecordingInvImplies
<1> QED
  BY <1>1, <1>2, <1>3, PTL DEF PartsSpec

-----------------------------------------------------------------------------
(* The devices.                                                            *)

TurnType == [toggle : BOOLEAN, mode : Modes, at : Cam, next : Modes]

\* The newest enumeration of a reader holds the devices there are.
ListInv ==
  \A r \in listening : ~late[r] =>
    IF queries[r] = <<>> THEN list[r] = plugged ELSE queries[r][Len(queries[r])] = plugged

\* A later call is never ahead of an earlier one.
InTurn == \A i, j \in DOMAIN turns : i < j => turns[j].at <= turns[i].at

\* What the last of several calls has yet to do.
FacingInv ==
  ~mixed =>
    IF turns = <<>> THEN facing = wanted
    ELSE LET last == turns[Len(turns)] IN
         /\ \A t \in Cam : t < last.at => facing[t] = wanted[t]
         /\ last.next = wanted[last.at]
         /\ IF last.toggle
            THEN Len(turns) = 1 /\ \A t \in Cam : t >= last.at => wanted[t] = Flip(facing[t])
            ELSE \A t \in Cam : wanted[t] = last.mode
         /\ \A k \in DOMAIN turns : turns[k].toggle => Len(turns) = 1

ListsOK ==
  /\ listening \subseteq Reader /\ plugged \in SUBSET Dev
  /\ queries \in [Reader -> Seq(SUBSET Dev)] /\ list \in [Reader -> SUBSET Dev]
  /\ late \in [Reader -> BOOLEAN]
  /\ ListInv

CameraOK ==
  /\ facing \in [Cam -> Modes] /\ wanted \in [Cam -> Modes]
  /\ turns \in Seq(TurnType) /\ mixed \in BOOLEAN
  /\ InTurn /\ FacingInv

DeviceInv == ListsOK /\ CameraOK /\ HandAnnounced

\* RemoveAt keeps the other entries in their order.
LEMMA RemoveAtOK ==
  ASSUME NEW T, NEW s \in Seq(T), NEW i \in DOMAIN s
  PROVE  /\ RemoveAt(s, i) \in Seq(T) /\ Len(RemoveAt(s, i)) = Len(s) - 1
         /\ \A j \in 1 .. Len(s) - 1 :
              RemoveAt(s, i)[j] = IF j < i THEN s[j] ELSE s[j + 1]
<1> DEFINE a == SubSeq(s, 1, i - 1)
           b == SubSeq(s, i + 1, Len(s))
<1>1. /\ a \in Seq(T) /\ Len(a) = i - 1
      /\ \A j \in 1 .. i - 1 : a[j] = s[j]
  OBVIOUS
<1>2. /\ b \in Seq(T) /\ Len(b) = Len(s) - i
      /\ \A j \in 1 .. Len(s) - i : b[j] = s[i + j]
  OBVIOUS
<1> HIDE DEF a, b
<1>3. RemoveAt(s, i) = a \o b
  BY DEF RemoveAt, a, b
<1>4. a \o b \in Seq(T)
  BY <1>1, <1>2
<1>5. Len(a \o b) = Len(s) - 1
  BY <1>1, <1>2
<1>6. \A j \in 1 .. Len(s) - 1 : (a \o b)[j] = IF j < i THEN a[j] ELSE b[j - (i - 1)]
  BY <1>1, <1>2
<1>7. ASSUME NEW j \in 1 .. Len(s) - 1
      PROVE  RemoveAt(s, i)[j] = IF j < i THEN s[j] ELSE s[j + 1]
  <2>1. CASE j < i
    BY <2>1, <1>1, <1>3, <1>4, <1>5, <1>6
  <2>2. CASE ~(j < i)
    <3>1. j - (i - 1) \in 1 .. Len(s) - i /\ i + (j - (i - 1)) = j + 1
      BY <2>2
    <3> QED
      BY <3>1, <2>2, <1>2, <1>3, <1>4, <1>5, <1>6
  <2> QED
    BY <2>1, <2>2
<1> QED
  BY <1>3, <1>4, <1>5, <1>6, <1>7

LEMMA FlipOK ==
  \A m \in Modes : Flip(m) \in Modes /\ Flip(Flip(m)) = m
BY DEF Modes, Flip


LEMMA DeviceInvInit == DeviceInit => DeviceInv
<1> SUFFICES ASSUME DeviceInit PROVE DeviceInv
  OBVIOUS
<1> USE DEF DeviceInit
<1>1. ListsOK
  <2>1. queries \in [Reader -> Seq(SUBSET Dev)]
    <3>1. <<>> \in Seq(SUBSET Dev)
      OBVIOUS
    <3> QED
      BY <3>1
  <2>2. ListInv
    BY DEF ListInv
  <2> QED
    BY <2>1, <2>2 DEF ListsOK
<1>2. CameraOK
  <2>1. <<>> \in Seq(TurnType) /\ DOMAIN <<>> = {}
    OBVIOUS
  <2> QED
    BY <2>1 DEF CameraOK, InTurn, FacingInv
<1>3. HandAnnounced
  BY DEF HandAnnounced
<1> QED
  BY <1>1, <1>2, <1>3 DEF DeviceInv

\* Readers that enumerate: devicechange and listDevices.
LEMMA QueryOK ==
  ASSUME ListsOK, NEW asking \in SUBSET Reader, Query(asking), plugged' \in SUBSET Dev,
         listening' = listening, list' = list,
         plugged' = plugged \/ asking = listening
  PROVE  ListsOK'
<1>1. /\ queries' = [r \in Reader |-> IF r \in asking THEN Append(queries[r], plugged') ELSE queries[r]]
      /\ late' = [r \in Reader |-> late[r] /\ ~(r \in asking /\ queries[r] = <<>>)]
  BY DEF Query
<1>2. \A r \in Reader : queries[r] \in Seq(SUBSET Dev)
  BY DEF ListsOK
<1>3. queries' \in [Reader -> Seq(SUBSET Dev)]
  <2> SUFFICES ASSUME NEW r \in Reader PROVE queries'[r] \in Seq(SUBSET Dev)
    BY <1>1
  <2>1. queries[r] \in Seq(SUBSET Dev)
    BY <1>2
  <2> QED
    BY <2>1, <1>1
<1>4. late' \in [Reader -> BOOLEAN]
  BY <1>1, Zenon
<1>5. ListInv'
  <2> SUFFICES ASSUME NEW r \in listening, ~late'[r]
               PROVE  IF queries'[r] = <<>> THEN list[r] = plugged'
                      ELSE queries'[r][Len(queries'[r])] = plugged'
    BY DEF ListInv
  <2>1. r \in Reader /\ queries[r] \in Seq(SUBSET Dev)
    BY <1>2 DEF ListsOK
  <2>2. CASE r \in asking
    <3>1. queries'[r] = Append(queries[r], plugged')
      BY <2>1, <2>2, <1>1
    <3>2. queries'[r] # <<>> /\ queries'[r][Len(queries'[r])] = plugged'
      BY <3>1, <2>1
    <3> QED
      BY <3>2
  <2>3. CASE r \notin asking
    <3>1. queries'[r] = queries[r] /\ (late'[r] <=> late[r]) /\ plugged' = plugged
      BY <2>1, <2>3, <1>1, Zenon
    <3> QED
      BY <3>1 DEF ListsOK, ListInv
  <2> QED
    BY <2>2, <2>3
<1> QED
  BY <1>3, <1>4, <1>5 DEF ListsOK

\* An enumeration answers, or fails.
LEMMA AnswerOK ==
  ASSUME ListsOK, NEW r \in Reader, NEW i \in DOMAIN queries[r],
         Found(r, i) \/ EnumerationFails(r, i)
  PROVE  ListsOK'
<1> DEFINE q == queries[r]
<1>1. /\ queries' = [queries EXCEPT ![r] = RemoveAt(q, i)]
      /\ plugged' = plugged /\ listening' = listening
      /\ list' = list \/ list' = [list EXCEPT ![r] = q[i]]
  BY DEF Found, EnumerationFails, ListsOK
<1>2. /\ late' \in [Reader -> BOOLEAN]
      /\ \A p \in Reader : p # r => (late'[p] <=> late[p])
      /\ ~late'[r] => ~late[r] /\ i <= 1 /\ list'[r] = q[i]
  <2>1. CASE Found(r, i)
    <3>1. late' = [late EXCEPT ![r] = @ \/ i > 1]
      BY <2>1 DEF Found
    <3>2. list'[r] = q[i]
      BY <2>1 DEF Found, SameKey, ListsOK
    <3>3. late' \in [Reader -> BOOLEAN] /\ \A p \in Reader : p # r => (late'[p] <=> late[p])
      BY <3>1 DEF ListsOK
    <3>4. late'[r] <=> late[r] \/ i > 1
      BY <3>1 DEF ListsOK
    <3>5. i \in Nat
      BY DEF ListsOK
    <3> QED
      BY <3>2, <3>3, <3>4, <3>5
  <2>2. CASE EnumerationFails(r, i)
    <3>1. late' = [late EXCEPT ![r] = TRUE]
      BY <2>2 DEF EnumerationFails
    <3> QED
      BY <3>1 DEF ListsOK
  <2> QED
    BY <2>1, <2>2
<1>3. q \in Seq(SUBSET Dev) /\ q[i] \in SUBSET Dev
  BY DEF ListsOK
<1>4. /\ RemoveAt(q, i) \in Seq(SUBSET Dev) /\ Len(RemoveAt(q, i)) = Len(q) - 1
      /\ \A j \in 1 .. Len(q) - 1 : RemoveAt(q, i)[j] = IF j < i THEN q[j] ELSE q[j + 1]
  BY <1>3, RemoveAtOK
<1>5. queries' \in [Reader -> Seq(SUBSET Dev)] /\ list' \in [Reader -> SUBSET Dev]
  BY <1>1, <1>3, <1>4 DEF ListsOK
<1>6. ListInv'
  <2> SUFFICES ASSUME NEW p \in listening, ~late'[p]
               PROVE  IF queries'[p] = <<>> THEN list'[p] = plugged
                      ELSE queries'[p][Len(queries'[p])] = plugged
    BY <1>1 DEF ListInv
  <2>1. p \in Reader
    BY DEF ListsOK
  <2>2. CASE p # r
    <3>1. queries'[p] = queries[p] /\ list'[p] = list[p] /\ ~late[p]
      BY <2>1, <2>2, <1>1, <1>2 DEF ListsOK
    <3> QED
      BY <3>1 DEF ListsOK, ListInv
  <2>3. CASE p = r
    <3>1. ~late[r] /\ i = 1 /\ list'[r] = q[1]
      BY <2>3, <1>2, <1>3
    <3>2. q # <<>> /\ Len(q) \in Nat /\ Len(q) >= 1
      BY <1>3
    <3>3. q[Len(q)] = plugged
      BY <3>1, <3>2, <2>3 DEF ListsOK, ListInv
    <3>4. queries'[p] = RemoveAt(q, i)
      BY <1>1, <2>3 DEF ListsOK
    <3>5. CASE Len(q) = 1
      <4>1. RemoveAt(q, i) = <<>>
        BY <3>5, <1>4
      <4> QED
        BY <4>1, <3>1, <3>3, <3>4, <3>5, <2>3
    <3>6. CASE Len(q) # 1
      <4> DEFINE n == Len(q)
      <4>0. n \in Nat /\ n >= 1 /\ n # 1 /\ i = 1
        BY <3>1, <3>2, <3>6
      <4> HIDE DEF n
      <4>1. n - 1 \in 1 .. n - 1 /\ ~(n - 1 < i) /\ (n - 1) + 1 = n
        BY <4>0
      <4> USE DEF n
      <4>2. RemoveAt(q, i)[Len(q) - 1] = plugged
        BY <4>1, <3>3, <1>4
      <4>3. RemoveAt(q, i) # <<>>
        BY <4>1, <1>4
      <4> QED
        BY <4>2, <4>3, <3>4, <1>4
    <3> QED
      BY <3>5, <3>6
  <2> QED
    BY <2>2, <2>3
<1> QED
  BY <1>1, <1>2, <1>5, <1>6 DEF ListsOK

\* A camera is turned, by switchCamera or setFacingMode.
LEMMA TurnOK ==
  ASSUME CameraOK, NEW toggle \in BOOLEAN, NEW mode \in Modes, Turn(toggle, mode)
  PROVE  CameraOK'
<1> DEFINE new == [toggle |-> toggle, mode |-> mode, at |-> 1, next |-> ModeFor(toggle, mode, 1)]
<1>1. /\ turns' = Append(turns, new)
      /\ wanted' = [t \in Cam |-> IF toggle THEN Flip(wanted[t]) ELSE mode]
      /\ mixed' = (mixed \/ (turns # <<>> /\ (toggle \/ \E k \in DOMAIN turns : turns[k].toggle)))
      /\ facing' = facing
  BY DEF Turn
<1>2. /\ facing \in [Cam -> Modes] /\ wanted \in [Cam -> Modes] /\ turns \in Seq(TurnType)
      /\ mixed \in BOOLEAN /\ InTurn /\ FacingInv
  BY DEF CameraOK
<1>3. 1 \in Cam
  BY DevicesAssumption DEF Cam
<1>4. /\ new \in TurnType /\ new.toggle = toggle /\ new.mode = mode /\ new.at = 1
      /\ new.next = IF toggle THEN Flip(facing[1]) ELSE mode
  BY <1>2, <1>3, FlipOK DEF TurnType, ModeFor
<1> HIDE DEF new
<1>5. /\ turns' \in Seq(TurnType) /\ Len(turns') = Len(turns) + 1 /\ turns' # <<>>
      /\ turns'[Len(turns')] = new
      /\ \A k \in DOMAIN turns : turns'[k] = turns[k]
      /\ DOMAIN turns' = DOMAIN turns \cup {Len(turns')}
  BY <1>1, <1>2, <1>4
<1>6. wanted' \in [Cam -> Modes]
  BY <1>1, <1>2, FlipOK
<1>7. mixed' \in BOOLEAN
  BY <1>1, <1>2, Zenon
<1>8. \A k \in DOMAIN turns : turns[k] \in TurnType /\ turns[k].at \in Cam /\ turns[k].at >= 1
                              /\ k \in Nat /\ k < Len(turns')
  <2> TAKE k \in DOMAIN turns
  <2>1. turns[k] \in TurnType /\ k \in 1 .. Len(turns)
    BY <1>2
  <2>2. turns[k].at \in Cam
    BY <2>1 DEF TurnType
  <2> QED
    BY <2>1, <2>2, <1>2, <1>5 DEF Cam
<1>9. InTurn'
  <2> SUFFICES ASSUME NEW i \in DOMAIN turns', NEW j \in DOMAIN turns', i < j
               PROVE  turns'[j].at <= turns'[i].at
    BY DEF InTurn
  <2>1. i \in DOMAIN turns
    BY <1>5, <1>8
  <2>2. CASE j \in DOMAIN turns
    BY <2>1, <2>2, <1>2, <1>5 DEF InTurn
  <2>3. CASE j = Len(turns')
    BY <2>1, <2>3, <1>4, <1>5, <1>8
  <2> QED
    BY <2>2, <2>3, <1>5
<1>10. FacingInv'
  <2> SUFFICES ASSUME ~mixed'
               PROVE  /\ \A t \in Cam : t < new.at => facing[t] = wanted'[t]
                      /\ new.next = wanted'[new.at]
                      /\ IF new.toggle
                         THEN Len(turns') = 1
                              /\ \A t \in Cam : t >= new.at => wanted'[t] = Flip(facing[t])
                         ELSE \A t \in Cam : wanted'[t] = new.mode
                      /\ \A k \in DOMAIN turns' : turns'[k].toggle => Len(turns') = 1
    BY <1>1, <1>5 DEF FacingInv
  <2>1. ~mixed /\ (turns # <<>> => ~toggle /\ \A k \in DOMAIN turns : ~turns[k].toggle)
    BY <1>1
  <2>2. turns = <<>> => facing = wanted /\ Len(turns') = 1
    BY <2>1, <1>2, <1>5 DEF FacingInv
  <2>3. \A t \in Cam : ~(t < new.at)
    BY <1>4 DEF Cam
  <2>4. CASE toggle
    <3>1. turns = <<>>
      BY <2>1, <2>4
    <3>2. \A t \in Cam : wanted'[t] = Flip(facing[t])
      BY <3>1, <2>2, <2>4, <1>1
    <3> QED
      BY <3>1, <3>2, <2>2, <2>3, <2>4, <1>3, <1>4
  <2>5. CASE ~toggle
    <3>1. \A t \in Cam : wanted'[t] = mode
      BY <2>5, <1>1
    <3>2. \A k \in DOMAIN turns' : ~turns'[k].toggle
      <4>1. turns = <<>> => DOMAIN turns = {}
        OBVIOUS
      <4> QED
        BY <4>1, <2>1, <2>5, <1>4, <1>5
    <3> QED
      BY <3>1, <3>2, <2>3, <2>5, <1>3, <1>4
  <2> QED
    BY <2>4, <2>5
<1> QED
  BY <1>1, <1>2, <1>5, <1>6, <1>7, <1>9, <1>10 DEF CameraOK

\* The calls under way when the k-th is over.
LEMMA WithoutTurn ==
  ASSUME CameraOK, NEW k \in DOMAIN turns, turns' = RemoveAt(turns, k)
  PROVE  /\ turns' \in Seq(TurnType) /\ Len(turns') = Len(turns) - 1 /\ InTurn'
         /\ \A j \in 1 .. Len(turns) - 1 : turns'[j] = IF j < k THEN turns[j] ELSE turns[j + 1]
<1>1. turns \in Seq(TurnType) /\ InTurn
  BY DEF CameraOK
<1>2. /\ turns' \in Seq(TurnType) /\ Len(turns') = Len(turns) - 1
      /\ \A j \in 1 .. Len(turns) - 1 : turns'[j] = IF j < k THEN turns[j] ELSE turns[j + 1]
  BY <1>1, RemoveAtOK
<1>3. InTurn'
  <2> SUFFICES ASSUME NEW i \in DOMAIN turns', NEW j \in DOMAIN turns', i < j
               PROVE  turns'[j].at <= turns'[i].at
    BY DEF InTurn
  <2> DEFINE old(n) == IF n < k THEN n ELSE n + 1
  <2>1. k \in Nat /\ DOMAIN turns = 1 .. Len(turns) /\ Len(turns) \in Nat
        /\ i \in 1 .. Len(turns) - 1 /\ j \in 1 .. Len(turns) - 1
    BY <1>1, <1>2
  <2>2. turns'[i] = turns[old(i)] /\ turns'[j] = turns[old(j)]
    BY <1>2, <2>1
  <2>3. old(i) \in DOMAIN turns /\ old(j) \in DOMAIN turns /\ old(i) < old(j)
    BY <2>1
  <2> QED
    BY <2>2, <2>3, <1>1 DEF InTurn
<1> QED
  BY <1>2, <1>3

\* applyConstraints takes effect on a track.
LEMMA AppliedOK ==
  ASSUME CameraOK, NEW k \in DOMAIN turns, Applied(k)
  PROVE  CameraOK'
<1> DEFINE turn == turns[k]
           n == Len(turns)
           last == turns[n]
<1>1. /\ \A j \in 1 .. (k - 1) : turns[j].at > turn.at
      /\ facing' = [facing EXCEPT ![turn.at] = turn.next]
      /\ turns' = IF turn.at = Cams THEN RemoveAt(turns, k)
                  ELSE [turns EXCEPT ![k].at = @ + 1,
                                     ![k].next = ModeFor(turn.toggle, turn.mode, turn.at + 1)]
      /\ wanted' = wanted /\ mixed' = mixed
  BY DEF Applied
<1>2. /\ facing \in [Cam -> Modes] /\ wanted \in [Cam -> Modes] /\ turns \in Seq(TurnType)
      /\ mixed \in BOOLEAN /\ InTurn /\ FacingInv
  BY DEF CameraOK
<1>3. /\ n \in Nat /\ n >= 1 /\ k \in 1 .. n /\ n \in 1 .. n /\ DOMAIN turns = 1 .. n /\ turns # <<>>
      /\ \A j \in 1 .. n : turns[j] \in TurnType
  BY <1>2
<1>4. \A j \in 1 .. n : /\ turns[j].at \in Cam /\ turns[j].at \in Nat /\ turns[j].at <= Cams
                        /\ turns[j].next \in Modes /\ turns[j].mode \in Modes
                        /\ turns[j].toggle \in BOOLEAN
  <2> TAKE j \in 1 .. n
  <2>1. turns[j] \in TurnType
    BY <1>3
  <2> QED
    BY <2>1, DevicesAssumption DEF TurnType, Cam
<1>5. Cams \in Nat
  BY DevicesAssumption
<1>6. \A i, j \in 1 .. n : i < j => turns[j].at <= turns[i].at
  BY <1>2, <1>3 DEF InTurn
<1>7. last.at <= turn.at /\ (k # n => last.at <= turn.at)
  <2>1. CASE k = n
    BY <2>1, <1>3, <1>4
  <2>2. CASE k # n
    <3>1. k < n
      BY <2>2, <1>3
    <3> QED
      BY <3>1, <1>3, <1>6
  <2> QED
    BY <2>1, <2>2
<1>8. /\ facing' \in [Cam -> Modes] /\ facing'[turn.at] = turn.next
      /\ \A t \in Cam : t # turn.at => facing'[t] = facing[t]
  BY <1>1, <1>2, <1>3, <1>4
\* What FacingInv says, as there is a call under way
<1>9. ~mixed =>
        /\ \A t \in Cam : t < last.at => facing[t] = wanted[t]
        /\ last.next = wanted[last.at]
        /\ IF last.toggle
           THEN n = 1 /\ \A t \in Cam : t >= last.at => wanted[t] = Flip(facing[t])
           ELSE \A t \in Cam : wanted[t] = last.mode
        /\ \A j \in 1 .. n : turns[j].toggle => n = 1
  BY <1>2, <1>3 DEF FacingInv
<1>10. ~mixed => \A t \in Cam : t < last.at => facing'[t] = wanted[t]
  <2> SUFFICES ASSUME ~mixed, NEW t \in Cam, t < last.at PROVE facing'[t] = wanted[t]
    OBVIOUS
  <2>1. t # turn.at
    BY <1>3, <1>4, <1>7 DEF Cam
  <2> QED
    BY <2>1, <1>8, <1>9
<1>11. CASE turn.at = Cams
  <2>1. turns' = RemoveAt(turns, k)
    BY <1>1, <1>11
  <2>2. k = 1
    <3>1. ~(1 \in 1 .. (k - 1))
      <4> SUFFICES ASSUME 1 \in 1 .. (k - 1) PROVE FALSE
        OBVIOUS
      <4>1. turns[1].at > Cams /\ 1 \in 1 .. n
        BY <1>1, <1>3, <1>11
      <4> QED
        BY <4>1, <1>4, <1>5
    <3> QED
      BY <3>1, <1>3
  <2>3. /\ turns' \in Seq(TurnType) /\ Len(turns') = n - 1 /\ InTurn'
        /\ \A j \in 1 .. n - 1 : turns'[j] = IF j < k THEN turns[j] ELSE turns[j + 1]
    BY <2>1, WithoutTurn
  <2>4. FacingInv'
    <3> SUFFICES ASSUME ~mixed PROVE FacingInv'
      BY <1>1 DEF FacingInv
    <3>1. CASE n = 1
      <4>1. turns' = <<>>
        BY <2>3, <3>1
      <4>2. ASSUME NEW t \in Cam PROVE facing'[t] = wanted[t]
        <5>1. turn = last
          BY <2>2, <3>1
        <5>2. CASE t = turn.at
          BY <5>1, <5>2, <1>8, <1>9
        <5>3. CASE t # turn.at
          <6>1. t < last.at
            BY <5>1, <5>3, <1>11, <1>5 DEF Cam
          <6> QED
            BY <6>1, <1>10
        <5> QED
          BY <5>2, <5>3
      <4>3. facing' = wanted
        BY <4>2, <1>2, <1>8
      <4> QED
        BY <4>1, <4>3, <1>1 DEF FacingInv
    <3>2. CASE n # 1
      <4>1. n - 1 \in 1 .. n - 1 /\ ~(n - 1 < k) /\ (n - 1) + 1 = n
        BY <1>3, <2>2, <3>2
      <4>2. turns'[Len(turns')] = last /\ turns' # <<>>
        BY <4>1, <2>3
      <4>3. \A j \in DOMAIN turns' : ~turns'[j].toggle
        <5> TAKE j \in DOMAIN turns'
        <5>1. j \in 1 .. n - 1
          BY <2>3
        <5>2. \E i \in 1 .. n : turns'[j] = turns[i]
          <6>1. CASE j < k
            BY <6>1, <5>1, <2>3, <1>3
          <6>2. CASE ~(j < k)
            <7>1. j + 1 \in 1 .. n
              BY <5>1, <1>3
            <7> QED
              BY <6>2, <7>1, <5>1, <2>3
          <6> QED
            BY <6>1, <6>2
        <5> QED
          BY <5>2, <1>9, <3>2
      <4>4. ~last.toggle
        BY <1>9, <3>2
      <4>5. \A t \in Cam : wanted[t] = last.mode
        BY <1>9, <4>4
      <4> QED
        BY <4>2, <4>3, <4>4, <4>5, <1>1, <1>9, <1>10 DEF FacingInv
    <3> QED
      BY <3>1, <3>2
  <2> QED
    BY <1>1, <1>2, <1>8, <2>3, <2>4 DEF CameraOK
<1>12. CASE turn.at # Cams
  <2> DEFINE new == [turn EXCEPT !.at = @ + 1, !.next = ModeFor(turn.toggle, turn.mode, turn.at + 1)]
  <2>1. turns' = [turns EXCEPT ![k] = new]
    BY <1>1, <1>12
  <2>2. turn.at + 1 \in Cam /\ turn \in TurnType
    BY <1>12, <1>3, <1>4, <1>5 DEF Cam
  <2>3. /\ new \in TurnType /\ new.at = turn.at + 1 /\ new.toggle = turn.toggle
        /\ new.mode = turn.mode
        /\ new.next = IF turn.toggle THEN Flip(facing[turn.at + 1]) ELSE turn.mode
    <3>1. ModeFor(turn.toggle, turn.mode, turn.at + 1) \in Modes
      BY <2>2, <1>2, <1>3, <1>4, FlipOK DEF ModeFor
    <3> QED
      BY <2>2, <3>1 DEF TurnType, ModeFor
  <2> HIDE DEF new
  <2>4. /\ turns' \in Seq(TurnType) /\ Len(turns') = n /\ turns' # <<>>
        /\ turns'[k] = new /\ \A j \in 1 .. n : j # k => turns'[j] = turns[j]
    BY <2>1, <2>3, <1>2, <1>3
  <2>5. DOMAIN turns' = 1 .. n
    BY <2>4
  <2>6. InTurn'
    <3> SUFFICES ASSUME NEW i \in 1 .. n, NEW j \in 1 .. n, i < j
                 PROVE  turns'[j].at <= turns'[i].at
      BY <2>5 DEF InTurn
    <3>1. CASE j = k
      <4>1. i \in 1 .. (k - 1) /\ i # k
        BY <3>1
      <4>2. turns[i].at > turn.at
        BY <4>1, <1>1
      <4> QED
        BY <4>1, <4>2, <3>1, <2>3, <2>4, <1>3, <1>4
    <3>2. CASE i = k
      <4>1. turns[j].at <= turn.at /\ j # k
        BY <3>2, <1>6
      <4> QED
        BY <4>1, <3>2, <2>3, <2>4, <1>3, <1>4
    <3>3. CASE i # k /\ j # k
      BY <3>3, <2>4, <1>6
    <3> QED
      BY <3>1, <3>2, <3>3
  <2>7. \A j \in 1 .. n : turns'[j].toggle = turns[j].toggle
    BY <2>3, <2>4
  <2>8. FacingInv'
    <3> SUFFICES ASSUME ~mixed
                 PROVE  LET l == turns'[n] IN
                        /\ \A t \in Cam : t < l.at => facing'[t] = wanted[t]
                        /\ l.next = wanted[l.at]
                        /\ IF l.toggle
                           THEN n = 1 /\ \A t \in Cam : t >= l.at => wanted[t] = Flip(facing'[t])
                           ELSE \A t \in Cam : wanted[t] = l.mode
                        /\ \A j \in 1 .. n : turns'[j].toggle => n = 1
      BY <1>1, <2>4, <2>5 DEF FacingInv
    <3>1. \A j \in 1 .. n : turns'[j].toggle => n = 1
      BY <2>7, <1>9
    <3>2. CASE k # n
      <4>1. turns'[n] = last
        BY <3>2, <2>4, <1>3
      <4>2. n # 1
        BY <3>2, <1>3
      <4>3. ~last.toggle
        BY <4>2, <1>9, <1>3
      <4> QED
        BY <4>1, <4>3, <3>1, <1>9, <1>10
    <3>3. CASE k = n
      <4>1. turns'[n] = new /\ turn = last
        BY <3>3, <2>4
      <4>2. ASSUME NEW t \in Cam, t < new.at PROVE facing'[t] = wanted[t]
        <5>1. CASE t = turn.at
          BY <5>1, <4>1, <1>8, <1>9
        <5>2. CASE t # turn.at
          <6>1. t < last.at
            BY <5>2, <4>1, <4>2, <2>3, <1>3, <1>4 DEF Cam
          <6> QED
            BY <6>1, <1>10
        <5> QED
          BY <5>1, <5>2
      <4>3. ASSUME NEW t \in Cam, t >= new.at PROVE facing'[t] = facing[t] /\ t >= last.at
        <5>1. t # turn.at /\ t >= turn.at
          BY <4>3, <2>3, <1>3, <1>4 DEF Cam
        <5> QED
          BY <5>1, <4>1, <1>8
      <4>4. new.at >= new.at /\ new.at >= last.at
        BY <4>1, <2>3, <1>3, <1>4
      <4>5. CASE turn.toggle
        <5>1. \A t \in Cam : t >= last.at => wanted[t] = Flip(facing[t])
          BY <4>1, <4>5, <1>9
        <5>2. new.next = wanted[new.at]
          BY <4>4, <4>5, <5>1, <2>2, <2>3
        <5>3. \A t \in Cam : t >= new.at => wanted[t] = Flip(facing'[t])
          BY <4>3, <5>1
        <5>4. n = 1
          BY <4>1, <4>5, <1>9
        <5> QED
          BY <4>1, <4>2, <4>5, <5>2, <5>3, <5>4, <3>1, <2>3
      <4>6. CASE ~turn.toggle
        <5>1. \A t \in Cam : wanted[t] = turn.mode
          BY <4>1, <4>6, <1>9
        <5> QED
          BY <4>1, <4>2, <4>6, <5>1, <3>1, <2>2, <2>3
      <4> QED
        BY <4>5, <4>6, <1>3, <1>4
    <3> QED
      BY <3>2, <3>3
  <2> QED
    BY <1>1, <1>2, <1>8, <2>4, <2>6, <2>8 DEF CameraOK
<1> QED
  BY <1>11, <1>12

LEMMA ApplyFailsOK ==
  ASSUME CameraOK, NEW k \in DOMAIN turns, ApplyFails(k)
  PROVE  CameraOK'
<1>1. turns' = RemoveAt(turns, k) /\ mixed' = TRUE /\ facing' = facing /\ wanted' = wanted
  BY DEF ApplyFails
<1>2. turns' \in Seq(TurnType) /\ InTurn'
  BY <1>1, WithoutTurn
<1>3. FacingInv'
  BY <1>1 DEF FacingInv
<1> QED
  BY <1>1, <1>2, <1>3 DEF CameraOK

LEMMA DeviceInvNext == DeviceInv /\ [DeviceNext]_deviceVars => DeviceInv'
<1> SUFFICES ASSUME DeviceInv, [DeviceNext]_deviceVars PROVE DeviceInv'
  OBVIOUS
<1>1. ListsOK /\ CameraOK /\ HandAnnounced
  BY DEF DeviceInv
<1>2. UNCHANGED lists => ListsOK'
  BY <1>1 DEF lists, ListsOK, ListInv
<1>3. UNCHANGED camera => CameraOK'
  BY <1>1 DEF camera, CameraOK, InTurn, FacingInv
<1>4. UNCHANGED hand => HandAnnounced'
  BY <1>1 DEF hand, HandAnnounced
<1>5. CASE Plug
  <2>1. /\ plugged' \in SUBSET Dev /\ Query(listening) /\ listening' = listening /\ list' = list
        /\ UNCHANGED camera /\ UNCHANGED hand
    BY <1>1, <1>5 DEF Plug, ListsOK
  <2>2. ListsOK'
    BY <2>1, <1>1, QueryOK DEF ListsOK
  <2> QED
    BY <2>1, <2>2, <1>3, <1>4 DEF DeviceInv
<1>6. ASSUME NEW r \in Reader, listDevices(r) PROVE DeviceInv'
  <2>1. /\ plugged' = plugged /\ Query({r}) /\ listening' = listening /\ list' = list
        /\ UNCHANGED camera /\ UNCHANGED hand
    BY <1>6 DEF listDevices
  <2>2. plugged' \in SUBSET Dev /\ {r} \in SUBSET Reader
    BY <2>1, <1>1 DEF ListsOK
  <2>3. ListsOK'
    BY <2>1, <2>2, <1>1, QueryOK
  <2> QED
    BY <2>1, <2>3, <1>3, <1>4 DEF DeviceInv
<1>7. ASSUME NEW r \in Reader, dispose(r) PROVE DeviceInv'
  <2>1. /\ listening' = listening \ {r} /\ plugged' = plugged /\ queries' = queries
        /\ list' = list /\ late' = late /\ UNCHANGED camera /\ UNCHANGED hand
    BY <1>7 DEF dispose
  <2>2. ListsOK'
    BY <2>1, <1>1 DEF ListsOK, ListInv
  <2> QED
    BY <2>1, <2>2, <1>3, <1>4 DEF DeviceInv
<1>8. ASSUME NEW r \in Reader, NEW i \in DOMAIN queries[r], Found(r, i) \/ EnumerationFails(r, i)
      PROVE  DeviceInv'
  <2>1. UNCHANGED camera /\ UNCHANGED hand
    BY <1>8 DEF Found, EnumerationFails
  <2>2. ListsOK'
    BY <1>8, <1>1, AnswerOK
  <2> QED
    BY <2>1, <2>2, <1>3, <1>4 DEF DeviceInv
<1>9. ASSUME NEW toggle \in BOOLEAN, NEW mode \in Modes, Turn(toggle, mode) PROVE DeviceInv'
  <2>1. UNCHANGED lists /\ UNCHANGED hand
    BY <1>9 DEF Turn
  <2>2. CameraOK'
    BY <1>9, <1>1, TurnOK
  <2> QED
    BY <2>1, <2>2, <1>2, <1>4 DEF DeviceInv
<1>10. ASSUME NEW k \in DOMAIN turns, Applied(k) \/ ApplyFails(k) PROVE DeviceInv'
  <2>1. UNCHANGED lists /\ UNCHANGED hand
    BY <1>10 DEF Applied, ApplyFails
  <2>2. CameraOK'
    BY <1>10, <1>1, AppliedOK, ApplyFailsOK
  <2> QED
    BY <2>1, <2>2, <1>2, <1>4 DEF DeviceInv
<1>11. CASE raiseHand \/ Raised \/ ReactionFails \/ lowerHand \/ toggleHand
  <2>1. UNCHANGED lists /\ UNCHANGED camera
    BY <1>11 DEF raiseHand, Raised, ReactionFails, lowerHand, toggleHand
  <2>2. HandAnnounced'
    <3>1. \/ handRaised' = handRaised /\ told' = told
          \/ handRaised' = TRUE /\ told' = TRUE
          \/ handRaised' = FALSE
      BY <1>11 DEF raiseHand, Raised, ReactionFails, lowerHand, toggleHand, Raise, Lower
    <3> QED
      BY <3>1, <1>1 DEF HandAnnounced
  <2> QED
    BY <2>1, <2>2, <1>2, <1>3 DEF DeviceInv
<1>12. CASE UNCHANGED deviceVars
  <2>1. UNCHANGED lists /\ UNCHANGED camera /\ UNCHANGED hand
    BY <1>12 DEF deviceVars
  <2> QED
    BY <2>1, <1>2, <1>3, <1>4 DEF DeviceInv
<1>13. switchCamera \/ setFacingMode =>
         \E toggle \in BOOLEAN, mode \in Modes : Turn(toggle, mode)
  BY DEF switchCamera, setFacingMode, Modes
<1> QED
  BY <1>5, <1>6, <1>7, <1>8, <1>9, <1>10, <1>11, <1>12, <1>13 DEF DeviceNext

LEMMA DeviceInvImplies == DeviceInv => DevicesSettle
<1> SUFFICES ASSUME DeviceInv PROVE ListFresh /\ FacingInOrder /\ HandAnnounced
  BY DEF DevicesSettle
<1>1. ListFresh
  BY DEF DeviceInv, ListsOK, ListInv, ListFresh
<1>2. FacingInOrder
  BY DEF DeviceInv, CameraOK, FacingInv, FacingInOrder
<1> QED
  BY <1>1, <1>2 DEF DeviceInv

\* A reader that awaits nothing holds the devices there are, the cameras end facing as the calls
\* asked one after the other, and a hand shown as raised was told to the room (ControlsManager,
\* RoomDevicesFacade), outside the races ListFresh and FacingInOrder name: for every set of
\* devices, every number of cameras and of calls under way.
THEOREM DevicesEndAsAsked == PartsSpec => []DevicesSettle
<1>1. PartsInit => DeviceInv
  BY PartsSteps, DeviceInvInit
<1>2. DeviceInv /\ [PartsNext]_partsVars => DeviceInv'
  BY PartsSteps, DeviceInvNext
<1>3. DeviceInv => DevicesSettle
  BY DeviceInvImplies
<1> QED
  BY <1>1, <1>2, <1>3, PTL DEF PartsSpec

-----------------------------------------------------------------------------
(* The snapshots.                                                          *)

\* A listener that has yet to hear of the current snapshot is in the innermost loop.
Owed(l) == informed[l] = ref \/ (pass # <<>> /\ l \in Range(Head(pass)))
ToldInv == \A l \in Range(subs) : Owed(l)

StoreOK ==
  /\ ref \in Nat /\ informed \in [Listener -> Nat]
  /\ subs \in Seq(Listener) /\ pass \in Seq(Seq(Listener))
  /\ Fresh /\ ToldInv

Published == [at : {"live"}, track : Nat, muted : BOOLEAN]
SwapType == [at : {"media", "replace"}, todo : SUBSET Conn, new : Nat, old : SUBSET Nat,
         live : BOOLEAN]

\* A track is enabled, ended, published and sent only once it is acquired.
TrackOK ==
  /\ used \in Nat /\ on \subseteq 1 .. used /\ ended \subseteq 1 .. used
  /\ send \in [Conn -> 0 .. used] /\ raced \in BOOLEAN
  /\ pub = None \/ (pub \in Published /\ pub.track \in 1 .. used)
  /\ swap = NoSwap \/ (swap \in SwapType /\ swap.old \subseteq 1 .. used)
  /\ swap.at = "replace" => swap.new \in 1 .. used

\* The published track is live, enabled exactly when it is not muted, and what every peer is sent.
Kept ==
  /\ pub.track \notin ended /\ (pub.track \in on <=> ~pub.muted)
  /\ \A c \in Conn : send[c] \in {0, pub.track}

\* A swap that waits for the new track, and one that replaces the old track sender by sender.
Waiting ==
  /\ Kept /\ swap.old = {pub.track} /\ (swap.live <=> pub.track \in on)
  /\ swap.todo = {c \in Conn : send[c] # 0} /\ swap.todo # {}
Replacing ==
  \E was \in 1 .. used :
    /\ swap.old = {was} /\ was # swap.new
    /\ swap.new \in 1 .. used /\ swap.new \notin ended /\ (swap.new \in on <=> ~pub.muted)
    /\ \A c \in Conn : IF c \in swap.todo THEN send[c] = was ELSE send[c] \in {0, swap.new}
    /\ \/ pub.track = swap.new
       \/ /\ pub.track = was /\ swap.todo # {}
          /\ \A c \in Conn \ swap.todo : send[c] = 0

\* Unless muting, publishing or a peer crosses a swap.
SwapInv ==
  ~raced =>
    /\ swap = NoSwap /\ pub # None => Kept
    /\ swap # NoSwap => pub # None
    /\ swap.at = "media" => Waiting
    /\ swap.at = "replace" => Replacing

ViewInv == StoreOK /\ TrackOK /\ SwapInv

LEMMA SnapshotSame ==
  ASSUME life' = life, rem' = rem, meta' = meta, level' = level, pub' = pub
  PROVE  buildSnapshot' = buildSnapshot
BY DEF buildSnapshot, Status

\* What happens to a sequence of listeners.
LEMMA ListenersOK ==
  ASSUME NEW s \in Seq(Listener)
  PROVE  /\ \A l \in Range(s) : l \in Listener
         /\ s # <<>> => /\ Head(s) \in Listener /\ Tail(s) \in Seq(Listener)
                        /\ \A l \in Range(s) : l = Head(s) \/ l \in Range(Tail(s))
         /\ \A l \in Listener : Append(s, l) \in Seq(Listener)
                                /\ Range(Append(s, l)) = Range(s) \cup {l}
         /\ \A l : Contains(s, l) <=> l \in Range(s)
<1>1. \A l \in Range(s) : l \in Listener
  BY DEF Range
<1>2. ASSUME s # <<>>
      PROVE  /\ Head(s) \in Listener /\ Tail(s) \in Seq(Listener)
             /\ \A l \in Range(s) : l = Head(s) \/ l \in Range(Tail(s))
  <2>1. Head(s) \in Listener /\ Tail(s) \in Seq(Listener) /\ Len(Tail(s)) = Len(s) - 1
        /\ \A i \in 1 .. Len(s) - 1 : Tail(s)[i] = s[i + 1]
    BY <1>2
  <2>2. ASSUME NEW l \in Range(s) PROVE l = Head(s) \/ l \in Range(Tail(s))
    <3>1. PICK i \in 1 .. Len(s) : l = s[i]
      BY DEF Range
    <3>2. CASE i = 1
      BY <3>1, <3>2, <1>2
    <3>3. CASE i # 1
      <4>1. i - 1 \in 1 .. Len(s) - 1 /\ (i - 1) + 1 = i
        BY <3>3
      <4>2. Tail(s)[i - 1] = l
        BY <4>1, <3>1, <2>1
      <4>3. i - 1 \in DOMAIN Tail(s)
        BY <4>1, <2>1
      <4> QED
        BY <4>2, <4>3 DEF Range
    <3> QED
      BY <3>2, <3>3
  <2> QED
    BY <2>1, <2>2
<1>3. ASSUME NEW l \in Listener
      PROVE  Append(s, l) \in Seq(Listener) /\ Range(Append(s, l)) = Range(s) \cup {l}
  <2>1. /\ Append(s, l) \in Seq(Listener) /\ Len(Append(s, l)) = Len(s) + 1
        /\ \A i \in 1 .. Len(s) : Append(s, l)[i] = s[i]
        /\ Append(s, l)[Len(s) + 1] = l
    OBVIOUS
  <2>2. DOMAIN Append(s, l) = 1 .. Len(s) + 1 /\ DOMAIN s = 1 .. Len(s) /\ Len(s) \in Nat
    BY <2>1
  <2>3. ASSUME NEW x \in Range(Append(s, l)) PROVE x \in Range(s) \cup {l}
    <3>1. PICK i \in 1 .. Len(s) + 1 : x = Append(s, l)[i]
      BY <2>2 DEF Range
    <3>2. i \in 1 .. Len(s) \/ i = Len(s) + 1
      BY <2>2
    <3> QED
      BY <3>1, <3>2, <2>1, <2>2 DEF Range
  <2>4. ASSUME NEW x \in Range(s) \cup {l} PROVE x \in Range(Append(s, l))
    <3>1. CASE x = l
      <4>1. Len(s) + 1 \in DOMAIN Append(s, l)
        BY <2>2
      <4> QED
        BY <3>1, <4>1, <2>1 DEF Range
    <3>2. CASE x \in Range(s)
      <4>1. PICK i \in 1 .. Len(s) : x = s[i]
        BY <3>2, <2>2 DEF Range
      <4>2. i \in DOMAIN Append(s, l) /\ Append(s, l)[i] = x
        BY <4>1, <2>1, <2>2
      <4> QED
        BY <4>2 DEF Range
    <3> QED
      BY <3>1, <3>2
  <2> QED
    BY <2>1, <2>3, <2>4
<1>4. \A l : Contains(s, l) <=> l \in Range(s)
  BY DEF Contains, Range
<1> QED
  BY <1>1, <1>2, <1>3, <1>4

LEMMA SubsWithoutOK ==
  ASSUME NEW l, subs \in Seq(Listener)
  PROVE  SubsWithout(l) \in Seq(Listener) /\ Range(SubsWithout(l)) \subseteq Range(subs)
<1>1. CASE Contains(subs, l)
  <2> DEFINE i == CHOOSE j \in DOMAIN subs : subs[j] = l
  <2>1. i \in DOMAIN subs /\ SubsWithout(l) = RemoveAt(subs, i)
    <3>1. \E j \in DOMAIN subs : subs[j] = l
      BY <1>1 DEF Contains
    <3> QED
      BY <1>1, <3>1 DEF SubsWithout
  <2> HIDE DEF i
  <2>2. /\ RemoveAt(subs, i) \in Seq(Listener) /\ Len(RemoveAt(subs, i)) = Len(subs) - 1
        /\ \A j \in 1 .. Len(subs) - 1 :
             RemoveAt(subs, i)[j] = IF j < i THEN subs[j] ELSE subs[j + 1]
    BY <2>1, RemoveAtOK
  <2>3. ASSUME NEW x \in Range(RemoveAt(subs, i)) PROVE x \in Range(subs)
    <3>1. PICK j \in 1 .. Len(subs) - 1 : x = RemoveAt(subs, i)[j]
      BY <2>2 DEF Range
    <3>2. j \in DOMAIN subs /\ j + 1 \in DOMAIN subs
      OBVIOUS
    <3> QED
      BY <3>1, <3>2, <2>2 DEF Range
  <2> QED
    BY <2>1, <2>2, <2>3
<1>2. CASE ~Contains(subs, l)
  BY <1>2 DEF SubsWithout
<1> QED
  BY <1>1, <1>2

\* The loops under way when one more begins, or one has been to its next listener.
LEMMA PassOK ==
  ASSUME NEW p \in Seq(Seq(Listener)), NEW s \in Seq(Listener)
  PROVE  /\ <<s>> \o p \in Seq(Seq(Listener)) /\ <<s>> \o p # <<>> /\ Head(<<s>> \o p) = s
         /\ p # <<>> => Head(p) \in Seq(Listener) /\ Tail(p) \in Seq(Seq(Listener))
<1>1. <<s>> \in Seq(Seq(Listener)) /\ Len(<<s>>) = 1 /\ <<s>>[1] = s
  OBVIOUS
<1>2. <<s>> \o p \in Seq(Seq(Listener)) /\ Len(<<s>> \o p) = Len(p) + 1
  BY <1>1
<1>3. <<s>> \o p # <<>> /\ Head(<<s>> \o p) = s
  BY <1>1, <1>2
<1>4. p # <<>> => Head(p) \in Seq(Listener) /\ Tail(p) \in Seq(Seq(Listener))
  OBVIOUS
<1> QED
  BY <1>2, <1>3, <1>4

\* A snapshot is built anew.
LEMMA RefreshOK ==
  ASSUME StoreOK, subs' = subs, informed' = informed, refreshSnapshot
  PROVE  StoreOK'
<1>1. \/ snap = buildSnapshot' /\ snap' = snap /\ ref' = ref /\ pass' = pass
      \/ snap' = buildSnapshot' /\ ref' = ref + 1 /\ pass' = <<subs>> \o pass
  BY DEF refreshSnapshot, roomSnapshotsEqual
<1>2. Fresh'
  BY <1>1 DEF Fresh
<1>3. ref' \in Nat /\ pass' \in Seq(Seq(Listener))
  <2>1. ref \in Nat /\ subs \in Seq(Listener) /\ pass \in Seq(Seq(Listener))
    BY DEF StoreOK
  <2>2. <<subs>> \o pass \in Seq(Seq(Listener))
    BY <2>1, PassOK
  <2>3. CASE ref' = ref /\ pass' = pass
    BY <2>3, <2>1
  <2>4. CASE ref' = ref + 1 /\ pass' = <<subs>> \o pass
    <3>1. ref' \in Nat
      BY <2>4, <2>1
    <3>2. pass' \in Seq(Seq(Listener))
      BY <2>4, <2>2
    <3> QED
      BY <3>1, <3>2
  <2> QED
    BY <1>1, <2>3, <2>4
<1>4. ToldInv'
  <2> SUFFICES ASSUME NEW l \in Range(subs)
               PROVE  informed[l] = ref' \/ (pass' # <<>> /\ l \in Range(Head(pass')))
    BY DEF ToldInv, Owed
  <2>1. CASE ref' = ref /\ pass' = pass
    BY <2>1 DEF StoreOK, ToldInv, Owed
  <2>2. CASE pass' = <<subs>> \o pass
    BY <2>2, PassOK DEF StoreOK
  <2> QED
    BY <1>1, <2>1, <2>2
<1> QED
  BY <1>2, <1>3, <1>4 DEF StoreOK

LEMMA InvalidateOK ==
  ASSUME StoreOK, subs' = subs, informed' = informed, invalidateSnapshot
  PROVE  StoreOK'
<1>1. CASE subs = <<>>
  BY <1>1 DEF invalidateSnapshot, StoreOK, ToldInv, Owed, Fresh
<1>2. CASE subs # <<>>
  BY <1>2, RefreshOK DEF invalidateSnapshot
<1> QED
  BY <1>1, <1>2

\* A change that fires no event.
LEMMA SilentOK ==
  ASSUME StoreOK, snap' = snap, ref' = ref, dirty' = dirty, subs' = subs, pass' = pass,
         informed' = informed,
         silent' = TRUE \/ (silent' = silent /\ buildSnapshot' = buildSnapshot)
  PROVE  StoreOK'
<1>1. Fresh'
  BY DEF StoreOK, Fresh
<1>2. ToldInv'
  BY DEF StoreOK, ToldInv, Owed
<1> QED
  BY <1>1, <1>2 DEF StoreOK

LEMMA SubscribeOK ==
  ASSUME StoreOK, NEW l \in Listener, Subscribe(l)
  PROVE  StoreOK'
<1>1. /\ buildSnapshot' = buildSnapshot /\ snap' = snap /\ ref' = ref /\ dirty' = dirty
      /\ pass' = pass /\ silent' = silent
  <2>1. life' = life /\ rem' = rem /\ meta' = meta /\ level' = level /\ pub' = pub
    BY DEF Subscribe, local
  <2> QED
    BY <2>1, SnapshotSame DEF Subscribe
<1>2. Fresh'
  BY <1>1 DEF StoreOK, Fresh
<1>3. /\ subs \in Seq(Listener) /\ informed \in [Listener -> Nat] /\ ref \in Nat
      /\ \A x \in Range(subs) : Owed(x)
  BY DEF StoreOK, ToldInv
<1>4. CASE subscribe(l)
  <2>1. /\ informed' = [informed EXCEPT ![l] = ref]
        /\ subs' = subs \/ subs' = Append(subs, l)
    BY <1>4 DEF subscribe
  <2>2. subs' \in Seq(Listener) /\ Range(subs') \subseteq Range(subs) \cup {l}
    BY <2>1, <1>3, ListenersOK
  <2>3. informed' \in [Listener -> Nat] /\ \A x \in Listener : informed'[x] \in {informed[x], ref}
        /\ informed'[l] = ref
    BY <2>1, <1>3
  <2>4. ToldInv'
    <3> SUFFICES ASSUME NEW x \in Range(subs')
                 PROVE  informed'[x] = ref \/ (pass # <<>> /\ x \in Range(Head(pass)))
      BY <1>1 DEF ToldInv, Owed
    <3>1. CASE x = l
      BY <3>1, <2>3
    <3>2. CASE x \in Range(subs)
      <4>1. x \in Listener
        BY <3>2, <1>3, ListenersOK
      <4> QED
        BY <3>2, <4>1, <2>3, <1>3 DEF Owed
    <3> QED
      BY <3>1, <3>2, <2>2
  <2> QED
    BY <1>1, <1>2, <2>2, <2>3, <2>4 DEF StoreOK
<1>5. CASE unsubscribe(l)
  <2>1. subs' = SubsWithout(l) /\ informed' = informed
    BY <1>5 DEF unsubscribe
  <2>2. subs' \in Seq(Listener) /\ Range(subs') \subseteq Range(subs)
    BY <2>1, <1>3, SubsWithoutOK
  <2>3. ToldInv'
    BY <2>1, <2>2, <1>1, <1>3 DEF ToldInv, Owed
  <2> QED
    BY <1>1, <1>2, <2>1, <2>2, <2>3 DEF StoreOK
<1> QED
  BY <1>4, <1>5 DEF Subscribe

\* A listener is called, and may change the store or the room.
LEMMA NotifyOK == StoreOK /\ Notify => StoreOK'
<1> SUFFICES ASSUME StoreOK, Notify PROVE StoreOK'
  OBVIOUS
<1> DEFINE l == Head(Head(pass))
           rest == <<Tail(Head(pass))>> \o Tail(pass)
<1>1. /\ pass \in Seq(Seq(Listener)) /\ subs \in Seq(Listener) /\ informed \in [Listener -> Nat]
      /\ ref \in Nat /\ \A x \in Range(subs) : Owed(x)
  BY DEF StoreOK, ToldInv
<1>2. pass # <<>> /\ Head(pass) # <<>>
  BY DEF Notify
<1>3. Head(pass) \in Seq(Listener) /\ Tail(pass) \in Seq(Seq(Listener))
  <2>1. <<>> \in Seq(Listener)
    OBVIOUS
  <2> QED
    BY <2>1, <1>1, <1>2, PassOK
<1>4. /\ l \in Listener /\ Tail(Head(pass)) \in Seq(Listener)
      /\ \A x \in Range(Head(pass)) : x = l \/ x \in Range(Tail(Head(pass)))
  BY <1>2, <1>3, ListenersOK
<1>5. rest \in Seq(Seq(Listener)) /\ rest # <<>> /\ Head(rest) = Tail(Head(pass))
  BY <1>3, <1>4, PassOK
<1>6. \A x \in Range(subs) : x \in Listener /\ (x = l \/ informed[x] = ref \/ x \in Range(Head(rest)))
  <2> TAKE x \in Range(subs)
  <2>1. x \in Listener
    BY <1>1, ListenersOK
  <2>2. informed[x] = ref \/ x \in Range(Head(pass))
    BY <1>1 DEF Owed
  <2> QED
    BY <2>1, <2>2, <1>4, <1>5
<1>7. /\ life' = life /\ rem' = rem /\ level' = level /\ pub' = pub
      /\ \/ /\ informed' = [informed EXCEPT ![l] = ref] /\ pass' = rest
            /\ UNCHANGED <<meta, subs, snap, ref, dirty, silent>>
         \/ /\ pass' = rest /\ UNCHANGED <<meta, snap, ref, dirty, silent>>
            /\ \E k \in Listener : \/ subs' = SubsWithout(k)
                                   \/ ~Contains(subs, k) /\ subs' = Append(subs, k)
            /\ informed' = [k \in Listener |-> IF k = l \/ ~Contains(subs, k)
                                               THEN ref ELSE informed[k]]
         \/ /\ informed' = [informed EXCEPT ![l] = ref] /\ subs' = subs
            /\ \/ subs = <<>> /\ dirty' = TRUE /\ pass' = rest /\ ref' = ref
               \/ snap' = buildSnapshot' /\ ref' = ref + 1 /\ pass' = <<subs>> \o rest
  BY DEF Notify, local
<1> HIDE DEF l, rest
<1>8. CASE /\ informed' = [informed EXCEPT ![l] = ref] /\ pass' = rest
           /\ UNCHANGED <<meta, subs, snap, ref, dirty, silent>>
  <2>1. Fresh'
    <3>1. buildSnapshot' = buildSnapshot
      BY <1>7, <1>8, SnapshotSame
    <3> QED
      BY <3>1, <1>8 DEF StoreOK, Fresh
  <2>2. ToldInv'
    BY <1>1, <1>4, <1>5, <1>6, <1>8 DEF ToldInv, Owed
  <2> QED
    BY <2>1, <2>2, <1>1, <1>4, <1>5, <1>8 DEF StoreOK
<1>9. CASE /\ pass' = rest /\ UNCHANGED <<meta, snap, ref, dirty, silent>>
           /\ \E k \in Listener : \/ subs' = SubsWithout(k)
                                  \/ ~Contains(subs, k) /\ subs' = Append(subs, k)
           /\ informed' = [k \in Listener |-> IF k = l \/ ~Contains(subs, k)
                                              THEN ref ELSE informed[k]]
  <2>1. Fresh'
    <3>1. buildSnapshot' = buildSnapshot
      BY <1>7, <1>9, SnapshotSame
    <3> QED
      BY <3>1, <1>9 DEF StoreOK, Fresh
  <2>2. informed' \in [Listener -> Nat]
    BY <1>1, <1>9
  <2>3. PICK k \in Listener : subs' = SubsWithout(k) \/ (~Contains(subs, k) /\ subs' = Append(subs, k))
    BY <1>9
  <2>4. /\ subs' \in Seq(Listener)
        /\ \A x \in Range(subs') : x \in Listener /\ (x \in Range(subs) \/ ~Contains(subs, x))
    <3>1. CASE subs' = SubsWithout(k)
      BY <3>1, <1>1, SubsWithoutOK, ListenersOK
    <3>2. CASE ~Contains(subs, k) /\ subs' = Append(subs, k)
      BY <3>2, <1>1, ListenersOK
    <3> QED
      BY <2>3, <3>1, <3>2
  <2>5. ToldInv'
    <3> SUFFICES ASSUME NEW x \in Range(subs')
                 PROVE  informed'[x] = ref \/ x \in Range(Head(rest))
      BY <1>5, <1>9 DEF ToldInv, Owed
    <3>1. x \in Listener /\ (x \in Range(subs) \/ ~Contains(subs, x))
      BY <2>4
    <3>2. informed'[x] = IF x = l \/ ~Contains(subs, x) THEN ref ELSE informed[x]
      BY <3>1, <1>9
    <3> QED
      BY <3>1, <3>2, <1>6
  <2> QED
    BY <2>1, <2>2, <2>4, <2>5, <1>1, <1>5, <1>9 DEF StoreOK
<1>10. CASE /\ informed' = [informed EXCEPT ![l] = ref] /\ subs' = subs
            /\ subs = <<>> /\ dirty' = TRUE /\ pass' = rest /\ ref' = ref
  <2>1. Fresh' /\ Range(subs') = {}
    BY <1>10 DEF Fresh, Range
  <2>2. ToldInv'
    BY <2>1 DEF ToldInv
  <2> QED
    BY <2>1, <2>2, <1>1, <1>4, <1>5, <1>10 DEF StoreOK
<1>11. CASE /\ informed' = [informed EXCEPT ![l] = ref] /\ subs' = subs
            /\ snap' = buildSnapshot' /\ ref' = ref + 1 /\ pass' = <<subs>> \o rest
  <2>1. Fresh'
    BY <1>11 DEF Fresh
  <2>2. pass' \in Seq(Seq(Listener)) /\ pass' # <<>> /\ Head(pass') = subs
    BY <1>11, <1>1, <1>5, PassOK
  <2>3. ToldInv'
    BY <2>2, <1>11 DEF ToldInv, Owed
  <2> QED
    BY <2>1, <2>2, <2>3, <1>1, <1>4, <1>11 DEF StoreOK
<1> QED
  BY <1>7, <1>8, <1>9, <1>10, <1>11

LEMMA LoopEndsOK == StoreOK /\ LoopEnds => StoreOK'
<1> SUFFICES ASSUME StoreOK, LoopEnds PROVE StoreOK'
  OBVIOUS
<1>1. /\ pass # <<>> /\ Head(pass) = <<>> /\ pass' = Tail(pass)
      /\ UNCHANGED <<subs, informed, snap, ref, dirty, silent>>
      /\ buildSnapshot' = buildSnapshot
  <2>1. life' = life /\ rem' = rem /\ meta' = meta /\ level' = level /\ pub' = pub
    BY DEF LoopEnds, local
  <2> QED
    BY <2>1, SnapshotSame DEF LoopEnds
<1>2. pass' \in Seq(Seq(Listener))
  BY <1>1 DEF StoreOK
<1>3. Fresh'
  BY <1>1 DEF StoreOK, Fresh
<1>4. ToldInv'
  <2> SUFFICES ASSUME NEW x \in Range(subs) PROVE informed[x] = ref
    BY <1>1 DEF ToldInv, Owed
  <2>1. Owed(x)
    BY DEF StoreOK, ToldInv
  <2> QED
    BY <2>1, <1>1 DEF Owed, Range
<1> QED
  BY <1>1, <1>2, <1>3, <1>4 DEF StoreOK

-----------------------------------------------------------------------------
(* The local track and restartTrack.                                       *)

LEMMA TrackFields ==
  ASSUME TrackOK
  PROVE  /\ pub # None => /\ pub \in Published /\ pub.track \in 1 .. used /\ pub.at = "live"
                          /\ pub.track \in Nat /\ pub.track # 0 /\ pub.muted \in BOOLEAN
         /\ swap # NoSwap => /\ swap \in SwapType /\ swap.at \in {"media", "replace"}
                             /\ swap.todo \subseteq Conn /\ swap.new \in Nat
                             /\ swap.old \subseteq 1 .. used /\ swap.live \in BOOLEAN
         /\ swap.at \in {"media", "replace"} => swap # NoSwap
BY DEF TrackOK, Published, SwapType, NoSwap

\* Nothing of the track changes.
LEMMA LocalSame ==
  ASSUME TrackOK, SwapInv, UNCHANGED local
  PROVE  TrackOK' /\ SwapInv'
<1>1. /\ pub' = pub /\ on' = on /\ ended' = ended /\ send' = send /\ used' = used
      /\ swap' = swap /\ raced' = raced
  BY DEF local
<1> QED
  BY <1>1 DEF TrackOK, SwapInv, Kept, Waiting, Replacing

\* While a track is swapped, other changes of it are a race.
LEMMA RaceOK ==
  ASSUME TrackOK', raced' = (raced \/ swap # NoSwap), swap' = swap, TrackOK,
         ~raced /\ swap = NoSwap /\ pub' # None => Kept'
  PROVE  SwapInv'
<1> SUFFICES ASSUME ~raced' PROVE SwapInv'
  BY DEF SwapInv
<1>1. ~raced /\ swap = NoSwap /\ swap' = NoSwap
  BY DEF TrackOK
<1>2. NoSwap.at = "idle"
  BY DEF NoSwap
<1> QED
  BY <1>1, <1>2 DEF SwapInv

LEMMA PublishTrack == TrackOK /\ SwapInv /\ publish => TrackOK' /\ SwapInv'
<1> SUFFICES ASSUME TrackOK, SwapInv, publish PROVE TrackOK' /\ SwapInv'
  OBVIOUS
<1>1. /\ used' = used + 1 /\ on' = on \cup {used'}
      /\ pub' = [at |-> "live", track |-> used', muted |-> FALSE]
      /\ send' = [c \in Conn |-> IF send[c] = 0 THEN 0 ELSE used']
      /\ raced' = (raced \/ swap # NoSwap) /\ ended' = ended /\ swap' = swap
  BY DEF publish, Racing
<1>2. used \in Nat /\ used' \in 1 .. used' /\ used' \in 0 .. used' /\ 0 \in 0 .. used'
      /\ 1 .. used \subseteq 1 .. used' /\ used' \notin 1 .. used
  BY <1>1 DEF TrackOK
<1>3. /\ pub' \in Published /\ pub'.track = used' /\ pub'.muted = FALSE
  BY <1>1, <1>2 DEF Published
<1>4. TrackOK'
  <2>1. on' \subseteq 1 .. used' /\ ended' \subseteq 1 .. used' /\ used' \in Nat
    BY <1>1, <1>2 DEF TrackOK
  <2>2. send' \in [Conn -> 0 .. used'] /\ raced' \in BOOLEAN
    BY <1>1, <1>2 DEF TrackOK
  <2>3. /\ swap' = NoSwap \/ (swap' \in SwapType /\ swap'.old \subseteq 1 .. used')
        /\ swap'.at = "replace" => swap'.new \in 1 .. used'
    BY <1>1, <1>2 DEF TrackOK
  <2> QED
    BY <2>1, <2>2, <2>3, <1>1, <1>2, <1>3 DEF TrackOK
<1>5. Kept'
  BY <1>1, <1>2, <1>3 DEF Kept, TrackOK
<1> QED
  BY <1>1, <1>4, <1>5, RaceOK

LEMMA UnpublishTrack == TrackOK /\ SwapInv /\ unpublish => TrackOK' /\ SwapInv'
<1> SUFFICES ASSUME TrackOK, SwapInv, unpublish PROVE TrackOK' /\ SwapInv'
  OBVIOUS
<1>1. /\ pub # None /\ pub' = None /\ send' = [c \in Conn |-> 0]
      /\ ended' = ended \cup {pub.track} /\ raced' = (raced \/ swap # NoSwap)
      /\ on' = on /\ used' = used /\ swap' = swap
  BY DEF unpublish, Racing
<1>2. pub.track \in 1 .. used /\ used \in Nat /\ 0 \in 0 .. used
  BY <1>1, TrackFields DEF TrackOK
<1>3. TrackOK'
  <2>1. send' \in [Conn -> 0 .. used'] /\ raced' \in BOOLEAN
    BY <1>1, <1>2 DEF TrackOK
  <2> QED
    BY <2>1, <1>1, <1>2 DEF TrackOK
<1> QED
  BY <1>1, <1>3, RaceOK

LEMMA PeerTrack ==
  ASSUME TrackOK, SwapInv, NEW c \in Conn, ensurePeer(c)
  PROVE  TrackOK' /\ SwapInv'
<1>1. /\ pub # None /\ send' = [send EXCEPT ![c] = IF @ = 0 THEN pub.track ELSE 0]
      /\ raced' = (raced \/ swap # NoSwap)
      /\ pub' = pub /\ on' = on /\ ended' = ended /\ used' = used /\ swap' = swap
  BY DEF ensurePeer, Racing
<1>2. pub.track \in 0 .. used /\ used \in Nat /\ 0 \in 0 .. used
  BY <1>1, TrackFields DEF TrackOK
<1>3. send' \in [Conn -> 0 .. used'] /\ raced' \in BOOLEAN
      /\ \A b \in Conn : send'[b] \in {0, pub.track, send[b]}
  BY <1>1, <1>2 DEF TrackOK
<1>4. TrackOK'
  BY <1>1, <1>3 DEF TrackOK
<1>5. ASSUME ~raced, swap = NoSwap PROVE Kept'
  <2>1. Kept
    BY <1>1, <1>5 DEF SwapInv
  <2> QED
    BY <2>1, <1>1, <1>3 DEF Kept
<1> QED
  BY <1>1, <1>4, <1>5, RaceOK

LEMMA MuteTrack == TrackOK /\ SwapInv /\ setMuted => TrackOK' /\ SwapInv'
<1> SUFFICES ASSUME TrackOK, SwapInv, setMuted PROVE TrackOK' /\ SwapInv'
  OBVIOUS
<1>1. /\ pub # None /\ pub' = [pub EXCEPT !.muted = ~@]
      /\ on' = IF pub.muted THEN on \cup {pub.track} ELSE on \ {pub.track}
      /\ raced' = (raced \/ swap # NoSwap)
      /\ ended' = ended /\ send' = send /\ used' = used /\ swap' = swap
  BY DEF setMuted, Racing
<1>2. /\ pub \in Published /\ pub.track \in 1 .. used /\ pub.muted \in BOOLEAN
  BY <1>1, TrackFields
<1>3. /\ pub' \in Published /\ pub'.track = pub.track /\ (pub'.muted <=> ~pub.muted)
  BY <1>1, <1>2 DEF Published
<1>4. TrackOK'
  <2>1. on' \subseteq 1 .. used' /\ raced' \in BOOLEAN
    BY <1>1, <1>2 DEF TrackOK
  <2> QED
    BY <2>1, <1>1, <1>2, <1>3 DEF TrackOK
<1>5. ASSUME ~raced, swap = NoSwap PROVE Kept'
  <2>1. Kept
    BY <1>1, <1>5 DEF SwapInv
  <2>2. pub'.track \in on' <=> ~pub'.muted
    BY <1>1, <1>2, <1>3
  <2> QED
    BY <2>1, <2>2, <1>1, <1>3 DEF Kept
<1> QED
  BY <1>1, <1>4, <1>5, RaceOK

LEMMA RestartTrack == TrackOK /\ SwapInv /\ restartTrack => TrackOK' /\ SwapInv'
<1> SUFFICES ASSUME TrackOK, SwapInv, restartTrack PROVE TrackOK' /\ SwapInv'
  OBVIOUS
<1> DEFINE todo == {c \in Conn : send[c] # 0}
           new == [at |-> "media", todo |-> todo, new |-> 0, old |-> {send[c] : c \in todo},
                   live |-> \A c \in todo : send[c] \in on]
<1>1. /\ swap = NoSwap /\ todo # {} /\ swap' = new
      /\ raced' = (raced \/ pub = None)
      /\ pub' = pub /\ on' = on /\ ended' = ended /\ send' = send /\ used' = used
  BY DEF restartTrack
<1>2. {send[c] : c \in todo} \subseteq Nat
  BY DEF TrackOK
<1>3. /\ swap' \in SwapType /\ swap'.at = "media" /\ swap'.todo = todo
      /\ swap'.old = {send[c] : c \in todo}
      /\ (swap'.live <=> \A c \in todo : send[c] \in on)
  <2>1. (\A c \in todo : send[c] \in on) \in BOOLEAN
    OBVIOUS
  <2> HIDE DEF todo
  <2> QED
    BY <1>1, <1>2, <2>1 DEF SwapType, todo
<1>4. TrackOK'
  <2>1. swap'.old \subseteq 1 .. used
    BY <1>3 DEF TrackOK
  <2> QED
    BY <2>1, <1>1, <1>3 DEF TrackOK
<1>5. ASSUME ~raced' PROVE Waiting'
  <2>1. Kept /\ pub # None
    BY <1>1, <1>5 DEF SwapInv, TrackOK
  <2>2. \A c \in todo : send[c] = pub.track
    BY <2>1 DEF Kept
  <2>3. swap'.old = {pub.track} /\ (swap'.live <=> pub.track \in on)
    BY <1>1, <1>3, <2>2
  <2>4. Kept'
    BY <2>1, <1>1 DEF Kept
  <2> QED
    BY <2>3, <2>4, <1>1, <1>3 DEF Waiting
<1>6. swap' # NoSwap /\ (~raced' => pub' # None)
  BY <1>1, <1>3 DEF NoSwap, TrackOK
<1> QED
  BY <1>3, <1>4, <1>5, <1>6 DEF SwapInv

LEMMA AcquiredTrack == TrackOK /\ SwapInv /\ Acquired => TrackOK' /\ SwapInv'
<1> SUFFICES ASSUME TrackOK, SwapInv, Acquired PROVE TrackOK' /\ SwapInv'
  OBVIOUS
<1>1. /\ swap.at = "media" /\ used' = used + 1
      /\ on' = IF swap.live THEN on \cup {used'} ELSE on
      /\ swap' = [swap EXCEPT !.at = "replace", !.new = used']
      /\ pub' = pub /\ ended' = ended /\ send' = send /\ raced' = raced
  BY DEF Acquired
<1>2. swap \in SwapType
  BY <1>1, TrackFields
<1>3. /\ used \in Nat /\ used' \in Nat /\ used' \in 1 .. used' /\ 1 .. used \subseteq 1 .. used'
      /\ 0 .. used \subseteq 0 .. used' /\ used' \notin 1 .. used
  BY <1>1 DEF TrackOK
<1>4. /\ swap' \in SwapType /\ swap'.at = "replace" /\ swap'.new = used' /\ swap'.todo = swap.todo
      /\ swap'.old = swap.old
  BY <1>1, <1>2, <1>3 DEF SwapType
<1>5. TrackOK'
  <2>1. on' \subseteq 1 .. used' /\ ended' \subseteq 1 .. used'
    BY <1>1, <1>3 DEF TrackOK
  <2>2. send' \in [Conn -> 0 .. used']
    BY <1>1, <1>3 DEF TrackOK
  <2>3. swap'.old \subseteq 1 .. used' /\ swap'.new \in 1 .. used'
    BY <1>1, <1>3, <1>4, TrackFields
  <2>4. pub' = None \/ (pub' \in Published /\ pub'.track \in 1 .. used')
    BY <1>1, <1>3 DEF TrackOK
  <2>5. raced' \in BOOLEAN
    BY <1>1 DEF TrackOK
  <2> QED
    BY <2>1, <2>2, <2>3, <2>4, <2>5, <1>3, <1>4 DEF TrackOK
<1>6. ASSUME ~raced PROVE Replacing' /\ pub # None
  <2>1. Waiting /\ pub # None
    BY <1>1, <1>6, TrackFields DEF SwapInv
  <2>2. pub.track \in 1 .. used /\ pub.track \in 1 .. used' /\ pub.track # used'
    BY <2>1, <1>3, TrackFields
  <2>3. used' \notin ended /\ (used' \in on' <=> ~pub.muted)
    BY <2>1, <1>1, <1>3 DEF TrackOK, Waiting, Kept
  <2>4. \A c \in Conn : IF c \in swap.todo THEN send[c] = pub.track ELSE send[c] = 0
    BY <2>1 DEF Waiting, Kept
  <2>5. swap.old = {pub.track} /\ swap.todo # {}
    BY <2>1 DEF Waiting
  <2> QED
    BY <2>1, <2>2, <2>3, <2>4, <2>5, <1>1, <1>3, <1>4 DEF Replacing
<1>7. swap' # NoSwap
  BY <1>4 DEF NoSwap
<1> QED
  BY <1>1, <1>4, <1>5, <1>6, <1>7 DEF SwapInv

\* Without a race no sender is empty that has still to be replaced.
LEMMA SendersThere ==
  ASSUME SwapInv, ~raced, swap.at = "replace", NEW c \in swap.todo, c \in Conn
  PROVE  send[c] # 0
<1>1. Replacing
  BY DEF SwapInv
<1>2. PICK was \in 1 .. used :
        \A b \in Conn : IF b \in swap.todo THEN send[b] = was ELSE send[b] \in {0, swap.new}
  BY <1>1 DEF Replacing
<1> QED
  BY <1>2

LEMMA FailsTrack == TrackOK /\ SwapInv /\ RestartFails => TrackOK' /\ SwapInv'
<1> SUFFICES ASSUME TrackOK, SwapInv, RestartFails PROVE TrackOK' /\ SwapInv'
  OBVIOUS
<1>1. /\ swap.at = "media" \/ (swap.at = "replace" /\ \E c \in swap.todo : send[c] = 0)
      /\ swap' = NoSwap
      /\ pub' = pub /\ on' = on /\ ended' = ended /\ send' = send /\ used' = used
      /\ raced' = raced
  BY DEF RestartFails
<1>2. NoSwap.at = "idle"
  BY DEF NoSwap
<1>3. TrackOK'
  BY <1>1, <1>2 DEF TrackOK
<1>4. ASSUME ~raced PROVE Kept'
  <2>1. swap.at = "media"
    <3> SUFFICES ASSUME swap.at = "replace", NEW c \in swap.todo, send[c] = 0 PROVE FALSE
      BY <1>1
    <3>1. c \in Conn
      BY TrackFields
    <3> QED
      BY <3>1, <1>4, SendersThere
  <2>2. Kept
    BY <2>1, <1>4 DEF SwapInv, Waiting
  <2> QED
    BY <2>2, <1>1 DEF Kept
<1> QED
  BY <1>1, <1>3, <1>4, <1>2 DEF SwapInv

LEMMA SkippedTrack ==
  ASSUME TrackOK, SwapInv, NEW c \in Conn, Skipped(c)
  PROVE  TrackOK' /\ SwapInv'
<1>1. /\ swap.at = "replace" /\ c \in swap.todo /\ send[c] = 0
      /\ swap' = [swap EXCEPT !.todo = @ \ {c}]
      /\ pub' = pub /\ on' = on /\ ended' = ended /\ send' = send /\ used' = used
      /\ raced' = raced
  BY DEF Skipped
<1>2. swap \in SwapType
  BY <1>1, TrackFields
<1>3. swap' \in SwapType /\ swap'.old = swap.old /\ swap'.new = swap.new
  BY <1>1, <1>2 DEF SwapType
<1>4. TrackOK'
  BY <1>1, <1>3, TrackFields DEF TrackOK
<1>5. raced
  <2> SUFFICES ASSUME ~raced PROVE FALSE
    BY DEF TrackOK
  <2> QED
    BY <1>1, SendersThere
<1> QED
  BY <1>1, <1>4, <1>5 DEF SwapInv

LEMMA ReplacedTrack ==
  ASSUME TrackOK, SwapInv, NEW c \in Conn, Replaced(c)
  PROVE  TrackOK' /\ SwapInv'
<1>1. /\ swap.at = "replace" /\ c \in swap.todo /\ send[c] # 0
      /\ send' = [send EXCEPT ![c] = swap.new]
      /\ pub' = IF pub # None /\ pub.track = send[c] THEN [pub EXCEPT !.track = swap.new] ELSE pub
      /\ swap' = [swap EXCEPT !.todo = @ \ {c}]
      /\ on' = on /\ ended' = ended /\ used' = used /\ raced' = raced
  BY DEF Replaced
<1>2. swap \in SwapType
  BY <1>1, TrackFields
<1>3. /\ swap' \in SwapType /\ swap'.at = "replace" /\ swap'.new = swap.new
      /\ swap'.todo = swap.todo \ {c} /\ swap'.old = swap.old
  BY <1>1, <1>2 DEF SwapType
<1>4. swap.new \in 1 .. used /\ used \in Nat
  BY <1>1 DEF TrackOK
<1>5. pub # None => \A n \in 1 .. used : /\ [pub EXCEPT !.track = n] \in Published
                                         /\ [pub EXCEPT !.track = n].track = n
                                         /\ [pub EXCEPT !.track = n].muted = pub.muted
  <2> SUFFICES ASSUME pub # None, NEW n \in 1 .. used
               PROVE  /\ [pub EXCEPT !.track = n] \in Published
                      /\ [pub EXCEPT !.track = n].track = n
                      /\ [pub EXCEPT !.track = n].muted = pub.muted
    OBVIOUS
  <2>1. pub \in Published /\ n \in Nat
    BY TrackFields
  <2> QED
    BY <2>1 DEF Published
<1>6. send' \in [Conn -> 0 .. used] /\ send'[c] = swap.new
      /\ \A b \in Conn \ {c} : send'[b] = send[b]
  <2>1. send \in [Conn -> 0 .. used] /\ swap.new \in 0 .. used
    BY <1>4 DEF TrackOK
  <2> QED
    BY <2>1, <1>1
<1>7. TrackOK'
  <2>1. pub' = None \/ (pub' \in Published /\ pub'.track \in 1 .. used)
    <3>1. CASE pub # None /\ pub.track = send[c]
      BY <3>1, <1>1, <1>4, <1>5
    <3>2. CASE ~(pub # None /\ pub.track = send[c])
      BY <3>2, <1>1 DEF TrackOK
    <3> QED
      BY <3>1, <3>2
  <2>2. swap'.old \subseteq 1 .. used
    BY <1>1, <1>3, TrackFields
  <2> QED
    BY <2>1, <2>2, <1>1, <1>3, <1>4, <1>6 DEF TrackOK
<1>8. ASSUME ~raced PROVE Replacing' /\ pub' # None
  <2>1. Replacing /\ pub # None
    BY <1>1, <1>8, TrackFields DEF SwapInv
  <2>2. PICK was \in 1 .. used :
          /\ swap.old = {was} /\ was # swap.new
          /\ swap.new \notin ended /\ (swap.new \in on <=> ~pub.muted)
          /\ \A b \in Conn : IF b \in swap.todo THEN send[b] = was ELSE send[b] \in {0, swap.new}
          /\ pub.track = swap.new \/ pub.track = was
    BY <2>1 DEF Replacing
  <2>3. send[c] = was
    BY <2>2, <1>1
  <2>4. pub' # None /\ pub'.track = swap.new /\ pub'.muted = pub.muted
    <3>1. CASE pub.track = was
      <4>1. pub' = [pub EXCEPT !.track = swap.new]
        BY <3>1, <2>1, <2>3, <1>1
      <4> QED
        BY <4>1, <2>1, <1>4, <1>5 DEF Published, None
    <3>2. CASE pub.track = swap.new
      BY <3>2, <2>1, <2>2, <2>3, <1>1
    <3> QED
      BY <2>2, <3>1, <3>2
  <2>5. \A b \in Conn : IF b \in swap'.todo THEN send'[b] = was ELSE send'[b] \in {0, swap.new}
    BY <1>3, <1>6, <2>2
  <2> QED
    BY <2>2, <2>4, <2>5, <1>1, <1>3, <1>4 DEF Replacing
<1>9. swap' # NoSwap
  BY <1>3 DEF NoSwap
<1> QED
  BY <1>1, <1>3, <1>7, <1>8, <1>9 DEF SwapInv

LEMMA RestartedTrack == TrackOK /\ SwapInv /\ Restarted => TrackOK' /\ SwapInv'
<1> SUFFICES ASSUME TrackOK, SwapInv, Restarted PROVE TrackOK' /\ SwapInv'
  OBVIOUS
<1>1. /\ swap.at = "replace" /\ swap.todo = {} /\ swap' = NoSwap
      /\ ended' = ended \cup (swap.old \ {swap.new})
      /\ pub' = pub /\ on' = on /\ send' = send /\ used' = used /\ raced' = raced
  BY DEF Restarted
<1>2. NoSwap.at = "idle"
  BY DEF NoSwap
<1>3. TrackOK'
  <2>1. ended' \subseteq 1 .. used
    BY <1>1, TrackFields DEF TrackOK
  <2> QED
    BY <2>1, <1>1, <1>2 DEF TrackOK
<1>4. ASSUME ~raced PROVE Kept'
  <2>1. Replacing
    BY <1>1, <1>4 DEF SwapInv
  <2>2. /\ pub.track = swap.new /\ pub.track \notin ended /\ (pub.track \in on <=> ~pub.muted)
        /\ \A c \in Conn : send[c] \in {0, pub.track}
    BY <2>1, <1>1 DEF Replacing
  <2> QED
    BY <2>2, <1>1 DEF Kept
<1> QED
  BY <1>1, <1>2, <1>3, <1>4 DEF SwapInv

-----------------------------------------------------------------------------
(* The room as the application sees it.                                    *)

LEMMA ViewInvInit == ViewInit => ViewInv
<1> SUFFICES ASSUME ViewInit PROVE ViewInv
  OBVIOUS
<1>1. Range(subs) = {}
  BY DEF ViewInit, Range
<1>2. StoreOK
  <2>1. ref \in Nat /\ informed \in [Listener -> Nat]
    BY DEF ViewInit
  <2>2. subs \in Seq(Listener) /\ pass \in Seq(Seq(Listener))
    BY DEF ViewInit
  <2>3. Fresh
    BY DEF ViewInit, Fresh
  <2> QED
    BY <2>1, <2>2, <2>3, <1>1 DEF StoreOK, ToldInv
<1>3. TrackOK
  <2>1. used = 0 /\ on = {} /\ ended = {} /\ pub = None /\ swap = NoSwap /\ raced = FALSE
        /\ send = [c \in Conn |-> 0]
    BY DEF ViewInit
  <2>2. send \in [Conn -> 0 .. used]
    BY <2>1
  <2> QED
    BY <2>1, <2>2 DEF TrackOK, NoSwap
<1>4. SwapInv
  BY DEF SwapInv, ViewInit, NoSwap
<1> QED
  BY <1>2, <1>3, <1>4 DEF ViewInv

\* An event that leaves the local track alone: the store is told of it.
LEMMA EventOK ==
  ASSUME ViewInv, UNCHANGED <<local, subs, informed>>, invalidateSnapshot
  PROVE  ViewInv'
<1>1. StoreOK /\ TrackOK /\ SwapInv
  BY DEF ViewInv
<1>2. UNCHANGED local /\ subs' = subs /\ informed' = informed
  OBVIOUS
<1>3. StoreOK'
  BY <1>1, <1>2, InvalidateOK
<1>4. TrackOK' /\ SwapInv'
  BY <1>1, <1>2, LocalSame
<1> QED
  BY <1>3, <1>4 DEF ViewInv

\* A step of a swap, of which the store is not told.
LEMMA UntoldOK ==
  ASSUME ViewInv, UNCHANGED <<life, rem, meta, level, store>>, pub' = pub
  PROVE  StoreOK'
<1>1. StoreOK /\ buildSnapshot' = buildSnapshot
  BY SnapshotSame DEF ViewInv
<1> QED
  BY <1>1, SilentOK DEF store

LEMMA ViewInvNext == ViewInv /\ [ViewNext]_viewVars => ViewInv'
<1> SUFFICES ASSUME ViewInv, [ViewNext]_viewVars PROVE ViewInv'
  OBVIOUS
<1>1. StoreOK /\ TrackOK /\ SwapInv
  BY DEF ViewInv
<1>2. CASE UNCHANGED viewVars
  <2>1. StoreOK'
    BY <1>2, UntoldOK DEF viewVars, store
  <2>2. TrackOK' /\ SwapInv'
    BY <1>1, <1>2, LocalSame DEF viewVars, local
  <2> QED
    BY <2>1, <2>2 DEF ViewInv
<1>3. CASE getSnapshot
  <2>1. subs' = subs /\ informed' = informed /\ UNCHANGED local /\ refreshSnapshot
    BY <1>3 DEF getSnapshot
  <2>2. StoreOK'
    BY <2>1, <1>1, RefreshOK
  <2>3. TrackOK' /\ SwapInv'
    BY <2>1, <1>1, LocalSame
  <2> QED
    BY <2>2, <2>3 DEF ViewInv
<1>4. CASE Notify
  <2>1. StoreOK'
    BY <1>1, <1>4, NotifyOK
  <2>2. UNCHANGED local
    BY <1>4 DEF Notify
  <2> QED
    BY <2>1, <2>2, <1>1, LocalSame DEF ViewInv
<1>5. CASE LoopEnds
  <2>1. StoreOK'
    BY <1>1, <1>5, LoopEndsOK
  <2>2. UNCHANGED local
    BY <1>5 DEF LoopEnds
  <2> QED
    BY <2>1, <2>2, <1>1, LocalSame DEF ViewInv
<1>6. ASSUME NEW l \in Listener, Subscribe(l) PROVE ViewInv'
  <2>1. StoreOK'
    BY <1>1, <1>6, SubscribeOK
  <2>2. UNCHANGED local
    BY <1>6 DEF Subscribe
  <2> QED
    BY <2>1, <2>2, <1>1, LocalSame DEF ViewInv
<1>7. ASSUME NEW p \in Remote,
             \/ handleRemoteJoin(p) \/ handleRemoteLeave(p) \/ handlePresence(p)
             \/ onConnectionState(p) \/ handleRemoteTrack(p)
      PROVE  ViewInv'
  <2>1. \E rem1 : Room(rem1)
    BY <1>7 DEF handleRemoteJoin, handleRemoteLeave, handlePresence, onConnectionState,
                handleRemoteTrack
  <2>2. UNCHANGED <<local, subs, informed>> /\ invalidateSnapshot
    BY <2>1 DEF Room
  <2> QED
    BY <2>2, EventOK
<1>8. CASE Lifecycle \/ setPresence \/ qualityChanged \/ devicesChanged
  <2>1. UNCHANGED <<local, subs, informed>> /\ invalidateSnapshot
    BY <1>8 DEF Lifecycle, setPresence, qualityChanged, devicesChanged
  <2> QED
    BY <2>1, EventOK
<1>9. CASE publish
  <2>1. subs' = subs /\ informed' = informed /\ invalidateSnapshot
    BY <1>9 DEF publish
  <2>2. StoreOK'
    BY <2>1, <1>1, InvalidateOK
  <2> QED
    BY <2>2, <1>1, <1>9, PublishTrack DEF ViewInv
<1>10. CASE unpublish
  <2>1. subs' = subs /\ informed' = informed /\ invalidateSnapshot
    BY <1>10 DEF unpublish
  <2>2. StoreOK'
    BY <2>1, <1>1, InvalidateOK
  <2> QED
    BY <2>2, <1>1, <1>10, UnpublishTrack DEF ViewInv
<1>11. CASE setMuted
  <2>1. snap' = snap /\ ref' = ref /\ dirty' = dirty /\ subs' = subs /\ pass' = pass
        /\ informed' = informed /\ silent' = TRUE
    BY <1>11 DEF setMuted
  <2>2. StoreOK'
    BY <2>1, <1>1, SilentOK
  <2> QED
    BY <2>2, <1>1, <1>11, MuteTrack DEF ViewInv
<1>12. CASE restartTrack
  <2>1. StoreOK'
    BY <1>12, UntoldOK DEF restartTrack
  <2> QED
    BY <2>1, <1>1, <1>12, RestartTrack DEF ViewInv
<1>13. CASE Acquired
  <2>1. StoreOK'
    BY <1>13, UntoldOK DEF Acquired
  <2> QED
    BY <2>1, <1>1, <1>13, AcquiredTrack DEF ViewInv
<1>14. CASE RestartFails
  <2>1. StoreOK'
    BY <1>14, UntoldOK DEF RestartFails
  <2> QED
    BY <2>1, <1>1, <1>14, FailsTrack DEF ViewInv
<1>15. CASE Restarted
  <2>1. StoreOK'
    BY <1>15, UntoldOK DEF Restarted
  <2> QED
    BY <2>1, <1>1, <1>15, RestartedTrack DEF ViewInv
<1>16. ASSUME NEW c \in Conn, ensurePeer(c) PROVE ViewInv'
  <2>1. StoreOK'
    BY <1>16, UntoldOK DEF ensurePeer
  <2> QED
    BY <2>1, <1>1, <1>16, PeerTrack DEF ViewInv
<1>17. ASSUME NEW c \in Conn, Replaced(c) PROVE ViewInv'
  <2>1. /\ snap' = snap /\ ref' = ref /\ dirty' = dirty /\ subs' = subs /\ pass' = pass
        /\ informed' = informed
        /\ life' = life /\ rem' = rem /\ meta' = meta /\ level' = level
        /\ silent' = TRUE \/ (silent' = silent /\ pub' = pub)
    BY <1>17 DEF Replaced
  <2>2. StoreOK'
    BY <2>1, <1>1, SilentOK, SnapshotSame
  <2> QED
    BY <2>2, <1>1, <1>17, ReplacedTrack DEF ViewInv
<1>18. ASSUME NEW c \in Conn, Skipped(c) PROVE ViewInv'
  <2>1. StoreOK'
    BY <1>18, UntoldOK DEF Skipped
  <2> QED
    BY <2>1, <1>1, <1>18, SkippedTrack DEF ViewInv
<1> QED
  BY <1>2, <1>3, <1>4, <1>5, <1>6, <1>7, <1>8, <1>9, <1>10, <1>11, <1>12, <1>13, <1>14, <1>15,
     <1>16, <1>17, <1>18 DEF ViewNext

LEMMA ViewInvImplies == ViewInv => SnapshotTrue
<1> SUFFICES ASSUME ViewInv PROVE SnapshotTrue
  OBVIOUS
<1>1. Fresh
  BY DEF ViewInv, StoreOK
<1>2. Told
  BY DEF ViewInv, StoreOK, ToldInv, Owed, Told
<1>3. SwapKept
  BY DEF ViewInv, SwapInv, Kept, SwapKept
<1> QED
  BY <1>1, <1>2, <1>3 DEF SnapshotTrue

(***************************************************************************)
(* What an application reads of a Room is the live state but for mutes and *)
(* track swaps since; every subscribed listener has been called with the   *)
(* current snapshot when no notify loop runs, whatever listeners throw or  *)
(* change while they are called; and after restartTrack the published      *)
(* track is live, enabled as it is muted and what every peer is sent,      *)
(* unless a mute, a publication or a peer crossed the swap (room.ts,       *)
(* DevicesFacade.restartTrack).                                            *)
(***************************************************************************)
THEOREM SnapshotTold == PartsSpec => []SnapshotTrue
<1>1. PartsInit => ViewInv
  BY PartsSteps, ViewInvInit
<1>2. ViewInv /\ [PartsNext]_partsVars => ViewInv'
  BY PartsSteps, ViewInvNext
<1> QED
  BY <1>1, <1>2, ViewInvImplies, PTL DEF PartsSpec

-----------------------------------------------------------------------------
(* The local media.                                                        *)

Source == Device \cup {"screen"}
Op == {"start", "share", "switch", "stop", "unshare"}
Place == {"apply", "acquire", "publish", "swap", "remove", "announce", "restored"}
Task == [id : Nat, op : Op, src : Source, at : Place,
         new : Nat, old : Nat, shown : Nat, pub : Nat, was : BOOLEAN,
         seen : SUBSET Party, todo : SUBSET Party]
Publication == [src : Source \cup {"none"}, track : Nat, muted : BOOLEAN]

MediaTypeOK ==
  /\ mutedFlag \in [Device -> BOOLEAN] /\ pubs \in [TrackId -> Publication]
  /\ listed \in Seq(TrackId) /\ kinds \in Seq(Source)
  /\ live \subseteq DOMAIN kinds /\ enabled \subseteq DOMAIN kinds
  /\ present \subseteq Party /\ acts \in Nat
  /\ races \in [late : SUBSET Device, clash : SUBSET Source, overlap : BOOLEAN,
                swapped : BOOLEAN, gone : SUBSET Nat, came : SUBSET Party]
  /\ screen \in [flag : BOOLEAN, mode : {"none", "separate", "replace"}, track : Nat, pub : Nat]

\* A call has a track of the source it is for.
New(k) == k.new \in DOMAIN kinds /\ kinds[k.new] = k.src

\* The calls there are, and where each may be.
TaskOK(k) ==
  /\ k \in Task
  /\ \/ k.op = "start" /\ k.src \in Device /\ k.at \in {"acquire", "publish"}
     \/ k.op = "share" /\ k.src = "screen" /\ k.at \in {"acquire", "publish", "swap"}
     \/ k.op = "switch" /\ k.src \in Device /\ k.at \in {"apply", "acquire", "swap"}
     \/ k.op = "stop" /\ k.src \in Device /\ k.at \in {"swap", "remove", "announce", "restored"}
     \/ k.op = "unshare" /\ k.src = "screen" /\ k.at \in {"swap", "remove", "announce"}
  /\ k.op \in {"switch", "stop"} => k.pub \in TrackId /\ pubs[k.pub].src = k.src
  /\ k.at = "publish" => New(k) /\ k.new \in TrackId /\ pubs[k.new].src = "none"
  /\ k.op = "switch" /\ k.at = "swap" => New(k)

\* Calls publish tracks of their own; a publication has a track of its source.
PubsOK ==
  /\ \A j, k \in tasks : j.at = "publish" /\ k.at = "publish" /\ j.new = k.new => j = k
  /\ \A i \in TrackId : pubs[i].src # "none" =>
       /\ i \in DOMAIN kinds
       /\ pubs[i].track \in DOMAIN kinds /\ kinds[pubs[i].track] = pubs[i].src
  /\ \A i \in Range(listed) : pubs[i].src # "none"
  /\ screen.pub # 0 => screen.pub \in TrackId /\ pubs[screen.pub].src = "screen"

\* Track t is on its way into, or out of, the publication a call is at work on.
Has(k, t) ==
  \/ k.at = "publish" /\ k.new = t
  \/ k.op = "switch" /\ k.at = "swap" /\ k.new = t
  \/ k.op = "stop" /\ k.at = "remove" /\ k.old = t

\* While its calls do not overlap a device has one call and one publication at most, and each
\* live track of it is published or in the hands of the call.
Single(s) ==
  /\ \A j, k \in tasks : j.src = s /\ k.src = s => j = k
  /\ \A i, j \in Range(listed) : pubs[i].src = s /\ pubs[j].src = s => i = j
InHand(s) ==
  \A k \in tasks : k.src = s =>
    /\ k.op = "start" => \A i \in Range(listed) : pubs[i].src # s
    /\ k.op = "switch" => k.pub \in Range(listed) /\ pubs[k.pub].track = k.old
    /\ k.op = "stop" => IF k.at = "remove" THEN k.old = pubs[k.pub].track
                        ELSE k.pub \in Range(listed)
Captured(s) ==
  \A t \in live : kinds[t] = s =>
    \/ \E i \in Range(listed) : pubs[i].src = s /\ pubs[i].track = t
    \/ \E k \in tasks : k.src = s /\ Has(k, t)

\* While the flag does not change under a call: what is published, or is going to be, has it.
AsFlagged(s) ==
  /\ \A i \in Range(listed) : pubs[i].src = s =>
       (pubs[i].muted <=> mutedFlag[s]) /\ (pubs[i].track \in enabled <=> ~mutedFlag[s])
  /\ \A k \in tasks : k.src = s =>
       /\ k.at = "publish" => (k.new \in enabled <=> ~mutedFlag[s])
       /\ k.op = "switch" => (k.was <=> mutedFlag[s])

DeviceOK(s) ==
  /\ Single(s) /\ InHand(s) /\ Captured(s)
  /\ s \notin races.late => AsFlagged(s)

MediaInv ==
  /\ MediaTypeOK /\ (\A k \in tasks : TaskOK(k)) /\ PubsOK
  /\ \A s \in Device \ races.clash : DeviceOK(s)

\* The smallest of a set of numbers.
LEMMA MinOK ==
  ASSUME NEW S \in SUBSET Nat, S # {}
  PROVE  Min(S) \in S
<1> DEFINE less == OpToRel(<, Nat)
<1>1. \A x, y \in Nat : <<y, x>> \in less <=> y < x
  BY DEF OpToRel
<1>2. IsWellFoundedOn(less, Nat)
  BY NatLessThanWellFounded, Zenon
<1> HIDE DEF less
<1>3. PICK x \in S : \A y \in S : ~(<<y, x>> \in less)
  BY <1>2, WFMin
<1>4. ASSUME NEW y \in S PROVE x <= y
  <2>1. x \in Nat /\ y \in Nat /\ ~(<<y, x>> \in less)
    BY <1>3
  <2>2. ~(y < x)
    BY <1>1, <2>1, Zenon
  <2> QED
    BY <2>1, <2>2
<1> QED
  BY <1>4 DEF Min

LEMMA FindOK ==
  ASSUME MediaTypeOK, PubsOK, NEW s
  PROVE  \/ Find(s) = 0 /\ \A i \in Range(listed) : pubs[i].src # s
         \/ /\ Find(s) # 0 /\ Find(s) \in Range(listed) /\ Find(s) \in TrackId
            /\ pubs[Find(s)].src = s
<1> DEFINE of == {n \in DOMAIN listed : pubs[listed[n]].src = s /\ pubs[listed[n]].track # 0}
<1>1. Find(s) = IF of = {} THEN 0 ELSE listed[Min(of)]
  BY DEF Find
<1>2. listed \in Seq(TrackId) /\ of \subseteq DOMAIN listed /\ of \in SUBSET Nat
  BY DEF MediaTypeOK
<1>3. CASE of = {}
  <2> SUFFICES ASSUME NEW i \in Range(listed), pubs[i].src = s PROVE FALSE
    BY <1>1, <1>3
  <2>1. PICK n \in DOMAIN listed : listed[n] = i
    BY DEF Range
  <2>2. i \in TrackId /\ pubs[i].track \in DOMAIN kinds /\ kinds \in Seq(Source)
    BY <2>1, <1>2 DEF PubsOK, MediaTypeOK
  <2>3. pubs[i].track # 0
    BY <2>2
  <2> QED
    BY <2>1, <2>3, <1>3
<1>4. CASE of # {}
  <2>1. Min(of) \in of
    BY <1>2, <1>4, MinOK
  <2>2. Find(s) = listed[Min(of)] /\ Min(of) \in DOMAIN listed /\ pubs[listed[Min(of)]].src = s
    BY <1>1, <1>4, <2>1
  <2>3. Find(s) \in Range(listed) /\ Find(s) \in TrackId /\ pubs[Find(s)].src = s
    <3> DEFINE n == Min(of)
    <3>1. n \in DOMAIN listed /\ Find(s) = listed[n] /\ pubs[listed[n]].src = s
      BY <2>2
    <3> HIDE DEF n, of
    <3>2. listed[n] \in TrackId /\ listed[n] \in Range(listed)
      BY <1>2, <3>1 DEF Range
    <3> QED
      BY <3>1, <3>2
  <2>4. Find(s) # 0
    BY <2>3, MediaAssumption DEF TrackId
  <2> QED
    BY <2>3, <2>4
<1> QED
  BY <1>3, <1>4

LEMMA ListWithoutOK ==
  ASSUME NEW i, listed \in Seq(TrackId)
  PROVE  /\ ListWithout(i) \in Seq(TrackId)
         /\ Range(ListWithout(i)) \subseteq Range(listed)
         /\ \A j \in Range(listed) : j # i => j \in Range(ListWithout(i))
<1>1. CASE Contains(listed, i)
  <2> DEFINE n == CHOOSE m \in DOMAIN listed : listed[m] = i
  <2>1. n \in DOMAIN listed /\ listed[n] = i /\ ListWithout(i) = RemoveAt(listed, n)
    <3>1. \E m \in DOMAIN listed : listed[m] = i
      BY <1>1 DEF Contains
    <3> QED
      BY <1>1, <3>1 DEF ListWithout
  <2> HIDE DEF n
  <2>2. /\ RemoveAt(listed, n) \in Seq(TrackId) /\ Len(RemoveAt(listed, n)) = Len(listed) - 1
        /\ \A m \in 1 .. Len(listed) - 1 :
             RemoveAt(listed, n)[m] = IF m < n THEN listed[m] ELSE listed[m + 1]
    BY <2>1, RemoveAtOK
  <2>3. ASSUME NEW x \in Range(RemoveAt(listed, n)) PROVE x \in Range(listed)
    <3>1. PICK m \in 1 .. Len(listed) - 1 : x = RemoveAt(listed, n)[m]
      BY <2>2 DEF Range
    <3>2. m \in DOMAIN listed /\ m + 1 \in DOMAIN listed
      OBVIOUS
    <3> QED
      BY <3>1, <3>2, <2>2 DEF Range
  <2>4. ASSUME NEW x \in Range(listed), x # i PROVE x \in Range(RemoveAt(listed, n))
    <3>1. PICK m \in 1 .. Len(listed) : x = listed[m]
      BY DEF Range
    <3>2. DOMAIN RemoveAt(listed, n) = 1 .. Len(listed) - 1 /\ n \in 1 .. Len(listed) /\ m # n
      BY <2>1, <2>2, <2>4, <3>1
    <3>3. CASE m < n
      <4>1. m \in 1 .. Len(listed) - 1
        BY <3>2, <3>3
      <4> QED
        BY <4>1, <3>1, <3>2, <3>3, <2>2 DEF Range
    <3>4. CASE m > n
      <4>1. m - 1 \in 1 .. Len(listed) - 1 /\ ~(m - 1 < n) /\ (m - 1) + 1 = m
        BY <3>2, <3>4
      <4> QED
        BY <4>1, <3>1, <3>2, <2>2 DEF Range
    <3> QED
      BY <3>2, <3>3, <3>4
  <2> QED
    BY <2>1, <2>2, <2>3, <2>4
<1>2. CASE ~Contains(listed, i)
  BY <1>2 DEF ListWithout
<1> QED
  BY <1>1, <1>2

LEMMA AppendListed ==
  ASSUME NEW i \in TrackId, listed \in Seq(TrackId)
  PROVE  Append(listed, i) \in Seq(TrackId) /\ Range(Append(listed, i)) = Range(listed) \cup {i}
<1>1. /\ Append(listed, i) \in Seq(TrackId) /\ Len(Append(listed, i)) = Len(listed) + 1
      /\ \A n \in 1 .. Len(listed) : Append(listed, i)[n] = listed[n]
      /\ Append(listed, i)[Len(listed) + 1] = i
  OBVIOUS
<1>2. DOMAIN Append(listed, i) = 1 .. Len(listed) + 1 /\ DOMAIN listed = 1 .. Len(listed)
      /\ Len(listed) \in Nat
  BY <1>1
<1>3. ASSUME NEW x \in Range(Append(listed, i)) PROVE x \in Range(listed) \cup {i}
  <2>1. PICK n \in 1 .. Len(listed) + 1 : x = Append(listed, i)[n]
    BY <1>2 DEF Range
  <2>2. n \in 1 .. Len(listed) \/ n = Len(listed) + 1
    BY <1>2
  <2> QED
    BY <2>1, <2>2, <1>1, <1>2 DEF Range
<1>4. ASSUME NEW x \in Range(listed) PROVE x \in Range(Append(listed, i))
  <2>1. PICK n \in 1 .. Len(listed) : x = listed[n]
    BY <1>2 DEF Range
  <2>2. n \in DOMAIN Append(listed, i) /\ Append(listed, i)[n] = x
    BY <2>1, <1>1, <1>2
  <2> QED
    BY <2>2 DEF Range
<1>5. i \in Range(Append(listed, i))
  <2>1. Len(listed) + 1 \in DOMAIN Append(listed, i)
    BY <1>2
  <2> QED
    BY <2>1, <1>1 DEF Range
<1> QED
  BY <1>1, <1>3, <1>4, <1>5

\* A call is where it was, and the publication and the tracks it is at work on too.
LEMMA TaskKept ==
  ASSUME NEW k, TaskOK(k),
         \A t \in DOMAIN kinds : t \in DOMAIN kinds' /\ kinds'[t] = kinds[t],
         \A i \in TrackId : pubs'[i].src = pubs[i].src
                            \/ (pubs[i].src = "none" /\ ~(k.at = "publish" /\ k.new = i))
  PROVE  TaskOK(k)'
<1>1. New(k) => New(k)'
  BY DEF New
<1>2. k.op \in {"switch", "stop"} => k.src # "none"
  BY DEF TaskOK, Device
<1> QED
  BY <1>1, <1>2 DEF TaskOK

\* What no call and no publication depends on may change.
Fixed == mutedFlag' = mutedFlag /\ pubs' = pubs /\ kinds' = kinds /\ enabled' = enabled

LEMMA IdleOK ==
  ASSUME MediaInv, MediaTypeOK', Fixed, tasks' = tasks, listed' = listed, live' \subseteq live,
         races'.late = races.late, races'.clash = races.clash, screen'.pub = screen.pub
  PROVE  MediaInv'
<1>1. mutedFlag' = mutedFlag /\ pubs' = pubs /\ kinds' = kinds /\ enabled' = enabled
  BY DEF Fixed
<1>2. \A k \in tasks' : TaskOK(k)'
  BY <1>1, TaskKept DEF MediaInv
<1>3. PubsOK'
  BY <1>1 DEF MediaInv, PubsOK
<1>4. ASSUME NEW s \in Device \ races'.clash PROVE DeviceOK(s)'
  <2>1. DeviceOK(s)
    BY <1>4 DEF MediaInv
  <2>2. Single(s)' /\ InHand(s)'
    BY <1>1, <2>1 DEF DeviceOK, Single, InHand
  <2>3. Captured(s)'
    BY <1>1, <2>1 DEF DeviceOK, Captured, Has
  <2>4. s \notin races.late => AsFlagged(s)'
    BY <1>1, <2>1 DEF DeviceOK, AsFlagged
  <2> QED
    BY <2>2, <2>3, <2>4 DEF DeviceOK
<1> QED
  BY <1>2, <1>3, <1>4 DEF MediaInv

\* A call goes a step on.
LEMMA BecomeOK ==
  ASSUME MediaInv, MediaTypeOK', Fixed, NEW k \in tasks, NEW next, Become(k, next),
         TaskOK(next), next.src = k.src, next.op = k.op, next.pub = k.pub, next.new = k.new,
         next.old = k.old, next.was = k.was,
         \/ next.at = k.at
         \/ next.at = "acquire" /\ k.at = "apply"
         \/ next.at \in {"announce", "restored"}
            /\ (k.op = "unshare" \/ (k.op = "stop" /\ k.at # "remove")),
         listed' = listed, live' \subseteq live,
         races'.late = races.late, races'.clash = races.clash, screen'.pub = screen.pub
  PROVE  MediaInv'
<1>1. /\ mutedFlag' = mutedFlag /\ pubs' = pubs /\ kinds' = kinds /\ enabled' = enabled
      /\ tasks' = (tasks \ {k}) \cup {next}
  BY DEF Fixed, Become
<1>2. \A j \in tasks' : TaskOK(j)'
  <2> TAKE j \in tasks'
  <2>1. TaskOK(j)
    BY <1>1 DEF MediaInv
  <2> QED
    BY <1>1, <2>1, TaskKept
<1>3. PubsOK'
  <2>1. ASSUME NEW i \in tasks', NEW j \in tasks', i.at = "publish", j.at = "publish",
               i.new = j.new
        PROVE  i = j
    BY <2>1, <1>1 DEF MediaInv, PubsOK
  <2> QED
    BY <2>1, <1>1 DEF MediaInv, PubsOK
<1>4. ASSUME NEW s \in Device \ races'.clash PROVE DeviceOK(s)'
  <2>1. DeviceOK(s) /\ TaskOK(k)
    BY <1>4 DEF MediaInv
  <2>2. Single(s)'
    BY <1>1, <2>1 DEF DeviceOK, Single
  <2>3. InHand(s)'
    BY <1>1, <2>1 DEF DeviceOK, InHand
  <2>4. Captured(s)'
    <3>1. ASSUME k.src = s, NEW t, Has(k, t) PROVE Has(next, t)
      <4>1. s # "screen"
        BY DEF Device
      <4> QED
        BY <2>1, <3>1, <4>1 DEF Has, TaskOK, Device
    <3> QED
      BY <1>1, <2>1, <3>1 DEF DeviceOK, Captured, Has
  <2>5. s \notin races.late => AsFlagged(s)'
    BY <1>1, <2>1 DEF DeviceOK, AsFlagged
  <2> QED
    BY <2>2, <2>3, <2>4, <2>5 DEF DeviceOK
<1> QED
  BY <1>2, <1>3, <1>4 DEF MediaInv

\* A call ends that holds no track which goes on.
LEMMA ReturnOK ==
  ASSUME MediaInv, MediaTypeOK', Fixed, NEW k \in tasks, Return(k),
         k.src \in races.clash \/ \A t \in live' : ~Has(k, t),
         listed' = listed, live' \subseteq live,
         races'.late = races.late, races'.clash = races.clash, screen'.pub \in {0, screen.pub}
  PROVE  MediaInv'
<1>1. /\ mutedFlag' = mutedFlag /\ pubs' = pubs /\ kinds' = kinds /\ enabled' = enabled
      /\ tasks' = tasks \ {k}
  BY DEF Fixed, Return
<1>2. \A j \in tasks' : TaskOK(j)'
  BY <1>1, TaskKept DEF MediaInv
<1>3. PubsOK'
  BY <1>1 DEF MediaInv, PubsOK
<1>4. ASSUME NEW s \in Device \ races'.clash PROVE DeviceOK(s)'
  <2>1. DeviceOK(s)
    BY <1>4 DEF MediaInv
  <2>2. Single(s)' /\ InHand(s)'
    BY <1>1, <2>1 DEF DeviceOK, Single, InHand
  <2>3. Captured(s)'
    BY <1>1, <2>1 DEF DeviceOK, Captured, Has
  <2>4. s \notin races.late => AsFlagged(s)'
    BY <1>1, <2>1 DEF DeviceOK, AsFlagged
  <2> QED
    BY <2>2, <2>3, <2>4 DEF DeviceOK
<1> QED
  BY <1>2, <1>3, <1>4 DEF MediaInv

\* A call begins.  It may withdraw the publication it stops, or that of a share.
LEMMA EnterOK ==
  ASSUME MediaInv, MediaTypeOK', Fixed, NEW k, TaskOK(k), k.at # "publish",
         tasks' = tasks \cup {k}, live' \subseteq live, races'.late = races.late,
         races'.clash = IF k.src \in {o.src : o \in tasks} THEN races.clash \cup {k.src}
                        ELSE races.clash,
         Range(listed') \subseteq Range(listed),
         \A i \in Range(listed) : \/ i \in Range(listed') \/ pubs[i].src = "screen"
                                  \/ k.op = "stop" /\ k.at = "remove" /\ i = k.pub,
         k.op = "start" => \A i \in Range(listed) : pubs[i].src # k.src,
         k.op = "switch" => /\ k.at # "swap" /\ k.pub \in Range(listed)
                            /\ pubs[k.pub].track = k.old /\ k.was = mutedFlag[k.src],
         k.op = "stop" => IF k.at = "remove" THEN k.old = pubs[k.pub].track
                          ELSE k.pub \in Range(listed'),
         screen'.pub \in {0, screen.pub}
  PROVE  MediaInv'
<1>1. mutedFlag' = mutedFlag /\ pubs' = pubs /\ kinds' = kinds /\ enabled' = enabled
  BY DEF Fixed
<1>2. \A j \in tasks' : TaskOK(j)'
  <2> TAKE j \in tasks'
  <2>1. TaskOK(j)
    BY <1>1 DEF MediaInv
  <2> QED
    BY <1>1, <2>1, TaskKept
<1>3. PubsOK'
  <2>1. ASSUME NEW i \in tasks', NEW j \in tasks', i.at = "publish", j.at = "publish",
               i.new = j.new
        PROVE  i = j
    BY <2>1, <1>1 DEF MediaInv, PubsOK
  <2> QED
    BY <2>1, <1>1 DEF MediaInv, PubsOK
<1>4. ASSUME NEW s \in Device \ races'.clash PROVE DeviceOK(s)'
  <2>1. DeviceOK(s) /\ (k.src = s => \A o \in tasks : o.src # s) /\ s # "screen"
    BY <1>4 DEF MediaInv, Device
  <2>2. Single(s)'
    BY <1>1, <2>1 DEF DeviceOK, Single
  <2>3. InHand(s)'
    <3>1. ASSUME NEW j \in tasks, j.src = s, j.op \in {"switch", "stop"}, j.pub \in Range(listed)
          PROVE  j.pub \in Range(listed')
      <4>1. pubs[j.pub].src = s
        BY <3>1 DEF MediaInv, TaskOK
      <4>2. k.src # s
        BY <2>1, <3>1
      <4>3. k.op = "stop" => pubs[k.pub].src # s
        BY <4>2 DEF TaskOK
      <4> QED
        BY <2>1, <3>1, <4>1, <4>3
    <3>2. ASSUME NEW j \in tasks', j.src = s
          PROVE  /\ j.op = "start" => \A i \in Range(listed') : pubs[i].src # s
                 /\ j.op = "switch" => j.pub \in Range(listed') /\ pubs[j.pub].track = j.old
                 /\ j.op = "stop" => IF j.at = "remove" THEN j.old = pubs[j.pub].track
                                     ELSE j.pub \in Range(listed')
      <4>1. CASE j = k
        <5>1. j.op = "switch" => j.pub \in Range(listed')
          BY <4>1, <3>2, <2>1 DEF TaskOK
        <5> QED
          BY <4>1, <3>2, <5>1
      <4>2. CASE j \in tasks
        BY <4>2, <3>1, <3>2, <2>1 DEF DeviceOK, InHand
      <4> QED
        BY <4>1, <4>2
    <3> QED
      BY <3>2, <1>1 DEF InHand
  <2>4. Captured(s)'
    <3> SUFFICES ASSUME NEW t \in live, kinds[t] = s
                 PROVE  \/ \E i \in Range(listed') : pubs[i].src = s /\ pubs[i].track = t
                        \/ \E j \in tasks' : j.src = s /\ Has(j, t)
      BY <1>1 DEF Captured, Has
    <3>1. CASE \E j \in tasks : j.src = s /\ Has(j, t)
      BY <3>1
    <3>2. ASSUME NEW i \in Range(listed), pubs[i].src = s, pubs[i].track = t
          PROVE  \/ \E j \in Range(listed') : pubs[j].src = s /\ pubs[j].track = t
                 \/ \E j \in tasks' : j.src = s /\ Has(j, t)
      <4>1. CASE i \in Range(listed')
        BY <4>1, <3>2
      <4>2. CASE k.op = "stop" /\ k.at = "remove" /\ i = k.pub
        BY <4>2, <3>2 DEF TaskOK, Has
      <4> QED
        BY <4>1, <4>2, <3>2, <2>1
    <3> QED
      BY <3>1, <3>2, <2>1 DEF DeviceOK, Captured
  <2>5. s \notin races.late => AsFlagged(s)'
    BY <1>1, <2>1 DEF DeviceOK, AsFlagged
  <2> QED
    BY <2>2, <2>3, <2>4, <2>5 DEF DeviceOK
<1> QED
  BY <1>2, <1>3, <1>4 DEF MediaInv

LEMMA EnterRaces ==
  ASSUME MediaTypeOK, NEW k, k.src \in Source, Enter(k)
  PROVE  /\ tasks' = tasks \cup {k} /\ races'.late = races.late
         /\ races'.clash = IF k.src \in {o.src : o \in tasks} THEN races.clash \cup {k.src}
                           ELSE races.clash
         /\ races' \in [late : SUBSET Device, clash : SUBSET Source, overlap : BOOLEAN,
                        swapped : BOOLEAN, gone : SUBSET Nat, came : SUBSET Party]
<1> DEFINE running == {o.src : o \in tasks}
           both == IF k.src \in running THEN races.clash \cup {k.src} ELSE races.clash
           over == races.overlap \/ running \cap Touches(k.src) # {}
<1>1. /\ tasks' = tasks \cup {k}
      /\ races' = [races EXCEPT !.clash = both, !.overlap = over]
  BY DEF Enter
<1>2. /\ races \in [late : SUBSET Device, clash : SUBSET Source, overlap : BOOLEAN,
                    swapped : BOOLEAN, gone : SUBSET Nat, came : SUBSET Party]
      /\ both \in SUBSET Source /\ over \in BOOLEAN
  BY DEF MediaTypeOK
<1> HIDE DEF both, over
<1>3. /\ races' \in [late : SUBSET Device, clash : SUBSET Source, overlap : BOOLEAN,
                     swapped : BOOLEAN, gone : SUBSET Nat, came : SUBSET Party]
      /\ races'.late = races.late /\ races'.clash = both
  BY <1>1, <1>2
<1> QED
  BY <1>1, <1>3 DEF both

\* A call as it is made up, before it has its operation, source and place.
Draft == [id : Nat, op : Op \cup {""}, src : Source \cup {""}, at : Place \cup {""},
          new : Nat, old : Nat, shown : Nat, pub : Nat, was : BOOLEAN,
          seen : SUBSET Party, todo : SUBSET Party]

LEMMA NewTaskOK == acts \in Nat => NewTask \in Draft
  BY DEF NewTask, Draft

LEMMA DraftOK ==
  ASSUME NEW k \in Draft, k.src \in Source, k.op \in Op, k.at \in Place
  PROVE  k \in Task
  BY DEF Draft, Task

LEMMA StartMedia ==
  ASSUME MediaInv, NEW s \in Device, StartDevice(s)
  PROVE  MediaInv'
<1> DEFINE k == [NewTask EXCEPT !.op = "start", !.src = s, !.at = "acquire"]
<1>1. /\ acts' = acts + 1
      /\ mutedFlag' = mutedFlag /\ pubs' = pubs /\ listed' = listed /\ kinds' = kinds
      /\ live' = live /\ enabled' = enabled /\ present' = present /\ screen' = screen
      /\ IF Find(s) # 0 THEN tasks' = tasks /\ races' = races ELSE Enter(k)
  BY DEF StartDevice, Act, NothingElse, tracks, mesh, publications, share, ReturnsAtOnce
<1>2. MediaTypeOK /\ PubsOK
  BY DEF MediaInv
<1>3. CASE Find(s) # 0
  <2>1. MediaTypeOK' /\ Fixed
    BY <1>1, <1>2, <1>3 DEF MediaTypeOK, Fixed
  <2> QED
    BY <1>1, <1>3, <2>1, IdleOK
<1>4. CASE Find(s) = 0
  <2>1. /\ k \in Task /\ k.op = "start" /\ k.src = s /\ k.at = "acquire"
    <3>1. NewTask \in Draft /\ s \in Source
      BY <1>2, NewTaskOK DEF MediaTypeOK, Source
    <3>2. k \in Draft /\ k.op = "start" /\ k.src = s /\ k.at = "acquire"
      BY <3>1 DEF Draft, Source, Op, Place
    <3> HIDE DEF k
    <3> QED
      BY <3>1, <3>2, DraftOK DEF Op, Place
  <2> HIDE DEF k
  <2>2. TaskOK(k)
    BY <2>1 DEF TaskOK
  <2>3. Enter(k) /\ k.src \in Source
    BY <1>1, <1>4, <2>1 DEF Source
  <2>4. /\ tasks' = tasks \cup {k} /\ races'.late = races.late
        /\ races'.clash = IF k.src \in {o.src : o \in tasks} THEN races.clash \cup {k.src}
                          ELSE races.clash
        /\ races' \in [late : SUBSET Device, clash : SUBSET Source, overlap : BOOLEAN,
                       swapped : BOOLEAN, gone : SUBSET Nat, came : SUBSET Party]
    BY <1>2, <2>3, EnterRaces
  <2>5. MediaTypeOK' /\ Fixed
    BY <1>1, <1>2, <2>4 DEF MediaTypeOK, Fixed
  <2>6. \A i \in Range(listed) : pubs[i].src # k.src
    BY <1>2, <1>4, <2>1, FindOK
  <2>7. Range(listed') \subseteq Range(listed) /\ (\A i \in Range(listed) : i \in Range(listed'))
        /\ live' \subseteq live /\ screen'.pub \in {0, screen.pub}
    BY <1>1
  <2>8. k.at # "publish" /\ k.op # "switch" /\ k.op # "stop"
    BY <2>1
  <2> QED
    BY <2>2, <2>4, <2>5, <2>6, <2>7, <2>8, EnterOK
<1> QED
  BY <1>3, <1>4

LEMMA StartShareMedia == MediaInv /\ StartShare => MediaInv'
<1> SUFFICES ASSUME MediaInv, StartShare PROVE MediaInv'
  OBVIOUS
<1> DEFINE k == [NewTask EXCEPT !.op = "share", !.src = "screen", !.at = "acquire"]
<1>1. /\ acts' = acts + 1
      /\ mutedFlag' = mutedFlag /\ pubs' = pubs /\ listed' = listed /\ kinds' = kinds
      /\ live' = live /\ enabled' = enabled /\ present' = present /\ screen' = screen
      /\ IF screen.flag THEN tasks' = tasks /\ races' = races ELSE Enter(k)
  BY DEF StartShare, Act, NothingElse, tracks, mesh, publications, share, ReturnsAtOnce
<1>2. MediaTypeOK /\ PubsOK
  BY DEF MediaInv
<1>3. CASE screen.flag
  <2>1. MediaTypeOK' /\ Fixed
    BY <1>1, <1>2, <1>3 DEF MediaTypeOK, Fixed
  <2> QED
    BY <1>1, <1>3, <2>1, IdleOK
<1>4. CASE ~screen.flag
  <2>1. /\ k \in Task /\ k.op = "share" /\ k.src = "screen" /\ k.at = "acquire"
    <3>1. NewTask \in Draft /\ "screen" \in Source
      BY <1>2, NewTaskOK DEF MediaTypeOK, Source
    <3>2. k \in Draft /\ k.op = "share" /\ k.src = "screen" /\ k.at = "acquire"
      BY <3>1 DEF Draft, Source, Op, Place
    <3> HIDE DEF k
    <3> QED
      BY <3>1, <3>2, DraftOK DEF Op, Place
  <2> HIDE DEF k
  <2>2. TaskOK(k)
    BY <2>1 DEF TaskOK
  <2>3. Enter(k) /\ k.src \in Source
    BY <1>1, <1>4, <2>1 DEF Source
  <2>4. /\ tasks' = tasks \cup {k} /\ races'.late = races.late
        /\ races'.clash = IF k.src \in {o.src : o \in tasks} THEN races.clash \cup {k.src}
                          ELSE races.clash
        /\ races' \in [late : SUBSET Device, clash : SUBSET Source, overlap : BOOLEAN,
                       swapped : BOOLEAN, gone : SUBSET Nat, came : SUBSET Party]
    BY <1>2, <2>3, EnterRaces
  <2>5. MediaTypeOK' /\ Fixed
    BY <1>1, <1>2, <2>4 DEF MediaTypeOK, Fixed
  <2>6. Range(listed') \subseteq Range(listed) /\ (\A i \in Range(listed) : i \in Range(listed'))
        /\ live' \subseteq live /\ screen'.pub \in {0, screen.pub}
    BY <1>1
  <2>7. k.at # "publish" /\ k.op # "switch" /\ k.op # "stop" /\ k.op # "start"
    BY <2>1
  <2> QED
    BY <2>2, <2>4, <2>5, <2>6, <2>7, EnterOK
<1> QED
  BY <1>3, <1>4

LEMMA SetDeviceMedia ==
  ASSUME MediaInv, NEW s \in Device, SetDevice(s)
  PROVE  MediaInv'
<1> DEFINE i == Find(s)
           k == [NewTask EXCEPT !.op = "switch", !.src = s, !.at = "apply",
                   !.pub = i, !.old = pubs[i].track, !.was = mutedFlag[s]]
<1>1. /\ acts' = acts + 1
      /\ mutedFlag' = mutedFlag /\ pubs' = pubs /\ listed' = listed /\ kinds' = kinds
      /\ live' = live /\ enabled' = enabled /\ present' = present /\ screen' = screen
      /\ IF i = 0 THEN tasks' = tasks /\ races' = races ELSE Enter(k)
  BY DEF SetDevice, Act, NothingElse, tracks, mesh, publications, share, ReturnsAtOnce
<1>2. MediaTypeOK /\ PubsOK
  BY DEF MediaInv
<1>3. CASE i = 0
  <2>1. MediaTypeOK' /\ Fixed
    BY <1>1, <1>2, <1>3 DEF MediaTypeOK, Fixed
  <2> QED
    BY <1>1, <1>3, <2>1, IdleOK
<1>4. CASE i # 0
  <2>1. i \in Range(listed) /\ i \in TrackId /\ pubs[i].src = s
    BY <1>2, <1>4, FindOK
  <2>2. /\ i \in Nat /\ pubs[i].track \in Nat /\ mutedFlag[s] \in BOOLEAN
    BY <1>2, <2>1, MediaAssumption DEF MediaTypeOK, Publication, TrackId
  <2> HIDE DEF i
  <2>3. /\ k \in Task /\ k.op = "switch" /\ k.src = s /\ k.at = "apply" /\ k.pub = i
        /\ k.old = pubs[i].track /\ k.was = mutedFlag[s]
    <3>1. NewTask \in Draft /\ s \in Source
      BY <1>2, NewTaskOK DEF MediaTypeOK, Source
    <3>2. /\ k \in Draft /\ k.op = "switch" /\ k.src = s /\ k.at = "apply"
          /\ k.pub = i /\ k.old = pubs[i].track /\ k.was = mutedFlag[s]
      BY <2>2, <3>1 DEF Draft, Op, Place
    <3> HIDE DEF k
    <3> QED
      BY <3>1, <3>2, DraftOK DEF Op, Place
  <2>4. Enter(k)
    BY <1>1, <1>4
  <2> HIDE DEF k
  <2>5. TaskOK(k) /\ k.src \in Source
    BY <2>1, <2>3 DEF TaskOK, Source
  <2>6. /\ tasks' = tasks \cup {k} /\ races'.late = races.late
        /\ races'.clash = IF k.src \in {o.src : o \in tasks} THEN races.clash \cup {k.src}
                          ELSE races.clash
        /\ races' \in [late : SUBSET Device, clash : SUBSET Source, overlap : BOOLEAN,
                       swapped : BOOLEAN, gone : SUBSET Nat, came : SUBSET Party]
    BY <1>2, <2>4, <2>5, EnterRaces
  <2>7. MediaTypeOK' /\ Fixed
    BY <1>1, <1>2, <2>6 DEF MediaTypeOK, Fixed
  <2>8. Range(listed') \subseteq Range(listed) /\ (\A j \in Range(listed) : j \in Range(listed'))
        /\ live' \subseteq live /\ screen'.pub \in {0, screen.pub}
    BY <1>1
  <2>9. /\ k.at # "publish" /\ k.op # "start" /\ k.op # "stop" /\ k.at # "swap"
        /\ k.pub \in Range(listed) /\ pubs[k.pub].track = k.old /\ k.was = mutedFlag[k.src]
    BY <2>1, <2>3
  <2> QED
    BY <2>5, <2>6, <2>7, <2>8, <2>9, EnterOK
<1> QED
  BY <1>3, <1>4

\* The share that is on ends: its publication is withdrawn, if it has one.
LEMMA EndShareOK ==
  ASSUME MediaInv, acts' \in Nat, Fixed, live' \subseteq live, present' = present,
         NEW b \in Draft, EndShare(b),
         \/ b.op = "unshare" /\ b.src = "screen"
         \/ /\ b.op = "stop" /\ b.src = "camera" /\ screen.mode = "replace"
            /\ b.pub \in Range(listed) /\ b.pub \in TrackId /\ pubs[b.pub].src = "camera"
  PROVE  MediaInv'
<1> DEFINE c == Find("camera")
           replaced == screen.mode = "replace"
           withdrawn == ~replaced /\ screen.pub # 0
           step == IF replaced /\ screen.track # 0 /\ c # 0 THEN "swap"
                   ELSE IF withdrawn THEN "remove" ELSE "announce"
           was == IF withdrawn THEN pubs[screen.pub].track ELSE screen.track
           camera1 == IF c = 0 THEN 0 ELSE pubs[c].track
           k == [b EXCEPT !.shown = screen.track, !.at = step, !.old = was, !.new = camera1,
                          !.todo = present]
<1>1. /\ screen' = [flag |-> FALSE, mode |-> "none", track |-> 0,
                    pub |-> IF withdrawn THEN 0 ELSE screen.pub]
      /\ listed' = IF withdrawn THEN ListWithout(screen.pub) ELSE listed
      /\ Enter(k)
  BY DEF EndShare, Unlist
<1>2. MediaTypeOK /\ PubsOK
  BY DEF MediaInv
<1>3. /\ mutedFlag' = mutedFlag /\ pubs' = pubs /\ kinds' = kinds /\ enabled' = enabled
  BY DEF Fixed
<1>4. screen.track \in Nat /\ screen.pub \in Nat /\ present \subseteq Party
  BY <1>2 DEF MediaTypeOK
<1>5. was \in Nat /\ step \in {"swap", "remove", "announce"}
  <2>1. withdrawn => pubs[screen.pub].track \in Nat
    BY <1>2 DEF PubsOK, MediaTypeOK, Publication
  <2> QED
    BY <1>4, <2>1
<1>6. camera1 \in Nat
  <2>1. c # 0 => pubs[c].track \in Nat
    BY <1>2, FindOK DEF MediaTypeOK, Publication
  <2> QED
    BY <2>1
<1>7. replaced => ~withdrawn /\ step # "remove"
  OBVIOUS
<1>8. /\ listed' \in Seq(TrackId) /\ Range(listed') \subseteq Range(listed)
      /\ \A i \in Range(listed) : i \in Range(listed') \/ pubs[i].src = "screen"
      /\ replaced => listed' = listed
  <2>1. CASE withdrawn
    <3>1. listed \in Seq(TrackId) /\ pubs[screen.pub].src = "screen"
      BY <1>2, <2>1 DEF MediaTypeOK, PubsOK
    <3> QED
      BY <1>1, <2>1, <3>1, ListWithoutOK
  <2>2. CASE ~withdrawn
    BY <1>1, <1>2, <2>2 DEF MediaTypeOK
  <2> QED
    BY <2>1, <2>2
<1>9. /\ screen'.pub \in {0, screen.pub}
      /\ screen' \in [flag : BOOLEAN, mode : {"none", "separate", "replace"}, track : Nat, pub : Nat]
  BY <1>1, <1>4
<1> HIDE DEF c, step, was, camera1
<1>10. /\ k \in Task /\ k.op = b.op /\ k.src = b.src /\ k.pub = b.pub /\ k.at = step
  <2>1. step \in Place
    BY <1>5 DEF Place
  <2>2. k \in Draft /\ k.op = b.op /\ k.src = b.src /\ k.pub = b.pub /\ k.at = step
    BY <1>4, <1>5, <1>6, <2>1 DEF Draft
  <2>3. b.op \in Op /\ b.src \in Source
    BY DEF Op, Source, Device
  <2> HIDE DEF k
  <2> QED
    BY <2>1, <2>2, <2>3, DraftOK
<1> HIDE DEF k
<1>11. TaskOK(k) /\ k.src \in Source /\ k.at # "publish"
  BY <1>5, <1>7, <1>10 DEF TaskOK, Device, Source
<1>12. /\ tasks' = tasks \cup {k} /\ races'.late = races.late
       /\ races'.clash = IF k.src \in {o.src : o \in tasks} THEN races.clash \cup {k.src}
                         ELSE races.clash
       /\ races' \in [late : SUBSET Device, clash : SUBSET Source, overlap : BOOLEAN,
                      swapped : BOOLEAN, gone : SUBSET Nat, came : SUBSET Party]
  BY <1>1, <1>2, <1>11, EnterRaces
<1>13. MediaTypeOK'
  BY <1>2, <1>3, <1>8, <1>9, <1>12 DEF MediaTypeOK
<1>14. k.op # "start" /\ k.op # "switch"
       /\ (k.op = "stop" => k.at # "remove" /\ k.pub \in Range(listed'))
  BY <1>7, <1>8, <1>10
<1> QED
  BY <1>8, <1>9, <1>11, <1>12, <1>13, <1>14, EnterOK


LEMMA StopShareMedia == MediaInv /\ StopShare => MediaInv'
<1> SUFFICES ASSUME MediaInv, StopShare PROVE MediaInv'
  OBVIOUS
<1> DEFINE b == [NewTask EXCEPT !.op = "unshare", !.src = "screen"]
<1>1. /\ acts' = acts + 1
      /\ mutedFlag' = mutedFlag /\ pubs' = pubs /\ kinds' = kinds
      /\ live' = live /\ enabled' = enabled /\ present' = present
      /\ IF screen.flag THEN EndShare(b)
         ELSE tasks' = tasks /\ races' = races /\ screen' = screen /\ listed' = listed
  BY DEF StopShare, Act, tracks, mesh, ReturnsAtOnce
<1>2. MediaTypeOK /\ acts' \in Nat
  BY <1>1 DEF MediaInv, MediaTypeOK
<1>3. Fixed
  BY <1>1 DEF Fixed
<1>4. CASE screen.flag
  <2>1. NewTask \in Draft
    BY <1>2, NewTaskOK DEF MediaTypeOK
  <2>2. b \in Draft /\ b.op = "unshare" /\ b.src = "screen"
    BY <2>1 DEF Draft, Op, Source
  <2> HIDE DEF b
  <2> QED
    BY <1>1, <1>2, <1>3, <1>4, <2>2, EndShareOK
<1>5. CASE ~screen.flag
  <2>1. MediaTypeOK'
    BY <1>1, <1>2, <1>5 DEF MediaTypeOK
  <2> QED
    BY <1>1, <1>3, <1>5, <2>1, IdleOK
<1> QED
  BY <1>4, <1>5

LEMMA StopDeviceMedia ==
  ASSUME MediaInv, NEW s \in Device, StopDevice(s)
  PROVE  MediaInv'
<1> DEFINE i == Find(s)
           b == [NewTask EXCEPT !.op = "stop", !.src = s, !.pub = i]
           k == BeginRemoval(b)
<1>1. /\ acts' = acts + 1
      /\ mutedFlag' = mutedFlag /\ pubs' = pubs /\ kinds' = kinds
      /\ live' = live /\ enabled' = enabled /\ present' = present
      /\ IF i = 0 THEN tasks' = tasks /\ races' = races /\ screen' = screen /\ listed' = listed
         ELSE IF s = "camera" /\ screen.mode = "replace" THEN EndShare(b)
         ELSE Enter(k) /\ listed' = ListWithout(b.pub) /\ screen' = screen
  BY DEF StopDevice, Act, tracks, mesh, ReturnsAtOnce, Unlist
<1>2. MediaTypeOK /\ PubsOK /\ acts' \in Nat
  BY <1>1 DEF MediaInv, MediaTypeOK
<1>3. Fixed
  BY <1>1 DEF Fixed
<1>4. CASE i = 0
  <2>1. MediaTypeOK'
    BY <1>1, <1>2, <1>4 DEF MediaTypeOK
  <2> QED
    BY <1>1, <1>3, <1>4, <2>1, IdleOK
<1>5. ASSUME i # 0 PROVE MediaInv'
  <2>1. i \in Range(listed) /\ i \in TrackId /\ i \in Nat /\ pubs[i].src = s /\ pubs[i].track \in Nat
    <3>1. i \in Range(listed) /\ i \in TrackId /\ pubs[i].src = s
      BY <1>2, <1>5, FindOK
    <3> HIDE DEF i
    <3> QED
      BY <1>2, <3>1, MediaAssumption DEF MediaTypeOK, Publication, TrackId
  <2> HIDE DEF i
  <2>2. NewTask \in Draft
    BY <1>2, NewTaskOK DEF MediaTypeOK
  <2>3. b \in Draft /\ b.op = "stop" /\ b.src = s /\ b.pub = i
    BY <2>1, <2>2 DEF Draft, Op, Source
  <2> HIDE DEF b
  <2>4. CASE s = "camera" /\ screen.mode = "replace"
    BY <1>1, <1>2, <1>3, <1>5, <2>1, <2>3, <2>4, EndShareOK
  <2>5. CASE ~(s = "camera" /\ screen.mode = "replace")
    <3>1. /\ k \in Draft /\ k.op = "stop" /\ k.src = s /\ k.pub = i /\ k.at = "remove"
          /\ k.old = pubs[i].track
      BY <2>1, <2>3 DEF BeginRemoval, Draft, Place
    <3>2. Enter(k) /\ listed' = ListWithout(i) /\ screen' = screen
      BY <1>1, <1>5, <2>3, <2>5
    <3> HIDE DEF k
    <3>3. k \in Task
      BY <3>1, DraftOK DEF Op, Place, Source
    <3>4. TaskOK(k) /\ k.src \in Source
      BY <2>1, <3>1, <3>3 DEF TaskOK, Source
    <3>5. /\ tasks' = tasks \cup {k} /\ races'.late = races.late
          /\ races'.clash = IF k.src \in {o.src : o \in tasks} THEN races.clash \cup {k.src}
                            ELSE races.clash
          /\ races' \in [late : SUBSET Device, clash : SUBSET Source, overlap : BOOLEAN,
                         swapped : BOOLEAN, gone : SUBSET Nat, came : SUBSET Party]
      BY <1>2, <3>2, <3>4, EnterRaces
    <3>6. listed \in Seq(TrackId)
      BY <1>2 DEF MediaTypeOK
    <3>7. /\ listed' \in Seq(TrackId) /\ Range(listed') \subseteq Range(listed)
          /\ \A j \in Range(listed) : j \in Range(listed') \/ j = i
      BY <3>2, <3>6, ListWithoutOK
    <3>8. MediaTypeOK'
      BY <1>1, <1>2, <3>2, <3>5, <3>7 DEF MediaTypeOK
    <3>9. /\ k.op # "start" /\ k.op # "switch" /\ k.at = "remove" /\ k.at # "publish"
          /\ k.old = pubs[k.pub].track /\ k.pub = i /\ k.op = "stop"
          /\ live' \subseteq live /\ screen'.pub \in {0, screen.pub}
      BY <1>1, <3>1, <3>2
    <3> QED
      BY <1>3, <3>4, <3>5, <3>7, <3>8, <3>9, EnterOK
  <2> QED
    BY <2>4, <2>5
<1> QED
  BY <1>4, <1>5

\* What the steps of a call leave alone.
Still == acts' = acts /\ present' = present /\ races' = races /\ screen' = screen

LEMMA ApplyMedia ==
  ASSUME MediaInv, NEW k \in tasks, ApplyConstraints(k)
  PROVE  MediaInv'
<1> DEFINE next == [k EXCEPT !.at = "acquire"]
<1>1. /\ mutedFlag' = mutedFlag /\ pubs' = pubs /\ kinds' = kinds /\ enabled' = enabled
      /\ live' = live /\ listed' = listed /\ Still /\ k.at = "apply"
      /\ Return(k) \/ Become(k, next)
  BY DEF ApplyConstraints, NothingElse, tracks, mesh, publications, share, Still
<1>2. MediaTypeOK' /\ Fixed /\ TaskOK(k)
  BY <1>1 DEF MediaInv, MediaTypeOK, Fixed, Still
<1>3. /\ races'.late = races.late /\ races'.clash = races.clash /\ screen'.pub = screen.pub
      /\ live' \subseteq live
  BY <1>1 DEF Still
<1>4. CASE Return(k)
  <2>1. \A t \in live' : ~Has(k, t)
    BY <1>1 DEF Has
  <2> QED
    BY <1>1, <1>2, <1>3, <1>4, <2>1, ReturnOK
<1>5. CASE Become(k, next)
  <2>1. /\ next \in Task /\ next.at = "acquire" /\ next.src = k.src /\ next.op = k.op
        /\ next.pub = k.pub /\ next.new = k.new /\ next.old = k.old /\ next.was = k.was
    BY <1>2 DEF TaskOK, Task, Place
  <2> HIDE DEF next
  <2>2. TaskOK(next)
    BY <1>1, <1>2, <2>1 DEF TaskOK
  <2> QED
    BY <1>1, <1>2, <1>3, <1>5, <2>1, <2>2, BecomeOK
<1> QED
  BY <1>1, <1>4, <1>5

LEMMA RefuseMedia ==
  ASSUME MediaInv, NEW k \in tasks, Refuse(k)
  PROVE  MediaInv'
<1>1. /\ mutedFlag' = mutedFlag /\ pubs' = pubs /\ kinds' = kinds /\ enabled' = enabled
      /\ live' = live /\ listed' = listed /\ Still /\ k.at = "acquire" /\ Return(k)
  BY DEF Refuse, NothingElse, tracks, mesh, publications, share, Still
<1>2. MediaTypeOK' /\ Fixed
  BY <1>1 DEF MediaInv, MediaTypeOK, Fixed, Still
<1>3. /\ races'.late = races.late /\ races'.clash = races.clash /\ screen'.pub = screen.pub
      /\ live' \subseteq live
  BY <1>1 DEF Still
<1>4. \A t \in live' : ~Has(k, t)
  BY <1>1 DEF Has
<1> QED
  BY <1>1, <1>2, <1>3, <1>4, ReturnOK

\* A call on its way through the connections.
LEMMA SeenMedia ==
  ASSUME MediaInv, NEW k \in tasks, NEW p \in Party,
         PublishTo(k, p) \/ Swap(k, p) \/ RemoveFrom(k, p)
  PROVE  MediaInv'
<1>1. /\ mutedFlag' = mutedFlag /\ pubs' = pubs /\ kinds' = kinds /\ enabled' = enabled
      /\ live' = live /\ listed' = listed /\ Still
      /\ Become(k, [k EXCEPT !.seen = @ \cup {p}]) \/ Become(k, [k EXCEPT !.todo = @ \ {p}])
  BY DEF PublishTo, Swap, RemoveFrom, tracks, publications, share, Still
<1>2. MediaTypeOK' /\ Fixed /\ TaskOK(k)
  BY <1>1 DEF MediaInv, MediaTypeOK, Fixed, Still
<1>3. /\ races'.late = races.late /\ races'.clash = races.clash /\ screen'.pub = screen.pub
      /\ live' \subseteq live
  BY <1>1 DEF Still
<1>4. ASSUME NEW next, Become(k, next), next \in Task, next.at = k.at, next.src = k.src,
             next.op = k.op, next.pub = k.pub, next.new = k.new, next.old = k.old,
             next.was = k.was
      PROVE  MediaInv'
  <2>1. TaskOK(next)
    BY <1>2, <1>4 DEF TaskOK, New
  <2> QED
    BY <1>1, <1>2, <1>3, <1>4, <2>1, BecomeOK
<1>5. CASE Become(k, [k EXCEPT !.seen = @ \cup {p}])
  <2> DEFINE next == [k EXCEPT !.seen = @ \cup {p}]
  <2>1. /\ next \in Task /\ next.at = k.at /\ next.src = k.src /\ next.op = k.op
        /\ next.pub = k.pub /\ next.new = k.new /\ next.old = k.old /\ next.was = k.was
    BY <1>2 DEF TaskOK, Task
  <2>2. Become(k, next)
    BY <1>5
  <2> HIDE DEF next
  <2> QED
    BY <1>4, <2>1, <2>2
<1>6. CASE Become(k, [k EXCEPT !.todo = @ \ {p}])
  <2> DEFINE next == [k EXCEPT !.todo = @ \ {p}]
  <2>1. /\ next \in Task /\ next.at = k.at /\ next.src = k.src /\ next.op = k.op
        /\ next.pub = k.pub /\ next.new = k.new /\ next.old = k.old /\ next.was = k.was
    BY <1>2 DEF TaskOK, Task
  <2>2. Become(k, next)
    BY <1>6
  <2> HIDE DEF next
  <2> QED
    BY <1>4, <2>1, <2>2
<1> QED
  BY <1>1, <1>5, <1>6

LEMMA RemovedMedia ==
  ASSUME MediaInv, NEW k \in tasks, Removed(k)
  PROVE  MediaInv'
<1> DEFINE next == [k EXCEPT !.at = "announce"]
<1>1. /\ mutedFlag' = mutedFlag /\ pubs' = pubs /\ kinds' = kinds /\ enabled' = enabled
      /\ listed' = listed /\ Still /\ k.at = "remove"
      /\ IF k.op = "stop" THEN live' = live \ {pubs[k.pub].track} /\ Return(k)
         ELSE Become(k, next) /\ live' = live
  BY DEF Removed, Stopped, mesh, publications, share, Still
<1>2. MediaTypeOK' /\ Fixed /\ TaskOK(k)
  BY <1>1 DEF MediaInv, MediaTypeOK, Fixed, Still
<1>3. /\ races'.late = races.late /\ races'.clash = races.clash /\ screen'.pub = screen.pub
      /\ live' \subseteq live
  BY <1>1 DEF Still
<1>4. CASE k.op = "stop"
  <2>1. k.src \in races.clash \/ k.old = pubs[k.pub].track
    BY <1>1, <1>2, <1>4 DEF MediaInv, TaskOK, DeviceOK, InHand
  <2>2. k.src \in races.clash \/ \A t \in live' : ~Has(k, t)
    BY <1>1, <1>4, <2>1 DEF Has
  <2> QED
    BY <1>1, <1>2, <1>3, <1>4, <2>2, ReturnOK
<1>5. CASE k.op # "stop"
  <2>1. /\ next \in Task /\ next.at = "announce" /\ next.src = k.src /\ next.op = k.op
        /\ next.pub = k.pub /\ next.new = k.new /\ next.old = k.old /\ next.was = k.was
    BY <1>2 DEF TaskOK, Task, Place
  <2>2. Become(k, next)
    BY <1>1, <1>5
  <2> HIDE DEF next
  <2>3. TaskOK(next) /\ k.op = "unshare"
    BY <1>1, <1>2, <1>5, <2>1 DEF TaskOK
  <2> QED
    BY <1>1, <1>2, <1>3, <2>1, <2>2, <2>3, BecomeOK
<1> QED
  BY <1>4, <1>5

LEMMA AnnounceMedia ==
  ASSUME MediaInv, NEW k \in tasks, Announce(k)
  PROVE  MediaInv'
<1> DEFINE next == [k EXCEPT !.at = "restored"]
<1>1. /\ mutedFlag' = mutedFlag /\ pubs' = pubs /\ kinds' = kinds /\ enabled' = enabled
      /\ listed' = listed /\ Still /\ k.at = "announce" /\ live' \subseteq live
      /\ IF k.op = "stop" THEN Become(k, next) ELSE Return(k)
  BY DEF Announce, mesh, publications, Still
<1>2. MediaTypeOK' /\ Fixed /\ TaskOK(k)
  BY <1>1 DEF MediaInv, MediaTypeOK, Fixed, Still
<1>3. /\ races'.late = races.late /\ races'.clash = races.clash /\ screen'.pub = screen.pub
  BY <1>1 DEF Still
<1>4. CASE k.op = "stop"
  <2>1. /\ next \in Task /\ next.at = "restored" /\ next.src = k.src /\ next.op = k.op
        /\ next.pub = k.pub /\ next.new = k.new /\ next.old = k.old /\ next.was = k.was
    BY <1>2 DEF TaskOK, Task, Place
  <2>2. Become(k, next)
    BY <1>1, <1>4
  <2> HIDE DEF next
  <2>3. TaskOK(next)
    BY <1>1, <1>2, <1>4, <2>1 DEF TaskOK
  <2> QED
    BY <1>1, <1>2, <1>3, <1>4, <2>1, <2>2, <2>3, BecomeOK
<1>5. CASE k.op # "stop"
  <2>1. \A t \in live' : ~Has(k, t)
    BY <1>1, <1>5 DEF Has
  <2> QED
    BY <1>1, <1>2, <1>3, <1>5, <2>1, ReturnOK
<1> QED
  BY <1>4, <1>5

LEMMA KindsGrow ==
  ASSUME NEW s \in Source, kinds \in Seq(Source), kinds' = Append(kinds, s)
  PROVE  /\ kinds' \in Seq(Source) /\ Len(kinds) + 1 \in DOMAIN kinds'
         /\ kinds'[Len(kinds) + 1] = s /\ Len(kinds) + 1 \notin DOMAIN kinds
         /\ \A t \in DOMAIN kinds : t \in DOMAIN kinds' /\ kinds'[t] = kinds[t]
         /\ \A t \in DOMAIN kinds' : t \in DOMAIN kinds \/ t = Len(kinds) + 1
<1>1. /\ kinds' \in Seq(Source) /\ Len(kinds') = Len(kinds) + 1
      /\ \A n \in 1 .. Len(kinds) : kinds'[n] = kinds[n]
      /\ kinds'[Len(kinds) + 1] = s
  OBVIOUS
<1>2. DOMAIN kinds' = 1 .. Len(kinds) + 1 /\ DOMAIN kinds = 1 .. Len(kinds) /\ Len(kinds) \in Nat
  BY <1>1
<1> QED
  BY <1>1, <1>2

LEMMA AcquireMedia ==
  ASSUME MediaInv, NEW k \in tasks, Acquire(k)
  PROVE  MediaInv'
<1> DEFINE t == Len(kinds) + 1
           c == Find("camera")
           replaces == k.op = "share" /\ c # 0 /\ EveryPeerSends(pubs[c].track)
           step == IF k.op = "switch" \/ replaces THEN "swap" ELSE "publish"
           was == IF replaces THEN pubs[c].track ELSE k.old
           onward == [k EXCEPT !.new = t, !.at = step, !.old = was, !.todo = present]
<1>1. /\ mutedFlag' = mutedFlag /\ pubs' = pubs /\ listed' = listed /\ Still
      /\ k.at = "acquire" /\ t \in TrackId
      /\ kinds' = Append(kinds, k.src) /\ live' = live \cup {t} /\ enabled' = Enabled(k, t)
      /\ tasks' = (tasks \ {k}) \cup {[k EXCEPT !.new = t,
                     !.at = IF k.op = "switch" \/ replaces THEN "swap" ELSE "publish",
                     !.old = IF replaces THEN pubs[c].track ELSE @,
                     !.todo = present]}
  BY DEF Acquire, mesh, publications, share, Still, Become
<1>2. PICK next : next = onward /\ tasks' = (tasks \ {k}) \cup {next}
  BY <1>1
<1>3. MediaTypeOK /\ PubsOK /\ TaskOK(k) /\ k \in Task
  BY DEF MediaInv, TaskOK
<1>4. was \in Nat /\ present \in SUBSET Party /\ t \in Nat
  <2>1. c # 0 => pubs[c].track \in Nat
    BY <1>3, FindOK DEF MediaTypeOK, Publication
  <2>2. k.old \in Nat /\ present \in SUBSET Party /\ t \in Nat
    BY <1>3 DEF Task, MediaTypeOK
  <2> QED
    BY <2>1, <2>2
<1>5. step \in {"swap", "publish"} /\ (k.op # "share" => ~replaces)
  OBVIOUS
<1>6. /\ kinds' \in Seq(Source) /\ t \in DOMAIN kinds' /\ kinds'[t] = k.src /\ t \notin DOMAIN kinds
      /\ \A x \in DOMAIN kinds : x \in DOMAIN kinds' /\ kinds'[x] = kinds[x]
      /\ \A x \in DOMAIN kinds' : x \in DOMAIN kinds \/ x = t
  <2>1. kinds \in Seq(Source) /\ k.src \in Source
    BY <1>3 DEF MediaTypeOK, Task
  <2> QED
    BY <1>1, <2>1, KindsGrow
<1>7. /\ k.op = "switch" => step = "swap"
      /\ k.op = "start" => step = "publish" /\ was = k.old
      /\ k.op = "switch" => was = k.old
  BY <1>5
<1>8. /\ next \in Task /\ next.at = step /\ next.src = k.src /\ next.op = k.op
      /\ next.pub = k.pub /\ next.new = t /\ next.old = was /\ next.was = k.was
  <2> HIDE DEF was, t, step
  <2> QED
    BY <1>2, <1>3, <1>4, <1>5 DEF Task, Place
<1> HIDE DEF c, was, t, step, onward
<1>9. /\ enabled' \subseteq enabled \cup {t} /\ enabled \subseteq enabled'
      /\ k.op = "start" => (t \in enabled' <=> ~mutedFlag[k.src])
  <2>1. t \notin enabled
    BY <1>3, <1>6 DEF MediaTypeOK
  <2> QED
    BY <1>1, <2>1 DEF Enabled
<1>10. MediaTypeOK'
  <2>1. live' \subseteq DOMAIN kinds' /\ enabled' \subseteq DOMAIN kinds'
    BY <1>1, <1>3, <1>6, <1>9 DEF MediaTypeOK
  <2> QED
    BY <1>1, <1>3, <1>6, <2>1 DEF MediaTypeOK, Still
<1>11. \A i \in TrackId : pubs[i].src # "none" => i # t /\ pubs[i].track # t
  BY <1>3, <1>6 DEF PubsOK
<1>12. \A j \in tasks' : TaskOK(j)'
  <2>1. ASSUME NEW j \in tasks PROVE TaskOK(j)'
    <3>1. TaskOK(j)
      BY DEF MediaInv
    <3> QED
      BY <1>1, <1>6, <3>1, TaskKept
  <2>2. TaskOK(next)'
    <3>1. k.op \in {"start", "share", "switch"}
      BY <1>1, <1>3 DEF TaskOK
    <3>2. New(next)'
      BY <1>6, <1>8 DEF New
    <3>3. pubs[t].src = "none"
      BY <1>1, <1>11
    <3> QED
      BY <1>1, <1>3, <1>5, <1>7, <1>8, <3>1, <3>2, <3>3 DEF TaskOK
  <2> QED
    BY <1>2, <2>1, <2>2
<1>13. PubsOK'
  <2>1. ASSUME NEW i \in tasks, i.at = "publish" PROVE i.new # t
    BY <1>6, <2>1 DEF MediaInv, TaskOK, New
  <2>2. ASSUME NEW i \in tasks', NEW j \in tasks', i.at = "publish", j.at = "publish",
               i.new = j.new
        PROVE  i = j
    BY <1>2, <1>3, <1>8, <2>1, <2>2 DEF PubsOK
  <2>3. \A i \in TrackId : pubs[i].src # "none" =>
          /\ i \in DOMAIN kinds'
          /\ pubs[i].track \in DOMAIN kinds' /\ kinds'[pubs[i].track] = pubs[i].src
    BY <1>3, <1>6 DEF PubsOK
  <2>4. \A i \in Range(listed) : pubs[i].src # "none"
    BY <1>3 DEF PubsOK
  <2>5. screen.pub # 0 => screen.pub \in TrackId /\ pubs[screen.pub].src = "screen"
    BY <1>3 DEF PubsOK
  <2> QED
    BY <1>1, <2>2, <2>3, <2>4, <2>5 DEF PubsOK, Still
<1>14. ASSUME NEW s \in Device \ races'.clash PROVE DeviceOK(s)'
  <2>1. DeviceOK(s) /\ s # "screen"
    BY <1>1, <1>14 DEF MediaInv, Device, Still
  <2>2. Single(s)'
    BY <1>1, <1>2, <1>8, <2>1 DEF DeviceOK, Single
  <2>3. InHand(s)'
    <3>1. ASSUME NEW j \in tasks', j.src = s
          PROVE  /\ j.op = "start" => \A i \in Range(listed) : pubs[i].src # s
                 /\ j.op = "switch" => j.pub \in Range(listed) /\ pubs[j.pub].track = j.old
                 /\ j.op = "stop" => IF j.at = "remove" THEN j.old = pubs[j.pub].track
                                     ELSE j.pub \in Range(listed)
      <4>1. CASE j = next
        <5>1. k.op # "stop" /\ k.src = s
          BY <1>1, <1>3, <1>8, <3>1, <4>1 DEF TaskOK
        <5> QED
          BY <1>7, <1>8, <2>1, <4>1, <5>1 DEF DeviceOK, InHand
      <4>2. CASE j \in tasks
        BY <3>1, <4>2, <2>1 DEF DeviceOK, InHand
      <4> QED
        BY <1>2, <4>1, <4>2
    <3> QED
      BY <1>1, <3>1 DEF InHand
  <2>4. Captured(s)'
    <3> SUFFICES ASSUME NEW x \in live', kinds'[x] = s
                 PROVE  \/ \E i \in Range(listed) : pubs[i].src = s /\ pubs[i].track = x
                        \/ \E j \in tasks' : j.src = s /\ Has(j, x)
      BY <1>1 DEF Captured, Has
    <3>1. CASE x = t
      <4>1. k.src = s /\ k.op \in {"start", "switch"}
        BY <1>1, <1>3, <1>6, <2>1, <3>1 DEF TaskOK, Device
      <4>2. Has(next, x) /\ next.src = s
        BY <1>7, <1>8, <3>1, <4>1 DEF Has
      <4> QED
        BY <1>2, <4>2
    <3>2. CASE x # t
      <4>1. x \in live /\ kinds[x] = s
        BY <1>1, <1>3, <1>6, <3>2 DEF MediaTypeOK
      <4>2. ~Has(k, x)
        BY <1>1 DEF Has
      <4> QED
        BY <1>2, <2>1, <4>1, <4>2 DEF DeviceOK, Captured
    <3> QED
      BY <3>1, <3>2
  <2>5. ASSUME s \notin races.late PROVE AsFlagged(s)'
    <3>1. ASSUME NEW i \in Range(listed), pubs[i].src = s
          PROVE  /\ pubs[i].muted <=> mutedFlag[s]
                 /\ pubs[i].track \in enabled' <=> ~mutedFlag[s]
      <4>1. i \in TrackId /\ s # "none"
        BY <1>3 DEF MediaTypeOK, Range, Device
      <4>2. pubs[i].track # t
        BY <1>11, <3>1, <4>1
      <4> QED
        BY <1>9, <2>1, <2>5, <3>1, <4>2 DEF DeviceOK, AsFlagged
    <3>2. ASSUME NEW j \in tasks', j.src = s
          PROVE  /\ j.at = "publish" => (j.new \in enabled' <=> ~mutedFlag[s])
                 /\ j.op = "switch" => (j.was <=> mutedFlag[s])
      <4>1. CASE j = next
        <5>1. j.at = "publish" => k.op = "start"
          BY <1>1, <1>3, <1>7, <1>8, <2>1, <3>2, <4>1 DEF TaskOK
        <5>2. j.at = "publish" => (j.new \in enabled' <=> ~mutedFlag[s])
          BY <1>8, <1>9, <3>2, <4>1, <5>1
        <5>3. k.src = s /\ j.was = k.was /\ j.op = k.op
          BY <1>8, <3>2, <4>1
        <5> QED
          BY <2>1, <2>5, <5>2, <5>3 DEF DeviceOK, AsFlagged
      <4>2. CASE j \in tasks
        <5>1. j.at = "publish" => j.new # t
          BY <1>6, <4>2 DEF MediaInv, TaskOK, New
        <5> QED
          BY <1>9, <2>1, <2>5, <3>2, <4>2, <5>1 DEF DeviceOK, AsFlagged
      <4> QED
        BY <1>2, <4>1, <4>2
    <3> QED
      BY <1>1, <3>1, <3>2 DEF AsFlagged
  <2> QED
    BY <1>1, <2>2, <2>3, <2>4, <2>5 DEF DeviceOK, Still
<1> QED
  BY <1>10, <1>12, <1>13, <1>14 DEF MediaInv

\* The loop is over: what was acquired for the source is published, as the flag is by now.
LEMMA ListMedia ==
  ASSUME MediaInv, NEW k \in tasks, List(k)
  PROVE  MediaInv'
<1> DEFINE entry == [src |-> k.src, track |-> k.new, muted |-> FlagNow(k)]
<1>1. /\ mutedFlag' = mutedFlag /\ kinds' = kinds /\ live' = live /\ enabled' = enabled
      /\ present' = present /\ races' = races /\ acts' = acts /\ k.at = "publish"
      /\ pubs' = [pubs EXCEPT ![k.new] = entry]
      /\ listed' = Append(listed, k.new) /\ tasks' = tasks \ {k}
      /\ IF k.op = "share" THEN Sharing(k, "separate") ELSE screen' = screen
  BY DEF List, tracks, mesh, share, Return
<1>2. MediaTypeOK /\ PubsOK /\ TaskOK(k) /\ k \in Task /\ k.src \in Source
  BY DEF MediaInv, TaskOK, Task
<1>3. /\ k.new \in TrackId /\ k.new \in Nat /\ k.new \in DOMAIN kinds /\ kinds[k.new] = k.src
      /\ pubs[k.new].src = "none" /\ k.op \in {"start", "share"}
      /\ (k.op = "share" <=> k.src = "screen")
  BY <1>1, <1>2 DEF TaskOK, New, Task, Device
<1>4. FlagNow(k) \in BOOLEAN /\ (k.src \in Device => (FlagNow(k) <=> mutedFlag[k.src]))
  BY <1>2 DEF FlagNow, MediaTypeOK
<1>5. /\ pubs' \in [TrackId -> Publication] /\ pubs'[k.new] = entry
      /\ \A i \in TrackId : i # k.new => pubs'[i] = pubs[i]
  <2>1. entry \in Publication
    BY <1>2, <1>3, <1>4 DEF Publication
  <2>2. pubs \in [TrackId -> Publication]
    BY <1>2 DEF MediaTypeOK
  <2> HIDE DEF entry
  <2> QED
    BY <1>1, <1>3, <2>1, <2>2
<1>6. pubs'[k.new].src = k.src /\ pubs'[k.new].track = k.new /\ pubs'[k.new].muted = FlagNow(k)
  BY <1>5
<1>7. listed' \in Seq(TrackId) /\ Range(listed') = Range(listed) \cup {k.new}
      /\ Range(listed) \subseteq TrackId
  <2>1. listed \in Seq(TrackId)
    BY <1>2 DEF MediaTypeOK
  <2> QED
    BY <1>1, <1>3, <2>1, AppendListed DEF Range
<1>8. \A i \in TrackId : pubs[i].src # "none" => pubs'[i] = pubs[i] /\ i # k.new
  BY <1>3, <1>5
<1>9. /\ screen' \in [flag : BOOLEAN, mode : {"none", "separate", "replace"},
                      track : Nat, pub : Nat]
      /\ screen'.pub = screen.pub \/ (k.op = "share" /\ screen'.pub = k.new)
  <2>1. CASE k.op = "share"
    <3>1. screen' = [flag |-> TRUE, mode |-> "separate", track |-> k.new, pub |-> k.new]
      BY <1>1, <2>1 DEF Sharing
    <3> QED
      BY <1>3, <2>1, <3>1
  <2>2. CASE k.op # "share"
    BY <1>1, <1>2, <2>2 DEF MediaTypeOK
  <2> QED
    BY <2>1, <2>2
<1> HIDE DEF entry
<1>10. MediaTypeOK'
  BY <1>1, <1>2, <1>5, <1>7, <1>9 DEF MediaTypeOK
<1>11. \A j \in tasks' : TaskOK(j)'
  <2> TAKE j \in tasks'
  <2>1. TaskOK(j) /\ j \in tasks /\ j # k
    BY <1>1 DEF MediaInv
  <2>2. \A i \in TrackId : \/ pubs'[i].src = pubs[i].src
                           \/ pubs[i].src = "none" /\ ~(j.at = "publish" /\ j.new = i)
    <3> TAKE i \in TrackId
    <3>1. CASE i = k.new
      BY <1>1, <1>2, <1>3, <2>1, <3>1 DEF PubsOK
    <3>2. CASE i # k.new
      BY <1>5, <3>2
    <3> QED
      BY <3>1, <3>2
  <2> QED
    BY <1>1, <2>1, <2>2, TaskKept
<1>12. PubsOK'
  <2>1. \A i, j \in tasks' : i.at = "publish" /\ j.at = "publish" /\ i.new = j.new => i = j
    BY <1>1, <1>2 DEF PubsOK
  <2>2. \A i \in TrackId : pubs'[i].src # "none" =>
          /\ i \in DOMAIN kinds
          /\ pubs'[i].track \in DOMAIN kinds /\ kinds[pubs'[i].track] = pubs'[i].src
    <3> TAKE i \in TrackId
    <3>1. CASE i = k.new
      BY <1>3, <1>6, <3>1
    <3>2. CASE i # k.new
      BY <1>2, <1>5, <3>2 DEF PubsOK
    <3> QED
      BY <3>1, <3>2
  <2>3. \A i \in Range(listed') : pubs'[i].src # "none"
    <3>1. k.src # "none"
      BY <1>2 DEF Source, Device
    <3> QED
      BY <1>2, <1>6, <1>7, <1>8, <3>1 DEF PubsOK
  <2>4. screen'.pub # 0 => screen'.pub \in TrackId /\ pubs'[screen'.pub].src = "screen"
    <3>1. CASE screen'.pub = screen.pub
      BY <1>2, <1>8, <3>1 DEF PubsOK
    <3>2. CASE k.op = "share" /\ screen'.pub = k.new
      BY <1>3, <1>6, <3>2
    <3> QED
      BY <1>9, <3>1, <3>2
  <2> QED
    BY <1>1, <2>1, <2>2, <2>3, <2>4 DEF PubsOK
<1>13. ASSUME NEW s \in Device \ races'.clash PROVE DeviceOK(s)'
  <2>1. DeviceOK(s) /\ s # "screen" /\ s # "none"
    BY <1>1, <1>13 DEF MediaInv, Device
  <2>2. \A i \in Range(listed) : pubs[i].src = s => pubs'[i] = pubs[i] /\ i # k.new
    BY <1>7, <1>8, <2>1
  <2>3. \A i \in Range(listed') : pubs'[i].src = s =>
          \/ i = k.new /\ k.src = s
          \/ i \in Range(listed) /\ pubs[i].src = s /\ pubs'[i] = pubs[i] /\ i # k.new
    <3> SUFFICES ASSUME NEW i \in Range(listed'), pubs'[i].src = s, i # k.new
                 PROVE  i \in Range(listed) /\ pubs[i].src = s /\ pubs'[i] = pubs[i]
      BY <1>6
    <3> QED
      BY <1>5, <1>7
  <2>4. k.src = s => /\ \A i \in Range(listed) : pubs[i].src # s
                     /\ \A j \in tasks' : j.src # s
    BY <1>1, <1>3, <2>1 DEF DeviceOK, InHand, Single
  <2>5. Single(s)'
    <3>1. \A i, j \in Range(listed') : pubs'[i].src = s /\ pubs'[j].src = s => i = j
      BY <2>1, <2>3, <2>4 DEF DeviceOK, Single
    <3> QED
      BY <1>1, <2>1, <3>1 DEF DeviceOK, Single
  <2>6. InHand(s)'
    <3> SUFFICES ASSUME NEW j \in tasks', j.src = s
                 PROVE  /\ j.op = "start" => \A i \in Range(listed') : pubs'[i].src # s
                        /\ j.op = "switch" => /\ j.pub \in Range(listed')
                                              /\ pubs'[j.pub].track = j.old
                        /\ j.op = "stop" => IF j.at = "remove" THEN j.old = pubs'[j.pub].track
                                            ELSE j.pub \in Range(listed')
      BY DEF InHand
    <3>1. k.src # s /\ j \in tasks
      BY <1>1, <2>4
    <3>2. j.op = "start" => \A i \in Range(listed') : pubs'[i].src # s
      BY <2>1, <2>3, <3>1 DEF DeviceOK, InHand
    <3>3. j.op \in {"switch", "stop"} => pubs'[j.pub] = pubs[j.pub]
      BY <1>8, <2>1, <3>1 DEF MediaInv, TaskOK
    <3> QED
      BY <1>7, <2>1, <3>1, <3>2, <3>3 DEF DeviceOK, InHand
  <2>7. Captured(s)'
    <3> SUFFICES ASSUME NEW x \in live, kinds[x] = s
                 PROVE  \/ \E i \in Range(listed') : pubs'[i].src = s /\ pubs'[i].track = x
                        \/ \E j \in tasks' : j.src = s /\ Has(j, x)
      BY <1>1 DEF Captured, Has
    <3>1. CASE \E i \in Range(listed) : pubs[i].src = s /\ pubs[i].track = x
      BY <1>7, <2>2, <3>1
    <3>2. CASE k.src = s /\ Has(k, x)
      <4>1. x = k.new
        BY <1>1, <1>3, <3>2 DEF Has
      <4> QED
        BY <1>6, <1>7, <3>2, <4>1
    <3> QED
      BY <1>1, <2>1, <3>1, <3>2 DEF DeviceOK, Captured
  <2>8. ASSUME s \notin races.late PROVE AsFlagged(s)'
    <3>1. ASSUME NEW i \in Range(listed'), pubs'[i].src = s
          PROVE  /\ pubs'[i].muted <=> mutedFlag[s]
                 /\ pubs'[i].track \in enabled <=> ~mutedFlag[s]
      <4>1. CASE i = k.new /\ k.src = s
        <5>1. k.new \in enabled <=> ~mutedFlag[s]
          BY <1>1, <2>1, <2>8, <4>1 DEF DeviceOK, AsFlagged
        <5>2. pubs'[i].muted <=> mutedFlag[s]
          BY <1>4, <1>6, <4>1
        <5> QED
          BY <1>6, <4>1, <5>1, <5>2
      <4>2. CASE i \in Range(listed) /\ pubs[i].src = s /\ pubs'[i] = pubs[i]
        BY <2>1, <2>8, <4>2 DEF DeviceOK, AsFlagged
      <4> QED
        BY <2>3, <3>1, <4>1, <4>2
    <3> QED
      BY <1>1, <2>1, <2>8, <3>1 DEF DeviceOK, AsFlagged
  <2> QED
    BY <1>1, <2>5, <2>6, <2>7, <2>8 DEF DeviceOK
<1> QED
  BY <1>10, <1>11, <1>12, <1>13 DEF MediaInv

\* A switch ends: the publication has the new track, and is as the flag was, and is.
LEMMA AdoptMedia ==
  ASSUME MediaInv, MediaTypeOK', NEW k \in tasks, k.op = "switch", k.at = "swap", Adopt(k), Return(k),
         mutedFlag' = mutedFlag, kinds' = kinds, listed' = listed, screen' = screen,
         races'.late = races.late, races'.clash = races.clash
  PROVE  MediaInv'
<1>1. MediaTypeOK /\ PubsOK /\ TaskOK(k) /\ k \in Task
  BY DEF MediaInv, TaskOK
<1>2. /\ k.src \in Device /\ k.src # "none" /\ k.pub \in TrackId /\ pubs[k.pub].src = k.src
      /\ k.new \in DOMAIN kinds /\ kinds[k.new] = k.src /\ k.was \in BOOLEAN
  BY <1>1 DEF TaskOK, New, Task, Device
<1>3. /\ live' = live \ {k.old} /\ tasks' = tasks \ {k}
      /\ pubs' = [pubs EXCEPT ![k.pub].track = k.new, ![k.pub].muted = k.was]
      /\ enabled' = IF k.was THEN enabled \ {k.new} ELSE enabled \cup {k.new}
  BY DEF Adopt, Return
<1>4. /\ pubs'[k.pub].src = k.src /\ pubs'[k.pub].track = k.new /\ (pubs'[k.pub].muted <=> k.was)
      /\ \A i \in TrackId : i # k.pub => pubs'[i] = pubs[i]
      /\ \A i \in TrackId : pubs'[i].src = pubs[i].src
  <2>1. pubs \in [TrackId -> Publication] /\ pubs[k.pub] \in Publication
    BY <1>1, <1>2 DEF MediaTypeOK
  <2> QED
    BY <1>2, <1>3, <2>1 DEF Publication
<1>5. \A j \in tasks' : TaskOK(j)'
  <2> TAKE j \in tasks'
  <2>1. TaskOK(j)
    BY <1>3 DEF MediaInv
  <2> QED
    BY <1>4, <2>1, TaskKept
<1>6. Range(listed) \subseteq TrackId
  BY <1>1 DEF MediaTypeOK, Range
<1>7. PubsOK'
  <2>1. \A i, j \in tasks' : i.at = "publish" /\ j.at = "publish" /\ i.new = j.new => i = j
    BY <1>1, <1>3 DEF PubsOK
  <2>2. \A i \in TrackId : pubs'[i].src # "none" =>
          /\ i \in DOMAIN kinds
          /\ pubs'[i].track \in DOMAIN kinds /\ kinds[pubs'[i].track] = pubs'[i].src
    BY <1>1, <1>2, <1>4 DEF PubsOK
  <2>3. \A i \in Range(listed) : pubs'[i].src # "none"
    BY <1>1, <1>4, <1>6 DEF PubsOK
  <2>4. screen.pub # 0 => screen.pub \in TrackId /\ pubs'[screen.pub].src = "screen"
    BY <1>1, <1>4 DEF PubsOK
  <2> QED
    BY <2>1, <2>2, <2>3, <2>4 DEF PubsOK
<1>8. ASSUME NEW s \in Device \ races'.clash PROVE DeviceOK(s)'
  <2>1. DeviceOK(s) /\ s # "screen" /\ s # "none"
    BY <1>8 DEF MediaInv, Device
  <2>2. \A i \in Range(listed) : pubs'[i].src = pubs[i].src /\ (i # k.pub => pubs'[i] = pubs[i])
    BY <1>4, <1>6
  <2>3. k.src = s => /\ k.pub \in Range(listed) /\ pubs[k.pub].track = k.old
                     /\ \A j \in tasks' : j.src # s
                     /\ \A i \in Range(listed) : pubs[i].src = s => i = k.pub
    BY <1>2, <1>3, <2>1 DEF DeviceOK, InHand, Single
  <2>4. Single(s)'
    <3>1. \A i, j \in tasks' : i.src = s /\ j.src = s => i = j
      BY <1>3, <2>1 DEF DeviceOK, Single
    <3>2. ASSUME NEW i \in Range(listed), NEW j \in Range(listed), pubs'[i].src = s,
                 pubs'[j].src = s
          PROVE  i = j
      <4>1. pubs[i].src = s /\ pubs[j].src = s
        BY <2>2, <3>2
      <4> QED
        BY <2>1, <4>1 DEF DeviceOK, Single
    <3> QED
      BY <3>1, <3>2 DEF Single
  <2>5. InHand(s)'
    <3> SUFFICES ASSUME NEW j \in tasks', j.src = s
                 PROVE  /\ j.op = "start" => \A i \in Range(listed) : pubs'[i].src # s
                        /\ j.op = "switch" => /\ j.pub \in Range(listed)
                                              /\ pubs'[j.pub].track = j.old
                        /\ j.op = "stop" => IF j.at = "remove" THEN j.old = pubs'[j.pub].track
                                            ELSE j.pub \in Range(listed)
      BY DEF InHand
    <3>1. k.src # s /\ j \in tasks
      BY <1>3, <2>3
    <3>2. j.op \in {"switch", "stop"} => pubs'[j.pub] = pubs[j.pub]
      BY <1>2, <1>4, <3>1 DEF MediaInv, TaskOK
    <3> QED
      BY <2>1, <2>2, <3>1, <3>2 DEF DeviceOK, InHand
  <2>6. Captured(s)'
    <3> SUFFICES ASSUME NEW x \in live', kinds[x] = s
                 PROVE  \/ \E i \in Range(listed) : pubs'[i].src = s /\ pubs'[i].track = x
                        \/ \E j \in tasks' : j.src = s /\ Has(j, x)
      BY DEF Captured, Has
    <3>1. ASSUME NEW i \in Range(listed), pubs[i].src = s, pubs[i].track = x
          PROVE  pubs'[i].src = s /\ pubs'[i].track = x
      <4>1. i # k.pub
        BY <1>2, <1>3, <2>3, <3>1
      <4> QED
        BY <2>2, <3>1, <4>1
    <3>2. ASSUME k.src = s, Has(k, x)
          PROVE  \E i \in Range(listed) : pubs'[i].src = s /\ pubs'[i].track = x
      <4>1. x = k.new
        BY <3>2 DEF Has
      <4> QED
        BY <1>4, <2>3, <3>2, <4>1
    <3>3. x \in live
      BY <1>3
    <3> QED
      BY <1>3, <2>1, <3>1, <3>2, <3>3 DEF DeviceOK, Captured
  <2>7. ASSUME s \notin races.late PROVE AsFlagged(s)'
    <3>1. ASSUME NEW i \in Range(listed), pubs'[i].src = s
          PROVE  /\ pubs'[i].muted <=> mutedFlag[s]
                 /\ pubs'[i].track \in enabled' <=> ~mutedFlag[s]
      <4>1. CASE k.src = s
        <5>1. i = k.pub /\ (k.was <=> mutedFlag[s])
          BY <2>1, <2>2, <2>3, <2>7, <3>1, <4>1 DEF DeviceOK, AsFlagged
        <5>2. k.new \in enabled' <=> ~k.was
          BY <1>3
        <5>3. pubs'[i].track = k.new /\ (pubs'[i].muted <=> k.was)
          BY <1>4, <5>1
        <5>4. pubs'[i].track \in enabled' <=> ~mutedFlag[s]
          BY <5>1, <5>2, <5>3
        <5> QED
          BY <5>1, <5>3, <5>4
      <4>2. CASE k.src # s
        <5>1. i \in TrackId /\ pubs'[i] = pubs[i] /\ pubs[i].src = s
          BY <1>2, <1>6, <2>2, <3>1, <4>2
        <5>2. pubs[i].track # k.new
          BY <1>1, <1>2, <2>1, <4>2, <5>1 DEF PubsOK
        <5>3. pubs[i].track \in enabled' <=> pubs[i].track \in enabled
          BY <1>3, <5>2
        <5> QED
          BY <2>1, <2>7, <5>1, <5>3 DEF DeviceOK, AsFlagged
      <4> QED
        BY <4>1, <4>2
    <3>2. ASSUME NEW j \in tasks', j.src = s
          PROVE  /\ j.at = "publish" => (j.new \in enabled' <=> ~mutedFlag[s])
                 /\ j.op = "switch" => (j.was <=> mutedFlag[s])
      <4>1. j \in tasks /\ k.src # s
        BY <1>3, <2>3, <3>2
      <4>2. j.at = "publish" => j.new # k.new
        BY <1>2, <3>2, <4>1 DEF MediaInv, TaskOK, New
      <4>3. j.at = "publish" => (j.new \in enabled' <=> j.new \in enabled)
        BY <1>3, <4>2
      <4> QED
        BY <2>1, <2>7, <3>2, <4>1, <4>3 DEF DeviceOK, AsFlagged
    <3> QED
      BY <3>1, <3>2 DEF AsFlagged
  <2> QED
    BY <2>4, <2>5, <2>6, <2>7 DEF DeviceOK
<1> QED
  BY <1>5, <1>7, <1>8 DEF MediaInv

LEMMA SwappedMedia ==
  ASSUME MediaInv, NEW k \in tasks, Swapped(k)
  PROVE  MediaInv'
<1>1. /\ mutedFlag' = mutedFlag /\ present' = present /\ listed' = listed /\ acts' = acts
      /\ k.at = "swap"
  BY DEF Swapped, mesh
<1>2. MediaTypeOK /\ PubsOK /\ TaskOK(k) /\ k \in Task
  BY DEF MediaInv, TaskOK
<1>3. CASE k.op = "switch"
  <2> DEFINE turned == races.swapped \/ k.src = "camera"
  <2>1. /\ Adopt(k) /\ Return(k) /\ kinds' = kinds /\ screen' = screen
        /\ races' = [races EXCEPT !.swapped = turned]
    BY <1>3 DEF Swapped, share
  <2>2. turned \in BOOLEAN
    BY <1>2 DEF MediaTypeOK
  <2> HIDE DEF turned
  <2>3. /\ races' \in [late : SUBSET Device, clash : SUBSET Source, overlap : BOOLEAN,
                       swapped : BOOLEAN, gone : SUBSET Nat, came : SUBSET Party]
        /\ races'.late = races.late /\ races'.clash = races.clash
    BY <1>2, <2>1, <2>2 DEF MediaTypeOK
  <2>4. pubs' \in [TrackId -> Publication]
    <3>1. pubs \in [TrackId -> Publication] /\ k.new \in Nat /\ k.was \in BOOLEAN
      BY <1>2 DEF MediaTypeOK, Task
    <3> QED
      BY <2>1, <3>1 DEF Adopt, Publication
  <2>5. live' \subseteq DOMAIN kinds /\ enabled' \subseteq DOMAIN kinds
    BY <1>1, <1>2, <1>3, <2>1 DEF Adopt, TaskOK, New, MediaTypeOK
  <2>6. MediaTypeOK'
    BY <1>1, <1>2, <2>1, <2>3, <2>4, <2>5 DEF MediaTypeOK
  <2> QED
    BY <1>1, <1>3, <2>1, <2>3, <2>6, AdoptMedia
<1>4. CASE k.op = "share"
  <2>1. /\ Sharing(k, "replace") /\ Return(k) /\ kinds' = kinds /\ live' = live
        /\ enabled' = enabled /\ pubs' = pubs /\ races' = races
    BY <1>4 DEF Swapped, tracks
  <2>2. /\ screen' \in [flag : BOOLEAN, mode : {"none", "separate", "replace"},
                        track : Nat, pub : Nat]
        /\ screen'.pub = screen.pub
    <3>1. screen' = [flag |-> TRUE, mode |-> "replace", track |-> k.new, pub |-> screen.pub]
      BY <2>1 DEF Sharing
    <3> QED
      BY <1>2, <3>1 DEF MediaTypeOK, Task
  <2>3. MediaTypeOK' /\ Fixed
    BY <1>1, <1>2, <2>1, <2>2 DEF MediaTypeOK, Fixed
  <2>4. \A t \in live' : ~Has(k, t)
    BY <1>1, <1>4 DEF Has
  <2> QED
    BY <1>1, <2>1, <2>2, <2>3, <2>4, ReturnOK
<1>5. CASE k.op \notin {"switch", "share"}
  <2> DEFINE next == [k EXCEPT !.at = "announce"]
  <2>1. /\ Become(k, next) /\ kinds' = kinds /\ live' = live /\ screen' = screen
        /\ enabled' = enabled /\ pubs' = pubs /\ races' = races
    BY <1>5 DEF Swapped, tracks, share
  <2>2. /\ next \in Task /\ next.at = "announce" /\ next.src = k.src /\ next.op = k.op
        /\ next.pub = k.pub /\ next.new = k.new /\ next.old = k.old /\ next.was = k.was
    BY <1>2 DEF TaskOK, Task, Place
  <2> HIDE DEF next
  <2>3. k.op \in {"stop", "unshare"}
    BY <1>1, <1>2, <1>5 DEF TaskOK
  <2>4. TaskOK(next)
    BY <1>1, <1>2, <2>2, <2>3 DEF TaskOK
  <2>5. MediaTypeOK' /\ Fixed
    BY <1>1, <1>2, <2>1 DEF MediaTypeOK, Fixed
  <2> QED
    BY <1>1, <2>1, <2>2, <2>3, <2>4, <2>5, BecomeOK
<1> QED
  BY <1>3, <1>4, <1>5

\* stopCamera goes on after the share: it takes the publication's track in hand.
LEMMA RestoredMedia ==
  ASSUME MediaInv, NEW k \in tasks, Restored(k)
  PROVE  MediaInv'
<1> DEFINE onward == BeginRemoval(k)
<1>1. /\ mutedFlag' = mutedFlag /\ pubs' = pubs /\ kinds' = kinds /\ enabled' = enabled
      /\ live' = live /\ Still /\ k.at = "restored" /\ listed' = ListWithout(k.pub)
  BY DEF Restored, Unlist, tracks, mesh, share, Still
<1>2. PICK next : next = onward /\ tasks' = (tasks \ {k}) \cup {next}
  BY DEF Restored, Become
<1>3. MediaTypeOK /\ PubsOK /\ TaskOK(k) /\ k \in Task
  BY DEF MediaInv, TaskOK
<1>4. /\ k.op = "stop" /\ k.src \in Device /\ k.src # "none" /\ k.pub \in TrackId
      /\ pubs[k.pub].src = k.src /\ pubs[k.pub].track \in Nat
  BY <1>1, <1>3 DEF TaskOK, Device, MediaTypeOK, Publication
<1>5. /\ next \in Task /\ next.at = "remove" /\ next.src = k.src /\ next.op = k.op
      /\ next.pub = k.pub /\ next.old = pubs[k.pub].track
  BY <1>2, <1>3, <1>4 DEF BeginRemoval, Task, Place
<1> HIDE DEF onward
<1>6. /\ listed' \in Seq(TrackId) /\ Range(listed') \subseteq Range(listed)
      /\ \A i \in Range(listed) : i # k.pub => i \in Range(listed')
  <2>1. listed \in Seq(TrackId)
    BY <1>3 DEF MediaTypeOK
  <2> QED
    BY <1>1, <2>1, ListWithoutOK
<1>7. MediaTypeOK'
  BY <1>1, <1>3, <1>6 DEF MediaTypeOK, Still
<1>8. \A j \in tasks' : TaskOK(j)'
  <2>1. TaskOK(next)
    BY <1>4, <1>5 DEF TaskOK
  <2>2. ASSUME NEW j \in tasks' PROVE TaskOK(j)'
    <3>1. TaskOK(j)
      BY <1>2, <2>1 DEF MediaInv
    <3> QED
      BY <1>1, <3>1, TaskKept
  <2> QED
    BY <2>2
<1>9. PubsOK'
  <2>1. ASSUME NEW i \in tasks', NEW j \in tasks', i.at = "publish", j.at = "publish",
               i.new = j.new
        PROVE  i = j
    BY <1>2, <1>3, <1>5, <2>1 DEF PubsOK
  <2> QED
    BY <1>1, <1>3, <1>6, <2>1 DEF PubsOK, Still
<1>10. ASSUME NEW s \in Device \ races'.clash PROVE DeviceOK(s)'
  <2>1. DeviceOK(s)
    BY <1>1, <1>10 DEF MediaInv, Still
  <2>2. Single(s)'
    BY <1>1, <1>2, <1>5, <1>6, <2>1 DEF DeviceOK, Single
  <2>3. InHand(s)'
    <3> SUFFICES ASSUME NEW j \in tasks', j.src = s
                 PROVE  /\ j.op = "start" => \A i \in Range(listed') : pubs[i].src # s
                        /\ j.op = "switch" => /\ j.pub \in Range(listed')
                                              /\ pubs[j.pub].track = j.old
                        /\ j.op = "stop" => IF j.at = "remove" THEN j.old = pubs[j.pub].track
                                            ELSE j.pub \in Range(listed')
      BY <1>1 DEF InHand
    <3>1. CASE j = next
      BY <1>4, <1>5, <3>1
    <3>2. CASE j \in tasks /\ j # k
      <4>1. k.src # s
        BY <2>1, <3>2 DEF DeviceOK, Single
      <4>2. j.op \in {"switch", "stop"} => pubs[j.pub].src = s
        BY <3>2 DEF MediaInv, TaskOK
      <4>3. j.op \in {"switch", "stop"} => j.pub # k.pub
        BY <1>4, <4>1, <4>2
      <4> QED
        BY <1>6, <2>1, <3>2, <4>3 DEF DeviceOK, InHand
    <3> QED
      BY <1>2, <3>1, <3>2
  <2>4. Captured(s)'
    <3> SUFFICES ASSUME NEW x \in live, kinds[x] = s
                 PROVE  \/ \E i \in Range(listed') : pubs[i].src = s /\ pubs[i].track = x
                        \/ \E j \in tasks' : j.src = s /\ Has(j, x)
      BY <1>1 DEF Captured, Has
    <3>1. ASSUME NEW i \in Range(listed), pubs[i].src = s, pubs[i].track = x
          PROVE  \/ \E j \in Range(listed') : pubs[j].src = s /\ pubs[j].track = x
                 \/ \E j \in tasks' : j.src = s /\ Has(j, x)
      <4>1. CASE i = k.pub
        <5>1. Has(next, x) /\ next.src = s
          BY <1>4, <1>5, <3>1, <4>1 DEF Has
        <5> QED
          BY <1>2, <5>1
      <4>2. CASE i # k.pub
        BY <1>6, <3>1, <4>2
      <4> QED
        BY <4>1, <4>2
    <3>2. ~Has(k, x)
      BY <1>1, <1>4 DEF Has
    <3> QED
      BY <1>2, <2>1, <3>1, <3>2 DEF DeviceOK, Captured
  <2>5. s \notin races.late => AsFlagged(s)'
    BY <1>1, <1>2, <1>4, <1>5, <1>6, <2>1 DEF DeviceOK, AsFlagged
  <2> QED
    BY <1>1, <2>2, <2>3, <2>4, <2>5 DEF DeviceOK, Still
<1> QED
  BY <1>7, <1>8, <1>9, <1>10 DEF MediaInv

LEMMA ScreenMedia ==
  ASSUME MediaInv, NEW t \in live, ScreenEnds(t)
  PROVE  MediaInv'
<1> DEFINE b == [NewTask EXCEPT !.op = "unshare", !.src = "screen"]
           lost == IF t \in heard THEN races.gone ELSE races.gone \cup {t}
<1>1. /\ acts' = acts + 1 /\ live' \subseteq live
      /\ mutedFlag' = mutedFlag /\ pubs' = pubs /\ kinds' = kinds
      /\ enabled' = enabled /\ present' = present
      /\ IF t \in heard /\ screen.flag THEN EndShare(b)
         ELSE /\ tasks' = tasks /\ screen' = screen /\ listed' = listed
              /\ races' = [races EXCEPT !.gone = lost]
  BY DEF ScreenEnds, Act, mesh
<1>2. MediaTypeOK /\ acts' \in Nat
  BY <1>1 DEF MediaInv, MediaTypeOK
<1>3. Fixed
  BY <1>1 DEF Fixed
<1>4. CASE t \in heard /\ screen.flag
  <2>1. NewTask \in Draft
    BY <1>2, NewTaskOK DEF MediaTypeOK
  <2>2. b \in Draft /\ b.op = "unshare" /\ b.src = "screen"
    BY <2>1 DEF Draft, Op, Source
  <2> HIDE DEF b
  <2> QED
    BY <1>1, <1>2, <1>3, <1>4, <2>2, EndShareOK
<1>5. CASE ~(t \in heard /\ screen.flag)
  <2>1. lost \in SUBSET Nat
    BY <1>2 DEF MediaTypeOK
  <2> HIDE DEF lost
  <2>2. /\ races' \in [late : SUBSET Device, clash : SUBSET Source, overlap : BOOLEAN,
                       swapped : BOOLEAN, gone : SUBSET Nat, came : SUBSET Party]
        /\ races'.late = races.late /\ races'.clash = races.clash
    BY <1>1, <1>2, <1>5, <2>1 DEF MediaTypeOK
  <2>3. MediaTypeOK'
    BY <1>1, <1>2, <1>5, <2>2 DEF MediaTypeOK
  <2> QED
    BY <1>1, <1>3, <1>5, <2>2, <2>3, IdleOK
<1> QED
  BY <1>4, <1>5

\* A participant comes: the loops over the connections have it before them again.
LEMMA ComesMedia ==
  ASSUME MediaInv, NEW p \in Party, PartyComes(p)
  PROVE  MediaInv'
<1> DEFINE again(k) == [k EXCEPT !.seen = @ \ {p}]
           met == IF StandIn THEN races.came \cup {p} ELSE races.came \ {p}
<1>1. /\ mutedFlag' = mutedFlag /\ pubs' = pubs /\ kinds' = kinds /\ enabled' = enabled
      /\ live' = live /\ listed' = listed /\ screen' = screen /\ acts' = acts + 1
      /\ present' = present \cup {p} /\ races' = [races EXCEPT !.came = met]
      /\ tasks' = {again(k) : k \in tasks}
  BY DEF PartyComes, Act, tracks, share
<1>2. MediaTypeOK /\ PubsOK
  BY DEF MediaInv
<1>3. /\ races' \in [late : SUBSET Device, clash : SUBSET Source, overlap : BOOLEAN,
                     swapped : BOOLEAN, gone : SUBSET Nat, came : SUBSET Party]
      /\ races'.late = races.late /\ races'.clash = races.clash
  <2>1. met \in SUBSET Party
    BY <1>2 DEF MediaTypeOK
  <2> HIDE DEF met
  <2> QED
    BY <1>1, <1>2, <2>1 DEF MediaTypeOK
<1>4. MediaTypeOK'
  <2>1. /\ mutedFlag' = mutedFlag /\ pubs' = pubs /\ kinds' = kinds /\ enabled' = enabled
        /\ live' = live /\ listed' = listed /\ screen' = screen
    BY <1>1
  <2>2. acts' \in Nat /\ present' \subseteq Party
    BY <1>1, <1>2 DEF MediaTypeOK
  <2> QED
    BY <1>2, <1>3, <2>1, <2>2 DEF MediaTypeOK
<1>5. ASSUME NEW k \in tasks
      PROVE  /\ again(k) \in Task /\ again(k).at = k.at /\ again(k).src = k.src
             /\ again(k).op = k.op /\ again(k).pub = k.pub /\ again(k).new = k.new
             /\ again(k).old = k.old /\ again(k).was = k.was
  <2>1. k \in Task
    BY DEF MediaInv, TaskOK
  <2> QED
    BY <2>1 DEF Task
<1>6. ASSUME NEW j \in tasks'
      PROVE  \E k \in tasks : /\ j = again(k) /\ j \in Task /\ j.at = k.at /\ j.src = k.src
                              /\ j.op = k.op /\ j.pub = k.pub /\ j.new = k.new
                              /\ j.old = k.old /\ j.was = k.was
  BY <1>1, <1>5
<1>7. ASSUME NEW k \in tasks
      PROVE  \E j \in tasks' : /\ j.at = k.at /\ j.src = k.src /\ j.op = k.op
                               /\ j.new = k.new /\ j.old = k.old
  BY <1>1, <1>5
<1> HIDE DEF again
<1>8. \A j \in tasks' : TaskOK(j)'
  <2> TAKE j \in tasks'
  <2>1. PICK k \in tasks : /\ j \in Task /\ j.at = k.at /\ j.src = k.src /\ j.op = k.op
                           /\ j.pub = k.pub /\ j.new = k.new
    BY <1>6
  <2>2. TaskOK(k)
    BY DEF MediaInv
  <2>3. TaskOK(j)
    BY <2>1, <2>2 DEF TaskOK, New
  <2> QED
    BY <1>1, <2>3, TaskKept
<1>9. PubsOK'
  <2>1. ASSUME NEW i \in tasks', NEW j \in tasks', i.at = "publish", j.at = "publish",
               i.new = j.new
        PROVE  i = j
    <3>1. PICK k \in tasks : i = again(k) /\ i.at = k.at /\ i.new = k.new
      BY <1>6
    <3>2. PICK o \in tasks : j = again(o) /\ j.at = o.at /\ j.new = o.new
      BY <1>6
    <3>3. k = o
      BY <1>2, <2>1, <3>1, <3>2 DEF PubsOK
    <3> QED
      BY <3>1, <3>2, <3>3
  <2> QED
    BY <1>1, <1>2, <2>1 DEF PubsOK
<1>10. ASSUME NEW s \in Device \ races'.clash PROVE DeviceOK(s)'
  <2>1. DeviceOK(s)
    BY <1>3, <1>10 DEF MediaInv
  <2>2. Single(s)'
    <3>1. ASSUME NEW i \in tasks', NEW j \in tasks', i.src = s, j.src = s PROVE i = j
      <4>1. PICK k \in tasks : i = again(k) /\ i.src = k.src
        BY <1>6
      <4>2. PICK o \in tasks : j = again(o) /\ j.src = o.src
        BY <1>6
      <4>3. k = o
        BY <2>1, <3>1, <4>1, <4>2 DEF DeviceOK, Single
      <4> QED
        BY <4>1, <4>2, <4>3
    <3> QED
      BY <1>1, <2>1, <3>1 DEF DeviceOK, Single
  <2>3. InHand(s)'
    <3> SUFFICES ASSUME NEW j \in tasks', j.src = s
                 PROVE  /\ j.op = "start" => \A i \in Range(listed) : pubs[i].src # s
                        /\ j.op = "switch" => j.pub \in Range(listed) /\ pubs[j.pub].track = j.old
                        /\ j.op = "stop" => IF j.at = "remove" THEN j.old = pubs[j.pub].track
                                            ELSE j.pub \in Range(listed)
      BY <1>1 DEF InHand
    <3>1. PICK k \in tasks : /\ j.at = k.at /\ j.src = k.src /\ j.op = k.op
                             /\ j.pub = k.pub /\ j.old = k.old
      BY <1>6
    <3> QED
      BY <2>1, <3>1 DEF DeviceOK, InHand
  <2>4. Captured(s)'
    <3>1. ASSUME NEW x, NEW k \in tasks, k.src = s, Has(k, x)
          PROVE  \E j \in tasks' : j.src = s /\ Has(j, x)
      <4>1. PICK j \in tasks' : /\ j.at = k.at /\ j.src = k.src /\ j.op = k.op
                                /\ j.new = k.new /\ j.old = k.old
        BY <1>7
      <4> QED
        BY <3>1, <4>1 DEF Has
    <3>2. ASSUME NEW x \in live, kinds[x] = s
          PROVE  \/ \E i \in Range(listed) : pubs[i].src = s /\ pubs[i].track = x
                 \/ \E j \in tasks' : j.src = s /\ Has(j, x)
      BY <2>1, <3>1, <3>2 DEF DeviceOK, Captured
    <3> QED
      BY <1>1, <3>2 DEF Captured, Has
  <2>5. ASSUME s \notin races.late PROVE AsFlagged(s)'
    <3>1. ASSUME NEW j \in tasks', j.src = s
          PROVE  /\ j.at = "publish" => (j.new \in enabled <=> ~mutedFlag[s])
                 /\ j.op = "switch" => (j.was <=> mutedFlag[s])
      <4>1. PICK k \in tasks : /\ j.at = k.at /\ j.src = k.src /\ j.op = k.op
                               /\ j.new = k.new /\ j.was = k.was
        BY <1>6
      <4> QED
        BY <2>1, <2>5, <3>1, <4>1 DEF DeviceOK, AsFlagged
    <3> QED
      BY <1>1, <2>1, <2>5, <3>1 DEF DeviceOK, AsFlagged
  <2> QED
    BY <1>3, <2>2, <2>3, <2>4, <2>5 DEF DeviceOK
<1> QED
  BY <1>4, <1>8, <1>9, <1>10 DEF MediaInv

\* The flag changes: what is published follows it at once, what a call at work has read does
\* not, and that device is not spoken for until its flag changes with no such call at work.
LEMMA MutedMedia ==
  ASSUME MediaInv, NEW d \in Device, NEW m \in BOOLEAN, SetDeviceMuted(d, m)
  PROVE  MediaInv'
<1> DEFINE i == Find(d)
           after == IF FlagTaken(d) THEN races.late \cup {d} ELSE races.late \ {d}
<1>1. /\ mutedFlag' = [mutedFlag EXCEPT ![d] = m] /\ acts' = acts + 1
      /\ IF i = 0 THEN pubs' = pubs /\ enabled' = enabled
         ELSE /\ pubs' = [pubs EXCEPT ![i].muted = m]
              /\ enabled' = IF m THEN enabled \ {pubs[i].track} ELSE enabled \cup {pubs[i].track}
      /\ races' = [races EXCEPT !.late = after]
      /\ kinds' = kinds /\ live' = live /\ listed' = listed /\ present' = present
      /\ screen' = screen /\ tasks' = tasks
  BY DEF SetDeviceMuted, Act, mesh, share
<1>2. MediaTypeOK /\ PubsOK
  BY DEF MediaInv
<1>3. /\ races' \in [late : SUBSET Device, clash : SUBSET Source, overlap : BOOLEAN,
                     swapped : BOOLEAN, gone : SUBSET Nat, came : SUBSET Party]
      /\ races'.late = after /\ races'.clash = races.clash
  <2>1. after \in SUBSET Device
    BY <1>2 DEF MediaTypeOK
  <2> HIDE DEF after
  <2> QED
    BY <1>1, <1>2, <2>1 DEF MediaTypeOK
<1>4. \/ i = 0 /\ \A j \in Range(listed) : pubs[j].src # d
      \/ i # 0 /\ i \in Range(listed) /\ i \in TrackId /\ pubs[i].src = d
  BY <1>2, FindOK
<1>5. i # 0 => pubs[i].track \in DOMAIN kinds /\ kinds[pubs[i].track] = d
  BY <1>2, <1>4 DEF PubsOK, Device
<1>6. /\ mutedFlag' \in [Device -> BOOLEAN] /\ (mutedFlag'[d] <=> m)
      /\ \A s \in Device : s # d => mutedFlag'[s] = mutedFlag[s]
  <2>1. mutedFlag \in [Device -> BOOLEAN]
    BY <1>2 DEF MediaTypeOK
  <2> QED
    BY <1>1, <2>1
<1> HIDE DEF i
<1>7. /\ pubs' \in [TrackId -> Publication]
      /\ \A j \in TrackId : pubs'[j].src = pubs[j].src /\ pubs'[j].track = pubs[j].track
      /\ \A j \in TrackId : j # i => pubs'[j] = pubs[j]
      /\ i # 0 => (pubs'[i].muted <=> m)
  <2>1. CASE i = 0
    BY <1>1, <1>2, <2>1 DEF MediaTypeOK
  <2>2. CASE i # 0
    <3>1. pubs \in [TrackId -> Publication] /\ i \in TrackId /\ pubs[i] \in Publication
      BY <1>2, <1>4, <2>2 DEF MediaTypeOK
    <3>2. pubs' = [pubs EXCEPT ![i].muted = m]
      BY <1>1, <2>2
    <3> QED
      BY <3>1, <3>2 DEF Publication
  <2> QED
    BY <2>1, <2>2
<1>8. /\ \A t : t \notin DOMAIN kinds \/ kinds[t] # d => (t \in enabled' <=> t \in enabled)
      /\ enabled' \subseteq DOMAIN kinds
      /\ i # 0 => (pubs[i].track \in enabled' <=> ~m)
  BY <1>1, <1>2, <1>5 DEF MediaTypeOK
<1>9. MediaTypeOK'
  <2>1. kinds' = kinds /\ live' = live /\ listed' = listed /\ present' = present /\ screen' = screen
    BY <1>1
  <2>2. acts' \in Nat
    BY <1>1, <1>2 DEF MediaTypeOK
  <2> QED
    BY <1>2, <1>3, <1>6, <1>7, <1>8, <2>1, <2>2 DEF MediaTypeOK
<1>10. \A k \in tasks' : TaskOK(k)'
  <2> TAKE k \in tasks'
  <2>1. TaskOK(k)
    BY <1>1 DEF MediaInv
  <2> QED
    BY <1>1, <1>7, <2>1, TaskKept
<1>11. Range(listed) \subseteq TrackId
  BY <1>2 DEF MediaTypeOK, Range
<1>12. PubsOK'
  <2>1. \A j, k \in tasks' : j.at = "publish" /\ k.at = "publish" /\ j.new = k.new => j = k
    BY <1>1, <1>2 DEF PubsOK
  <2>2. \A j \in TrackId : pubs'[j].src # "none" =>
          /\ j \in DOMAIN kinds
          /\ pubs'[j].track \in DOMAIN kinds /\ kinds[pubs'[j].track] = pubs'[j].src
    BY <1>2, <1>7 DEF PubsOK
  <2>3. \A j \in Range(listed) : pubs'[j].src # "none"
    BY <1>2, <1>7, <1>11 DEF PubsOK
  <2>4. screen.pub # 0 => screen.pub \in TrackId /\ pubs'[screen.pub].src = "screen"
    BY <1>2, <1>7 DEF PubsOK
  <2> QED
    BY <1>1, <2>1, <2>2, <2>3, <2>4 DEF PubsOK
<1>13. ASSUME NEW s \in Device \ races'.clash PROVE DeviceOK(s)'
  <2>1. DeviceOK(s) /\ s # "none"
    BY <1>3, <1>13 DEF MediaInv, Device
  <2>2. \A j \in Range(listed) : pubs'[j].src = pubs[j].src /\ pubs'[j].track = pubs[j].track
    BY <1>7, <1>11
  <2>3. Single(s)'
    <3>1. ASSUME NEW j \in Range(listed), NEW k \in Range(listed), pubs'[j].src = s, pubs'[k].src = s
          PROVE  j = k
      BY <2>1, <2>2, <3>1 DEF DeviceOK, Single
    <3> QED
      BY <1>1, <2>1, <3>1 DEF DeviceOK, Single
  <2>4. InHand(s)'
    <3> SUFFICES ASSUME NEW k \in tasks, k.src = s
                 PROVE  /\ k.op = "start" => \A j \in Range(listed) : pubs'[j].src # s
                        /\ k.op = "switch" => k.pub \in Range(listed) /\ pubs'[k.pub].track = k.old
                        /\ k.op = "stop" => IF k.at = "remove" THEN k.old = pubs'[k.pub].track
                                            ELSE k.pub \in Range(listed)
      BY <1>1 DEF InHand
    <3>1. k.op \in {"switch", "stop"} => pubs'[k.pub].track = pubs[k.pub].track
      BY <1>7 DEF MediaInv, TaskOK
    <3> QED
      BY <2>1, <2>2, <3>1 DEF DeviceOK, InHand
  <2>5. Captured(s)'
    <3>1. ASSUME NEW x \in live, kinds[x] = s
          PROVE  \/ \E j \in Range(listed) : pubs'[j].src = s /\ pubs'[j].track = x
                 \/ \E k \in tasks : k.src = s /\ Has(k, x)
      BY <2>1, <2>2, <3>1 DEF DeviceOK, Captured
    <3> QED
      BY <1>1, <3>1 DEF Captured, Has
  <2>6. CASE s = d
    <3>1. ASSUME s \notin races'.late PROVE AsFlagged(s)'
      <4>1. ~FlagTaken(d)
        BY <1>3, <2>6, <3>1
      <4>2. \A k \in tasks : k.src = d => k.op # "switch" /\ k.at # "publish"
        <5> TAKE k \in tasks
        <5>1. TaskOK(k)
          BY DEF MediaInv
        <5> QED
          BY <4>1, <5>1 DEF FlagTaken, TaskOK, Device
      <4>3. ASSUME NEW j \in Range(listed), pubs'[j].src = d
            PROVE  /\ pubs'[j].muted <=> mutedFlag'[d]
                   /\ pubs'[j].track \in enabled' <=> ~mutedFlag'[d]
        <5>1. pubs[j].src = d
          BY <2>2, <4>3
        <5>2. i # 0 /\ j = i
          BY <1>4, <2>1, <2>6, <5>1 DEF DeviceOK, Single
        <5>3. pubs'[j].track = pubs[i].track
          BY <2>2, <5>2
        <5>4. pubs'[j].track \in enabled' <=> ~mutedFlag'[d]
          BY <1>6, <1>8, <5>2, <5>3
        <5>5. pubs'[j].muted <=> mutedFlag'[d]
          BY <1>6, <1>7, <5>2
        <5> QED
          BY <5>4, <5>5
      <4> QED
        BY <1>1, <2>6, <4>2, <4>3 DEF AsFlagged
    <3> QED
      BY <2>3, <2>4, <2>5, <3>1 DEF DeviceOK
  <2>7. CASE s # d
    <3>1. ASSUME s \notin races'.late PROVE AsFlagged(s)'
      <4>1. s \notin races.late
        BY <1>3, <2>7, <3>1
      <4>2. ASSUME NEW j \in Range(listed), pubs'[j].src = s
            PROVE  /\ pubs'[j].muted <=> mutedFlag'[s]
                   /\ pubs'[j].track \in enabled' <=> ~mutedFlag'[s]
        <5>1. j \in TrackId /\ pubs[j].src = s
          BY <1>11, <2>2, <4>2
        <5>2. pubs'[j] = pubs[j]
          <6>1. CASE i = 0
            BY <1>1, <6>1
          <6>2. CASE i # 0
            BY <1>4, <1>7, <2>7, <5>1, <6>2
          <6> QED
            BY <6>1, <6>2
        <5>3. kinds[pubs[j].track] = s
          BY <1>2, <2>1, <5>1 DEF PubsOK
        <5>4. pubs[j].track \in enabled' <=> pubs[j].track \in enabled
          BY <1>8, <2>7, <5>3
        <5>5. mutedFlag'[s] = mutedFlag[s]
          BY <1>6, <2>7
        <5> QED
          BY <2>1, <4>1, <5>1, <5>2, <5>4, <5>5 DEF DeviceOK, AsFlagged
      <4>3. ASSUME NEW k \in tasks, k.src = s
            PROVE  /\ k.at = "publish" => (k.new \in enabled' <=> ~mutedFlag'[s])
                   /\ k.op = "switch" => (k.was <=> mutedFlag'[s])
        <5>1. k.at = "publish" => kinds[k.new] = s
          BY <4>3 DEF MediaInv, TaskOK, New
        <5>2. k.at = "publish" => (k.new \in enabled' <=> k.new \in enabled)
          BY <1>8, <2>7, <5>1
        <5>3. mutedFlag'[s] = mutedFlag[s]
          BY <1>6, <2>7
        <5> QED
          BY <2>1, <4>1, <4>3, <5>2, <5>3 DEF DeviceOK, AsFlagged
      <4> QED
        BY <1>1, <4>2, <4>3 DEF AsFlagged
    <3> QED
      BY <2>3, <2>4, <2>5, <3>1 DEF DeviceOK
  <2> QED
    BY <2>6, <2>7
<1> QED
  BY <1>9, <1>10, <1>12, <1>13 DEF MediaInv

LEMMA LeavesMedia ==
  ASSUME MediaInv, NEW p \in Party, PartyLeaves(p)
  PROVE  MediaInv'
<1>1. /\ mutedFlag' = mutedFlag /\ pubs' = pubs /\ kinds' = kinds /\ enabled' = enabled
      /\ live' = live /\ listed' = listed /\ screen' = screen /\ acts' = acts + 1
      /\ present' \subseteq present /\ races' = races /\ tasks' = tasks
  BY DEF PartyLeaves, Act, tracks, publications, share
<1>2. MediaTypeOK' /\ Fixed
  BY <1>1 DEF MediaInv, MediaTypeOK, Fixed
<1> QED
  BY <1>1, <1>2, IdleOK

LEMMA MediaInvInit == MediaInit => MediaInv
<1> SUFFICES ASSUME MediaInit PROVE MediaInv
  OBVIOUS
<1>1. MediaTypeOK
  <2>1. [i \in TrackId |-> [src |-> "none", track |-> 0, muted |-> FALSE]]
          \in [TrackId -> Publication]
    BY DEF Publication
  <2> QED
    BY <2>1 DEF MediaInit, MediaTypeOK
<1>2. tasks = {} /\ live = {} /\ Range(listed) = {} /\ screen.pub = 0
      /\ \A i \in TrackId : pubs[i].src = "none"
  BY DEF MediaInit, Range
<1> QED
  BY <1>1, <1>2 DEF MediaInv, PubsOK, DeviceOK, Single, InHand, Captured, AsFlagged

LEMMA MediaInvNext == MediaInv /\ [MediaNext]_mediaVars => MediaInv'
<1> SUFFICES ASSUME MediaInv, [MediaNext]_mediaVars PROVE MediaInv'
  OBVIOUS
<1>1. CASE UNCHANGED mediaVars
  <2>1. /\ mutedFlag' = mutedFlag /\ pubs' = pubs /\ kinds' = kinds /\ enabled' = enabled
        /\ live' = live /\ listed' = listed /\ screen' = screen /\ acts' = acts
        /\ present' = present /\ races' = races /\ tasks' = tasks
    BY <1>1 DEF mediaVars, tracks, mesh, publications, share
  <2>2. MediaTypeOK' /\ Fixed
    BY <2>1 DEF MediaInv, MediaTypeOK, Fixed
  <2> QED
    BY <2>1, <2>2, IdleOK
<1>2. CASE MediaNext
  BY <1>2, StartMedia, StopDeviceMedia, SetDeviceMedia, MutedMedia, StartShareMedia,
     StopShareMedia, ApplyMedia, RefuseMedia, AcquireMedia, SeenMedia, ListMedia, SwappedMedia,
     RemovedMedia, AnnounceMedia, RestoredMedia, ScreenMedia, ComesMedia, LeavesMedia
  DEF MediaNext
<1> QED
  BY <1>1, <1>2

LEMMA MuteHolds == MediaInv => MuteHonoured
<1> SUFFICES ASSUME MediaInv, NEW s \in Device \ (races.late \cup races.clash)
             PROVE  /\ \A i \in Listed : pubs[i].src = s =>
                         pubs[i].muted = mutedFlag[s]
                         /\ (pubs[i].track \in enabled) = ~mutedFlag[s]
                    /\ mutedFlag[s] => \A p \in present : \A t \in sent[p] \cap live \cap enabled :
                         kinds[t] = s =>
                           \E k \in tasks : \/ k.at = "swap" /\ k.new = t
                                            \/ k.at = "remove" /\ k.old = t
  BY DEF MuteHonoured
<1>1. Listed = Range(listed)
  BY DEF Listed, Range
<1>2. Captured(s) /\ AsFlagged(s) /\ MediaTypeOK
  BY DEF MediaInv, DeviceOK
<1>3. ASSUME NEW i \in Listed, pubs[i].src = s
      PROVE  pubs[i].muted = mutedFlag[s] /\ (pubs[i].track \in enabled) = ~mutedFlag[s]
  <2>1. pubs[i].muted \in BOOLEAN /\ mutedFlag[s] \in BOOLEAN
    BY <1>1, <1>2 DEF MediaTypeOK, Publication, Range
  <2>2. (pubs[i].muted <=> mutedFlag[s]) /\ (pubs[i].track \in enabled <=> ~mutedFlag[s])
    BY <1>1, <1>2, <1>3 DEF AsFlagged
  <2> QED
    BY <2>1, <2>2
<1>4. ASSUME mutedFlag[s], NEW t \in live \cap enabled, kinds[t] = s
      PROVE  \E k \in tasks : (k.at = "swap" /\ k.new = t) \/ (k.at = "remove" /\ k.old = t)
  <2>1. ~ \E i \in Range(listed) : pubs[i].src = s /\ pubs[i].track = t
    BY <1>2, <1>4 DEF AsFlagged
  <2>2. PICK k \in tasks : k.src = s /\ Has(k, t)
    BY <1>2, <1>4, <2>1 DEF Captured
  <2>3. ~(k.at = "publish" /\ k.new = t)
    BY <1>2, <1>4, <2>2 DEF AsFlagged
  <2> QED
    BY <2>2, <2>3 DEF Has
<1>5. mutedFlag[s] => \A p \in present : \A t \in sent[p] \cap live \cap enabled :
        kinds[t] = s =>
          \E k \in tasks : (k.at = "swap" /\ k.new = t) \/ (k.at = "remove" /\ k.old = t)
  BY <1>4
<1> QED
  BY <1>3, <1>5

(***************************************************************************)
(* A microphone or camera whose flag is muted has its publication marked   *)
(* and disabled, and is sent to no peer as a live enabled track but while  *)
(* a switch of device or a removal is under way (ControlsManager.ts,       *)
(* room.ts), unless the flag changed under a call that had read it or      *)
(* calls on the device overlapped: for every set of remote participants    *)
(* and every number of calls, tracks and publications.                     *)
(***************************************************************************)
THEOREM MuteObeyed == PartsSpec => []MuteHonoured
<1>1. PartsInit => MediaInv
  BY PartsSteps, MediaInvInit
<1>2. MediaInv /\ [PartsNext]_partsVars => MediaInv'
  BY PartsSteps, MediaInvNext
<1> QED
  BY <1>1, <1>2, MuteHolds, PTL DEF PartsSpec

-----------------------------------------------------------------------------
(* What is captured, sent and managed.                                     *)

\* A call that ends a share: it has still to stop the display track and to say so.
Unshares(k) == k.op = "unshare" \/ (k.op = "stop" /\ k.at \in {"swap", "announce"})

\* The tracks a call holds have the kinds it takes them for.
HoldsOK(k) ==
  /\ k.at \in {"apply", "acquire"} => k.seen = {}
  /\ k.op = "share" /\ k.at = "swap" =>
       /\ New(k)
       /\ k.old \in DOMAIN kinds /\ kinds[k.old] = "camera"
  /\ k.op = "switch" => /\ k.old \in DOMAIN kinds /\ kinds[k.old] = k.src
                        /\ k.at = "swap" => k.new # k.old
  /\ Unshares(k) /\ k.at = "swap" => k.old \in heard /\ k.new \in DOMAIN kinds
  /\ k.at = "remove" => k.old \in DOMAIN kinds /\ kinds[k.old] = k.src
  /\ k.op = "stop" /\ k.at \in {"swap", "announce", "restored"} => k.src = "camera"
  /\ k.shown \in heard \cup {0}

\* The share as the application sees it, and what the listed publications are.
ShareOK ==
  /\ heard \subseteq {t \in DOMAIN kinds : kinds[t] = "screen"} /\ said \in {"start", "stop"}
  /\ IF screen.flag THEN screen.track \in heard /\ screen.mode \in {"separate", "replace"}
     ELSE screen.track = 0 /\ screen.mode = "none"
  /\ screen.mode = "separate" => screen.pub = screen.track
  /\ \A i \in TrackId : pubs[i].src = "screen" => pubs[i].track = i
  /\ \A m, n \in DOMAIN listed : listed[m] = listed[n] => m = n
  /\ sent \in [Party -> SUBSET DOMAIN kinds] /\ managed \subseteq DOMAIN kinds

\* While the calls on the share do not overlap: a live display track is shared, or a call will
\* share or stop it; what is shared, or will be, captures unless it ended unheard.
ScreenOK ==
  /\ \A j, k \in tasks : j.src = "screen" /\ k.src = "screen" => j = k
  /\ \A k \in tasks : k.op = "share" =>
       /\ ~screen.flag
       /\ k.at \in {"publish", "swap"} => k.new \in live \cup races.gone /\ k.new \notin heard
  /\ screen.flag => /\ screen.track \in live \cup races.gone
                    /\ \A k \in tasks : k.shown # screen.track
  /\ \A i \in Range(listed) : pubs[i].src = "screen" =>
       screen.mode = "separate" /\ screen.pub = i
  /\ \A t \in live : kinds[t] = "screen" =>
       \/ screen.flag /\ screen.track = t
       \/ \E k \in tasks : \/ k.op = "share" /\ k.at \in {"publish", "swap"} /\ k.new = t
                           \/ Unshares(k) /\ k.shown = t

\* While the calls on a device do not overlap: what is published, or will be, captures.
LiveOK(s) ==
  /\ \A i \in Range(listed) : pubs[i].src = s => pubs[i].track \in live
  /\ \A k \in tasks : k.src = s =>
       /\ k.at = "publish" \/ (k.op = "switch" /\ k.at = "swap") => k.new \in live
       /\ k.op = "stop" /\ k.at = "remove" => \A i \in Range(listed) : pubs[i].src # s

\* While calls that look at one another do not overlap: the camera a share replaces is published.
Camera(t) == \E i \in Range(listed) : pubs[i].src = "camera" /\ pubs[i].track = t
ApartOK ==
  /\ races.clash = {}
  /\ \A j, k \in tasks : j.src \in Touches(k.src) => j = k
  /\ screen.mode = "replace" => \E i \in Range(listed) : pubs[i].src = "camera"
  /\ \A k \in tasks :
       /\ k.op = "share" /\ k.at = "swap" => Camera(k.old)
       /\ Unshares(k) /\ k.at = "swap" => Camera(k.new)
       /\ Unshares(k) \/ k.at = "restored" => ~screen.flag
  /\ (said = "start" <=> screen.flag) \/ \E k \in tasks : Unshares(k)

\* What is sent beyond what is wanted, and what is not yet, or no more, sent of that.
Extra(k, p, t) ==
  \/ k.at = "publish" /\ k.new = t
  \/ k.at = "swap" /\ k.op \in {"switch", "share"} /\ k.old \in Wanted /\ k.new = t /\ p \notin k.todo
  \/ k.at = "swap" /\ Unshares(k) /\ k.old = t /\ p \in k.todo
  \/ k.at = "remove" /\ k.old = t /\ p \notin k.seen
Lacks(k, p, t) ==
  \/ k.at = "swap" /\ k.op \in {"switch", "share"} /\ k.old = t /\ p \notin k.todo
  \/ k.at = "swap" /\ Unshares(k) /\ k.new = t /\ p \in k.todo /\ k.old \in sent[p]
PeerOK(p) ==
  /\ \A t \in sent[p] : t \in Wanted \/ \E k \in tasks : Extra(k, p, t)
  /\ \A t \in Wanted : t \in sent[p] \/ \E k \in tasks : Lacks(k, p, t)
  /\ \A k \in tasks :
       /\ k.at = "publish" /\ p \in k.seen => k.new \in sent[p]
       /\ k.at = "swap" /\ k.op \in {"switch", "share"} /\ k.old \in Wanted /\ p \notin k.todo =>
            k.new \in sent[p] /\ k.old \notin sent[p]

ManagedOK == managed = {pubs[i].track : i \in {i \in Range(listed) : pubs[i].src # "microphone"}}

CaptureInv ==
  /\ (\A k \in tasks : HoldsOK(k)) /\ ShareOK
  /\ "screen" \notin races.clash => ScreenOK
  /\ \A s \in Device \ races.clash : LiveOK(s)
  /\ ~races.overlap => /\ ApartOK
                       /\ \A p \in present \ races.came : PeerOK(p)
                       /\ ~races.swapped => ManagedOK

\* A call is where it was, and the tracks it holds too.
LEMMA HoldsKept ==
  ASSUME NEW k, HoldsOK(k), heard \subseteq heard',
         \A t \in DOMAIN kinds : t \in DOMAIN kinds' /\ kinds'[t] = kinds[t]
  PROVE  HoldsOK(k)'
<1>1. New(k) => New(k)'
  BY DEF New
<1> QED
  BY <1>1 DEF HoldsOK

\* What is captured, published, sent and managed stays as it is.
Quiet ==
  /\ kinds' = kinds /\ pubs' = pubs /\ listed' = listed /\ live' = live /\ screen' = screen
  /\ heard' = heard /\ said' = said /\ sent' = sent /\ managed' = managed

LEMMA QuietShare == ShareOK /\ Quiet => ShareOK'
  BY DEF ShareOK, Quiet

LEMMA QuietHolds ==
  ASSUME Quiet, NEW k, HoldsOK(k)
  PROVE  HoldsOK(k)'
<1>1. heard \subseteq heard' /\ \A t \in DOMAIN kinds : t \in DOMAIN kinds' /\ kinds'[t] = kinds[t]
  BY DEF Quiet
<1> QED
  BY <1>1, HoldsKept

LEMMA QuietWanted == Quiet => Wanted' = Wanted /\ (ManagedOK => ManagedOK')
  BY DEF Quiet, Wanted, Listed, ManagedOK

LEMMA TouchesOK ==
  /\ \A s \in Source : s \in Touches(s)
  /\ \A r, s \in Source : r \in Touches(s) => s \in Touches(r)
  BY DEF Touches, Source, Device

\* Publications keep their sources and tracks.
SamePubs ==
  /\ listed' = listed
  /\ \A i \in TrackId : pubs'[i].src = pubs[i].src /\ pubs'[i].track = pubs[i].track

LEMMA PubsSame ==
  ASSUME MediaTypeOK, SamePubs
  PROVE  /\ \A i \in Range(listed) : pubs'[i].src = pubs[i].src /\ pubs'[i].track = pubs[i].track
         /\ screen' = screen => Wanted' = Wanted
         /\ managed' = managed => (ManagedOK => ManagedOK')
<1>1. Range(listed) \subseteq TrackId /\ Listed = Range(listed)
  BY DEF MediaTypeOK, Range, Listed
<1>2. \A i \in Range(listed) : pubs'[i].src = pubs[i].src /\ pubs'[i].track = pubs[i].track
  BY <1>1 DEF SamePubs
<1>3. Listed' = Range(listed)
  BY <1>1 DEF SamePubs, Listed, Range
<1>4. ASSUME screen' = screen PROVE Wanted' = Wanted
  BY <1>1, <1>2, <1>3, <1>4 DEF Wanted
<1>5. ASSUME managed' = managed, ManagedOK PROVE ManagedOK'
  BY <1>2, <1>5 DEF ManagedOK, SamePubs
<1> QED
  BY <1>2, <1>4, <1>5

\* Nothing happens to what is captured, published, sent and managed; or a participant leaves.
LEMMA NothingServed ==
  ASSUME MediaInv, CaptureInv, tasks' = tasks, present' \subseteq present, SamePubs,
         kinds' = kinds, live' = live, screen' = screen,
         heard' = heard, said' = said, managed' = managed, ShareOK',
         \A p \in present' : sent'[p] = sent[p],
         races'.clash = races.clash, races'.overlap = races.overlap,
         races'.swapped = races.swapped, races'.gone = races.gone, races'.came = races.came
  PROVE  CaptureInv'
<1>1. \A k \in tasks' : HoldsOK(k)'
  <2> TAKE k \in tasks'
  <2>1. HoldsOK(k)
    BY DEF CaptureInv
  <2> QED
    BY <2>1, HoldsKept
<1>2. \A i \in Range(listed) : pubs'[i].src = pubs[i].src /\ pubs'[i].track = pubs[i].track
  BY PubsSame DEF MediaInv
<1>3. listed' = listed
  BY DEF SamePubs
<1>4. ASSUME "screen" \notin races'.clash PROVE ScreenOK'
  <2>1. ScreenOK
    BY <1>4 DEF CaptureInv
  <2> QED
    BY <1>2, <1>3, <2>1 DEF ScreenOK
<1>5. ASSUME NEW s \in Device \ races'.clash PROVE LiveOK(s)'
  <2>1. LiveOK(s)
    BY <1>5 DEF CaptureInv
  <2> QED
    BY <1>2, <1>3, <2>1 DEF LiveOK
<1>6. ASSUME ~races'.overlap
      PROVE  /\ ApartOK'
             /\ \A p \in present' \ races'.came : PeerOK(p)'
             /\ ~races'.swapped => ManagedOK'
  <2>1. ApartOK /\ (~races.swapped => ManagedOK) /\ (\A p \in present \ races.came : PeerOK(p))
    BY <1>6 DEF CaptureInv
  <2>2. ApartOK'
    <3>1. \A t : Camera(t)' <=> Camera(t)
      BY <1>2, <1>3 DEF Camera
    <3>2. (\E i \in Range(listed') : pubs'[i].src = "camera")
            <=> (\E i \in Range(listed) : pubs[i].src = "camera")
      BY <1>2, <1>3
    <3> QED
      BY <2>1, <3>1, <3>2 DEF ApartOK
  <2>3. (~races'.swapped => ManagedOK') /\ Wanted' = Wanted
    BY <2>1, PubsSame DEF MediaInv
  <2>4. ASSUME NEW p \in present' \ races'.came PROVE PeerOK(p)'
    <3>1. sent'[p] = sent[p] /\ PeerOK(p)
      BY <2>1, <2>4
    <3>2. \A k \in tasks : \A t : Extra(k, p, t)' <=> Extra(k, p, t)
      BY <2>3 DEF Extra
    <3>3. \A k \in tasks : \A t : Lacks(k, p, t)' <=> Lacks(k, p, t)
      BY <3>1 DEF Lacks
    <3> QED
      BY <2>3, <3>1, <3>2, <3>3 DEF PeerOK
  <2> QED
    BY <2>2, <2>3, <2>4
<1> QED
  BY <1>1, <1>4, <1>5, <1>6 DEF CaptureInv

\* A call begins that waits for a device.
LEMMA QuietEnter ==
  ASSUME MediaInv, CaptureInv, Quiet, present' = present, NEW k, Enter(k), TaskOK(k), HoldsOK(k),
         k.op \in {"start", "share", "switch"}, k.at \in {"apply", "acquire"}, k.shown = 0,
         k.op = "share" => ~screen.flag
  PROVE  CaptureInv'
<1> DEFINE running == {o.src : o \in tasks}
           both == IF k.src \in running THEN races.clash \cup {k.src} ELSE races.clash
           over == races.overlap \/ running \cap Touches(k.src) # {}
<1>1. /\ tasks' = tasks \cup {k} /\ k.src \in Source
      /\ races' = [races EXCEPT !.clash = both, !.overlap = over]
  BY DEF Enter, TaskOK, Task
<1>2. /\ races'.clash = both /\ races'.overlap = over /\ races'.gone = races.gone
      /\ races'.came = races.came /\ races'.swapped = races.swapped
  <2>1. races \in [late : SUBSET Device, clash : SUBSET Source, overlap : BOOLEAN,
                   swapped : BOOLEAN, gone : SUBSET Nat, came : SUBSET Party]
    BY DEF MediaInv, MediaTypeOK
  <2> HIDE DEF both, over
  <2> QED
    BY <1>1, <2>1
<1>3. /\ kinds' = kinds /\ pubs' = pubs /\ listed' = listed /\ live' = live /\ screen' = screen
      /\ heard' = heard /\ said' = said /\ sent' = sent /\ managed' = managed
  BY DEF Quiet
<1>4. \A j \in tasks' : HoldsOK(j)'
  <2> TAKE j \in tasks'
  <2>1. HoldsOK(j)
    BY <1>1 DEF CaptureInv
  <2> QED
    BY <2>1, QuietHolds
<1>5. ShareOK'
  BY QuietShare DEF CaptureInv
<1>6. ~Unshares(k) /\ k.at \notin {"publish", "swap", "remove", "restored"}
  BY DEF Unshares
<1>7. ASSUME "screen" \notin races'.clash PROVE ScreenOK'
  <2>1. ScreenOK /\ (k.src = "screen" => \A j \in tasks : j.src # "screen")
    BY <1>2, <1>7 DEF CaptureInv
  <2>2. screen.flag => screen.track # 0
    BY DEF CaptureInv, ShareOK, MediaInv, MediaTypeOK
  <2>3. \A i, j \in tasks' : i.src = "screen" /\ j.src = "screen" => i = j
    BY <1>1, <2>1 DEF ScreenOK
  <2>4. \A j \in tasks' : j.op = "share" =>
          /\ ~screen.flag
          /\ j.at \in {"publish", "swap"} => j.new \in live \cup races.gone /\ j.new \notin heard
    BY <1>1, <1>6, <2>1 DEF ScreenOK
  <2>5. screen.flag => /\ screen.track \in live \cup races.gone
                       /\ \A j \in tasks' : j.shown # screen.track
    BY <1>1, <2>1, <2>2 DEF ScreenOK
  <2>6. \A t \in live : kinds[t] = "screen" =>
          \/ screen.flag /\ screen.track = t
          \/ \E j \in tasks' : \/ j.op = "share" /\ j.at \in {"publish", "swap"} /\ j.new = t
                               \/ Unshares(j) /\ j.shown = t
    BY <1>1, <2>1 DEF ScreenOK
  <2>7. \A i \in Range(listed) : pubs[i].src = "screen" =>
          screen.mode = "separate" /\ screen.pub = i
    BY <2>1 DEF ScreenOK
  <2> QED
    BY <1>2, <1>3, <2>3, <2>4, <2>5, <2>6, <2>7 DEF ScreenOK, Unshares
<1>8. ASSUME NEW s \in Device \ races'.clash PROVE LiveOK(s)'
  <2>1. LiveOK(s)
    BY <1>2, <1>8 DEF CaptureInv
  <2>2. ~(k.at = "publish" \/ (k.op = "switch" /\ k.at = "swap")) /\ ~(k.op = "stop" /\ k.at = "remove")
    BY <1>6
  <2> QED
    BY <1>1, <1>3, <2>1, <2>2 DEF LiveOK
<1>9. ASSUME ~races'.overlap
      PROVE  /\ ApartOK'
             /\ \A p \in present' \ races'.came : PeerOK(p)'
             /\ ~races'.swapped => ManagedOK'
  <2>1. ~races.overlap /\ \A j \in tasks : j.src \notin Touches(k.src)
    BY <1>2, <1>9
  <2>2. ApartOK /\ (~races.swapped => ManagedOK) /\ (\A p \in present \ races.came : PeerOK(p))
    BY <2>1 DEF CaptureInv
  <2>3. races'.clash = {}
    <3>1. k.src \notin running
      BY <1>1, <2>1, TouchesOK
    <3> QED
      BY <1>2, <2>2, <3>1 DEF ApartOK
  <2>4. ASSUME NEW i \in tasks', NEW j \in tasks', i.src \in Touches(j.src) PROVE i = j
    <3>1. CASE i = k /\ j \in tasks
      <4>1. j.src \in Source
        BY <3>1 DEF MediaInv, TaskOK, Task
      <4> QED
        BY <1>1, <2>1, <2>4, <3>1, <4>1, TouchesOK
    <3>2. CASE i \in tasks /\ j = k
      BY <2>1, <2>4, <3>2
    <3>3. CASE i \in tasks /\ j \in tasks
      BY <2>2, <2>4, <3>3 DEF ApartOK
    <3> QED
      BY <1>1, <3>1, <3>2, <3>3
  <2>5. \A j \in tasks' : /\ j.op = "share" /\ j.at = "swap" => Camera(j.old)
                          /\ Unshares(j) /\ j.at = "swap" => Camera(j.new)
                          /\ Unshares(j) \/ j.at = "restored" => ~screen.flag
    BY <1>1, <1>6, <2>2 DEF ApartOK
  <2>6. ApartOK'
    <3>1. screen.mode = "replace" => \E i \in Range(listed) : pubs[i].src = "camera"
      BY <2>2 DEF ApartOK
    <3>2. (said = "start" <=> screen.flag) \/ \E j \in tasks' : Unshares(j)
      BY <1>1, <2>2 DEF ApartOK
    <3> QED
      BY <1>3, <2>3, <2>4, <2>5, <3>1, <3>2 DEF ApartOK, Camera, Unshares
  <2>7. ~races'.swapped => ManagedOK'
    BY <1>2, <2>2, QuietWanted
  <2>8. ASSUME NEW p \in present' \ races'.came PROVE PeerOK(p)'
    <3>1. PeerOK(p) /\ Wanted' = Wanted
      BY <1>2, <2>2, <2>8, QuietWanted
    <3>2. \A j \in tasks : \A t : (Extra(j, p, t)' <=> Extra(j, p, t)) /\ (Lacks(j, p, t)' <=> Lacks(j, p, t))
      BY <1>3, <3>1 DEF Extra, Lacks, Unshares
    <3> QED
      BY <1>1, <1>3, <1>6, <3>1, <3>2 DEF PeerOK
  <2> QED
    BY <2>6, <2>7, <2>8
<1> QED
  BY <1>4, <1>5, <1>7, <1>8, <1>9 DEF CaptureInv

LEMMA NewTaskFields ==
  acts \in Nat => NewTask \in Draft /\ NewTask.seen = {} /\ NewTask.shown = 0
<1> SUFFICES ASSUME acts \in Nat PROVE NewTask \in Draft /\ NewTask.seen = {} /\ NewTask.shown = 0
  OBVIOUS
<1>1. NewTask \in Draft
  BY NewTaskOK
<1>2. NewTask.seen = {} /\ NewTask.shown = 0
  BY DEF NewTask
<1> QED
  BY <1>1, <1>2

LEMMA StartServed ==
  ASSUME MediaInv, CaptureInv, NEW s \in Device, StartDevice(s)
  PROVE  CaptureInv'
<1> DEFINE k == [NewTask EXCEPT !.op = "start", !.src = s, !.at = "acquire"]
<1>1. Quiet /\ present' = present
      /\ IF Find(s) # 0 THEN tasks' = tasks /\ races' = races ELSE Enter(k)
  BY DEF StartDevice, NothingElse, tracks, mesh, publications, share, ReturnsAtOnce, Quiet
<1>2. ShareOK' /\ \A p \in present' : sent'[p] = sent[p]
  BY <1>1, QuietShare DEF Quiet, CaptureInv
<1>3. CASE Find(s) # 0
  BY <1>1, <1>2, <1>3, NothingServed DEF Quiet, SamePubs
<1>4. CASE Find(s) = 0
  <2>1. NewTask \in Draft /\ NewTask.seen = {} /\ NewTask.shown = 0 /\ s \in Source
    BY NewTaskFields DEF MediaInv, MediaTypeOK, Source
  <2>2. /\ k \in Draft /\ k.op = "start" /\ k.src = s /\ k.at = "acquire" /\ k.seen = {}
        /\ k.shown = 0
    BY <2>1 DEF Draft, Op, Place
  <2>3. Enter(k)
    BY <1>1, <1>4
  <2> HIDE DEF k
  <2>4. TaskOK(k)
    BY <2>1, <2>2, DraftOK DEF TaskOK, Op, Place
  <2>5. HoldsOK(k)
    BY <2>2 DEF HoldsOK, Unshares
  <2> QED
    BY <1>1, <2>2, <2>3, <2>4, <2>5, QuietEnter
<1> QED
  BY <1>3, <1>4

LEMMA StartShareServed == MediaInv /\ CaptureInv /\ StartShare => CaptureInv'
<1> SUFFICES ASSUME MediaInv, CaptureInv, StartShare PROVE CaptureInv'
  OBVIOUS
<1> DEFINE k == [NewTask EXCEPT !.op = "share", !.src = "screen", !.at = "acquire"]
<1>1. Quiet /\ present' = present
      /\ IF screen.flag THEN tasks' = tasks /\ races' = races ELSE Enter(k)
  BY DEF StartShare, NothingElse, tracks, mesh, publications, share, ReturnsAtOnce, Quiet
<1>2. ShareOK' /\ \A p \in present' : sent'[p] = sent[p]
  BY <1>1, QuietShare DEF Quiet, CaptureInv
<1>3. CASE screen.flag
  BY <1>1, <1>2, <1>3, NothingServed DEF Quiet, SamePubs
<1>4. CASE ~screen.flag
  <2>1. NewTask \in Draft /\ NewTask.seen = {} /\ NewTask.shown = 0 /\ "screen" \in Source
    BY NewTaskFields DEF MediaInv, MediaTypeOK, Source
  <2>2. /\ k \in Draft /\ k.op = "share" /\ k.src = "screen" /\ k.at = "acquire" /\ k.seen = {}
        /\ k.shown = 0
    BY <2>1 DEF Draft, Op, Place
  <2>3. Enter(k)
    BY <1>1, <1>4
  <2> HIDE DEF k
  <2>4. TaskOK(k)
    BY <2>1, <2>2, DraftOK DEF TaskOK, Op, Place
  <2>5. HoldsOK(k)
    BY <2>2 DEF HoldsOK, Unshares
  <2> QED
    BY <1>1, <1>4, <2>2, <2>3, <2>4, <2>5, QuietEnter
<1> QED
  BY <1>3, <1>4

LEMMA SetDeviceServed ==
  ASSUME MediaInv, CaptureInv, NEW s \in Device, SetDevice(s)
  PROVE  CaptureInv'
<1> DEFINE i == Find(s)
           k == [NewTask EXCEPT !.op = "switch", !.src = s, !.at = "apply",
                   !.pub = i, !.old = pubs[i].track, !.was = mutedFlag[s]]
<1>1. Quiet /\ present' = present
      /\ IF i = 0 THEN tasks' = tasks /\ races' = races ELSE Enter(k)
  BY DEF SetDevice, NothingElse, tracks, mesh, publications, share, ReturnsAtOnce, Quiet
<1>2. ShareOK' /\ \A p \in present' : sent'[p] = sent[p]
  BY <1>1, QuietShare DEF Quiet, CaptureInv
<1>3. CASE i = 0
  BY <1>1, <1>2, <1>3, NothingServed DEF Quiet, SamePubs
<1>4. CASE i # 0
  <2>1. NewTask \in Draft /\ NewTask.seen = {} /\ NewTask.shown = 0 /\ s \in Source
    BY NewTaskFields DEF MediaInv, MediaTypeOK, Source
  <2>2. i \in TrackId /\ pubs[i].src = s /\ s # "none"
    BY <1>4, FindOK DEF MediaInv, Device
  <2>3. /\ i \in Nat /\ pubs[i].track \in Nat /\ mutedFlag[s] \in BOOLEAN
        /\ pubs[i].track \in DOMAIN kinds /\ kinds[pubs[i].track] = s
    <3> HIDE DEF i
    <3>1. MediaTypeOK /\ PubsOK
      BY DEF MediaInv
    <3> QED
      BY <2>2, <3>1, MediaAssumption DEF MediaTypeOK, Publication, TrackId, PubsOK
  <2> HIDE DEF i
  <2>4. /\ k \in Draft /\ k.op = "switch" /\ k.src = s /\ k.at = "apply" /\ k.seen = {}
        /\ k.shown = 0 /\ k.pub = i /\ k.old = pubs[i].track
    BY <2>1, <2>3 DEF Draft, Op, Place
  <2>5. Enter(k)
    BY <1>1, <1>4
  <2> HIDE DEF k
  <2>6. TaskOK(k)
    BY <2>1, <2>2, <2>4, DraftOK DEF TaskOK, Op, Place
  <2>7. HoldsOK(k)
    BY <2>3, <2>4 DEF HoldsOK, Unshares
  <2> QED
    BY <1>1, <2>4, <2>5, <2>6, <2>7, QuietEnter
<1> QED
  BY <1>3, <1>4

\* A call goes on, or ends, that holds nothing back from any connection.
LEMMA QuietStep ==
  ASSUME MediaInv, CaptureInv, Quiet, present' = present, races' = races, NEW k \in tasks, NEW next,
         tasks' = (tasks \ {k}) \cup {next} \/ (tasks' = tasks \ {k} /\ ~Unshares(k)),
         next.src = k.src, next.op = k.op, next.shown = k.shown, HoldsOK(next),
         next.at \notin {"publish", "swap", "remove", "restored"}, Unshares(next) <=> Unshares(k),
         k.op = "share" => k.at \notin {"publish", "swap"},
         \A p \in present : \A t : ~Extra(k, p, t) /\ ~Lacks(k, p, t)
  PROVE  CaptureInv'
<1>1. /\ kinds' = kinds /\ pubs' = pubs /\ listed' = listed /\ live' = live /\ screen' = screen
      /\ heard' = heard /\ said' = said /\ sent' = sent /\ managed' = managed
  BY DEF Quiet
<1>2. \A j \in tasks' : j = next \/ (j \in tasks /\ j # k)
  OBVIOUS
<1>3. \A j \in tasks' : HoldsOK(j)'
  <2> TAKE j \in tasks'
  <2>1. HoldsOK(j)
    BY <1>2 DEF CaptureInv
  <2> QED
    BY <2>1, QuietHolds
<1>4. ShareOK'
  BY QuietShare DEF CaptureInv
<1>5. ASSUME "screen" \notin races'.clash PROVE ScreenOK'
  <2>1. ScreenOK
    BY <1>5 DEF CaptureInv
  <2>2. \A i, j \in tasks' : i.src = "screen" /\ j.src = "screen" => i = j
    BY <1>2, <2>1 DEF ScreenOK
  <2>3. \A j \in tasks' : j.op = "share" =>
          /\ ~screen.flag
          /\ j.at \in {"publish", "swap"} => j.new \in live \cup races.gone /\ j.new \notin heard
    BY <1>2, <2>1 DEF ScreenOK
  <2>4. screen.flag => /\ screen.track \in live \cup races.gone
                       /\ \A j \in tasks' : j.shown # screen.track
    BY <1>2, <2>1 DEF ScreenOK
  <2>5. ASSUME NEW t \in live, kinds[t] = "screen", ~(screen.flag /\ screen.track = t)
        PROVE  \E j \in tasks' : \/ j.op = "share" /\ j.at \in {"publish", "swap"} /\ j.new = t
                                 \/ Unshares(j) /\ j.shown = t
    <3>1. PICK j \in tasks : \/ j.op = "share" /\ j.at \in {"publish", "swap"} /\ j.new = t
                             \/ Unshares(j) /\ j.shown = t
      BY <2>1, <2>5 DEF ScreenOK
    <3>2. CASE j = k
      <4>1. Unshares(k) /\ next \in tasks' /\ Unshares(next) /\ next.shown = t
        BY <3>1, <3>2
      <4> QED
        BY <4>1
    <3>3. CASE j # k
      BY <3>1, <3>3
    <3> QED
      BY <3>2, <3>3
  <2>6. \A i \in Range(listed) : pubs[i].src = "screen" =>
          screen.mode = "separate" /\ screen.pub = i
    BY <2>1 DEF ScreenOK
  <2> QED
    BY <1>1, <2>2, <2>3, <2>4, <2>5, <2>6 DEF ScreenOK, Unshares
<1>6. ASSUME NEW s \in Device \ races'.clash PROVE LiveOK(s)'
  <2>1. LiveOK(s)
    BY <1>6 DEF CaptureInv
  <2>2. ASSUME NEW j \in tasks', j.src = s
        PROVE  /\ j.at = "publish" \/ (j.op = "switch" /\ j.at = "swap") => j.new \in live
               /\ j.op = "stop" /\ j.at = "remove" => \A i \in Range(listed) : pubs[i].src # s
    <3>1. CASE j = next
      BY <3>1
    <3>2. CASE j \in tasks
      BY <2>1, <2>2, <3>2 DEF LiveOK
    <3> QED
      BY <1>2, <3>1, <3>2
  <2> QED
    BY <1>1, <2>1, <2>2 DEF LiveOK
<1>7. ASSUME ~races'.overlap
      PROVE  /\ ApartOK'
             /\ \A p \in present' \ races'.came : PeerOK(p)'
             /\ ~races'.swapped => ManagedOK'
  <2>1. ApartOK /\ (~races.swapped => ManagedOK) /\ (\A p \in present \ races.came : PeerOK(p))
    BY <1>7 DEF CaptureInv
  <2>2. ASSUME NEW i \in tasks', NEW j \in tasks', i.src \in Touches(j.src) PROVE i = j
    BY <1>2, <2>1, <2>2 DEF ApartOK
  <2>3. \A j \in tasks' : /\ j.op = "share" /\ j.at = "swap" => Camera(j.old)
                          /\ Unshares(j) /\ j.at = "swap" => Camera(j.new)
                          /\ Unshares(j) \/ j.at = "restored" => ~screen.flag
    BY <1>2, <2>1 DEF ApartOK
  <2>4. (said = "start" <=> screen.flag) \/ \E j \in tasks' : Unshares(j)
    <3>1. CASE tasks' = tasks \ {k} /\ ~Unshares(k)
      BY <2>1, <3>1 DEF ApartOK
    <3>2. CASE tasks' = (tasks \ {k}) \cup {next}
      BY <2>1, <3>2 DEF ApartOK
    <3> QED
      BY <3>1, <3>2
  <2>5. ApartOK'
    <3>1. screen.mode = "replace" => \E i \in Range(listed) : pubs[i].src = "camera"
      BY <2>1 DEF ApartOK
    <3>2. races.clash = {}
      BY <2>1 DEF ApartOK
    <3> QED
      BY <1>1, <2>2, <2>3, <2>4, <3>1, <3>2 DEF ApartOK, Camera, Unshares
  <2>6. ASSUME NEW p \in present' \ races'.came PROVE PeerOK(p)'
    <3>1. PeerOK(p) /\ Wanted' = Wanted /\ p \in present
      BY <2>1, <2>6, QuietWanted
    <3>2. \A j, t : (Extra(j, p, t)' <=> Extra(j, p, t)) /\ (Lacks(j, p, t)' <=> Lacks(j, p, t))
      BY <1>1, <3>1 DEF Extra, Lacks, Unshares
    <3>3. \A t \in sent[p] : t \in Wanted \/ \E j \in tasks' : Extra(j, p, t)
      BY <3>1 DEF PeerOK
    <3>4. \A t \in Wanted : t \in sent[p] \/ \E j \in tasks' : Lacks(j, p, t)
      BY <3>1 DEF PeerOK
    <3>5. \A j \in tasks' :
            /\ j.at = "publish" /\ p \in j.seen => j.new \in sent[p]
            /\ j.at = "swap" /\ j.op \in {"switch", "share"} /\ j.old \in Wanted /\ p \notin j.todo =>
                 j.new \in sent[p] /\ j.old \notin sent[p]
      BY <1>2, <3>1 DEF PeerOK
    <3> QED
      BY <1>1, <3>1, <3>2, <3>3, <3>4, <3>5 DEF PeerOK
  <2> QED
    BY <2>1, <2>5, <2>6, QuietWanted
<1> QED
  BY <1>3, <1>4, <1>5, <1>6, <1>7 DEF CaptureInv

LEMMA ApplyServed ==
  ASSUME MediaInv, CaptureInv, NEW k \in tasks, ApplyConstraints(k) \/ Refuse(k)
  PROVE  CaptureInv'
<1> DEFINE next == [k EXCEPT !.at = "acquire"]
<1>1. /\ Quiet /\ present' = present /\ races' = races /\ k.at \in {"apply", "acquire"}
      /\ tasks' = tasks \ {k} \/ tasks' = (tasks \ {k}) \cup {next}
  BY DEF ApplyConstraints, Refuse, NothingElse, tracks, mesh, publications, share, Quiet, Return,
     Become
<1>2. TaskOK(k) /\ k \in Task /\ HoldsOK(k)
  BY DEF MediaInv, TaskOK, CaptureInv
<1>3. k.op \in {"start", "share", "switch"} /\ ~Unshares(k)
  BY <1>1, <1>2 DEF TaskOK, Unshares
<1>4. /\ next.at = "acquire" /\ next.src = k.src /\ next.op = k.op /\ next.shown = k.shown
      /\ next.old = k.old /\ next.seen = k.seen
  BY <1>2 DEF Task
<1> HIDE DEF next
<1>5. HoldsOK(next) /\ ~Unshares(next)
  BY <1>1, <1>2, <1>3, <1>4 DEF HoldsOK, Unshares
<1>6. \A p \in present : \A t : ~Extra(k, p, t) /\ ~Lacks(k, p, t)
  BY <1>1 DEF Extra, Lacks
<1> QED
  BY <1>1, <1>3, <1>4, <1>5, <1>6, QuietStep

LEMMA MutedServed ==
  ASSUME MediaInv, CaptureInv, NEW d \in Device, NEW m \in BOOLEAN, SetDeviceMuted(d, m)
  PROVE  CaptureInv'
<1> DEFINE i == Find(d)
           after == IF FlagTaken(d) THEN races.late \cup {d} ELSE races.late \ {d}
<1>1. /\ pubs' = IF i = 0 THEN pubs ELSE [pubs EXCEPT ![i].muted = m]
      /\ races' = [races EXCEPT !.late = after]
      /\ kinds' = kinds /\ live' = live /\ listed' = listed /\ present' = present
      /\ screen' = screen /\ tasks' = tasks /\ heard' = heard /\ said' = said
      /\ managed' = managed /\ sent' = sent
  BY DEF SetDeviceMuted, mesh, share
<1>2. MediaTypeOK /\ ShareOK
  BY DEF MediaInv, CaptureInv
<1>3. /\ races'.clash = races.clash /\ races'.overlap = races.overlap
      /\ races'.swapped = races.swapped /\ races'.gone = races.gone /\ races'.came = races.came
  BY <1>1, <1>2 DEF MediaTypeOK
<1> HIDE DEF i
<1>4. \A j \in TrackId : pubs'[j].src = pubs[j].src /\ pubs'[j].track = pubs[j].track
  <2>1. pubs \in [TrackId -> Publication]
    BY <1>2 DEF MediaTypeOK
  <2> QED
    BY <1>1, <2>1 DEF Publication
<1>5. SamePubs
  BY <1>1, <1>4 DEF SamePubs
<1>6. ShareOK'
  BY <1>1, <1>2, <1>4 DEF ShareOK
<1> QED
  BY <1>1, <1>3, <1>5, <1>6, NothingServed

LEMMA LeavesServed ==
  ASSUME MediaInv, CaptureInv, NEW p \in Party, PartyLeaves(p)
  PROVE  CaptureInv'
<1>1. /\ kinds' = kinds /\ live' = live /\ listed' = listed /\ present' = present \ {p}
      /\ screen' = screen /\ tasks' = tasks /\ heard' = heard /\ said' = said
      /\ managed' = managed /\ pubs' = pubs /\ races' = races
      /\ sent' = [sent EXCEPT ![p] = {}]
  BY DEF PartyLeaves, tracks, publications, share
<1>2. SamePubs
  BY <1>1 DEF SamePubs
<1>3. ShareOK
  BY DEF CaptureInv
<1>4. sent' \in [Party -> SUBSET DOMAIN kinds] /\ \A q \in present' : sent'[q] = sent[q]
  <2>1. sent \in [Party -> SUBSET DOMAIN kinds] /\ present \subseteq Party
    BY <1>3 DEF ShareOK, MediaInv, MediaTypeOK
  <2> QED
    BY <1>1, <2>1
<1>5. ShareOK'
  BY <1>1, <1>3, <1>4 DEF ShareOK
<1> QED
  BY <1>1, <1>2, <1>4, <1>5, NothingServed

\* The tracks a call has on the connections, or brings to them, are of the kinds it looks at.
Held(k, t) ==
  \/ k.at = "publish" /\ k.new = t
  \/ k.at = "swap" /\ t \in {k.new, k.old}
  \/ k.at = "remove" /\ k.old = t

LEMMA HeldKind ==
  ASSUME MediaInv, CaptureInv, ApartOK, NEW k \in tasks, NEW t, Held(k, t)
  PROVE  t \in DOMAIN kinds /\ kinds[t] \in Touches(k.src)
<1>1. TaskOK(k) /\ HoldsOK(k) /\ PubsOK /\ ShareOK /\ MediaTypeOK
  BY DEF MediaInv, CaptureInv
<1>2. k.src \in Source /\ k.src \in Touches(k.src) /\ (k.src = "screen" => "camera" \in Touches(k.src))
      /\ (k.src = "camera" => "screen" \in Touches(k.src))
  BY <1>1, TouchesOK DEF TaskOK, Task, Touches
<1>3. CASE k.at = "publish" /\ k.new = t
  BY <1>1, <1>2, <1>3 DEF TaskOK, New
<1>4. CASE k.at = "remove" /\ k.old = t
  BY <1>1, <1>2, <1>4 DEF HoldsOK
<1>5. CASE k.at = "swap" /\ t \in {k.new, k.old} /\ k.op = "switch"
  BY <1>1, <1>2, <1>5 DEF TaskOK, HoldsOK, New
<1>6. CASE k.at = "swap" /\ t \in {k.new, k.old} /\ k.op = "share"
  <2>1. k.src = "screen"
    BY <1>1, <1>6 DEF TaskOK
  <2> QED
    BY <1>1, <1>2, <1>6, <2>1 DEF HoldsOK, New
<1>7. CASE k.at = "swap" /\ t \in {k.new, k.old} /\ k.op \in {"stop", "unshare"}
  <2>1. Unshares(k) /\ k.src \in {"camera", "screen"}
    BY <1>1, <1>7 DEF TaskOK, HoldsOK, Unshares
  <2>2. k.old \in DOMAIN kinds /\ kinds[k.old] = "screen"
    BY <1>1, <1>7, <2>1 DEF HoldsOK, ShareOK
  <2>3. k.new \in DOMAIN kinds /\ kinds[k.new] = "camera"
    <3>1. PICK i \in Range(listed) : pubs[i].src = "camera" /\ pubs[i].track = k.new
      BY <1>7, <2>1 DEF ApartOK, Camera
    <3>2. i \in TrackId
      BY <1>1, <3>1 DEF MediaTypeOK, Range
    <3> QED
      BY <1>1, <3>1, <3>2 DEF PubsOK
  <2> QED
    BY <1>2, <1>7, <2>1, <2>2, <2>3
<1>8. k.op \in {"switch", "share", "stop", "unshare"} \/ k.at # "swap"
  BY <1>1 DEF TaskOK
<1> QED
  BY <1>3, <1>4, <1>5, <1>6, <1>7, <1>8 DEF Held

\* A track of the kinds one call looks at is in no other call's hands.
LEMMA HeldApart ==
  ASSUME MediaInv, CaptureInv, ApartOK, NEW j \in tasks, NEW t, Held(j, t),
         NEW s \in Source, j.src \notin Touches(s)
  PROVE  kinds[t] \notin Touches(s)
<1>1. kinds[t] \in Touches(j.src) /\ j.src \in Source
  BY HeldKind DEF MediaInv, TaskOK, Task
<1> QED
  BY <1>1 DEF Touches, Source, Device

LEMMA HeldOnce ==
  ASSUME MediaInv, CaptureInv, ApartOK, NEW j \in tasks, NEW k \in tasks, NEW t,
         Held(j, t), Held(k, t)
  PROVE  j = k
<1>1. k.src \in Source /\ kinds[t] \in Touches(k.src)
  BY HeldKind DEF MediaInv, TaskOK, Task
<1>2. j.src \in Touches(k.src)
  BY <1>1, HeldApart
<1> QED
  BY <1>2 DEF ApartOK

LEMMA ExtraHeld ==
  ASSUME NEW k, NEW p, NEW t, Extra(k, p, t) \/ Lacks(k, p, t)
  PROVE  Held(k, t)
  BY DEF Extra, Lacks, Held

\* What is wanted: the track of a publication, or the display track for the camera's.
LEMMA WantedOf ==
  ASSUME MediaInv, CaptureInv, NEW t
  PROVE  /\ t \in Wanted <=>
              \/ screen.mode = "replace" /\ t = screen.track
                 /\ \E i \in Range(listed) : pubs[i].src = "camera"
              \/ \E i \in Range(listed) : /\ t = pubs[i].track
                                          /\ ~(screen.mode = "replace" /\ pubs[i].src = "camera")
         /\ screen.mode = "replace" => /\ screen.track \in DOMAIN kinds
                                       /\ kinds[screen.track] = "screen"
         /\ \A i \in Range(listed) : /\ i \in TrackId
                                     /\ pubs[i].track \in DOMAIN kinds
                                     /\ kinds[pubs[i].track] = pubs[i].src
<1>1. Listed = Range(listed)
  BY DEF Listed, Range
<1>2. ShareOK /\ PubsOK /\ MediaTypeOK
  BY DEF CaptureInv, MediaInv
<1>3. \A i \in Range(listed) : i \in TrackId
  BY <1>2 DEF MediaTypeOK, Range
<1>4. \A i \in Range(listed) : pubs[i].track \in DOMAIN kinds /\ kinds[pubs[i].track] = pubs[i].src
  BY <1>2, <1>3 DEF PubsOK
<1>5. screen.mode = "replace" => screen.track \in DOMAIN kinds /\ kinds[screen.track] = "screen"
  BY <1>2 DEF ShareOK
<1>6. t \in Wanted <=>
        \/ screen.mode = "replace" /\ t = screen.track /\ \E i \in Range(listed) : pubs[i].src = "camera"
        \/ \E i \in Range(listed) : /\ t = pubs[i].track
                                    /\ ~(screen.mode = "replace" /\ pubs[i].src = "camera")
  BY <1>1 DEF Wanted
<1> QED
  BY <1>3, <1>4, <1>5, <1>6

\* What a call withdraws is not wanted any more.
LEMMA NotWanted ==
  ASSUME MediaInv, CaptureInv, ApartOK, ~races.overlap, NEW k \in tasks,
         k.at = "remove" \/ (Unshares(k) /\ k.at = "swap")
  PROVE  k.old \notin Wanted
<1>1. TaskOK(k) /\ HoldsOK(k) /\ PubsOK /\ ShareOK
  BY DEF MediaInv, CaptureInv
<1>2. races.clash = {}
  BY DEF ApartOK
<1>3. ScreenOK /\ \A s \in Device : LiveOK(s)
  BY <1>2 DEF CaptureInv
<1> SUFFICES ASSUME k.old \in Wanted PROVE FALSE
  OBVIOUS
<1>4. CASE k.op = "stop" /\ k.at = "remove"
  <2>1. k.src \in Device /\ kinds[k.old] = k.src /\ \A i \in Range(listed) : pubs[i].src # k.src
    BY <1>1, <1>3, <1>4 DEF TaskOK, HoldsOK, LiveOK
  <2> QED
    BY <2>1, WantedOf DEF Device
<1>5. CASE Unshares(k)
  <2>1. ~screen.flag /\ screen.mode = "none"
    BY <1>1, <1>5 DEF ApartOK, ShareOK
  <2>2. \A i \in Range(listed) : pubs[i].src # "screen"
    BY <1>3, <2>1 DEF ScreenOK
  <2>3. kinds[k.old] = "screen"
    <3>1. CASE k.at = "remove"
      BY <1>1, <1>5, <3>1 DEF HoldsOK, TaskOK, Unshares
    <3>2. CASE k.at = "swap"
      BY <1>1, <1>5, <3>2 DEF HoldsOK, ShareOK
    <3> QED
      BY <3>1, <3>2
  <2> QED
    BY <2>1, <2>2, <2>3, WantedOf
<1> QED
  BY <1>1, <1>4, <1>5 DEF TaskOK, Unshares

\* Nothing changes for a connection but calls that end, or begin, with nothing of it in hand.
LEMMA PeerSame ==
  ASSUME NEW p, PeerOK(p), sent'[p] = sent[p], Wanted' = Wanted, NEW ends, NEW begins,
         tasks' = (tasks \ ends) \cup begins,
         \A k \in ends \cap tasks : \A t : ~Extra(k, p, t) /\ ~Lacks(k, p, t),
         \A k \in begins : /\ ~(k.at = "publish" /\ p \in k.seen)
                           /\ ~(k.at = "swap" /\ k.op \in {"switch", "share"} /\ p \notin k.todo)
  PROVE  PeerOK(p)'
<1>1. \A j, t : (Extra(j, p, t)' <=> Extra(j, p, t)) /\ (Lacks(j, p, t)' <=> Lacks(j, p, t))
  BY DEF Extra, Lacks, Unshares
<1>2. \A t \in sent[p] : t \in Wanted \/ \E j \in tasks' : Extra(j, p, t)
  BY DEF PeerOK
<1>3. \A t \in Wanted : t \in sent[p] \/ \E j \in tasks' : Lacks(j, p, t)
  BY DEF PeerOK
<1>4. \A j \in tasks' :
        /\ j.at = "publish" /\ p \in j.seen => j.new \in sent[p]
        /\ j.at = "swap" /\ j.op \in {"switch", "share"} /\ j.old \in Wanted /\ p \notin j.todo =>
             j.new \in sent[p] /\ j.old \notin sent[p]
  BY DEF PeerOK
<1> QED
  BY <1>1, <1>2, <1>3, <1>4 DEF PeerOK

\* A loop over the connections serves one of them.
SentStep(k, next, p) ==
  /\ tasks' = (tasks \ {k}) \cup {next}
  /\ kinds' = kinds /\ pubs' = pubs /\ listed' = listed /\ live' = live /\ screen' = screen
  /\ heard' = heard /\ said' = said /\ managed' = managed /\ present' = present /\ races' = races
  /\ next.op = k.op /\ next.src = k.src /\ next.at = k.at /\ next.new = k.new /\ next.old = k.old
  /\ next.shown = k.shown /\ k.at \in {"publish", "swap", "remove"}
  /\ sent' \in [Party -> SUBSET DOMAIN kinds]
  /\ \A q \in Party \ {p} : /\ sent'[q] = sent[q]
                            /\ (q \in next.seen <=> q \in k.seen)
                            /\ (q \in next.todo <=> q \in k.todo)

LEMMA SentServed ==
  ASSUME MediaInv, CaptureInv, NEW k \in tasks, NEW next, NEW p \in Party, SentStep(k, next, p),
         ~races.overlap /\ p \in present \ races.came => PeerOK(p)'
  PROVE  CaptureInv'
<1>1. /\ tasks' = (tasks \ {k}) \cup {next}
      /\ kinds' = kinds /\ pubs' = pubs /\ listed' = listed /\ live' = live /\ screen' = screen
      /\ heard' = heard /\ said' = said /\ managed' = managed /\ present' = present
      /\ races' = races
  BY DEF SentStep
<1>2. /\ next.op = k.op /\ next.src = k.src /\ next.at = k.at /\ next.new = k.new
      /\ next.old = k.old /\ next.shown = k.shown /\ k.at \in {"publish", "swap", "remove"}
  BY DEF SentStep
<1>3. \A j \in tasks' : j = next \/ (j \in tasks /\ j # k)
  BY <1>1
<1>4. \A j \in tasks' : HoldsOK(j)'
  <2>1. HoldsOK(k) /\ HoldsOK(next)
    <3>1. HoldsOK(k)
      BY DEF CaptureInv
    <3> QED
      BY <1>2, <3>1 DEF HoldsOK, New, Unshares
  <2>2. ASSUME NEW j \in tasks' PROVE HoldsOK(j)'
    <3>1. HoldsOK(j)
      BY <1>3, <2>1 DEF CaptureInv
    <3> QED
      BY <1>1, <3>1, HoldsKept
  <2> QED
    BY <2>2
<1>5. ShareOK'
  <2>1. sent' \in [Party -> SUBSET DOMAIN kinds]
    BY DEF SentStep
  <2> QED
    BY <1>1, <2>1 DEF CaptureInv, ShareOK
<1>6. Unshares(next) <=> Unshares(k)
  BY <1>2 DEF Unshares
<1>7. ASSUME "screen" \notin races'.clash PROVE ScreenOK'
  <2>1. ScreenOK
    BY <1>1, <1>7 DEF CaptureInv
  <2>2. \A i, j \in tasks' : i.src = "screen" /\ j.src = "screen" => i = j
    BY <1>2, <1>3, <2>1 DEF ScreenOK
  <2>3. \A j \in tasks' : j.op = "share" =>
          /\ ~screen.flag
          /\ j.at \in {"publish", "swap"} => j.new \in live \cup races.gone /\ j.new \notin heard
    BY <1>2, <1>3, <2>1 DEF ScreenOK
  <2>4. screen.flag => /\ screen.track \in live \cup races.gone
                       /\ \A j \in tasks' : j.shown # screen.track
    BY <1>2, <1>3, <2>1 DEF ScreenOK
  <2>5. ASSUME NEW t \in live, kinds[t] = "screen", ~(screen.flag /\ screen.track = t)
        PROVE  \E j \in tasks' : \/ j.op = "share" /\ j.at \in {"publish", "swap"} /\ j.new = t
                                 \/ Unshares(j) /\ j.shown = t
    <3>1. PICK j \in tasks : \/ j.op = "share" /\ j.at \in {"publish", "swap"} /\ j.new = t
                             \/ Unshares(j) /\ j.shown = t
      BY <2>1, <2>5 DEF ScreenOK
    <3>2. CASE j = k
      <4>1. next \in tasks'
        BY <1>1
      <4>2. \/ next.op = "share" /\ next.at \in {"publish", "swap"} /\ next.new = t
            \/ Unshares(next) /\ next.shown = t
        BY <1>2, <1>6, <3>1, <3>2
      <4> QED
        BY <4>1, <4>2
    <3>3. CASE j # k
      <4>1. j \in tasks'
        BY <1>1, <3>3
      <4> QED
        BY <3>1, <4>1
    <3> QED
      BY <3>2, <3>3
  <2>6. \A i \in Range(listed) : pubs[i].src = "screen" =>
          screen.mode = "separate" /\ screen.pub = i
    BY <2>1 DEF ScreenOK
  <2> QED
    BY <1>1, <2>2, <2>3, <2>4, <2>5, <2>6 DEF ScreenOK, Unshares
<1>8. ASSUME NEW s \in Device \ races'.clash PROVE LiveOK(s)'
  <2>1. LiveOK(s)
    BY <1>1, <1>8 DEF CaptureInv
  <2>2. ASSUME NEW j \in tasks', j.src = s
        PROVE  /\ j.at = "publish" \/ (j.op = "switch" /\ j.at = "swap") => j.new \in live
               /\ j.op = "stop" /\ j.at = "remove" => \A i \in Range(listed) : pubs[i].src # s
    <3>1. CASE j = next
      BY <1>2, <2>1, <2>2, <3>1 DEF LiveOK
    <3>2. CASE j \in tasks
      BY <2>1, <2>2, <3>2 DEF LiveOK
    <3> QED
      BY <1>3, <3>1, <3>2
  <2> QED
    BY <1>1, <2>1, <2>2 DEF LiveOK
<1>9. ASSUME ~races'.overlap
      PROVE  /\ ApartOK'
             /\ \A q \in present' \ races'.came : PeerOK(q)'
             /\ ~races'.swapped => ManagedOK'
  <2>1. ApartOK /\ (~races.swapped => ManagedOK) /\ (\A q \in present \ races.came : PeerOK(q))
    BY <1>1, <1>9 DEF CaptureInv
  <2>2. ASSUME NEW i \in tasks', NEW j \in tasks', i.src \in Touches(j.src) PROVE i = j
    BY <1>2, <1>3, <2>1, <2>2 DEF ApartOK
  <2>3. \A j \in tasks' : /\ j.op = "share" /\ j.at = "swap" => Camera(j.old)
                          /\ Unshares(j) /\ j.at = "swap" => Camera(j.new)
                          /\ Unshares(j) \/ j.at = "restored" => ~screen.flag
    BY <1>2, <1>3, <1>6, <2>1 DEF ApartOK
  <2>4. (said = "start" <=> screen.flag) \/ \E j \in tasks' : Unshares(j)
    <3>1. next \in tasks' /\ \A j \in tasks \ {k} : j \in tasks'
      BY <1>1
    <3> QED
      BY <1>6, <2>1, <3>1 DEF ApartOK
  <2>5. ApartOK'
    <3>1. (screen.mode = "replace" => \E i \in Range(listed) : pubs[i].src = "camera")
          /\ races.clash = {}
      BY <2>1 DEF ApartOK
    <3> QED
      BY <1>1, <2>2, <2>3, <2>4, <3>1 DEF ApartOK, Camera, Unshares
  <2>6. Wanted' = Wanted /\ (ManagedOK => ManagedOK')
    BY <1>1 DEF Wanted, Listed, ManagedOK
  <2>7. ASSUME NEW q \in present' \ races'.came PROVE PeerOK(q)'
    <3>1. PeerOK(q) /\ q \in Party /\ q \in present \ races.came
      BY <1>1, <2>1, <2>7 DEF MediaInv, MediaTypeOK
    <3>2. CASE q = p
      BY <1>1, <1>9, <3>1, <3>2
    <3>3. CASE q # p
      <4>1. sent'[q] = sent[q] /\ (q \in next.seen <=> q \in k.seen) /\ (q \in next.todo <=> q \in k.todo)
        BY <3>1, <3>3 DEF SentStep
      <4>2. \A j, t : (Extra(j, q, t)' <=> Extra(j, q, t)) /\ (Lacks(j, q, t)' <=> Lacks(j, q, t))
        BY <2>6, <4>1 DEF Extra, Lacks, Unshares
      <4>3. \A t : (Extra(next, q, t) <=> Extra(k, q, t)) /\ (Lacks(next, q, t) <=> Lacks(k, q, t))
        BY <1>2, <1>6, <4>1 DEF Extra, Lacks
      <4>4. next \in tasks' /\ \A j \in tasks \ {k} : j \in tasks'
        BY <1>1
      <4>5. \A t \in sent[q] : t \in Wanted \/ \E j \in tasks' : Extra(j, q, t)
        BY <3>1, <4>3, <4>4 DEF PeerOK
      <4>6. \A t \in Wanted : t \in sent[q] \/ \E j \in tasks' : Lacks(j, q, t)
        BY <3>1, <4>3, <4>4 DEF PeerOK
      <4>7. \A j \in tasks' :
              /\ j.at = "publish" /\ q \in j.seen => j.new \in sent[q]
              /\ j.at = "swap" /\ j.op \in {"switch", "share"} /\ j.old \in Wanted /\ q \notin j.todo =>
                   j.new \in sent[q] /\ j.old \notin sent[q]
        <5>1. ASSUME NEW j \in tasks' PROVE \E i \in tasks : i.at = j.at /\ i.op = j.op
                /\ i.new = j.new /\ i.old = j.old /\ (q \in j.seen <=> q \in i.seen)
                /\ (q \in j.todo <=> q \in i.todo)
          BY <1>2, <1>3, <4>1, <5>1
        <5> QED
          BY <3>1, <5>1 DEF PeerOK
      <4> QED
        BY <2>6, <4>1, <4>2, <4>5, <4>6, <4>7 DEF PeerOK
    <3> QED
      BY <3>2, <3>3
  <2> QED
    BY <1>1, <2>1, <2>5, <2>6, <2>7
<1> QED
  BY <1>4, <1>5, <1>7, <1>8, <1>9 DEF CaptureInv

LEMMA PublishServed ==
  ASSUME MediaInv, CaptureInv, NEW k \in tasks, NEW p \in Party, PublishTo(k, p)
  PROVE  CaptureInv'
<1> DEFINE next == [k EXCEPT !.seen = @ \cup {p}]
<1>1. TaskOK(k) /\ k \in Task /\ ShareOK /\ New(k) /\ k.at = "publish" /\ p \in present \ k.seen
  BY DEF MediaInv, CaptureInv, TaskOK, PublishTo
<1>2. sent' = [sent EXCEPT ![p] = sent[p] \cup {k.new}] /\ tasks' = (tasks \ {k}) \cup {next}
  BY DEF PublishTo, Become
<1>3. /\ next.op = k.op /\ next.src = k.src /\ next.at = k.at /\ next.new = k.new
      /\ next.old = k.old /\ next.shown = k.shown /\ next.todo = k.todo
      /\ next.seen = k.seen \cup {p}
  BY <1>1 DEF Task
<1> HIDE DEF next
<1>4. sent' \in [Party -> SUBSET DOMAIN kinds] /\ sent'[p] = sent[p] \cup {k.new}
      /\ \A q \in Party \ {p} : sent'[q] = sent[q]
  BY <1>1, <1>2 DEF ShareOK, New
<1>5. SentStep(k, next, p)
  BY <1>1, <1>2, <1>3, <1>4 DEF SentStep, PublishTo, tracks, publications, share
<1>6. Wanted' = Wanted
  BY DEF PublishTo, publications, share, Wanted, Listed
<1>7. ASSUME ~races.overlap, p \in present \ races.came PROVE PeerOK(p)'
  <2>1. ApartOK /\ PeerOK(p)
    BY <1>7 DEF CaptureInv
  <2>2. \A t : ~Lacks(k, p, t) /\ (Extra(k, p, t) => Extra(next, p, t)) /\ Extra(next, p, k.new)
    BY <1>1, <1>3 DEF Extra, Lacks
  <2>3. \A j, t : (Extra(j, p, t)' <=> Extra(j, p, t)) /\ (Lacks(j, p, t) => Lacks(j, p, t)')
    BY <1>4, <1>6 DEF Extra, Lacks, Unshares
  <2>4. ASSUME NEW t \in sent'[p] PROVE t \in Wanted \/ \E j \in tasks' : Extra(j, p, t)
    <3>1. CASE t = k.new
      BY <1>2, <2>2, <3>1
    <3>2. CASE t \in sent[p]
      <4>1. t \in Wanted \/ \E j \in tasks : Extra(j, p, t)
        BY <2>1, <3>2 DEF PeerOK
      <4> QED
        BY <1>2, <2>2, <4>1
    <3> QED
      BY <1>4, <3>1, <3>2
  <2>5. ASSUME NEW t \in Wanted PROVE t \in sent'[p] \/ \E j \in tasks' : Lacks(j, p, t)'
    <3>1. t \in sent[p] \/ \E j \in tasks : Lacks(j, p, t)
      BY <2>1 DEF PeerOK
    <3> QED
      BY <1>2, <1>4, <2>2, <2>3, <3>1
  <2>6. ASSUME NEW j \in tasks'
        PROVE  /\ j.at = "publish" /\ p \in j.seen => j.new \in sent'[p]
               /\ j.at = "swap" /\ j.op \in {"switch", "share"} /\ j.old \in Wanted /\ p \notin j.todo =>
                    j.new \in sent'[p] /\ j.old \notin sent'[p]
    <3>1. CASE j = next
      BY <1>1, <1>3, <1>4, <3>1
    <3>2. CASE j \in tasks /\ j # k
      <4>1. j.at = "swap" => j.old # k.new
        <5>1. j.at = "swap" => Held(j, j.old)
          BY DEF Held
        <5>2. Held(k, k.new)
          BY <1>1 DEF Held
        <5> QED
          BY <2>1, <3>2, <5>1, <5>2, HeldOnce
      <4> QED
        BY <1>4, <2>1, <3>2, <4>1 DEF PeerOK
    <3> QED
      BY <1>2, <3>1, <3>2
  <2> QED
    BY <1>6, <2>3, <2>4, <2>5, <2>6 DEF PeerOK
<1> QED
  BY <1>5, <1>7, SentServed

LEMMA RemoveServed ==
  ASSUME MediaInv, CaptureInv, NEW k \in tasks, NEW p \in Party, RemoveFrom(k, p)
  PROVE  CaptureInv'
<1> DEFINE next == [k EXCEPT !.seen = @ \cup {p}]
<1>1. TaskOK(k) /\ k \in Task /\ ShareOK /\ k.at = "remove" /\ p \in present \ k.seen
  BY DEF MediaInv, CaptureInv, TaskOK, RemoveFrom
<1>2. sent' = [sent EXCEPT ![p] = sent[p] \ {k.old}] /\ tasks' = (tasks \ {k}) \cup {next}
  BY DEF RemoveFrom, Become
<1>3. /\ next.op = k.op /\ next.src = k.src /\ next.at = k.at /\ next.new = k.new
      /\ next.old = k.old /\ next.shown = k.shown /\ next.todo = k.todo
      /\ next.seen = k.seen \cup {p}
  BY <1>1 DEF Task
<1> HIDE DEF next
<1>4. sent' \in [Party -> SUBSET DOMAIN kinds] /\ sent'[p] = sent[p] \ {k.old}
      /\ \A q \in Party \ {p} : sent'[q] = sent[q]
  BY <1>1, <1>2 DEF ShareOK
<1>5. SentStep(k, next, p)
  BY <1>1, <1>2, <1>3, <1>4 DEF SentStep, RemoveFrom, tracks, publications, share
<1>6. Wanted' = Wanted
  BY DEF RemoveFrom, publications, share, Wanted, Listed
<1>7. ASSUME ~races.overlap, p \in present \ races.came PROVE PeerOK(p)'
  <2>1. ApartOK /\ PeerOK(p) /\ k.old \notin Wanted
    <3>1. ApartOK /\ PeerOK(p)
      BY <1>7 DEF CaptureInv
    <3> QED
      BY <1>1, <1>7, <3>1, NotWanted
  <2>2. \A t : ~Lacks(k, p, t) /\ (Extra(k, p, t) => t = k.old)
    BY <1>1 DEF Extra, Lacks
  <2>3. ASSUME NEW j \in tasks, j # k, NEW t, Held(j, t) PROVE t # k.old
    <3>1. Held(k, k.old)
      BY <1>1 DEF Held
    <3> QED
      BY <2>1, <2>3, <3>1, HeldOnce
  <2>4. \A j, t : Extra(j, p, t)' <=> Extra(j, p, t)
    BY <1>6 DEF Extra, Unshares
  <2>5. ASSUME NEW j \in tasks, j # k, NEW t, Lacks(j, p, t) PROVE Lacks(j, p, t)'
    <3>1. j.at = "swap" => j.old # k.old
      <4>1. j.at = "swap" => Held(j, j.old)
        BY DEF Held
      <4> QED
        BY <2>3, <2>5, <4>1
    <3> QED
      BY <1>4, <2>5, <3>1 DEF Lacks, Unshares
  <2>6. ASSUME NEW t \in sent'[p] PROVE t \in Wanted \/ \E j \in tasks' : Extra(j, p, t)
    <3>1. t \in sent[p] /\ t # k.old
      BY <1>4
    <3>2. t \in Wanted \/ \E j \in tasks : Extra(j, p, t)
      BY <2>1, <3>1 DEF PeerOK
    <3> QED
      BY <1>2, <2>2, <3>1, <3>2
  <2>7. ASSUME NEW t \in Wanted PROVE t \in sent'[p] \/ \E j \in tasks' : Lacks(j, p, t)'
    <3>1. t \in sent[p] \/ \E j \in tasks : Lacks(j, p, t)
      BY <2>1 DEF PeerOK
    <3>2. t # k.old
      BY <2>1
    <3> QED
      BY <1>2, <1>4, <2>2, <2>5, <3>1, <3>2
  <2>8. ASSUME NEW j \in tasks'
        PROVE  /\ j.at = "publish" /\ p \in j.seen => j.new \in sent'[p]
               /\ j.at = "swap" /\ j.op \in {"switch", "share"} /\ j.old \in Wanted /\ p \notin j.todo =>
                    j.new \in sent'[p] /\ j.old \notin sent'[p]
    <3>1. CASE j = next
      BY <1>1, <1>3, <3>1
    <3>2. CASE j \in tasks /\ j # k
      <4>1. j.at \in {"publish", "swap"} => j.new # k.old
        <5>1. j.at \in {"publish", "swap"} => Held(j, j.new)
          BY DEF Held
        <5> QED
          BY <2>3, <3>2, <5>1
      <4> QED
        BY <1>4, <2>1, <3>2, <4>1 DEF PeerOK
    <3> QED
      BY <1>2, <3>1, <3>2
  <2> QED
    BY <1>6, <2>4, <2>6, <2>7, <2>8 DEF PeerOK
<1> QED
  BY <1>5, <1>7, SentServed

LEMMA SwapServed ==
  ASSUME MediaInv, CaptureInv, NEW k \in tasks, NEW p \in Party, Swap(k, p)
  PROVE  CaptureInv'
<1> DEFINE next == [k EXCEPT !.todo = @ \ {p}]
           now == IF p \in present /\ k.old \in sent[p] THEN (sent[p] \ {k.old}) \cup {k.new}
                  ELSE sent[p]
<1>1. TaskOK(k) /\ k \in Task /\ ShareOK /\ HoldsOK(k) /\ k.at = "swap" /\ p \in k.todo
  BY DEF MediaInv, CaptureInv, TaskOK, Swap
<1>2. sent' = [sent EXCEPT ![p] = now] /\ tasks' = (tasks \ {k}) \cup {next}
  BY DEF Swap, Become
<1>3. /\ next.op = k.op /\ next.src = k.src /\ next.at = k.at /\ next.new = k.new
      /\ next.old = k.old /\ next.shown = k.shown /\ next.seen = k.seen
      /\ next.todo = k.todo \ {p}
  BY <1>1 DEF Task
<1> HIDE DEF next
<1>4. k.new \in DOMAIN kinds
  BY <1>1 DEF TaskOK, HoldsOK, New, Unshares
<1>5. sent' \in [Party -> SUBSET DOMAIN kinds] /\ sent'[p] = now
      /\ \A q \in Party \ {p} : sent'[q] = sent[q]
  BY <1>1, <1>2, <1>4 DEF ShareOK
<1>6. SentStep(k, next, p)
  BY <1>1, <1>2, <1>3, <1>5 DEF SentStep, Swap, tracks, publications, share
<1>7. Wanted' = Wanted
  BY DEF Swap, publications, share, Wanted, Listed
<1>8. ASSUME ~races.overlap, p \in present \ races.came PROVE PeerOK(p)'
  <2>1. ApartOK /\ PeerOK(p)
    BY <1>8 DEF CaptureInv
  <2>2. ASSUME NEW j \in tasks, j # k, NEW t, Held(j, t) PROVE t # k.old /\ t # k.new
    <3>1. Held(k, k.old) /\ Held(k, k.new)
      BY <1>1 DEF Held
    <3> QED
      BY <2>1, <2>2, <3>1, HeldOnce
  <2>3. /\ \A t : ~Extra(k, p, t) \/ (Unshares(k) /\ t = k.old)
        /\ \A t : ~Lacks(k, p, t) \/ (Unshares(k) /\ t = k.new /\ k.old \in sent[p])
    BY <1>1 DEF Extra, Lacks
  <2>4. \A j, t : Extra(j, p, t)' <=> Extra(j, p, t)
    BY <1>7 DEF Extra, Unshares
  <2>5. ASSUME NEW j \in tasks, j # k PROVE j.at = "swap" =>
          j.old \notin {k.old, k.new} /\ j.new \notin {k.old, k.new}
    <3>1. j.at = "swap" => Held(j, j.old) /\ Held(j, j.new)
      BY DEF Held
    <3> QED
      BY <2>2, <2>5, <3>1
  <2>6. ASSUME NEW j \in tasks, j # k, NEW t, Lacks(j, p, t) PROVE Lacks(j, p, t)'
    <3>1. j.at = "swap" /\ (j.old \in sent[p] => j.old \in sent'[p])
      BY <1>5, <2>5, <2>6 DEF Lacks
    <3> QED
      BY <2>6, <3>1 DEF Lacks, Unshares
  <2>7. ASSUME NEW j \in tasks, j # k
        PROVE  /\ j.at = "publish" /\ p \in j.seen => j.new \in sent'[p]
               /\ j.at = "swap" /\ j.op \in {"switch", "share"} /\ j.old \in Wanted /\ p \notin j.todo =>
                    j.new \in sent'[p] /\ j.old \notin sent'[p]
    <3>1. j.at = "publish" => j.new # k.old
      <4>1. j.at = "publish" => Held(j, j.new)
        BY DEF Held
      <4> QED
        BY <2>2, <2>7, <4>1
    <3> QED
      BY <1>5, <2>1, <2>5, <2>7, <3>1 DEF PeerOK
  <2>8. CASE k.old \notin sent[p]
    <3>1. sent'[p] = sent[p]
      BY <1>5, <2>8
    <3>2. k.op \in {"switch", "share"} => k.old \notin Wanted
      <4> SUFFICES ASSUME k.op \in {"switch", "share"}, k.old \in Wanted PROVE FALSE
        OBVIOUS
      <4>1. PICK j \in tasks : Lacks(j, p, k.old)
        BY <2>1, <2>8 DEF PeerOK
      <4>2. j = k
        BY <2>2, <4>1, ExtraHeld
      <4> QED
        BY <1>1, <4>1, <4>2 DEF Lacks, Unshares
    <3>3. ~(next.at = "publish") /\ ~(next.op \in {"switch", "share"} /\ next.old \in Wanted)
      BY <1>1, <1>3, <3>2
    <3>4. \A t \in sent[p] : t \in Wanted \/ \E j \in tasks' : Extra(j, p, t)
      <4>1. \A t \in sent[p] : ~Extra(k, p, t)
        BY <2>3, <2>8
      <4> QED
        BY <1>2, <2>1, <4>1 DEF PeerOK
    <3>5. \A t \in Wanted : t \in sent[p] \/ \E j \in tasks' : Lacks(j, p, t)'
      <4>1. \A t : ~Lacks(k, p, t)
        BY <2>3, <2>8
      <4> QED
        BY <1>2, <2>1, <2>6, <4>1 DEF PeerOK
    <3>6. \A j \in tasks' :
            /\ j.at = "publish" /\ p \in j.seen => j.new \in sent'[p]
            /\ j.at = "swap" /\ j.op \in {"switch", "share"} /\ j.old \in Wanted /\ p \notin j.todo =>
                 j.new \in sent'[p] /\ j.old \notin sent'[p]
      BY <1>2, <2>7, <3>3
    <3> QED
      BY <1>7, <2>4, <3>1, <3>4, <3>5, <3>6 DEF PeerOK
  <2>9. CASE k.old \in sent[p] /\ Unshares(k)
    <3>1. sent'[p] = (sent[p] \ {k.old}) \cup {k.new}
      BY <1>5, <1>8, <2>9
    <3>2. k.old \notin Wanted
      BY <1>1, <1>8, <2>1, <2>9, NotWanted
    <3>3. k.new \in Wanted
      <4>1. ~screen.flag /\ Camera(k.new)
        BY <1>1, <2>1, <2>9 DEF ApartOK
      <4>2. screen.mode = "none"
        BY <1>1, <4>1 DEF ShareOK
      <4> QED
        BY <4>1, <4>2, WantedOf DEF Camera
    <3>4. \A t \in sent'[p] : t \in Wanted \/ \E j \in tasks' : Extra(j, p, t)
      <4> TAKE t \in sent'[p]
      <4>1. CASE t = k.new
        BY <3>3, <4>1
      <4>2. CASE t \in sent[p] /\ t # k.old
        <5>1. t \in Wanted \/ \E j \in tasks : Extra(j, p, t)
          BY <2>1, <4>2 DEF PeerOK
        <5> QED
          BY <1>2, <2>3, <4>2, <5>1
      <4> QED
        BY <3>1, <4>1, <4>2
    <3>5. \A t \in Wanted : t \in sent'[p] \/ \E j \in tasks' : Lacks(j, p, t)'
      <4> TAKE t \in Wanted
      <4>1. t \in sent[p] \/ \E j \in tasks : Lacks(j, p, t)
        BY <2>1 DEF PeerOK
      <4>2. t # k.old
        BY <3>2
      <4> QED
        BY <1>2, <2>3, <2>6, <3>1, <4>1, <4>2
    <3>6. next.op \notin {"switch", "share"} /\ next.at # "publish"
      BY <1>1, <1>3, <2>9 DEF Unshares
    <3>7. \A j \in tasks' :
            /\ j.at = "publish" /\ p \in j.seen => j.new \in sent'[p]
            /\ j.at = "swap" /\ j.op \in {"switch", "share"} /\ j.old \in Wanted /\ p \notin j.todo =>
                 j.new \in sent'[p] /\ j.old \notin sent'[p]
      BY <1>2, <2>7, <3>6
    <3> QED
      BY <1>7, <2>4, <3>4, <3>5, <3>7 DEF PeerOK
  <2>10. CASE k.old \in sent[p] /\ k.op \in {"switch", "share"}
    <3>1. sent'[p] = (sent[p] \ {k.old}) \cup {k.new} /\ ~Unshares(k)
      BY <1>5, <1>8, <2>10 DEF Unshares
    <3>2. \A t : ~Extra(k, p, t) /\ ~Lacks(k, p, t)
      BY <2>3, <3>1
    <3>3. k.old \in Wanted
      <4>1. k.old \in Wanted \/ \E j \in tasks : Extra(j, p, k.old)
        BY <2>1, <2>10 DEF PeerOK
      <4> QED
        BY <2>2, <3>2, <4>1, ExtraHeld
    <3>4. Extra(next, p, k.new) /\ Lacks(next, p, k.old)' /\ next \in tasks'
      BY <1>1, <1>2, <1>3, <2>10, <3>3 DEF Extra, Lacks
    <3>5. \A t \in sent'[p] : t \in Wanted \/ \E j \in tasks' : Extra(j, p, t)
      <4> TAKE t \in sent'[p]
      <4>1. CASE t = k.new
        BY <3>4, <4>1
      <4>2. CASE t \in sent[p] /\ t # k.old
        <5>1. t \in Wanted \/ \E j \in tasks : Extra(j, p, t)
          BY <2>1, <4>2 DEF PeerOK
        <5> QED
          BY <1>2, <3>2, <5>1
      <4> QED
        BY <3>1, <4>1, <4>2
    <3>6. \A t \in Wanted : t \in sent'[p] \/ \E j \in tasks' : Lacks(j, p, t)'
      <4> TAKE t \in Wanted
      <4>1. t \in sent[p] \/ \E j \in tasks : Lacks(j, p, t)
        BY <2>1 DEF PeerOK
      <4> QED
        BY <1>2, <2>6, <3>1, <3>2, <3>4, <4>1
    <3>7. next.at # "publish" /\ next.new \in sent'[p] /\ next.old \notin sent'[p]
      <4>1. k.old # k.new
        <5>1. CASE k.op = "switch"
          BY <1>1, <5>1 DEF HoldsOK
        <5>2. CASE k.op = "share"
          BY <1>1, <5>2 DEF HoldsOK, New, TaskOK
        <5> QED
          BY <2>10, <5>1, <5>2
      <4> QED
        BY <1>1, <1>3, <3>1, <4>1
    <3>8. \A j \in tasks' :
            /\ j.at = "publish" /\ p \in j.seen => j.new \in sent'[p]
            /\ j.at = "swap" /\ j.op \in {"switch", "share"} /\ j.old \in Wanted /\ p \notin j.todo =>
                 j.new \in sent'[p] /\ j.old \notin sent'[p]
      BY <1>2, <2>7, <3>7
    <3> QED
      BY <1>7, <2>4, <3>5, <3>6, <3>8 DEF PeerOK
  <2> QED
    BY <1>1, <2>8, <2>9, <2>10 DEF TaskOK, Unshares
<1> QED
  BY <1>6, <1>8, SentServed

\* A call stops a track: its own as it ends, or the display track of a share that is over.
LEMMA StopsTrack ==
  ASSUME MediaInv, CaptureInv, NEW k \in tasks, NEW next, NEW x,
         kinds' = kinds, pubs' = pubs, listed' = listed, screen' = screen, heard' = heard,
         sent' = sent, managed' = managed, present' = present, races' = races,
         live' = live \ {x},
         \/ tasks' = tasks \ {k}
         \/ /\ tasks' = (tasks \ {k}) \cup {next} /\ HoldsOK(next)
            /\ next.at = "restored" /\ next.op = k.op /\ next.src = k.src /\ next.shown = k.shown,
         \/ /\ k.op = "stop" /\ k.at = "remove" /\ x \in DOMAIN kinds /\ kinds[x] = k.src
            /\ said' = said /\ present \subseteq k.seen /\ tasks' = tasks \ {k}
         \/ Unshares(k) /\ k.at = "announce" /\ x = k.shown /\ said' = "stop"
            /\ k.op \in {"stop", "unshare"}
  PROVE  CaptureInv'
<1>1. \A j \in tasks' : \/ j \in tasks /\ j # k
                        \/ /\ j = next /\ HoldsOK(next) /\ Unshares(k) /\ k.at = "announce"
                           /\ next.at = "restored" /\ next.op = k.op /\ next.src = k.src
                           /\ next.shown = k.shown
  OBVIOUS
<1>2. TaskOK(k) /\ HoldsOK(k) /\ ShareOK /\ MediaTypeOK /\ PubsOK
  BY DEF MediaInv, CaptureInv
<1>3. k.op \in {"stop", "unshare"}
  OBVIOUS
<1>4. \A j \in tasks' : HoldsOK(j)'
  <2> TAKE j \in tasks'
  <2>1. HoldsOK(j)
    BY <1>1 DEF CaptureInv
  <2> QED
    BY <2>1, HoldsKept
<1>5. ShareOK'
  BY <1>2 DEF ShareOK
<1>6. \A t \in DOMAIN kinds : kinds[t] = "screen" /\ t = x => Unshares(k) /\ t = k.shown /\ t \in heard
  <2> TAKE t \in DOMAIN kinds
  <2>1. k.op = "stop" => k.src # "screen"
    BY <1>2 DEF TaskOK, Device
  <2>2. t # 0
    BY <1>2 DEF MediaTypeOK
  <2> QED
    BY <1>2, <2>1, <2>2 DEF HoldsOK
<1>7. \A t \in DOMAIN kinds : \A s \in Device : kinds[t] = s /\ t = x =>
        k.op = "stop" /\ k.at = "remove" /\ k.src = s
  <2> TAKE t \in DOMAIN kinds
  <2> TAKE s \in Device
  <2>1. t # 0 /\ s # "screen"
    BY <1>2 DEF MediaTypeOK, Device
  <2> QED
    BY <1>2, <2>1 DEF HoldsOK, ShareOK
<1>8. ASSUME "screen" \notin races'.clash PROVE ScreenOK'
  <2>1. ScreenOK
    BY <1>8 DEF CaptureInv
  <2>2. \A i, j \in tasks' : i.src = "screen" /\ j.src = "screen" => i = j
    BY <1>1, <2>1 DEF ScreenOK
  <2>3. ASSUME NEW j \in tasks', j.op = "share"
        PROVE  /\ ~screen.flag
               /\ j.at \in {"publish", "swap"} => j.new \in live' \cup races.gone /\ j.new \notin heard
    <3>1. j \in tasks
      BY <1>1, <1>3, <2>3
    <3>2. j.at \in {"publish", "swap"} => j.new \in DOMAIN kinds /\ kinds[j.new] = "screen"
      BY <2>3, <3>1 DEF MediaInv, CaptureInv, TaskOK, HoldsOK, New
    <3> QED
      BY <1>6, <2>1, <2>3, <3>1, <3>2 DEF ScreenOK
  <2>4. screen.flag => /\ screen.track \in live' \cup races.gone
                       /\ \A j \in tasks' : j.shown # screen.track
    BY <1>1, <1>2, <1>6, <2>1 DEF ScreenOK, ShareOK
  <2>5. ASSUME NEW t \in live', kinds[t] = "screen", ~(screen.flag /\ screen.track = t)
        PROVE  \E j \in tasks' : \/ j.op = "share" /\ j.at \in {"publish", "swap"} /\ j.new = t
                                 \/ Unshares(j) /\ j.shown = t
    <3>1. PICK j \in tasks : \/ j.op = "share" /\ j.at \in {"publish", "swap"} /\ j.new = t
                             \/ Unshares(j) /\ j.shown = t
      BY <2>1, <2>5 DEF ScreenOK
    <3>2. j # k
      BY <1>3, <2>5, <3>1 DEF Unshares
    <3> QED
      BY <3>1, <3>2
  <2>6. \A i \in Range(listed) : pubs[i].src = "screen" =>
          screen.mode = "separate" /\ screen.pub = i
    BY <2>1 DEF ScreenOK
  <2> QED
    BY <2>2, <2>3, <2>4, <2>5, <2>6 DEF ScreenOK, Unshares
<1>9. ASSUME NEW s \in Device \ races'.clash PROVE LiveOK(s)'
  <2>1. LiveOK(s) /\ Single(s)
    BY <1>9 DEF CaptureInv, MediaInv, DeviceOK
  <2>2. ASSUME NEW i \in Range(listed), pubs[i].src = s PROVE pubs[i].track \in live'
    <3>1. pubs[i].track \in live /\ pubs[i].track \in DOMAIN kinds /\ kinds[pubs[i].track] = s
      BY <2>1, <2>2, WantedOf DEF LiveOK
    <3>2. ~(k.op = "stop" /\ k.at = "remove" /\ k.src = s)
      BY <2>1, <2>2 DEF LiveOK
    <3> QED
      BY <1>7, <1>9, <3>1, <3>2
  <2>3. ASSUME NEW j \in tasks', j.src = s
        PROVE  /\ j.at = "publish" \/ (j.op = "switch" /\ j.at = "swap") => j.new \in live'
               /\ j.op = "stop" /\ j.at = "remove" => \A i \in Range(listed) : pubs[i].src # s
    <3>1. CASE j \in tasks /\ j # k
      <4>1. j.at = "publish" \/ (j.op = "switch" /\ j.at = "swap") =>
              j.new \in live /\ j.new \in DOMAIN kinds /\ kinds[j.new] = s
        BY <2>1, <2>3, <3>1 DEF LiveOK, MediaInv, TaskOK, New
      <4>2. k.src # s
        BY <2>1, <2>3, <3>1 DEF Single
      <4> QED
        BY <1>7, <1>9, <2>1, <2>3, <3>1, <4>1, <4>2 DEF LiveOK
    <3>2. CASE j = next /\ next.at = "restored"
      <4>1. j.at # "publish" /\ j.at # "swap" /\ j.at # "remove"
        BY <3>2
      <4> QED
        BY <4>1
    <3> QED
      BY <1>1, <3>1, <3>2
  <2> QED
    BY <2>2, <2>3 DEF LiveOK
<1>10. ASSUME ~races'.overlap
       PROVE  /\ ApartOK'
              /\ \A p \in present' \ races'.came : PeerOK(p)'
              /\ ~races'.swapped => ManagedOK'
  <2>1. ApartOK /\ (~races.swapped => ManagedOK) /\ (\A p \in present \ races.came : PeerOK(p))
    BY <1>10 DEF CaptureInv
  <2>2. ASSUME NEW i \in tasks', NEW j \in tasks', i.src \in Touches(j.src) PROVE i = j
    BY <1>1, <2>1, <2>2 DEF ApartOK
  <2>3. \A j \in tasks' : /\ j.op = "share" /\ j.at = "swap" => Camera(j.old)
                          /\ Unshares(j) /\ j.at = "swap" => Camera(j.new)
                          /\ Unshares(j) \/ j.at = "restored" => ~screen.flag
    <3> TAKE j \in tasks'
    <3>1. CASE j \in tasks /\ j # k
      BY <2>1, <3>1 DEF ApartOK
    <3>2. CASE j = next /\ next.at = "restored" /\ next.op = k.op /\ Unshares(k)
      <4>1. j.at # "swap" /\ ~screen.flag
        BY <2>1, <3>2 DEF ApartOK
      <4> QED
        BY <4>1
    <3> QED
      BY <1>1, <3>1, <3>2
  <2>4. (said' = "start" <=> screen.flag) \/ \E j \in tasks' : Unshares(j)
    <3>1. CASE Unshares(k) /\ said' = "stop"
      BY <2>1, <3>1 DEF ApartOK
    <3>2. CASE k.op = "stop" /\ k.at = "remove" /\ said' = said /\ tasks' = tasks \ {k}
      BY <2>1, <3>2 DEF ApartOK, Unshares
    <3> QED
      BY <3>1, <3>2
  <2>5. ApartOK'
    <3>1. (screen.mode = "replace" => \E i \in Range(listed) : pubs[i].src = "camera")
          /\ races.clash = {}
      BY <2>1 DEF ApartOK
    <3> QED
      BY <1>10, <2>2, <2>3, <2>4, <3>1 DEF ApartOK, Camera, Unshares
  <2>6. Wanted' = Wanted /\ (ManagedOK => ManagedOK')
    BY DEF Wanted, Listed, ManagedOK
  <2>7. ASSUME NEW p \in present' \ races'.came PROVE PeerOK(p)'
    <3>1. PeerOK(p)
      BY <2>1, <2>7
    <3>2. \A t : ~Extra(k, p, t) /\ ~Lacks(k, p, t)
      <4>1. k.at \in {"remove", "announce"} /\ (k.at = "remove" => p \in k.seen)
        BY <2>7
      <4> QED
        BY <4>1 DEF Extra, Lacks
    <3>3. \A j \in {k} \cap tasks : \A t : ~Extra(j, p, t) /\ ~Lacks(j, p, t)
      BY <3>2
    <3> DEFINE begins == IF tasks' = tasks \ {k} THEN {} ELSE {next}
    <3>4. tasks' = (tasks \ {k}) \cup begins /\ \A j \in begins : j.at = "restored"
      OBVIOUS
    <3> HIDE DEF begins
    <3>5. \A j \in begins : /\ ~(j.at = "publish" /\ p \in j.seen)
                            /\ ~(j.at = "swap" /\ j.op \in {"switch", "share"} /\ p \notin j.todo)
      BY <3>4
    <3>6. tasks' = (tasks \ {k}) \cup begins /\ sent'[p] = sent[p]
      BY <3>4
    <3> QED
      BY <2>6, <3>1, <3>3, <3>5, <3>6, PeerSame
  <2> QED
    BY <2>1, <2>5, <2>6, <2>7
<1> QED
  BY <1>4, <1>5, <1>8, <1>9, <1>10 DEF CaptureInv

LEMMA AnnounceServed ==
  ASSUME MediaInv, CaptureInv, NEW k \in tasks, Announce(k)
  PROVE  CaptureInv'
<1> DEFINE next == [k EXCEPT !.at = "restored"]
<1>1. /\ kinds' = kinds /\ pubs' = pubs /\ listed' = listed /\ screen' = screen /\ heard' = heard
      /\ sent' = sent /\ managed' = managed /\ present' = present /\ races' = races
      /\ live' = live \ {k.shown} /\ said' = "stop" /\ k.at = "announce"
      /\ IF k.op = "stop" THEN tasks' = (tasks \ {k}) \cup {next} ELSE tasks' = tasks \ {k}
  BY DEF Announce, Become, Return, mesh, publications
<1>2. TaskOK(k) /\ k \in Task /\ HoldsOK(k)
  BY DEF MediaInv, TaskOK, CaptureInv
<1>3. Unshares(k) /\ k.op \in {"stop", "unshare"}
  BY <1>1, <1>2 DEF TaskOK, Unshares
<1>4. /\ next.at = "restored" /\ next.op = k.op /\ next.src = k.src /\ next.shown = k.shown
      /\ next.old = k.old
  BY <1>2 DEF Task
<1> HIDE DEF next
<1>5. k.op = "stop" => HoldsOK(next)
  BY <1>1, <1>2, <1>4 DEF HoldsOK, Unshares
<1> QED
  BY <1>1, <1>3, <1>4, <1>5, StopsTrack

LEMMA RemovedServed ==
  ASSUME MediaInv, CaptureInv, NEW k \in tasks, Removed(k)
  PROVE  CaptureInv'
<1> DEFINE next == [k EXCEPT !.at = "announce"]
<1>1. /\ kinds' = kinds /\ pubs' = pubs /\ listed' = listed /\ screen' = screen /\ heard' = heard
      /\ sent' = sent /\ managed' = managed /\ present' = present /\ races' = races
      /\ said' = said /\ k.at = "remove" /\ present \subseteq k.seen
      /\ IF k.op = "stop" THEN live' = live \ {pubs[k.pub].track} /\ tasks' = tasks \ {k}
         ELSE live' = live /\ tasks' = (tasks \ {k}) \cup {next}
  BY DEF Removed, Become, Return, mesh, publications, share, Served, Stopped
<1>2. TaskOK(k) /\ k \in Task /\ HoldsOK(k) /\ PubsOK
  BY DEF MediaInv, TaskOK, CaptureInv
<1>3. CASE k.op = "stop"
  <2>1. pubs[k.pub].track \in DOMAIN kinds /\ kinds[pubs[k.pub].track] = k.src
    BY <1>2, <1>3 DEF TaskOK, PubsOK, Device
  <2> QED
    BY <1>1, <1>3, <2>1, StopsTrack
<1>4. CASE k.op # "stop"
  <2>1. k.op = "unshare" /\ Unshares(k)
    BY <1>1, <1>2, <1>4 DEF TaskOK, Unshares
  <2>2. /\ next.at = "announce" /\ next.op = k.op /\ next.src = k.src /\ next.shown = k.shown
        /\ next.old = k.old
    BY <1>2 DEF Task
  <2> HIDE DEF next
  <2>3. HoldsOK(next) /\ Unshares(next)
    BY <1>2, <2>1, <2>2 DEF HoldsOK, Unshares
  <2>4. \A p \in present : \A t : ~Extra(k, p, t) /\ ~Lacks(k, p, t)
    BY <1>1 DEF Extra, Lacks
  <2>5. Quiet
    BY <1>1, <1>4 DEF Quiet
  <2> QED
    BY <1>1, <1>4, <2>1, <2>2, <2>3, <2>4, <2>5, QuietStep
<1> QED
  BY <1>3, <1>4

LEMMA AcquireServed ==
  ASSUME MediaInv, CaptureInv, NEW k \in tasks, Acquire(k)
  PROVE  CaptureInv'
<1> DEFINE t == Len(kinds) + 1
           c == Find("camera")
           replaces == k.op = "share" /\ c # 0 /\ EveryPeerSends(pubs[c].track)
           step == IF k.op = "switch" \/ replaces THEN "swap" ELSE "publish"
           was == IF replaces THEN pubs[c].track ELSE k.old
           onward == [k EXCEPT !.new = t, !.at = step, !.old = was, !.todo = present]
<1>1. /\ pubs' = pubs /\ listed' = listed /\ managed' = managed /\ present' = present
      /\ sent' = sent /\ screen' = screen /\ heard' = heard /\ said' = said /\ races' = races
      /\ k.at = "acquire"
      /\ kinds' = Append(kinds, k.src) /\ live' = live \cup {t}
      /\ tasks' = (tasks \ {k}) \cup {[k EXCEPT !.new = t,
                     !.at = IF k.op = "switch" \/ replaces THEN "swap" ELSE "publish",
                     !.old = IF replaces THEN pubs[c].track ELSE @,
                     !.todo = present]}
  BY DEF Acquire, mesh, publications, share, Become
<1>2. PICK next : next = onward /\ tasks' = (tasks \ {k}) \cup {next}
  BY <1>1
<1>3. MediaTypeOK /\ PubsOK /\ TaskOK(k) /\ k \in Task /\ HoldsOK(k) /\ ShareOK
  BY DEF MediaInv, TaskOK, CaptureInv
<1>4. k.op \in {"start", "share", "switch"} /\ k.seen = {}
      /\ (k.op = "share" <=> k.src = "screen")
  BY <1>1, <1>3 DEF TaskOK, HoldsOK, Device
<1>5. c # 0 => /\ c \in Range(listed) /\ pubs[c].src = "camera"
               /\ pubs[c].track \in DOMAIN kinds /\ kinds[pubs[c].track] = "camera"
               /\ pubs[c].track \in Nat
  <2>1. c # 0 => c \in Range(listed) /\ pubs[c].src = "camera" /\ c \in TrackId
    BY <1>3, FindOK
  <2> HIDE DEF c
  <2> QED
    BY <1>3, <2>1 DEF PubsOK, MediaTypeOK, Publication
<1>6. /\ kinds' \in Seq(Source) /\ t \in DOMAIN kinds' /\ kinds'[t] = k.src /\ t \notin DOMAIN kinds
      /\ \A x \in DOMAIN kinds : x \in DOMAIN kinds' /\ kinds'[x] = kinds[x]
      /\ \A x \in DOMAIN kinds' : x \in DOMAIN kinds \/ x = t
  <2>1. kinds \in Seq(Source) /\ k.src \in Source
    BY <1>3 DEF MediaTypeOK, Task
  <2> QED
    BY <1>1, <2>1, KindsGrow
<1>7. /\ k.op = "switch" => step = "swap" /\ was = k.old
      /\ k.op = "start" => step = "publish"
      /\ k.op = "share" /\ step = "swap" => c # 0 /\ was = pubs[c].track
      /\ step \in {"swap", "publish"}
  OBVIOUS
<1>8. /\ next.at = step /\ next.src = k.src /\ next.op = k.op /\ next.new = t /\ next.old = was
      /\ next.seen = {} /\ next.todo = present /\ next.shown = k.shown
  <2> HIDE DEF was, t, step
  <2> QED
    BY <1>2, <1>3, <1>4 DEF Task
<1> HIDE DEF c, was, t, step, onward
<1>9. ~Unshares(k) /\ ~Unshares(next) /\ next \in tasks'
  BY <1>2, <1>4, <1>8 DEF Unshares
<1>10. \A j \in tasks' : j = next \/ (j \in tasks /\ j # k)
  BY <1>2
<1>11. \A j \in tasks' : HoldsOK(j)'
  <2>1. ASSUME NEW j \in tasks PROVE HoldsOK(j)'
    <3>1. HoldsOK(j)
      BY DEF CaptureInv
    <3> QED
      BY <1>1, <1>6, <3>1, HoldsKept
  <2>2. HoldsOK(next)'
    <3>1. next.op = "share" /\ next.at = "swap" =>
            New(next)' /\ next.old \in DOMAIN kinds' /\ kinds'[next.old] = "camera"
      BY <1>4, <1>5, <1>6, <1>7, <1>8 DEF New
    <3>2. next.op = "switch" => /\ next.old \in DOMAIN kinds' /\ kinds'[next.old] = next.src
                                /\ next.new # next.old
      BY <1>3, <1>6, <1>7, <1>8 DEF HoldsOK
    <3>3. next.shown \in heard' \cup {0} /\ next.at \in {"swap", "publish"}
          /\ next.op \in {"start", "share", "switch"}
      BY <1>1, <1>3, <1>4, <1>7, <1>8 DEF HoldsOK
    <3>4. ~Unshares(next)
      BY <1>9
    <3> HIDE <1>8
    <3> QED
      BY <3>1, <3>2, <3>3, <3>4 DEF HoldsOK, Unshares
  <2> QED
    BY <1>10, <2>1, <2>2
<1>12. ShareOK'
  <2>1. sent' \in [Party -> SUBSET DOMAIN kinds'] /\ managed' \subseteq DOMAIN kinds'
    BY <1>1, <1>3, <1>6 DEF ShareOK
  <2> QED
    BY <1>1, <1>3, <1>6, <2>1 DEF ShareOK
<1>13. t \notin heard /\ t \notin live
  BY <1>3, <1>6 DEF ShareOK, MediaTypeOK
<1>14. ASSUME "screen" \notin races'.clash PROVE ScreenOK'
  <2>1. ScreenOK
    BY <1>1, <1>14 DEF CaptureInv
  <2>2. \A i, j \in tasks' : i.src = "screen" /\ j.src = "screen" => i = j
    BY <1>8, <1>10, <2>1 DEF ScreenOK
  <2>3. ASSUME NEW j \in tasks', j.op = "share"
        PROVE  /\ ~screen.flag
               /\ j.at \in {"publish", "swap"} => j.new \in live' \cup races.gone /\ j.new \notin heard
    <3>1. CASE j = next
      BY <1>1, <1>8, <1>13, <2>1, <2>3, <3>1 DEF ScreenOK
    <3>2. CASE j \in tasks
      BY <1>1, <2>1, <2>3, <3>2 DEF ScreenOK
    <3> QED
      BY <1>10, <3>1, <3>2
  <2>4. screen.flag => /\ screen.track \in live' \cup races.gone
                       /\ \A j \in tasks' : j.shown # screen.track
    BY <1>1, <1>8, <1>10, <2>1 DEF ScreenOK
  <2>5. ASSUME NEW x \in live', kinds'[x] = "screen", ~(screen.flag /\ screen.track = x)
        PROVE  \E j \in tasks' : \/ j.op = "share" /\ j.at \in {"publish", "swap"} /\ j.new = x
                                 \/ Unshares(j) /\ j.shown = x
    <3>1. CASE x = t
      <4>1. next.op = "share" /\ next.at \in {"publish", "swap"} /\ next.new = x
        BY <1>4, <1>6, <1>7, <1>8, <2>5, <3>1
      <4> QED
        BY <1>9, <4>1
    <3>2. CASE x \in live
      <4>1. kinds[x] = "screen"
        BY <1>3, <1>6, <2>5, <3>2 DEF MediaTypeOK
      <4>2. PICK j \in tasks : \/ j.op = "share" /\ j.at \in {"publish", "swap"} /\ j.new = x
                               \/ Unshares(j) /\ j.shown = x
        BY <2>1, <2>5, <3>2, <4>1 DEF ScreenOK
      <4>3. j # k
        BY <1>1, <1>9, <4>2
      <4> QED
        BY <1>2, <4>2, <4>3
    <3> QED
      BY <1>1, <3>1, <3>2
  <2>6. \A i \in Range(listed) : pubs[i].src = "screen" =>
          screen.mode = "separate" /\ screen.pub = i
    BY <2>1 DEF ScreenOK
  <2> QED
    BY <1>1, <2>2, <2>3, <2>4, <2>5, <2>6 DEF ScreenOK, Unshares
<1>15. ASSUME NEW s \in Device \ races'.clash PROVE LiveOK(s)'
  <2>1. LiveOK(s)
    BY <1>1, <1>15 DEF CaptureInv
  <2>2. ASSUME NEW j \in tasks', j.src = s
        PROVE  /\ j.at = "publish" \/ (j.op = "switch" /\ j.at = "swap") => j.new \in live'
               /\ j.op = "stop" /\ j.at = "remove" => \A i \in Range(listed) : pubs[i].src # s
    <3>1. CASE j = next
      BY <1>1, <1>4, <1>8, <3>1
    <3>2. CASE j \in tasks
      BY <1>1, <2>1, <2>2, <3>2 DEF LiveOK
    <3> QED
      BY <1>10, <3>1, <3>2
  <2> QED
    BY <1>1, <2>1, <2>2 DEF LiveOK
<1>16. ASSUME ~races'.overlap
       PROVE  /\ ApartOK'
              /\ \A p \in present' \ races'.came : PeerOK(p)'
              /\ ~races'.swapped => ManagedOK'
  <2>1. ApartOK /\ (~races.swapped => ManagedOK) /\ (\A p \in present \ races.came : PeerOK(p))
    BY <1>1, <1>16 DEF CaptureInv
  <2>2. ASSUME NEW i \in tasks', NEW j \in tasks', i.src \in Touches(j.src) PROVE i = j
    BY <1>8, <1>10, <2>1, <2>2 DEF ApartOK
  <2>3. \A j \in tasks' : /\ j.op = "share" /\ j.at = "swap" => Camera(j.old)
                          /\ Unshares(j) /\ j.at = "swap" => Camera(j.new)
                          /\ Unshares(j) \/ j.at = "restored" => ~screen.flag
    <3> TAKE j \in tasks'
    <3>1. CASE j \in tasks
      BY <2>1, <3>1 DEF ApartOK
    <3>2. CASE j = next
      <4>1. j.op = "share" /\ j.at = "swap" => Camera(j.old)
        BY <1>5, <1>7, <1>8, <3>2 DEF Camera
      <4>2. j.at # "restored"
        BY <1>7, <1>8, <3>2
      <4> QED
        BY <1>9, <3>2, <4>1, <4>2
    <3> QED
      BY <1>10, <3>1, <3>2
  <2>4. (said = "start" <=> screen.flag) \/ \E j \in tasks' : Unshares(j)
    BY <1>2, <1>9, <2>1 DEF ApartOK
  <2>5. ApartOK'
    <3>1. (screen.mode = "replace" => \E i \in Range(listed) : pubs[i].src = "camera")
          /\ races.clash = {}
      BY <2>1 DEF ApartOK
    <3> QED
      BY <1>1, <2>2, <2>3, <2>4, <3>1 DEF ApartOK, Camera, Unshares
  <2>6. Wanted' = Wanted /\ (ManagedOK => ManagedOK')
    BY <1>1 DEF Wanted, Listed, ManagedOK
  <2>7. ASSUME NEW p \in present' \ races'.came PROVE PeerOK(p)'
    <3> DEFINE begins == {next}
    <3>1. PeerOK(p) /\ sent'[p] = sent[p] /\ tasks' = (tasks \ {k}) \cup begins /\ p \in present
      BY <1>1, <1>2, <2>1, <2>7
    <3>2. \A j \in {k} \cap tasks : \A x : ~Extra(j, p, x) /\ ~Lacks(j, p, x)
      BY <1>1 DEF Extra, Lacks
    <3>3. \A j \in begins : /\ ~(j.at = "publish" /\ p \in j.seen)
                            /\ ~(j.at = "swap" /\ j.op \in {"switch", "share"} /\ p \notin j.todo)
      BY <1>8, <3>1
    <3> HIDE DEF begins
    <3> QED
      BY <2>6, <3>1, <3>2, <3>3, PeerSame
  <2> QED
    BY <1>1, <2>1, <2>5, <2>6, <2>7
<1> QED
  BY <1>11, <1>12, <1>14, <1>15, <1>16 DEF CaptureInv

\* More is published, and wanted, and the call that sent it to every connection is over.
LEMMA PeerPublished ==
  ASSUME MediaInv, CaptureInv, ApartOK, NEW k \in tasks, k.at = "publish", NEW p, PeerOK(p),
         p \in k.seen, sent' = sent, tasks' = tasks \ {k}, Wanted' = Wanted \cup {k.new}
  PROVE  PeerOK(p)'
<1>1. \A t : ~Lacks(k, p, t) /\ (Extra(k, p, t) => t = k.new)
  BY DEF Extra, Lacks
<1>2. \A j, t : (Extra(j, p, t) => Extra(j, p, t)') /\ (Lacks(j, p, t)' <=> Lacks(j, p, t))
  BY DEF Extra, Lacks, Unshares
<1>3. \A t \in sent[p] : t \in Wanted' \/ \E j \in tasks' : Extra(j, p, t)'
  <2> TAKE t \in sent[p]
  <2>1. t \in Wanted \/ \E j \in tasks : Extra(j, p, t)
    BY DEF PeerOK
  <2> QED
    BY <1>1, <1>2, <2>1
<1>4. \A t \in Wanted' : t \in sent[p] \/ \E j \in tasks' : Lacks(j, p, t)
  <2>1. k.new \in sent[p]
    BY DEF PeerOK
  <2> QED
    BY <1>1, <2>1 DEF PeerOK
<1>5. \A j \in tasks' :
        /\ j.at = "publish" /\ p \in j.seen => j.new \in sent[p]
        /\ j.at = "swap" /\ j.op \in {"switch", "share"} /\ j.old \in Wanted' /\ p \notin j.todo =>
             j.new \in sent[p] /\ j.old \notin sent[p]
  <2> TAKE j \in tasks'
  <2>1. j.at = "swap" => j.old # k.new
    <3>1. j.at = "swap" => Held(j, j.old)
      BY DEF Held
    <3>2. Held(k, k.new)
      BY DEF Held
    <3> QED
      BY <3>1, <3>2, HeldOnce
  <2> QED
    BY <2>1 DEF PeerOK
<1> QED
  BY <1>2, <1>3, <1>4, <1>5 DEF PeerOK

LEMMA ListServed ==
  ASSUME MediaInv, CaptureInv, NEW k \in tasks, List(k)
  PROVE  CaptureInv'
<1> DEFINE i == k.new
           entry == [src |-> k.src, track |-> i, muted |-> FlagNow(k)]
<1>1. /\ kinds' = kinds /\ live' = live /\ sent' = sent /\ present' = present /\ races' = races
      /\ pubs' = [pubs EXCEPT ![i] = entry] /\ listed' = Append(listed, i)
      /\ managed' = IF k.src = "microphone" THEN managed ELSE managed \cup {i}
      /\ tasks' = tasks \ {k} /\ k.at = "publish" /\ present \subseteq k.seen
      /\ IF k.op = "share"
           THEN /\ screen' = [flag |-> TRUE, mode |-> "separate", track |-> i, pub |-> i]
                /\ heard' = heard \cup {i} /\ said' = "start"
           ELSE screen' = screen /\ heard' = heard /\ said' = said
  BY DEF List, Return, Sharing, Served, share, mesh, tracks
<1>2. MediaTypeOK /\ PubsOK /\ TaskOK(k) /\ k \in Task /\ HoldsOK(k) /\ ShareOK
  BY DEF MediaInv, TaskOK, CaptureInv
<1>3. /\ i \in TrackId /\ i \in DOMAIN kinds /\ kinds[i] = k.src /\ pubs[i].src = "none"
      /\ k.src \in Source /\ k.src # "none"
      /\ \/ k.op = "start" /\ k.src \in Device /\ k.src # "screen"
         \/ k.op = "share" /\ k.src = "screen"
  BY <1>1, <1>2 DEF TaskOK, New, Source, Device
<1>4. ~Unshares(k)
  BY <1>3 DEF Unshares
<1>5. /\ i \notin Range(listed) /\ Range(listed') = Range(listed) \cup {i}
      /\ \A j \in Range(listed) : j \in TrackId /\ pubs'[j] = pubs[j]
      /\ \A j \in TrackId : j # i => pubs'[j] = pubs[j]
      /\ pubs'[i] = entry
  <2>1. listed \in Seq(TrackId) /\ pubs \in [TrackId -> Publication]
    BY <1>2 DEF MediaTypeOK
  <2>2. Range(listed') = Range(listed) \cup {i} /\ Range(listed) \subseteq TrackId
    BY <1>1, <1>3, <2>1, AppendListed DEF Range
  <2>3. i \notin Range(listed)
    BY <1>2, <1>3 DEF PubsOK
  <2> HIDE DEF i, entry
  <2> QED
    BY <1>1, <1>3, <2>1, <2>2, <2>3
<1>6. pubs'[i].src = k.src /\ pubs'[i].track = i
  BY <1>5
<1> HIDE DEF i, entry
<1>7. \A j \in tasks' : HoldsOK(j)'
  <2> TAKE j \in tasks'
  <2>1. HoldsOK(j) /\ heard \subseteq heard'
    BY <1>1 DEF CaptureInv
  <2> QED
    BY <1>1, <2>1, HoldsKept
<1>8. ShareOK'
  <2>1. heard' \subseteq {t \in DOMAIN kinds : kinds[t] = "screen"} /\ said' \in {"start", "stop"}
    BY <1>1, <1>2, <1>3 DEF ShareOK
  <2>2. /\ IF screen'.flag THEN screen'.track \in heard' /\ screen'.mode \in {"separate", "replace"}
           ELSE screen'.track = 0 /\ screen'.mode = "none"
        /\ screen'.mode = "separate" => screen'.pub = screen'.track
    BY <1>1, <1>2 DEF ShareOK
  <2>3. \A j \in TrackId : pubs'[j].src = "screen" => pubs'[j].track = j
    BY <1>2, <1>5, <1>6 DEF ShareOK
  <2>4. \A m, n \in DOMAIN listed' : listed'[m] = listed'[n] => m = n
    <3>1. /\ DOMAIN listed' = 1 .. Len(listed) + 1 /\ DOMAIN listed = 1 .. Len(listed)
          /\ Len(listed) \in Nat /\ listed'[Len(listed) + 1] = i
          /\ \A n \in 1 .. Len(listed) : listed'[n] = listed[n]
      <4>1. listed \in Seq(TrackId) /\ i \in TrackId
        BY <1>2, <1>3 DEF MediaTypeOK
      <4> QED
        BY <1>1, <4>1
    <3>2. \A n \in 1 .. Len(listed) : listed[n] # i
      BY <1>5, <3>1 DEF Range
    <3>3. \A m, n \in 1 .. Len(listed) : listed[m] = listed[n] => m = n
      BY <1>2, <3>1 DEF ShareOK
    <3>4. \A n \in 1 .. Len(listed) + 1 : n \in 1 .. Len(listed) \/ n = Len(listed) + 1
      BY <3>1
    <3> QED
      BY <3>1, <3>2, <3>3, <3>4
  <2>5. sent' \in [Party -> SUBSET DOMAIN kinds] /\ managed' \subseteq DOMAIN kinds
    BY <1>1, <1>2, <1>3 DEF ShareOK
  <2> QED
    BY <1>1, <2>1, <2>2, <2>3, <2>4, <2>5 DEF ShareOK
<1>9. ASSUME "screen" \notin races'.clash PROVE ScreenOK'
  <2>1. ScreenOK
    BY <1>1, <1>9 DEF CaptureInv
  <2>2. \A l, j \in tasks' : l.src = "screen" /\ j.src = "screen" => l = j
    BY <1>1, <2>1 DEF ScreenOK
  <2>3. CASE k.op = "share"
    <3>1. ~screen.flag /\ i \in live \cup races.gone /\ i \notin heard /\ i # 0
      BY <1>1, <1>2, <1>3, <2>1, <2>3 DEF ScreenOK, i, MediaTypeOK
    <3>2. \A j \in tasks' : j.op # "share"
      <4> SUFFICES ASSUME NEW j \in tasks', j.op = "share" PROVE FALSE
        OBVIOUS
      <4>1. j \in tasks /\ j # k /\ j.src = "screen"
        BY <1>1 DEF MediaInv, TaskOK
      <4> QED
        BY <1>3, <2>1, <2>3, <4>1 DEF ScreenOK
    <3>3. \A j \in tasks' : j.shown # i
      BY <1>1, <3>1 DEF CaptureInv, HoldsOK
    <3>4. \A j \in Range(listed') : pubs'[j].src = "screen" => j = i
      <4>1. \A j \in Range(listed) : pubs[j].src # "screen"
        BY <1>2, <2>1, <3>1 DEF ScreenOK, ShareOK
      <4> QED
        BY <1>5, <4>1
    <3>5. ASSUME NEW t \in live, kinds[t] = "screen", t # i
          PROVE  \E j \in tasks' : Unshares(j) /\ j.shown = t
      <4>1. PICK j \in tasks : \/ j.op = "share" /\ j.at \in {"publish", "swap"} /\ j.new = t
                               \/ Unshares(j) /\ j.shown = t
        BY <2>1, <3>1, <3>5 DEF ScreenOK
      <4>2. j # k /\ j \in tasks'
        BY <1>1, <1>4, <3>5, <4>1 DEF i
      <4> QED
        BY <3>2, <4>1, <4>2
    <3>6. /\ screen'.flag /\ screen'.track = i /\ screen'.mode = "separate" /\ screen'.pub = i
          /\ live' = live /\ kinds' = kinds /\ races' = races
      BY <1>1, <2>3
    <3> QED
      BY <2>2, <3>1, <3>2, <3>3, <3>4, <3>5, <3>6 DEF ScreenOK, Unshares
  <2>4. CASE k.op # "share"
    <3>1. \A j \in tasks' : j.op = "share" =>
            /\ ~screen.flag
            /\ j.at \in {"publish", "swap"} => j.new \in live \cup races.gone /\ j.new \notin heard
      BY <1>1, <2>1 DEF ScreenOK
    <3>2. screen.flag => /\ screen.track \in live \cup races.gone
                         /\ \A j \in tasks' : j.shown # screen.track
      BY <1>1, <2>1 DEF ScreenOK
    <3>3. ASSUME NEW t \in live, kinds[t] = "screen", ~(screen.flag /\ screen.track = t)
          PROVE  \E j \in tasks' : \/ j.op = "share" /\ j.at \in {"publish", "swap"} /\ j.new = t
                                   \/ Unshares(j) /\ j.shown = t
      <4>1. PICK j \in tasks : \/ j.op = "share" /\ j.at \in {"publish", "swap"} /\ j.new = t
                               \/ Unshares(j) /\ j.shown = t
        BY <2>1, <3>3 DEF ScreenOK
      <4>2. j # k /\ j \in tasks'
        BY <1>1, <1>4, <2>4, <4>1
      <4> QED
        BY <4>1, <4>2
    <3>4. \A j \in Range(listed') : pubs'[j].src = "screen" =>
            screen.mode = "separate" /\ screen.pub = j
      BY <1>3, <1>5, <1>6, <2>1, <2>4 DEF ScreenOK
    <3>5. screen' = screen /\ heard' = heard /\ live' = live /\ kinds' = kinds /\ races' = races
      BY <1>1, <2>4
    <3> QED
      BY <2>2, <3>1, <3>2, <3>3, <3>4, <3>5 DEF ScreenOK, Unshares
  <2> QED
    BY <2>3, <2>4
<1>10. ASSUME NEW s \in Device \ races'.clash PROVE LiveOK(s)'
  <2>1. LiveOK(s) /\ Single(s)
    BY <1>1, <1>10 DEF CaptureInv, MediaInv, DeviceOK
  <2>2. ASSUME NEW j \in Range(listed'), pubs'[j].src = s PROVE pubs'[j].track \in live
    <3>1. CASE j = i
      BY <1>1, <1>6, <2>1, <2>2, <3>1 DEF LiveOK, i
    <3>2. CASE j \in Range(listed)
      BY <1>5, <2>1, <2>2, <3>2 DEF LiveOK
    <3> QED
      BY <1>5, <3>1, <3>2
  <2>3. ASSUME NEW j \in tasks', j.src = s
        PROVE  /\ j.at = "publish" \/ (j.op = "switch" /\ j.at = "swap") => j.new \in live
               /\ j.op = "stop" /\ j.at = "remove" => \A l \in Range(listed') : pubs'[l].src # s
    <3>1. k.src # s /\ j \in tasks
      BY <1>1, <2>1, <2>3 DEF Single
    <3> QED
      BY <1>5, <1>6, <2>1, <2>3, <3>1 DEF LiveOK
  <2> QED
    BY <1>1, <2>2, <2>3 DEF LiveOK
<1>11. ASSUME ~races'.overlap
       PROVE  /\ ApartOK'
              /\ \A p \in present' \ races'.came : PeerOK(p)'
              /\ ~races'.swapped => ManagedOK'
  <2>1. ApartOK /\ (~races.swapped => ManagedOK) /\ (\A p \in present \ races.came : PeerOK(p))
    BY <1>1, <1>11 DEF CaptureInv
  <2>2. ASSUME NEW l \in tasks', NEW j \in tasks', l.src \in Touches(j.src) PROVE l = j
    BY <1>1, <2>1, <2>2 DEF ApartOK
  <2>3. k.op = "share" => ~screen.flag /\ screen.mode = "none"
    <3>1. ScreenOK
      BY <2>1 DEF CaptureInv, ApartOK
    <3> QED
      BY <1>2, <3>1 DEF ScreenOK, ShareOK
  <2>4. \A t : Camera(t) => Camera(t)'
    BY <1>5 DEF Camera
  <2>5. ASSUME NEW j \in tasks'
        PROVE  /\ j.op = "share" /\ j.at = "swap" => Camera(j.old)'
               /\ Unshares(j) /\ j.at = "swap" => Camera(j.new)'
               /\ Unshares(j) \/ j.at = "restored" => ~screen'.flag
    <3>1. j \in tasks /\ j # k
      BY <1>1
    <3>2. Unshares(j) \/ j.at = "restored" => j.src \in {"camera", "screen"}
      BY <3>1 DEF CaptureInv, MediaInv, TaskOK, HoldsOK, Unshares
    <3>3. k.op = "share" => ~(Unshares(j) \/ j.at = "restored")
      BY <1>3, <2>1, <3>1, <3>2 DEF ApartOK, Touches
    <3> QED
      BY <1>1, <2>1, <2>4, <3>1, <3>3 DEF ApartOK
  <2>6. (said' = "start" <=> screen'.flag) \/ \E j \in tasks' : Unshares(j)
    <3>1. CASE k.op = "share"
      BY <1>1, <3>1
    <3>2. CASE k.op # "share"
      BY <1>1, <1>4, <2>1, <3>2 DEF ApartOK
    <3> QED
      BY <3>1, <3>2
  <2>7. ApartOK'
    <3>1. screen'.mode = "replace" => \E j \in Range(listed') : pubs'[j].src = "camera"
      <4>1. screen'.mode = "replace" => screen.mode = "replace"
        BY <1>1
      <4> QED
        BY <1>5, <2>1, <4>1 DEF ApartOK
    <3>2. races'.clash = {}
      BY <1>1, <2>1 DEF ApartOK
    <3> QED
      BY <2>2, <2>5, <2>6, <3>1, <3>2 DEF ApartOK, Unshares
  <2>8. Wanted' = Wanted \cup {i}
    <3>1. Listed' = Range(listed) \cup {i} /\ Listed = Range(listed)
      BY <1>5 DEF Listed, Range
    <3>2. ~(screen'.mode = "replace" /\ k.src = "camera")
      <4>1. CASE k.op = "share"
        BY <1>1, <4>1
      <4>2. CASE k.op = "start" /\ k.src = "camera"
        <5>1. InHand("camera")
          BY <2>1 DEF ApartOK, MediaInv, DeviceOK, Device
        <5>2. \A j \in Range(listed) : pubs[j].src # "camera"
          BY <4>2, <5>1 DEF InHand
        <5> QED
          BY <1>1, <2>1, <4>2, <5>2 DEF ApartOK
      <4> QED
        BY <1>3, <4>1, <4>2
    <3>3. \A j \in Range(listed) :
            (IF screen'.mode = "replace" /\ pubs'[j].src = "camera" THEN screen'.track ELSE pubs'[j].track)
            = IF screen.mode = "replace" /\ pubs[j].src = "camera" THEN screen.track ELSE pubs[j].track
      BY <1>1, <1>5, <2>3
    <3>4. (IF screen'.mode = "replace" /\ pubs'[i].src = "camera" THEN screen'.track ELSE pubs'[i].track) = i
      BY <1>6, <3>2
    <3> QED
      BY <3>1, <3>3, <3>4 DEF Wanted
  <2>9. ~races'.swapped => ManagedOK'
    <3> SUFFICES ASSUME ~races.swapped PROVE ManagedOK'
      BY <1>1
    <3>1. managed = {pubs[j].track : j \in {j \in Range(listed) : pubs[j].src # "microphone"}}
      BY <2>1 DEF ManagedOK
    <3>2. {pubs'[j].track : j \in {j \in Range(listed') : pubs'[j].src # "microphone"}}
            = {pubs[j].track : j \in {j \in Range(listed) : pubs[j].src # "microphone"}}
                \cup (IF k.src = "microphone" THEN {} ELSE {i})
      BY <1>5, <1>6
    <3> QED
      BY <1>1, <3>1, <3>2 DEF ManagedOK
  <2>10. ASSUME NEW p \in present' \ races'.came PROVE PeerOK(p)'
    <3>1. PeerOK(p) /\ p \in k.seen
      BY <1>1, <2>1, <2>10
    <3> QED
      BY <1>1, <2>1, <2>8, <3>1, PeerPublished DEF i
  <2> QED
    BY <2>7, <2>9, <2>10
<1> QED
  BY <1>7, <1>8, <1>9, <1>10, <1>11 DEF CaptureInv

\* One track takes another's place in what is wanted, and the call that put it there is over.
LEMMA PeerSwapped ==
  ASSUME MediaInv, CaptureInv, ApartOK, NEW k \in tasks, NEW p, PeerOK(p),
         k.at = "swap", k.op \in {"switch", "share"}, k.todo = {}, k.old \in Wanted,
         sent' = sent, tasks' = tasks \ {k}, Wanted' = (Wanted \ {k.old}) \cup {k.new}
  PROVE  PeerOK(p)'
<1>1. /\ \A t : Lacks(k, p, t) => t = k.old
      /\ \A t : Extra(k, p, t) => t = k.new
      /\ k.new \in sent[p] /\ k.old \notin sent[p]
  BY DEF Extra, Lacks, PeerOK, Unshares
<1>2. ASSUME NEW j \in tasks, j # k PROVE j.at = "swap" => j.old \notin {k.old, k.new}
  <2>1. /\ j.at = "swap" => Held(j, j.old)
        /\ Held(k, k.old) /\ Held(k, k.new)
    BY DEF Held
  <2> QED
    BY <1>2, <2>1, HeldOnce
<1>3. ASSUME NEW j \in tasks, j # k, NEW t, Extra(j, p, t) PROVE Extra(j, p, t)'
  BY <1>2, <1>3 DEF Extra, Unshares
<1>4. \A j, t : Lacks(j, p, t)' <=> Lacks(j, p, t)
  BY DEF Lacks, Unshares
<1>5. ASSUME NEW t \in sent[p] PROVE t \in Wanted' \/ \E j \in tasks' : Extra(j, p, t)'
  <2>1. t \in Wanted \/ \E j \in tasks : Extra(j, p, t)
    BY DEF PeerOK
  <2>2. t # k.old
    BY <1>1
  <2> QED
    BY <1>1, <1>3, <2>1, <2>2
<1>6. ASSUME NEW t \in Wanted' PROVE t \in sent[p] \/ \E j \in tasks' : Lacks(j, p, t)
  <2>1. CASE t = k.new
    BY <1>1, <2>1
  <2>2. CASE t \in Wanted /\ t # k.old
    <3>1. t \in sent[p] \/ \E j \in tasks : Lacks(j, p, t)
      BY <2>2 DEF PeerOK
    <3> QED
      BY <1>1, <2>2, <3>1
  <2> QED
    BY <2>1, <2>2
<1>7. \A j \in tasks' :
        /\ j.at = "publish" /\ p \in j.seen => j.new \in sent[p]
        /\ j.at = "swap" /\ j.op \in {"switch", "share"} /\ j.old \in Wanted' /\ p \notin j.todo =>
             j.new \in sent[p] /\ j.old \notin sent[p]
  BY <1>2 DEF PeerOK
<1> QED
  BY <1>4, <1>5, <1>6, <1>7 DEF PeerOK

LEMMA ReplaceServed ==
  ASSUME MediaInv, CaptureInv, NEW k \in tasks, Swapped(k), k.op = "share"
  PROVE  CaptureInv'
<1> DEFINE i == k.new
<1>1. /\ kinds' = kinds /\ live' = live /\ sent' = sent /\ present' = present /\ races' = races
      /\ pubs' = pubs /\ listed' = listed /\ managed' = managed
      /\ tasks' = tasks \ {k} /\ k.at = "swap" /\ k.todo = {}
      /\ screen' = [flag |-> TRUE, mode |-> "replace", track |-> i, pub |-> screen.pub]
      /\ heard' = heard \cup {i} /\ said' = "start"
  BY DEF Swapped, Return, Sharing, mesh, tracks
<1>2. MediaTypeOK /\ PubsOK /\ TaskOK(k) /\ k \in Task /\ HoldsOK(k) /\ ShareOK
  BY DEF MediaInv, TaskOK, CaptureInv
<1>3. /\ i \in DOMAIN kinds /\ kinds[i] = "screen" /\ k.src = "screen" /\ i # 0
      /\ k.old \in DOMAIN kinds /\ kinds[k.old] = "camera"
  BY <1>1, <1>2 DEF TaskOK, HoldsOK, New, MediaTypeOK
<1>4. ~Unshares(k)
  BY DEF Unshares
<1>5. \A j \in tasks' : HoldsOK(j)'
  <2> TAKE j \in tasks'
  <2>1. HoldsOK(j) /\ heard \subseteq heard'
    BY <1>1 DEF CaptureInv
  <2> QED
    BY <1>1, <2>1, HoldsKept
<1>6. ShareOK'
  BY <1>1, <1>2, <1>3 DEF ShareOK
<1>7. ASSUME "screen" \notin races'.clash PROVE ScreenOK'
  <2>1. ScreenOK
    BY <1>1, <1>7 DEF CaptureInv
  <2>2. \A l, j \in tasks' : l.src = "screen" /\ j.src = "screen" => l = j
    BY <1>1, <2>1 DEF ScreenOK
  <2>3. ~screen.flag /\ i \in live \cup races.gone /\ i \notin heard
    BY <1>1, <2>1 DEF ScreenOK
  <2>4. \A j \in tasks' : j.op # "share"
    <3> SUFFICES ASSUME NEW j \in tasks', j.op = "share" PROVE FALSE
      OBVIOUS
    <3>1. j \in tasks /\ j # k /\ j.src = "screen"
      BY <1>1 DEF MediaInv, TaskOK
    <3> QED
      BY <1>3, <2>1, <3>1 DEF ScreenOK
  <2>5. \A j \in tasks' : j.shown # i
    BY <1>1, <1>3, <2>3 DEF CaptureInv, HoldsOK
  <2>6. \A j \in Range(listed) : pubs[j].src # "screen"
    BY <1>2, <2>1, <2>3 DEF ScreenOK, ShareOK
  <2>7. ASSUME NEW t \in live, kinds[t] = "screen", t # i
        PROVE  \E j \in tasks' : Unshares(j) /\ j.shown = t
    <3>1. PICK j \in tasks : \/ j.op = "share" /\ j.at \in {"publish", "swap"} /\ j.new = t
                             \/ Unshares(j) /\ j.shown = t
      BY <2>1, <2>3, <2>7 DEF ScreenOK
    <3>2. j # k /\ j \in tasks'
      BY <1>1, <1>4, <2>7, <3>1
    <3> QED
      BY <2>4, <3>1, <3>2
  <2>8. screen'.flag /\ screen'.track = i
    BY <1>1
  <2> QED
    BY <1>1, <2>2, <2>3, <2>4, <2>5, <2>6, <2>7, <2>8 DEF ScreenOK, Unshares
<1>8. ASSUME NEW s \in Device \ races'.clash PROVE LiveOK(s)'
  BY <1>1, <1>8 DEF CaptureInv, LiveOK
<1>9. ASSUME ~races'.overlap
      PROVE  /\ ApartOK'
             /\ \A p \in present' \ races'.came : PeerOK(p)'
             /\ ~races'.swapped => ManagedOK'
  <2>1. ApartOK /\ (~races.swapped => ManagedOK) /\ (\A p \in present \ races.came : PeerOK(p))
    BY <1>1, <1>9 DEF CaptureInv
  <2>2. ASSUME NEW l \in tasks', NEW j \in tasks', l.src \in Touches(j.src) PROVE l = j
    BY <1>1, <2>1, <2>2 DEF ApartOK
  <2>3. ScreenOK /\ Single("camera")
    BY <2>1 DEF CaptureInv, ApartOK, MediaInv, DeviceOK, Device
  <2>4. screen.mode = "none"
    BY <1>1, <1>2, <2>3 DEF ScreenOK, ShareOK
  <2>5. PICK c \in Range(listed) : pubs[c].src = "camera" /\ pubs[c].track = k.old
    BY <1>1, <2>1 DEF ApartOK, Camera
  <2>6. ASSUME NEW j \in tasks'
        PROVE  /\ j.op = "share" /\ j.at = "swap" => Camera(j.old)
               /\ Unshares(j) /\ j.at = "swap" => Camera(j.new)
               /\ ~(Unshares(j) \/ j.at = "restored")
    <3>1. j \in tasks /\ j # k
      BY <1>1
    <3>2. Unshares(j) \/ j.at = "restored" => j.src \in {"camera", "screen"}
      BY <3>1 DEF CaptureInv, MediaInv, TaskOK, HoldsOK, Unshares
    <3>3. ~(Unshares(j) \/ j.at = "restored")
      BY <1>3, <2>1, <3>1, <3>2 DEF ApartOK, Touches
    <3> QED
      BY <2>1, <3>1, <3>3 DEF ApartOK
  <2>7. ApartOK'
    BY <1>1, <2>1, <2>2, <2>5, <2>6 DEF ApartOK, Camera, Unshares
  <2>8. /\ k.old \in Wanted
        /\ Wanted' = (Wanted \ {k.old}) \cup {k.new}
    <3>1. Listed' = Range(listed) /\ Listed = Range(listed)
      BY <1>1 DEF Listed, Range
    <3>2. Wanted = {pubs[j].track : j \in Range(listed)}
      BY <2>4, <3>1 DEF Wanted
    <3>3. Wanted' = {IF pubs[j].src = "camera" THEN i ELSE pubs[j].track : j \in Range(listed)}
      BY <1>1, <3>1 DEF Wanted
    <3>4. \A j \in Range(listed) : pubs[j].src = "camera" <=> pubs[j].track = k.old
      <4> TAKE j \in Range(listed)
      <4>1. pubs[j].src = "camera" => j = c
        BY <2>3, <2>5 DEF Single
      <4>2. kinds[pubs[j].track] = pubs[j].src
        BY WantedOf
      <4> QED
        BY <1>3, <2>5, <4>1, <4>2
    <3> QED
      BY <2>5, <3>2, <3>3, <3>4
  <2>9. ManagedOK => ManagedOK'
    BY <1>1 DEF ManagedOK
  <2>10. ASSUME NEW p \in present' \ races'.came PROVE PeerOK(p)'
    <3>1. PeerOK(p)
      BY <1>1, <2>1, <2>10
    <3> QED
      BY <1>1, <2>1, <2>8, <3>1, PeerSwapped
  <2> QED
    BY <1>1, <2>1, <2>7, <2>9, <2>10
<1> QED
  BY <1>5, <1>6, <1>7, <1>8, <1>9 DEF CaptureInv

LEMMA AdoptServed ==
  ASSUME MediaInv, CaptureInv, NEW k \in tasks, Swapped(k), k.op = "switch"
  PROVE  CaptureInv'
<1> DEFINE i == k.pub
           over == races.swapped \/ k.src = "camera"
<1>1. /\ kinds' = kinds /\ sent' = sent /\ present' = present /\ screen' = screen
      /\ heard' = heard /\ said' = said /\ listed' = listed /\ managed' = managed
      /\ live' = live \ {k.old}
      /\ pubs' = [pubs EXCEPT ![i].track = k.new, ![i].muted = k.was]
      /\ races' = [races EXCEPT !.swapped = over]
      /\ tasks' = tasks \ {k} /\ k.at = "swap" /\ k.todo = {}
  BY DEF Swapped, Adopt, Return, mesh, share
<1>2. MediaTypeOK /\ PubsOK /\ TaskOK(k) /\ k \in Task /\ HoldsOK(k) /\ ShareOK
  BY DEF MediaInv, TaskOK, CaptureInv
<1>3. /\ k.src \in Device /\ k.src # "screen" /\ k.src # "none"
      /\ i \in TrackId /\ pubs[i].src = k.src
      /\ k.old \in DOMAIN kinds /\ kinds[k.old] = k.src /\ k.new # k.old
      /\ k.new \in DOMAIN kinds /\ kinds[k.new] = k.src /\ ~Unshares(k)
  BY <1>1, <1>2 DEF TaskOK, HoldsOK, New, Device, Unshares
<1>4. /\ races'.clash = races.clash /\ races'.overlap = races.overlap /\ races'.gone = races.gone
      /\ races'.came = races.came /\ races'.swapped = over
  <2>1. races \in [late : SUBSET Device, clash : SUBSET Source, overlap : BOOLEAN,
                   swapped : BOOLEAN, gone : SUBSET Nat, came : SUBSET Party]
    BY <1>2 DEF MediaTypeOK
  <2> HIDE DEF over
  <2> QED
    BY <1>1, <2>1
<1>5. /\ \A j \in TrackId : pubs'[j].src = pubs[j].src
      /\ \A j \in TrackId : j # i => pubs'[j].track = pubs[j].track
      /\ pubs'[i].track = k.new
  <2>1. pubs \in [TrackId -> Publication]
    BY <1>2 DEF MediaTypeOK
  <2> HIDE DEF i
  <2> QED
    BY <1>1, <1>3, <2>1 DEF Publication
<1>6. Range(listed) \subseteq TrackId /\ Listed = Range(listed) /\ Listed' = Range(listed)
  BY <1>1, <1>2 DEF MediaTypeOK, Range, Listed
<1> HIDE DEF i
<1>7. \A j \in tasks' : HoldsOK(j)'
  <2> TAKE j \in tasks'
  <2>1. HoldsOK(j)
    BY <1>1 DEF CaptureInv
  <2> QED
    BY <1>1, <2>1, HoldsKept
<1>8. ShareOK'
  <2>1. \A j \in TrackId : pubs'[j].src = "screen" => pubs'[j].track = j
    BY <1>2, <1>3, <1>5 DEF ShareOK
  <2> QED
    BY <1>1, <1>2, <2>1 DEF ShareOK
<1>9. ASSUME "screen" \notin races'.clash PROVE ScreenOK'
  <2>1. ScreenOK
    BY <1>4, <1>9 DEF CaptureInv
  <2>2. \A l, j \in tasks' : l.src = "screen" /\ j.src = "screen" => l = j
    BY <1>1, <2>1 DEF ScreenOK
  <2>3. ASSUME NEW j \in tasks', j.op = "share"
        PROVE  /\ ~screen.flag
               /\ j.at \in {"publish", "swap"} => j.new \in live' \cup races.gone /\ j.new \notin heard
    <3>1. j \in tasks /\ j.op = "share"
      BY <1>1, <2>3
    <3>2. j.at \in {"publish", "swap"} => kinds[j.new] = "screen"
      BY <3>1 DEF MediaInv, CaptureInv, TaskOK, HoldsOK, New
    <3> QED
      BY <1>1, <1>3, <2>1, <3>1, <3>2 DEF ScreenOK
  <2>4. screen.flag => /\ screen.track \in live' \cup races.gone
                       /\ \A j \in tasks' : j.shown # screen.track
    BY <1>1, <1>2, <1>3, <2>1 DEF ScreenOK, ShareOK
  <2>5. ASSUME NEW t \in live', kinds[t] = "screen", ~(screen.flag /\ screen.track = t)
        PROVE  \E j \in tasks' : \/ j.op = "share" /\ j.at \in {"publish", "swap"} /\ j.new = t
                                 \/ Unshares(j) /\ j.shown = t
    <3>1. PICK j \in tasks : \/ j.op = "share" /\ j.at \in {"publish", "swap"} /\ j.new = t
                             \/ Unshares(j) /\ j.shown = t
      BY <1>1, <2>1, <2>5 DEF ScreenOK
    <3>2. j # k
      BY <1>3, <3>1
    <3> QED
      BY <1>1, <3>1, <3>2
  <2>6. \A j \in Range(listed) : pubs'[j].src = "screen" =>
          screen.mode = "separate" /\ screen.pub = j
    BY <1>5, <1>6, <2>1 DEF ScreenOK
  <2> QED
    BY <1>1, <1>4, <2>2, <2>3, <2>4, <2>5, <2>6 DEF ScreenOK, Unshares
<1>10. ASSUME NEW s \in Device \ races'.clash PROVE LiveOK(s)'
  <2>1. LiveOK(s) /\ Single(s) /\ InHand(s)
    BY <1>4, <1>10 DEF CaptureInv, MediaInv, DeviceOK
  <2>2. ASSUME NEW j \in Range(listed), pubs[j].src = s PROVE pubs'[j].track \in live'
    <3>1. CASE j = i
      <4>1. k.src = s /\ k.new \in live
        BY <1>1, <1>3, <2>1, <2>2, <3>1 DEF LiveOK
      <4> QED
        BY <1>1, <1>3, <1>5, <3>1, <4>1
    <3>2. CASE j # i
      <4>1. pubs'[j].track = pubs[j].track /\ pubs[j].track \in live
        BY <1>5, <1>6, <2>1, <2>2, <3>2 DEF LiveOK
      <4>2. pubs[j].track # k.old
        <5>1. kinds[pubs[j].track] = s
          BY <2>2, WantedOf
        <5>2. k.src = s => j = i
          BY <1>3, <2>1, <2>2 DEF Single, InHand, i
        <5> QED
          BY <1>3, <3>2, <5>1, <5>2
      <4> QED
        BY <1>1, <4>1, <4>2
    <3> QED
      BY <3>1, <3>2
  <2>3. ASSUME NEW j \in tasks', j.src = s
        PROVE  /\ j.at = "publish" \/ (j.op = "switch" /\ j.at = "swap") => j.new \in live'
               /\ j.op = "stop" /\ j.at = "remove" => \A l \in Range(listed) : pubs'[l].src # s
    <3>1. k.src # s /\ j \in tasks
      BY <1>1, <2>1, <2>3 DEF Single
    <3>2. j.at = "publish" \/ (j.op = "switch" /\ j.at = "swap") => kinds[j.new] = s
      BY <2>3, <3>1 DEF MediaInv, TaskOK, New
    <3> QED
      BY <1>1, <1>3, <1>5, <1>6, <2>1, <2>3, <3>1, <3>2 DEF LiveOK
  <2>4. \A j \in Range(listed) : pubs'[j].src = pubs[j].src
    BY <1>5, <1>6
  <2> QED
    BY <1>1, <2>2, <2>3, <2>4 DEF LiveOK
<1>11. ASSUME ~races'.overlap
       PROVE  /\ ApartOK'
              /\ \A p \in present' \ races'.came : PeerOK(p)'
              /\ ~races'.swapped => ManagedOK'
  <2>1. ApartOK /\ (~races.swapped => ManagedOK) /\ (\A p \in present \ races.came : PeerOK(p))
    BY <1>4, <1>11 DEF CaptureInv
  <2>2. ASSUME NEW l \in tasks', NEW j \in tasks', l.src \in Touches(j.src) PROVE l = j
    BY <1>1, <2>1, <2>2 DEF ApartOK
  <2>3. /\ Single(k.src) /\ i \in Range(listed) /\ pubs[i].track = k.old
        /\ \A j \in Range(listed) : j # i => pubs[j].src # k.src
    <3>1. Single(k.src) /\ InHand(k.src)
      BY <1>3, <2>1 DEF ApartOK, MediaInv, DeviceOK
    <3>2. i \in Range(listed) /\ pubs[i].track = k.old
      BY <3>1 DEF InHand, i
    <3> QED
      BY <1>3, <3>1, <3>2 DEF Single
  <2>4. ASSUME NEW j \in tasks' PROVE /\ j.op = "share" /\ j.at = "swap" => Camera(j.old)'
                                      /\ Unshares(j) /\ j.at = "swap" => Camera(j.new)'
    <3>1. j \in tasks /\ j # k
      BY <1>1
    <3>2. Unshares(j) \/ j.op = "share" => j.src \in {"camera", "screen"}
      BY <3>1 DEF CaptureInv, MediaInv, TaskOK, HoldsOK, Unshares
    <3>3. Unshares(j) \/ j.op = "share" => k.src # "camera"
      BY <2>1, <3>1, <3>2 DEF ApartOK, Touches
    <3>4. k.src # "camera" => \A t : Camera(t) => Camera(t)'
      BY <1>1, <1>3, <1>5, <1>6 DEF Camera
    <3> QED
      BY <2>1, <3>1, <3>3, <3>4 DEF ApartOK
  <2>5. \A j \in tasks' : Unshares(j) \/ j.at = "restored" => ~screen.flag
    BY <1>1, <2>1 DEF ApartOK
  <2>6. (said = "start" <=> screen.flag) \/ \E j \in tasks' : Unshares(j)
    BY <1>1, <1>3, <2>1 DEF ApartOK
  <2>7. ApartOK'
    <3>1. screen.mode = "replace" => \E j \in Range(listed) : pubs'[j].src = "camera"
      BY <1>5, <1>6, <2>1 DEF ApartOK
    <3>2. races'.clash = {}
      BY <1>4, <2>1 DEF ApartOK
    <3> QED
      BY <1>1, <2>2, <2>4, <2>5, <2>6, <3>1, <3>2 DEF ApartOK, Unshares
  <2>8. ~races'.swapped => ManagedOK'
    <3> SUFFICES ASSUME ~over PROVE ManagedOK'
      BY <1>4
    <3>1. k.src = "microphone"
          /\ managed = {pubs[j].track : j \in {j \in Range(listed) : pubs[j].src # "microphone"}}
      BY <1>3, <2>1 DEF ManagedOK, Device
    <3>2. {j \in Range(listed) : pubs'[j].src # "microphone"}
            = {j \in Range(listed) : pubs[j].src # "microphone"}
      BY <1>5, <1>6
    <3>3. \A j \in {j \in Range(listed) : pubs[j].src # "microphone"} : pubs'[j].track = pubs[j].track
      BY <1>3, <1>5, <1>6, <3>1
    <3> QED
      BY <1>1, <3>1, <3>2, <3>3 DEF ManagedOK
  <2>9. ASSUME NEW p \in present' \ races'.came PROVE PeerOK(p)'
    <3>1. PeerOK(p)
      BY <1>1, <1>4, <2>1, <2>9
    <3>2. \A j \in Range(listed) : j # i => pubs[j].track # k.old
      <4>1. \A j \in Range(listed) : kinds[pubs[j].track] = pubs[j].src
        BY WantedOf
      <4> QED
        BY <1>3, <2>3, <4>1
    <3>3. CASE screen.mode = "replace" /\ k.src = "camera"
      <4>1. k.old \notin Wanted
        <5>1. kinds[k.old] = "camera"
          BY <1>3, <3>3
        <5> QED
          BY <3>3, <5>1, WantedOf
      <4>2. Wanted' = Wanted
        <5>1. \A j \in Range(listed) :
                (IF screen'.mode = "replace" /\ pubs'[j].src = "camera" THEN screen'.track ELSE pubs'[j].track)
                = IF screen.mode = "replace" /\ pubs[j].src = "camera" THEN screen.track ELSE pubs[j].track
          BY <1>1, <1>3, <1>5, <1>6, <3>3
        <5> QED
          BY <1>6, <5>1 DEF Wanted
      <4>3. \A j, t : (Extra(j, p, t)' <=> Extra(j, p, t)) /\ (Lacks(j, p, t)' <=> Lacks(j, p, t))
        BY <1>1, <4>2 DEF Extra, Lacks, Unshares
      <4>4. /\ \A t : ~Extra(k, p, t)
            /\ \A t : Lacks(k, p, t) => t = k.old
        BY <1>1, <1>3, <4>1 DEF Extra, Lacks
      <4>5. \A t \in sent[p] : t \in Wanted \/ \E j \in tasks' : Extra(j, p, t)
        BY <1>1, <3>1, <4>4 DEF PeerOK
      <4>6. \A t \in Wanted : t \in sent[p] \/ \E j \in tasks' : Lacks(j, p, t)
        BY <1>1, <3>1, <4>1, <4>4 DEF PeerOK
      <4>7. \A j \in tasks' :
              /\ j.at = "publish" /\ p \in j.seen => j.new \in sent[p]
              /\ j.at = "swap" /\ j.op \in {"switch", "share"} /\ j.old \in Wanted /\ p \notin j.todo =>
                   j.new \in sent[p] /\ j.old \notin sent[p]
        BY <1>1, <3>1 DEF PeerOK
      <4> QED
        BY <1>1, <4>2, <4>3, <4>5, <4>6, <4>7 DEF PeerOK
    <3>4. CASE ~(screen.mode = "replace" /\ k.src = "camera")
      <4>1. k.old \in Wanted
        BY <1>3, <2>3, <3>4, WantedOf
      <4> DEFINE f(j) == IF screen.mode = "replace" /\ pubs[j].src = "camera" THEN screen.track
                         ELSE pubs[j].track
                 g(j) == IF screen'.mode = "replace" /\ pubs'[j].src = "camera" THEN screen'.track
                         ELSE pubs'[j].track
      <4>2. f(i) = k.old /\ g(i) = k.new
        BY <1>1, <1>3, <1>5, <2>3, <3>4
      <4>3. ASSUME NEW j \in Range(listed), j # i PROVE g(j) = f(j) /\ f(j) # k.old
        <5>1. g(j) = f(j)
          BY <1>1, <1>5, <1>6, <4>3
        <5>2. screen.mode = "replace" => screen.track # k.old
          BY <1>3, WantedOf
        <5> QED
          BY <3>2, <4>3, <5>1, <5>2
      <4>4. Wanted = {f(j) : j \in Range(listed)} /\ Wanted' = {g(j) : j \in Range(listed)}
        BY <1>6 DEF Wanted
      <4> HIDE DEF f, g
      <4>5. Wanted' = (Wanted \ {k.old}) \cup {k.new}
        BY <2>3, <4>2, <4>3, <4>4
      <4> QED
        BY <1>1, <2>1, <3>1, <4>1, <4>5, PeerSwapped
    <3> QED
      BY <3>3, <3>4
  <2> QED
    BY <2>7, <2>8, <2>9
<1> QED
  BY <1>7, <1>8, <1>9, <1>10, <1>11 DEF CaptureInv

LEMMA SwappedServed ==
  ASSUME MediaInv, CaptureInv, NEW k \in tasks, Swapped(k)
  PROVE  CaptureInv'
<1>1. k \in Task /\ TaskOK(k) /\ HoldsOK(k)
  BY DEF MediaInv, TaskOK, CaptureInv
<1>2. CASE k.op \notin {"switch", "share"}
  <2> DEFINE next == [k EXCEPT !.at = "announce"]
  <2>1. /\ Quiet /\ present' = present /\ races' = races /\ k.at = "swap" /\ k.todo = {}
        /\ tasks' = (tasks \ {k}) \cup {next}
    BY <1>2 DEF Swapped, Become, mesh, tracks, share, Quiet
  <2>2. Unshares(k) /\ k.op \in {"stop", "unshare"}
    BY <1>1, <1>2, <2>1 DEF TaskOK, Unshares
  <2>3. /\ next.at = "announce" /\ next.op = k.op /\ next.src = k.src /\ next.shown = k.shown
        /\ next.old = k.old
    BY <1>1 DEF Task
  <2> HIDE DEF next
  <2>4. HoldsOK(next) /\ Unshares(next)
    BY <1>1, <2>1, <2>2, <2>3 DEF HoldsOK, Unshares
  <2>5. \A p \in present : \A t : ~Extra(k, p, t) /\ ~Lacks(k, p, t)
    BY <1>2, <2>1 DEF Extra, Lacks
  <2>6. k.op # "share"
    BY <1>2
  <2> QED
    BY <2>1, <2>2, <2>3, <2>4, <2>5, <2>6, QuietStep
<1> QED
  BY <1>2, AdoptServed, ReplaceServed

\* What a call that begins makes of the history.
LEMMA EnterHistory ==
  ASSUME MediaInv, NEW k, k.src \in Source, Enter(k)
  PROVE  /\ tasks' = tasks \cup {k}
         /\ races.clash \subseteq races'.clash /\ races'.clash \subseteq races.clash \cup {k.src}
         /\ k.src \notin races'.clash => \A j \in tasks : j.src # k.src
         /\ ~races'.overlap => /\ ~races.overlap /\ races'.clash = races.clash
                               /\ \A j \in tasks : j.src \notin Touches(k.src)
         /\ races'.gone = races.gone /\ races'.came = races.came
         /\ races'.swapped = races.swapped
<1> DEFINE running == {o.src : o \in tasks}
           both == IF k.src \in running THEN races.clash \cup {k.src} ELSE races.clash
           over == races.overlap \/ running \cap Touches(k.src) # {}
<1>1. /\ tasks' = tasks \cup {k}
      /\ races' = [races EXCEPT !.clash = both, !.overlap = over]
  BY DEF Enter
<1>2. /\ races'.clash = both /\ races'.overlap = over /\ races'.gone = races.gone
      /\ races'.came = races.came /\ races'.swapped = races.swapped
  <2>1. races \in [late : SUBSET Device, clash : SUBSET Source, overlap : BOOLEAN,
                   swapped : BOOLEAN, gone : SUBSET Nat, came : SUBSET Party]
    BY DEF MediaInv, MediaTypeOK
  <2> HIDE DEF both, over
  <2> QED
    BY <1>1, <2>1
<1>3. ~over => k.src \notin running
  BY TouchesOK
<1>4. ~over => ~races.overlap /\ \A j \in tasks : j.src \notin Touches(k.src)
  OBVIOUS
<1>5. /\ races.clash \subseteq both /\ both \subseteq races.clash \cup {k.src}
      /\ k.src \notin both => \A j \in tasks : j.src # k.src
      /\ k.src \notin running => both = races.clash
  OBVIOUS
<1> HIDE DEF running, both, over
<1> QED
  BY <1>1, <1>2, <1>3, <1>4, <1>5

LEMMA UnlistOK ==
  ASSUME listed \in Seq(TrackId), NEW i, listed' = ListWithout(i),
         \A m, n \in DOMAIN listed : listed[m] = listed[n] => m = n
  PROVE  /\ Range(listed') = Range(listed) \ {i}
         /\ \A m, n \in DOMAIN listed' : listed'[m] = listed'[n] => m = n
<1>1. CASE Contains(listed, i)
  <2> DEFINE n == CHOOSE m \in DOMAIN listed : listed[m] = i
  <2>1. n \in DOMAIN listed /\ listed[n] = i /\ listed' = RemoveAt(listed, n)
    <3>1. \E m \in DOMAIN listed : listed[m] = i
      BY <1>1 DEF Contains
    <3> QED
      BY <1>1, <3>1 DEF ListWithout
  <2> HIDE DEF n
  <2>2. /\ listed' \in Seq(TrackId) /\ Len(listed') = Len(listed) - 1
        /\ \A m \in 1 .. Len(listed) - 1 :
             listed'[m] = IF m < n THEN listed[m] ELSE listed[m + 1]
    <3>1. listed \in Seq(TrackId) /\ n \in DOMAIN listed
      BY <2>1
    <3>2. /\ RemoveAt(listed, n) \in Seq(TrackId) /\ Len(RemoveAt(listed, n)) = Len(listed) - 1
          /\ \A m \in 1 .. Len(listed) - 1 :
               RemoveAt(listed, n)[m] = IF m < n THEN listed[m] ELSE listed[m + 1]
      BY <3>1, RemoveAtOK
    <3> QED
      BY <2>1, <3>2
  <2>3. DOMAIN listed' = 1 .. Len(listed) - 1 /\ DOMAIN listed = 1 .. Len(listed)
        /\ Len(listed) \in Nat /\ n \in 1 .. Len(listed)
    BY <2>1, <2>2
  <2> DEFINE from(m) == IF m < n THEN m ELSE m + 1
  <2>4. \A m \in DOMAIN listed' : /\ from(m) \in DOMAIN listed /\ from(m) # n
                                  /\ listed'[m] = listed[from(m)]
    BY <2>2, <2>3
  <2>5. \A m, l \in DOMAIN listed' : from(m) = from(l) => m = l
    BY <2>3
  <2> HIDE DEF from
  <2>6. i \notin Range(listed')
    BY <2>1, <2>4 DEF Range
  <2>7. Range(listed') \subseteq Range(listed)
        /\ \A j \in Range(listed) : j # i => j \in Range(listed')
    BY ListWithoutOK
  <2>8. \A m, l \in DOMAIN listed' : listed'[m] = listed'[l] => m = l
    BY <2>4, <2>5
  <2> QED
    BY <2>6, <2>7, <2>8
<1>2. CASE ~Contains(listed, i)
  <2>1. listed' = listed /\ i \notin Range(listed)
    BY <1>2 DEF ListWithout, Contains, Range
  <2> QED
    BY <2>1
<1> QED
  BY <1>1, <1>2

\* A device's call withdraws its publication: it is unlisted, and to be taken off connections.
Withdraws(s, i, next, rest) ==
  /\ Unlist(i) /\ tasks' = rest \cup {next} /\ rest \subseteq tasks
  /\ kinds' = kinds /\ pubs' = pubs /\ live' = live /\ screen' = screen /\ heard' = heard
  /\ said' = said /\ sent' = sent /\ present' = present
  /\ i \in TrackId /\ pubs[i].src = s /\ HoldsOK(next)
  /\ next.op = "stop" /\ next.at = "remove" /\ next.src = s /\ next.old = pubs[i].track
  /\ next.seen = {}
  /\ next.shown = 0 \/ \E j \in tasks : j.shown = next.shown
  /\ \A j \in tasks \ rest : j.at = "restored" /\ j.op = "stop"
  /\ races.clash \subseteq races'.clash
  /\ s \notin races'.clash => i \in Range(listed) /\ \A j \in rest : j.src # s
  /\ ~races'.overlap => /\ ~races.overlap /\ races'.clash = races.clash
                        /\ \A j \in rest : j.src \notin Touches(s)
                        /\ s = "camera" => screen.mode # "replace"
  /\ races'.gone = races.gone /\ races'.came = races.came /\ races'.swapped = races.swapped

LEMMA WithdrawServed ==
  ASSUME MediaInv, CaptureInv, NEW s \in Device, NEW i, NEW next, NEW rest,
         Withdraws(s, i, next, rest)
  PROVE  CaptureInv'
<1>1. /\ listed' = ListWithout(i) /\ managed' = managed \ {pubs[i].track}
      /\ tasks' = rest \cup {next} /\ rest \subseteq tasks
      /\ kinds' = kinds /\ pubs' = pubs /\ live' = live /\ screen' = screen /\ heard' = heard
      /\ said' = said /\ sent' = sent /\ present' = present
      /\ races'.gone = races.gone /\ races'.came = races.came /\ races'.swapped = races.swapped
      /\ races.clash \subseteq races'.clash
  BY DEF Withdraws, Unlist
<1>2. MediaTypeOK /\ PubsOK /\ ShareOK /\ i \in TrackId /\ pubs[i].src = s
      /\ s # "screen" /\ s # "none" /\ s \in Source
  BY DEF MediaInv, CaptureInv, Withdraws, Device, Source
<1>3. /\ next.op = "stop" /\ next.at = "remove" /\ next.src = s /\ next.old = pubs[i].track
      /\ ~Unshares(next) /\ HoldsOK(next)
      /\ next.shown = 0 \/ \E j \in tasks : j.shown = next.shown
      /\ \A j \in tasks \ rest : j.at = "restored" /\ j.op = "stop" /\ ~Unshares(j)
  BY DEF Withdraws, Unshares
<1>4. /\ Range(listed') = Range(listed) \ {i}
      /\ \A m, n \in DOMAIN listed' : listed'[m] = listed'[n] => m = n
  BY <1>1, <1>2, UnlistOK DEF ShareOK, MediaTypeOK
<1>5. pubs[i].track \in DOMAIN kinds /\ kinds[pubs[i].track] = s
  BY <1>2 DEF PubsOK
<1>6. \A j \in tasks' : HoldsOK(j)'
  <2> TAKE j \in tasks'
  <2>1. HoldsOK(j)
    BY <1>1, <1>3 DEF CaptureInv
  <2> QED
    BY <1>1, <2>1, HoldsKept
<1>7. ShareOK'
  BY <1>1, <1>2, <1>4 DEF ShareOK
<1>8. ASSUME "screen" \notin races'.clash PROVE ScreenOK'
  <2>1. ScreenOK
    BY <1>1, <1>8 DEF CaptureInv
  <2>2. \A l, j \in tasks' : l.src = "screen" /\ j.src = "screen" => l = j
    BY <1>1, <1>2, <1>3, <2>1 DEF ScreenOK
  <2>3. \A j \in tasks' : j.op = "share" =>
          /\ ~screen.flag
          /\ j.at \in {"publish", "swap"} => j.new \in live \cup races.gone /\ j.new \notin heard
    BY <1>1, <1>3, <2>1 DEF ScreenOK
  <2>4. screen.flag => /\ screen.track \in live \cup races.gone
                       /\ \A j \in tasks' : j.shown # screen.track
    <3>1. screen.flag => screen.track # 0
      BY <1>2 DEF ShareOK, MediaTypeOK
    <3> QED
      BY <1>1, <1>3, <2>1, <3>1 DEF ScreenOK
  <2>5. \A t \in live : kinds[t] = "screen" =>
          \/ screen.flag /\ screen.track = t
          \/ \E j \in tasks' : \/ j.op = "share" /\ j.at \in {"publish", "swap"} /\ j.new = t
                               \/ Unshares(j) /\ j.shown = t
    <3>1. \A j \in tasks : j.op = "share" \/ Unshares(j) => j \in tasks'
      BY <1>1, <1>3
    <3> QED
      BY <2>1, <3>1 DEF ScreenOK
  <2>6. \A j \in Range(listed') : pubs[j].src = "screen" =>
          screen.mode = "separate" /\ screen.pub = j
    BY <1>4, <2>1 DEF ScreenOK
  <2> QED
    BY <1>1, <2>2, <2>3, <2>4, <2>5, <2>6 DEF ScreenOK, Unshares
<1>9. ASSUME NEW d \in Device \ races'.clash PROVE LiveOK(d)'
  <2>1. LiveOK(d) /\ Single(d)
    BY <1>1, <1>9 DEF CaptureInv, MediaInv, DeviceOK
  <2>2. ASSUME NEW j \in tasks', j.src = d
        PROVE  /\ j.at = "publish" \/ (j.op = "switch" /\ j.at = "swap") => j.new \in live
               /\ j.op = "stop" /\ j.at = "remove" => \A l \in Range(listed') : pubs[l].src # d
    <3>1. CASE j = next
      <4>1. d = s /\ i \in Range(listed)
        BY <1>3, <1>9, <2>2, <3>1 DEF Withdraws
      <4> QED
        BY <1>2, <1>3, <1>4, <2>1, <3>1, <4>1 DEF Single
    <3>2. CASE j \in rest
      BY <1>1, <1>4, <2>1, <2>2, <3>2 DEF LiveOK
    <3> QED
      BY <1>1, <3>1, <3>2
  <2> QED
    BY <1>1, <1>4, <2>1, <2>2 DEF LiveOK
<1>10. ASSUME ~races'.overlap
       PROVE  /\ ApartOK'
              /\ \A p \in present' \ races'.came : PeerOK(p)'
              /\ ~races'.swapped => ManagedOK'
  <2>1. /\ ~races.overlap /\ races'.clash = races.clash
        /\ \A j \in rest : j.src \notin Touches(s)
        /\ s = "camera" => screen.mode # "replace"
    BY <1>10 DEF Withdraws
  <2>2. ApartOK /\ (~races.swapped => ManagedOK) /\ (\A p \in present \ races.came : PeerOK(p))
    BY <2>1 DEF CaptureInv
  <2>3. i \in Range(listed) /\ \A j \in Range(listed) : pubs[j].src = s => j = i
    <3>1. s \notin races'.clash /\ Single(s)
      BY <2>1, <2>2 DEF ApartOK, MediaInv, DeviceOK
    <3>2. i \in Range(listed)
      BY <3>1 DEF Withdraws
    <3> QED
      BY <1>2, <3>1, <3>2 DEF Single
  <2>4. ASSUME NEW l \in tasks', NEW j \in tasks', l.src \in Touches(j.src) PROVE l = j
    <3>1. CASE l \in rest /\ j \in rest
      BY <1>1, <2>2, <2>4, <3>1 DEF ApartOK
    <3>2. CASE l \in rest /\ j = next
      BY <1>3, <2>1, <2>4, <3>2
    <3>3. CASE l = next /\ j \in rest
      <4>1. j.src \in Source
        BY <1>1, <3>3 DEF MediaInv, TaskOK, Task
      <4> QED
        BY <1>2, <1>3, <2>1, <2>4, <3>3, <4>1, TouchesOK
    <3> QED
      BY <1>1, <3>1, <3>2, <3>3
  <2>5. \A t : s # "camera" => (Camera(t) => Camera(t)')
    BY <1>1, <1>2, <1>4 DEF Camera
  <2>6. ASSUME NEW j \in tasks'
        PROVE  /\ j.op = "share" /\ j.at = "swap" => Camera(j.old)'
               /\ Unshares(j) /\ j.at = "swap" => Camera(j.new)'
               /\ Unshares(j) \/ j.at = "restored" => ~screen.flag
    <3>1. CASE j = next
      BY <1>3, <3>1
    <3>2. CASE j \in rest
      <4>1. j \in tasks
        BY <1>1, <3>2
      <4>2. Unshares(j) \/ j.op = "share" => j.src \in {"camera", "screen"}
        BY <4>1 DEF CaptureInv, MediaInv, TaskOK, HoldsOK, Unshares
      <4>3. Unshares(j) \/ j.op = "share" => s # "camera"
        BY <2>1, <3>2, <4>2 DEF Touches
      <4> QED
        BY <2>2, <2>5, <4>1, <4>3 DEF ApartOK
    <3> QED
      BY <1>1, <3>1, <3>2
  <2>7. (said = "start" <=> screen.flag) \/ \E j \in tasks' : Unshares(j)
    BY <1>1, <1>3, <2>2 DEF ApartOK
  <2>8. ApartOK'
    <3>1. screen.mode = "replace" => \E j \in Range(listed') : pubs[j].src = "camera"
      BY <1>2, <1>4, <2>1, <2>2 DEF ApartOK
    <3>2. races'.clash = {}
      BY <2>1, <2>2 DEF ApartOK
    <3> QED
      BY <1>1, <2>4, <2>6, <2>7, <3>1, <3>2 DEF ApartOK, Unshares
  <2>9. \A j \in Range(listed) : j # i => pubs[j].track # pubs[i].track
    <3>1. \A j \in Range(listed) : kinds[pubs[j].track] = pubs[j].src
      BY WantedOf
    <3> QED
      BY <1>5, <2>3, <3>1
  <2>10. ManagedOK => ManagedOK'
    <3> SUFFICES ASSUME ManagedOK PROVE ManagedOK'
      OBVIOUS
    <3>1. managed = {pubs[j].track : j \in {j \in Range(listed) : pubs[j].src # "microphone"}}
      BY DEF ManagedOK
    <3>2. {pubs[j].track : j \in {j \in Range(listed) \ {i} : pubs[j].src # "microphone"}}
            = managed \ {pubs[i].track}
      BY <2>9, <3>1
    <3> QED
      BY <1>1, <1>4, <3>2 DEF ManagedOK
  <2>11. Wanted' \subseteq Wanted /\ Wanted \subseteq Wanted' \cup {pubs[i].track}
    <3>1. Listed = Range(listed) /\ Listed' = Range(listed) \ {i}
      BY <1>4 DEF Listed, Range
    <3>2. (IF screen.mode = "replace" /\ pubs[i].src = "camera" THEN screen.track ELSE pubs[i].track)
            = pubs[i].track
      BY <1>2, <2>1
    <3> DEFINE f(j) == IF screen.mode = "replace" /\ pubs[j].src = "camera" THEN screen.track
                       ELSE pubs[j].track
    <3>3. Wanted = {f(j) : j \in Range(listed)} /\ Wanted' = {f(j) : j \in Range(listed) \ {i}}
      BY <1>1, <3>1 DEF Wanted
    <3>4. f(i) = pubs[i].track
      BY <3>2
    <3> HIDE DEF f
    <3> QED
      BY <3>3, <3>4
  <2>12. ASSUME NEW p \in present' \ races'.came PROVE PeerOK(p)'
    <3>1. PeerOK(p) /\ sent'[p] = sent[p]
      BY <1>1, <2>2, <2>12
    <3>2. ASSUME NEW j \in rest, NEW t, Extra(j, p, t) PROVE Extra(j, p, t)'
      <4>1. j.at = "swap" /\ j.op \in {"switch", "share"} => j.old # pubs[i].track
        <5>1. j \in tasks /\ j.src \notin Touches(s)
          BY <1>1, <2>1
        <5>2. j.at = "swap" => Held(j, j.old)
          BY DEF Held
        <5>3. s \in Touches(s)
          BY <1>2, TouchesOK
        <5> QED
          BY <1>2, <1>5, <2>2, <5>1, <5>2, <5>3, HeldApart
      <4> QED
        BY <1>1, <2>11, <3>2, <4>1 DEF Extra, Unshares
    <3>3. \A j, t : Lacks(j, p, t)' <=> Lacks(j, p, t)
      BY <3>1 DEF Lacks, Unshares
    <3>4. \A j \in tasks \ rest : \A t : ~Extra(j, p, t) /\ ~Lacks(j, p, t)
      BY <1>3 DEF Extra, Lacks
    <3>5. ASSUME NEW t \in sent[p] PROVE t \in Wanted' \/ \E j \in tasks' : Extra(j, p, t)'
      <4>1. CASE t = pubs[i].track
        <5>1. p \notin next.seen => Extra(next, p, t)'
          BY <1>3, <4>1 DEF Extra
        <5>2. p \notin next.seen
          BY DEF Withdraws
        <5> QED
          BY <1>1, <5>1, <5>2
      <4>2. CASE t # pubs[i].track
        <5>1. t \in Wanted \/ \E j \in tasks : Extra(j, p, t)
          BY <3>1 DEF PeerOK
        <5> QED
          BY <1>1, <2>11, <3>2, <3>4, <4>2, <5>1
      <4> QED
        BY <4>1, <4>2
    <3>6. ASSUME NEW t \in Wanted' PROVE t \in sent[p] \/ \E j \in tasks' : Lacks(j, p, t)
      <4>1. t \in sent[p] \/ \E j \in tasks : Lacks(j, p, t)
        BY <2>11, <3>1 DEF PeerOK
      <4> QED
        BY <1>1, <3>4, <4>1
    <3>7. \A j \in tasks' :
            /\ j.at = "publish" /\ p \in j.seen => j.new \in sent[p]
            /\ j.at = "swap" /\ j.op \in {"switch", "share"} /\ j.old \in Wanted' /\ p \notin j.todo =>
                 j.new \in sent[p] /\ j.old \notin sent[p]
      BY <1>1, <1>3, <2>11, <3>1 DEF PeerOK
    <3> QED
      BY <3>1, <3>3, <3>5, <3>6, <3>7 DEF PeerOK
  <2> QED
    BY <1>1, <2>2, <2>8, <2>10, <2>12
<1> QED
  BY <1>6, <1>7, <1>8, <1>9, <1>10 DEF CaptureInv

LEMMA RestoredServed ==
  ASSUME MediaInv, CaptureInv, NEW k \in tasks, Restored(k)
  PROVE  CaptureInv'
<1> DEFINE onward == BeginRemoval(k)
           rest == tasks \ {k}
<1>1. /\ pubs' = pubs /\ kinds' = kinds /\ live' = live /\ sent' = sent /\ present' = present
      /\ screen' = screen /\ heard' = heard /\ said' = said /\ races' = races
      /\ k.at = "restored" /\ Unlist(k.pub)
  BY DEF Restored, tracks, mesh, share
<1>2. PICK next : next = onward /\ tasks' = rest \cup {next}
  BY DEF Restored, Become
<1>3. MediaTypeOK /\ PubsOK /\ TaskOK(k) /\ k \in Task /\ HoldsOK(k)
  BY DEF MediaInv, TaskOK, CaptureInv
<1>4. /\ k.op = "stop" /\ k.src \in Device /\ k.src # "none" /\ k.pub \in TrackId
      /\ pubs[k.pub].src = k.src /\ pubs[k.pub].track \in DOMAIN kinds
      /\ kinds[pubs[k.pub].track] = k.src /\ k.src = "camera"
  BY <1>1, <1>3 DEF TaskOK, Device, PubsOK, HoldsOK
<1>5. /\ next.at = "remove" /\ next.src = k.src /\ next.op = k.op /\ next.seen = {}
      /\ next.old = pubs[k.pub].track /\ next.shown = k.shown
  BY <1>2, <1>3, <1>4 DEF BeginRemoval, Task
<1> HIDE DEF onward
<1>6. HoldsOK(next)
  <2>1. next.shown \in heard \cup {0}
    BY <1>3, <1>5 DEF HoldsOK
  <2> QED
    BY <1>4, <1>5, <2>1 DEF HoldsOK, Unshares
<1>7. k.src \notin races.clash => k.pub \in Range(listed) /\ \A j \in rest : j.src # k.src
  BY <1>1, <1>4 DEF MediaInv, DeviceOK, Single, InHand
<1>8. ~races.overlap => /\ \A j \in rest : j.src \notin Touches(k.src)
                        /\ screen.mode # "replace"
  <2> SUFFICES ASSUME ~races.overlap PROVE /\ \A j \in rest : j.src \notin Touches(k.src)
                                           /\ screen.mode # "replace"
    OBVIOUS
  <2>1. ApartOK /\ ShareOK
    BY DEF CaptureInv
  <2>2. ~screen.flag /\ \A j \in rest : j.src \notin Touches(k.src)
    BY <1>1, <2>1 DEF ApartOK
  <2> QED
    BY <2>1, <2>2 DEF ShareOK
<1>9. /\ \A j \in tasks \ rest : j.at = "restored" /\ j.op = "stop"
      /\ rest \subseteq tasks /\ \E j \in tasks : j.shown = next.shown
  BY <1>1, <1>4, <1>5
<1> HIDE DEF rest
<1>10. Withdraws(k.src, k.pub, next, rest)
  BY <1>1, <1>2, <1>4, <1>5, <1>6, <1>7, <1>8, <1>9 DEF Withdraws
<1> QED
  BY <1>4, <1>10, WithdrawServed

\* A share that is on ends, by a call of its own or by the call that stops the camera.
LEMMA EndShareServed ==
  ASSUME MediaInv, CaptureInv, kinds' = kinds, pubs' = pubs, sent' = sent, present' = present,
         heard' = heard, said' = said,
         live' \subseteq live, \A t \in live : kinds[t] # "screen" => t \in live',
         NEW b \in Draft, b.seen = {}, EndShare(b), screen.flag,
         \/ b.op = "unshare" /\ b.src = "screen"
         \/ b.op = "stop" /\ b.src = "camera" /\ screen.mode = "replace"
  PROVE  CaptureInv'
<1>0. PICK x : x = screen.track
  OBVIOUS
<1> DEFINE c == Find("camera")
           replaced == screen.mode = "replace"
           withdrawn == ~replaced /\ screen.pub # 0
           step == IF replaced /\ screen.track # 0 /\ c # 0 THEN "swap"
                   ELSE IF withdrawn THEN "remove" ELSE "announce"
           was == IF withdrawn THEN pubs[screen.pub].track ELSE screen.track
           camera1 == IF c = 0 THEN 0 ELSE pubs[c].track
           onward == [b EXCEPT !.shown = screen.track, !.at = step, !.old = was, !.new = camera1,
                          !.todo = present]
<1>1. /\ screen' = [flag |-> FALSE, mode |-> "none", track |-> 0,
                    pub |-> IF withdrawn THEN 0 ELSE screen.pub]
      /\ IF withdrawn THEN listed' = ListWithout(screen.pub) /\ managed' = managed \ {pubs[screen.pub].track}
         ELSE listed' = listed /\ managed' = managed
      /\ Enter(onward)
  BY DEF EndShare, Unlist
<1>2. PICK k : k = onward /\ Enter(k)
  BY <1>1
<1>3. MediaTypeOK /\ PubsOK /\ ShareOK
  BY DEF MediaInv, CaptureInv
<1>4. /\ screen.mode \in {"separate", "replace"} /\ x \in heard /\ x \in DOMAIN kinds
      /\ kinds[x] = "screen" /\ x # 0 /\ x \in Nat
      /\ screen.mode = "separate" => /\ screen.pub = x /\ x \in TrackId
                                     /\ pubs[x].src = "screen" /\ pubs[x].track = x
  <2>1. /\ screen.mode \in {"separate", "replace"} /\ x \in heard
        /\ screen.mode = "separate" => screen.pub = x
    BY <1>0, <1>3 DEF ShareOK
  <2>2. x \in DOMAIN kinds /\ kinds[x] = "screen" /\ x # 0 /\ x \in Nat
    BY <1>3, <2>1 DEF ShareOK, MediaTypeOK
  <2>3. screen.mode = "separate" => x \in TrackId /\ pubs[x].src = "screen"
    BY <1>3, <2>1, <2>2 DEF PubsOK
  <2> QED
    BY <1>3, <2>1, <2>2, <2>3 DEF ShareOK
<1>5. /\ withdrawn <=> screen.mode = "separate"
      /\ was = x
      /\ step \in {"swap", "remove", "announce"}
      /\ step = "remove" <=> screen.mode = "separate"
      /\ step = "swap" <=> screen.mode = "replace" /\ c # 0
  BY <1>0, <1>4
<1>6. c # 0 => /\ c \in Range(listed) /\ pubs[c].src = "camera"
               /\ pubs[c].track \in DOMAIN kinds /\ kinds[pubs[c].track] = "camera"
  <2>1. c # 0 => c \in Range(listed) /\ pubs[c].src = "camera" /\ c \in TrackId
    BY <1>3, FindOK
  <2> HIDE DEF c
  <2> QED
    BY <1>3, <2>1 DEF PubsOK
<1>7. /\ ~screen'.flag /\ screen'.mode = "none" /\ screen'.track = 0
      /\ screen.mode = "separate" => listed' = ListWithout(x) /\ managed' = managed \ {x}
      /\ screen.mode = "replace" => listed' = listed /\ managed' = managed
  BY <1>1, <1>4, <1>5
<1>8. camera1 = IF c = 0 THEN 0 ELSE pubs[c].track
  OBVIOUS
<1> HIDE DEF was, step, camera1, replaced, withdrawn, c
<1>9. /\ k.op = b.op /\ k.src = b.src /\ k.at = step /\ k.old = x /\ k.new = camera1
      /\ k.shown = x /\ k.todo = present /\ k.seen = {}
  BY <1>0, <1>2, <1>5 DEF Draft
<1> HIDE DEF onward
<1>10. Unshares(k) /\ k.src \in {"camera", "screen"} /\ k.src \in Source /\ k.op \in {"stop", "unshare"}
  BY <1>5, <1>9 DEF Unshares, Source, Device
<1>11. /\ tasks' = tasks \cup {k}
       /\ races.clash \subseteq races'.clash /\ races'.clash \subseteq races.clash \cup {k.src}
       /\ k.src \notin races'.clash => \A j \in tasks : j.src # k.src
       /\ ~races'.overlap => /\ ~races.overlap /\ races'.clash = races.clash
                             /\ \A j \in tasks : j.src \notin Touches(k.src)
       /\ races'.gone = races.gone /\ races'.came = races.came
       /\ races'.swapped = races.swapped
  BY <1>2, <1>10, EnterHistory
<1>12. /\ Range(listed') = IF screen.mode = "separate" THEN Range(listed) \ {x} ELSE Range(listed)
       /\ \A m, n \in DOMAIN listed' : listed'[m] = listed'[n] => m = n
  <2>1. CASE screen.mode = "separate"
    BY <1>3, <1>7, <2>1, UnlistOK DEF ShareOK, MediaTypeOK
  <2>2. CASE screen.mode = "replace"
    BY <1>3, <1>7, <2>2 DEF ShareOK
  <2> QED
    BY <1>4, <2>1, <2>2
<1>13. \A j \in tasks' : HoldsOK(j)'
  <2>1. HoldsOK(k)
    <3>1. k.at = "swap" => k.new \in DOMAIN kinds /\ k.old \in heard
      BY <1>4, <1>5, <1>6, <1>8, <1>9
    <3>2. k.at = "remove" => k.old \in DOMAIN kinds /\ kinds[k.old] = k.src
      BY <1>4, <1>5, <1>9
    <3>3. k.op = "stop" => k.src = "camera"
      BY <1>9
    <3> QED
      BY <1>4, <1>5, <1>9, <1>10, <3>1, <3>2, <3>3 DEF HoldsOK, Unshares
  <2>2. ASSUME NEW j \in tasks' PROVE HoldsOK(j)'
    <3>1. HoldsOK(j)
      BY <1>11, <2>1 DEF CaptureInv
    <3> QED
      BY <3>1, HoldsKept
  <2> QED
    BY <2>2
<1>14. ShareOK'
  <2>1. managed' \subseteq DOMAIN kinds
    BY <1>3, <1>4, <1>7 DEF ShareOK
  <2> QED
    BY <1>3, <1>7, <1>12, <2>1 DEF ShareOK
<1>15. ASSUME "screen" \notin races'.clash PROVE ScreenOK'
  <2>1. ScreenOK
    BY <1>11, <1>15 DEF CaptureInv
  <2>2. \A l, j \in tasks' : l.src = "screen" /\ j.src = "screen" => l = j
    BY <1>11, <1>15, <2>1 DEF ScreenOK
  <2>3. \A j \in tasks' : j.op # "share"
    BY <1>10, <1>11, <2>1 DEF ScreenOK
  <2>4. ASSUME NEW t \in live', kinds[t] = "screen"
        PROVE  \E j \in tasks' : Unshares(j) /\ j.shown = t
    <3>1. CASE t = x
      BY <1>9, <1>10, <1>11, <3>1
    <3>2. CASE t # x
      <4>1. PICK j \in tasks : \/ j.op = "share" /\ j.at \in {"publish", "swap"} /\ j.new = t
                               \/ Unshares(j) /\ j.shown = t
        BY <1>0, <2>1, <2>4, <3>2 DEF ScreenOK
      <4> QED
        BY <1>11, <2>3, <4>1
    <3> QED
      BY <3>1, <3>2
  <2>5. \A j \in Range(listed') : pubs[j].src # "screen"
    <3> SUFFICES ASSUME NEW j \in Range(listed'), pubs[j].src = "screen" PROVE FALSE
      OBVIOUS
    <3>1. j \in Range(listed)
      BY <1>12
    <3>2. screen.mode = "separate" /\ screen.pub = j
      BY <2>1, <3>1 DEF ScreenOK
    <3> QED
      BY <1>4, <1>12, <3>2
  <2> QED
    BY <1>7, <2>2, <2>3, <2>4, <2>5 DEF ScreenOK, Unshares
<1>16. ASSUME NEW d \in Device \ races'.clash PROVE LiveOK(d)'
  <2>1. LiveOK(d) /\ d # "screen"
    BY <1>11, <1>16 DEF CaptureInv, Device
  <2>2. Range(listed') \subseteq Range(listed)
    BY <1>12
  <2>3. ASSUME NEW j \in Range(listed'), pubs[j].src = d PROVE pubs[j].track \in live'
    <3>1. j \in Range(listed) /\ pubs[j].track \in live
      BY <2>1, <2>2, <2>3 DEF LiveOK
    <3>2. kinds[pubs[j].track] = d
      BY <2>3, <3>1, WantedOf
    <3> QED
      BY <2>1, <3>1, <3>2
  <2>4. ASSUME NEW j \in tasks', j.src = d
        PROVE  /\ j.at = "publish" \/ (j.op = "switch" /\ j.at = "swap") => j.new \in live'
               /\ j.op = "stop" /\ j.at = "remove" => \A l \in Range(listed') : pubs[l].src # d
    <3>1. CASE j = k
      <4>1. j.at # "publish" /\ j.op # "switch" /\ ~(j.op = "stop" /\ j.at = "remove")
        BY <1>5, <1>9, <1>10, <3>1
      <4> QED
        BY <4>1
    <3>2. CASE j \in tasks
      <4>1. j.at = "publish" \/ (j.op = "switch" /\ j.at = "swap") =>
              j.new \in live /\ kinds[j.new] = d
        BY <2>1, <2>4, <3>2 DEF LiveOK, MediaInv, TaskOK, New
      <4> QED
        BY <2>1, <2>2, <2>4, <3>2, <4>1 DEF LiveOK
    <3> QED
      BY <1>11, <3>1, <3>2
  <2> QED
    BY <2>3, <2>4 DEF LiveOK
<1>17. ASSUME ~races'.overlap
       PROVE  /\ ApartOK'
              /\ \A p \in present' \ races'.came : PeerOK(p)'
              /\ ~races'.swapped => ManagedOK'
  <2>1. /\ ~races.overlap /\ races'.clash = races.clash
        /\ \A j \in tasks : j.src \notin {"camera", "screen"}
    BY <1>10, <1>11, <1>17 DEF Touches
  <2>2. ApartOK /\ (~races.swapped => ManagedOK) /\ (\A p \in present \ races.came : PeerOK(p))
    BY <2>1 DEF CaptureInv
  <2>3. ScreenOK /\ Single("camera")
    BY <2>2 DEF CaptureInv, ApartOK, MediaInv, DeviceOK, Device
  <2>4. \A j \in tasks : j.op # "share" /\ ~Unshares(j) /\ j.at # "restored"
    <3> SUFFICES ASSUME NEW j \in tasks, j.op = "share" \/ Unshares(j) \/ j.at = "restored"
                 PROVE  j.src \in {"camera", "screen"}
      BY <2>1
    <3>1. TaskOK(j) /\ HoldsOK(j)
      BY DEF MediaInv, CaptureInv
    <3>2. CASE j.op = "share"
      BY <3>1, <3>2 DEF TaskOK
    <3>3. CASE Unshares(j)
      BY <3>1, <3>3 DEF TaskOK, HoldsOK, Unshares
    <3>4. CASE j.at = "restored"
      BY <3>1, <3>4 DEF TaskOK, HoldsOK
    <3> QED
      BY <3>2, <3>3, <3>4
  <2>5. ASSUME NEW l \in tasks', NEW j \in tasks', l.src \in Touches(j.src) PROVE l = j
    <3>1. CASE l \in tasks /\ j \in tasks
      BY <2>2, <2>5, <3>1 DEF ApartOK
    <3>2. CASE l \in tasks /\ j = k
      BY <1>10, <2>1, <2>5, <3>2 DEF Touches
    <3>3. CASE l = k /\ j \in tasks
      BY <1>10, <2>1, <2>5, <3>3, TouchesOK DEF Touches, MediaInv, TaskOK, Task, Source, Device
    <3> QED
      BY <1>11, <3>1, <3>2, <3>3
  <2>6. k.at = "swap" => Camera(k.new)'
    BY <1>5, <1>6, <1>7, <1>8, <1>9 DEF Camera
  <2>7. \A j \in tasks' : /\ j.op = "share" /\ j.at = "swap" => Camera(j.old)'
                          /\ Unshares(j) /\ j.at = "swap" => Camera(j.new)'
    BY <1>10, <1>11, <2>4, <2>6
  <2>8. \E j \in tasks' : Unshares(j)
    BY <1>10, <1>11
  <2>9. ApartOK'
    <3>1. races'.clash = {} /\ screen'.mode # "replace" /\ ~screen'.flag
      BY <1>7, <2>1, <2>2 DEF ApartOK
    <3> QED
      BY <2>5, <2>7, <2>8, <3>1 DEF ApartOK, Unshares
  <2>10. ManagedOK => ManagedOK'
    <3>1. CASE screen.mode = "replace"
      BY <1>7, <3>1 DEF ManagedOK
    <3>2. CASE screen.mode = "separate"
      <4> SUFFICES ASSUME ManagedOK PROVE ManagedOK'
        OBVIOUS
      <4>1. \A j \in Range(listed) : j # x => pubs[j].track # x
        <5>1. \A j \in Range(listed) : kinds[pubs[j].track] = pubs[j].src
          BY WantedOf
        <5>2. \A j \in Range(listed) : pubs[j].src = "screen" => j = x
          BY <1>4, <2>3, <3>2 DEF ScreenOK
        <5> QED
          BY <1>4, <5>1, <5>2
      <4>2. managed = {pubs[j].track : j \in {j \in Range(listed) : pubs[j].src # "microphone"}}
        BY DEF ManagedOK
      <4>3. {pubs[j].track : j \in {j \in Range(listed) \ {x} : pubs[j].src # "microphone"}}
              = managed \ {x}
        BY <1>4, <3>2, <4>1, <4>2
      <4> QED
        BY <1>7, <1>12, <3>2, <4>3 DEF ManagedOK
    <3> QED
      BY <1>4, <3>1, <3>2
  <2>11. Wanted' = {pubs[j].track : j \in Range(listed')}
    <3>1. Listed' = Range(listed')
      BY DEF Listed, Range
    <3> QED
      BY <1>7, <3>1 DEF Wanted
  <2>12. CASE screen.mode = "separate"
    <3>1. Wanted = {pubs[j].track : j \in Range(listed)}
      BY <2>12 DEF Wanted, Listed, Range
    <3>2. Wanted' \subseteq Wanted /\ Wanted \subseteq Wanted' \cup {x}
      BY <1>4, <1>12, <2>11, <2>12, <3>1
    <3>3. ASSUME NEW p \in present' \ races'.came PROVE PeerOK(p)'
      <4>1. PeerOK(p)
        BY <1>11, <2>2, <3>3
      <4>2. Extra(k, p, x)'
        BY <1>5, <1>9, <2>12 DEF Extra
      <4>3. ASSUME NEW j \in tasks, NEW t, Extra(j, p, t) PROVE Extra(j, p, t)'
        <5>1. j.at = "swap" => j.old # x
          <6>1. j.at = "swap" => Held(j, j.old)
            BY DEF Held
          <6>2. j.src \notin Touches("screen") /\ "screen" \in Touches("screen") /\ "screen" \in Source
            BY <2>1 DEF Touches, Source
          <6> QED
            BY <1>4, <2>2, <6>1, <6>2, HeldApart
        <5> QED
          BY <3>2, <4>3, <5>1 DEF Extra, Unshares
      <4>4. \A j, t : Lacks(j, p, t)' <=> Lacks(j, p, t)
        BY DEF Lacks, Unshares
      <4>5. ASSUME NEW t \in sent[p] PROVE t \in Wanted' \/ \E j \in tasks' : Extra(j, p, t)'
        <5>1. CASE t = x
          BY <1>11, <4>2, <5>1
        <5>2. CASE t # x
          <6>1. t \in Wanted \/ \E j \in tasks : Extra(j, p, t)
            BY <4>1 DEF PeerOK
          <6> QED
            BY <1>11, <3>2, <4>3, <5>2, <6>1
        <5> QED
          BY <5>1, <5>2
      <4>6. ASSUME NEW t \in Wanted' PROVE t \in sent[p] \/ \E j \in tasks' : Lacks(j, p, t)
        <5>1. t \in sent[p] \/ \E j \in tasks : Lacks(j, p, t)
          BY <3>2, <4>1 DEF PeerOK
        <5> QED
          BY <1>11, <5>1
      <4>7. \A j \in tasks' :
              /\ j.at = "publish" /\ p \in j.seen => j.new \in sent[p]
              /\ j.at = "swap" /\ j.op \in {"switch", "share"} /\ j.old \in Wanted' /\ p \notin j.todo =>
                   j.new \in sent[p] /\ j.old \notin sent[p]
        <5>1. k.at # "publish" /\ k.at # "swap"
          BY <1>5, <1>9, <2>12
        <5> QED
          BY <1>11, <3>2, <4>1, <5>1 DEF PeerOK
      <4> QED
        BY <4>4, <4>5, <4>6, <4>7 DEF PeerOK
    <3> QED
      BY <1>11, <2>2, <2>9, <2>10, <3>3
  <2>13. CASE screen.mode = "replace"
    <3>1. c # 0 /\ k.at = "swap" /\ k.new = pubs[c].track
      <4>1. \E j \in Range(listed) : pubs[j].src = "camera"
        BY <2>2, <2>13 DEF ApartOK
      <4>2. c # 0
        BY <1>3, <4>1, FindOK DEF c
      <4> QED
        BY <1>5, <1>8, <1>9, <2>13, <4>2
    <3>2. Wanted = {IF pubs[j].src = "camera" THEN x ELSE pubs[j].track : j \in Range(listed)}
      BY <1>0, <2>13 DEF Wanted, Listed, Range
    <3>3. Wanted' \subseteq Wanted \cup {k.new} /\ Wanted \subseteq Wanted' \cup {x} /\ x \in Wanted
      <4>1. \A j \in Range(listed) : pubs[j].src = "camera" => j = c
        BY <1>6, <2>3, <3>1 DEF Single
      <4>2. c \in Range(listed) /\ pubs[c].src = "camera" /\ k.new = pubs[c].track
        BY <1>6, <3>1
      <4>3. Wanted' = {pubs[j].track : j \in Range(listed)}
        BY <1>12, <2>11, <2>13
      <4> QED
        BY <3>2, <4>1, <4>2, <4>3
    <3>4. ASSUME NEW p \in present' \ races'.came PROVE PeerOK(p)'
      <4>1. PeerOK(p) /\ p \in k.todo
        BY <1>9, <1>11, <2>2, <3>4
      <4>2. Extra(k, p, x)'
        BY <1>9, <1>10, <3>1, <4>1 DEF Extra, Unshares
      <4>3. ASSUME NEW j \in tasks PROVE \A t : Held(j, t) => t # x /\ t # k.new
        <5>1. j.src \notin Touches("screen") /\ "screen" \in Source
              /\ "screen" \in Touches("screen") /\ "camera" \in Touches("screen")
          BY <2>1 DEF Touches, Source
        <5>2. kinds[k.new] = "camera"
          BY <1>6, <3>1
        <5> QED
          BY <1>4, <2>2, <5>1, <5>2, HeldApart
      <4>4. x \in sent[p]
        <5>1. x \in sent[p] \/ \E j \in tasks : Lacks(j, p, x)
          BY <3>3, <4>1 DEF PeerOK
        <5> QED
          BY <4>3, <5>1, ExtraHeld
      <4>5. Lacks(k, p, k.new)
        BY <1>9, <1>10, <3>1, <4>1, <4>4 DEF Lacks
      <4>6. ASSUME NEW j \in tasks PROVE j.at = "swap" => j.old # x /\ j.old # k.new
        <5>1. j.at = "swap" => Held(j, j.old)
          BY DEF Held
        <5> QED
          BY <4>3, <5>1
      <4>7. ASSUME NEW j \in tasks, NEW t, Extra(j, p, t) PROVE Extra(j, p, t)'
        BY <3>3, <4>6, <4>7 DEF Extra, Unshares
      <4>8. \A j, t : Lacks(j, p, t)' <=> Lacks(j, p, t)
        BY DEF Lacks, Unshares
      <4>9. ASSUME NEW t \in sent[p] PROVE t \in Wanted' \/ \E j \in tasks' : Extra(j, p, t)'
        <5>1. CASE t = x
          BY <1>11, <4>2, <5>1
        <5>2. CASE t # x
          <6>1. t \in Wanted \/ \E j \in tasks : Extra(j, p, t)
            BY <4>1 DEF PeerOK
          <6> QED
            BY <1>11, <3>3, <4>7, <5>2, <6>1
        <5> QED
          BY <5>1, <5>2
      <4>10. ASSUME NEW t \in Wanted' PROVE t \in sent[p] \/ \E j \in tasks' : Lacks(j, p, t)
        <5>1. CASE t = k.new
          BY <1>11, <4>5, <5>1
        <5>2. CASE t \in Wanted
          <6>1. t \in sent[p] \/ \E j \in tasks : Lacks(j, p, t)
            BY <4>1, <5>2 DEF PeerOK
          <6> QED
            BY <1>11, <6>1
        <5> QED
          BY <3>3, <5>1, <5>2
      <4>11. ASSUME NEW j \in tasks'
             PROVE  /\ j.at = "publish" /\ p \in j.seen => j.new \in sent[p]
                    /\ j.at = "swap" /\ j.op \in {"switch", "share"} /\ j.old \in Wanted' /\ p \notin j.todo =>
                         j.new \in sent[p] /\ j.old \notin sent[p]
        <5>1. CASE j = k
          BY <1>10, <3>1, <5>1
        <5>2. CASE j \in tasks
          BY <3>3, <4>1, <4>6, <5>2 DEF PeerOK
        <5> QED
          BY <1>11, <5>1, <5>2
      <4> QED
        BY <4>8, <4>9, <4>10, <4>11 DEF PeerOK
    <3> QED
      BY <1>11, <2>2, <2>9, <2>10, <3>4
  <2> QED
    BY <1>4, <2>12, <2>13
<1> QED
  BY <1>13, <1>14, <1>15, <1>16, <1>17 DEF CaptureInv

LEMMA StopShareServed == MediaInv /\ CaptureInv /\ StopShare => CaptureInv'
<1> SUFFICES ASSUME MediaInv, CaptureInv, StopShare PROVE CaptureInv'
  OBVIOUS
<1> DEFINE b == [NewTask EXCEPT !.op = "unshare", !.src = "screen"]
<1>1. /\ pubs' = pubs /\ kinds' = kinds /\ live' = live /\ present' = present /\ sent' = sent
      /\ heard' = heard /\ said' = said
      /\ IF screen.flag THEN EndShare(b)
         ELSE /\ tasks' = tasks /\ races' = races /\ screen' = screen /\ listed' = listed
              /\ managed' = managed
  BY DEF StopShare, tracks, mesh, ReturnsAtOnce
<1>2. CASE screen.flag
  <2>1. NewTask \in Draft /\ NewTask.seen = {}
    BY NewTaskFields DEF MediaInv, MediaTypeOK
  <2>2. b \in Draft /\ b.op = "unshare" /\ b.src = "screen" /\ b.seen = {}
    BY <2>1 DEF Draft, Op, Source
  <2>3. EndShare(b)
    BY <1>1, <1>2
  <2> HIDE DEF b
  <2>4. \A t \in live : t \in live'
    BY <1>1
  <2> QED
    BY <1>1, <1>2, <2>2, <2>3, <2>4, EndShareServed
<1>3. CASE ~screen.flag
  <2>1. Quiet
    BY <1>1, <1>3 DEF Quiet
  <2>2. ShareOK'
    BY <2>1, QuietShare DEF CaptureInv
  <2> QED
    BY <1>1, <1>3, <2>2, NothingServed DEF SamePubs
<1> QED
  BY <1>2, <1>3

LEMMA StopDeviceServed ==
  ASSUME MediaInv, CaptureInv, NEW s \in Device, StopDevice(s)
  PROVE  CaptureInv'
<1> DEFINE i == Find(s)
           b == [NewTask EXCEPT !.op = "stop", !.src = s, !.pub = i]
           onward == BeginRemoval(b)
<1>1. /\ pubs' = pubs /\ kinds' = kinds /\ live' = live /\ present' = present /\ sent' = sent
      /\ heard' = heard /\ said' = said
      /\ IF i = 0 THEN /\ tasks' = tasks /\ races' = races /\ screen' = screen /\ listed' = listed
                       /\ managed' = managed
         ELSE IF s = "camera" /\ screen.mode = "replace" THEN EndShare(b)
         ELSE Enter(onward) /\ Unlist(b.pub) /\ screen' = screen
  BY DEF StopDevice, tracks, mesh, ReturnsAtOnce
<1>2. MediaTypeOK /\ PubsOK /\ ShareOK
  BY DEF MediaInv, CaptureInv
<1>3. CASE i = 0
  <2>1. Quiet
    BY <1>1, <1>3 DEF Quiet
  <2>2. ShareOK'
    BY <2>1, QuietShare DEF CaptureInv
  <2> QED
    BY <1>1, <1>3, <2>2, NothingServed DEF SamePubs
<1>4. ASSUME i # 0 PROVE CaptureInv'
  <2>1. /\ i \in Range(listed) /\ i \in TrackId /\ i \in Nat /\ pubs[i].src = s
        /\ pubs[i].track \in Nat
        /\ pubs[i].track \in DOMAIN kinds /\ kinds[pubs[i].track] = s
    <3>1. i \in Range(listed) /\ i \in TrackId /\ pubs[i].src = s
      BY <1>2, <1>4, FindOK
    <3> HIDE DEF i
    <3> QED
      BY <1>2, <3>1, MediaAssumption DEF MediaTypeOK, Publication, TrackId, PubsOK, Device
  <2> HIDE DEF i
  <2>2. NewTask \in Draft /\ NewTask.seen = {} /\ NewTask.shown = 0 /\ s \in Source
    BY <1>2, NewTaskFields DEF MediaTypeOK, Source
  <2>3. b \in Draft /\ b.op = "stop" /\ b.src = s /\ b.pub = i /\ b.seen = {} /\ b.shown = 0
    BY <2>1, <2>2 DEF Draft, Op
  <2> HIDE DEF b
  <2>4. CASE s = "camera" /\ screen.mode = "replace"
    <3>1. screen.flag
      BY <1>2, <2>4 DEF ShareOK
    <3>2. EndShare(b)
      BY <1>1, <1>4, <2>4
    <3>3. \A t \in live : t \in live'
      BY <1>1
    <3> QED
      BY <1>1, <2>3, <2>4, <3>1, <3>2, <3>3, EndShareServed
  <2>5. CASE ~(s = "camera" /\ screen.mode = "replace")
    <3>1. PICK k : k = onward /\ Enter(k)
      BY <1>1, <1>4, <2>5
    <3>2. /\ k.op = "stop" /\ k.src = s /\ k.at = "remove" /\ k.old = pubs[i].track
          /\ k.seen = {} /\ k.shown = 0
      BY <2>1, <2>3, <3>1 DEF BeginRemoval, Draft
    <3> HIDE DEF onward
    <3>3. Unlist(i) /\ screen' = screen
      BY <1>1, <1>4, <2>3, <2>5
    <3>4. HoldsOK(k)
      BY <2>1, <3>2 DEF HoldsOK, Unshares
    <3>5. /\ tasks' = tasks \cup {k}
          /\ races.clash \subseteq races'.clash
          /\ s \notin races'.clash => \A j \in tasks : j.src # s
          /\ ~races'.overlap => /\ ~races.overlap /\ races'.clash = races.clash
                                /\ \A j \in tasks : j.src \notin Touches(s)
          /\ races'.gone = races.gone /\ races'.came = races.came
          /\ races'.swapped = races.swapped
      BY <2>2, <3>1, <3>2, EnterHistory
    <3>6. Withdraws(s, i, k, tasks)
      BY <1>1, <2>1, <2>5, <3>2, <3>3, <3>4, <3>5 DEF Withdraws
    <3> QED
      BY <3>6, WithdrawServed
  <2> QED
    BY <2>4, <2>5
<1> QED
  BY <1>3, <1>4

\* The user ends the display capture: heard, the share ends; unheard, it is remembered.
LEMMA ScreenServed ==
  ASSUME MediaInv, CaptureInv, NEW t \in live, ScreenEnds(t)
  PROVE  CaptureInv'
<1> DEFINE b == [NewTask EXCEPT !.op = "unshare", !.src = "screen"]
           lost == IF t \in heard THEN races.gone ELSE races.gone \cup {t}
<1>1. /\ pubs' = pubs /\ kinds' = kinds /\ present' = present /\ sent' = sent
      /\ heard' = heard /\ said' = said /\ live' = live \ {t} /\ kinds[t] = "screen"
      /\ IF t \in heard /\ screen.flag THEN EndShare(b)
         ELSE /\ tasks' = tasks /\ screen' = screen /\ listed' = listed /\ managed' = managed
              /\ races' = [races EXCEPT !.gone = lost]
  BY DEF ScreenEnds, mesh
<1>2. MediaTypeOK /\ PubsOK /\ ShareOK
  BY DEF MediaInv, CaptureInv
<1>3. CASE t \in heard /\ screen.flag
  <2>1. NewTask \in Draft /\ NewTask.seen = {}
    BY NewTaskFields DEF MediaInv, MediaTypeOK
  <2>2. b \in Draft /\ b.op = "unshare" /\ b.src = "screen" /\ b.seen = {}
    BY <2>1 DEF Draft, Op, Source
  <2>3. EndShare(b)
    BY <1>1, <1>3
  <2> HIDE DEF b
  <2>4. live' \subseteq live /\ \A u \in live : kinds[u] # "screen" => u \in live'
    BY <1>1
  <2> QED
    BY <1>1, <1>3, <2>2, <2>3, <2>4, EndShareServed
<1>4. CASE ~(t \in heard /\ screen.flag)
  <2>1. /\ tasks' = tasks /\ screen' = screen /\ listed' = listed /\ managed' = managed
        /\ races'.clash = races.clash /\ races'.overlap = races.overlap
        /\ races'.swapped = races.swapped /\ races'.came = races.came /\ races'.gone = lost
    BY <1>1, <1>2, <1>4 DEF MediaTypeOK
  <2>2. races.gone \subseteq lost /\ (t \notin heard => t \in lost)
    OBVIOUS
  <2> HIDE DEF lost, b
  <2>3. \A j \in tasks' : HoldsOK(j)'
    <3> TAKE j \in tasks'
    <3>1. HoldsOK(j)
      BY <2>1 DEF CaptureInv
    <3> QED
      BY <1>1, <3>1, HoldsKept
  <2>4. ShareOK'
    BY <1>1, <1>2, <2>1 DEF ShareOK
  <2>5. ASSUME "screen" \notin races'.clash PROVE ScreenOK'
    <3>1. ScreenOK
      BY <2>1, <2>5 DEF CaptureInv
    <3>2. \A j \in tasks : j.op = "share" =>
            /\ ~screen.flag
            /\ j.at \in {"publish", "swap"} => j.new \in live' \cup lost /\ j.new \notin heard
      <4> SUFFICES ASSUME NEW j \in tasks, j.op = "share", j.at \in {"publish", "swap"}
                   PROVE  j.new \in live' \cup lost
        BY <3>1 DEF ScreenOK
      <4>1. j.new \in live \cup races.gone /\ j.new \notin heard
        BY <3>1 DEF ScreenOK
      <4> QED
        BY <1>1, <2>2, <4>1
    <3>3. screen.flag => screen.track \in live' \cup lost
      <4> SUFFICES ASSUME screen.flag PROVE screen.track \in live' \cup lost
        OBVIOUS
      <4>1. screen.track \in heard /\ screen.track \in live \cup races.gone
        BY <1>2, <3>1 DEF ShareOK, ScreenOK
      <4> QED
        BY <1>1, <1>4, <2>2, <4>1
    <3>4. \A u \in live' : kinds[u] = "screen" =>
            \/ screen.flag /\ screen.track = u
            \/ \E j \in tasks : \/ j.op = "share" /\ j.at \in {"publish", "swap"} /\ j.new = u
                                \/ Unshares(j) /\ j.shown = u
      BY <1>1, <3>1 DEF ScreenOK
    <3> QED
      BY <1>1, <2>1, <3>1, <3>2, <3>3, <3>4 DEF ScreenOK, Unshares
  <2>6. ASSUME NEW d \in Device \ races'.clash PROVE LiveOK(d)'
    <3>1. LiveOK(d) /\ d # "screen"
      BY <2>1, <2>6 DEF CaptureInv, Device
    <3>2. ASSUME NEW j \in Range(listed), pubs[j].src = d PROVE pubs[j].track \in live'
      <4>1. pubs[j].track \in live /\ kinds[pubs[j].track] = d
        BY <3>1, <3>2, WantedOf DEF LiveOK
      <4> QED
        BY <1>1, <3>1, <4>1
    <3>3. ASSUME NEW j \in tasks, j.src = d,
                 j.at = "publish" \/ (j.op = "switch" /\ j.at = "swap")
          PROVE  j.new \in live'
      <4>1. j.new \in live /\ kinds[j.new] = d
        BY <3>1, <3>3 DEF LiveOK, MediaInv, TaskOK, New
      <4> QED
        BY <1>1, <3>1, <4>1
    <3> QED
      BY <1>1, <2>1, <3>1, <3>2, <3>3 DEF LiveOK
  <2>7. ASSUME ~races'.overlap
        PROVE  /\ ApartOK'
               /\ \A p \in present' \ races'.came : PeerOK(p)'
               /\ ~races'.swapped => ManagedOK'
    <3>1. ApartOK /\ (~races.swapped => ManagedOK) /\ (\A p \in present \ races.came : PeerOK(p))
      BY <2>1, <2>7 DEF CaptureInv
    <3>2. ApartOK'
      BY <1>1, <2>1, <3>1 DEF ApartOK, Camera, Unshares
    <3>3. Wanted' = Wanted /\ (ManagedOK => ManagedOK')
      BY <1>1, <2>1 DEF Wanted, Listed, ManagedOK
    <3>4. ASSUME NEW p \in present' \ races'.came PROVE PeerOK(p)'
      <4>1. PeerOK(p)
        BY <1>1, <2>1, <3>1, <3>4
      <4>2. \A j, u : (Extra(j, p, u)' <=> Extra(j, p, u)) /\ (Lacks(j, p, u)' <=> Lacks(j, p, u))
        BY <1>1, <3>3 DEF Extra, Lacks, Unshares
      <4> QED
        BY <1>1, <2>1, <3>3, <4>1, <4>2 DEF PeerOK
    <3> QED
      BY <2>1, <3>1, <3>2, <3>3, <3>4
  <2> QED
    BY <2>3, <2>4, <2>5, <2>6, <2>7 DEF CaptureInv
<1> QED
  BY <1>3, <1>4

\* A participant comes: it gets what is wanted, unless a track stands in for a listed one.
LEMMA ComesServed ==
  ASSUME MediaInv, CaptureInv, NEW p \in Party, PartyComes(p)
  PROVE  CaptureInv'
<1> DEFINE again(k) == [k EXCEPT !.seen = @ \ {p}]
           met == IF StandIn THEN races.came \cup {p} ELSE races.came \ {p}
<1>1. PICK given : given = {pubs[i].track : i \in Range(listed)}
  OBVIOUS
<1>2. /\ pubs' = pubs /\ kinds' = kinds /\ live' = live /\ listed' = listed /\ screen' = screen
      /\ heard' = heard /\ said' = said /\ p \notin present /\ present' = present \cup {p}
      /\ sent' = [sent EXCEPT ![p] = given]
      /\ managed' = managed \cup {t \in given : kinds[t] # "microphone"}
      /\ tasks' = {again(k) : k \in tasks}
      /\ races' = [races EXCEPT !.came = met]
  <2>1. {pubs[listed[n]].track : n \in DOMAIN listed} = given
    BY <1>1 DEF Range
  <2> QED
    BY <2>1 DEF PartyComes, tracks, share
<1>3. MediaTypeOK /\ PubsOK /\ ShareOK
  BY DEF MediaInv, CaptureInv
<1>4. /\ races'.clash = races.clash /\ races'.overlap = races.overlap
      /\ races'.swapped = races.swapped /\ races'.gone = races.gone /\ races'.came = met
  <2> HIDE DEF met
  <2> QED
    BY <1>2, <1>3 DEF MediaTypeOK
<1> DEFINE Same(j, k) == /\ j.op = k.op /\ j.src = k.src /\ j.at = k.at /\ j.new = k.new
                         /\ j.old = k.old /\ j.shown = k.shown /\ j.todo = k.todo
                         /\ j.seen = k.seen \ {p}
<1>5. ASSUME NEW k \in tasks PROVE Same(again(k), k) /\ again(k) \in tasks'
  <2>1. k \in Task
    BY DEF MediaInv, TaskOK
  <2> QED
    BY <1>2, <2>1 DEF Task
<1>6. ASSUME NEW j \in tasks' PROVE \E k \in tasks : j = again(k) /\ Same(j, k)
  <2>1. PICK k \in tasks : j = again(k)
    BY <1>2
  <2> HIDE DEF again
  <2>2. Same(again(k), k)
    BY <1>5
  <2> QED
    BY <2>1, <2>2
<1>7. \A k \in tasks : \E j \in tasks' : Same(j, k)
  BY <1>5
<1> HIDE DEF again
<1>8. ASSUME NEW j \in tasks' PROVE HoldsOK(j)'
  <2>1. PICK k \in tasks : Same(j, k)
    BY <1>6
  <2>2. HoldsOK(k)
    BY DEF CaptureInv
  <2>3. HoldsOK(j)
    BY <2>1, <2>2 DEF HoldsOK, New, Unshares
  <2> QED
    BY <1>2, <2>3, HoldsKept
<1>9. given \subseteq DOMAIN kinds
  BY <1>1, WantedOf
<1>10. ShareOK'
  <2>1. sent' \in [Party -> SUBSET DOMAIN kinds]
    BY <1>2, <1>3, <1>9 DEF ShareOK
  <2>2. managed' \subseteq DOMAIN kinds
    BY <1>2, <1>3, <1>9 DEF ShareOK
  <2> QED
    BY <1>2, <1>3, <2>1, <2>2 DEF ShareOK
<1>11. ASSUME NEW s, \A i, j \in tasks : i.src = s /\ j.src = s => i = j
       PROVE  \A i, j \in tasks' : i.src = s /\ j.src = s => i = j
  BY <1>6, <1>11
<1>12. ASSUME "screen" \notin races'.clash PROVE ScreenOK'
  <2>1. ScreenOK
    BY <1>4, <1>12 DEF CaptureInv
  <2>2. \A i, j \in tasks' : i.src = "screen" /\ j.src = "screen" => i = j
    BY <1>11, <2>1 DEF ScreenOK
  <2>3. \A j \in tasks' : j.op = "share" =>
          /\ ~screen.flag
          /\ j.at \in {"publish", "swap"} => j.new \in live \cup races.gone /\ j.new \notin heard
    BY <1>6, <2>1 DEF ScreenOK
  <2>4. screen.flag => /\ screen.track \in live \cup races.gone
                       /\ \A j \in tasks' : j.shown # screen.track
    BY <1>6, <2>1 DEF ScreenOK
  <2>5. ASSUME NEW t \in live, kinds[t] = "screen", ~(screen.flag /\ screen.track = t)
        PROVE  \E j \in tasks' : \/ j.op = "share" /\ j.at \in {"publish", "swap"} /\ j.new = t
                                 \/ Unshares(j) /\ j.shown = t
    <3>1. PICK k \in tasks : \/ k.op = "share" /\ k.at \in {"publish", "swap"} /\ k.new = t
                             \/ Unshares(k) /\ k.shown = t
      BY <2>1, <2>5 DEF ScreenOK
    <3>2. PICK j \in tasks' : Same(j, k)
      BY <1>7
    <3> QED
      BY <3>1, <3>2 DEF Unshares
  <2> QED
    BY <1>2, <1>4, <2>1, <2>2, <2>3, <2>4, <2>5 DEF ScreenOK, Unshares
<1>13. ASSUME NEW s \in Device \ races'.clash PROVE LiveOK(s)'
  <2>1. LiveOK(s)
    BY <1>4, <1>13 DEF CaptureInv
  <2>2. \A j \in tasks' : j.src = s =>
          /\ j.at = "publish" \/ (j.op = "switch" /\ j.at = "swap") => j.new \in live
          /\ j.op = "stop" /\ j.at = "remove" => \A i \in Range(listed) : pubs[i].src # s
    BY <1>6, <2>1 DEF LiveOK
  <2> QED
    BY <1>2, <2>1, <2>2 DEF LiveOK
<1>14. ASSUME ~races'.overlap
       PROVE  /\ ApartOK'
              /\ \A q \in present' \ races'.came : PeerOK(q)'
              /\ ~races'.swapped => ManagedOK'
  <2>1. ApartOK /\ (~races.swapped => ManagedOK) /\ (\A q \in present \ races.came : PeerOK(q))
    BY <1>4, <1>14 DEF CaptureInv
  <2>2. ASSUME NEW i \in tasks', NEW j \in tasks', i.src \in Touches(j.src) PROVE i = j
    <3>1. PICK k \in tasks : i = again(k) /\ i.src = k.src
      BY <1>6
    <3>2. PICK o \in tasks : j = again(o) /\ j.src = o.src
      BY <1>6
    <3>3. k = o
      BY <2>1, <2>2, <3>1, <3>2 DEF ApartOK
    <3> QED
      BY <3>1, <3>2, <3>3
  <2>3. ASSUME NEW j \in tasks'
        PROVE  /\ j.op = "share" /\ j.at = "swap" => Camera(j.old)
               /\ Unshares(j) /\ j.at = "swap" => Camera(j.new)
               /\ Unshares(j) \/ j.at = "restored" => ~screen.flag
    <3>1. PICK k \in tasks : Same(j, k)
      BY <1>6
    <3> QED
      BY <2>1, <3>1 DEF ApartOK, Unshares
  <2>4. (said = "start" <=> screen.flag) \/ \E j \in tasks' : Unshares(j)
    <3>1. ASSUME NEW k \in tasks, Unshares(k) PROVE \E j \in tasks' : Unshares(j)
      <4>1. PICK j \in tasks' : Same(j, k)
        BY <1>7
      <4> QED
        BY <3>1, <4>1 DEF Unshares
    <3> QED
      BY <2>1, <3>1 DEF ApartOK
  <2>5. ApartOK'
    BY <1>2, <1>4, <2>1, <2>2, <2>3, <2>4 DEF ApartOK, Camera, Unshares
  <2>6. Wanted' = Wanted
    BY <1>2 DEF Wanted, Listed
  <2>7. ASSUME NEW q \in present, q \notin races.came, q # p PROVE PeerOK(q)'
    <3>1. PeerOK(q) /\ sent'[q] = sent[q]
      BY <1>2, <1>3, <2>1, <2>7 DEF ShareOK
    <3>2. ASSUME NEW k \in tasks, NEW t, Extra(k, q, t) PROVE \E j \in tasks' : Extra(j, q, t)'
      <4>1. PICK j \in tasks' : Same(j, k)
        BY <1>7
      <4>2. Extra(j, q, t)'
        BY <2>6, <2>7, <3>2, <4>1 DEF Extra, Unshares
      <4> QED
        BY <4>2
    <3>3. ASSUME NEW k \in tasks, NEW t, Lacks(k, q, t) PROVE \E j \in tasks' : Lacks(j, q, t)'
      <4>1. PICK j \in tasks' : Same(j, k)
        BY <1>7
      <4>2. Lacks(j, q, t)'
        BY <3>1, <3>3, <4>1 DEF Lacks, Unshares
      <4> QED
        BY <4>2
    <3>4. ASSUME NEW j \in tasks'
          PROVE  /\ j.at = "publish" /\ q \in j.seen => j.new \in sent[q]
                 /\ j.at = "swap" /\ j.op \in {"switch", "share"} /\ j.old \in Wanted /\ q \notin j.todo =>
                      j.new \in sent[q] /\ j.old \notin sent[q]
      <4>1. PICK k \in tasks : Same(j, k)
        BY <1>6
      <4> QED
        BY <3>1, <4>1 DEF PeerOK
    <3>5. ASSUME NEW t \in sent[q] PROVE t \in Wanted \/ \E j \in tasks' : Extra(j, q, t)'
      BY <3>1, <3>2 DEF PeerOK
    <3>6. ASSUME NEW t \in Wanted PROVE t \in sent[q] \/ \E j \in tasks' : Lacks(j, q, t)'
      BY <3>1, <3>3 DEF PeerOK
    <3> QED
      BY <2>6, <3>1, <3>4, <3>5, <3>6 DEF PeerOK
  <2>8. ASSUME p \notin races'.came PROVE PeerOK(p)'
    <3>1. /\ screen.mode # "replace"
          /\ \A k \in tasks : ~(k.op \in {"share", "switch"} /\ k.at = "swap")
      <4>1. ~StandIn
        BY <1>4, <2>8
      <4> QED
        BY <4>1 DEF StandIn
    <3>2. sent'[p] = given
      BY <1>2, <1>3 DEF ShareOK
    <3>3. Wanted' = given
      <4>1. Listed = Range(listed)
        BY DEF Listed, Range
      <4> QED
        BY <1>1, <2>6, <3>1, <4>1 DEF Wanted
    <3>4. ASSUME NEW j \in tasks'
          PROVE  p \notin j.seen /\ ~(j.at = "swap" /\ j.op \in {"switch", "share"})
      <4>1. PICK k \in tasks : Same(j, k)
        BY <1>6
      <4> QED
        BY <3>1, <4>1
    <3> QED
      BY <3>2, <3>3, <3>4 DEF PeerOK
  <2>9. ASSUME NEW q \in present' \ races'.came PROVE PeerOK(q)'
    <3>1. q # p => q \in present /\ q \notin races.came
      BY <1>2, <1>4, <2>9
    <3> QED
      BY <2>7, <2>8, <2>9, <3>1
  <2>10. ManagedOK => ManagedOK'
    <3> SUFFICES ASSUME ManagedOK PROVE ManagedOK'
      OBVIOUS
    <3>1. \A i \in Range(listed) : kinds[pubs[i].track] = pubs[i].src
      BY WantedOf
    <3>2. {t \in given : kinds[t] # "microphone"} \subseteq managed
      BY <1>1, <3>1 DEF ManagedOK
    <3>3. managed' = managed
      BY <1>2, <3>2
    <3> QED
      BY <1>2, <3>3 DEF ManagedOK
  <2> QED
    BY <1>4, <2>1, <2>5, <2>9, <2>10
<1> QED
  BY <1>8, <1>10, <1>12, <1>13, <1>14 DEF CaptureInv

LEMMA CaptureInvInit == MediaInit => CaptureInv
<1> SUFFICES ASSUME MediaInit PROVE CaptureInv
  OBVIOUS
<1>1. /\ tasks = {} /\ live = {} /\ Range(listed) = {} /\ DOMAIN listed = {} /\ kinds = <<>>
      /\ ~screen.flag /\ screen.mode = "none" /\ screen.track = 0 /\ screen.pub = 0
      /\ \A i \in TrackId : pubs[i].src = "none"
      /\ sent = [q \in Party |-> {}] /\ managed = {} /\ heard = {} /\ said = "stop"
      /\ races.clash = {} /\ present \subseteq Party
  BY DEF MediaInit, Range
<1>2. ShareOK
  BY <1>1 DEF ShareOK
<1>3. ScreenOK /\ \A s \in Device : LiveOK(s)
  BY <1>1 DEF ScreenOK, LiveOK
<1>4. ApartOK
  BY <1>1 DEF ApartOK
<1>5. Wanted = {} /\ ManagedOK
  <2>1. Listed = {}
    BY <1>1 DEF Listed
  <2> QED
    BY <1>1, <2>1 DEF Wanted, ManagedOK
<1>6. \A p \in present : PeerOK(p)
  BY <1>1, <1>5 DEF PeerOK
<1> QED
  BY <1>1, <1>2, <1>3, <1>4, <1>5, <1>6 DEF CaptureInv

LEMMA CaptureInvNext == MediaInv /\ CaptureInv /\ [MediaNext]_mediaVars => CaptureInv'
<1> SUFFICES ASSUME MediaInv, CaptureInv, [MediaNext]_mediaVars PROVE CaptureInv'
  OBVIOUS
<1>1. CASE UNCHANGED mediaVars
  <2>1. Quiet /\ tasks' = tasks /\ races' = races /\ present' = present /\ SamePubs
    BY <1>1 DEF mediaVars, tracks, mesh, publications, share, Quiet, SamePubs
  <2>2. ShareOK'
    BY <2>1, QuietShare DEF CaptureInv
  <2> QED
    BY <2>1, <2>2, NothingServed DEF Quiet
<1>2. CASE MediaNext
  <2>1. ASSUME NEW k \in tasks,
               \/ ApplyConstraints(k) \/ Refuse(k) \/ Acquire(k) \/ List(k) \/ Swapped(k)
               \/ Removed(k) \/ Announce(k) \/ Restored(k)
               \/ \E p \in Party : PublishTo(k, p) \/ Swap(k, p) \/ RemoveFrom(k, p)
        PROVE  CaptureInv'
    BY <2>1, ApplyServed, AcquireServed, ListServed, SwappedServed, RemovedServed,
       AnnounceServed, RestoredServed, PublishServed, SwapServed, RemoveServed
  <2> QED
    BY <1>2, <2>1, StartServed, StopDeviceServed, SetDeviceServed, MutedServed,
       StartShareServed, StopShareServed, ScreenServed, ComesServed, LeavesServed
    DEF MediaNext
<1> QED
  BY <1>1, <1>2

LEMMA CaptureHolds == MediaInv /\ CaptureInv => CaptureServed
<1> SUFFICES ASSUME MediaInv, CaptureInv, tasks = {} PROVE CaptureServed
  BY DEF CaptureServed, CaptureAccounted, PeersServed, QualityFollows, NoneRuns
<1>1. Listed = Range(listed)
  BY DEF Listed, Range
<1>2. MediaTypeOK /\ PubsOK /\ ShareOK
  BY DEF MediaInv, CaptureInv
<1>3. CaptureAccounted
  <2>1. ASSUME NEW t \in live
        PROVE  \/ kinds[t] \in races.clash
               \/ \E i \in Listed : pubs[i].track = t
               \/ screen.flag /\ screen.track = t
    <3>1. kinds[t] \in Source
      BY <1>2 DEF MediaTypeOK
    <3>2. CASE kinds[t] \in Device /\ kinds[t] \notin races.clash
      BY <1>1, <3>2 DEF MediaInv, DeviceOK, Captured
    <3>3. CASE kinds[t] = "screen" /\ "screen" \notin races.clash
      BY <3>3 DEF CaptureInv, ScreenOK
    <3> QED
      BY <3>1, <3>2, <3>3 DEF Source
  <2>2. ASSUME NEW s \in Device \ races.clash
        PROVE  Cardinality({i \in Listed : pubs[i].src = s}) =< 1
    <3> DEFINE of == {i \in Listed : pubs[i].src = s}
    <3>1. \A i, j \in of : i = j
      BY <1>1, <2>2 DEF MediaInv, DeviceOK, Single
    <3> SUFFICES Cardinality(of) =< 1
      OBVIOUS
    <3> HIDE DEF of
    <3>2. CASE of = {}
      BY <3>2, FS_EmptySet
    <3>3. CASE of # {}
      <4>1. PICK i : of = {i}
        BY <3>1, <3>3
      <4>2. Cardinality({i}) = 1
        BY FS_Singleton
      <4> QED
        BY <4>1, <4>2
    <3> QED
      BY <3>2, <3>3
  <2>3. ASSUME NEW i \in Listed
        PROVE  \/ pubs[i].track \in live
               \/ pubs[i].src \in races.clash
               \/ pubs[i].track \in races.gone
    <3>1. i \in Range(listed) /\ i \in TrackId /\ pubs[i].src \in Source
      BY <1>1, <1>2, <2>3 DEF MediaTypeOK, PubsOK, Publication, Range
    <3>2. CASE pubs[i].src \in Device /\ pubs[i].src \notin races.clash
      BY <3>1, <3>2 DEF CaptureInv, LiveOK
    <3>3. CASE pubs[i].src = "screen" /\ "screen" \notin races.clash
      <4>1. screen.mode = "separate" /\ screen.pub = i /\ ScreenOK
        BY <3>1, <3>3 DEF CaptureInv, ScreenOK
      <4>2. screen.flag /\ screen.track = i /\ pubs[i].track = i
        BY <1>2, <3>1, <3>3, <4>1 DEF ShareOK
      <4> QED
        BY <4>1, <4>2 DEF ScreenOK
    <3> QED
      BY <3>1, <3>2, <3>3 DEF Source
  <2>4. screen.flag => screen.track \in live \cup races.gone \/ "screen" \in races.clash
    BY DEF CaptureInv, ScreenOK
  <2> QED
    BY <2>1, <2>2, <2>3, <2>4 DEF CaptureAccounted
<1>4. ASSUME ~races.overlap
      PROVE  /\ \A p \in present \ races.came : sent[p] = Wanted
             /\ said = IF screen.flag THEN "start" ELSE "stop"
  <2>1. ApartOK /\ \A p \in present \ races.came : PeerOK(p)
    BY <1>4 DEF CaptureInv
  <2>2. said = IF screen.flag THEN "start" ELSE "stop"
    BY <1>2, <2>1 DEF ApartOK, ShareOK
  <2>3. ASSUME NEW p \in present \ races.came PROVE sent[p] = Wanted
    BY <2>1, <2>3 DEF PeerOK
  <2> QED
    BY <2>2, <2>3
<1>5. PeersServed
  BY <1>4 DEF PeersServed
<1>6. QualityFollows
  BY <1>1 DEF QualityFollows, CaptureInv, ManagedOK
<1> QED
  BY <1>3, <1>5, <1>6 DEF CaptureServed

(***************************************************************************)
(* When no call of the application is under way, every live track is       *)
(* published or shared, a device has one publication at most, and what is  *)
(* published captures; every peer is sent the published tracks, the        *)
(* display track in the camera's place while it replaces it, and was told  *)
(* whether there is a share; and the quality controller manages the        *)
(* published video tracks (ControlsManager.ts, room.ts).  The exceptions   *)
(* are those CaptureAccounted, PeersServed and QualityFollows name: calls  *)
(* that overlapped, a display capture that ended unheard, a peer that came *)
(* during a swap, a camera switched to another device.                     *)
(***************************************************************************)
THEOREM CaptureObeyed == PartsSpec => []CaptureServed
<1> DEFINE inv == MediaInv /\ CaptureInv
<1>1. PartsInit => inv
  BY PartsSteps, MediaInvInit, CaptureInvInit
<1>2. inv /\ [PartsNext]_partsVars => inv'
  BY PartsSteps, MediaInvNext, CaptureInvNext
<1>3. inv => CaptureServed
  BY CaptureHolds
<1> HIDE DEF inv
<1> QED
  BY <1>1, <1>2, <1>3, PTL DEF PartsSpec

-----------------------------------------------------------------------------
(* The quality policy.                                                     *)

Tiers == 0 .. AudioOnly
Policy == [cur : Tiers, first : BOOLEAN, stable : -1 .. StableTicks,
           bad : 0 .. Ticks, cpu : 0 .. Ticks]
Limits == Tiers \cup {-1}
Receiver == Peer \cup {Gone}
Application == {Idle} \cup [tier : Tiers, todo : SUBSET Receiver]
Track == [published : BOOLEAN, enabled : BOOLEAN, limit : Limits]
Sender == [there : BOOLEAN, layered : BOOLEAN, max : Int, tier : Limits]
History == [late : SUBSET Peer, byHand : BOOLEAN, stray : SUBSET Receiver]

TypeOK ==
  /\ device \in {0, 1} /\ simulcast \in BOOLEAN
  /\ policy \in Policy
  /\ track \in Track /\ muted \in BOOLEAN
  /\ sender \in [Peer -> Sender]
  /\ applying \in [Slot -> Application]
  /\ attaching \subseteq Receiver /\ settling \subseteq Receiver
  /\ history \in History
  /\ since \in 0 .. StableTicks

\* The policy's window has been open for less than the tier has stood, or the
\* tier has stood for all of it.
WindowInv == policy.stable < since \/ since = StableTicks

USE QualityAssumption

-----------------------------------------------------------------------------
(* The ladder and the policy.                                              *)

LEMMA LadderOK ==
  ASSUME NEW i \in Tiers
  PROVE  Tier(i).max \in Nat /\ (i # AudioOnly => Tier(i).max > 0)
BY DEF Tiers, AudioOnly, Tier, Ladder

LEMMA PolicyFields ==
  ASSUME NEW q \in Policy
  PROVE  /\ q.cur \in Tiers /\ q.first \in BOOLEAN /\ q.stable \in -1 .. StableTicks
         /\ q.bad \in 0 .. Ticks /\ q.cpu \in 0 .. Ticks
BY DEF Policy

LEMMA Numbers ==
  /\ -1 \in -1 .. StableTicks /\ 0 \in -1 .. StableTicks /\ 0 \in 0 .. Ticks
  /\ \A n \in 0 .. Ticks : Count(n) \in 0 .. Ticks
  /\ \A n \in -1 .. StableTicks : n \in 0 .. StableTicks - 1 => n + 1 \in -1 .. StableTicks
BY DEF Ticks, Count

LEMMA ChangeToOK ==
  ASSUME NEW q \in Policy, NEW t \in Tiers
  PROVE  /\ ChangeTo(q, t) \in Policy
         /\ ChangeTo(q, t).cur = t /\ ChangeTo(q, t).stable = -1
<1>1. PICK u \in -1 .. StableTicks : u = -1
  BY Numbers
<1>2. PICK n \in 0 .. Ticks : n = 0
  BY Numbers
<1> DEFINE r == [q EXCEPT !.cur = t, !.stable = u, !.bad = n, !.cpu = n]
<1>3. r \in Policy
  BY DEF Policy
<1>4. r.cur = t /\ r.stable = u
  BY DEF Policy
<1>5. ChangeTo(q, t) = r
  BY <1>1, <1>2 DEF ChangeTo
<1> QED
  BY <1>1, <1>3, <1>4, <1>5

\* The window set to u, by a tick and by the first one; the bad ticks counted
\* anew.
Windowed(q, u) == [q EXCEPT !.stable = u]
Based(q, u) == [q EXCEPT !.first = FALSE, !.stable = u]
CountOne(q, n, m) == [q EXCEPT !.bad = n, !.cpu = m]

LEMMA WindowOK ==
  ASSUME NEW q \in Policy, NEW u \in -1 .. StableTicks
  PROVE  /\ Windowed(q, u) \in Policy /\ Windowed(q, u).cur = q.cur /\ Windowed(q, u).stable = u
         /\ Based(q, u) \in Policy /\ Based(q, u).cur = q.cur /\ Based(q, u).stable = u
BY DEF Policy, Windowed, Based

LEMMA CountsOK ==
  ASSUME NEW q \in Policy, NEW n \in 0 .. Ticks, NEW m \in 0 .. Ticks
  PROVE  /\ CountOne(q, n, m) \in Policy
         /\ CountOne(q, n, m).cur = q.cur /\ CountOne(q, n, m).stable = q.stable
BY DEF Policy, CountOne

LEMMA KeepOK ==
  ASSUME NEW q \in Policy
  PROVE  /\ Keep(q) \in Policy /\ Keep(q).cur = q.cur
         /\ Keep(q).stable = IF q.stable = -1 THEN 0 ELSE q.stable
<1>1. PICK u \in -1 .. StableTicks : u = 0
  BY Numbers
<1>2. CASE q.stable = -1
  <2>1. Keep(q) = Windowed(q, u)
    BY <1>1, <1>2 DEF Keep, Windowed
  <2>2. Windowed(q, u) \in Policy /\ Windowed(q, u).cur = q.cur /\ Windowed(q, u).stable = u
    BY WindowOK
  <2> QED
    BY <1>1, <1>2, <2>1, <2>2
<1>3. CASE q.stable # -1
  BY <1>3 DEF Keep
<1> QED
  BY <1>2, <1>3

\* What one evaluation may do: a better tier is the next one, within the
\* device and with the window full; a change of tier shuts the window.
LEMMA EvaluateOK ==
  ASSUME device \in {0, 1}, NEW q \in Policy, NEW s
  PROVE  /\ Evaluate(q, s) \in Policy
         /\ Evaluate(q, s).cur < q.cur =>
              /\ Evaluate(q, s).cur = q.cur - 1 /\ Evaluate(q, s).cur >= device
              /\ q.stable = StableTicks
         /\ Evaluate(q, s).cur = q.cur =>
              Evaluate(q, s).stable = IF q.stable = -1 THEN 0 ELSE q.stable
         /\ Evaluate(q, s).cur # q.cur => Evaluate(q, s).stable = -1
<1> DEFINE net == [q EXCEPT !.bad = Count(@), !.cpu = 0]
           calm == [q EXCEPT !.bad = 0]
           cpu == [calm EXCEPT !.cpu = Count(@)]
           well == [calm EXCEPT !.cpu = 0]
           Like(r) == r \in Policy /\ r.cur = q.cur /\ r.stable = q.stable
           Good(r) == /\ r \in Policy
                      /\ r.cur < q.cur =>
                           /\ r.cur = q.cur - 1 /\ r.cur >= device
                           /\ q.stable = StableTicks
                      /\ r.cur = q.cur => r.stable = IF q.stable = -1 THEN 0 ELSE q.stable
                      /\ r.cur # q.cur => r.stable = -1
<1>1. Like(q) /\ Like(net) /\ Like(cpu) /\ Like(well)
  <2>1. PICK z \in 0 .. Ticks : z = 0
    BY Numbers
  <2>2. Count(q.bad) \in 0 .. Ticks /\ Count(q.cpu) \in 0 .. Ticks
    BY Numbers, PolicyFields
  <2>3. Like(net)
    <3>1. net = CountOne(q, Count(q.bad), z)
      BY <2>1 DEF CountOne
    <3> HIDE DEF net, cpu, calm
    <3> QED
      BY <2>2, <3>1, CountsOK
  <2>4. Like(cpu)
    <3>1. cpu = CountOne(q, z, Count(q.cpu))
      BY <2>1 DEF Policy, CountOne
    <3> HIDE DEF net, cpu, calm
    <3> QED
      BY <2>2, <3>1, CountsOK
  <2>5. Like(well)
    <3>1. well = CountOne(q, z, z)
      BY <2>1 DEF CountOne
    <3> HIDE DEF well, calm
    <3> QED
      BY <3>1, CountsOK
  <2> QED
    BY <2>3, <2>4, <2>5
<1>2. q.cur \in Tiers
  BY DEF Policy
<1>3. ASSUME NEW r, Like(r) PROVE Good(Keep(r))
  <2> HIDE DEF net, calm, cpu, well
  <2> QED
    BY <1>2, <1>3, KeepOK DEF Tiers, AudioOnly
<1>4. ASSUME NEW r, Like(r), NEW t \in Tiers, t > q.cur PROVE Good(ChangeTo(r, t))
  <2> HIDE DEF net, calm, cpu, well
  <2> QED
    BY <1>2, <1>4, ChangeToOK DEF Tiers, AudioOnly
<1>5. ASSUME NEW r, Like(r) PROVE Good(Worse(r))
  <2>1. r.cur < AudioOnly => r.cur + 1 \in Tiers /\ r.cur + 1 > q.cur
    BY <1>2, <1>5 DEF Tiers, AudioOnly
  <2> HIDE DEF net, calm, cpu, well, Good
  <2> QED
    BY <1>3, <1>4, <1>5, <2>1 DEF Worse
<1>6. MayUpgrade(well, s) => Good(ChangeTo(q, q.cur - 1))
  <2> SUFFICES ASSUME MayUpgrade(well, s) PROVE Good(ChangeTo(q, q.cur - 1))
    OBVIOUS
  <2>1. q.stable = StableTicks /\ q.cur > device
    BY <1>1 DEF MayUpgrade
  <2>2. q.cur - 1 \in Tiers /\ q.cur - 1 >= device
    BY <1>2, <2>1 DEF Tiers, AudioOnly
  <2> HIDE DEF net, calm, cpu, well
  <2> QED
    BY <1>2, <2>1, <2>2, ChangeToOK DEF Tiers, AudioOnly
<1>7. q.cur < AudioOnly => Good(ChangeTo(q, AudioOnly))
  BY <1>1, <1>4 DEF Tiers, AudioOnly
<1>8. q.cur < device => Good(ChangeTo(q, device))
  BY <1>1, <1>4 DEF Tiers, AudioOnly
<1>9. Good(Keep(q)) /\ Good(Keep(net)) /\ Good(Keep(cpu)) /\ Good(Keep(well))
      /\ Good(Worse(net)) /\ Good(Worse(cpu))
  BY <1>1, <1>3, <1>5
<1> HIDE DEF Good
<1>10. Good(Evaluate(q, s))
  <2>1. CASE Severe(s)
    BY <1>7, <1>9, <2>1 DEF Evaluate
  <2>2. CASE ~Severe(s) /\ NetworkBad(q, s)
    BY <1>9, <2>2 DEF Evaluate
  <2>3. CASE ~Severe(s) /\ ~NetworkBad(q, s) /\ s.cpu
    BY <1>9, <2>3 DEF Evaluate
  <2>4. CASE ~Severe(s) /\ ~NetworkBad(q, s) /\ ~s.cpu
    BY <1>6, <1>8, <1>9, <2>4 DEF Evaluate
  <2> QED
    BY <2>1, <2>2, <2>3, <2>4
<1> QED
  BY <1>10 DEF Good

LEMMA DecideOK ==
  ASSUME device \in {0, 1}, NEW q \in Policy, NEW s
  PROVE  /\ Decide(q, s) \in Policy
         /\ Decide(q, s).cur < q.cur =>
              /\ Decide(q, s).cur = q.cur - 1 /\ Decide(q, s).cur >= device
              /\ q.stable >= StableTicks - 1
         /\ Decide(q, s).cur = q.cur => Decide(q, s).stable =< q.stable + 1 \/ Decide(q, s).stable = 0
         /\ Decide(q, s).cur # q.cur => Decide(q, s).stable = -1
<1>1. CASE q.first
  <2> PICK u \in -1 .. StableTicks : u = 0
    BY Numbers
  <2>1. Decide(q, s) = Based(q, u)
    BY <1>1 DEF Decide, Based
  <2>2. /\ Decide(q, s) \in Policy /\ Decide(q, s).cur = q.cur
        /\ Decide(q, s).stable = 0
    BY <2>1, WindowOK
  <2> QED
    BY <2>2 DEF Policy, Tiers, AudioOnly
<1>2. CASE ~q.first
  <2>1. /\ Aged(q) \in Policy /\ Aged(q).cur = q.cur
        /\ Aged(q).stable =< q.stable + 1
        /\ Aged(q).stable = StableTicks => q.stable >= StableTicks - 1
    BY DEF Aged, Policy
  <2>2. Decide(q, s) = Evaluate(Aged(q), s)
    BY <1>2 DEF Decide
  <2> QED
    BY <2>1, <2>2, EvaluateOK
<1> QED
  BY <1>1, <1>2

-----------------------------------------------------------------------------
(* Types, and the window.                                                  *)

LEMMA LayeredType ==
  ASSUME NEW s \in Sender, NEW tier \in Tiers
  PROVE  /\ Layered(s, tier) \in Sender
         /\ Layered(s, tier).tier = tier
         /\ tier # AudioOnly => Layered(s, tier).max =< Tier(tier).max
         /\ Layered(s, tier).layered = s.layered /\ Layered(s, tier).there = s.there
<1>1. Tier(tier).max \in Nat /\ (tier # AudioOnly => Tier(tier).max > 0) /\ tier \in Limits
  BY LadderOK DEF Limits
<1>2. s.max \in Int
  BY DEF Sender
<1> DEFINE m == IF Tier(tier).max > 0 THEN Smaller(s.max, Tier(tier).max) ELSE s.max
<1>3. m \in Int /\ (tier # AudioOnly => m =< Tier(tier).max)
  BY <1>1, <1>2 DEF Smaller
<1>4. Layered(s, tier) = [s EXCEPT !.tier = tier, !.max = m]
  BY DEF Layered, Sender
<1> HIDE DEF m
<1> QED
  BY <1>1, <1>3, <1>4 DEF Sender

LEMMA ConstrainType ==
  ASSUME TypeOK, NEW tier \in Tiers
  PROVE  /\ Constrain(tier) \in Track
         /\ tier = AudioOnly => ~Constrain(tier).enabled
         /\ tier # AudioOnly => Constrain(tier).limit = tier
         /\ Constrain(tier).published = track.published
         /\ [track EXCEPT !.enabled = TRUE] \in Track
         /\ [track EXCEPT !.enabled = TRUE].limit = track.limit
         /\ [track EXCEPT !.enabled = TRUE].published = track.published
BY DEF TypeOK, Constrain, Track, Limits

LEMMA MarkType ==
  ASSUME NEW h \in History, NEW p \in Receiver, NEW tier, NEW cur
  PROVE  /\ Mark(h, p, tier, cur) \in History
         /\ Mark(h, p, tier, cur).late = h.late
         /\ tier = cur => Mark(h, p, tier, cur).stray = h.stray \ {Target(p)}
         /\ tier # cur => Mark(h, p, tier, cur).stray = h.stray \cup {Target(p)}
         /\ Mark(h, p, tier, cur).byHand = (h.byHand /\ Target(p) # Gone)
<1>1. Target(p) \in Receiver
  BY DEF Target, Receiver
<1>2. h.byHand \in BOOLEAN /\ h.stray \subseteq Receiver /\ h.late \subseteq Peer
  BY DEF History
<1> DEFINE s == IF tier = cur THEN h.stray \ {Target(p)} ELSE h.stray \cup {Target(p)}
           b == h.byHand /\ Target(p) # Gone
<1>3. s \subseteq Receiver
  BY <1>1, <1>2
<1>4. b \in BOOLEAN
  OBVIOUS
<1>5. Mark(h, p, tier, cur) = [h EXCEPT !.stray = s, !.byHand = b]
  BY DEF Mark, History
<1> HIDE DEF s, b
<1>6. /\ [h EXCEPT !.stray = s, !.byHand = b] \in History
      /\ [h EXCEPT !.stray = s, !.byHand = b].late = h.late
      /\ [h EXCEPT !.stray = s, !.byHand = b].stray = s
      /\ [h EXCEPT !.stray = s, !.byHand = b].byHand = b
  BY <1>3, <1>4 DEF History
<1> QED
  BY <1>5, <1>6 DEF s, b

\* What the history is after a setter took effect, and after one rejected.
LEMMA SetterHistory ==
  ASSUME NEW h \in History, NEW p \in Receiver, NEW tier, NEW cur,
         Setter(p, tier, cur, h)
  PROVE  /\ history' \in History
         /\ h.late \subseteq history'.late \cup {p}
         /\ tier # cur => h.late \subseteq history'.late
         /\ history'.byHand = (h.byHand /\ Target(p) # Gone)
         /\ tier = cur => history'.stray \in {h.stray, h.stray \ {Target(p)}}
         /\ tier # cur => h.stray \subseteq history'.stray
<1>1. CASE Obeys(p, tier, cur, h)
  <2> DEFINE m == Mark(h, p, tier, cur)
  <2>1. /\ m \in History /\ m.late = h.late
        /\ tier = cur => m.stray = h.stray \ {Target(p)}
        /\ tier # cur => m.stray = h.stray \cup {Target(p)}
        /\ m.byHand = (h.byHand /\ Target(p) # Gone)
    BY MarkType
  <2>2. history' = [m EXCEPT !.late = IF tier = cur THEN @ \ {p} ELSE @]
    BY <1>1 DEF Obeys
  <2> HIDE DEF m
  <2>3. /\ history' \in History /\ history'.stray = m.stray /\ history'.byHand = m.byHand
        /\ history'.late = IF tier = cur THEN m.late \ {p} ELSE m.late
    BY <2>1, <2>2 DEF History
  <2> QED
    BY <2>1, <2>3
<1>2. CASE Refuses(p, tier, cur, h) /\ tier = cur
  <2>1. h.byHand \in BOOLEAN /\ h.late \subseteq Peer
    BY DEF History
  <2> DEFINE l == h.late \cup ({p} \ {Gone})
             b == h.byHand /\ Target(p) # Gone
  <2>2. l \subseteq Peer /\ b \in BOOLEAN
    BY <2>1 DEF Receiver
  <2>3. history' = [h EXCEPT !.late = l, !.byHand = b]
    BY <1>2 DEF Refuses, Missed, History
  <2>4. h.late \subseteq l
    OBVIOUS
  <2> HIDE DEF l, b
  <2>5. history' \in History /\ history'.late = l /\ history'.byHand = b /\ history'.stray = h.stray
    BY <2>2, <2>3 DEF History
  <2> QED
    BY <1>2, <2>4, <2>5 DEF b
<1>3. CASE Refuses(p, tier, cur, h) /\ tier # cur
  <2>1. CASE Target(p) = Gone
    <3>1. history' = Mark(h, p, tier, cur)
      BY <1>3, <2>1 DEF Refuses, Missed
    <3>2. /\ Mark(h, p, tier, cur) \in History /\ Mark(h, p, tier, cur).late = h.late
          /\ Mark(h, p, tier, cur).stray = h.stray \cup {Target(p)}
          /\ Mark(h, p, tier, cur).byHand = (h.byHand /\ Target(p) # Gone)
      BY <1>3, MarkType
    <3> QED
      BY <1>3, <3>1, <3>2
  <2>2. CASE Target(p) # Gone
    <3>1. history' = h
      BY <1>3, <2>2 DEF Refuses, Missed
    <3>2. h.byHand \in BOOLEAN
      BY DEF History
    <3> QED
      BY <1>3, <2>2, <3>1, <3>2
  <2> QED
    BY <2>1, <2>2
<1> QED
  BY <1>1, <1>2, <1>3 DEF Setter

LEMMA SetterTypes ==
  ASSUME TypeOK, NEW h \in History, NEW p \in Receiver, NEW tier \in Tiers, NEW cur,
         Setter(p, tier, cur, h)
  PROVE  /\ sender' \in [Peer -> Sender] /\ track' \in Track /\ history' \in History
         /\ track'.published = track.published
<1>1. history' \in History
  BY SetterHistory
<1>2. track' \in Track /\ track'.published = track.published
  BY ConstrainType DEF Setter, Obeys, Refuses, TypeOK
<1>3. sender' \in [Peer -> Sender]
  <2>1. CASE Target(p) = Gone
    BY <2>1 DEF Setter, Obeys, Refuses, TypeOK
  <2>2. CASE Target(p) # Gone
    <3>1. p \in Peer
      BY <2>2 DEF Target, Receiver
    <3>2. Layered(sender[p], tier) \in Sender
      BY <3>1, LayeredType DEF TypeOK
    <3> QED
      BY <2>2, <3>2 DEF Setter, Obeys, Refuses, TypeOK
  <2> QED
    BY <2>1, <2>2
<1> QED
  BY <1>1, <1>2, <1>3

\* Of an application with p yet to come the tier is known.
LEMMA InApplication ==
  ASSUME TypeOK, NEW i \in Slot, NEW p \in applying[i].todo
  PROVE  applying[i] \in [tier : Tiers, todo : SUBSET Receiver] /\ p \in Receiver
BY DEF TypeOK, Application, Idle

LEMMA LeftType ==
  ASSUME NEW a \in Application, NEW todo \in SUBSET Receiver, a = Idle => todo = {}
  PROVE  Left(a, todo) \in Application
<1>1. CASE todo = {}
  BY <1>1 DEF Left, Application
<1>2. CASE todo # {}
  <2>1. a \in [tier : Tiers, todo : SUBSET Receiver]
    BY <1>2 DEF Application
  <2>2. Left(a, todo) = [a EXCEPT !.todo = todo]
    BY <1>2 DEF Left
  <2> QED
    BY <2>1, <2>2 DEF Application
<1> QED
  BY <1>1, <1>2

\* The history a new tier begins with.
Anew == [history EXCEPT !.stray = {}]

LEMMA FreshHistory ==
  ASSUME TypeOK
  PROVE  Anew \in History /\ Anew.late = history.late /\ Anew.stray = {}
BY DEF Anew, History, TypeOK

LEMMA BeginTypes ==
  ASSUME TypeOK, NEW tier \in Tiers, Begin(tier)
  PROVE  /\ sender' \in [Peer -> Sender] /\ track' \in Track /\ history' \in History
         /\ applying' \in [Slot -> Application]
<1>1. CASE Here = {}
  BY <1>1, FreshHistory DEF Begin, Anew, TypeOK
<1>2. ASSUME NEW i \in Slot, NEW p \in Here, Free(i),
             applying' = [applying EXCEPT ![i] = Left([tier |-> tier, todo |-> {}], Here \ {p})],
             Setter(p, tier, tier, Anew)
      PROVE  /\ sender' \in [Peer -> Sender] /\ track' \in Track /\ history' \in History
             /\ applying' \in [Slot -> Application]
  <2>1. p \in Receiver /\ Here \ {p} \in SUBSET Receiver
    BY DEF Here, Receiver
  <2> DEFINE a == [tier |-> tier, todo |-> {}]
  <2>2. a \in Application
    BY DEF Application
  <2>3. a # Idle
    BY DEF Idle, Tiers, AudioOnly
  <2>4. Left(a, Here \ {p}) \in Application
    BY <2>1, <2>2, <2>3, LeftType
  <2>5. sender' \in [Peer -> Sender] /\ track' \in Track /\ history' \in History
    BY <1>2, <2>1, SetterTypes, FreshHistory
  <2> QED
    BY <1>2, <2>4, <2>5 DEF TypeOK
<1> QED
  BY <1>1, <1>2 DEF Begin, Anew

LEMMA TickTypes ==
  ASSUME TypeOK, WindowInv, Tick
  PROVE  TypeOK' /\ WindowInv' /\ (policy'.cur < policy.cur =>
            /\ policy'.cur = policy.cur - 1 /\ policy'.cur >= device /\ since >= StableTicks)
<1>1. PICK s : policy' = Decide(policy, s)
  BY DEF Tick
<1>2. /\ policy' \in Policy
      /\ policy'.cur < policy.cur =>
           /\ policy'.cur = policy.cur - 1 /\ policy'.cur >= device
           /\ policy.stable >= StableTicks - 1
      /\ policy'.cur = policy.cur => policy'.stable =< policy.stable + 1 \/ policy'.stable = 0
      /\ policy'.cur # policy.cur => policy'.stable = -1
  BY <1>1, DecideOK DEF TypeOK
<1>3. /\ policy.stable \in -1 .. StableTicks /\ policy'.stable \in -1 .. StableTicks
      /\ policy'.cur \in Tiers /\ policy.cur \in Tiers /\ since \in 0 .. StableTicks
  BY <1>2, PolicyFields DEF TypeOK
<1>4. since' \in 0 .. StableTicks /\ WindowInv'
  BY <1>2, <1>3 DEF Tick, WindowInv
<1>5. /\ sender' \in [Peer -> Sender] /\ track' \in Track /\ history' \in History
      /\ applying' \in [Slot -> Application]
  <2>1. CASE policy'.cur = policy.cur
    BY <2>1 DEF Tick, TypeOK
  <2>2. CASE policy'.cur # policy.cur
    BY <1>3, <2>2, BeginTypes DEF Tick
  <2> QED
    BY <2>1, <2>2
<1>6. policy'.cur < policy.cur => since >= StableTicks
  BY <1>2, <1>3 DEF WindowInv
<1>7. UNCHANGED <<device, simulcast, muted, attaching, settling>>
  BY DEF Tick
<1>8. TypeOK'
  BY <1>2, <1>4, <1>5, <1>7 DEF TypeOK
<1> QED
  BY <1>2, <1>4, <1>6, <1>8

LEMMA ApplyTypes ==
  ASSUME TypeOK, NEW i \in Slot, NEW p, Apply(i, p)
  PROVE  TypeOK'
<1>1. applying[i] \in [tier : Tiers, todo : SUBSET Receiver] /\ p \in Receiver
  BY InApplication DEF Apply
<1>2. applying' \in [Slot -> Application]
  <2>1. CASE applying[i].todo = {p}
    <3>1. Idle \in Application /\ applying \in [Slot -> Application] /\ MaxQueue \in Nat
      BY DEF Application, TypeOK
    <3>2. \A j \in Slot : j < MaxQueue => j + 1 \in Slot
      BY <3>1 DEF Slot
    <3> QED
      BY <2>1, <3>1, <3>2 DEF Apply, Over
  <2>2. CASE applying[i].todo # {p}
    <3>1. [applying[i] EXCEPT !.todo = @ \ {p}] \in Application
      BY <1>1 DEF Application
    <3> QED
      BY <2>2, <3>1 DEF Apply, TypeOK
  <2> QED
    BY <2>1, <2>2
<1>3. sender' \in [Peer -> Sender] /\ track' \in Track /\ history' \in History
  BY <1>1, SetterTypes DEF Apply, TypeOK
<1>4. UNCHANGED <<device, simulcast, policy, muted, attaching, settling, since>>
  BY DEF Apply
<1> QED
  BY <1>2, <1>3, <1>4 DEF TypeOK

LEMMA SettleTypes ==
  ASSUME TypeOK, NEW p \in Receiver, Attach(p) \/ Settle(p)
  PROVE  TypeOK'
<1>1. policy.cur \in Tiers
  BY PolicyFields DEF TypeOK
<1>2. attaching' \subseteq Receiver /\ settling' \subseteq Receiver
  BY DEF Attach, Settle, TypeOK
<1>3. sender' \in [Peer -> Sender] /\ track' \in Track /\ history' \in History
  <2>1. CASE Setter(p, policy.cur, policy.cur, history)
    BY <1>1, <2>1, SetterTypes DEF TypeOK
  <2>2. CASE NeedsSetUp(p) /\ Attach(p)
    <3>1. p \in Peer /\ Unlimited \in Int /\ sender[p] \in Sender
      BY <2>2 DEF NeedsSetUp, Receiver, Unlimited, TypeOK
    <3>2. [sender[p] EXCEPT !.layered = TRUE, !.max = Unlimited] \in Sender
      BY <3>1 DEF Sender
    <3>3. sender' \in [Peer -> Sender] /\ track' \in Track
      BY <2>2, <3>2 DEF Attach, TypeOK
    <3>4. history' \in History
      <4>1. [history EXCEPT !.late = @ \cup {p}] \in History
        BY <3>1 DEF History, TypeOK
      <4> QED
        BY <2>2, <4>1 DEF Attach, TypeOK
    <3> QED
      BY <3>3, <3>4
  <2> QED
    BY <2>1, <2>2 DEF Attach, Settle
<1>4. UNCHANGED <<device, simulcast, policy, muted, applying, since>>
  BY DEF Attach, Settle
<1> QED
  BY <1>2, <1>3, <1>4 DEF TypeOK

LEMMA NoSenderType == NoSender \in Sender /\ [NoSender EXCEPT !.there = TRUE] \in Sender
<1>1. -1 \in Limits
  BY DEF Limits
<1>2. NoSender \in Sender
  BY <1>1 DEF NoSender, Sender
<1> QED
  BY <1>2 DEF Sender

LEMMA RoomTypes ==
  ASSUME TypeOK, Publish \/ SetMuted \/ \E p \in Peer : PeerComes(p) \/ PeerLeaves(p)
  PROVE  TypeOK'
<1>1. Here \subseteq Receiver
  BY DEF Here, Receiver
<1>2. CASE Publish
  BY <1>1, <1>2 DEF Publish, TypeOK, Track
<1>3. CASE SetMuted
  <2>1. [history EXCEPT !.byHand = TRUE] \in History
    BY DEF History, TypeOK
  <2>2. [track EXCEPT !.enabled = ~muted'] \in Track /\ muted' \in BOOLEAN
    BY <1>3 DEF SetMuted, TypeOK, Track
  <2> QED
    BY <1>3, <2>1, <2>2 DEF SetMuted, TypeOK
<1>4. NoSender \in Sender /\ [NoSender EXCEPT !.there = TRUE] \in Sender
  BY NoSenderType
<1>5. ASSUME NEW p \in Peer, PeerComes(p) PROVE TypeOK'
  <2>1. [history EXCEPT !.late = IF track.published THEN @ \cup {p} ELSE @] \in History
    BY DEF History, TypeOK
  <2> QED
    BY <1>1, <1>4, <1>5, <2>1 DEF PeerComes, TypeOK
<1>6. ASSUME NEW p \in Peer, PeerLeaves(p) PROVE TypeOK'
  <2>1. ASSUME NEW todo \in SUBSET Receiver, NEW l PROVE Without(todo, p, l) \in SUBSET Receiver
    BY DEF Without, Receiver
  <2>2. attaching' \subseteq Receiver /\ settling' \subseteq Receiver
    BY <1>6, <2>1 DEF PeerLeaves, TypeOK
  <2>3. applying' \in [Slot -> Application]
    <3>1. ASSUME NEW i \in Slot
          PROVE  Left(applying[i], Without(applying[i].todo, p, sender[p].layered)) \in Application
      <4>1. applying[i] \in Application /\ applying[i].todo \in SUBSET Receiver
        BY DEF TypeOK, Application, Idle
      <4>2. applying[i] = Idle => Without(applying[i].todo, p, sender[p].layered) = {}
        BY DEF Idle, Without
      <4> QED
        BY <2>1, <4>1, <4>2, LeftType
    <3> QED
      BY <1>6, <3>1 DEF PeerLeaves
  <2>4. [history EXCEPT !.late = @ \ {p}, !.stray = @ \ {p}] \in History
    BY DEF History, TypeOK
  <2> QED
    BY <1>4, <1>6, <2>2, <2>3, <2>4 DEF PeerLeaves, TypeOK
<1> QED
  BY <1>2, <1>3, <1>5, <1>6

LEMMA InitTypes == Init => TypeOK /\ WindowInv
<1> SUFFICES ASSUME Init PROVE TypeOK /\ WindowInv
  OBVIOUS
<1>1. NoSender \in Sender /\ [NoSender EXCEPT !.there = TRUE] \in Sender
  BY NoSenderType
<1>2. policy \in Policy /\ policy.stable = -1
  BY DEF Init, Policy, Tiers, AudioOnly, Ticks
<1>3. sender \in [Peer -> Sender]
  BY <1>1 DEF Init
<1>4. track \in Track
  BY DEF Init, Track, Limits
<1>5. WindowInv
  BY <1>2 DEF Init, WindowInv
<1>6. applying \in [Slot -> Application] /\ attaching \subseteq Receiver /\ settling \subseteq Receiver
  BY DEF Init, Application
<1>7. device \in {0, 1} /\ simulcast \in BOOLEAN /\ muted \in BOOLEAN
  BY DEF Init
<1>8. history \in History
  BY DEF Init, History
<1>9. since \in 0 .. StableTicks
  BY DEF Init
<1> QED
  BY <1>2, <1>3, <1>4, <1>5, <1>6, <1>7, <1>8, <1>9 DEF TypeOK

\* The policy changes only with a tick.
LEMMA PolicyStays ==
  ASSUME Next, ~Tick
  PROVE  policy' = policy /\ since' = since
BY DEF Next, Apply, Attach, Settle, Publish, PeerComes, PeerLeaves, SetMuted

LEMMA TypesKept ==
  ASSUME TypeOK, WindowInv, [Next]_vars
  PROVE  TypeOK' /\ WindowInv'
<1>1. CASE UNCHANGED vars
  BY <1>1 DEF vars, TypeOK, WindowInv
<1>2. CASE Next /\ ~Tick
  <2>1. TypeOK'
    BY <1>2, ApplyTypes, SettleTypes, RoomTypes DEF Next, Receiver
  <2> QED
    BY <1>2, <2>1, PolicyStays DEF WindowInv
<1> QED
  BY <1>1, <1>2, TickTypes

\* An upgrade is to the next tier, within the device, after a whole window
\* without a change, whatever the connections report and whoever comes.
THEOREM UpgradesEarned == Spec => UpgradeEarned
<1>1. Init => TypeOK /\ WindowInv
  BY InitTypes
<1>2. TypeOK /\ WindowInv /\ [Next]_vars => TypeOK' /\ WindowInv'
  BY TypesKept
<1>3. TypeOK /\ WindowInv /\ [Next]_vars =>
        [policy'.cur < policy.cur =>
           /\ policy'.cur = policy.cur - 1
           /\ policy'.cur >= device
           /\ since >= StableTicks]_vars
  <2>1. TypeOK => policy.cur \in Int
    BY PolicyFields DEF Tiers, AudioOnly, TypeOK
  <2> QED
    BY <2>1, PolicyStays, TickTypes
<1> QED
  BY <1>1, <1>2, <1>3, PTL DEF Spec, UpgradeEarned

-----------------------------------------------------------------------------
(* The senders.                                                            *)

\* p's sender has yet to get the policy's tier: from attachTrack or from an application of
\* that tier.
Due(p) ==
  \/ p \in attaching \cup settling
  \/ \E i \in Slot : applying[i].tier = policy.cur /\ p \in applying[i].todo

\* It has it, or the track it shares with the single ones has.
Follows(p, cur) == IF sender[p].layered THEN Capped(p, cur) ELSE Constrained(cur)

\* An older application's setter came later.
Astray(p) == Target(p) \in history.stray

SendersInv ==
  track.published => \A p \in Here \ history.late : Due(p) \/ Astray(p) \/ Follows(p, policy.cur)

LEMMA TypesGive ==
  ASSUME TypeOK
  PROVE  /\ policy.cur \in Tiers /\ history \in History
         /\ Here \subseteq Peer /\ \A p \in Here : p # Gone /\ p \in Receiver
         /\ \A p \in Peer : sender[p] \in Sender
<1>1. policy.cur \in Tiers /\ history \in History
  BY PolicyFields DEF TypeOK
<1>2. Here \subseteq Peer
  BY DEF Here
<1>3. \A p \in Peer : p # Gone /\ p \in Receiver
  BY DEF Receiver
<1> QED
  BY <1>1, <1>2, <1>3 DEF TypeOK

\* A setter that takes effect leaves its own sender as the tier wants it.
LEMMA SetterSelf ==
  ASSUME TypeOK, NEW p \in Here, NEW tier \in Tiers, NEW h \in History,
         Setter(p, tier, tier, h), p \notin history'.late
  PROVE  Follows(p, tier)'
<1>1. p \in Peer /\ p # Gone /\ p \in Receiver /\ sender[p] \in Sender
  BY TypesGive
<1>2. CASE Refuses(p, tier, tier, h)
  <2>1. h.late \subseteq Peer /\ h.late \cup ({p} \ {Gone}) \subseteq Peer
    BY <1>1 DEF History
  <2>2. p \in history'.late
    BY <1>1, <1>2, <2>1 DEF Refuses, Missed, History
  <2> QED
    BY <2>2
<1>3. CASE Obeys(p, tier, tier, h)
  <2>1. CASE Target(p) = Gone
    <3>1. ~sender[p].layered /\ sender' = sender /\ track' = Constrain(tier)
      BY <1>1, <1>3, <2>1 DEF Obeys, Target
    <3> QED
      BY <3>1, ConstrainType DEF Follows, Constrained
  <2>2. CASE Target(p) # Gone
    <3>1. sender[p].layered /\ sender' = [sender EXCEPT ![p] = Layered(@, tier)]
      BY <1>3, <2>2 DEF Obeys, Target
    <3>2. sender'[p] = Layered(sender[p], tier)
      BY <1>1, <3>1 DEF TypeOK
    <3> QED
      BY <1>1, <3>1, <3>2, LayeredType DEF Follows, Capped
  <2> QED
    BY <2>1, <2>2
<1> QED
  BY <1>2, <1>3 DEF Setter

\* No setter lays hands on where the others stand, but for that of an older tier.
LEMMA SetterOthers ==
  ASSUME TypeOK, NEW p \in Receiver, NEW tier \in Tiers, NEW q \in Here,
         Setter(p, tier, policy.cur, history), policy' = policy,
         q # p \/ tier # policy.cur,
         Astray(q) \/ Follows(q, policy.cur)
  PROVE  (Astray(q) \/ Follows(q, policy.cur))'
<1>1. q \in Peer /\ q # Gone /\ sender[q] \in Sender /\ policy.cur \in Tiers /\ history \in History
  BY TypesGive
<1>2. /\ history'.byHand = (history.byHand /\ Target(p) # Gone)
      /\ tier = policy.cur => history'.stray \in {history.stray, history.stray \ {Target(p)}}
      /\ tier # policy.cur => history.stray \subseteq history'.stray
  BY <1>1, SetterHistory
<1>3. /\ Target(p) = Gone \/ Target(p) = p
      /\ Target(q) = IF sender[q].layered THEN q ELSE Gone
  BY <1>1 DEF Target
<1>4. sender'[q].layered = sender[q].layered /\ Target(q)' = Target(q)
  <2>1. CASE sender' = sender
    BY <2>1 DEF Target
  <2>2. CASE sender' = [sender EXCEPT ![p] = Layered(@, tier)] /\ p \in Peer
    <3>1. sender'[q] = IF q = p THEN Layered(sender[p], tier) ELSE sender[q]
      BY <1>1, <2>2 DEF TypeOK
    <3>2. sender'[q].layered = sender[q].layered
      BY <1>1, <2>2, <3>1, LayeredType
    <3> QED
      BY <1>1, <3>2 DEF Target
  <2> QED
    BY <1>3, <2>1, <2>2 DEF Setter, Obeys, Refuses, Target, Receiver
<1>5. CASE tier # policy.cur /\ Target(p) = Target(q) /\ Obeys(p, tier, policy.cur, history)
  <2>1. history'.stray = history.stray \cup {Target(p)}
    <3>1. /\ Mark(history, p, tier, policy.cur) \in History
          /\ Mark(history, p, tier, policy.cur).stray = history.stray \cup {Target(p)}
      BY <1>1, <1>5, MarkType
    <3> QED
      BY <1>5, <3>1 DEF Obeys, History
  <2> QED
    BY <1>4, <1>5, <2>1 DEF Astray
<1>6. CASE tier # policy.cur /\ Target(p) = Target(q) /\ Refuses(p, tier, policy.cur, history)
  <2>1. CASE Target(p) = Gone
    <3>1. history' = Mark(history, p, tier, policy.cur)
      BY <1>6, <2>1 DEF Refuses, Missed
    <3>2. Mark(history, p, tier, policy.cur).stray = history.stray \cup {Target(p)}
      BY <1>1, <1>6, MarkType
    <3> QED
      BY <1>4, <1>6, <3>1, <3>2 DEF Astray
  <2>2. CASE Target(p) # Gone
    <3>1. history' = history /\ sender' = sender /\ track' = track
      BY <1>6, <2>2 DEF Refuses, Missed
    <3> QED
      BY <3>1, <1>4 DEF Astray, Follows, Capped, Constrained
  <2> QED
    BY <2>1, <2>2
<1>7. CASE Target(p) # Target(q)
  <2>1. Astray(q) => Astray(q)'
    BY <1>2, <1>4, <1>7 DEF Astray
  <2>2. CASE Target(p) = Gone
    <3>1. sender[q].layered /\ sender' = sender
      BY <1>3, <1>7, <2>2 DEF Setter, Obeys, Refuses
    <3> QED
      BY <2>1, <3>1 DEF Follows, Capped
  <2>3. CASE Target(p) # Gone
    <3>1. Target(p) = p /\ p # q /\ track' = track /\ history'.byHand = history.byHand
      <4>1. p # q
        BY <1>3, <1>7, <2>3 DEF Target
      <4>2. history.byHand \in BOOLEAN
        BY <1>1 DEF History
      <4>3. track' = track
        BY <2>3 DEF Setter, Obeys, Refuses
      <4> QED
        BY <1>2, <1>3, <2>3, <4>1, <4>2, <4>3
    <3>2. sender'[q] = sender[q]
      BY <1>1, <2>3, <3>1 DEF Setter, Obeys, Refuses, TypeOK
    <3> QED
      BY <2>1, <3>1, <3>2 DEF Follows, Capped, Constrained
  <2> QED
    BY <2>2, <2>3
<1>8. CASE tier = policy.cur /\ Target(p) = Target(q)
  <2>1. ~sender[q].layered
    BY <1>1, <1>3, <1>8
  <2>2. Target(p) = Gone
    BY <1>3, <1>8, <2>1
  <2>3. ~sender'[q].layered
    BY <1>4, <2>1
  <2>4. CASE Obeys(p, tier, policy.cur, history)
    <3>1. track' = Constrain(tier)
      BY <2>2, <2>4 DEF Obeys
    <3> QED
      BY <1>8, <2>3, <3>1, ConstrainType DEF Follows, Constrained
  <2>5. CASE Refuses(p, tier, policy.cur, history)
    <3>1. tier # AudioOnly /\ track' = [track EXCEPT !.enabled = TRUE]
      BY <2>2, <2>5 DEF Refuses
    <3>2. history'.stray = history.stray
      BY <1>1, <1>8, <2>5 DEF Refuses, Missed, History
    <3>3. track'.limit = track.limit
      BY <3>1, ConstrainType
    <3> QED
      BY <1>4, <1>8, <2>1, <2>3, <3>1, <3>2, <3>3 DEF Follows, Constrained, Astray
  <2> QED
    BY <1>8, <2>4, <2>5 DEF Setter
<1> QED
  BY <1>5, <1>6, <1>7, <1>8 DEF Setter

\* Where the senders are stays the same with every setter.
LEMMA HereStays ==
  ASSUME TypeOK, NEW p \in Receiver, NEW tier \in Tiers, NEW cur, NEW h,
         Setter(p, tier, cur, h)
  PROVE  Here' = Here
<1>1. CASE sender' = sender
  BY <1>1 DEF Here
<1>2. CASE Target(p) # Gone /\ sender' = [sender EXCEPT ![p] = Layered(@, tier)]
  <2>1. p \in Peer /\ sender[p] \in Sender
    BY <1>2, TypesGive DEF Target, Receiver
  <2>2. \A q \in Peer : sender'[q].there = sender[q].there
    BY <1>2, <2>1, LayeredType DEF TypeOK
  <2> QED
    BY <2>2 DEF Here
<1> QED
  BY <1>1, <1>2 DEF Setter, Obeys, Refuses

-----------------------------------------------------------------------------
(* Every step.                                                             *)

LEMMA TickSenders ==
  ASSUME TypeOK, WindowInv, SendersInv, Tick
  PROVE  SendersInv'
<1>1. CASE policy'.cur = policy.cur
  <2>1. UNCHANGED <<applying, track, sender, attaching, settling, history>>
    BY <1>1 DEF Tick
  <2> QED
    BY <1>1, <2>1 DEF SendersInv, Due, Astray, Follows, Target, Here, Capped, Constrained
<1>2. CASE policy'.cur # policy.cur
  <2>0. policy'.cur \in Tiers
    BY TickTypes, PolicyFields DEF TypeOK
  <2>1. Begin(policy'.cur)
    BY <1>2 DEF Tick
  <2>2. CASE Here = {}
    BY <2>1, <2>2 DEF Begin, Here, SendersInv
  <2>3. ASSUME NEW i \in Slot, NEW p \in Here,
               applying' = [applying EXCEPT
                              ![i] = Left([tier |-> policy'.cur, todo |-> {}], Here \ {p})],
               Setter(p, policy'.cur, policy'.cur, Anew)
        PROVE  SendersInv'
    <3>0. PICK tier \in Tiers : tier = policy'.cur
      BY <2>0
    <3>1. Setter(p, tier, tier, Anew) /\ p \in Receiver
      BY <2>3, <3>0, TypesGive
    <3>2. Here' = Here
      BY <3>1, HereStays
    <3>3. p \notin history'.late => Follows(p, tier)'
      BY <3>1, SetterSelf, FreshHistory
    <3>4. p \notin history'.late => Follows(p, policy.cur)'
      BY <3>0, <3>3 DEF Follows, Capped, Constrained
    <3>5. ASSUME NEW q \in Here, q # p PROVE Due(q)'
      <4>1. applying'[i] = [tier |-> policy'.cur, todo |-> Here \ {p}]
        BY <2>3, <3>5 DEF Left, TypeOK
      <4> QED
        BY <3>5, <4>1 DEF Due
    <3> QED
      BY <3>2, <3>4, <3>5 DEF SendersInv
  <2> QED
    BY <2>1, <2>2, <2>3 DEF Begin, Anew
<1> QED
  BY <1>1, <1>2

\* One setter of the present tier or of an older one, and no other change but that some
\* of what was due to p is done.
LEMMA OneSetter ==
  ASSUME TypeOK, SendersInv, NEW p \in Receiver, NEW tier \in Tiers,
         Setter(p, tier, policy.cur, history), policy' = policy,
         \A q \in Here : Due(q) => Due(q)' \/ (q = p /\ tier = policy.cur)
  PROVE  SendersInv'
<1>1. Here' = Here
  BY HereStays
<1>2. history \in History /\ policy.cur \in Tiers
  BY TypesGive
<1>3. track'.published = track.published
  BY <1>2, SetterTypes
<1>4. ASSUME NEW q \in Here, q \notin history'.late, track.published
      PROVE  (Due(q) \/ Astray(q) \/ Follows(q, policy.cur))'
  <2>1. CASE q = p /\ tier = policy.cur
    <3>1. Follows(p, tier)'
      BY <1>2, <1>4, <2>1, SetterSelf
    <3> QED
      BY <2>1, <3>1 DEF Follows
  <2>2. CASE q # p \/ tier # policy.cur
    <3>1. q \notin history.late
      BY <1>2, <1>4, <2>2, SetterHistory
    <3>2. Due(q) \/ Astray(q) \/ Follows(q, policy.cur)
      BY <1>4, <3>1 DEF SendersInv
    <3>3. CASE Due(q)
      BY <2>2, <3>3
    <3>4. CASE Astray(q) \/ Follows(q, policy.cur)
      BY <2>2, <3>4, SetterOthers
    <3> QED
      BY <3>2, <3>3, <3>4
  <2> QED
    BY <2>1, <2>2
<1> QED
  BY <1>1, <1>3, <1>4 DEF SendersInv

LEMMA ApplySenders ==
  ASSUME TypeOK, SendersInv, NEW i \in Slot, NEW p, Apply(i, p)
  PROVE  SendersInv'
<1>1. applying[i].tier \in Tiers /\ p \in Receiver /\ p \in applying[i].todo
  BY InApplication DEF Apply
<1>2. policy' = policy /\ attaching' = attaching /\ settling' = settling
  BY DEF Apply
<1>3. ASSUME NEW q \in Here, Due(q), ~(q = p /\ applying[i].tier = policy.cur)
      PROVE  Due(q)'
  <2>1. CASE q \in attaching \cup settling
    BY <1>2, <2>1 DEF Due
  <2>2. ASSUME NEW j \in Slot, applying[j].tier = policy.cur, q \in applying[j].todo
        PROVE  \E k \in Slot : applying'[k].tier = policy.cur /\ q \in applying'[k].todo
    <3>1. j = i => q # p
      BY <1>3, <2>2
    <3>2. CASE applying[i].todo = {p}
      <4>1. j # i /\ i \in Int /\ j \in Int /\ MaxQueue \in Nat
        BY <2>2, <3>1, <3>2 DEF Slot
      <4>2. CASE j < i
        BY <2>2, <3>2, <4>2 DEF Apply, Over
      <4>3. CASE j > i
        <5>1. j - 1 \in Slot /\ ~(j - 1 < i) /\ j - 1 < MaxQueue /\ j - 1 + 1 = j
          BY <4>1, <4>3 DEF Slot
        <5>2. applying'[j - 1] = applying[j]
          BY <3>2, <5>1 DEF Apply, Over
        <5> QED
          BY <2>2, <5>1, <5>2
      <4> QED
        BY <4>1, <4>2, <4>3
    <3>3. CASE applying[i].todo # {p}
      <4>1. applying'[j].tier = applying[j].tier /\ q \in applying'[j].todo
        <5>1. applying' = [applying EXCEPT ![i].todo = @ \ {p}]
          BY <3>3 DEF Apply
        <5>2. applying[i] \in [tier : Tiers, todo : SUBSET Receiver]
          BY <1>1, InApplication
        <5> QED
          BY <2>2, <3>1, <5>1, <5>2 DEF TypeOK
      <4> QED
        BY <2>2, <4>1
    <3> QED
      BY <3>2, <3>3
  <2> QED
    BY <1>2, <1>3, <2>1, <2>2 DEF Due
<1> QED
  BY <1>1, <1>2, <1>3, OneSetter DEF Apply

LEMMA SettleSenders ==
  ASSUME TypeOK, SendersInv, NEW p \in Receiver, Attach(p) \/ Settle(p)
  PROVE  SendersInv'
<1>0. policy.cur \in Tiers /\ history \in History /\ Here \subseteq Peer
  BY TypesGive
<1>1. policy' = policy /\ applying' = applying
  BY DEF Attach, Settle
<1>2. \A q : q # p => (Due(q) => Due(q)')
  BY <1>1 DEF Attach, Settle, Due
<1>3. CASE Setter(p, policy.cur, policy.cur, history)
  BY <1>0, <1>1, <1>2, <1>3, OneSetter
<1>4. CASE NeedsSetUp(p) /\ Attach(p)
  <2>1. p \in Peer /\ sender[p] \in Sender /\ track' = track
    BY <1>4 DEF NeedsSetUp, Attach, Receiver, TypeOK
  <2>2. CASE /\ sender' = [sender EXCEPT ![p] = [@ EXCEPT !.layered = TRUE, !.max = Unlimited]]
             /\ settling' = settling \cup {p} /\ UNCHANGED history
    <3>1. /\ Here' = Here
          /\ \A q \in Peer : q # p => sender'[q] = sender[q]
      <4>1. sender'[p] = [sender[p] EXCEPT !.layered = TRUE, !.max = Unlimited]
        BY <2>1, <2>2 DEF TypeOK
      <4>2. sender'[p].there = sender[p].there
        BY <2>1, <4>1 DEF Sender
      <4>3. \A q \in Peer : q # p => sender'[q] = sender[q]
        BY <2>2 DEF TypeOK
      <4>4. \A q \in Peer : sender'[q].there = sender[q].there
        BY <4>2, <4>3
      <4> QED
        BY <4>3, <4>4 DEF Here
    <3>2. Due(p)'
      BY <2>2 DEF Due
    <3>3. ASSUME NEW q \in Here, q # p, Astray(q) \/ Follows(q, policy.cur)
          PROVE  (Astray(q) \/ Follows(q, policy.cur))'
      BY <1>0, <1>1, <2>1, <2>2, <3>1, <3>3 DEF Astray, Follows, Target, Capped, Constrained
    <3> QED
      BY <1>1, <1>2, <2>1, <2>2, <3>1, <3>2, <3>3 DEF SendersInv
  <2>3. CASE history' = [history EXCEPT !.late = @ \cup {p}] /\ UNCHANGED <<sender, settling>>
    <3>1. /\ history'.late = history.late \cup {p} /\ history'.stray = history.stray
          /\ history'.byHand = history.byHand
      BY <1>0, <2>3 DEF History
    <3>2. ASSUME NEW q \in Here, q # p, Astray(q) \/ Follows(q, policy.cur)
          PROVE  (Astray(q) \/ Follows(q, policy.cur))'
      BY <1>1, <2>1, <2>3, <3>1, <3>2 DEF Astray, Follows, Target, Capped, Constrained
    <3>3. Here' = Here
      BY <2>3 DEF Here
    <3> QED
      BY <1>1, <1>2, <2>1, <3>1, <3>2, <3>3 DEF SendersInv
  <2> QED
    BY <1>4, <2>2, <2>3 DEF Attach
<1> QED
  BY <1>3, <1>4 DEF Attach, Settle

LEMMA ComesSenders ==
  ASSUME TypeOK, SendersInv, NEW p \in Peer, PeerComes(p)
  PROVE  SendersInv'
<1>1. UNCHANGED <<policy, track, applying, settling>> /\ attaching \subseteq attaching'
  BY DEF PeerComes
<1>2. history \in History
  BY TypesGive
<1>3. ASSUME track.published
      PROVE  /\ history'.late = history.late \cup {p} /\ history'.stray = history.stray
             /\ history'.byHand = history.byHand
  BY <1>2, <1>3 DEF PeerComes, History
<1>4. /\ \A q \in Peer : q # p => sender'[q] = sender[q]
      /\ Here' \subseteq Here \cup {p}
  BY DEF PeerComes, TypeOK, Here
<1>5. ASSUME NEW q \in Here', q \notin history'.late, track.published
      PROVE  (Due(q) \/ Astray(q) \/ Follows(q, policy.cur))'
  <2>1. q # p /\ q \in Here /\ q \notin history.late /\ q \in Peer
    BY <1>3, <1>4, <1>5 DEF Here
  <2>2. sender'[q] = sender[q] /\ Target(q)' = Target(q)
    BY <1>4, <2>1 DEF Target
  <2>3. Due(q) \/ Astray(q) \/ Follows(q, policy.cur)
    BY <1>5, <2>1 DEF SendersInv
  <2>4. Due(q) => Due(q)'
    BY <1>1 DEF Due
  <2>5. Astray(q) => Astray(q)'
    BY <1>3, <1>5, <2>2 DEF Astray
  <2>6. Follows(q, policy.cur) => Follows(q, policy.cur)'
    BY <1>1, <1>3, <1>5, <2>2 DEF Follows, Capped, Constrained
  <2> QED
    BY <2>3, <2>4, <2>5, <2>6
<1> QED
  BY <1>1, <1>5 DEF SendersInv

LEMMA LeavesSenders ==
  ASSUME TypeOK, SendersInv, NEW p \in Peer, PeerLeaves(p)
  PROVE  SendersInv'
<1>1. UNCHANGED <<policy, track>>
  BY DEF PeerLeaves
<1>2. history \in History
  BY TypesGive
<1>3. /\ history'.late = history.late \ {p} /\ history'.stray = history.stray \ {p}
      /\ history'.byHand = history.byHand
  BY <1>2 DEF PeerLeaves, History
<1>4. /\ \A q \in Peer : q # p => sender'[q] = sender[q]
      /\ Here' = Here \ {p}
  <2>1. ~sender'[p].there
    BY DEF PeerLeaves, NoSender, TypeOK
  <2>2. \A q \in Peer : q # p => sender'[q] = sender[q]
    BY DEF PeerLeaves, TypeOK
  <2> QED
    BY <2>1, <2>2 DEF Here
<1>5. ASSUME NEW q \in Here', q \notin history'.late, track.published
      PROVE  (Due(q) \/ Astray(q) \/ Follows(q, policy.cur))'
  <2>1. q # p /\ q \in Here /\ q \notin history.late /\ q \in Peer /\ p # Gone
    BY <1>3, <1>4, <1>5 DEF Here
  <2>2. sender'[q] = sender[q] /\ Target(q)' = Target(q) /\ Target(q) # p
    BY <1>4, <2>1 DEF Target
  <2>3. Due(q) \/ Astray(q) \/ Follows(q, policy.cur)
    BY <1>5, <2>1 DEF SendersInv
  <2>4. \A todo, l : q \in todo => q \in Without(todo, p, l)
    BY <2>1 DEF Without
  <2>5. Due(q) => Due(q)'
    <3>1. q \in attaching \cup settling => q \in attaching' \cup settling'
      BY <2>4 DEF PeerLeaves
    <3>2. ASSUME NEW i \in Slot, applying[i].tier = policy.cur, q \in applying[i].todo
          PROVE  applying'[i].tier = policy.cur /\ q \in applying'[i].todo
      <4> DEFINE w == Without(applying[i].todo, p, sender[p].layered)
      <4>1. q \in w
        BY <2>4, <3>2
      <4>2. applying'[i] = [applying[i] EXCEPT !.todo = w]
        BY <4>1 DEF PeerLeaves, Left
      <4>3. applying[i] \in [tier : Tiers, todo : SUBSET Receiver]
        BY <3>2, InApplication
      <4> HIDE DEF w
      <4> QED
        BY <3>2, <4>1, <4>2, <4>3
    <3> QED
      BY <1>1, <3>1, <3>2 DEF Due
  <2>6. Astray(q) => Astray(q)'
    BY <1>3, <2>2 DEF Astray
  <2>7. Follows(q, policy.cur) => Follows(q, policy.cur)'
    BY <1>1, <1>3, <2>2 DEF Follows, Capped, Constrained
  <2> QED
    BY <2>3, <2>5, <2>6, <2>7
<1> QED
  BY <1>1, <1>5 DEF SendersInv

LEMMA RestSenders ==
  ASSUME TypeOK, SendersInv, Publish \/ SetMuted
  PROVE  SendersInv'
<1>1. CASE Publish
  <2>1. attaching' = Here /\ Here' = Here
    BY <1>1 DEF Publish, Here
  <2> QED
    BY <2>1 DEF SendersInv, Due
<1>2. CASE SetMuted
  <2>1. UNCHANGED <<policy, sender, applying, attaching, settling>>
    BY <1>2 DEF SetMuted
  <2>2. /\ history'.late = history.late /\ history'.stray = history.stray /\ history'.byHand = TRUE
        /\ track'.limit = track.limit /\ track'.published = track.published
    BY <1>2 DEF SetMuted, TypeOK, History, Track
  <2> QED
    BY <2>1, <2>2 DEF SendersInv, Due, Astray, Target, Follows, Capped, Constrained, Here
<1> QED
  BY <1>1, <1>2

LEMMA SendersKept ==
  ASSUME TypeOK, WindowInv, SendersInv, [Next]_vars
  PROVE  SendersInv'
<1>1. CASE UNCHANGED vars
  BY <1>1 DEF vars, SendersInv, Due, Astray, Target, Follows, Capped, Constrained, Here
<1>2. CASE Next
  BY <1>2, TickSenders, ApplySenders, SettleSenders, ComesSenders, LeavesSenders, RestSenders
     DEF Next, Receiver
<1> QED
  BY <1>1, <1>2

LEMMA InitSenders == Init => SendersInv
BY DEF Init, SendersInv

LEMMA SendersAtRest == SendersInv => SendersFollow
<1> SUFFICES ASSUME SendersInv, AtRest, track.published, NEW p \in Here \ history.late
             PROVE  \/ Target(p) \in history.stray
                    \/ IF sender[p].layered THEN Capped(p, policy.cur) ELSE Constrained(policy.cur)
  BY DEF SendersFollow
<1>1. ~Due(p)
  BY DEF AtRest, Due, Idle
<1> QED
  BY <1>1 DEF SendersInv, Astray, Follows

\* Once the applications are over the senders follow the policy, however many ran beside
\* each other, whichever setter rejected, whoever came, left or muted while they were under
\* way; exempt are those an older application set last and those that rejected the tier.
THEOREM SendersHeld == Spec => []SendersFollow
<1>1. Init => TypeOK /\ WindowInv /\ SendersInv
  BY InitTypes, InitSenders
<1>2. TypeOK /\ WindowInv /\ SendersInv /\ [Next]_vars => (TypeOK /\ WindowInv /\ SendersInv)'
  BY TypesKept, SendersKept
<1>3. TypeOK /\ WindowInv /\ SendersInv => SendersFollow
  BY SendersAtRest
<1> QED
  BY <1>1, <1>2, <1>3, PTL DEF Spec
=============================================================================
