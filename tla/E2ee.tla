-------------------------------- MODULE E2ee --------------------------------
(***************************************************************************)
(* Which senders and receivers of a room's peer connections carry an       *)
(* encryption transform, and under which key (packages/core/src/e2ee.ts,   *)
(* used by room.ts and mesh-transport.ts), in an environment with          *)
(* insertable streams.  Keys are imported asynchronously, the ends of a    *)
(* connection are set up one connection after another, and the platform    *)
(* gives the encoded streams of an end once (external).  A room made       *)
(* without a key has no processor until the first key is set.  Frames are  *)
(* left out.                                                               *)
(***************************************************************************)
EXTENDS Naturals, FiniteSets

CONSTANTS Pc,          \* the peers a call has, each with one connection
          Sender, Receiver,  \* names of a connection's ends
          MaxKey       \* bound on the keys set

\* "rotation" names the setup that no connection of a peer starts
ASSUME RotationApart == "rotation" \notin Pc

Ends == Sender \cup Receiver
Setup == Pc \cup {"rotation"}     \* who may be setting ends up

VARIABLES processor,  \* the room has its e2eeProcessor
          key,        \* cryptoKey of the processor, 0 while none is imported
          importing,  \* keys being imported
          keys,       \* keys set so far
          pub,        \* the senders' tracks published so far
          have,       \* the ends of each connection
          pipe,       \* the key of the transform of each end, 0 for none
          peers,      \* connections in the mesh's map
          step,       \* of each setup: "idle", "import", "senders", "receivers", "inert"
                      \* or "left" (one who comes back has another connection)
          at,         \* the connection each setup is at
          rest,       \* the connections the rotation has not come to
          owed,       \* ends the last key change found (history)
          bare        \* it found no processor either (history)
vars == <<processor, key, importing, keys, pub, have, pipe, peers, step, at, rest, owed, bare>>

-----------------------------------------------------------------------------
\* The room's constructor creates the processor, which imports the first key, if it has one
Init ==
  /\ processor \in BOOLEAN /\ keys = (IF processor THEN 1 ELSE 0)
  /\ key = 0 /\ importing = 1 .. keys /\ pub = {} /\ peers = {}
  /\ have = [p \in Pc |-> {}] /\ pipe = [p \in Pc |-> [e \in Ends |-> 0]]
  /\ step = [u \in Setup |-> "idle"] /\ at = [u \in Setup |-> IF u \in Pc THEN u ELSE CHOOSE p \in Pc : TRUE]
  /\ rest = {} /\ owed = {} /\ bare = FALSE

\* ensurePeer: the tracks published so far are added, then e2eeSetupPeer is awaited, which
\* does nothing without a processor
ensurePeer(p) ==
  /\ p \notin peers /\ step[p] = "idle"
  /\ have' = [have EXCEPT ![p] = pub]
  /\ step' = [step EXCEPT ![p] = IF processor THEN "senders" ELSE "inert"]
  /\ UNCHANGED <<key, importing, keys, pub, pipe, peers, at, rest, owed, bare>>
Ready(p) ==
  /\ step[p] = "inert" /\ step' = [step EXCEPT ![p] = "idle"] /\ peers' = peers \cup {p}
  /\ UNCHANGED <<key, importing, keys, pub, have, pipe, at, rest, owed, bare>>

\* setupSender, setupReceiver: an end with its streams taken throws, as does one without
\* a key; the loop of setupPeerConnection goes on with the next end
SetUpUntilThrow(p, es) ==
  IF \E e \in es : pipe[p][e] # 0 THEN pipe
  ELSE [pipe EXCEPT ![p] = [e \in Ends |-> IF e \in es THEN key ELSE pipe[p][e]]]
SetUp(p, es) ==
  [pipe EXCEPT ![p] = [e \in Ends |-> IF e \in es /\ pipe[p][e] = 0 THEN key ELSE pipe[p][e]]]

SetUpSenders(u) ==
  /\ step[u] = "senders"
  /\ pipe' = SetUp(at[u], have[at[u]] \cap Sender)
  /\ step' = [step EXCEPT ![u] = "receivers"]
  /\ UNCHANGED <<key, importing, keys, pub, have, peers, at, rest, owed, bare>>

SetUpReceivers(u) ==
  /\ step[u] = "receivers"
  /\ pipe' = SetUp(at[u], have[at[u]] \cap Receiver)
  /\ IF u = "rotation" /\ rest # {}
     THEN \E p \in rest :
            /\ at' = [at EXCEPT ![u] = p] /\ rest' = rest \ {p}
            /\ step' = [step EXCEPT ![u] = "senders"] /\ UNCHANGED peers
     ELSE /\ step' = [step EXCEPT ![u] = "idle"]
          /\ peers' = IF u \in Pc THEN peers \cup {u} ELSE peers
          /\ UNCHANGED <<at, rest>>
  /\ UNCHANGED <<key, importing, keys, pub, have, owed, bare>>

Found == {x \in peers \X Ends : x[2] \in have[x[1]]}

\* setE2eeKey without a processor makes one, which imports the key, and returns; with one
\* the import is awaited first
setE2eeKey ==
  /\ keys < MaxKey /\ step["rotation"] = "idle"
  /\ keys' = keys + 1 /\ importing' = importing \cup {keys + 1}
  /\ processor' = TRUE /\ bare' = ~processor
  /\ IF processor THEN step' = [step EXCEPT !["rotation"] = "import"] /\ UNCHANGED owed
                  ELSE owed' = Found /\ UNCHANGED step
  /\ UNCHANGED <<key, pub, have, pipe, peers, at, rest>>

\* setKey of the processor resumes; a rotation then starts on the connections of now
Imported(k) ==
  /\ k \in importing /\ importing' = importing \ {k} /\ key' = k
  /\ IF step["rotation"] = "import" /\ k = keys
     THEN /\ owed' = Found
          /\ IF peers = {}
             THEN step' = [step EXCEPT !["rotation"] = "idle"] /\ UNCHANGED <<at, rest>>
             ELSE \E p \in peers :
                    /\ at' = [at EXCEPT !["rotation"] = p] /\ rest' = peers \ {p}
                    /\ step' = [step EXCEPT !["rotation"] = "senders"]
     ELSE UNCHANGED <<step, at, rest, owed>>
  /\ UNCHANGED <<keys, pub, have, pipe, peers, bare>>

\* publish adds a sender to the connections in the map, and sets nothing up
publish(s) ==
  /\ s \in Sender \ pub /\ pub' = pub \cup {s}
  /\ have' = [p \in Pc |-> IF p \in peers THEN have[p] \cup {s} ELSE have[p]]
  /\ UNCHANGED <<key, importing, keys, pipe, peers, step, at, rest, owed, bare>>

\* A track of the peer arrives
ontrack(p, r) ==
  /\ p \in peers \/ step[p] \in {"inert", "senders", "receivers"}
  /\ r \in Receiver \ have[p] /\ have' = [have EXCEPT ![p] = @ \cup {r}]
  /\ UNCHANGED <<key, importing, keys, pub, pipe, peers, step, at, rest, owed, bare>>

\* The peer leaves: its connection and the transforms on it are gone
handleRemoteLeave(p) ==
  /\ p \in peers /\ peers' = peers \ {p}
  /\ have' = [have EXCEPT ![p] = {}] /\ pipe' = [pipe EXCEPT ![p] = [e \in Ends |-> 0]]
  /\ owed' = {x \in owed : x[1] # p}
  /\ step' = [step EXCEPT ![p] = "left"]
  /\ UNCHANGED <<key, importing, keys, pub, at, rest, bare>>

\* Only setE2eeKey makes a processor, and nothing takes it away
Others ==
  \/ \E k \in 1..MaxKey : Imported(k)
  \/ \E u \in Setup : SetUpSenders(u) \/ SetUpReceivers(u)
  \/ \E p \in Pc : ensurePeer(p) \/ Ready(p) \/ handleRemoteLeave(p) \/ \E r \in Receiver : ontrack(p, r)
  \/ \E s \in Sender : publish(s)
Next == setE2eeKey \/ (Others /\ UNCHANGED processor)

Spec == Init /\ [][Next]_vars

-----------------------------------------------------------------------------
\* Once a key change is through, every end it found on a connection still there carries a
\* transform: the ends that were set up before and throw do not keep it from those a late
\* track, an early peer or a first key left without (room.ts:829-837, e2ee.ts:234-254).
\* The change that makes the processor sets nothing up (819-828).
AllCovered ==
  step["rotation"] = "idle" /\ ~bare => \A x \in owed : pipe[x[1]][x[2]] # 0

=============================================================================
