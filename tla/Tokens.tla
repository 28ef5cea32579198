------------------------------- MODULE Tokens -------------------------------
(***************************************************************************)
(* Room tokens: issued and verified by several server processes that share  *)
(* no memory (packages/server/src/auth.ts), each with its own list of       *)
(* secrets and its own table of revoked tokens, presented at a join whose   *)
(* checks are spread over awaits (ws.ts, core.ts), and refreshed by the     *)
(* client when the server refuses one (packages/core/src/room.ts).  The     *)
(* room's policy is in its row of the Store, which every join, leave, kick  *)
(* and change of the policy reads first and writes back whole.  A token is  *)
(* the record of its claims; its signature is the key it was signed with.   *)
(***************************************************************************)
EXTENDS Naturals, Sequences, FiniteSets

CONSTANTS Srv,        \* the server processes
          Default,    \* DEFAULT_TOKEN_TTL_SECONDS, in ticks
          MaxClock,   \* bound on time
          MaxTokens,  \* bound on the tokens issued
          MaxCalls,   \* bound on everything the operators and the app do
          None

ASSUME TokenAssumption == MaxTokens \in Nat \ {0} /\ Default \in Nat

VARIABLES clock,
          keys,       \* of each server: [secret, previous], secret and previousSecrets
          tokens,     \* the tokens issued so far
          revoked,    \* of each server: the tick each token is revoked until, 0 for none
          policy,     \* in the room's row: [locked, e2eeRequired]
          edit,       \* the other call each server has between reading that row and
                      \* writing it: [change, row], or None
          join,       \* the join a server is handling, or None
          held,       \* the token the client holds (an index of tokens)
          flight,     \* refreshes under way: [tok, crossed], the token each will bring, and
                      \* that setAuthToken was called meanwhile (history)
          dead,       \* of each server: tokens revoked for the rest of their life (history)
          slipped,    \* a token dead on a server was accepted by it (history)
          breach,     \* a join was completed that a policy in force kept out (history)
          older,      \* a refresh put an older token back (history)
          calls
vars == <<clock, keys, tokens, revoked, policy, edit, join, held, flight, dead, slipped, breach, older, calls>>
client == <<held, flight, older>>
server == <<keys, revoked, dead>>
rowVars == <<policy, edit>>

-----------------------------------------------------------------------------
Flag == {"locked", "e2eeRequired"}
NoPolicy == [f \in Flag |-> FALSE]
Newest == CHOOSE k \in {keys[s].secret : s \in Srv} : \A s \in Srv : keys[s].secret <= k

Init ==
  /\ clock = 1 /\ keys = [s \in Srv |-> [secret |-> 1, previous |-> {}]]
  /\ tokens = <<[key |-> 1, exp |-> 1 + Default, admin |-> FALSE, e2ee |-> FALSE]>>
  /\ revoked = [s \in Srv |-> [i \in 1..MaxTokens |-> 0]]
  /\ policy = NoPolicy
  /\ edit = [s \in Srv |-> None] /\ join = None /\ held = 1 /\ flight = {}
  /\ dead = [s \in Srv |-> {}] /\ slipped = FALSE /\ breach = FALSE /\ older = FALSE
  /\ calls = 0

Called == calls < MaxCalls /\ calls' = calls + 1

Tick == clock < MaxClock /\ clock' = clock + 1
        /\ UNCHANGED <<server, tokens, rowVars, join, client, slipped, breach, calls>>

---- \* issuing, revoking, rotating

\* authTokenHandler and issueToken on the server's own secret; exp may be asked for
Issue(s, exp, admin, e2ee) ==
  /\ tokens' = Append(tokens, [key |-> keys[s].secret, exp |-> exp, admin |-> admin, e2ee |-> e2ee])
  /\ Len(tokens) < MaxTokens

Asked(s) ==
  /\ Called
  /\ \E exp \in {clock + Default, clock + Default + 1}, admin, e2ee \in BOOLEAN :
       ~(admin /\ e2ee) /\ Issue(s, exp, admin, e2ee)
  /\ UNCHANGED <<clock, server, rowVars, join, client, slipped, breach>>

\* revokeHandler: until the exp of the request, or Default from now
Until(i, given) == IF given THEN tokens[i].exp ELSE clock + Default

Revoke(s, i, given) ==
  /\ Called
  /\ revoked' = [revoked EXCEPT ![s][i] = Until(i, given)]
  /\ dead' = [dead EXCEPT ![s] = IF given \/ tokens[i].exp <= clock + Default
                                 THEN @ \cup {i} ELSE @ \ {i}]
  /\ UNCHANGED <<clock, keys, tokens, rowVars, join, client, slipped, breach>>

\* A server is deployed again, with the newest secret or a newer one, and keeps what the
\* operator lists of the old ones: its table of revoked tokens is gone, and its joins
Deploy(s, k, keep) ==
  /\ Called /\ k \in {Newest, Newest + 1}
  /\ keys' = [keys EXCEPT ![s] =
                [secret |-> k, previous |-> (IF keep THEN @.previous \cup {@.secret} ELSE {}) \ {k}]]
  /\ revoked' = [revoked EXCEPT ![s] = [i \in 1..MaxTokens |-> 0]]
  /\ dead' = [dead EXCEPT ![s] = {}]
  /\ join' = IF join # None /\ join.srv = s THEN None ELSE join
  /\ edit' = [edit EXCEPT ![s] = None]
  /\ UNCHANGED <<clock, tokens, policy, client, slipped, breach>>

---- \* the room's row

\* updateRoomPolicy changes a flag of the row it read; leaveRoom, kick, ban and the joins of
\* others write it back as it was
Untouched == [flag |-> "none", to |-> FALSE]
Change == [flag : Flag, to : BOOLEAN] \cup {Untouched}
Lifts(change, f) == change = [flag |-> f, to |-> FALSE]
Changed(change, row) == [f \in Flag |-> IF change.flag = f THEN change.to ELSE row[f]]

\* A flag is in force when it is up, and no call under way that will write the row has
\* read it before, or takes the flag down.
Writing == {edit[s].row : s \in {t \in Srv : edit[t] # None}}
           \cup (IF join # None /\ join.at \in {"member", "put", "touch"} THEN {join.row} ELSE {})
InForce(f) ==
  /\ policy[f] /\ \A row \in Writing : row[f]
  /\ \A s \in Srv : edit[s] # None => ~Lifts(edit[s].change, f)

ReadRow(s, change) ==
  /\ Called /\ edit[s] = None
  /\ edit' = [edit EXCEPT ![s] = [change |-> change, row |-> policy]]
  /\ join' = IF join = None THEN None ELSE [join EXCEPT !.firm = {f \in @ : ~Lifts(change, f)}]
  /\ UNCHANGED <<clock, server, tokens, policy, client, slipped, breach>>

PutRow(s) ==
  /\ edit[s] # None
  /\ policy' = Changed(edit[s].change, edit[s].row) /\ edit' = [edit EXCEPT ![s] = None]
  /\ UNCHANGED <<clock, server, tokens, join, client, slipped, breach, calls>>

---- \* verifying

ExpiredLate(i) == tokens[i].exp < clock
Expired(i) == tokens[i].exp <= clock

\* An entry past its time counts as deleted
isRevoked(s, i) == revoked[s][i] > clock

\* verifyToken, verifyTokenWithRotation: under the secret it was signed with, if listed
verify(s, i) ==
  IF tokens[i].key \notin {keys[s].secret} \cup keys[s].previous THEN "unauthorized"
  ELSE IF Expired(i) \/ isRevoked(s, i) THEN "token_expired"
  ELSE "ok"

---- \* a join over a socket

At(pc) == join # None /\ join.at = pc

\* authenticateSocket; a refusal reaches the client
Joins(s, at) == [srv |-> s, tok |-> held, at |-> at, admin |-> FALSE, lapsed |-> FALSE,
                 row |-> NoPolicy, firm |-> {f \in Flag : InForce(f)}]
Present(s) ==
  /\ Called /\ join = None
  /\ IF verify(s, held) = "ok"
     THEN join' = Joins(s, "policy") /\ slipped' = (slipped \/ held \in dead[s])
     ELSE join' = Joins(s, "refused") /\ UNCHANGED slipped
  /\ UNCHANGED <<clock, server, tokens, rowVars, client, breach>>

\* The room's policy as read now: a lock keeps out all but admins, and e2eeRequired all
\* tokens without the flag; a token that no longer verifies passes both (352-385)
Verifies == verify(join.srv, join.tok) = "ok"
Claims == tokens[join.tok]

Excluded ==
  /\ Verifies /\ ~Claims.admin
  /\ policy.locked \/ (policy.e2eeRequired /\ ~Claims.e2ee)

CheckPolicy ==
  /\ At("policy")
  /\ join' = IF Excluded THEN [join EXCEPT !.at = "refused"]
             ELSE [join EXCEPT !.at = "role", !.lapsed = ~Verifies]
  /\ UNCHANGED <<clock, server, tokens, rowVars, client, slipped, breach, calls>>

\* The second read of the room, and the role joinRoom is told
CheckRole ==
  /\ At("role")
  /\ join' = [join EXCEPT !.at = "join", !.admin = Verifies /\ Claims.admin]
  /\ UNCHANGED <<clock, server, tokens, rowVars, client, slipped, breach, calls>>

\* joinRoom of a newcomer reads the room a third time,
JoinRead ==
  /\ At("join") /\ join' = [join EXCEPT !.at = "member", !.row = policy]
  /\ UNCHANGED <<clock, server, tokens, rowVars, client, slipped, breach, calls>>

\* then the roster; a locked room has a lobby, and a full one refuses
KeptOut == join.row.locked /\ ~join.admin
JoinMember ==
  /\ At("member")
  /\ \/ join' = None
     \/ ~KeptOut /\ join' = [join EXCEPT !.at = "put"]
  /\ UNCHANGED <<clock, server, tokens, rowVars, client, slipped, breach, calls>>

\* then puts the participant,
JoinPut ==
  /\ At("put") /\ join' = [join EXCEPT !.at = "touch"]
  /\ breach' = (breach
       \/ ("locked" \in join.firm /\ ~Claims.admin)
       \/ ("e2eeRequired" \in join.firm /\ ~Claims.e2ee /\ ~Claims.admin /\ ~join.lapsed))
  /\ UNCHANGED <<clock, server, tokens, rowVars, client, slipped, calls>>

\* and the room as it read it
JoinTouch ==
  /\ At("touch") /\ policy' = join.row /\ join' = None
  /\ UNCHANGED <<clock, server, tokens, edit, client, slipped, breach, calls>>

---- \* the client

\* The error envelope: handleAuthError starts a refresh unless one is under way.  The
\* backend of the application issues the token when it is asked.
Flight == [tok |-> Len(tokens) + 1, crossed |-> FALSE]
StartRefresh == flight' = IF flight = {} THEN {Flight} ELSE flight

handleAuthError ==
  /\ At("refused") /\ join' = None
  /\ StartRefresh
  /\ IF flight' = flight THEN UNCHANGED tokens
     ELSE \E s \in Srv : Issue(s, clock + Default, FALSE, FALSE)
  /\ UNCHANGED <<clock, server, rowVars, held, older, slipped, breach, calls>>

\* It answers; or fails, or brings nothing, and the client keeps the token it has
Refreshed ==
  /\ \E f \in flight :
       /\ flight' = flight \ {f}
       /\ \/ held' = f.tok /\ older' = (older \/ (f.tok < held /\ ~f.crossed))
          \/ UNCHANGED <<held, older>>
  /\ UNCHANGED <<clock, server, tokens, rowVars, join, slipped, breach, calls>>

\* setAuthToken by the application, at any time and with any token
setAuthToken(i) ==
  /\ Called /\ held' = i
  /\ flight' = {[f EXCEPT !.crossed = TRUE] : f \in flight}
  /\ UNCHANGED <<clock, server, tokens, rowVars, join, older, slipped, breach>>

Next ==
  \/ Tick
  \/ \E s \in Srv : \/ Asked(s) \/ Present(s)
                    \/ \E i \in DOMAIN tokens, given \in BOOLEAN : Revoke(s, i, given)
                    \/ \E k \in 1..MaxTokens, keep \in BOOLEAN : Deploy(s, k, keep)
                    \/ \E change \in Change : ReadRow(s, change)
                    \/ PutRow(s)
  \/ CheckPolicy \/ CheckRole \/ JoinRead \/ JoinMember \/ JoinPut \/ JoinTouch
  \/ handleAuthError \/ Refreshed
  \/ \E i \in DOMAIN tokens : setAuthToken(i)

Spec == Init /\ [][Next]_vars

-----------------------------------------------------------------------------
\* A server that was told to revoke a token for the rest of its life, and has not been
\* deployed since, accepts it at no instant of that life: the entry outlasts the token to
\* the second (auth.ts:208, 311-325).
RevocationHolds == ~slipped

\* A lock or a demand for end-to-end encryption is in force once no call is under way that
\* read the room before it was written.  A join presented from then on, with nobody lifting it,
\* is spread over three reads of the room and three verifications of the token, among which
\* others write the row back: it makes a participant of nobody but an admin in a locked room,
\* and of nobody without the flag or that role in one that requires encryption, unless the
\* token lapsed since it was accepted (ws.ts:346-404, core.ts:173-196, 351-383).
PolicyHolds == ~breach

\* A refresh never replaces the client's token by one issued earlier, however many refusals
\* arrive while it is under way, unless the application set one meanwhile (room.ts:1048-1120).
RefreshInOrder == ~older

\* Revocations and policies are obeyed, and refreshes come in order.
AccessHolds == RevocationHolds /\ PolicyHolds /\ RefreshInOrder
=============================================================================
