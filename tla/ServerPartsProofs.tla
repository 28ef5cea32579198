-------------------------- MODULE ServerPartsProofs --------------------------
(***************************************************************************)
(* Proofs about four of the services of MCServerParts, for every value of   *)
(* their constants: the tokens (Tokens), the router of the SFU gateway      *)
(* (SfuRouting), the egress worker (EgressWorkers) and the transcription    *)
(* worker (Transcription).  The four share no state; each part of this      *)
(* module states an inductive invariant, shows that every operation keeps   *)
(* it and that it implies the property a run checks.                        *)
(***************************************************************************)
EXTENDS MCServerParts, SequenceTheorems, FiniteSetTheorems, TLAPS

-----------------------------------------------------------------------------
(* The tokens *)

Token == [key : Nat, exp : Nat, admin : BOOLEAN, e2ee : BOOLEAN]
Policy == [Flag -> BOOLEAN]
Handling == [srv : Srv, tok : Nat, at : {"policy", "refused", "role", "join", "member", "put", "touch"},
             admin : BOOLEAN, lapsed : BOOLEAN, row : Policy, firm : SUBSET Flag]
Editing == [change : Change, row : Policy]

\* The tables of the servers and what the client holds speak of issued tokens.
Issued ==
  /\ clock \in Nat
  /\ keys \in [Srv -> [secret : Nat, previous : SUBSET Nat]]
  /\ tokens \in Seq(Token) /\ Len(tokens) \in 1 .. MaxTokens
  /\ revoked \in [Srv -> [1 .. MaxTokens -> Nat]]
  /\ dead \in [Srv -> SUBSET (DOMAIN tokens)]
  /\ held \in DOMAIN tokens /\ flight \subseteq [tok : DOMAIN tokens, crossed : BOOLEAN]
  /\ policy \in Policy
  /\ \A s \in Srv : edit[s] = None \/ edit[s] \in Editing
  /\ edit = [s \in Srv |-> edit[s]]
  /\ join # None => join \in Handling /\ join.tok \in DOMAIN tokens

\* An entry for the rest of a token's life lasts as long as the token.
Outlasts == \A s \in Srv : \A i \in dead[s] : revoked[s][i] >= tokens[i].exp

\* One refresh is under way at most, and what it brings is newer than what is held, unless
\* the application set that.
Refreshing == \A f \in flight : (f.crossed \/ f.tok > held) /\ flight = {f}

\* A flag that was in force when the join was presented is up, and so it stays: no copy of
\* the room that is yet to be written is without it, and nobody is taking it down.
Firm ==
  join # None => \A f \in join.firm :
    /\ policy[f]
    /\ \A s \in Srv : edit[s] # None => edit[s].row[f] /\ ~Lifts(edit[s].change, f)
    /\ join.at \in {"member", "put", "touch"} => join.row[f]

\* A join that got past the policy did so with the claims the policy in force asks for,
\* unless its token had lapsed; a role it goes on with is one of its claims; and in a
\* locked room it goes on with that role alone.
Past == {"role", "join", "member", "put", "touch"}
Passed ==
  join # None /\ join.at \in Past /\ "e2eeRequired" \in join.firm =>
    join.lapsed \/ Claims.admin \/ Claims.e2ee
HasRole ==
  join # None =>
    /\ join.at \in {"join", "member", "put", "touch"} => (join.admin => Claims.admin)
    /\ join.at \in {"put", "touch"} /\ "locked" \in join.firm => join.admin

PolicyInv == Firm /\ Passed /\ HasRole
Obeyed == ~slipped /\ ~breach /\ ~older
AccessInv == Issued /\ Outlasts /\ Refreshing /\ PolicyInv /\ Obeyed

LEMMA AccessInit == Init => AccessInv
<1> USE TokenAssumption
<1> SUFFICES ASSUME Init PROVE AccessInv
  OBVIOUS
<1> DEFINE first == [key |-> 1, exp |-> 1 + Default, admin |-> FALSE, e2ee |-> FALSE]
<1>1. first \in Token /\ tokens = <<first>>
  BY DEF Init, Token
<1>2. policy \in Policy
  BY DEF Init, Policy, NoPolicy
<1>3. Issued
  BY <1>1, <1>2 DEF Init, Issued
<1> QED
  BY <1>3 DEF Init, AccessInv, Outlasts, Refreshing, PolicyInv, Firm, Passed, HasRole, Obeyed

\* What is issued goes behind the tokens there are.
LEMMA IssueAppends ==
  ASSUME Issued, NEW s \in Srv, NEW exp \in Nat, NEW admin \in BOOLEAN, NEW e2ee \in BOOLEAN,
         Issue(s, exp, admin, e2ee)
  PROVE  /\ tokens' \in Seq(Token) /\ Len(tokens') = Len(tokens) + 1
         /\ Len(tokens') \in 1 .. MaxTokens
         /\ DOMAIN tokens \subseteq DOMAIN tokens'
         /\ \A i \in DOMAIN tokens : tokens'[i] = tokens[i]
<1> USE TokenAssumption
<1> DEFINE t == [key |-> keys[s].secret, exp |-> exp, admin |-> admin, e2ee |-> e2ee]
<1>1. t \in Token
  BY DEF Issued, Token
<1>2. tokens' = Append(tokens, t) /\ Len(tokens) < MaxTokens
  BY DEF Issue
<1> HIDE DEF t
<1> QED
  BY <1>1, <1>2 DEF Issued

\* Nothing of the join and the room's row changes, nor do the claims of the token it has.
LEMMA PolicyFrame ==
  ASSUME PolicyInv, UNCHANGED <<policy, edit, join>>,
         join # None => tokens'[join.tok] = tokens[join.tok]
  PROVE  PolicyInv'
BY DEF PolicyInv, Firm, Passed, HasRole, Claims

\* What may change when tokens are issued: nothing else of the invariant speaks of more
\* than the tokens there were.
LEMMA TokensGrow ==
  ASSUME AccessInv,
         tokens' \in Seq(Token), Len(tokens') \in 1 .. MaxTokens,
         \A i \in DOMAIN tokens : i \in DOMAIN tokens' /\ tokens'[i] = tokens[i],
         UNCHANGED <<clock, keys, revoked, dead, held, policy, edit, slipped, breach, older>>,
         flight' \subseteq [tok : DOMAIN tokens', crossed : BOOLEAN], Refreshing',
         join' = join \/ join' = None
  PROVE  AccessInv'
<1>1. Issued'
  <2>1. dead' \in [Srv -> SUBSET (DOMAIN tokens')] /\ held' \in DOMAIN tokens'
    BY DEF AccessInv, Issued
  <2>2. join' # None => join' \in Handling /\ join'.tok \in DOMAIN tokens'
    BY DEF AccessInv, Issued
  <2> QED
    BY <2>1, <2>2 DEF AccessInv, Issued
<1>2. Outlasts'
  BY DEF AccessInv, Issued, Outlasts
<1>3. PolicyInv'
  <2>1. CASE join' = None
    BY <2>1 DEF PolicyInv, Firm, Passed, HasRole
  <2>2. CASE join' = join
    BY <2>2, PolicyFrame DEF AccessInv, Issued
  <2> QED
    BY <2>1, <2>2
<1> QED
  BY <1>1, <1>2, <1>3 DEF AccessInv, Obeyed

LEMMA AskedKeeps ==
  ASSUME AccessInv, NEW s \in Srv, Asked(s)
  PROVE  AccessInv'
<1> USE TokenAssumption
<1>1. PICK exp \in {clock + Default, clock + Default + 1}, admin \in BOOLEAN, e2ee \in BOOLEAN :
        Issue(s, exp, admin, e2ee)
  BY DEF Asked
<1>2. exp \in Nat
  BY DEF AccessInv, Issued
<1>3. /\ tokens' \in Seq(Token) /\ Len(tokens') \in 1 .. MaxTokens
      /\ \A i \in DOMAIN tokens : i \in DOMAIN tokens' /\ tokens'[i] = tokens[i]
  BY <1>1, <1>2, IssueAppends DEF AccessInv
<1>4. UNCHANGED <<clock, keys, revoked, dead, held, flight, join, policy, edit, slipped, breach, older>>
  BY DEF Asked, server, client, rowVars
<1>5. flight' \subseteq [tok : DOMAIN tokens', crossed : BOOLEAN] /\ Refreshing'
  BY <1>3, <1>4 DEF AccessInv, Issued, Refreshing
<1> QED
  BY <1>3, <1>4, <1>5, TokensGrow

LEMMA TokenAt ==
  ASSUME Issued, NEW i \in DOMAIN tokens
  PROVE  i \in 1 .. MaxTokens /\ tokens[i] \in Token /\ tokens[i].exp \in Nat
<1>1. tokens \in Seq(Token) /\ Len(tokens) \in 1 .. MaxTokens
  BY DEF Issued
<1>2. i \in 1 .. Len(tokens) /\ tokens[i] \in Token
  BY <1>1
<1>3. i \in 1 .. MaxTokens
  BY <1>1, <1>2, TokenAssumption
<1> QED
  BY <1>2, <1>3 DEF Token

LEMMA RevokeKeeps ==
  ASSUME AccessInv, NEW s \in Srv, NEW i \in DOMAIN tokens, NEW given \in BOOLEAN,
         Revoke(s, i, given)
  PROVE  AccessInv'
<1> USE TokenAssumption DEF AccessInv
<1>1. UNCHANGED <<clock, keys, tokens, join, policy, edit, held, flight, slipped, breach, older>>
  BY DEF Revoke, client, rowVars
<1>2. i \in 1 .. MaxTokens /\ tokens[i] \in Token /\ tokens[i].exp \in Nat
  BY TokenAt
<1>3. Until(i, given) \in Nat
  BY <1>2 DEF Until, Issued
<1>4. revoked' = [revoked EXCEPT ![s] = [revoked[s] EXCEPT ![i] = Until(i, given)]]
  BY DEF Revoke
<1>5. revoked' \in [Srv -> [1 .. MaxTokens -> Nat]]
  BY <1>2, <1>3, <1>4 DEF Issued
<1>6. /\ dead' \in [Srv -> SUBSET (DOMAIN tokens)]
      /\ \A r \in Srv \ {s} : dead'[r] = dead[r]
      /\ \A j \in dead'[s] : j = i \/ j \in dead[s]
      /\ i \in dead'[s] => given \/ tokens[i].exp <= clock + Default
  BY DEF Revoke, Issued
<1>7. Issued'
  BY <1>1, <1>5, <1>6 DEF Issued
<1>8. ASSUME NEW r \in Srv, NEW j \in dead'[r]
      PROVE  revoked'[r][j] >= tokens[j].exp
  <2>1. j \in 1 .. MaxTokens
    BY <1>6 DEF Issued
  <2>2. CASE r = s /\ j = i
    BY <2>2, <1>2, <1>3, <1>4, <1>5, <1>6 DEF Until, Issued
  <2>3. CASE ~(r = s /\ j = i)
    <3>1. j \in dead[r]
      BY <2>3, <1>6
    <3>2. revoked'[r][j] = revoked[r][j]
      BY <2>1, <2>3, <1>4 DEF Issued
    <3> QED
      BY <3>1, <3>2 DEF Outlasts
  <2> QED
    BY <2>2, <2>3
<1>9. Outlasts'
  BY <1>1, <1>8 DEF Outlasts
<1> QED
  BY <1>1, <1>7, <1>9, PolicyFrame DEF Refreshing, Obeyed

LEMMA DeployKeeps ==
  ASSUME AccessInv, NEW s \in Srv, NEW k \in 1 .. MaxTokens, NEW keep \in BOOLEAN,
         Deploy(s, k, keep)
  PROVE  AccessInv'
<1> USE TokenAssumption DEF AccessInv
<1>1. UNCHANGED <<clock, tokens, policy, held, flight, older, slipped, breach>>
  BY DEF Deploy, client
<1>2. keys' \in [Srv -> [secret : Nat, previous : SUBSET Nat]]
  BY DEF Deploy, Issued
<1>3. revoked' \in [Srv -> [1 .. MaxTokens -> Nat]] /\ \A r \in Srv \ {s} : revoked'[r] = revoked[r]
  BY DEF Deploy, Issued
<1>4. dead' \in [Srv -> SUBSET (DOMAIN tokens)] /\ dead' = [dead EXCEPT ![s] = {}]
  BY DEF Deploy, Issued
<1>5. join' = join \/ join' = None
  BY DEF Deploy
<1>6. edit' = [edit EXCEPT ![s] = None] /\ \A r \in Srv : edit'[r] = None \/ edit'[r] = edit[r]
  BY DEF Deploy, Issued
<1>7. Issued'
  BY <1>1, <1>2, <1>3, <1>4, <1>5, <1>6 DEF Issued
<1>8. Outlasts'
  BY <1>1, <1>3, <1>4 DEF Outlasts, Issued
<1>9. PolicyInv'
  BY <1>1, <1>5, <1>6 DEF PolicyInv, Firm, Passed, HasRole, Claims
<1> QED
  BY <1>1, <1>7, <1>8, <1>9 DEF Refreshing, Obeyed

\* A token that verifies has not been revoked for the rest of its life.
LEMMA VerifiedIsAlive ==
  ASSUME AccessInv, NEW s \in Srv, NEW i \in DOMAIN tokens, verify(s, i) = "ok"
  PROVE  i \notin dead[s]
<1>1. ~(tokens[i].exp <= clock) /\ ~(revoked[s][i] > clock)
  BY DEF verify, Expired, isRevoked
<1>2. i \in 1 .. MaxTokens /\ tokens[i].exp \in Nat
  BY TokenAt DEF AccessInv
<1>3. revoked[s][i] \in Nat /\ clock \in Nat
  BY <1>2 DEF AccessInv, Issued
<1> QED
  BY <1>1, <1>2, <1>3 DEF AccessInv, Outlasts

-----------------------------------------------------------------------------
(* The room's row and the steps of a join *)

\* A call reads the row: what is in force is up in it.
LEMMA ReadRowKeeps ==
  ASSUME AccessInv, NEW s \in Srv, NEW change \in Change, ReadRow(s, change)
  PROVE  AccessInv'
<1> USE DEF AccessInv
<1>1. UNCHANGED <<clock, keys, revoked, dead, tokens, policy, held, flight, older, slipped, breach>>
  BY DEF ReadRow, server, client
<1> DEFINE e == [change |-> change, row |-> policy]
<1>2. edit' = [edit EXCEPT ![s] = e] /\ e \in Editing
  BY DEF ReadRow, Editing, Issued
<1>3. /\ edit'[s] = e /\ \A r \in Srv \ {s} : edit'[r] = edit[r]
      /\ edit' = [r \in Srv |-> edit'[r]]
  BY <1>2 DEF Issued
<1>4. ASSUME join # None
      PROVE  /\ join' \in Handling /\ join'.tok = join.tok /\ join'.at = join.at
             /\ join'.admin = join.admin /\ join'.lapsed = join.lapsed /\ join'.row = join.row
             /\ join'.firm = {f \in join.firm : ~Lifts(change, f)}
  BY <1>4 DEF ReadRow, Issued, Handling
<1>5. join' # None => join # None
  BY DEF ReadRow
<1>6. Issued'
  BY <1>1, <1>2, <1>3, <1>4, <1>5 DEF Issued
<1>7. ASSUME join' # None, NEW f \in join'.firm
      PROVE  /\ policy'[f]
             /\ \A r \in Srv : edit'[r] # None => edit'[r].row[f] /\ ~Lifts(edit'[r].change, f)
             /\ join'.at \in {"member", "put", "touch"} => join'.row[f]
  <2>1. f \in join.firm /\ ~Lifts(change, f) /\ join # None
    BY <1>4, <1>5, <1>7
  <2>2. policy[f]
    BY <2>1 DEF PolicyInv, Firm
  <2>3. ASSUME NEW r \in Srv, edit'[r] # None
        PROVE  edit'[r].row[f] /\ ~Lifts(edit'[r].change, f)
    <3>1. CASE r = s
      BY <3>1, <1>3, <2>1, <2>2
    <3>2. CASE r # s
      BY <3>2, <1>3, <2>1, <2>3 DEF PolicyInv, Firm
    <3> QED
      BY <3>1, <3>2
  <2>4. join'.at \in {"member", "put", "touch"} => join'.row[f]
    BY <1>4, <2>1 DEF PolicyInv, Firm
  <2> QED
    BY <1>1, <2>2, <2>3, <2>4
<1>8. Firm'
  BY <1>7 DEF Firm
<1>9. Passed' /\ HasRole'
  BY <1>1, <1>4, <1>5 DEF PolicyInv, Passed, HasRole, Claims
<1> QED
  BY <1>1, <1>6, <1>8, <1>9 DEF Outlasts, Refreshing, PolicyInv, Obeyed

\* A row that is written has what is in force, whoever writes it.
LEMMA PutRowKeeps ==
  ASSUME AccessInv, NEW s \in Srv, PutRow(s)
  PROVE  AccessInv'
<1> USE DEF AccessInv
<1>1. UNCHANGED <<clock, keys, revoked, dead, tokens, join, held, flight, older, slipped, breach>>
  BY DEF PutRow, server, client
<1>2. /\ edit[s] # None /\ edit[s] \in Editing
      /\ policy' = Changed(edit[s].change, edit[s].row) /\ edit' = [edit EXCEPT ![s] = None]
  BY DEF PutRow, Issued
<1>3. \A r \in Srv : edit'[r] = None \/ edit'[r] = edit[r]
  BY <1>2 DEF Issued
<1>4. policy' \in Policy
  <2>1. edit[s].row \in Policy /\ edit[s].change \in Change
    BY <1>2 DEF Editing
  <2>2. \A f \in Flag : edit[s].change.flag = f => edit[s].change.to \in BOOLEAN
    <3>1. CASE edit[s].change \in [flag : Flag, to : BOOLEAN]
      BY <3>1
    <3>2. CASE edit[s].change = Untouched
      BY <3>2 DEF Untouched
    <3> QED
      BY <2>1, <3>1, <3>2 DEF Change
  <2> QED
    BY <1>2, <2>1, <2>2 DEF Changed, Policy
<1>5. Issued'
  BY <1>1, <1>2, <1>3, <1>4 DEF Issued
<1>6. ASSUME join # None, NEW f \in join.firm
      PROVE  policy'[f]
  <2>1. f \in Flag /\ edit[s].row[f] /\ ~Lifts(edit[s].change, f)
    BY <1>2, <1>6 DEF PolicyInv, Firm, Issued, Handling
  <2>2. edit[s].change \in Change /\ policy'[f] = IF edit[s].change.flag = f THEN edit[s].change.to ELSE edit[s].row[f]
    BY <1>2, <2>1 DEF Changed, Editing
  <2>3. CASE edit[s].change.flag = f
    <3>1. edit[s].change \in [flag : Flag, to : BOOLEAN]
      BY <2>1, <2>2, <2>3 DEF Change, Untouched, Flag
    <3>2. edit[s].change.to # FALSE
      BY <3>1, <2>1, <2>3 DEF Lifts
    <3> QED
      BY <3>1, <3>2, <2>2, <2>3
  <2> QED
    BY <2>1, <2>2, <2>3
<1>7. Firm'
  BY <1>1, <1>3, <1>6 DEF PolicyInv, Firm
<1>8. Passed' /\ HasRole'
  BY <1>1 DEF PolicyInv, Passed, HasRole, Claims
<1> QED
  BY <1>1, <1>5, <1>7, <1>8 DEF Outlasts, Refreshing, PolicyInv, Obeyed

LEMMA PresentKeeps ==
  ASSUME AccessInv, NEW s \in Srv, Present(s)
  PROVE  AccessInv'
<1> USE DEF AccessInv
<1>1. UNCHANGED <<clock, keys, revoked, dead, tokens, policy, edit, held, flight, older, breach>>
  BY DEF Present, server, client, rowVars
<1>2. /\ join' \in Handling /\ join'.tok = held /\ join'.at \in {"policy", "refused"}
      /\ join'.firm = {f \in Flag : InForce(f)}
  <2>1. held \in DOMAIN tokens
    BY DEF Issued
  <2>2. held \in 1 .. MaxTokens
    BY <2>1, TokenAt
  <2>3. NoPolicy \in Policy /\ held \in Nat
    BY <2>2, TokenAssumption DEF NoPolicy, Policy
  <2>4. PICK a \in {"policy", "refused"} : join' = Joins(s, a)
    BY DEF Present
  <2> QED
    BY <2>3, <2>4 DEF Joins, Handling
<1>3. ~slipped'
  <2>1. CASE verify(s, held) = "ok"
    BY <2>1, VerifiedIsAlive DEF Present, Issued, Obeyed
  <2> QED
    BY <2>1 DEF Present, Obeyed
<1>4. Issued'
  BY <1>1, <1>2 DEF Issued
<1>5. \A f \in join'.firm : policy[f] /\ \A r \in Srv : edit[r] # None => edit[r].row[f] /\ ~Lifts(edit[r].change, f)
  BY <1>2 DEF InForce, Writing
<1>6. PolicyInv'
  BY <1>1, <1>2, <1>5 DEF PolicyInv, Firm, Passed, HasRole, Past
<1> QED
  BY <1>1, <1>3, <1>4, <1>6 DEF Outlasts, Refreshing, Obeyed

LEMMA CheckPolicyKeeps ==
  ASSUME AccessInv, CheckPolicy
  PROVE  AccessInv'
<1> USE DEF AccessInv
<1>1. UNCHANGED <<clock, keys, revoked, dead, tokens, policy, edit, held, flight, older, slipped, breach>>
  BY DEF CheckPolicy, server, client, rowVars
<1>2. join # None /\ join.at = "policy" /\ join \in Handling /\ join.tok \in DOMAIN tokens
  BY DEF CheckPolicy, At, Issued
<1>3. CASE Excluded
  <2>1. join' = [join EXCEPT !.at = "refused"]
    BY <1>3 DEF CheckPolicy
  <2>2. join' \in Handling /\ join'.tok = join.tok /\ join'.at = "refused" /\ join'.firm = join.firm
    BY <1>2, <2>1 DEF Handling
  <2>3. Issued'
    BY <1>1, <1>2, <2>2 DEF Issued
  <2>4. PolicyInv'
    BY <1>1, <1>2, <2>2 DEF PolicyInv, Firm, Passed, HasRole, Past
  <2> QED
    BY <1>1, <2>3, <2>4 DEF Outlasts, Refreshing, Obeyed
<1>4. CASE ~Excluded
  <2>1. join' = [join EXCEPT !.at = "role", !.lapsed = ~Verifies]
    BY <1>4 DEF CheckPolicy
  <2>2. Verifies \in BOOLEAN
    BY DEF Verifies
  <2>3. /\ join' \in Handling /\ join'.tok = join.tok /\ join'.at = "role"
        /\ join'.firm = join.firm /\ join'.lapsed = ~Verifies
    BY <1>2, <2>1, <2>2 DEF Handling
  <2>4. Issued'
    BY <1>1, <1>2, <2>3 DEF Issued
  <2>5. Verifies => Claims.admin \/ Claims.e2ee \/ ~policy.e2eeRequired
    BY <1>4 DEF Excluded
  <2>6. "e2eeRequired" \in join.firm => policy["e2eeRequired"]
    BY <1>2 DEF PolicyInv, Firm
  <2>7. Claims' = Claims
    BY <1>1, <2>3 DEF Claims
  <2>8. PolicyInv'
    BY <1>1, <1>2, <2>3, <2>5, <2>6, <2>7 DEF PolicyInv, Firm, Passed, HasRole
  <2> QED
    BY <1>1, <2>4, <2>8 DEF Outlasts, Refreshing, Obeyed
<1> QED
  BY <1>3, <1>4

LEMMA CheckRoleKeeps ==
  ASSUME AccessInv, CheckRole
  PROVE  AccessInv'
<1> USE DEF AccessInv
<1>1. UNCHANGED <<clock, keys, revoked, dead, tokens, policy, edit, held, flight, older, slipped, breach>>
  BY DEF CheckRole, server, client, rowVars
<1>2. join # None /\ join.at = "role" /\ join \in Handling /\ join.tok \in DOMAIN tokens
  BY DEF CheckRole, At, Issued
<1>3. join' = [join EXCEPT !.at = "join", !.admin = Verifies /\ Claims.admin]
  BY DEF CheckRole
<1>4. (Verifies /\ Claims.admin) \in BOOLEAN /\ ((Verifies /\ Claims.admin) => Claims.admin)
  OBVIOUS
<1>5. /\ join' \in Handling /\ join'.tok = join.tok /\ join'.at = "join"
      /\ join'.firm = join.firm /\ join'.lapsed = join.lapsed /\ (join'.admin => Claims.admin)
  BY <1>2, <1>3, <1>4 DEF Handling
<1>6. Issued'
  BY <1>1, <1>2, <1>5 DEF Issued
<1>7. Claims' = Claims
  BY <1>1, <1>5 DEF Claims
<1>8. PolicyInv'
  BY <1>1, <1>2, <1>5, <1>7 DEF PolicyInv, Firm, Passed, HasRole, Past
<1> QED
  BY <1>1, <1>6, <1>8 DEF Outlasts, Refreshing, Obeyed

LEMMA JoinReadKeeps ==
  ASSUME AccessInv, JoinRead
  PROVE  AccessInv'
<1> USE DEF AccessInv
<1>1. UNCHANGED <<clock, keys, revoked, dead, tokens, policy, edit, held, flight, older, slipped, breach>>
  BY DEF JoinRead, server, client, rowVars
<1>2. join # None /\ join.at = "join" /\ join \in Handling /\ join.tok \in DOMAIN tokens
  BY DEF JoinRead, At, Issued
<1>3. join' = [join EXCEPT !.at = "member", !.row = policy]
  BY DEF JoinRead
<1>4. /\ join' \in Handling /\ join'.tok = join.tok /\ join'.at = "member" /\ join'.row = policy
      /\ join'.firm = join.firm /\ join'.lapsed = join.lapsed /\ join'.admin = join.admin
  BY <1>2, <1>3 DEF Handling, Issued
<1>5. Issued'
  BY <1>1, <1>2, <1>4 DEF Issued
<1>6. Claims' = Claims
  BY <1>1, <1>4 DEF Claims
<1>7. PolicyInv'
  BY <1>1, <1>2, <1>4, <1>6 DEF PolicyInv, Firm, Passed, HasRole, Past
<1> QED
  BY <1>1, <1>5, <1>7 DEF Outlasts, Refreshing, Obeyed

LEMMA JoinMemberKeeps ==
  ASSUME AccessInv, JoinMember
  PROVE  AccessInv'
<1> USE DEF AccessInv
<1>1. UNCHANGED <<clock, keys, revoked, dead, tokens, policy, edit, held, flight, older, slipped, breach>>
  BY DEF JoinMember, server, client, rowVars
<1>2. join # None /\ join.at = "member" /\ join \in Handling /\ join.tok \in DOMAIN tokens
  BY DEF JoinMember, At, Issued
<1>3. CASE join' = None
  BY <1>1, <1>3 DEF Issued, Outlasts, Refreshing, PolicyInv, Firm, Passed, HasRole, Obeyed
<1>4. CASE ~KeptOut /\ join' = [join EXCEPT !.at = "put"]
  <2>1. /\ join' \in Handling /\ join'.tok = join.tok /\ join'.at = "put" /\ join'.row = join.row
        /\ join'.firm = join.firm /\ join'.lapsed = join.lapsed /\ join'.admin = join.admin
    BY <1>2, <1>4 DEF Handling
  <2>2. Issued'
    BY <1>1, <1>2, <2>1 DEF Issued
  <2>3. Claims' = Claims
    BY <1>1, <2>1 DEF Claims
  <2>4. "locked" \in join.firm => join.admin
    <3>1. "locked" \in join.firm => join.row["locked"]
      BY <1>2 DEF PolicyInv, Firm
    <3> QED
      BY <3>1, <1>4 DEF KeptOut
  <2>5. PolicyInv'
    BY <1>1, <1>2, <2>1, <2>3, <2>4 DEF PolicyInv, Firm, Passed, HasRole, Past
  <2> QED
    BY <1>1, <2>2, <2>5 DEF Outlasts, Refreshing, Obeyed
<1> QED
  BY <1>3, <1>4 DEF JoinMember

LEMMA JoinPutKeeps ==
  ASSUME AccessInv, JoinPut
  PROVE  AccessInv'
<1> USE DEF AccessInv
<1>1. UNCHANGED <<clock, keys, revoked, dead, tokens, policy, edit, held, flight, older, slipped>>
  BY DEF JoinPut, server, client, rowVars
<1>2. join # None /\ join.at = "put" /\ join \in Handling /\ join.tok \in DOMAIN tokens
  BY DEF JoinPut, At, Issued
<1>3. join' = [join EXCEPT !.at = "touch"]
  BY DEF JoinPut
<1>4. /\ join' \in Handling /\ join'.tok = join.tok /\ join'.at = "touch" /\ join'.row = join.row
      /\ join'.firm = join.firm /\ join'.lapsed = join.lapsed /\ join'.admin = join.admin
  BY <1>2, <1>3 DEF Handling
<1>5. Issued'
  BY <1>1, <1>2, <1>4 DEF Issued
<1>6. Claims' = Claims
  BY <1>1, <1>4 DEF Claims
<1>7. PolicyInv'
  BY <1>1, <1>2, <1>4, <1>6 DEF PolicyInv, Firm, Passed, HasRole, Past
<1>8. ~breach'
  <2>1. "locked" \in join.firm => Claims.admin
    BY <1>2 DEF PolicyInv, HasRole
  <2>2. "e2eeRequired" \in join.firm => join.lapsed \/ Claims.admin \/ Claims.e2ee
    BY <1>2 DEF PolicyInv, Passed, Past
  <2> QED
    BY <2>1, <2>2 DEF JoinPut, Obeyed
<1> QED
  BY <1>1, <1>5, <1>7, <1>8 DEF Outlasts, Refreshing, Obeyed

LEMMA JoinTouchKeeps ==
  ASSUME AccessInv, JoinTouch
  PROVE  AccessInv'
<1> USE DEF AccessInv
<1>1. UNCHANGED <<clock, keys, revoked, dead, tokens, edit, held, flight, older, slipped, breach>>
  BY DEF JoinTouch, server, client
<1>2. join' = None /\ policy' \in Policy
  BY DEF JoinTouch, At, Issued, Handling
<1> QED
  BY <1>1, <1>2 DEF Issued, Outlasts, Refreshing, PolicyInv, Firm, Passed, HasRole, Obeyed

-----------------------------------------------------------------------------
(* The client *)

LEMMA AuthErrorKeeps ==
  ASSUME AccessInv, handleAuthError
  PROVE  AccessInv'
<1> USE TokenAssumption
<1>1. UNCHANGED <<clock, keys, revoked, dead, policy, edit, held, older, slipped, breach>> /\ join' = None
  BY DEF handleAuthError, server, rowVars
<1>2. CASE flight # {}
  <2>1. UNCHANGED <<tokens, flight>>
    BY <1>2 DEF handleAuthError, StartRefresh
  <2>2. Refreshing' /\ tokens' \in Seq(Token) /\ Len(tokens') \in 1 .. MaxTokens
        /\ flight' \subseteq [tok : DOMAIN tokens', crossed : BOOLEAN]
    BY <1>1, <2>1 DEF AccessInv, Issued, Refreshing
  <2> QED
    BY <1>1, <2>1, <2>2, TokensGrow
<1>3. CASE flight = {}
  <2>1. flight' = {Flight} /\ flight' # flight
    BY <1>3 DEF handleAuthError, StartRefresh
  <2>2. PICK s \in Srv : Issue(s, clock + Default, FALSE, FALSE)
    BY <2>1 DEF handleAuthError
  <2>3. clock + Default \in Nat
    BY DEF AccessInv, Issued
  <2>4. /\ tokens' \in Seq(Token) /\ Len(tokens') \in 1 .. MaxTokens
        /\ Len(tokens') = Len(tokens) + 1
        /\ \A i \in DOMAIN tokens : i \in DOMAIN tokens' /\ tokens'[i] = tokens[i]
    BY <2>2, <2>3, IssueAppends DEF AccessInv
  <2>5. Flight.tok \in DOMAIN tokens' /\ Flight.tok > held /\ Flight \in [tok : DOMAIN tokens', crossed : BOOLEAN]
    BY <2>4 DEF AccessInv, Issued, Flight
  <2>6. flight' \subseteq [tok : DOMAIN tokens', crossed : BOOLEAN] /\ Refreshing'
    BY <1>1, <2>1, <2>5 DEF Refreshing
  <2> QED
    BY <1>1, <2>4, <2>6, TokensGrow
<1> QED
  BY <1>2, <1>3

LEMMA RefreshedKeeps ==
  ASSUME AccessInv, Refreshed
  PROVE  AccessInv'
<1> USE DEF AccessInv
<1>1. UNCHANGED <<clock, keys, revoked, dead, tokens, join, policy, edit, slipped, breach>>
  BY DEF Refreshed, server, rowVars
<1>2. PICK f \in flight :
       /\ flight' = flight \ {f}
       /\ \/ held' = f.tok /\ older' = (older \/ (f.tok < held /\ ~f.crossed))
          \/ UNCHANGED <<held, older>>
  BY DEF Refreshed
<1>3. flight' = {} /\ (f.crossed \/ f.tok > held) /\ f.tok \in DOMAIN tokens
  BY <1>2 DEF Refreshing, Issued
<1>4. held' \in DOMAIN tokens /\ ~older'
  <2>1. held \in DOMAIN tokens
    BY DEF Issued
  <2>2. held \in 1 .. MaxTokens /\ f.tok \in 1 .. MaxTokens
    BY <1>3, <2>1, TokenAt
  <2>3. held \in Int /\ f.tok \in Int
    BY <2>2, TokenAssumption
  <2>4. f.tok > held => ~(f.tok < held)
    BY <2>3
  <2>5. ~older
    BY DEF Obeyed
  <2>6. CASE held' = f.tok /\ older' = (older \/ (f.tok < held /\ ~f.crossed))
    BY <1>3, <2>4, <2>5, <2>6
  <2>7. CASE UNCHANGED <<held, older>>
    BY <2>1, <2>5, <2>7
  <2> QED
    BY <1>2, <2>6, <2>7
<1>5. Issued'
  BY <1>1, <1>3, <1>4 DEF Issued
<1> QED
  BY <1>1, <1>3, <1>4, <1>5, PolicyFrame DEF Outlasts, Refreshing, Obeyed

LEMMA SetTokenKeeps ==
  ASSUME AccessInv, NEW i \in DOMAIN tokens, setAuthToken(i)
  PROVE  AccessInv'
<1> USE DEF AccessInv
<1>1. UNCHANGED <<clock, keys, revoked, dead, tokens, join, policy, edit, older, slipped, breach>>
  BY DEF setAuthToken, server, rowVars
<1>2. held' = i /\ flight' = {[f EXCEPT !.crossed = TRUE] : f \in flight}
  BY DEF setAuthToken
<1>3. ASSUME NEW g \in flight'
      PROVE  g \in [tok : DOMAIN tokens, crossed : BOOLEAN] /\ g.crossed /\ flight' = {g}
  <2>1. PICK f \in flight : g = [f EXCEPT !.crossed = TRUE]
    BY <1>2
  <2>2. f \in [tok : DOMAIN tokens, crossed : BOOLEAN] /\ flight = {f}
    BY DEF Issued, Refreshing
  <2> QED
    BY <1>2, <2>1, <2>2
<1>4. Issued'
  BY <1>1, <1>2, <1>3 DEF Issued
<1>5. Refreshing'
  BY <1>3 DEF Refreshing
<1> QED
  BY <1>1, <1>4, <1>5, PolicyFrame DEF Outlasts, Obeyed

LEMMA AccessStep ==
  ASSUME AccessInv, [Next]_vars
  PROVE  AccessInv'
<1>1. CASE Tick
  <2>1. clock' = clock + 1
        /\ UNCHANGED <<keys, revoked, dead, tokens, policy, edit, join, held, flight, older, slipped, breach>>
    BY <1>1 DEF Tick, server, client, rowVars
  <2> QED
    BY <2>1, PolicyFrame DEF AccessInv, Issued, Outlasts, Refreshing, Obeyed
<1>2. CASE UNCHANGED vars
  BY <1>2, PolicyFrame DEF vars, AccessInv, Issued, Outlasts, Refreshing, Obeyed
<1>3. CASE \E s \in Srv : \/ Asked(s) \/ Present(s)
                          \/ \E i \in DOMAIN tokens, given \in BOOLEAN : Revoke(s, i, given)
                          \/ \E k \in 1 .. MaxTokens, keep \in BOOLEAN : Deploy(s, k, keep)
                          \/ \E change \in Change : ReadRow(s, change)
                          \/ PutRow(s)
  BY <1>3, AskedKeeps, PresentKeeps, RevokeKeeps, DeployKeeps, ReadRowKeeps, PutRowKeeps
<1>4. CASE CheckPolicy \/ CheckRole \/ JoinRead \/ JoinMember \/ JoinPut \/ JoinTouch
  BY <1>4, CheckPolicyKeeps, CheckRoleKeeps, JoinReadKeeps, JoinMemberKeeps, JoinPutKeeps, JoinTouchKeeps
<1>5. CASE handleAuthError \/ Refreshed \/ \E i \in DOMAIN tokens : setAuthToken(i)
  BY <1>5, AuthErrorKeeps, RefreshedKeeps, SetTokenKeeps
<1> QED
  BY <1>1, <1>2, <1>3, <1>4, <1>5 DEF Next

\* auth.ts, ws.ts, core.ts and room.ts together: no revocation is outlived; no policy in force
\* is got round, however a join's reads of the room cross the calls that write its row back;
\* and no refresh brings an older token back, unless setAuthToken crossed it: for any number
\* of servers, tokens and ticks.
THEOREM TokensObeyed == Spec => []AccessHolds
<1>1. AccessInv => AccessHolds
  BY DEF AccessInv, Obeyed, AccessHolds, RevocationHolds, PolicyHolds, RefreshInOrder
<1> QED
  BY <1>1, AccessInit, AccessStep, PTL DEF Spec

-----------------------------------------------------------------------------
(* The router of the gateway *)

\* What a handler in flight is: the phases of SfuRouter and MediasoupAdapter, each with what
\* it read before its await.  A track is not looked up twice by one subscribe.
TaskOk(k) ==
  \/ k = Idle
  \/ /\ k.at \in {"join", "register", "forget"} /\ k.p \in P
  \/ /\ k.at = "member" /\ k.p \in P /\ k.kind \in {"publish", "leave", "subscribe"} /\ k.to \subseteq P
  \/ /\ k.at = "next" /\ k.s \in DOMAIN owner /\ k.todo \subseteq P
  \/ /\ k.at = "consume" /\ k.s \in DOMAIN owner /\ k.todo \subseteq P /\ k.q \in P \ k.todo
     /\ k.from \in DOMAIN owner /\ owner[k.from] = k.q /\ k.live \in BOOLEAN
  \/ /\ k.at = "connect" /\ k.p \in P /\ k.s \in DOMAIN owner /\ owner[k.s] = k.p
  \/ /\ k.at = "produce" /\ k.p \in P /\ k.s \in DOMAIN owner /\ owner[k.s] = k.p
     /\ k.live \in BOOLEAN

\* Sessions are numbered from 1; the ones still to be created fit the bound.
Numbered ==
  /\ Cardinality(DOMAIN owner) \in Nat /\ owner \in [1 .. Cardinality(DOMAIN owner) -> P]
  /\ Cardinality(DOMAIN owner) + Cardinality(Busy({"join"})) <= MaxSession

\* A session a map names for a participant was created for it.
Of(s, p) == s \in DOMAIN owner /\ owner[s] = p

Kept ==
  /\ inRoom \subseteq P /\ tracks \subseteq P
  /\ gw \in [P -> Nat] /\ rt \in [P -> Nat] /\ reg \in [P -> Nat]
  /\ open \subseteq DOMAIN owner
  /\ cons \in [Sessions -> [P -> Nat]] /\ owed \in [Sessions -> [P -> Nat]]
  /\ DOMAIN task = Slot /\ \A t \in Slot : TaskOk(task[t])
  /\ \A p \in P : /\ gw[p] # 0 => Of(gw[p], p) /\ gw[p] \in open
                  /\ rt[p] # 0 => Of(rt[p], p)
                  /\ reg[p] # 0 => Of(reg[p], p)
  /\ \A s \in Sessions, q \in P : owed[s][q] # 0 => s \in DOMAIN owner /\ Of(owed[s][q], q)

\* A join, or a leave, of p is what the handler is at.
Moves(k, p) ==
  /\ k.at \in {"join", "member", "forget"} /\ k.p = p
  /\ k.at = "member" => k.kind = "leave"

\* Joins and leaves of p never overlapped: it has one session at most, and both maps name it.
Settled(p) ==
  /\ gw[p] # 0 => rt[p] = gw[p]
  /\ \A s \in open : owner[s] = p => gw[p] = s
  /\ \A t, u \in Slot : Moves(task[t], p) /\ Moves(task[u], p) => t = u
  /\ \A t \in Slot : task[t].at \in {"join", "forget"} /\ task[t].p = p => gw[p] = 0

\* Nor did p leave while its track was on the way: what is found under its name lives.
Found(p) ==
  /\ reg[p] # 0 => reg[p] = gw[p]
  /\ p \in tracks => rt[p] # 0
  /\ \A t \in Slot : /\ task[t].at = "produce" /\ task[t].p = p /\ task[t].live => task[t].s \in open
                     /\ task[t].at = "register" /\ task[t].p = p => rt[p] # 0

\* The handler k is at, or will get to, the producer x of q that session s is owed.
Serves(k, s, q, x) ==
  \/ k.at = "consume" /\ k.s = s /\ k.q = q /\ (k.live => k.from = x)
  \/ k.at \in {"next", "consume"} /\ k.s = s /\ q \in k.todo /\ reg[q] # 0 /\ cons[s][q] = 0

\* Only one subscribe of a session that is owed something is under way.
Alone ==
  \A s \in Sessions, q \in P : owed[s][q] # 0 =>
    \A t, u \in Slot :
      task[t].at \in {"next", "consume"} /\ task[t].s = s
      /\ task[u].at \in {"next", "consume"} /\ task[u].s = s => t = u

\* What it asks for meanwhile is what it did not hold.
Asking ==
  \A t \in Slot :
    task[t].at = "consume" /\ owed[task[t].s][task[t].q] # 0 => cons[task[t].s][task[t].q] = 0

Paid ==
  \A s \in open, q \in P \ crossed :
    owed[s][q] \in open => \/ cons[s][q] = owed[s][q]
                           \/ \E t \in Slot : Serves(task[t], s, q, owed[s][q])

GatewayInv ==
  /\ Numbered /\ Kept /\ Alone /\ Asking /\ Paid
  /\ \A p \in P \ crossed : Settled(p)
  /\ \A p \in P \ (crossed \cup late) : Found(p)

\* The participants are counted by the sessions they start with.
LEMMA EarlySessions ==
  ASSUME NEW k \in 0 .. Cardinality(P), NEW who \in [1 .. k -> P],
         Cardinality({who[s] : s \in 1 .. k}) = k
  PROVE  \A s, r \in 1 .. k : who[s] = who[r] => s = r
<1> USE RoutingAssumption
<1> DEFINE early == {who[s] : s \in 1 .. k}
<1>1. k \in Nat /\ IsFiniteSet(1 .. k) /\ Cardinality(1 .. k) = k
  <2>1. Cardinality(P) \in Nat
    BY FS_CardinalityType
  <2>2. k \in Nat
    BY <2>1
  <2> QED
    BY <2>2, FS_Interval
<1>2. early \subseteq P /\ IsFiniteSet(early)
  BY FS_Subset
<1>3. who \in Surjection(1 .. k, early)
  BY DEF Surjection
<1>4. who \in Injection(1 .. k, early)
  BY <1>1, <1>2, <1>3, FS_SurjSameCardinalityImpliesInj
<1> QED
  BY <1>4 DEF Injection, IsInjective

LEMMA RoutingInitial == RoutingInit => GatewayInv
<1> USE RoutingAssumption
<1> SUFFICES ASSUME RoutingInit PROVE GatewayInv
  OBVIOUS
<1>0. PICK k \in 0 .. Cardinality(P) : \E who \in [1 .. k -> P] :
        LET early == {who[s] : s \in 1 .. k}
            Session == [p \in P |-> IF p \in early THEN CHOOSE s \in 1 .. k : who[s] = p ELSE 0]
        IN /\ Cardinality(early) = k
           /\ owner = who
           /\ open = 1 .. k /\ conn = 1 .. k /\ made = 1 .. k /\ pending = {}
           /\ gw = Session /\ rt = Session /\ reg = Session
           /\ tracks = early
           /\ inRoom = P
           /\ cons = [s \in Sessions |-> Nothing]
           /\ owed = [s \in Sessions |-> Nothing]
           /\ task = [t \in Slot |-> Idle]
           /\ crossed = {} /\ late = {} /\ requests = 0
  BY DEF RoutingInit
<1> DEFINE early(who) == {who[s] : s \in 1 .. k}
           Session(who) == [p \in P |-> IF p \in early(who)
                                        THEN CHOOSE s \in 1 .. k : who[s] = p ELSE 0]
<1>1. PICK who \in [1 .. k -> P] :
           /\ Cardinality(early(who)) = k /\ owner = who /\ open = 1 .. k
           /\ gw = Session(who) /\ rt = Session(who) /\ reg = Session(who)
           /\ tracks = early(who) /\ inRoom = P
           /\ cons = [s \in Sessions |-> Nothing] /\ owed = [s \in Sessions |-> Nothing]
           /\ task = [t \in Slot |-> Idle]
  BY <1>0
<1>2. Cardinality(P) \in Nat
  BY FS_CardinalityType
<1>3. k \in Nat /\ Cardinality(1 .. k) = k /\ k <= MaxSession
  <2>1. k \in Nat /\ k <= MaxSession
    BY <1>2
  <2> QED
    BY <2>1, FS_Interval
<1>4. ASSUME NEW p \in P
      PROVE  /\ p \in early(who) => Session(who)[p] \in 1 .. k /\ who[Session(who)[p]] = p
             /\ p \notin early(who) => Session(who)[p] = 0
  <2>1. ASSUME p \in early(who)
        PROVE  Session(who)[p] \in 1 .. k /\ who[Session(who)[p]] = p
    <3>1. \E s \in 1 .. k : who[s] = p
      BY <2>1
    <3>2. Session(who)[p] = CHOOSE s \in 1 .. k : who[s] = p
      BY <2>1
    <3> QED
      BY <3>1, <3>2
  <2> QED
    BY <2>1
<1>5. \A s, r \in 1 .. k : who[s] = who[r] => s = r
  BY <1>1, EarlySessions
<1>6. \A t \in Slot : task[t] = Idle /\ task[t].at = "idle"
  BY <1>1 DEF Idle
<1>7. Numbered
  <2>1. Busy({"join"}) = {}
    BY <1>6 DEF Busy
  <2>2. owner \in [1 .. k -> P] /\ DOMAIN owner = 1 .. k
    BY <1>1
  <2>3. Cardinality(DOMAIN owner) = k /\ Cardinality(Busy({"join"})) = 0
    BY <1>3, <2>1, <2>2, FS_EmptySet
  <2>4. k \in Nat /\ k + 0 <= MaxSession
    BY <1>3
  <2> QED
    BY <2>2, <2>3, <2>4 DEF Numbered
<1>8. owner = who /\ gw = Session(who) /\ rt = Session(who) /\ reg = Session(who) /\ tracks = early(who) /\ open = 1 .. k
  BY <1>1
<1>9. Kept
  <2>1. Session(who) \in [P -> Nat]
    BY <1>3, <1>4
  <2>2. \A p \in P : Session(who)[p] # 0 => Of(Session(who)[p], p) /\ Session(who)[p] \in open
    BY <1>4, <1>8 DEF Of
  <2>3. \A t \in Slot : TaskOk(task[t])
    BY <1>6 DEF TaskOk
  <2>4. /\ cons \in [Sessions -> [P -> Nat]] /\ owed \in [Sessions -> [P -> Nat]]
        /\ \A s \in Sessions, q \in P : owed[s][q] = 0
    BY <1>1 DEF Nothing
  <2>5. DOMAIN task = Slot /\ inRoom \subseteq P /\ tracks \subseteq P /\ open \subseteq DOMAIN owner
    BY <1>1
  <2> QED
    BY <1>8, <2>1, <2>2, <2>3, <2>4, <2>5 DEF Kept
<1>10. Alone /\ Asking /\ Paid
  <2>1. \A s \in Sessions, q \in P : owed[s][q] = 0
    BY <1>1 DEF Nothing
  <2>2. open \subseteq Sessions /\ 0 \notin open
    BY <1>3, <1>8 DEF Sessions
  <2> QED
    BY <1>6, <2>1, <2>2 DEF Alone, Asking, Paid
<1>11. \A p \in P : Settled(p)
  BY <1>4, <1>5, <1>6, <1>8 DEF Settled, Moves
<1>12. \A p \in P : Found(p)
  BY <1>4, <1>6, <1>8, <1>3 DEF Found
<1> QED
  BY <1>7, <1>9, <1>10, <1>11, <1>12 DEF GatewayInv


\* No join begins: the sessions still to come are as many, or fewer.
LEMMA NumberedStays ==
  ASSUME Numbered, UNCHANGED owner, Busy({"join"})' \subseteq Busy({"join"})
  PROVE  Numbered'
<1> USE RoutingAssumption
<1> DEFINE B == Busy({"join"})
<1>1. IsFiniteSet(B)
  BY FS_Subset DEF Busy
<1>2. IsFiniteSet(B') /\ Cardinality(B') <= Cardinality(B)
  BY <1>1, FS_Subset
<1>3. Cardinality(B) \in Nat /\ Cardinality(B') \in Nat
  BY <1>1, <1>2, FS_CardinalityType
<1>4. Cardinality(DOMAIN owner) + Cardinality(B) <= MaxSession /\ Cardinality(DOMAIN owner) \in Nat
      /\ owner \in [1 .. Cardinality(DOMAIN owner) -> P]
  BY DEF Numbered
<1> HIDE DEF B
<1>5. Cardinality(DOMAIN owner) + Cardinality(B') <= MaxSession
  BY <1>2, <1>3, <1>4
<1> QED
  BY <1>4, <1>5 DEF Numbered, B

\* A handler that moves on and is not joining begins no join.
LEMMA NoJoinBegins ==
  ASSUME GatewayInv, NEW t \in Slot, NEW k, k.at # "join", task' = [task EXCEPT ![t] = k],
         UNCHANGED owner
  PROVE  Numbered'
<1>1. Busy({"join"})' \subseteq Busy({"join"})
  BY DEF Busy, GatewayInv, Kept
<1> QED
  BY <1>1, NumberedStays DEF GatewayInv

\* The sessions there are fit the bound.
LEMMA SessionsFit ==
  ASSUME Numbered
  PROVE  DOMAIN owner \subseteq Sessions /\ 0 \notin DOMAIN owner
         /\ \A s \in DOMAIN owner : owner[s] \in P
<1> USE RoutingAssumption
<1>1. IsFiniteSet(Busy({"join"})) /\ Cardinality(Busy({"join"})) \in Nat
  <2>1. IsFiniteSet(Busy({"join"}))
    BY FS_Subset DEF Busy
  <2> QED
    BY <2>1, FS_CardinalityType
<1>2. owner \in [1 .. Cardinality(DOMAIN owner) -> P] /\ Cardinality(DOMAIN owner) \in Nat
  BY DEF Numbered
<1>3. Cardinality(DOMAIN owner) <= MaxSession
  BY <1>1, <1>2 DEF Numbered
<1>4. DOMAIN owner = 1 .. Cardinality(DOMAIN owner)
  BY <1>2
<1> QED
  BY <1>2, <1>3, <1>4 DEF Sessions

\* What is held and owed of a session stays what the maps say, when one handler goes from
\* one phase to the next and the sessions stay as they are.
LEMMA HandlerStep ==
  ASSUME GatewayInv, NEW t \in Slot, NEW k, TaskOk(k), task' = [task EXCEPT ![t] = k], Numbered',
         UNCHANGED <<gw, rt, reg, owner, open, cons, owed>>,
         inRoom' \subseteq P, tracks' \subseteq P,
         crossed \subseteq crossed', late \subseteq late',
         \A p \in P : Moves(k, p) =>
           p \in crossed' \/ Moves(task[t], p) \/ \A u \in Slot : ~Moves(task[u], p),
         k.at \in {"join", "forget"} => gw[k.p] = 0,
         k.at = "produce" /\ k.live /\ k.p \notin crossed' \cup late' => k.s \in open,
         k.at = "register" /\ k.p \notin crossed' \cup late' => rt[k.p] # 0,
         \A p \in tracks' \ tracks : p \in crossed' \cup late' \/ rt[p] # 0,
         k.at \in {"next", "consume"} => task[t].at \in {"next", "consume"} /\ task[t].s = k.s,
         k.at = "consume" => cons[k.s][k.q] = 0,
         \A s \in open, q \in P \ crossed : owed[s][q] \in open /\ Serves(task[t], s, q, owed[s][q]) =>
           cons[s][q] = owed[s][q] \/ Serves(k, s, q, owed[s][q])
  PROVE  GatewayInv'
<1>1. DOMAIN task' = Slot /\ \A u \in Slot : task'[u] = IF u = t THEN k ELSE task[u]
  BY DEF GatewayInv, Kept
<1>2. Kept'
  BY <1>1 DEF GatewayInv, Kept, TaskOk, Of
<1>3. \A p \in P \ crossed' : Settled(p)'
  <2> SUFFICES ASSUME NEW p \in P \ crossed' PROVE Settled(p)'
    OBVIOUS
  <2>1. Settled(p)
    BY DEF GatewayInv
  <2>2. \A u, v \in Slot : Moves(task'[u], p) /\ Moves(task'[v], p) => u = v
    BY <1>1, <2>1 DEF Settled
  <2>3. \A u \in Slot : task'[u].at \in {"join", "forget"} /\ task'[u].p = p => gw[p] = 0
    BY <1>1, <2>1 DEF Settled
  <2> QED
    BY <2>1, <2>2, <2>3 DEF Settled, Moves
<1>4. \A p \in P \ (crossed' \cup late') : Found(p)'
  <2> SUFFICES ASSUME NEW p \in P \ (crossed' \cup late') PROVE Found(p)'
    OBVIOUS
  <2>1. Found(p)
    BY DEF GatewayInv
  <2> QED
    BY <1>1, <2>1 DEF Found
<1>5. Alone'
  BY <1>1 DEF GatewayInv, Alone
<1>7. Asking'
  BY <1>1 DEF GatewayInv, Asking
<1>6. Paid'
  <2> SUFFICES ASSUME NEW s \in open, NEW q \in P \ crossed', owed[s][q] \in open
               PROVE  cons[s][q] = owed[s][q]
                      \/ (\E u \in Slot : Serves(task[u], s, q, owed[s][q]))'
    BY DEF Paid
  <2>1. cons[s][q] = owed[s][q] \/ \E u \in Slot : Serves(task[u], s, q, owed[s][q])
    BY DEF GatewayInv, Paid
  <2>2. CASE cons[s][q] = owed[s][q]
    BY <2>2
  <2>3. CASE \E u \in Slot : Serves(task[u], s, q, owed[s][q])
    <3>1. PICK u \in Slot : Serves(task[u], s, q, owed[s][q])
      BY <2>3
    <3>2. cons[s][q] = owed[s][q] \/ Serves(task'[u], s, q, owed[s][q])
      BY <1>1, <3>1
    <3>3. Serves(task'[u], s, q, owed[s][q]) => Serves(task[u], s, q, owed[s][q])'
      BY DEF Serves
    <3> QED
      BY <3>2, <3>3
  <2> QED
    BY <2>1, <2>2, <2>3
<1> QED
  BY <1>2, <1>3, <1>4, <1>5, <1>6, <1>7 DEF GatewayInv


LEMMA JoinStep ==
  ASSUME GatewayInv, NEW t \in Slot, NEW p \in P, Join(t, p)
  PROVE  GatewayInv'
<1> USE RoutingAssumption
<1> DEFINE k == [at |-> "join", p |-> p]
<1>1. /\ task[t] = Idle /\ task[t].at = "idle" /\ task' = [task EXCEPT ![t] = k] /\ gw[p] = 0
      /\ UNCHANGED <<inRoom, gw, rt, owner, open, reg, tracks, cons, owed, late>>
      /\ Cardinality(DOMAIN owner) + Cardinality(Busy({"join"})) < MaxSession
      /\ crossed' = IF Moving(p) THEN crossed \cup {p} ELSE crossed
  BY DEF Join, Begun, Crossing, Idle
<1>2. TaskOk(k)
  BY DEF TaskOk
<1>3. DOMAIN task = Slot
  BY DEF GatewayInv, Kept
<1>4. Numbered'
  <2>1. Busy({"join"})' = Busy({"join"}) \cup {t} /\ t \notin Busy({"join"})
    BY <1>1, <1>3 DEF Busy
  <2>2. IsFiniteSet(Busy({"join"})) /\ Cardinality(Busy({"join"})) \in Nat
    <3>1. IsFiniteSet(Busy({"join"}))
      BY FS_Subset DEF Busy
    <3> QED
      BY <3>1, FS_CardinalityType
  <2>3. Cardinality(Busy({"join"})') = Cardinality(Busy({"join"})) + 1
    BY <2>1, <2>2, FS_AddElement
  <2>4. Cardinality(DOMAIN owner) \in Nat /\ owner \in [1 .. Cardinality(DOMAIN owner) -> P]
    BY DEF GatewayInv, Numbered
  <2>5. Cardinality(DOMAIN owner) + Cardinality(Busy({"join"})') <= MaxSession
    BY <1>1, <2>2, <2>3, <2>4
  <2> QED
    BY <1>1, <2>4, <2>5 DEF Numbered
<1>5. \A r \in P : Moves(k, r) => r \in crossed' \/ \A u \in Slot : ~Moves(task[u], r)
  BY <1>1 DEF Moves, Moving, Busy
<1> HIDE DEF k
<1>6. k.at = "join" /\ k.p = p
  BY DEF k
<1>7. \A s, q, x : ~Serves(task[t], s, q, x)
  BY <1>1 DEF Serves
<1> QED
  BY <1>1, <1>2, <1>4, <1>5, <1>6, <1>7, HandlerStep DEF GatewayInv, Kept

LEMMA HandleStep ==
  ASSUME GatewayInv, NEW t \in Slot, NEW p \in P, NEW kind \in {"publish", "leave", "subscribe"},
         NEW to \in SUBSET P, Handle(t, p, kind, to)
  PROVE  GatewayInv'
<1> DEFINE k == [at |-> "member", p |-> p, kind |-> kind, to |-> to]
<1>1. /\ task[t] = Idle /\ task[t].at = "idle" /\ task' = [task EXCEPT ![t] = k]
      /\ UNCHANGED <<inRoom, gw, rt, owner, open, reg, tracks, cons, owed, late>>
      /\ crossed \subseteq crossed'
      /\ kind = "leave" => crossed' = IF Moving(p) THEN crossed \cup {p} ELSE crossed
  BY DEF Handle, Begun, Crossing, Idle
<1>2. TaskOk(k)
  BY DEF TaskOk
<1>3. \A r \in P : Moves(k, r) => r \in crossed' \/ \A u \in Slot : ~Moves(task[u], r)
  BY <1>1 DEF Moves, Moving, Busy
<1> HIDE DEF k
<1>4. k.at = "member"
  BY DEF k
<1>5. Numbered'
  BY <1>1, <1>4, NoJoinBegins
<1>6. \A s, q, x : ~Serves(task[t], s, q, x)
  BY <1>1 DEF Serves
<1> QED
  BY <1>1, <1>2, <1>3, <1>4, <1>5, <1>6, HandlerStep DEF GatewayInv, Kept

LEMMA RefusedStep ==
  ASSUME GatewayInv, NEW t \in Slot, Refused(t)
  PROVE  GatewayInv'
<1>1. /\ task[t].at = "member" /\ task' = [task EXCEPT ![t] = Idle]
      /\ UNCHANGED <<inRoom, gw, rt, owner, open, reg, tracks, cons, owed, crossed, late>>
  BY DEF Refused, End
<1>2. Idle.at = "idle" /\ TaskOk(Idle) /\ \A r : ~Moves(Idle, r)
  BY DEF Idle, TaskOk, Moves
<1>3. Numbered'
  BY <1>1, <1>2, NoJoinBegins
<1>4. \A s, q, x : ~Serves(task[t], s, q, x)
  BY <1>1 DEF Serves
<1> QED
  BY <1>1, <1>2, <1>3, <1>4, HandlerStep DEF GatewayInv, Kept

LEMMA PublishStep ==
  ASSUME GatewayInv, NEW t \in Slot, Publish(t)
  PROVE  GatewayInv'
<1> DEFINE k == [at |-> "register", p |-> task[t].p]
<1>1. /\ task[t].at = "member" /\ task' = [task EXCEPT ![t] = k] /\ rt[task[t].p] # 0
      /\ UNCHANGED <<inRoom, gw, rt, owner, open, reg, tracks, cons, owed, crossed, late>>
  BY DEF Publish, Allowed
<1>2. task[t].p \in P
  BY <1>1 DEF GatewayInv, Kept, TaskOk, Idle
<1>3. TaskOk(k) /\ \A r : ~Moves(k, r)
  BY <1>2 DEF TaskOk, Moves
<1> HIDE DEF k
<1>4. k.at = "register" /\ k.p = task[t].p
  BY DEF k
<1>5. Numbered'
  BY <1>1, <1>4, NoJoinBegins
<1>6. \A s, q, x : ~Serves(task[t], s, q, x)
  BY <1>1 DEF Serves
<1> QED
  BY <1>1, <1>3, <1>4, <1>5, <1>6, HandlerStep DEF GatewayInv, Kept

LEMMA PublishedStep ==
  ASSUME GatewayInv, NEW t \in Slot, Published(t)
  PROVE  GatewayInv'
<1>1. /\ task[t].at = "register" /\ task' = [task EXCEPT ![t] = Idle]
      /\ tracks' = tracks \cup {task[t].p}
      /\ UNCHANGED <<inRoom, gw, rt, owner, open, reg, cons, owed, crossed, late>>
  BY DEF Published, End
<1>2. Idle.at = "idle" /\ TaskOk(Idle) /\ \A r : ~Moves(Idle, r)
  BY DEF Idle, TaskOk, Moves
<1>3. Numbered'
  BY <1>1, <1>2, NoJoinBegins
<1>4. \A s, q, x : ~Serves(task[t], s, q, x)
  BY <1>1 DEF Serves
<1>5. task[t].p \in P
  BY <1>1 DEF GatewayInv, Kept, TaskOk, Idle
<1>6. task[t].p \in crossed' \cup late' \/ rt[task[t].p] # 0
  BY <1>1, <1>5 DEF GatewayInv, Found
<1> QED
  BY <1>1, <1>2, <1>3, <1>4, <1>5, <1>6, HandlerStep DEF GatewayInv, Kept


LEMMA OfferStep ==
  ASSUME GatewayInv, NEW t \in Slot, NEW p \in P, Offer(t, p)
  PROVE  GatewayInv'
<1> DEFINE connect == [at |-> "connect", p |-> p, s |-> rt[p]]
           produce == Begin(t, p, rt[p])
<1>1. /\ task[t] = Idle /\ task[t].at = "idle" /\ rt[p] # 0
      /\ UNCHANGED <<inRoom, gw, rt, owner, open, reg, tracks, cons, owed, crossed, late>>
      /\ \/ task' = [task EXCEPT ![t] = connect]
         \/ task' = [task EXCEPT ![t] = produce]
  BY DEF Offer, Begun, Idle
<1>2. Of(rt[p], p)
  BY <1>1 DEF GatewayInv, Kept
<1>3. TaskOk(connect) /\ TaskOk(produce) /\ \A r : ~Moves(connect, r) /\ ~Moves(produce, r)
  BY <1>2 DEF TaskOk, Begin, Of, Moves
<1>4. connect.at = "connect" /\ produce.at = "produce" /\ (produce.live => produce.s \in open)
  BY DEF Begin
<1>5. \A s, q, x : ~Serves(task[t], s, q, x)
  BY <1>1 DEF Serves
<1> HIDE DEF connect, produce
<1>6. CASE task' = [task EXCEPT ![t] = connect]
  <2>1. Numbered'
    BY <1>1, <1>4, <1>6, NoJoinBegins
  <2> QED
    BY <1>1, <1>3, <1>4, <1>5, <1>6, <2>1, HandlerStep DEF GatewayInv, Kept
<1>7. CASE task' = [task EXCEPT ![t] = produce]
  <2>1. Numbered'
    BY <1>1, <1>4, <1>7, NoJoinBegins
  <2> QED
    BY <1>1, <1>3, <1>4, <1>5, <1>7, <2>1, HandlerStep DEF GatewayInv, Kept
<1> QED
  BY <1>1, <1>6, <1>7

LEMMA ConnectedStep ==
  ASSUME GatewayInv, NEW t \in Slot, Connected(t)
  PROVE  GatewayInv'
<1> DEFINE produce == Begin(t, task[t].p, task[t].s)
<1>1. /\ task[t].at = "connect"
      /\ UNCHANGED <<inRoom, gw, rt, owner, open, reg, tracks, cons, owed, crossed, late>>
      /\ \/ task' = [task EXCEPT ![t] = Idle]
         \/ task' = [task EXCEPT ![t] = produce]
  BY DEF Connected
<1>2. task[t].p \in P /\ Of(task[t].s, task[t].p)
  BY <1>1 DEF GatewayInv, Kept, TaskOk, Idle, Of
<1>3. TaskOk(Idle) /\ TaskOk(produce) /\ \A r : ~Moves(Idle, r) /\ ~Moves(produce, r)
  BY <1>2 DEF TaskOk, Begin, Of, Moves, Idle
<1>4. Idle.at = "idle" /\ produce.at = "produce" /\ (produce.live => produce.s \in open)
  BY DEF Begin, Idle
<1>5. \A s, q, x : ~Serves(task[t], s, q, x)
  BY <1>1 DEF Serves
<1> HIDE DEF produce
<1>6. CASE task' = [task EXCEPT ![t] = Idle]
  <2>1. Numbered'
    BY <1>1, <1>4, <1>6, NoJoinBegins
  <2> QED
    BY <1>1, <1>3, <1>4, <1>5, <1>6, <2>1, HandlerStep DEF GatewayInv, Kept
<1>7. CASE task' = [task EXCEPT ![t] = produce]
  <2>1. Numbered'
    BY <1>1, <1>4, <1>7, NoJoinBegins
  <2> QED
    BY <1>1, <1>3, <1>4, <1>5, <1>7, <2>1, HandlerStep DEF GatewayInv, Kept
<1> QED
  BY <1>1, <1>6, <1>7

LEMMA NotProducedStep ==
  ASSUME GatewayInv, NEW t \in Slot, NotProduced(t)
  PROVE  GatewayInv'
<1>1. /\ task[t].at = "produce" /\ task' = [task EXCEPT ![t] = Idle]
      /\ UNCHANGED <<inRoom, gw, rt, owner, open, reg, tracks, cons, owed, crossed, late>>
  BY DEF NotProduced, End
<1>2. Idle.at = "idle" /\ TaskOk(Idle) /\ \A r : ~Moves(Idle, r)
  BY DEF Idle, TaskOk, Moves
<1>3. Numbered'
  BY <1>1, <1>2, NoJoinBegins
<1>4. \A s, q, x : ~Serves(task[t], s, q, x)
  BY <1>1 DEF Serves
<1> QED
  BY <1>1, <1>2, <1>3, <1>4, HandlerStep DEF GatewayInv, Kept

\* A participant has one session open at most, if its joins did not overlap: of its producers
\* only one is live.
LEMMA OneLive ==
  ASSUME GatewayInv, NEW q \in P \ crossed, NEW x \in open, NEW y \in open, Of(x, q), Of(y, q)
  PROVE  x = y
BY DEF GatewayInv, Settled, Of

\* What a handler looks up next serves the debt that is open on that target.
LEMMA FurtherStep ==
  ASSUME GatewayInv, NEW t \in Slot, Further(t)
  PROVE  GatewayInv'
<1>1. PICK q \in task[t].todo : LookUp(t, task[t].s, q, task[t].todo \ {q})
  BY DEF Further
<1> DEFINE s == task[t].s
           todo == task[t].todo \ {q}
           next == [at |-> "next", s |-> s, todo |-> todo]
           consume == [at |-> "consume", s |-> s, q |-> q, from |-> reg[q], todo |-> todo,
                       live |-> {s, reg[q]} \subseteq open]
<1>2. /\ task[t].at = "next"
      /\ UNCHANGED <<inRoom, gw, rt, owner, open, reg, tracks, cons, owed, crossed, late>>
  BY DEF Further
<1>3. s \in DOMAIN owner /\ task[t].todo \subseteq P /\ q \in P /\ todo \subseteq P /\ q \notin todo
  BY <1>1, <1>2 DEF GatewayInv, Kept, TaskOk, Idle
<1>4. /\ TaskOk(Idle) /\ TaskOk(next) /\ Idle.at = "idle" /\ next.at = "next" /\ next.s = s
      /\ consume.at = "consume" /\ consume.s = s
      /\ \A r : ~Moves(Idle, r) /\ ~Moves(next, r) /\ ~Moves(consume, r)
  BY <1>3 DEF TaskOk, Idle, Moves
<1>5. \/ (reg[q] = 0 \/ cons[s][q] # 0) /\ todo = {} /\ task' = [task EXCEPT ![t] = Idle]
      \/ (reg[q] = 0 \/ cons[s][q] # 0) /\ task' = [task EXCEPT ![t] = next]
      \/ reg[q] # 0 /\ cons[s][q] = 0 /\ task' = [task EXCEPT ![t] = consume]
  BY <1>1 DEF LookUp, Resume
<1>6. CASE (reg[q] = 0 \/ cons[s][q] # 0) /\ todo = {} /\ task' = [task EXCEPT ![t] = Idle]
  <2>1. Numbered'
    BY <1>2, <1>4, <1>6, NoJoinBegins
  <2>2. \A r, z, x : ~Serves(task[t], r, z, x)
    BY <1>2, <1>6 DEF Serves
  <2> QED
    BY <1>2, <1>4, <1>6, <2>1, <2>2, HandlerStep DEF GatewayInv, Kept
<1>7. CASE (reg[q] = 0 \/ cons[s][q] # 0) /\ task' = [task EXCEPT ![t] = next]
  <2>1. \A r, z, x : Serves(task[t], r, z, x) => Serves(next, r, z, x)
    BY <1>2, <1>7 DEF Serves
  <2> HIDE DEF next, s
  <2>2. Numbered'
    BY <1>2, <1>4, <1>7, NoJoinBegins
  <2>3. task[t].s = next.s
    BY <1>4 DEF s
  <2> QED
    BY <1>2, <1>4, <1>7, <2>1, <2>2, <2>3, HandlerStep DEF GatewayInv, Kept
<1>8. CASE reg[q] # 0 /\ cons[s][q] = 0 /\ task' = [task EXCEPT ![t] = consume]
  <2>1. Of(reg[q], q)
    BY <1>3, <1>8 DEF GatewayInv, Kept
  <2>2. TaskOk(consume)
    BY <1>3, <2>1 DEF TaskOk, Of
  <2>3. ASSUME NEW r \in open, NEW z \in P \ crossed, owed[r][z] \in open,
               Serves(task[t], r, z, owed[r][z])
        PROVE  Serves(consume, r, z, owed[r][z])
    <3>1. r = s /\ z \in task[t].todo
      BY <1>2, <2>3 DEF Serves
    <3>2. CASE z = q
      <4>1. Of(owed[r][z], z)
        BY <2>3, SessionsFit DEF GatewayInv, Kept
      <4>2. reg[q] \in open => reg[q] = owed[r][z]
        BY <2>1, <2>3, <3>2, <4>1, OneLive
      <4> QED
        BY <3>1, <3>2, <4>2 DEF Serves
    <3>3. CASE z # q
      BY <1>2, <2>3, <3>1, <3>3 DEF Serves
    <3> QED
      BY <3>2, <3>3
  <2> HIDE DEF consume, s
  <2>4. Numbered'
    BY <1>2, <1>4, <1>8, NoJoinBegins
  <2>5. task[t].s = consume.s /\ cons[consume.s][consume.q] = 0
    BY <1>4, <1>8 DEF s, consume
  <2> QED
    BY <1>2, <1>4, <1>8, <2>2, <2>3, <2>4, <2>5, HandlerStep DEF GatewayInv, Kept
<1> QED
  BY <1>5, <1>6, <1>7, <1>8


\* SfuSession.leave() of some sessions, with or without the handler that goes on to forget its
\* participant: what named them is cleared, and what named others stays.
LEMMA CloseKeeps ==
  ASSUME GatewayInv, NEW S \in SUBSET (DOMAIN owner), Close(S),
         UNCHANGED <<inRoom, rt, owner, tracks, owed, crossed>>,
         DOMAIN task' = Slot,
         \A u \in Slot :
           \/ task'[u] = task[u]
           \/ /\ task[u].at = "member" /\ task[u].kind = "leave" /\ rt[task[u].p] \in S
              /\ task'[u].at = "forget" /\ task'[u].p = task[u].p
  PROVE  GatewayInv'
<1> DEFINE closing == S \cap open
           who == {owner[s] : s \in closing}
<1>1. /\ open' = open \ closing
      /\ cons' = [s \in Sessions |-> IF s \in closing THEN Nothing ELSE cons[s]]
      /\ gw' = [p \in P |-> IF p \in who THEN 0 ELSE gw[p]]
      /\ reg' = [p \in P |-> IF p \in who THEN 0 ELSE reg[p]]
      /\ late' = late \cup {p \in P : Publishing(p) /\ \E s \in S : owner[s] = p}
  BY DEF Close
<1>2. open \subseteq DOMAIN owner /\ open \subseteq Sessions /\ 0 \notin open /\ \A s \in open : owner[s] \in P
  BY SessionsFit DEF GatewayInv, Kept
<1>3. \A s \in open : s \in closing <=> s \notin open'
  BY <1>1
<1>4. \A p \in P : p \in who <=> \E s \in closing : owner[s] = p
  OBVIOUS
<1> HIDE DEF who, closing
<1>5. Numbered'
  <2>1. Busy({"join"})' \subseteq Busy({"join"})
    BY DEF Busy
  <2> QED
    BY <2>1, NumberedStays DEF GatewayInv
<1>6. \A u \in Slot : TaskOk(task'[u])
  <2> SUFFICES ASSUME NEW u \in Slot PROVE TaskOk(task'[u])
    OBVIOUS
  <2>1. TaskOk(task[u])
    BY DEF GatewayInv, Kept
  <2>2. CASE task'[u] = task[u]
    BY <2>1, <2>2
  <2>3. CASE task[u].at = "member" /\ task'[u].at = "forget" /\ task'[u].p = task[u].p
    BY <2>1, <2>3 DEF TaskOk, Idle
  <2> QED
    BY <2>2, <2>3
<1>7. Kept'
  <2>1. \A u \in Slot : TaskOk(task[u])'
    BY <1>6 DEF TaskOk
  <2>2. gw' \in [P -> Nat] /\ reg' \in [P -> Nat] /\ rt' \in [P -> Nat]
    BY <1>1 DEF GatewayInv, Kept
  <2>3. cons' \in [Sessions -> [P -> Nat]]
    BY <1>1 DEF GatewayInv, Kept, Nothing
  <2>4. open' \subseteq DOMAIN owner' /\ inRoom' \subseteq P /\ tracks' \subseteq P
        /\ owed' \in [Sessions -> [P -> Nat]]
        /\ \A s \in Sessions, q \in P : (owed[s][q] # 0 => s \in DOMAIN owner /\ Of(owed[s][q], q))'
    BY <1>1 DEF GatewayInv, Kept, Of
  <2>5. \A p \in P : /\ gw'[p] # 0 => Of(gw[p], p)' /\ gw'[p] \in open'
                     /\ rt'[p] # 0 => Of(rt[p], p)'
                     /\ reg'[p] # 0 => Of(reg[p], p)'
    <3> SUFFICES ASSUME NEW p \in P
                 PROVE  /\ gw'[p] # 0 => Of(gw[p], p)' /\ gw'[p] \in open'
                        /\ rt'[p] # 0 => Of(rt[p], p)'
                        /\ reg'[p] # 0 => Of(reg[p], p)'
      OBVIOUS
    <3>1. /\ gw[p] # 0 => Of(gw[p], p) /\ gw[p] \in open
          /\ rt[p] # 0 => Of(rt[p], p)
          /\ reg[p] # 0 => Of(reg[p], p)
      BY DEF GatewayInv, Kept
    <3>2. gw'[p] # 0 => gw'[p] = gw[p] /\ p \notin who
      BY <1>1
    <3>3. gw'[p] # 0 => gw[p] \notin closing
      BY <1>4, <3>1, <3>2 DEF Of
    <3>4. reg'[p] # 0 => reg'[p] = reg[p]
      BY <1>1
    <3> QED
      BY <1>1, <3>1, <3>2, <3>3, <3>4 DEF Of
  <2> QED
    BY <2>1, <2>2, <2>3, <2>4, <2>5 DEF Kept
<1>8. Alone'
  BY DEF GatewayInv, Alone
<1>12. Asking'
  <2> SUFFICES ASSUME NEW u \in Slot, task'[u].at = "consume", owed[task'[u].s][task'[u].q] # 0
               PROVE  cons'[task'[u].s][task'[u].q] = 0
    BY DEF Asking
  <2>1. task'[u] = task[u] /\ task[u].s \in DOMAIN owner /\ task[u].q \in P
    BY DEF GatewayInv, Kept, TaskOk, Idle
  <2>2. task[u].s \in Sessions /\ cons[task[u].s][task[u].q] = 0
    BY <2>1, SessionsFit DEF GatewayInv, Asking
  <2> QED
    BY <1>1, <2>1, <2>2 DEF Nothing
<1>9. Paid'
  <2> SUFFICES ASSUME NEW s \in open', NEW q \in P \ crossed, owed[s][q] \in open'
               PROVE  cons'[s][q] = owed[s][q]
                      \/ (\E u \in Slot : Serves(task[u], s, q, owed[s][q]))'
    BY DEF Paid
  <2>1. s \in open /\ owed[s][q] \in open /\ s \notin closing /\ owed[s][q] \notin closing
    BY <1>1
  <2>2. cons'[s] = cons[s]
    BY <1>1, <1>2, <2>1
  <2>3. Of(owed[s][q], q)
    BY <1>2, <2>1 DEF GatewayInv, Kept
  <2>4. reg'[q] = reg[q]
    <3>1. q \notin who
      <4> SUFFICES ASSUME NEW x \in closing, owner[x] = q PROVE FALSE
        BY <1>4
      <4>1. x \in open
        BY DEF closing
      <4> QED
        BY <1>2, <2>1, <2>3, <4>1, OneLive DEF Of
    <3> QED
      BY <1>1, <3>1
  <2>5. cons[s][q] = owed[s][q] \/ \E u \in Slot : Serves(task[u], s, q, owed[s][q])
    BY <2>1 DEF GatewayInv, Paid
  <2>6. ASSUME NEW u \in Slot, Serves(task[u], s, q, owed[s][q])
        PROVE  Serves(task[u], s, q, owed[s][q])'
    <3>1. task'[u] = task[u]
      BY <2>6 DEF Serves
    <3> QED
      BY <2>2, <2>4, <2>6, <3>1 DEF Serves
  <2> QED
    BY <2>2, <2>5, <2>6
<1>10. ASSUME NEW p \in P \ crossed'
       PROVE  Settled(p)'
  <2>1. Settled(p)
    BY DEF GatewayInv
  <2>2. gw'[p] # 0 => rt'[p] = gw'[p]
    BY <1>1, <2>1 DEF Settled
  <2>3. \A s \in open' : owner[s] = p => gw'[p] = s
    <3> SUFFICES ASSUME NEW s \in open', owner[s] = p PROVE gw'[p] = s
      OBVIOUS
    <3>1. s \in open /\ s \notin closing /\ gw[p] = s
      BY <1>1, <2>1 DEF Settled
    <3>2. p \notin who
      <4> SUFFICES ASSUME NEW x \in closing, owner[x] = p PROVE FALSE
        BY <1>4
      <4>1. x \in open
        BY DEF closing
      <4> QED
        BY <2>1, <3>1, <4>1 DEF Settled
    <3> QED
      BY <1>1, <3>1, <3>2
  <2>4. \A u \in Slot : Moves(task'[u], p) => Moves(task[u], p)
    BY DEF Moves
  <2>5. \A u \in Slot : task'[u].at \in {"join", "forget"} /\ task'[u].p = p => gw'[p] = 0
    <3> SUFFICES ASSUME NEW u \in Slot, task'[u].at \in {"join", "forget"}, task'[u].p = p
                 PROVE  gw'[p] = 0
      OBVIOUS
    <3>1. CASE task'[u] = task[u]
      BY <1>1, <2>1, <3>1 DEF Settled
    <3>2. CASE rt[p] \in S
      <4>1. gw[p] # 0 => gw[p] \in closing /\ owner[gw[p]] = p
        BY <2>1, <3>2 DEF Settled, GatewayInv, Kept, Of, closing
      <4> QED
        BY <1>1, <1>4, <4>1
    <3> QED
      BY <3>1, <3>2
  <2> QED
    BY <2>1, <2>2, <2>3, <2>4, <2>5 DEF Settled
<1>11. ASSUME NEW p \in P \ (crossed' \cup late')
       PROVE  Found(p)'
  <2>1. Found(p) /\ p \in P \ (crossed \cup late)
    BY <1>1 DEF GatewayInv
  <2>2. reg'[p] # 0 => reg'[p] = gw'[p]
    BY <1>1, <2>1 DEF Found
  <2>3. p \in tracks' => rt'[p] # 0
    BY <2>1 DEF Found
  <2>4. ASSUME NEW u \in Slot, task'[u].at = "produce", task'[u].p = p, task'[u].live
        PROVE  task'[u].s \in open'
    <3>1. task'[u] = task[u]
      BY <2>4
    <3>2. task[u].s \in open /\ owner[task[u].s] = p
      BY <2>1, <2>4, <3>1 DEF Found, GatewayInv, Kept, TaskOk, Idle
    <3>3. Publishing(p)
      BY <2>4, <3>1 DEF Publishing
    <3>4. task[u].s \notin S
      BY <1>1, <3>2, <3>3
    <3> QED
      BY <1>1, <3>1, <3>2, <3>4 DEF closing
  <2>5. \A u \in Slot : task'[u].at = "register" /\ task'[u].p = p => rt'[p] # 0
    BY <2>1 DEF Found
  <2> QED
    BY <2>2, <2>3, <2>4, <2>5 DEF Found
<1> QED
  BY <1>5, <1>7, <1>8, <1>9, <1>10, <1>11, <1>12 DEF GatewayInv


LEMMA LeaveStep ==
  ASSUME GatewayInv, NEW t \in Slot, Leave(t)
  PROVE  GatewayInv'
<1> DEFINE k == [at |-> "forget", p |-> task[t].p]
<1>1. /\ Close({rt[task[t].p]}) /\ task' = [task EXCEPT ![t] = k]
      /\ task[t].at = "member" /\ task[t].kind = "leave" /\ rt[task[t].p] # 0
      /\ UNCHANGED <<inRoom, rt, owner, tracks, owed, crossed>>
  BY DEF Leave, Allowed
<1>2. {rt[task[t].p]} \in SUBSET (DOMAIN owner)
  <2>1. task[t].p \in P
    BY <1>1 DEF GatewayInv, Kept, TaskOk, Idle
  <2> QED
    BY <1>1, <2>1 DEF GatewayInv, Kept, Of
<1>3. DOMAIN task' = Slot
      /\ \A u \in Slot : u # t => task'[u] = task[u]
      /\ task'[t].at = "forget" /\ task'[t].p = task[t].p
  BY <1>1 DEF GatewayInv, Kept
<1> QED
  BY <1>1, <1>2, <1>3, CloseKeeps

LEMMA CloseRoomStep ==
  ASSUME GatewayInv, CloseRoom
  PROVE  GatewayInv'
<1>1. Close({gw[p] : p \in P} \ {0}) /\ UNCHANGED <<inRoom, rt, owner, tracks, task, owed, crossed>>
  BY DEF CloseRoom
<1>2. {gw[p] : p \in P} \ {0} \in SUBSET (DOMAIN owner)
  BY DEF GatewayInv, Kept, Of
<1> QED
  BY <1>1, <1>2, CloseKeeps DEF GatewayInv, Kept

LEMMA LeftStep ==
  ASSUME GatewayInv, NEW t \in Slot, Left(t)
  PROVE  GatewayInv'
<1> DEFINE q == task[t].p
<1>1. /\ task[t].at = "forget" /\ task' = [task EXCEPT ![t] = Idle]
      /\ rt' = [rt EXCEPT ![q] = 0] /\ tracks' = tracks \ {q}
      /\ late' = IF Publishing(q) THEN late \cup {q} ELSE late
      /\ UNCHANGED <<inRoom, gw, owner, open, reg, cons, owed, crossed>>
  BY DEF Left, End
<1>2. q \in P
  BY <1>1 DEF GatewayInv, Kept, TaskOk, Idle
<1>3. DOMAIN task' = Slot /\ \A u \in Slot : task'[u] = IF u = t THEN Idle ELSE task[u]
  BY <1>1 DEF GatewayInv, Kept
<1>4. Idle.at = "idle" /\ TaskOk(Idle) /\ \A r : ~Moves(Idle, r)
  BY DEF Idle, TaskOk, Moves
<1> HIDE DEF q
<1>5. Numbered'
  BY <1>1, <1>4, NoJoinBegins
<1>6. Kept'
  BY <1>1, <1>2, <1>3, <1>4 DEF GatewayInv, Kept, TaskOk, Of
<1>7. Alone' /\ Asking'
  BY <1>1, <1>3, <1>4 DEF GatewayInv, Alone, Asking
<1>8. Paid'
  <2>1. \A s, r, x : ~Serves(task[t], s, r, x)
    BY <1>1 DEF Serves
  <2>2. \A s, r, x : \A u \in Slot : Serves(task[u], s, r, x) => u # t /\ task'[u] = task[u]
    BY <1>3, <2>1
  <2>3. \A s, r : \A u \in Slot : Serves(task[u], s, r, owed[s][r]) => Serves(task[u], s, r, owed[s][r])'
    BY <1>1, <2>2 DEF Serves
  <2> QED
    BY <1>1, <2>3 DEF GatewayInv, Paid
<1>9. ASSUME NEW p \in P \ crossed'
      PROVE  Settled(p)'
  <2>1. Settled(p)
    BY <1>1 DEF GatewayInv
  <2>2. p = q => gw[p] = 0
    BY <1>1, <2>1 DEF Settled, q
  <2>3. rt'[p] = IF p = q THEN 0 ELSE rt[p]
    BY <1>1, <1>2 DEF GatewayInv, Kept
  <2>4. \A u \in Slot : Moves(task'[u], p) => Moves(task[u], p)
    BY <1>3, <1>4
  <2>5. \A u \in Slot : task'[u].at \in {"join", "forget"} => task'[u] = task[u]
    BY <1>3, <1>4
  <2> QED
    BY <1>1, <2>1, <2>2, <2>3, <2>4, <2>5 DEF Settled
<1>10. ASSUME NEW p \in P \ (crossed' \cup late')
       PROVE  Found(p)'
  <2>1. Found(p)
    BY <1>1 DEF GatewayInv
  <2>2. rt'[p] = IF p = q THEN 0 ELSE rt[p]
    BY <1>1, <1>2 DEF GatewayInv, Kept
  <2>3. p = q => ~Publishing(p)
    BY <1>1
  <2>4. \A u \in Slot : task'[u].at = "register" /\ task'[u].p = p => p # q
    BY <1>3, <1>4, <2>3 DEF Publishing
  <2> QED
    BY <1>1, <1>3, <1>4, <2>1, <2>2, <2>4 DEF Found
<1> QED
  BY <1>5, <1>6, <1>7, <1>8, <1>9, <1>10 DEF GatewayInv

LEMMA ProducedStep ==
  ASSUME GatewayInv, NEW t \in Slot, Produced(t)
  PROVE  GatewayInv'
<1> DEFINE q == task[t].p
           x == task[t].s
<1>1. /\ task[t].at = "produce" /\ task[t].live /\ task' = [task EXCEPT ![t] = Idle]
      /\ reg' = [reg EXCEPT ![q] = x]
      /\ UNCHANGED <<inRoom, gw, rt, owner, open, tracks, cons, owed, crossed, late>>
  BY DEF Produced, End
<1>2. q \in P /\ Of(x, q)
  BY <1>1 DEF GatewayInv, Kept, TaskOk, Idle, Of
<1>3. DOMAIN task' = Slot /\ \A u \in Slot : task'[u] = IF u = t THEN Idle ELSE task[u]
  BY <1>1 DEF GatewayInv, Kept
<1>4. Idle.at = "idle" /\ TaskOk(Idle) /\ \A r : ~Moves(Idle, r)
  BY DEF Idle, TaskOk, Moves
<1>5. x \in Nat /\ x # 0
  <2>1. DOMAIN owner \subseteq Nat /\ 0 \notin DOMAIN owner
    BY SessionsFit DEF GatewayInv, Sessions
  <2> QED
    BY <1>2, <2>1 DEF Of
<1>6. q \notin crossed \cup late => x \in open /\ gw[q] = x
  BY <1>1, <1>2 DEF GatewayInv, Found, Settled, Of
<1> HIDE DEF q, x
<1>7. Numbered'
  BY <1>1, <1>4, NoJoinBegins
<1>8. \A p \in P : reg'[p] = IF p = q THEN x ELSE reg[p]
  BY <1>1, <1>2 DEF GatewayInv, Kept
<1>9. Kept'
  <2>1. reg' \in [P -> Nat] /\ \A p \in P : reg'[p] # 0 => Of(reg'[p], p)
    BY <1>1, <1>2, <1>5, <1>8 DEF GatewayInv, Kept
  <2>2. \A u \in Slot : TaskOk(task'[u])
    BY <1>3, <1>4 DEF GatewayInv, Kept
  <2> QED
    BY <1>1, <1>3, <2>1, <2>2 DEF GatewayInv, Kept, TaskOk, Of
<1>10. Alone' /\ Asking'
  BY <1>1, <1>3, <1>4 DEF GatewayInv, Alone, Asking
<1>11. Paid'
  <2>1. \A s, r, z : ~Serves(task[t], s, r, z)
    BY <1>1 DEF Serves
  <2>2. \A s, r, z : \A u \in Slot : Serves(task[u], s, r, z) => u # t /\ task'[u] = task[u]
    BY <1>3, <2>1
  <2>3. \A s : \A r \in P : \A u \in Slot :
          Serves(task[u], s, r, owed[s][r]) => Serves(task[u], s, r, owed[s][r])'
    BY <1>1, <1>5, <1>8, <2>2 DEF Serves
  <2> QED
    BY <1>1, <2>3 DEF GatewayInv, Paid
<1>12. ASSUME NEW p \in P \ crossed'
       PROVE  Settled(p)'
  BY <1>1, <1>3, <1>4 DEF GatewayInv, Settled
<1>13. ASSUME NEW p \in P \ (crossed' \cup late')
       PROVE  Found(p)'
  BY <1>1, <1>3, <1>4, <1>6, <1>8 DEF GatewayInv, Found
<1> QED
  BY <1>7, <1>9, <1>10, <1>11, <1>12, <1>13 DEF GatewayInv


LEMMA JoinedStep ==
  ASSUME GatewayInv, NEW t \in Slot, Joined(t)
  PROVE  GatewayInv'
<1> DEFINE q == task[t].p
           n == Cardinality(DOMAIN owner)
           s == n + 1
<1>1. /\ task[t].at = "join" /\ task' = [task EXCEPT ![t] = Idle]
      /\ owner' = [i \in 1 .. s |-> IF i = s THEN q ELSE owner[i]]
      /\ open' = open \cup {s}
      /\ gw' = [gw EXCEPT ![q] = s] /\ rt' = [rt EXCEPT ![q] = s]
      /\ UNCHANGED <<inRoom, reg, tracks, cons, owed, crossed, late>>
  BY DEF Joined, End
<1>2. q \in P
  <2>1. task[t].at = "join" /\ TaskOk(task[t])
    BY <1>1 DEF GatewayInv, Kept
  <2> QED
    BY <2>1 DEF TaskOk, Idle
<1>3. DOMAIN task' = Slot /\ \A u \in Slot : task'[u] = IF u = t THEN Idle ELSE task[u]
  BY <1>1 DEF GatewayInv, Kept
<1>4. Idle.at = "idle" /\ TaskOk(Idle)' /\ \A r : ~Moves(Idle, r)
  BY DEF Idle, TaskOk, Moves
<1>5. n \in Nat /\ owner \in [1 .. n -> P] /\ DOMAIN owner = 1 .. n
  BY DEF GatewayInv, Numbered
<1> HIDE DEF q, n
<1>6. s \in Nat /\ s # 0 /\ s \notin DOMAIN owner /\ 1 .. s = DOMAIN owner \cup {s}
  BY <1>5
<1>7. /\ DOMAIN owner' = 1 .. s /\ owner' \in [1 .. s -> P]
      /\ \A i \in DOMAIN owner : i \in DOMAIN owner' /\ owner'[i] = owner[i]
      /\ s \in DOMAIN owner' /\ owner'[s] = q
  <2>1. \A i \in 1 .. s : (IF i = s THEN q ELSE owner[i]) \in P
    BY <1>2, <1>5, <1>6
  <2> QED
    BY <1>1, <1>6, <2>1
<1> HIDE DEF s
<1>8. Numbered' /\ s \in Sessions
  <2>1. Cardinality(DOMAIN owner') = s
    BY <1>6, <1>7, FS_Interval
  <2>2. t \in Busy({"join"}) /\ Busy({"join"})' = Busy({"join"}) \ {t}
    BY <1>1, <1>3, <1>4 DEF Busy
  <2>3. IsFiniteSet(Busy({"join"}))
    BY FS_Subset, RoutingAssumption DEF Busy
  <2>4. Cardinality(Busy({"join"})') = Cardinality(Busy({"join"})) - 1
        /\ Cardinality(Busy({"join"})) \in Nat /\ Cardinality(Busy({"join"})') \in Nat
    <3>1. IsFiniteSet(Busy({"join"})')
      BY <2>2, <2>3, FS_RemoveElement
    <3> QED
      BY <2>2, <2>3, <3>1, FS_RemoveElement, FS_CardinalityType
  <2>5. n + Cardinality(Busy({"join"})) <= MaxSession
    BY DEF GatewayInv, Numbered, n
  <2>6. s + Cardinality(Busy({"join"})') <= MaxSession /\ s <= MaxSession
    BY <1>5, <2>4, <2>5, RoutingAssumption DEF s
  <2> QED
    BY <1>6, <1>7, <2>1, <2>6 DEF Numbered, Sessions
<1>9. \A z, p : Of(z, p) => Of(z, p)'
  BY <1>7 DEF Of
<1>10. \A p \in P : /\ gw'[p] = IF p = q THEN s ELSE gw[p]
                    /\ rt'[p] = IF p = q THEN s ELSE rt[p]
  BY <1>1, <1>2 DEF GatewayInv, Kept
<1>11. \A u \in Slot : TaskOk(task[u])'
  <2> SUFFICES ASSUME NEW u \in Slot PROVE TaskOk(task[u])'
    OBVIOUS
  <2>1. CASE u = t
    BY <1>3, <1>4, <2>1
  <2>2. CASE u # t
    <3>1. TaskOk(task[u]) /\ task'[u] = task[u]
      BY <1>3, <2>2 DEF GatewayInv, Kept
    <3> QED
      BY <1>7, <3>1 DEF TaskOk
  <2> QED
    BY <2>1, <2>2
<1>12. Kept'
  <2>1. gw' \in [P -> Nat] /\ rt' \in [P -> Nat] /\ reg' \in [P -> Nat]
    BY <1>1, <1>2, <1>6 DEF GatewayInv, Kept
  <2>3. \A p \in P : (/\ gw[p] # 0 => Of(gw[p], p) /\ gw[p] \in open
                      /\ rt[p] # 0 => Of(rt[p], p)
                      /\ reg[p] # 0 => Of(reg[p], p))'
    <3> SUFFICES ASSUME NEW p \in P
                 PROVE  (/\ gw[p] # 0 => Of(gw[p], p) /\ gw[p] \in open
                         /\ rt[p] # 0 => Of(rt[p], p)
                         /\ reg[p] # 0 => Of(reg[p], p))'
      OBVIOUS
    <3>1. /\ gw[p] # 0 => Of(gw[p], p) /\ gw[p] \in open
          /\ rt[p] # 0 => Of(rt[p], p)
          /\ reg[p] # 0 => Of(reg[p], p)
      BY DEF GatewayInv, Kept
    <3> QED
      BY <1>1, <1>6, <1>7, <1>10, <3>1 DEF Of
  <2>4. \A z \in Sessions, p \in P : (owed[z][p] # 0 => z \in DOMAIN owner /\ Of(owed[z][p], p))'
    BY <1>1, <1>7 DEF GatewayInv, Kept, Of
  <2>5. open' \subseteq DOMAIN owner'
    BY <1>1, <1>7 DEF GatewayInv, Kept
  <2> QED
    BY <1>1, <1>3, <1>11, <2>1, <2>3, <2>4, <2>5 DEF GatewayInv, Kept
<1>13. Alone' /\ Asking'
  BY <1>1, <1>3, <1>4 DEF GatewayInv, Alone, Asking
<1>14. Paid'
  <2> SUFFICES ASSUME NEW z \in open', NEW p \in P \ crossed, owed[z][p] \in open'
               PROVE  cons[z][p] = owed[z][p]
                      \/ (\E u \in Slot : Serves(task[u], z, p, owed[z][p]))'
    BY <1>1 DEF Paid
  <2>1. z \in Sessions
    BY <1>1, <1>8, SessionsFit DEF GatewayInv, Kept
  <2>2. owed[z][p] # 0
    BY <1>1, <1>6, SessionsFit DEF GatewayInv, Kept
  <2>3. z \in DOMAIN owner /\ owed[z][p] \in DOMAIN owner
    BY <2>1, <2>2 DEF GatewayInv, Kept, Of
  <2>4. z \in open /\ owed[z][p] \in open
    BY <1>1, <1>6, <2>3
  <2>5. cons[z][p] = owed[z][p] \/ \E u \in Slot : Serves(task[u], z, p, owed[z][p])
    BY <2>4 DEF GatewayInv, Paid
  <2>6. ASSUME NEW u \in Slot, Serves(task[u], z, p, owed[z][p])
        PROVE  Serves(task[u], z, p, owed[z][p])'
    <3>1. task'[u] = task[u]
      BY <1>1, <1>3, <2>6 DEF Serves
    <3> QED
      BY <1>1, <2>6, <3>1 DEF Serves
  <2> QED
    BY <2>5, <2>6
<1>15. ASSUME NEW p \in P \ crossed'
       PROVE  Settled(p)'
  <2>1. Settled(p)
    BY <1>1 DEF GatewayInv
  <2>2. open \subseteq DOMAIN owner /\ 0 \notin DOMAIN owner
    BY SessionsFit DEF GatewayInv, Kept
  <2>3. p = q => gw[p] = 0 /\ \A z \in open : owner[z] # p
    BY <1>1, <2>1, <2>2 DEF Settled, q
  <2>4. \A z \in open' : owner'[z] = p => gw'[p] = z
    BY <1>1, <1>7, <1>10, <2>1, <2>2, <2>3 DEF Settled
  <2>5. Moves(task[t], task[t].p)
    BY <1>1 DEF Moves
  <2>6. \A u \in Slot : task[u].at \in {"join", "forget"} /\ task[u].p = q => Moves(task[u], q)
    BY DEF Moves
  <2>7. \A u \in Slot : task'[u].at \in {"join", "forget"} /\ task'[u].p = p => gw'[p] = 0
    BY <1>3, <1>4, <1>10, <2>1, <2>5, <2>6 DEF Settled, q
  <2>8. \A u \in Slot : Moves(task'[u], p) => Moves(task[u], p)
    BY <1>3, <1>4
  <2> QED
    BY <1>10, <2>1, <2>4, <2>7, <2>8 DEF Settled
<1>16. ASSUME NEW p \in P \ (crossed' \cup late')
       PROVE  Found(p)'
  <2>1. Found(p) /\ (p = q => gw[p] = 0)
    BY <1>1 DEF GatewayInv, Settled, q
  <2> QED
    BY <1>1, <1>3, <1>4, <1>6, <1>10, <2>1 DEF Found
<1> QED
  BY <1>8, <1>12, <1>13, <1>14, <1>15, <1>16 DEF GatewayInv


\* A handler that neither moves, publishes nor joins disturbs only what is owed.
LEMMA QuietStep ==
  ASSUME GatewayInv, NEW t \in Slot, NEW k, TaskOk(k), task' = [task EXCEPT ![t] = k],
         k.at \in {"idle", "next", "consume"},
         UNCHANGED <<inRoom, gw, rt, reg, owner, open, tracks, crossed, late>>,
         cons' \in [Sessions -> [P -> Nat]], owed' \in [Sessions -> [P -> Nat]],
         \A s \in Sessions, q \in P : owed'[s][q] # 0 => s \in DOMAIN owner /\ Of(owed'[s][q], q)
  PROVE  /\ Numbered' /\ Kept'
         /\ DOMAIN task' = Slot /\ \A u \in Slot : task'[u] = IF u = t THEN k ELSE task[u]
         /\ \A p \in P \ crossed' : Settled(p)'
         /\ \A p \in P \ (crossed' \cup late') : Found(p)'
<1>1. DOMAIN task' = Slot /\ \A u \in Slot : task'[u] = IF u = t THEN k ELSE task[u]
  BY DEF GatewayInv, Kept
<1>2. Numbered'
  BY NoJoinBegins
<1>3. Kept'
  <2>1. \A u \in Slot : TaskOk(task[u])'
    BY <1>1 DEF GatewayInv, Kept, TaskOk
  <2> QED
    BY <1>1, <2>1 DEF GatewayInv, Kept, Of
<1>4. \A p : ~Moves(k, p)
  BY DEF Moves
<1>5. \A p \in P \ crossed' : Settled(p)'
  BY <1>1, <1>4 DEF GatewayInv, Settled
<1>6. \A p \in P \ (crossed' \cup late') : Found(p)'
  BY <1>1 DEF GatewayInv, Found
<1> QED
  BY <1>1, <1>2, <1>3, <1>5, <1>6

LEMMA SubscribeStep ==
  ASSUME GatewayInv, NEW t \in Slot, Subscribe(t)
  PROVE  GatewayInv'
<1> DEFINE s == rt[task[t].p]
           T == Targets(t)
<1>1. PICK q \in T : LookUp(t, s, q, T \ {q})
  BY DEF Subscribe
<1> DEFINE next == [at |-> "next", s |-> s, todo |-> T \ {q}]
           consume == [at |-> "consume", s |-> s, q |-> q, from |-> reg[q], todo |-> T \ {q},
                       live |-> {s, reg[q]} \subseteq open]
<1>2. /\ task[t].at = "member" /\ s # 0
      /\ owed' = [owed EXCEPT ![s] = Debt(t, s)]
      /\ UNCHANGED <<inRoom, gw, rt, reg, owner, open, tracks, cons, crossed, late>>
  BY DEF Subscribe, Allowed
<1>3. task[t].p \in P /\ task[t].to \subseteq P
  BY <1>2 DEF GatewayInv, Kept, TaskOk, Idle
<1>4. T \subseteq P
  BY <1>3 DEF Targets, GatewayInv, Kept
<1>5. s \in DOMAIN owner /\ s \in Sessions
  BY <1>2, <1>3, SessionsFit DEF GatewayInv, Kept, Of
<1>6. \/ (reg[q] = 0 \/ cons[s][q] # 0) /\ T \ {q} = {} /\ task' = [task EXCEPT ![t] = Idle]
      \/ (reg[q] = 0 \/ cons[s][q] # 0) /\ task' = [task EXCEPT ![t] = next]
      \/ reg[q] # 0 /\ cons[s][q] = 0 /\ task' = [task EXCEPT ![t] = consume]
  BY <1>1 DEF LookUp, Resume
<1>7. Idle.at = "idle" /\ TaskOk(Idle) /\ TaskOk(next) /\ (reg[q] # 0 => TaskOk(consume))
  <2>1. reg[q] # 0 => Of(reg[q], q)
    BY <1>4 DEF GatewayInv, Kept
  <2> QED
    BY <1>4, <1>5, <2>1 DEF Idle, TaskOk, Of
<1>8. next.at = "next" /\ consume.at = "consume" /\ next.s = s /\ consume.s = s
  OBVIOUS
<1>9. PICK k \in {Idle, next, consume} :
        /\ task' = [task EXCEPT ![t] = k] /\ TaskOk(k)
        /\ k = Idle => (reg[q] = 0 \/ cons[s][q] # 0) /\ T \ {q} = {}
        /\ k = next => reg[q] = 0 \/ cons[s][q] # 0
        /\ k = consume => cons[s][q] = 0
  <2>1. CASE (reg[q] = 0 \/ cons[s][q] # 0) /\ T \ {q} = {} /\ task' = [task EXCEPT ![t] = Idle]
    BY <1>7, <1>8, <2>1
  <2>2. CASE (reg[q] = 0 \/ cons[s][q] # 0) /\ task' = [task EXCEPT ![t] = next]
    BY <1>7, <1>8, <2>2
  <2>3. CASE reg[q] # 0 /\ cons[s][q] = 0 /\ task' = [task EXCEPT ![t] = consume]
    BY <1>7, <1>8, <2>3
  <2> QED
    BY <1>6, <2>1, <2>2, <2>3
<1>10. \A z \in Sessions, r \in P :
         owed'[z][r] = IF z = s
                       THEN IF /\ r \in T /\ reg[r] \in open /\ cons[s][r] = 0
                               /\ \A u \in Busy({"next", "consume"}) : task[u].s # s
                            THEN reg[r] ELSE 0
                       ELSE owed[z][r]
  BY <1>2, <1>5 DEF Debt, GatewayInv, Kept
<1>11. owed' \in [Sessions -> [P -> Nat]]
  <2>1. Debt(t, s) \in [P -> Nat]
    BY DEF Debt, GatewayInv, Kept
  <2> QED
    BY <1>2, <1>5, <2>1 DEF GatewayInv, Kept
<1>12. \A z \in Sessions, r \in P : owed'[z][r] # 0 => z \in DOMAIN owner /\ Of(owed'[z][r], r)
  BY <1>5, <1>10 DEF GatewayInv, Kept
<1>14. \A r \in T \ {q} : \A x : reg[r] # 0 /\ cons[s][r] = 0 =>
         Serves(next, s, r, x) /\ Serves(consume, s, r, x)
  BY DEF Serves
<1>15. Serves(consume, s, q, reg[q])
  BY DEF Serves
<1> HIDE DEF s, T, next, consume
<1>16. k.at \in {"idle", "next", "consume"} /\ (k.at = "idle" \/ k.s = s)
  BY <1>7, <1>8
<1>17. cons' \in [Sessions -> [P -> Nat]]
  BY <1>2 DEF GatewayInv, Kept
<1>18. /\ Numbered' /\ Kept' /\ \A u \in Slot : task'[u] = IF u = t THEN k ELSE task[u]
       /\ \A p \in P \ crossed' : Settled(p)'
       /\ \A p \in P \ (crossed' \cup late') : Found(p)'
  BY <1>2, <1>9, <1>11, <1>12, <1>16, <1>17, QuietStep
<1>19. Alone'
  <2> SUFFICES ASSUME NEW z \in Sessions, NEW r \in P, owed'[z][r] # 0, NEW u \in Slot, NEW v \in Slot,
                      task'[u].at \in {"next", "consume"}, task'[u].s = z,
                      task'[v].at \in {"next", "consume"}, task'[v].s = z
               PROVE  u = v
    BY DEF Alone
  <2>1. CASE z = s
    <3>1. \A w \in Slot : task[w].at \in {"next", "consume"} => task[w].s # s
      BY <1>10, <2>1 DEF Busy
    <3> QED
      BY <1>18, <2>1, <3>1
  <2>2. CASE z # s
    BY <1>10, <1>16, <1>18, <2>2 DEF GatewayInv, Alone
  <2> QED
    BY <2>1, <2>2
<1>13. Asking'
  <2> SUFFICES ASSUME NEW u \in Slot, task'[u].at = "consume", owed'[task'[u].s][task'[u].q] # 0
               PROVE  cons[task'[u].s][task'[u].q] = 0
    BY <1>2 DEF Asking
  <2>1. CASE u = t
    BY <1>7, <1>8, <1>9, <1>18, <2>1 DEF consume, next
  <2>2. CASE u # t
    <3>0. task'[u] = task[u] /\ TaskOk(task[u]) /\ task[u].at = "consume"
      BY <1>18, <2>2 DEF GatewayInv, Kept
    <3>1. task[u].s \in Sessions /\ task[u].q \in P
      BY <3>0, SessionsFit DEF GatewayInv, TaskOk, Idle
    <3>2. CASE task[u].s = s
      BY <1>10, <3>0, <3>1, <3>2 DEF Busy
    <3>3. CASE task[u].s # s
      BY <1>10, <3>0, <3>1, <3>3 DEF GatewayInv, Asking
    <3> QED
      BY <3>2, <3>3
  <2> QED
    BY <2>1, <2>2
<1>20. Paid'
  <2> SUFFICES ASSUME NEW z \in open, NEW r \in P \ crossed, owed'[z][r] \in open
               PROVE  cons[z][r] = owed'[z][r]
                      \/ (\E u \in Slot : Serves(task[u], z, r, owed[z][r]))'
    BY <1>2 DEF Paid
  <2>1. z \in Sessions /\ owed'[z][r] # 0
    BY SessionsFit DEF GatewayInv, Kept
  <2>2. CASE z = s
    <3>1. r \in T /\ owed'[z][r] = reg[r] /\ reg[r] # 0 /\ cons[s][r] = 0
      BY <1>10, <2>1, <2>2
    <3>2. Serves(k, s, r, reg[r])
      BY <1>9, <1>14, <1>15, <3>1
    <3>3. Serves(task[t], z, r, owed[z][r])'
      BY <1>2, <1>18, <2>2, <3>1, <3>2 DEF Serves
    <3> QED
      BY <3>3
  <2>3. CASE z # s
    <3>1. owed'[z][r] = owed[z][r]
      BY <1>10, <2>1, <2>3
    <3>2. cons[z][r] = owed[z][r] \/ \E u \in Slot : Serves(task[u], z, r, owed[z][r])
      BY <3>1 DEF GatewayInv, Paid
    <3>3. ASSUME NEW u \in Slot, Serves(task[u], z, r, owed[z][r])
          PROVE  Serves(task[u], z, r, owed[z][r])'
      <4>1. u # t
        BY <1>2, <3>3 DEF Serves
      <4> QED
        BY <1>2, <1>18, <3>1, <3>3, <4>1 DEF Serves
    <3> QED
      BY <3>1, <3>2, <3>3
  <2> QED
    BY <2>2, <2>3
<1> QED
  BY <1>13, <1>18, <1>19, <1>20 DEF GatewayInv


\* The worker's answer pays the debt its request was made for, if the producer it names is
\* still the one that is owed.
LEMMA ConsumedStep ==
  ASSUME GatewayInv, NEW t \in Slot, Consumed(t)
  PROVE  GatewayInv'
<1> DEFINE s == task[t].s
           q == task[t].q
           x == task[t].from
           todo == task[t].todo
           next == [at |-> "next", s |-> s, todo |-> todo]
<1>1. /\ task[t].at = "consume" /\ task[t].live
      /\ cons' = [cons EXCEPT ![s][q] = x]
      /\ UNCHANGED <<inRoom, gw, rt, reg, owner, open, tracks, owed, crossed, late>>
      /\ task' = [task EXCEPT ![t] = IF todo = {} THEN Idle ELSE next]
  BY DEF Consumed, Resume
<1>2. /\ s \in DOMAIN owner /\ todo \subseteq P /\ q \in P /\ q \notin todo
      /\ Of(x, q)
  <2>1. task[t].at = "consume" /\ TaskOk(task[t])
    BY <1>1 DEF GatewayInv, Kept
  <2> QED
    BY <2>1 DEF TaskOk, Idle, Of
<1>3. s \in Sessions /\ x \in Nat
  BY <1>2, SessionsFit DEF GatewayInv, Of, Sessions
<1>4. Idle.at = "idle" /\ next.at = "next" /\ next.s = s /\ TaskOk(Idle) /\ TaskOk(next)
  BY <1>2 DEF Idle, TaskOk
<1>5. PICK k \in {Idle, next} : /\ task' = [task EXCEPT ![t] = k] /\ TaskOk(k)
                                /\ k = Idle => todo = {}
  BY <1>1, <1>4
<1>6. \A z, r, y : r \in todo /\ Serves(task[t], z, r, y) =>
                     z = s /\ reg[r] # 0 /\ cons[s][r] = 0 /\ Serves(next, z, r, y)
  BY <1>1, <1>2 DEF Serves
<1>7. \A z, r, y : r \notin todo /\ Serves(task[t], z, r, y) => z = s /\ r = q /\ x = y
  BY <1>1 DEF Serves
<1>8. next.todo = todo
  OBVIOUS
<1> HIDE DEF s, q, x, todo, next
<1>9. /\ \A z \in Sessions, r \in P : cons'[z][r] = IF z = s /\ r = q THEN x ELSE cons[z][r]
      /\ cons' \in [Sessions -> [P -> Nat]]
  BY <1>1, <1>2, <1>3 DEF GatewayInv, Kept
<1>10. k.at \in {"idle", "next"} /\ (k.at = "next" => k.s = s)
  BY <1>4
<1>11. /\ Numbered' /\ Kept' /\ \A u \in Slot : task'[u] = IF u = t THEN k ELSE task[u]
       /\ \A p \in P \ crossed' : Settled(p)'
       /\ \A p \in P \ (crossed' \cup late') : Found(p)'
  <2>1. owed' \in [Sessions -> [P -> Nat]]
        /\ \A z \in Sessions, r \in P : owed'[z][r] # 0 => z \in DOMAIN owner /\ Of(owed'[z][r], r)
    BY <1>1 DEF GatewayInv, Kept
  <2> QED
    BY <1>1, <1>5, <1>9, <1>10, <2>1, QuietStep
<1>12. \A u \in Slot : task'[u].at \in {"next", "consume"} =>
         task[u].at \in {"next", "consume"} /\ task[u].s = task'[u].s
  BY <1>1, <1>10, <1>11 DEF s
<1>13. Alone'
  BY <1>1, <1>12 DEF GatewayInv, Alone
<1>15. Asking'
  <2> SUFFICES ASSUME NEW u \in Slot, task'[u].at = "consume", owed[task'[u].s][task'[u].q] # 0
               PROVE  cons'[task'[u].s][task'[u].q] = 0
    BY <1>1 DEF Asking
  <2>1. u # t /\ task'[u] = task[u]
    BY <1>10, <1>11
  <2>2. task[u].s \in Sessions /\ task[u].q \in P
    <3>1. TaskOk(task[u]) /\ task[u].at = "consume"
      BY <2>1 DEF GatewayInv, Kept
    <3> QED
      BY <3>1, SessionsFit DEF GatewayInv, TaskOk, Idle
  <2>3. task[u].s # s
    BY <1>1, <2>1, <2>2 DEF GatewayInv, Alone, s
  <2> QED
    BY <1>9, <2>1, <2>2, <2>3 DEF GatewayInv, Asking
<1>14. Paid'
  <2> SUFFICES ASSUME NEW z \in open, NEW r \in P \ crossed, owed[z][r] \in open
               PROVE  cons'[z][r] = owed[z][r]
                      \/ (\E u \in Slot : Serves(task[u], z, r, owed[z][r]))'
    BY <1>1 DEF Paid
  <2>1. z \in Sessions /\ owed[z][r] # 0
    BY SessionsFit DEF GatewayInv, Kept
  <2>2. \A u \in Slot : task[u].at \in {"next", "consume"} /\ task[u].s = z /\ z = s => u = t
    BY <1>1, <2>1 DEF GatewayInv, Alone, s
  <2>3. CASE cons[z][r] = owed[z][r] /\ ~(z = s /\ r = q)
    BY <1>9, <2>1, <2>3
  <2>4. CASE cons[z][r] = owed[z][r] /\ z = s /\ r = q
    BY <1>1, <2>1, <2>4 DEF GatewayInv, Asking, s, q
  <2>5. ASSUME NEW u \in Slot, Serves(task[u], z, r, owed[z][r])
        PROVE  cons'[z][r] = owed[z][r] \/ Serves(task[u], z, r, owed[z][r])'
    <3>1. CASE u = t /\ r \notin todo
      BY <1>7, <1>9, <2>1, <2>5, <3>1
    <3>2. CASE u = t /\ r \in todo
      <4>1. z = s /\ reg[r] # 0 /\ cons[s][r] = 0 /\ Serves(next, z, r, owed[z][r])
        BY <1>6, <2>5, <3>2
      <4>2. r # q /\ k = next
        BY <1>2, <1>5, <3>2
      <4>3. cons'[s][r] = 0
        BY <1>3, <1>9, <4>1, <4>2
      <4> QED
        BY <1>1, <1>4, <1>8, <1>11, <3>2, <4>1, <4>2, <4>3 DEF Serves
    <3>3. CASE u # t
      <4>1. z # s
        BY <2>2, <2>5, <3>3 DEF Serves
      <4>2. cons'[z] = cons[z] \/ cons'[z][r] = cons[z][r]
        BY <1>9, <2>1, <4>1
      <4> QED
        BY <1>1, <1>11, <2>5, <3>3, <4>2 DEF Serves
    <3> QED
      BY <3>1, <3>2, <3>3
  <2>6. cons[z][r] = owed[z][r] \/ \E u \in Slot : Serves(task[u], z, r, owed[z][r])
    BY DEF GatewayInv, Paid
  <2> QED
    BY <2>3, <2>4, <2>5, <2>6
<1> QED
  BY <1>11, <1>13, <1>14, <1>15 DEF GatewayInv


\* A refusal drops the targets the handler had not got to, and owes nothing for them.
LEMMA NotConsumedStep ==
  ASSUME GatewayInv, NEW t \in Slot, NotConsumed(t)
  PROVE  GatewayInv'
<1> DEFINE s == task[t].s
           dropped == task[t].todo \cup {task[t].q}
<1>1. /\ task[t].at = "consume" /\ task' = [task EXCEPT ![t] = Idle]
      /\ owed' = [owed EXCEPT ![s] = [q \in P |-> IF q \in dropped THEN 0 ELSE @[q]]]
      /\ UNCHANGED <<inRoom, gw, rt, reg, owner, open, tracks, cons, crossed, late>>
  BY DEF NotConsumed, End
<1>2. s \in Sessions
  <2>1. task[t].at = "consume" /\ TaskOk(task[t])
    BY <1>1 DEF GatewayInv, Kept
  <2> QED
    BY <2>1, SessionsFit DEF TaskOk, Idle, GatewayInv
<1>3. Idle.at = "idle" /\ TaskOk(Idle)
  BY DEF Idle, TaskOk
<1>4. \A z, r, y : Serves(task[t], z, r, y) => z = s /\ r \in dropped
  BY <1>1 DEF Serves
<1> HIDE DEF s, dropped
<1>5. \A z \in Sessions, r \in P : owed'[z][r] = IF z = s /\ r \in dropped THEN 0 ELSE owed[z][r]
  BY <1>1, <1>2 DEF GatewayInv, Kept
<1>6. owed' \in [Sessions -> [P -> Nat]] /\ cons' \in [Sessions -> [P -> Nat]]
  BY <1>1, <1>2 DEF GatewayInv, Kept
<1>7. \A z \in Sessions, r \in P : owed'[z][r] # 0 => z \in DOMAIN owner /\ Of(owed'[z][r], r)
  BY <1>5 DEF GatewayInv, Kept
<1>8. /\ Numbered' /\ Kept' /\ \A u \in Slot : task'[u] = IF u = t THEN Idle ELSE task[u]
      /\ \A p \in P \ crossed' : Settled(p)'
      /\ \A p \in P \ (crossed' \cup late') : Found(p)'
  BY <1>1, <1>3, <1>6, <1>7, QuietStep
<1>9. Alone'
  BY <1>3, <1>5, <1>8 DEF GatewayInv, Alone
<1>10. Asking'
  <2> SUFFICES ASSUME NEW u \in Slot, task'[u].at = "consume", owed'[task'[u].s][task'[u].q] # 0
               PROVE  cons[task'[u].s][task'[u].q] = 0
    BY <1>1 DEF Asking
  <2>1. u # t /\ task'[u] = task[u] /\ TaskOk(task[u]) /\ task[u].at = "consume"
    BY <1>3, <1>8 DEF GatewayInv, Kept
  <2>2. task[u].s \in Sessions /\ task[u].q \in P
    BY <2>1, SessionsFit DEF GatewayInv, TaskOk, Idle
  <2> QED
    BY <1>5, <2>1, <2>2 DEF GatewayInv, Asking
<1>11. Paid'
  <2> SUFFICES ASSUME NEW z \in open, NEW r \in P \ crossed, owed'[z][r] \in open
               PROVE  cons[z][r] = owed'[z][r]
                      \/ (\E u \in Slot : Serves(task[u], z, r, owed[z][r]))'
    BY <1>1 DEF Paid
  <2>1. z \in Sessions /\ owed'[z][r] # 0
    BY SessionsFit DEF GatewayInv, Kept
  <2>2. owed'[z][r] = owed[z][r] /\ ~(z = s /\ r \in dropped)
    BY <1>5, <2>1
  <2>3. cons[z][r] = owed[z][r] \/ \E u \in Slot : Serves(task[u], z, r, owed[z][r])
    BY <2>2 DEF GatewayInv, Paid
  <2>4. ASSUME NEW u \in Slot, Serves(task[u], z, r, owed[z][r])
        PROVE  Serves(task[u], z, r, owed[z][r])'
    <3>1. u # t
      BY <1>4, <2>2, <2>4
    <3> QED
      BY <1>1, <1>8, <2>2, <2>4, <3>1 DEF Serves
  <2> QED
    BY <2>2, <2>3, <2>4
<1> QED
  BY <1>8, <1>9, <1>10, <1>11 DEF GatewayInv

\* A step that leaves sessions, maps and handlers as they are.
LEMMA GatewayRests ==
  ASSUME GatewayInv, inRoom' \subseteq P,
         UNCHANGED <<gw, rt, owner, open, reg, tracks, cons, task, owed, crossed, late>>
  PROVE  GatewayInv'
<1>1. Numbered'
  BY DEF GatewayInv, Numbered, Busy
<1>2. Kept'
  BY DEF GatewayInv, Kept, TaskOk, Of
<1>3. Alone' /\ Asking' /\ Paid'
  BY DEF GatewayInv, Alone, Asking, Paid, Serves
<1>4. \A p \in P \ crossed' : Settled(p)'
  BY DEF GatewayInv, Settled, Moves
<1>5. \A p \in P \ (crossed' \cup late') : Found(p)'
  BY DEF GatewayInv, Found
<1> QED
  BY <1>1, <1>2, <1>3, <1>4, <1>5 DEF GatewayInv

LEMMA GatewayStep ==
  ASSUME GatewayInv, [RoutingNext]_routingVars
  PROVE  GatewayInv'
<1>1. CASE CloseRoom
  BY <1>1, CloseRoomStep
<1>2. CASE \E p \in P : Drop(p)
  <2>1. PICK p \in P : Drop(p)
    BY <1>2
  <2>2. inRoom' \subseteq P
        /\ UNCHANGED <<gw, rt, owner, open, reg, tracks, cons, task, owed, crossed, late>>
    BY <2>1 DEF Drop, GatewayInv, Kept
  <2> QED
    BY <2>2, GatewayRests
<1>3. ASSUME NEW t \in Slot, NEW p \in P,
             \/ Join(t, p) \/ Offer(t, p)
             \/ Handle(t, p, "publish", {}) \/ Handle(t, p, "leave", {}) \/ Handle(t, p, "subscribe", {})
             \/ \E q \in P \ {p} : Handle(t, p, "subscribe", {q})
      PROVE  GatewayInv'
  <2>1. CASE Join(t, p) \/ Offer(t, p)
    BY <2>1, JoinStep, OfferStep
  <2>2. ASSUME NEW kind \in {"publish", "leave", "subscribe"}, NEW to \in SUBSET P, Handle(t, p, kind, to)
        PROVE  GatewayInv'
    BY <2>2, HandleStep
  <2>3. CASE Handle(t, p, "publish", {}) \/ Handle(t, p, "leave", {}) \/ Handle(t, p, "subscribe", {})
    BY <2>2, <2>3
  <2>4. CASE \E q \in P \ {p} : Handle(t, p, "subscribe", {q})
    BY <2>2, <2>4
  <2> QED
    BY <1>3, <2>1, <2>3, <2>4
<1>4. ASSUME NEW t \in Slot,
             \/ Joined(t) \/ Refused(t) \/ Publish(t) \/ Published(t)
             \/ Subscribe(t) \/ Further(t) \/ Consumed(t) \/ NotConsumed(t)
      PROVE  GatewayInv'
  BY <1>4, JoinedStep, RefusedStep, PublishStep, PublishedStep, SubscribeStep, FurtherStep,
     ConsumedStep, NotConsumedStep
<1>5. ASSUME NEW t \in Slot,
             Leave(t) \/ Left(t) \/ Connected(t) \/ Produced(t) \/ NotProduced(t)
      PROVE  GatewayInv'
  BY <1>5, LeaveStep, LeftStep, ConnectedStep, ProducedStep, NotProducedStep
<1>6. CASE UNCHANGED routingVars
  <2>1. inRoom' \subseteq P
        /\ UNCHANGED <<gw, rt, owner, open, reg, tracks, cons, task, owed, crossed, late>>
    BY <1>6 DEF routingVars, GatewayInv, Kept
  <2> QED
    BY <2>1, GatewayRests
<1> QED
  BY <1>1, <1>2, <1>3, <1>4, <1>5, <1>6 DEF RoutingNext

\* With no handler in flight the invariant is what the gateway promises.
LEMMA GatewayAtRest ==
  ASSUME GatewayInv
  PROVE  GatewayHolds
<1>1. SessionsAgree
  <2> SUFFICES ASSUME AtRest
               PROVE  /\ \A p \in P \ crossed :
                           /\ IF gw[p] # 0 THEN gw[p] \in open /\ rt[p] = gw[p]
                                           ELSE rt[p] \notin open
                           /\ \A s \in open : owner[s] = p => gw[p] = s
                      /\ \A p \in P \ (crossed \cup late) :
                           /\ reg[p] # 0 => reg[p] = gw[p]
                           /\ p \in tracks => rt[p] # 0
    BY DEF SessionsAgree
  <2>1. ASSUME NEW p \in P \ crossed, gw[p] = 0
        PROVE  rt[p] \notin open
    <3>1. rt[p] \in open => rt[p] # 0 /\ Of(rt[p], p)
      BY SessionsFit DEF GatewayInv, Kept
    <3>2. rt[p] \in open => gw[p] # 0
      BY <3>1 DEF GatewayInv, Settled, Of
    <3> QED
      BY <2>1, <3>2
  <2> QED
    BY <2>1 DEF GatewayInv, Kept, Settled, Found
<1>2. Served
  <2>1. ASSUME AtRest, NEW t \in Slot
        PROVE  \A s, q, x : ~Serves(task[t], s, q, x)
    <3>1. task[t].at = "idle"
      BY <2>1 DEF AtRest, Idle
    <3> QED
      BY <3>1 DEF Serves
  <2> QED
    BY <2>1 DEF Served, GatewayInv, Paid
<1> QED
  BY <1>1, <1>2 DEF GatewayHolds

\* sfu-router.ts and mediasoup-adapter.ts together: once the handlers have settled, router and
\* adapter agree on who has a live session, and a subscribe got every live producer it was
\* owed, for any number of participants, of handlers in flight and of requests.
THEOREM GatewayAgrees == RoutingSpec => []GatewayHolds
<1> QED
  BY RoutingInitial, GatewayStep, GatewayAtRest, PTL DEF RoutingSpec


-----------------------------------------------------------------------------
(* The egress worker *)

\* While no call overlapped another, the one transport there may be is the handle's, a handle
\* is being made only where there is none, and one that is being stopped is closed.
AdapterInv ==
  /\ transports \subseteq C /\ stopping \in Nat /\ DOMAIN call = C
  /\ ~overlap => /\ transports \subseteq {handle}
                 /\ Creating => handle = Absent /\ stopping = 0
                 /\ \A c, d \in C : call[c] = "creating" /\ call[d] = "creating" => c = d
                 /\ stopping > 0 => transports = {}

\* The numbers given to onChunk are 0, 1, 2, ... up to the next index.
Numbers(n) == [i \in 1 .. n |-> i - 1]

\* A session whose flag is set before stop() reached it has ended by itself; one that is
\* placing its placeholder, or is done, was detached from its feed.
SessionOk(w) ==
  /\ idx[w] \in Nat /\ handed[w] = Numbers(idx[w])
  /\ stopped[w] /\ at[w] \notin {"placing", "done"} => endedFirst[w]
  /\ at[w] = "placing" => idx[w] >= 1 /\ ~fed[w]
  /\ at[w] = "done" /\ ~endedFirst[w] => result[w] \in Nat /\ result[w] >= 1 /\ ~fed[w]

WorkerInv ==
  /\ at \in [W -> {"idle", "importing", "running", "placing", "done"}]
  /\ DOMAIN proc = W /\ DOMAIN idx = W /\ DOMAIN handed = W /\ DOMAIN result = W
  /\ stopped \in [W -> BOOLEAN] /\ fed \in [W -> BOOLEAN] /\ endedFirst \in [W -> BOOLEAN]
  /\ \A w \in W : SessionOk(w)

LEMMA EgressInitial == EgressInit => AdapterInv /\ WorkerInv
<1> SUFFICES ASSUME EgressInit PROVE AdapterInv /\ WorkerInv
  OBVIOUS
<1>1. AdapterInv
  BY DEF EgressInit, AdapterInv, Creating
<1>2. Numbers(0) = <<>>
  BY DEF Numbers
<1>3. WorkerInv
  BY <1>2 DEF EgressInit, WorkerInv, SessionOk
<1> QED
  BY <1>1, <1>3

LEMMA AdapterStep ==
  ASSUME AdapterInv, stopEgress \/ Deleted \/ \E c \in C : startEgress(c) \/ Created(c)
  PROVE  AdapterInv'
<1> USE EgressAssumption
<1>1. \A c \in C : call[c] = "creating" => Creating
  BY DEF Creating
<1>2. CASE stopEgress
  <2>1. ~overlap' => ~overlap /\ ~Creating /\ ~(stopping > 0)
    BY <1>2, Zenon DEF stopEgress
  <2>2. stopping' \in Nat /\ transports' \subseteq transports /\ UNCHANGED <<call, handle>>
    BY <1>2 DEF stopEgress, StopHandle, AdapterInv
  <2>3. stopping' > 0 /\ ~(stopping > 0) => transports' = transports \ {handle}
    BY <1>2 DEF stopEgress, StopHandle
  <2>4. Creating' <=> Creating
    BY <2>2 DEF Creating
  <2> QED
    BY <1>1, <2>1, <2>2, <2>3, <2>4 DEF AdapterInv
<1>3. CASE Deleted
  BY <1>3 DEF AdapterInv, Deleted, Creating
<1>4. ASSUME NEW c \in C, startEgress(c)
      PROVE  AdapterInv'
  <2>1. ~overlap' => ~overlap /\ ~Creating /\ ~(stopping > 0)
    BY <1>4, Zenon DEF startEgress
  <2>2. /\ UNCHANGED <<handle, transports, stopping>>
        /\ \A d \in C : d # c => call'[d] = call[d]
        /\ call'[c] = "creating" => handle = Absent
    BY <1>4 DEF startEgress, AdapterInv
  <2>3. DOMAIN call' = C
    BY <1>4 DEF startEgress, AdapterInv
  <2> QED
    BY <1>1, <2>1, <2>2, <2>3 DEF AdapterInv, Creating
<1>5. ASSUME NEW c \in C, Created(c)
      PROVE  AdapterInv'
  <2>1. /\ call[c] = "creating" /\ handle' = c /\ UNCHANGED <<stopping, overlap>>
        /\ transports' \subseteq transports \cup {c}
        /\ DOMAIN call' = C /\ call'[c] = "done"
        /\ \A d \in C : d # c => call'[d] = call[d]
    BY <1>5 DEF Created, AdapterInv
  <2>2. Creating
    BY <2>1 DEF Creating
  <2>3. ~overlap => transports = {} /\ stopping = 0 /\ \A d \in C : call[d] = "creating" => d = c
    BY <2>1, <2>2 DEF AdapterInv
  <2> QED
    BY <2>1, <2>3 DEF AdapterInv, Creating
<1> QED
  BY <1>2, <1>3, <1>4, <1>5

\* Another chunk takes the next number.
LEMMA NextNumber ==
  ASSUME NEW n \in Nat
  PROVE  Append(Numbers(n), n) = Numbers(n + 1)
<1>1. Numbers(n) \in Seq(Int) /\ Len(Numbers(n)) = n
  BY DEF Numbers
<1>2. Numbers(n + 1) \in Seq(Int) /\ Len(Numbers(n + 1)) = n + 1
  BY DEF Numbers
<1>3. Append(Numbers(n), n) \in Seq(Int) /\ Len(Append(Numbers(n), n)) = n + 1
  BY <1>1
<1>4. \A i \in 1 .. n + 1 : Append(Numbers(n), n)[i] = Numbers(n + 1)[i]
  BY <1>1 DEF Numbers
<1> QED
  BY <1>2, <1>3, <1>4, SeqEqual

\* What one session's step may leave of the others, and must establish for itself.
LEMMA OneSessionMoves ==
  ASSUME WorkerInv, NEW w \in W, SessionOk(w)',
         at' \in [W -> {"idle", "importing", "running", "placing", "done"}],
         DOMAIN proc' = W /\ DOMAIN idx' = W /\ DOMAIN handed' = W /\ DOMAIN result' = W,
         stopped' \in [W -> BOOLEAN], fed' \in [W -> BOOLEAN], endedFirst' \in [W -> BOOLEAN],
         \A v \in W : v # w =>
           /\ at'[v] = at[v] /\ idx'[v] = idx[v] /\ handed'[v] = handed[v] /\ result'[v] = result[v]
           /\ stopped'[v] = stopped[v] /\ fed'[v] = fed[v] /\ endedFirst'[v] = endedFirst[v]
  PROVE  WorkerInv'
BY DEF WorkerInv, SessionOk

LEMMA WorkerStep ==
  ASSUME WorkerInv, NEW w \in W,
         \/ StartWorker(w) \/ Spawned(w) \/ Output(w) \/ Ended(w)
         \/ StopWorker(w) \/ Placed(w)
  PROVE  WorkerInv'
<1>1. SessionOk(w)
  BY DEF WorkerInv
<1>2. ASSUME Hand(w)
      PROVE  idx'[w] = idx[w] + 1 /\ handed'[w] = Numbers(idx[w] + 1) /\ idx'[w] \in Nat
             /\ DOMAIN idx' = W /\ DOMAIN handed' = W
             /\ \A v \in W : v # w => idx'[v] = idx[v] /\ handed'[v] = handed[v]
  <2>1. idx'[w] = idx[w] + 1 /\ handed'[w] = Append(Numbers(idx[w]), idx[w])
        /\ DOMAIN idx' = W /\ DOMAIN handed' = W
        /\ \A v \in W : v # w => idx'[v] = idx[v] /\ handed'[v] = handed[v]
    BY <1>1, <1>2 DEF Hand, WorkerInv, SessionOk
  <2>2. idx[w] \in Nat
    BY <1>1 DEF SessionOk
  <2>3. Append(Numbers(idx[w]), idx[w]) = Numbers(idx[w] + 1)
    BY <2>2, NextNumber
  <2> HIDE DEF Numbers
  <2> QED
    BY <2>1, <2>2, <2>3
<1>3. CASE StartWorker(w)
  <2>1. SessionOk(w)'
    BY <1>1, <1>3 DEF StartWorker, WorkerInv, SessionOk
  <2> QED
    BY <1>3, <2>1, OneSessionMoves DEF StartWorker, WorkerInv
<1>4. CASE Spawned(w)
  <2>1. SessionOk(w)'
    BY <1>1, <1>4 DEF Spawned, WorkerInv, SessionOk
  <2> QED
    BY <1>4, <2>1, OneSessionMoves DEF Spawned, WorkerInv
<1>5. CASE Output(w)
  <2>1. Hand(w) /\ UNCHANGED <<at, proc, stopped, fed, result, endedFirst>>
    BY <1>5 DEF Output
  <2>2. SessionOk(w)'
    BY <1>1, <1>2, <2>1 DEF SessionOk
  <2> QED
    BY <1>2, <2>1, <2>2, OneSessionMoves DEF WorkerInv
<1>6. CASE Ended(w)
  <2>1. SessionOk(w)'
    BY <1>1, <1>6 DEF Ended, WorkerInv, SessionOk
  <2> QED
    BY <1>6, <2>1, OneSessionMoves DEF Ended, WorkerInv
<1>7. CASE StopWorker(w)
  <2>1. CASE stopped[w]
    <3>1. at' = [at EXCEPT ![w] = "done"] /\ result' = [result EXCEPT ![w] = idx[w]]
          /\ UNCHANGED <<proc, idx, stopped, fed, handed, endedFirst>> /\ at[w] = "running"
      BY <1>7, <2>1 DEF StopWorker, Report
    <3>2. SessionOk(w)'
      BY <1>1, <2>1, <3>1 DEF WorkerInv, SessionOk
    <3> QED
      BY <3>1, <3>2, OneSessionMoves DEF WorkerInv
  <2>2. CASE ~stopped[w] /\ idx[w] = 0
    <3>1. /\ at' = [at EXCEPT ![w] = "placing"] /\ Hand(w) /\ stopped' = [stopped EXCEPT ![w] = TRUE]
          /\ fed' = [fed EXCEPT ![w] = FALSE] /\ DOMAIN proc' = W
          /\ UNCHANGED <<result, endedFirst>>
      BY <1>7, <2>2 DEF StopWorker, Place, Cleanup, WorkerInv
    <3>2. SessionOk(w)'
      BY <1>1, <1>2, <2>2, <3>1 DEF WorkerInv, SessionOk
    <3> QED
      BY <1>2, <3>1, <3>2, OneSessionMoves DEF WorkerInv
  <2>3. CASE ~stopped[w] /\ idx[w] # 0
    <3>1. /\ at' = [at EXCEPT ![w] = "done"] /\ stopped' = [stopped EXCEPT ![w] = TRUE]
          /\ fed' = [fed EXCEPT ![w] = FALSE] /\ DOMAIN proc' = W
          /\ result' = [result EXCEPT ![w] = idx[w]]
          /\ UNCHANGED <<idx, handed, endedFirst>>
      BY <1>7, <2>3 DEF StopWorker, Report, Cleanup, WorkerInv
    <3>2. SessionOk(w)'
      BY <1>1, <2>3, <3>1 DEF WorkerInv, SessionOk
    <3> QED
      BY <3>1, <3>2, OneSessionMoves DEF WorkerInv
  <2> QED
    BY <2>1, <2>2, <2>3
<1>8. CASE Placed(w)
  <2>1. SessionOk(w)'
    BY <1>1, <1>8 DEF Placed, Report, WorkerInv, SessionOk
  <2> QED
    BY <1>8, <2>1, OneSessionMoves DEF Placed, Report, WorkerInv
<1> QED
  BY <1>3, <1>4, <1>5, <1>6, <1>7, <1>8

LEMMA EgressStep ==
  ASSUME AdapterInv /\ WorkerInv, [EgressNext]_egressVars
  PROVE  (AdapterInv /\ WorkerInv)'
<1>1. ASSUME UNCHANGED worker
      PROVE  WorkerInv'
  BY <1>1 DEF worker, WorkerInv, SessionOk
<1>2. ASSUME UNCHANGED adapter
      PROVE  AdapterInv'
  BY <1>2 DEF adapter, AdapterInv, Creating
<1>3. CASE UNCHANGED egressVars
  BY <1>1, <1>2, <1>3 DEF egressVars
<1> QED
  BY <1>1, <1>2, <1>3, AdapterStep, WorkerStep DEF EgressNext

\* sfu-egress.ts and the adapter's egress calls: chunks are numbered without a gap, a stop()
\* that found the process running reports one and detaches the feed, and no transport is left
\* that a stop of the room would not close, for any number of sessions, chunks and calls.
THEOREM EgressEnds == EgressSpec => [](WorkerStops /\ EgressOwned)
<1>1. AdapterInv /\ WorkerInv => WorkerStops /\ EgressOwned
  BY DEF AdapterInv, WorkerInv, SessionOk, Numbers, WorkerStops, EgressOwned
<1> QED
  BY <1>1, EgressInitial, EgressStep, PTL DEF EgressSpec

-----------------------------------------------------------------------------
(* The transcription worker *)

\* Where a chunk is: in these batches under way, in these transcripts.
UnderwayOf(c) == {b \in underway : c \in Chunks(b.audio)}
SentOf(c) == {i \in DOMAIN out : c \in Chunks(out[i].audio)}

Batch == [audio : Seq(Nat), start : Nat]
Transcript == [room : Rooms \cup {NoRoom}, seq : Nat, audio : Seq(Nat), start : Nat, now : Nat]

\* Everything speaks of chunks that were pushed and of starts that there were.
Heard ==
  /\ from \in Seq(Nat) /\ \A c \in DOMAIN from : from[c] <= start
  /\ buffer \in Seq(Nat) /\ Chunks(buffer) \subseteq DOMAIN from
  /\ underway \subseteq Batch
  /\ \A b \in underway : Chunks(b.audio) \subseteq DOMAIN from /\ b.start \in 1 .. start
  /\ out \in Seq(Transcript)
  /\ \A i \in DOMAIN out : /\ Chunks(out[i].audio) \subseteq DOMAIN from
                           /\ out[i].start \in 1 .. start /\ out[i].now <= start
  /\ quiet \subseteq DOMAIN from
  /\ start \in Nat /\ where \in Seq(Rooms) /\ Len(where) = start
  /\ room # NoRoom => start >= 1 /\ room = where[start]
  /\ room \in Rooms \cup {NoRoom}

\* A chunk is in one of four places at most, in one batch or transcript of them, and in one of
\* them while the worker it was pushed to goes on.
Once(c) ==
  /\ \A a, b \in UnderwayOf(c) : a = b
  /\ \A i, j \in SentOf(c) : i = j
  /\ UnderwayOf(c) = {} \/ SentOf(c) = {}
  /\ c \in Chunks(buffer) \/ c \in quiet => UnderwayOf(c) = {} /\ SentOf(c) = {}
  /\ ~(c \in Chunks(buffer) /\ c \in quiet)
  /\ from[c] = start /\ room # NoRoom =>
       c \in Chunks(buffer) \/ c \in quiet \/ UnderwayOf(c) # {} \/ SentOf(c) # {}

\* The transcripts of one start, in the order they went out.
Earlier(i, s) == {j \in 1 .. i : out[j].now = s}

NumberedOn ==
  /\ seq \in Nat /\ seq = Cardinality(Earlier(Len(out), start))
  /\ \A i \in DOMAIN out :
       /\ out[i].seq = Cardinality(Earlier(i - 1, out[i].now))
       /\ out[i].now = out[i].start => out[i].room \in {where[out[i].start], NoRoom}

AudioInv == Heard /\ (\A c \in DOMAIN from : Once(c)) /\ NumberedOn

LEMMA AudioInitial == TranscriptionInit => AudioInv
<1> SUFFICES ASSUME TranscriptionInit PROVE AudioInv
  OBVIOUS
<1>1. from = <<>> /\ buffer = <<>> /\ out = <<>> /\ where = <<>> /\ underway = {} /\ quiet = {}
      /\ start = 0 /\ seq = 0 /\ room = NoRoom
  BY DEF TranscriptionInit
<1>2. Chunks(buffer) = {} /\ DOMAIN from = {} /\ DOMAIN out = {}
  BY <1>1 DEF Chunks
<1>3. Heard
  BY <1>1, <1>2 DEF Heard
<1>4. Earlier(Len(out), start) = {}
  BY <1>1 DEF Earlier
<1>5. NumberedOn
  BY <1>1, <1>2, <1>4, FS_EmptySet DEF NumberedOn
<1> QED
  BY <1>2, <1>3, <1>5 DEF AudioInv

\* What a sequence holds after one more.
LEMMA ChunksOfAppend ==
  ASSUME NEW b \in Seq(Nat), NEW c \in Nat
  PROVE  Append(b, c) \in Seq(Nat) /\ Chunks(Append(b, c)) = Chunks(b) \cup {c}
<1>1. Append(b, c) \in Seq(Nat) /\ Len(Append(b, c)) = Len(b) + 1 /\ Append(b, c)[Len(b) + 1] = c
      /\ \A i \in 1 .. Len(b) : Append(b, c)[i] = b[i]
  OBVIOUS
<1>2. DOMAIN b = 1 .. Len(b) /\ DOMAIN Append(b, c) = 1 .. Len(b) + 1 /\ Len(b) \in Nat
  BY <1>1
<1>3. 1 .. Len(b) + 1 = (1 .. Len(b)) \cup {Len(b) + 1}
  BY <1>2
<1> QED
  BY <1>1, <1>2, <1>3 DEF Chunks

\* The audio of the buffer goes under way in one batch: what was in no batch is in one.
LEMMA FlushStep ==
  ASSUME AudioInv, room # NoRoom,
         NEW b \in Seq(Nat), Flush(b),
         UNCHANGED <<room, seq, out, start, where, quiet>>,
         from' \in Seq(Nat), DOMAIN from \subseteq DOMAIN from',
         \A c \in DOMAIN from : from'[c] = from[c],
         \A c \in DOMAIN from' \ DOMAIN from : from'[c] = start /\ c \in Chunks(b),
         Chunks(buffer) \subseteq Chunks(b), Chunks(b) \subseteq DOMAIN from',
         Chunks(b) \cap DOMAIN from \subseteq Chunks(buffer)
  PROVE  AudioInv'
<1> DEFINE B == [audio |-> b, start |-> start]
<1>1. underway' = underway \cup {B} /\ buffer' = <<>> /\ Chunks(buffer') = {}
  BY DEF Flush, Chunks
<1>2. B \in Batch /\ B.audio = b /\ B.start = start
  BY DEF Batch, AudioInv, Heard
<1> HIDE DEF B
<1>3. Heard'
  <2>1. Heard
    BY DEF AudioInv
  <2>2. \A c \in DOMAIN from' : from'[c] <= start'
    <3> SUFFICES ASSUME NEW c \in DOMAIN from' PROVE from'[c] <= start'
      OBVIOUS
    <3>1. start' = start /\ start \in Nat
      BY <2>1 DEF Heard
    <3>2. CASE c \in DOMAIN from
      BY <2>1, <3>1, <3>2 DEF Heard
    <3>3. CASE c \notin DOMAIN from
      BY <3>1, <3>3
    <3> QED
      BY <3>2, <3>3
  <2>3. buffer' \in Seq(Nat) /\ Chunks(buffer)' \subseteq DOMAIN from'
    BY <1>1 DEF Chunks
  <2>4. underway' \subseteq Batch
        /\ \A u \in underway' : Chunks(u.audio) \subseteq DOMAIN from' /\ u.start \in 1 .. start'
    BY <1>1, <1>2, <2>1 DEF Heard
  <2>5. \A i \in DOMAIN out' : /\ Chunks(out'[i].audio) \subseteq DOMAIN from'
                               /\ out'[i].start \in 1 .. start' /\ out'[i].now <= start'
    BY <2>1 DEF Heard
  <2> QED
    BY <2>1, <2>2, <2>3, <2>4, <2>5 DEF Heard
<1>4. NumberedOn'
  BY DEF AudioInv, NumberedOn, Earlier
<1>5. ASSUME NEW c \in DOMAIN from'
      PROVE  Once(c)'
  <2>1. SentOf(c)' = SentOf(c)
    BY DEF SentOf
  <2>2. UnderwayOf(c)' = UnderwayOf(c) \cup (IF c \in Chunks(b) THEN {B} ELSE {})
    BY <1>1, <1>2 DEF UnderwayOf
  <2>3. CASE c \in DOMAIN from
    <3>1. Once(c)
      BY <2>3 DEF AudioInv
    <3>2. CASE c \in Chunks(b)
      <4>1. UnderwayOf(c) = {} /\ SentOf(c) = {} /\ c \notin quiet
        BY <2>3, <3>1, <3>2 DEF Once
      <4> QED
        BY <1>1, <2>1, <2>2, <3>2, <4>1 DEF Once
    <3>3. CASE c \notin Chunks(b)
      BY <1>1, <2>1, <2>2, <2>3, <3>1, <3>3 DEF Once
    <3> QED
      BY <3>2, <3>3
  <2>4. CASE c \notin DOMAIN from
    <3>1. UnderwayOf(c) = {} /\ SentOf(c) = {} /\ c \notin quiet
      BY <2>4 DEF AudioInv, Heard, UnderwayOf, SentOf
    <3>2. c \in Chunks(b)
      BY <2>4
    <3> QED
      BY <1>1, <2>1, <2>2, <3>1, <3>2 DEF Once
  <2> QED
    BY <2>3, <2>4
<1> QED
  BY <1>3, <1>4, <1>5 DEF AudioInv

\* A start: new transcripts are numbered from 0, and no chunk of before belongs to it.
LEMMA StartRoomKeeps ==
  ASSUME AudioInv, NEW r \in Rooms, StartRoom(r) PROVE AudioInv'
<1>1. room' = r /\ seq' = 0 /\ buffer' = <<>> /\ start' = start + 1 /\ where' = Append(where, r)
      /\ UNCHANGED <<underway, out, from, quiet>>
  BY DEF StartRoom
<1>2. Heard
  BY DEF AudioInv
<1>3. Chunks(buffer)' = {}
  BY <1>1 DEF Chunks
<1>4. where' \in Seq(Rooms) /\ Len(where') = start' /\ where'[start'] = r
      /\ \A k \in 1 .. start : where'[k] = where[k]
  BY <1>1, <1>2 DEF Heard
<1>5. Heard'
  <2>1. start \in Nat /\ start' = start + 1 /\ start' \in Nat /\ 1 .. start \subseteq 1 .. start'
    BY <1>1, <1>2 DEF Heard
  <2>2. \A c \in DOMAIN from' : from'[c] <= start'
    BY <1>1, <1>2, <2>1 DEF Heard
  <2>3. buffer' \in Seq(Nat) /\ Chunks(buffer)' \subseteq DOMAIN from'
    BY <1>1, <1>3
  <2>4. underway' \subseteq Batch
        /\ \A u \in underway' : Chunks(u.audio) \subseteq DOMAIN from' /\ u.start \in 1 .. start'
    BY <1>1, <1>2, <2>1 DEF Heard
  <2>5. \A i \in DOMAIN out' : /\ Chunks(out'[i].audio) \subseteq DOMAIN from'
                               /\ out'[i].start \in 1 .. start'
    BY <1>1, <1>2, <2>1 DEF Heard
  <2>6. \A i \in DOMAIN out' : out'[i].now <= start'
    <3> SUFFICES ASSUME NEW i \in DOMAIN out PROVE out[i].now <= start + 1
      BY <1>1
    <3>1. out[i] \in Transcript /\ out[i].now <= start
      BY <1>2 DEF Heard
    <3>2. out[i].now \in Nat
      BY <3>1 DEF Transcript
    <3> QED
      BY <2>1, <3>1, <3>2
  <2> QED
    BY <1>1, <1>2, <1>4, <2>1, <2>2, <2>3, <2>4, <2>5, <2>6 DEF Heard
<1>6. Earlier(Len(out), start)' = {}
  BY <1>1, <1>2 DEF Earlier, Heard
<1>7. \A i \in DOMAIN out : out[i].now = out[i].start => out[i].room \in {where'[out[i].start], NoRoom}
  BY <1>2, <1>4 DEF AudioInv, NumberedOn, Heard
<1>8. \A i \in DOMAIN out : out[i].seq = Cardinality(Earlier(i - 1, out[i].now))
  BY DEF AudioInv, NumberedOn
<1>9. NumberedOn'
  BY <1>1, <1>6, <1>7, <1>8, FS_EmptySet DEF NumberedOn, Earlier
<1>10. ASSUME NEW c \in DOMAIN from' PROVE Once(c)'
  <2>1. Once(c) /\ from[c] <= start /\ from[c] \in Nat
    BY <1>1, <1>2 DEF AudioInv, Heard
  <2>2. UnderwayOf(c)' = UnderwayOf(c) /\ SentOf(c)' = SentOf(c)
    BY <1>1 DEF UnderwayOf, SentOf
  <2>3. from'[c] # start'
    BY <1>1, <1>2, <2>1 DEF Heard
  <2> QED
    BY <1>1, <1>3, <2>1, <2>2, <2>3 DEF Once
<1> QED
  BY <1>5, <1>9, <1>10 DEF AudioInv

\* A stop: what is buffered is dropped, what is under way stays.
LEMMA StopRoomKeeps == ASSUME AudioInv, StopRoom PROVE AudioInv'
<1>1. room' = NoRoom /\ buffer' = <<>> /\ UNCHANGED <<seq, underway, out, from, start, where, quiet>>
  BY DEF StopRoom
<1>2. Chunks(buffer)' = {}
  BY <1>1 DEF Chunks
<1>3. Heard'
  BY <1>1, <1>2 DEF AudioInv, Heard
<1>4. NumberedOn'
  BY <1>1 DEF AudioInv, NumberedOn, Earlier
<1>5. ASSUME NEW c \in DOMAIN from' PROVE Once(c)'
  <2>1. Once(c)
    BY <1>1 DEF AudioInv
  <2>2. UnderwayOf(c)' = UnderwayOf(c) /\ SentOf(c)' = SentOf(c)
    BY <1>1 DEF UnderwayOf, SentOf
  <2> QED
    BY <1>1, <1>2, <2>1, <2>2 DEF Once
<1> QED
  BY <1>3, <1>4, <1>5 DEF AudioInv

LEMMA TimerKeeps == ASSUME AudioInv, Timer PROVE AudioInv'
<1>1. room # NoRoom /\ Flush(buffer)
      /\ UNCHANGED <<room, seq, out, from, start, where, quiet>>
  BY DEF Timer
<1>2. from \in Seq(Nat) /\ buffer \in Seq(Nat) /\ Chunks(buffer) \subseteq DOMAIN from
  BY DEF AudioInv, Heard
<1> QED
  BY <1>1, <1>2, FlushStep

\* A chunk pushed: it is the newest, and it is buffered or goes under way with the buffer.
LEMMA PushKeeps == ASSUME AudioInv, pushAudio PROVE AudioInv'
<1> DEFINE n == Len(from) + 1
           b == Append(buffer, n)
<1>1. room # NoRoom /\ from' = Append(from, start)
      /\ UNCHANGED <<room, seq, out, start, where, quiet>>
  BY DEF pushAudio
<1>2. Flush(b) \/ (buffer' = b /\ UNCHANGED underway)
  BY DEF pushAudio
<1>3. Heard
  BY DEF AudioInv
<1>4. n \in Nat /\ n \notin DOMAIN from /\ DOMAIN from' = DOMAIN from \cup {n} /\ from' \in Seq(Nat)
      /\ from'[n] = start /\ \A c \in DOMAIN from : from'[c] = from[c]
  BY <1>1, <1>3 DEF Heard
<1>5. b \in Seq(Nat) /\ Chunks(b) = Chunks(buffer) \cup {n}
  BY <1>3, <1>4, ChunksOfAppend DEF Heard
<1>6. Chunks(buffer) \subseteq DOMAIN from
  BY <1>3 DEF Heard
<1> HIDE DEF n, b
<1>7. CASE Flush(b)
  BY <1>1, <1>4, <1>5, <1>6, <1>7, FlushStep
<1>8. CASE buffer' = b /\ UNCHANGED underway
  <2>1. Chunks(buffer)' = Chunks(buffer) \cup {n}
    BY <1>5, <1>8 DEF Chunks
  <2>2. Heard'
    <3>1. buffer' \in Seq(Nat) /\ Chunks(buffer)' \subseteq DOMAIN from'
      BY <1>4, <1>5, <1>6, <1>8, <2>1
    <3>2. \A c \in DOMAIN from' : from'[c] <= start'
      BY <1>1, <1>3, <1>4 DEF Heard
    <3>3. underway' \subseteq Batch
          /\ \A u \in underway' : Chunks(u.audio) \subseteq DOMAIN from' /\ u.start \in 1 .. start'
      BY <1>1, <1>3, <1>4, <1>8 DEF Heard
    <3>4. \A i \in DOMAIN out' : /\ Chunks(out'[i].audio) \subseteq DOMAIN from'
                                 /\ out'[i].start \in 1 .. start' /\ out'[i].now <= start'
      BY <1>1, <1>3, <1>4 DEF Heard
    <3> QED
      BY <1>1, <1>3, <1>4, <3>1, <3>2, <3>3, <3>4 DEF Heard
  <2>3. NumberedOn'
    BY <1>1 DEF AudioInv, NumberedOn, Earlier
  <2>4. ASSUME NEW c \in DOMAIN from' PROVE Once(c)'
    <3>1. UnderwayOf(c)' = UnderwayOf(c) /\ SentOf(c)' = SentOf(c)
      BY <1>1, <1>8 DEF UnderwayOf, SentOf
    <3>2. CASE c = n
      <4>1. UnderwayOf(c) = {} /\ SentOf(c) = {} /\ c \notin quiet
        BY <1>3, <1>4, <3>2 DEF Heard, UnderwayOf, SentOf
      <4> QED
        BY <1>1, <2>1, <3>1, <3>2, <4>1 DEF Once
    <3>3. CASE c # n
      <4>1. c \in DOMAIN from /\ from'[c] = from[c]
        BY <1>4, <3>3
      <4>2. Once(c)
        BY <4>1 DEF AudioInv
      <4> QED
        BY <1>1, <2>1, <3>1, <3>3, <4>1, <4>2 DEF Once
    <3> QED
      BY <3>2, <3>3
  <2> QED
    BY <2>2, <2>3, <2>4 DEF AudioInv
<1> QED
  BY <1>2, <1>7, <1>8

\* An answer with a text: the batch becomes the next transcript.
LEMMA AnswerKeeps == ASSUME AudioInv, NEW b \in underway, Answer(b) PROVE AudioInv'
<1> DEFINE n == Len(out) + 1
           t == [room |-> room, seq |-> seq, audio |-> b.audio, start |-> b.start, now |-> start]
<1>1. underway' = underway \ {b} /\ out' = Append(out, t) /\ seq' = seq + 1
      /\ UNCHANGED <<room, buffer, from, start, where, quiet>>
  BY DEF Answer
<1>2. Heard /\ NumberedOn
  BY DEF AudioInv
<1>3. b \in Batch /\ b.audio \in Seq(Nat) /\ Chunks(b.audio) \subseteq DOMAIN from
      /\ b.start \in 1 .. start
  BY <1>2 DEF Heard, Batch
<1>4. t \in Transcript /\ t.audio = b.audio /\ t.start = b.start /\ t.now = start /\ t.seq = seq
      /\ t.room = room
  BY <1>2, <1>3 DEF Heard, NumberedOn, Transcript
<1> HIDE DEF t
<1>5. n \in Nat /\ n \notin DOMAIN out /\ DOMAIN out' = DOMAIN out \cup {n} /\ out' \in Seq(Transcript)
      /\ out'[n] = t /\ Len(out') = n /\ \A i \in DOMAIN out : out'[i] = out[i]
      /\ DOMAIN out = 1 .. Len(out) /\ Len(out) \in Nat
  BY <1>1, <1>2, <1>4 DEF Heard
<1>6. Heard'
  <2>1. \A i \in DOMAIN out' : /\ Chunks(out'[i].audio) \subseteq DOMAIN from'
                               /\ out'[i].start \in 1 .. start' /\ out'[i].now <= start'
    BY <1>1, <1>2, <1>3, <1>4, <1>5 DEF Heard
  <2>2. \A u \in underway' : Chunks(u.audio) \subseteq DOMAIN from' /\ u.start \in 1 .. start'
    BY <1>1, <1>2 DEF Heard
  <2>3. Chunks(buffer)' \subseteq DOMAIN from'
    BY <1>1, <1>2 DEF Heard, Chunks
  <2> QED
    BY <1>1, <1>2, <1>5, <2>1, <2>2, <2>3 DEF Heard
<1>7. \A i \in 0 .. Len(out), s \in Nat : Earlier(i, s)' = Earlier(i, s)
  BY <1>5 DEF Earlier
<1>8. Earlier(Len(out), start)' = Earlier(Len(out), start) \cup {n} /\ n \notin Earlier(Len(out), start)
  BY <1>1, <1>4, <1>5 DEF Earlier
<1>9. IsFiniteSet(Earlier(Len(out), start))
  <2>1. Earlier(Len(out), start) \subseteq 1 .. Len(out)
    BY DEF Earlier
  <2>2. IsFiniteSet(1 .. Len(out))
    BY <1>5, FS_Interval
  <2> QED
    BY <2>1, <2>2, FS_Subset
<1>10. seq' = Cardinality(Earlier(Len(out), start)') /\ seq' \in Nat
  <2>1. Cardinality(Earlier(Len(out), start) \cup {n}) = Cardinality(Earlier(Len(out), start)) + 1
    BY <1>8, <1>9, FS_AddElement
  <2> QED
    BY <1>1, <1>2, <1>8, <2>1 DEF NumberedOn
<1>11. \A i \in DOMAIN out' : out'[i].seq = Cardinality(Earlier(i - 1, out[i].now)')
  <2> SUFFICES ASSUME NEW i \in DOMAIN out'
               PROVE  out'[i].seq = Cardinality(Earlier(i - 1, out[i].now)')
    OBVIOUS
  <2>1. i \in Nat /\ i - 1 \in 0 .. Len(out) /\ out'[i] \in Transcript
    BY <1>5
  <2>2. PICK k \in Nat : k = out'[i].now
    BY <2>1 DEF Transcript
  <2>3. Earlier(i - 1, k)' = Earlier(i - 1, k)
    BY <1>7, <2>1
  <2>4. Earlier(i - 1, out[i].now)' = Earlier(i - 1, k)
    BY <2>2, <2>3 DEF Earlier
  <2>5. out'[i].seq = Cardinality(Earlier(i - 1, k))
    <3>1. CASE i = n
      BY <1>2, <1>4, <1>5, <2>2, <3>1 DEF NumberedOn
    <3>2. CASE i # n
      BY <1>2, <1>5, <2>2, <3>2 DEF NumberedOn
    <3> QED
      BY <3>1, <3>2
  <2> QED
    BY <2>4, <2>5
<1>12. \A i \in DOMAIN out' :
         out'[i].now = out'[i].start => out'[i].room \in {where'[out'[i].start], NoRoom}
  BY <1>1, <1>2, <1>3, <1>4, <1>5 DEF NumberedOn, Heard
<1>13. NumberedOn'
  BY <1>10, <1>11, <1>12 DEF NumberedOn
<1>14. ASSUME NEW c \in DOMAIN from' PROVE Once(c)'
  <2>1. Once(c)
    BY <1>1 DEF AudioInv
  <2>2. UnderwayOf(c)' = UnderwayOf(c) \ {b}
    BY <1>1 DEF UnderwayOf
  <2>3. SentOf(c)' = SentOf(c) \cup (IF c \in Chunks(b.audio) THEN {n} ELSE {})
    BY <1>4, <1>5 DEF SentOf
  <2>4. c \in Chunks(b.audio) <=> b \in UnderwayOf(c)
    BY DEF UnderwayOf
  <2>5. Chunks(buffer)' = Chunks(buffer)
    BY <1>1
  <2> HIDE DEF n
  <2> QED
    BY <1>1, <2>1, <2>2, <2>3, <2>4, <2>5 DEF Once
<1> QED
  BY <1>6, <1>13, <1>14 DEF AudioInv

\* An answer with nothing: the chunks of the batch are found silent.
LEMMA SilenceKeeps == ASSUME AudioInv, NEW b \in underway, AnswerNothing(b) PROVE AudioInv'
<1>1. underway' = underway \ {b} /\ quiet' = quiet \cup Chunks(b.audio)
      /\ UNCHANGED <<room, buffer, seq, out, from, start, where>>
  BY DEF AnswerNothing, Chunks
<1>2. Heard
  BY DEF AudioInv
<1>3. Chunks(buffer)' = Chunks(buffer) /\ Chunks(b.audio) \subseteq DOMAIN from
  BY <1>1, <1>2 DEF Heard
<1>4. Heard'
  BY <1>1, <1>2, <1>3 DEF Heard
<1>5. NumberedOn'
  BY <1>1 DEF AudioInv, NumberedOn, Earlier
<1>6. ASSUME NEW c \in DOMAIN from' PROVE Once(c)'
  <2>1. Once(c)
    BY <1>1 DEF AudioInv
  <2>2. UnderwayOf(c)' = UnderwayOf(c) \ {b} /\ SentOf(c)' = SentOf(c)
    BY <1>1 DEF UnderwayOf, SentOf
  <2>3. c \in Chunks(b.audio) <=> b \in UnderwayOf(c)
    BY DEF UnderwayOf
  <2> QED
    BY <1>1, <1>3, <2>1, <2>2, <2>3 DEF Once
<1> QED
  BY <1>4, <1>5, <1>6 DEF AudioInv

LEMMA AudioStep == AudioInv /\ [TranscriptionNext]_transcriptionVars => AudioInv'
<1> SUFFICES ASSUME AudioInv, [TranscriptionNext]_transcriptionVars PROVE AudioInv'
  OBVIOUS
<1>1. CASE TranscriptionNext
  BY <1>1, StartRoomKeeps, StopRoomKeeps, PushKeeps, TimerKeeps, AnswerKeeps, SilenceKeeps
  DEF TranscriptionNext
<1>2. CASE UNCHANGED transcriptionVars
  <2>1. UNCHANGED <<room, buffer, seq, underway, out, from, start, where, quiet>>
    BY <1>2 DEF transcriptionVars
  <2>2. Heard'
    BY <2>1 DEF AudioInv, Heard, Chunks
  <2>3. NumberedOn'
    BY <2>1 DEF AudioInv, NumberedOn, Earlier
  <2>4. ASSUME NEW c \in DOMAIN from' PROVE Once(c)'
    <3>1. Once(c)
      BY <2>1 DEF AudioInv
    <3> QED
      BY <2>1, <3>1 DEF Once, UnderwayOf, SentOf, Chunks
  <2> QED
    BY <2>2, <2>3, <2>4 DEF AudioInv
<1> QED
  BY <1>1, <1>2

\* The invariant counts.
LEMMA AtMostOne ==
  ASSUME NEW S, \A a, b \in S : a = b
  PROVE  Cardinality(S) = (IF S = {} THEN 0 ELSE 1)
<1>1. CASE S = {}
  BY <1>1, FS_EmptySet
<1>2. CASE S # {}
  <2>1. PICK a : a \in S
    BY <1>2
  <2>2. S = {a}
    BY <2>1
  <2> QED
    BY <1>2, <2>2, FS_Singleton
<1> QED
  BY <1>1, <1>2

LEMMA AudioCounted == AudioInv => AudioOnce
<1> SUFFICES ASSUME AudioInv PROVE AudioOnce
  OBVIOUS
<1>1. ASSUME NEW c \in DOMAIN from
      PROVE  /\ Batches(c) <= 1
             /\ from[c] = start /\ room # NoRoom =>
                  Batches(c) + (IF c \in Chunks(buffer) THEN 1 ELSE 0)
                             + (IF c \in quiet THEN 1 ELSE 0) = 1
  <2>1. Once(c)
    BY DEF AudioInv
  <2>2. Cardinality(UnderwayOf(c)) = (IF UnderwayOf(c) = {} THEN 0 ELSE 1)
    BY <2>1, AtMostOne DEF Once
  <2>3. Cardinality(SentOf(c)) = (IF SentOf(c) = {} THEN 0 ELSE 1)
    BY <2>1, AtMostOne DEF Once
  <2>4. Batches(c) = Cardinality(UnderwayOf(c)) + Cardinality(SentOf(c))
    BY DEF Batches, UnderwayOf, SentOf
  <2> QED
    BY <2>1, <2>2, <2>3, <2>4 DEF Once
<1>2. \A i \in DOMAIN out :
        /\ out[i].seq = Cardinality({j \in 1..(i - 1) : out[j].now = out[i].now})
        /\ out[i].now = out[i].start => out[i].room \in {where[out[i].start], NoRoom}
  BY DEF AudioInv, NumberedOn, Earlier
<1> QED
  BY <1>1, <1>2 DEF AudioOnce

\* Audio pushed to a transcription worker is transcribed once, however pushes, timer and late
\* answers cross, and the transcripts of a start are numbered in the order they go out
\* (transcription-worker.ts:81-107).
THEOREM AudioTranscribedOnce == TranscriptionSpec => []AudioOnce
<1>1. TranscriptionSpec => []AudioInv
  BY AudioInitial, AudioStep, PTL DEF TranscriptionSpec
<1> QED
  BY <1>1, AudioCounted, PTL

\* Both workers end as they should: every ffmpeg chunk is handed on once and in order, no
\* transport outlives a stop, and audio is transcribed once.
THEOREM WorkersEndWell == EgressSpec /\ TranscriptionSpec => []WorkersEnd
BY EgressEnds, AudioTranscribedOnce, PTL DEF WorkersEnd
=============================================================================
