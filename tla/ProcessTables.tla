---------------------------- MODULE ProcessTables ----------------------------
(***************************************************************************)
(* What the server keeps in maps of the process and not in a Store: bans,   *)
(* the lobby, raised hands and polls (packages/server/src/core.ts:206-278)  *)
(* and the egress registry (egress.ts), through the routes of http.ts.      *)
(*                                                                          *)
(* The routes for the lobby, bans, polls and hands pass the Store object    *)
(* first, where the functions of core.ts take a room id: every argument is  *)
(* one place off.  TheStore below is that object as a key of the maps.      *)
(* Rooms and participants exist throughout; RoomServer has their rows.      *)
(***************************************************************************)
EXTENDS Naturals, Sequences, FiniteSets

CONSTANTS Rm, Pid,     \* rooms, participants
          TheStore,    \* the Store of the server
          MaxClock,    \* bound on time
          MaxRoutes    \* bound on the calls

VARIABLES now,
          banStore,     \* of each room: who is banned until when; Never to lift, 0 for no entry
          lobbyStore,   \* of each room: who waits
          handQueue,    \* of each key: the queue
          pollStore,    \* of each key: [title, options] of its polls
          egress,       \* the egresses of the registry: [room, status, byRoom]
          routes,       \* calls so far
          sentence      \* of each room and participant: until when it was last banned (history)
vars == <<now, banStore, lobbyStore, handQueue, pollStore, egress, routes, sentence>>

Never == MaxClock + 10
Key == Rm \cup {TheStore}

Init ==
  /\ now = 1 /\ banStore = [r \in Rm |-> [p \in Pid |-> 0]] /\ lobbyStore = [r \in Rm |-> {}]
  /\ handQueue = [k \in Key |-> <<>>] /\ pollStore = [k \in Key |-> <<>>]
  /\ egress = <<>> /\ routes = 0
  /\ sentence = [r \in Rm |-> [p \in Pid |-> 0]]

Routed == routes < MaxRoutes /\ routes' = routes + 1

Elapse == /\ now < MaxClock /\ now' = now + 1
          /\ UNCHANGED <<banStore, lobbyStore, handQueue, pollStore, egress, routes, sentence>>

---- \* bans and the lobby

\* The ban of moderateRoom: a time of 0 is no time, and the ban stands until it is lifted
Ban(r, p, ttl) ==
  /\ Routed
  /\ LET until == IF ttl = 0 THEN Never ELSE now + ttl IN
       banStore' = [banStore EXCEPT ![r][p] = until] /\ sentence' = [sentence EXCEPT ![r][p] = until]
  /\ UNCHANGED <<now, lobbyStore, handQueue, pollStore, egress>>

Unban(r, p) ==
  /\ Routed
  /\ banStore' = [banStore EXCEPT ![r][p] = 0] /\ sentence' = [sentence EXCEPT ![r][p] = 0]
  /\ UNCHANGED <<now, lobbyStore, handQueue, pollStore, egress>>

Lapsed(until) == until <= now

\* isBanned of joinRoom drops an entry that has lapsed
isBanned(r, p) == banStore[r][p] # 0 /\ ~Lapsed(banStore[r][p])
Purged(r, p) == IF isBanned(r, p) THEN banStore ELSE [banStore EXCEPT ![r][p] = 0]

\* joinRoom of one who is not privileged: refused, or to the lobby of a locked room, where
\* the entry stays whatever becomes of the participant
Join(r, p, locked) ==
  /\ Routed /\ banStore' = Purged(r, p)
  /\ lobbyStore' = IF ~isBanned(r, p) /\ locked
                   THEN [lobbyStore EXCEPT ![r] = @ \cup {p}] ELSE lobbyStore
  /\ UNCHANGED <<now, handQueue, pollStore, egress, sentence>>

\* lobbyAdmitHandler: listLobbyWaiting of the Store object finds nobody, so the route
\* answers 400; lobbyListHandler and bansListHandler show nobody for the same reason
Waiting(k) == IF k \in Rm THEN lobbyStore[k] ELSE {}
Admit(r, p) ==
  /\ Routed
  /\ lobbyStore' = IF p \in Waiting(TheStore) THEN [lobbyStore EXCEPT ![r] = @ \ {p}] ELSE lobbyStore
  /\ UNCHANGED <<now, banStore, handQueue, pollStore, egress, sentence>>

---- \* hands and polls

enqueueHandTwice(k, x) == [handQueue EXCEPT ![k] = Append(@, x)]
enqueueHand(k, x) ==
  IF \E i \in DOMAIN handQueue[k] : handQueue[k][i] = x THEN handQueue
  ELSE [handQueue EXCEPT ![k] = Append(@, x)]
dequeueHand(k, x) == [handQueue EXCEPT ![k] = SelectSeq(@, LAMBDA y : y # x)]

\* handQueueHandler: the room's id joins or leaves the queue of the Store object
Hand(r, up) ==
  /\ Routed
  /\ handQueue' = IF up THEN enqueueHand(TheStore, r) ELSE dequeueHand(TheStore, r)
  /\ UNCHANGED <<now, banStore, lobbyStore, pollStore, egress, sentence>>

\* pollCreateHandler: the poll is kept under the Store object, and the creator's id is its
\* question, the question its options
PollCreate(r, p) ==
  /\ Routed
  /\ pollStore' = [pollStore EXCEPT ![TheStore] = Append(@, [title |-> p, votes |-> {}])]
  /\ UNCHANGED <<now, banStore, lobbyStore, handQueue, egress, sentence>>

\* pollVoteHandler: the room's id is taken for the poll's; no poll has it
PollOf(k, id) == {i \in DOMAIN pollStore[k] : i = id}
PollVote(r, p) ==
  /\ Routed
  /\ pollStore' = [k \in Key |-> [i \in DOMAIN pollStore[k] |->
                     IF k = TheStore /\ i \in PollOf(k, r)
                     THEN [pollStore[k][i] EXCEPT !.votes = @ \cup {p}] ELSE pollStore[k][i]]]
  /\ UNCHANGED <<now, banStore, lobbyStore, handQueue, egress, sentence>>

---- \* egress

\* startEgress: one record under its id and under its room
StartEgress(r) ==
  /\ Routed
  /\ egress' = Append(egress, [room |-> r, status |-> "running", byRoom |-> "running"])
  /\ UNCHANGED <<now, banStore, lobbyStore, handQueue, pollStore, sentence>>

\* stopEgressByRoom: both copies of every running egress of the room
Stopped(e) == [e EXCEPT !.status = "stopped", !.byRoom = "stopped"]
StopEgress(r) ==
  /\ Routed
  /\ egress' = [i \in DOMAIN egress |->
                  IF egress[i].room = r /\ egress[i].status = "running" THEN Stopped(egress[i])
                  ELSE egress[i]]
  /\ UNCHANGED <<now, banStore, lobbyStore, handQueue, pollStore, sentence>>

Next ==
  \/ Elapse
  \/ \E r \in Rm :
       \/ StartEgress(r) \/ StopEgress(r) \/ \E up \in BOOLEAN : Hand(r, up)
       \/ \E p \in Pid : \/ Unban(r, p) \/ Admit(r, p) \/ PollCreate(r, p) \/ PollVote(r, p)
                         \/ \E ttl \in 0..2 : Ban(r, p, ttl)
                         \/ \E b \in BOOLEAN : Join(r, p, b)

Spec == Init /\ [][Next]_vars

-----------------------------------------------------------------------------
\* Of any room and participant, whatever was banned, lifted, banned again with another time
\* and looked up in between: one counts as banned exactly until the last ban's end, and a
\* purge never takes a ban that stands (core.ts:224-231, 319-339).
BansLift == \A r \in Rm, p \in Pid : isBanned(r, p) <=> sentence[r][p] > now

\* Both entries of an egress tell the same, so that none stays running in the list of a
\* room that was stopped (egress.ts:51-71).
EgressTold == \A i \in DOMAIN egress : egress[i].status = egress[i].byRoom
TablesExact == BansLift /\ EgressTold
=============================================================================
