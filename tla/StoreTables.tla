------------------------------ MODULE StoreTables ------------------------------
(***************************************************************************)
(* The tables of the server's five stores that RoomServer, RoomAdmin and   *)
(* SharedServers leave alone: bans, recordings, lobby, hand queue and polls *)
(* of one room, as callers share them.                                     *)
(*                                                                         *)
(* A method of a store is a program of statements.  InMemoryStore and      *)
(* SqliteStore run a method without a pause; the others wait for every     *)
(* statement, so that the statements of two methods interleave.  There is  *)
(* one recording, one participant is banned, several vote, wait in the     *)
(* lobby and raise their hands.                                            *)
(***************************************************************************)
EXTENDS Integers, Sequences, FiniteSets, SequencesExt

CONSTANTS
  Kind,     \* stores explored
  Pid,      \* participants who vote and raise their hands
  Caller,   \* requests under way
  MaxCalls  \* bound: methods called

VARIABLES
  kind,    \* the store
  db,      \* its rows: [ban, idx, rec, ridx, ridxAll, poll, pidx, votes, hands,
           \* lobby]; a ban is "none", "live" or "expired", idx, ridx, ridxAll
           \* and pidx are Redis' sets of ids
  task,    \* Caller -> the method it is in: [op, pid, left, mem]
  banned,  \* a ban was put and nothing has taken it back since
  raced,   \* a method that may remove a ban overlapped the last putBan
  voted,   \* participants whose vote was acknowledged
  clash,   \* ... and whose vote overlapped another writer of the poll
  twice,   \* participants who raised their hands twice at once
  owed,    \* Pid -> entries of the lobby it asked for less its admissions
  asked,   \* the poll was put: its id is never used again
  calls

history == <<banned, raced, voted, clash, twice, owed, asked>>
vars == <<kind, db, task, history, calls>>

Idle == [op |-> "none", pid |-> CHOOSE p \in Pid : TRUE, left |-> <<>>,
         mem |-> [ban |-> "none", rec |-> FALSE, votes |-> {}, hands |-> <<>>, listed |-> FALSE, poll |-> FALSE, done |-> FALSE]]

Init ==
  /\ kind \in Kind
  /\ db = [ban |-> "none", idx |-> FALSE, rec |-> FALSE, ridx |-> FALSE, ridxAll |-> FALSE,
           poll |-> FALSE, pidx |-> FALSE, votes |-> {}, hands |-> <<>>, lobby |-> {}]
  /\ task = [c \in Caller |-> Idle]
  /\ banned = FALSE /\ raced = FALSE /\ voted = {} /\ clash = {} /\ twice = {} /\ owed = [p \in Pid |-> 0] /\ asked = FALSE
  /\ calls = 0

-----------------------------------------------------------------------------
(* The methods, as programs.                                               *)

InMemoryBans == [putBan |-> <<"upsertBan">>, deleteBan |-> <<"dropBan">>,
  getBan |-> <<"readBan", "dropBan">>, listBans |-> <<"purgeBans">>]
SqliteBans == [putBan |-> <<"upsertBan">>, deleteBan |-> <<"dropBan">>,
  getBan |-> <<"readBan", "dropBan">>, listBans |-> <<"purgeBans">>]
MysqlBans == [putBan |-> <<"upsertBan">>, deleteBan |-> <<"dropBan">>,
  getBan |-> <<"readBan", "dropBan">>, listBans |-> <<"purgeBans">>]
PostgresBans == [putBan |-> <<"upsertBan">>, deleteBan |-> <<"dropBan">>,
  getBan |-> <<"readBan", "dropBan">>, listBans |-> <<"purgeBans">>]

\* Faulty variant: a banned id is not added to the set.
RedisBansUnindexed == [putBan |-> <<"upsertBan">>,
  deleteBan |-> <<"dropBan", "unindexBan">>, getBan |-> <<"readBan", "dropBan", "unindexBan">>,
  listBans |-> <<"readIds", "readListed", "dropListed", "unindexBan">>]

\* The key of a ban and the set of banned ids are two keys.
RedisBans == [putBan |-> <<"upsertBan", "indexBan">>,
  deleteBan |-> <<"dropBan", "unindexBan">>, getBan |-> <<"readBan", "dropBan", "unindexBan">>,
  listBans |-> <<"readIds", "readListed", "dropListed", "unindexBan">>]

InMemoryRecordings == [putRecording |-> <<"upsertRec">>, deleteRecording |-> <<"dropRec">>]
SqliteRecordings == [putRecording |-> <<"upsertRec">>, deleteRecording |-> <<"dropRec">>]
MysqlRecordings == [putRecording |-> <<"upsertRec">>, deleteRecording |-> <<"dropRec">>]
PostgresRecordings == [putRecording |-> <<"upsertRec">>, deleteRecording |-> <<"dropRec">>]

\* The row, the set of the room and the set of all recordings.
RedisRecordings == [putRecording |-> <<"upsertRec", "indexRec", "indexAll">>,
  deleteRecording |-> <<"readRec", "unindexRec", "unindexAll", "dropRec">>]

InMemoryLobby == [putLobby |-> <<"enterLobby">>, deleteLobby |-> <<"leaveLobby">>]
SqliteLobby == [putLobby |-> <<"enterLobby">>, deleteLobby |-> <<"leaveLobby">>]
MysqlLobby == [putLobby |-> <<"enterLobby">>, deleteLobby |-> <<"leaveLobby">>]
PostgresLobby == [putLobby |-> <<"enterLobby">>, deleteLobby |-> <<"leaveLobby">>]
\* The time of entry has a key of its own, left out here.
RedisLobby == [putLobby |-> <<"enterLobby">>, deleteLobby |-> <<"leaveLobby">>]

InMemoryHands == [addHand |-> <<"readHands", "placeHand">>, removeHand |-> <<"dropHand">>]
SqliteHands == [addHand |-> <<"readHands", "placeHand">>, removeHand |-> <<"dropHand">>]
MysqlHands == [addHand |-> <<"insertHand">>, removeHand |-> <<"dropHand">>]

\* Faulty variant: ON CONFLICT DO UPDATE.
PostgresHandsMoved == [addHand |-> <<"placeHand">>, removeHand |-> <<"dropHand">>]
PostgresHands == [addHand |-> <<"insertHand">>, removeHand |-> <<"dropHand">>]
RedisHands == [addHand |-> <<"readHands", "placeHand">>, removeHand |-> <<"dropHand">>]

InMemoryPolls == [putPoll |-> <<"upsertPoll">>, votePoll |-> <<"readPoll", "writePoll">>]
SqlitePolls == [putPoll |-> <<"upsertPoll">>, votePoll |-> <<"readPoll", "writePoll">>]
MysqlPolls == [putPoll |-> <<"upsertPoll">>, votePoll |-> <<"readPoll", "writePoll">>]
PostgresPolls == [putPoll |-> <<"upsertPoll">>, votePoll |-> <<"readPoll", "writePoll">>]
\* SET brings back a poll that is gone, UPDATE does not.
RedisPolls == [putPoll |-> <<"upsertPoll", "indexPoll">>, votePoll |-> <<"readPoll", "setPoll">>]

InMemoryDelete == [deleteRoom |-> <<"dropRec", "dropBan", "dropLobbies", "dropHands", "dropPoll">>]
SqliteDelete == [deleteRoom |-> <<"dropRec", "dropBan", "dropLobbies", "dropHands", "dropPoll">>]
MysqlDelete == [deleteRoom |-> <<"dropRec", "dropBan", "dropLobbies", "dropHands", "dropPoll">>]
PostgresDelete == [deleteRoom |-> <<"dropRec", "dropBan", "dropLobbies", "dropHands", "dropPoll">>]
RedisDelete == [deleteRoom |-> <<"noteIds", "unindexNoted", "dropKeys">>]

Programs ==
  [inmemory |-> InMemoryBans @@ InMemoryRecordings @@ InMemoryLobby @@ InMemoryHands
                @@ InMemoryPolls @@ InMemoryDelete,
   sqlite |-> SqliteBans @@ SqliteRecordings @@ SqliteLobby @@ SqliteHands @@ SqlitePolls @@ SqliteDelete,
   mysql |-> MysqlBans @@ MysqlRecordings @@ MysqlLobby @@ MysqlHands @@ MysqlPolls @@ MysqlDelete,
   postgres |-> PostgresBans @@ PostgresRecordings @@ PostgresLobby @@ PostgresHands @@ PostgresPolls @@ PostgresDelete,
   redis |-> RedisBans @@ RedisRecordings @@ RedisLobby @@ RedisHands @@ RedisPolls @@ RedisDelete]

-----------------------------------------------------------------------------
(* The statements: what one does to the rows d and what its method has     *)
(* read, m.  After an early return (m.done) nothing happens.               *)

Done(m, b) == [m EXCEPT !.done = b]
Without(s, p) == SelectSeq(s, LAMBDA q : q # p)
Has(s, p) == \E i \in DOMAIN s : s[i] = p

BanStatement(s, d, m) ==
  CASE s = "upsertBan" -> <<[d EXCEPT !.ban = "live"], m>>
    [] s = "indexBan" -> <<[d EXCEPT !.idx = TRUE], m>>
    [] s = "dropBan" -> <<[d EXCEPT !.ban = "none"], m>>
    [] s = "unindexBan" -> <<[d EXCEPT !.idx = FALSE], m>>
    [] s = "purgeBans" -> <<[d EXCEPT !.ban = IF @ = "expired" THEN "none" ELSE @], m>>
    [] s = "readBan" -> <<d, Done(m, d.ban # "expired")>>
    [] s = "readIds" -> <<d, Done(m, ~d.idx)>>
    [] s = "readListed" -> <<d, Done([m EXCEPT !.ban = d.ban], d.ban = "live")>>
    [] s = "dropListed" -> <<[d EXCEPT !.ban = IF m.ban = "expired" THEN "none" ELSE @], m>>

RecStatement(s, d, m) ==
  CASE s = "upsertRec" -> <<[d EXCEPT !.rec = TRUE], m>>
    [] s = "indexRec" -> <<[d EXCEPT !.ridx = TRUE], m>>
    [] s = "indexAll" -> <<[d EXCEPT !.ridxAll = TRUE], m>>
    [] s = "readRec" -> <<d, [m EXCEPT !.rec = d.rec]>>
    [] s = "unindexRec" -> <<[d EXCEPT !.ridx = @ /\ ~m.rec], m>>
    [] s = "unindexAll" -> <<[d EXCEPT !.ridxAll = FALSE], m>>
    [] s = "dropRec" -> <<[d EXCEPT !.rec = FALSE], m>>

\* A deletion answers whether there was a row.
LobbyStatement(s, d, m, p) ==
  CASE s = "enterLobby" -> <<[d EXCEPT !.lobby = @ \cup {p}], m>>
    [] s = "leaveLobby" -> <<[d EXCEPT !.lobby = @ \ {p}], Done(m, p \notin d.lobby)>>
    [] s = "readLobby" -> <<d, Done(m, p \notin d.lobby)>>
    [] s = "dropLobby" -> <<[d EXCEPT !.lobby = @ \ {p}], m>>

HandStatement(s, d, m, p) ==
  CASE s = "readHands" -> <<d, Done(m, Has(d.hands, p))>>
    [] s = "placeHand" -> <<[d EXCEPT !.hands = Append(Without(@, p), p)], m>>
    [] s = "insertHand" -> <<[d EXCEPT !.hands = IF Has(@, p) THEN @ ELSE Append(@, p)], m>>
    [] s = "dropHand" -> <<[d EXCEPT !.hands = Without(@, p)], m>>

PollStatement(s, d, m, p) ==
  CASE s = "readPoll" -> <<d, Done([m EXCEPT !.votes = d.votes], ~d.poll)>>
    [] s = "writePoll" -> <<[d EXCEPT !.votes = IF d.poll THEN m.votes \cup {p} ELSE @], m>>
    [] s = "upsertPoll" -> <<[d EXCEPT !.poll = TRUE, !.votes = {}], m>>
    [] s = "indexPoll" -> <<[d EXCEPT !.pidx = TRUE], m>>
    [] s = "setPoll" -> <<[d EXCEPT !.poll = TRUE, !.votes = m.votes \cup {p}], m>>

RoomStatement(s, d, m) ==
  CASE s = "dropHands" -> <<[d EXCEPT !.hands = <<>>], m>>
    [] s = "dropLobbies" -> <<[d EXCEPT !.lobby = {}], m>>
    [] s = "dropPoll" -> <<[d EXCEPT !.poll = FALSE, !.votes = {}], m>>
    [] s = "noteIds" -> <<d, [m EXCEPT !.listed = d.idx, !.rec = d.ridx, !.poll = d.pidx]>>
    [] s = "unindexNoted" -> <<[d EXCEPT !.ridxAll = @ /\ ~m.rec], m>>
    [] s = "dropKeys" -> <<[d EXCEPT !.ban = IF m.listed THEN "none" ELSE @, !.hands = <<>>,
                                     !.idx = FALSE, !.poll = @ /\ ~m.poll, !.pidx = FALSE,
                                     !.rec = @ /\ ~m.rec, !.ridx = FALSE, !.lobby = {},
                                     !.votes = IF m.poll THEN {} ELSE @], m>>

Exec(s, st, p) ==
  LET d == st[1]
      m == st[2]
  IN CASE m.done -> st
       [] s \in {"upsertRec", "indexRec", "indexAll", "readRec", "unindexRec", "unindexAll",
                 "dropRec"} -> RecStatement(s, d, m)
       [] s \in {"enterLobby", "leaveLobby", "readLobby", "dropLobby"} -> LobbyStatement(s, d, m, p)
       [] s \in {"readHands", "placeHand", "insertHand", "dropHand"} -> HandStatement(s, d, m, p)
       [] s \in {"readPoll", "writePoll", "setPoll", "upsertPoll", "indexPoll"}
            -> PollStatement(s, d, m, p)
       [] s \in {"dropHands", "dropPoll", "dropLobbies", "noteIds", "unindexNoted", "dropKeys"}
            -> RoomStatement(s, d, m)
       [] OTHER -> BanStatement(s, d, m)

-----------------------------------------------------------------------------
(* Callers.                                                                *)

Removers == {"getBan", "listBans", "deleteBan", "deleteRoom"}
In(ops) == {c \in Caller : task[c].op \in ops}

\* What a method that starts says about the ones under way.
Started(op, p) ==
  /\ banned' = (banned /\ op \notin {"deleteBan", "deleteRoom"})
  /\ raced' = CASE op = "putBan" -> In(Removers) # {}
                [] op \in Removers -> raced \/ In({"putBan"}) # {}
                [] OTHER -> raced
  /\ LET others == {task[c].pid : c \in In({"votePoll"})} IN
       clash' = CASE op = "votePoll" /\ (others # {} \/ In({"deleteRoom"}) # {})
                       -> clash \cup others \cup {p}
                  [] op = "deleteRoom" -> clash \cup others
                  [] OTHER -> clash
  /\ voted' = IF op = "deleteRoom" THEN {} ELSE voted
  /\ owed' = IF op = "putLobby" THEN [owed EXCEPT ![p] = @ + 1] ELSE owed
  /\ twice' = IF op = "addHand" /\ \E c \in In({"addHand"}) : task[c].pid = p
              THEN twice \cup {p} ELSE twice

Returned(op, p, m) ==
  /\ banned' = (banned \/ op = "putBan")
  /\ voted' = IF op = "votePoll" /\ ~m.done THEN voted \cup {p} ELSE voted
  /\ owed' = IF op = "deleteLobby" /\ ~m.done THEN [owed EXCEPT ![p] = @ - 1] ELSE owed
  /\ UNCHANGED <<raced, clash, twice, asked>>

Atomic == kind \in {"inmemory", "sqlite"}

\* A method runs through; or its first statement is yet to come.
Call(c, op, p) ==
  LET program == Programs[kind][op] IN
  /\ task[c] = Idle /\ calls < MaxCalls /\ calls' = calls + 1
  /\ (op = "putPoll" => ~asked) /\ asked' = (asked \/ op = "putPoll")
  /\ IF Atomic
     THEN LET st == FoldLeft(LAMBDA a, s : Exec(s, a, p), <<db, Idle.mem>>, program) IN
          /\ db' = st[1] /\ UNCHANGED <<task, raced, clash, twice>>
          /\ banned' = (op = "putBan" \/ (banned /\ op \notin {"deleteBan", "deleteRoom"}))
          /\ owed' = CASE op = "putLobby" -> [owed EXCEPT ![p] = @ + 1]
                       [] op = "deleteLobby" /\ ~st[2].done -> [owed EXCEPT ![p] = @ - 1]
                       [] OTHER -> owed
          /\ voted' = CASE op = "votePoll" /\ ~st[2].done -> voted \cup {p}
                        [] op = "deleteRoom" -> {}
                        [] OTHER -> voted
     ELSE /\ task' = [task EXCEPT ![c] = [Idle EXCEPT !.op = op, !.pid = p, !.left = program]]
          /\ Started(op, p) /\ UNCHANGED db
  /\ UNCHANGED kind

Statement(c) ==
  LET t == task[c]
      st == Exec(Head(t.left), <<db, t.mem>>, t.pid)
      last == Len(t.left) = 1 \/ st[2].done
  IN /\ t.left # <<>> /\ db' = st[1]
     /\ IF last THEN task' = [task EXCEPT ![c] = Idle] /\ Returned(t.op, t.pid, st[2])
        ELSE /\ task' = [task EXCEPT ![c] = [t EXCEPT !.left = Tail(@), !.mem = st[2]]]
             /\ UNCHANGED history
     /\ UNCHANGED <<kind, calls>>

\* The time of the ban is up.
Expire ==
  /\ db.ban = "live" /\ db' = [db EXCEPT !.ban = "expired"] /\ banned' = FALSE
  /\ In({"putBan"}) = {}
  /\ UNCHANGED <<kind, task, raced, voted, clash, twice, owed, asked, calls>>

Next ==
  \/ \E c \in Caller :
       \/ Statement(c)
       \/ \E op \in {"putBan", "getBan", "listBans", "deleteBan", "deleteRoom", "putPoll",
                   "putRecording", "deleteRecording"} :
            Call(c, op, Idle.pid)
       \/ \E op \in {"addHand", "removeHand", "votePoll", "putLobby", "deleteLobby"},
            p \in Pid : Call(c, op, p)
  \/ Expire

Spec == Init /\ [][Next]_vars

-----------------------------------------------------------------------------
(* Properties.                                                             *)

AtRest == \A c \in Caller : task[c] = Idle

\* A ban that was put, not lifted and not over is on record and listed, unless
\* a method that removes bans, be it only to clean up, overlapped the putBan.
BanHolds ==
  AtRest /\ banned /\ ~raced => db.ban = "live" /\ (kind = "redis" => db.idx)

\* An acknowledged vote counts, unless another vote or the deletion of the room
\* overlapped it.
VotesKept == AtRest => voted \ clash \subseteq db.votes

\* A recording that stays on record stays in the list the retention sweep reads,
\* whichever puts and deletions interleave.
RecordingsSwept == AtRest /\ kind = "redis" /\ db.rec => db.ridxAll

\* Who waits in the lobby is let in once for each time it came, however many
\* moderators admit it at once.
AdmittedOnce == \A p \in Pid : owed[p] >= 0

\* Before(s, x, y): x stands before y in the sequence s.
Before(s, x, y) == \E i, j \in DOMAIN s : i < j /\ s[i] = x /\ s[j] = y

\* Two hands that are up and stay up never change places, whoever raises again
\* and whichever methods interleave, unless a participant raised its hand twice
\* at once.
HandsKept ==
  \A x, y \in Pid :
    Before(db.hands, x, y) /\ Has(db'.hands, x) /\ Has(db'.hands, y) /\ x \notin twice
      => Before(db'.hands, x, y) /\ ~Before(db'.hands, y, x)
HandsInOrder == [][HandsKept]_vars
=============================================================================
