--------------------------- MODULE MCServerParts ---------------------------
(***************************************************************************)
(* TLC instance of the services around the room core and the SFU gateway:   *)
(* administration and recording rows, stores and relays of several          *)
(* processes, the tables of the stores, tokens, the tables of one process,  *)
(* the gateway's router, the egress and the transcription workers.  They    *)
(* share no state: every behaviour is of one of them, chosen by `part`.     *)
(* The variables of Tokens, SfuRouting, EgressWorkers and Transcription     *)
(* move only in their parts; v1, v2, ... are those of the other modules in  *)
(* the order of their declaration, 0 in the parts that use none.            *)
(***************************************************************************)
EXTENDS Tokens, SfuRouting, EgressWorkers, Transcription, TLC

CONSTANTS Part,      \* the parts to check
          Two, Far, Caller

VARIABLES part,      \* the part this behaviour is of
          v1, v2, v3, v4, v5, v6, v7, v8, v9, v10, v11, v12, v13, v14
others == <<v1, v2, v3, v4, v5, v6, v7, v8, v9, v10, v11, v12, v13, v14>>

Admin == INSTANCE RoomAdmin WITH
  row <- v1, members <- v2, rec <- v3, bytes <- v4, manifest <- v5, store <- v6, task <- v7,
  made <- v8, history <- v9, calls <- v10, Pid <- Two, Session <- {"s1"}, Handler <- Caller,
  Cap <- 1, MaxN <- 3
Shared == INSTANCE SharedServers WITH
  kind <- v1, rows <- v2, index <- v3, log <- v4, counter <- v5, sig <- v6, conn <- v7,
  subs <- v8, wire <- v9, got <- v10, poller <- v11, deletion <- v12, history <- v13,
  calls <- v14, Client <- Two \cup {Far}, Near <- Two, MaxE <- 2
Tables == INSTANCE StoreTables WITH
  kind <- v1, db <- v2, task <- v3, banned <- v4, raced <- v5, voted <- v6, clash <- v7,
  twice <- v8, owed <- v9, asked <- v10, calls <- v11,
  Kind <- {"inmemory", "sqlite", "mysql", "postgres", "redis"}, Pid <- {"a", "b"}
Process == INSTANCE ProcessTables WITH
  now <- v1, banStore <- v2, lobbyStore <- v3, handQueue <- v4, pollStore <- v5, egress <- v6,
  routes <- v7, sentence <- v8, Rm <- Two, Pid <- Caller, TheStore <- None, MaxClock <- 3,
  MaxRoutes <- 3

\* A variable the part does not use
Off(v) == v = 0

Start ==
  \/ part = "admin" /\ Admin!Init /\ Admin!StoreStart
     /\ Off(v11) /\ Off(v12) /\ Off(v13) /\ Off(v14)
  \/ part = "shared" /\ Shared!Init
  \/ part = "tables" /\ Tables!Init
     /\ Off(v12) /\ Off(v13) /\ Off(v14)
  \/ part = "process" /\ Process!Init
     /\ Off(v9) /\ Off(v10) /\ Off(v11) /\ Off(v12) /\ Off(v13) /\ Off(v14)
  \/ part \in {"tokens", "routing", "egress", "transcription"}
     /\ Off(v1) /\ Off(v2) /\ Off(v3) /\ Off(v4) /\ Off(v5) /\ Off(v6) /\ Off(v7) /\ Off(v8)
     /\ Off(v9) /\ Off(v10) /\ Off(v11) /\ Off(v12) /\ Off(v13) /\ Off(v14)

\* The gateway has its sessions of before only in its own part
PartsInit ==
  /\ part \in Part /\ Start
  /\ Init /\ EgressInit /\ TranscriptionInit
  /\ RoutingInit /\ (part # "routing" => open = {})

Step ==
  \/ part = "admin" /\ Admin!Next /\ UNCHANGED <<v11, v12, v13, v14>>
  \/ part = "shared" /\ Shared!Next
  \/ part = "tables" /\ Tables!Next /\ UNCHANGED <<v12, v13, v14>>
  \/ part = "process" /\ Process!Next /\ UNCHANGED <<v9, v10, v11, v12, v13, v14>>

PartsNext ==
  /\ UNCHANGED part
  /\ \/ part = "tokens" /\ Next /\ UNCHANGED <<routingVars, egressVars, transcriptionVars, others>>
     \/ part = "routing" /\ RoutingNext /\ UNCHANGED <<vars, egressVars, transcriptionVars, others>>
     \/ part = "egress" /\ EgressNext /\ UNCHANGED <<vars, routingVars, transcriptionVars, others>>
     \/ part = "transcription" /\ TranscriptionNext /\ UNCHANGED <<vars, routingVars, egressVars, others>>
     \/ Step /\ UNCHANGED <<vars, routingVars, egressVars, transcriptionVars>>

PartsSpec == PartsInit /\ [][PartsNext]_<<part, vars, routingVars, egressVars, transcriptionVars, others>>

----
PartsSymmetry == Permutations(Two) \cup Permutations(Caller)

\* No deleted room returns and nobody is lost on the way to a breakout room; a manifest names
\* chunks that can be read, and a deleted recording leaves nothing behind.
AdminHolds ==
  part = "admin" => /\ Admin!NoRevival /\ Admin!MovedNotLost
                    /\ Admin!ManifestReadable /\ Admin!RecordingGone

\* Over stores and relays of two processes, every envelope reaches each member once, a cursor
\* misses none, and the listing shows who is there.
ReachesOnce == part = "shared" => Shared!ReachesOnce /\ Shared!CursorComplete /\ Shared!Listing

\* Bans, votes, recordings and admissions survive calls that cross in every store, and the
\* tables of one process lapse and empty as they should.
TablesHold ==
  /\ part = "tables" => /\ Tables!BanHolds /\ Tables!VotesKept
                        /\ Tables!RecordingsSwept /\ Tables!AdmittedOnce
  /\ part = "process" => Process!TablesExact

\* A raised hand keeps its place before those raised after it.
HandsInOrder == [][part = "tables" => Tables!HandsKept]_<<part, others>>

\* Every ffmpeg chunk is handed on once and in order, a stop detaches the feed, and no
\* transport is left that a stop of the room would not close; audio is transcribed once.
WorkersEnd == WorkerStops /\ EgressOwned /\ AudioOnce
=============================================================================
