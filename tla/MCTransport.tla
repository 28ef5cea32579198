---------------------------- MODULE MCTransport ----------------------------
(***************************************************************************)
(* TLC instance of the transports.  The wrappers (SignalingPaths), one      *)
(* backend transport and the cloud adapters share no state: every behaviour *)
(* is of one of them, chosen by `part`.  v1, v2, ... are the variables of   *)
(* BackendTransport or CloudBackends in the order of their declaration, 0   *)
(* in the part "paths"; the variables of SignalingPaths move only there.    *)
(***************************************************************************)
EXTENDS SignalingPaths, TLC

CONSTANT Part        \* the parts to check

VARIABLES part,      \* the part this behaviour is of
          v1, v2, v3, v4, v5, v6, v7, v8, v9, v10, v11, v12, v13, v14, v15, v16, v17, v18, v19,
          v20, v21
below == <<v1, v2, v3, v4, v5, v6, v7, v8, v9, v10, v11, v12, v13, v14, v15, v16, v17, v18, v19,
           v20, v21>>

Stages == INSTANCE BackendTransport WITH
  room <- v1, joins <- v2, leaving <- v3, online <- v4, beat <- v5, ownDoc <- v6, docs <- v7,
  queue <- v8, timer <- v9, batch <- v10, flushing <- v11, sends <- v12, msgs <- v13,
  wire <- v14, groups <- v15, shown <- v16, evicted <- v17, torn <- v18, skipped <- v19,
  overlap <- v20, events <- v21, MaxRooms <- 2, MaxMsgs <- 3, MaxEvents <- 2, MaxItems <- 2,
  MaxGroups <- 1, Parts <- 2
Cloud == INSTANCE CloudBackends WITH
  kind <- v1, pst <- v2, step <- v3, beat <- v4, set <- v5, row <- v6, hook <- v7, sync <- v8,
  qst <- v9, pres <- v10, view <- v11, seen <- v12, touched <- v13, sent <- v14, frames <- v15,
  ids <- v16, got <- v17, from <- v18, overlap <- v19, blinked <- v20, events <- v21,
  Kind <- {"sqlite", "postgres", "firebase", "convex", "supabase"}, Cap <- 2, Shed <- 1,
  MaxFrames <- 3, MaxEvents <- 6

PartsInit ==
  /\ part \in Part
  /\ Init
  /\ \/ part = "paths"
        /\ v1 = 0 /\ v2 = 0 /\ v3 = 0 /\ v4 = 0 /\ v5 = 0 /\ v6 = 0 /\ v7 = 0 /\ v8 = 0
        /\ v9 = 0 /\ v10 = 0 /\ v11 = 0 /\ v12 = 0 /\ v13 = 0 /\ v14 = 0 /\ v15 = 0
        /\ v16 = 0 /\ v17 = 0 /\ v18 = 0 /\ v19 = 0 /\ v20 = 0 /\ v21 = 0
     \/ part = "stages" /\ Stages!Init
     \/ part = "cloud" /\ Cloud!Init

PartsNext ==
  /\ UNCHANGED part
  /\ \/ part = "paths" /\ Next /\ UNCHANGED below
     \/ part = "stages" /\ Stages!Next /\ UNCHANGED vars
     \/ part = "cloud" /\ Cloud!Next /\ UNCHANGED vars

PartsSpec == PartsInit /\ [][PartsNext]_<<part, vars, below>>

PeerSymmetry == Permutations(Peer)

-----------------------------------------------------------------------------
\* The coalescer keeps every candidate of the room it was made for, and sends it; a large
\* envelope is handed over only whole, and is unless its place was taken; presence is
\* withdrawn by a leave that no heartbeat overlapped.
StagesHold ==
  part = "stages" => Stages!CandidatesKept /\ Stages!Reassembled /\ Stages!PresenceGone

\* Over each of the five services, presence and frames end as the adapter promises.
CloudSettles == part = "cloud" => Cloud!ShownAsIs /\ Cloud!FramesHanded
=============================================================================
