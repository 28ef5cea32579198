------------------------------ MODULE RoomAdmin ------------------------------
(***************************************************************************)
(* The server's administrative routes over rows that other requests use:   *)
(* creating, closing and deleting rooms, joining and leaving, moving a     *)
(* participant to a breakout room, and the life of a recording, from its   *)
(* row to the stored chunks (packages/server/src/core.ts, http.ts,         *)
(* recording.ts).                                                          *)
(*                                                                         *)
(* The Store is InMemoryStore: each call is atomic and returns at the next *)
(* await, so a handler is a sequence of steps, one per Store or storage    *)
(* call, between which the other handlers run.  A room row is the number   *)
(* of its creation and its state; everything else in it is carried along.  *)
(* Recording bytes are on a disk or in an S3 bucket.                       *)
(***************************************************************************)
EXTENDS Integers, FiniteSets, FiniteSetsExt

CONSTANTS
  Pid,        \* participants
  Session,    \* recordings of the main room
  Handler,    \* requests in progress at a time
  Cap,        \* maxParticipants of the breakout room
  MaxN,       \* bound: chunk indices
  MaxCalls,   \* bound: requests
  None

VARIABLES
  row,        \* room rows
  members,    \* participant rows of each room
  rec,        \* recording rows: their status
  bytes,      \* stored chunks
  manifest,   \* stored manifests: the number of chunks, or None
  store,      \* where the bytes are kept: "disk" or "s3"
  task,       \* the requests in progress
  made,       \* creations so far
  history,    \* what the exceptions of the properties refer to
  calls

rooms == <<row, members, made>>
recordings == <<rec, bytes, manifest>>
vars == <<rooms, recordings, store, task, history, calls>>

\* The main room, and the one breakout room it is asked for.
Room == {"main", "side"}
Index == 0 .. MaxN - 1
Idle == [op |-> "idle", pc |-> "idle", room |-> "main", pid |-> None,
         sid |-> None, i |-> 0, copy |-> None, n |-> 0]

\* Part-way through a day: the main room with everyone in it, a recording
\* running or none yet.
Init ==
  /\ row = [r \in Room |-> IF r = "main" THEN [gen |-> 1, st |-> "open"] ELSE None]
  /\ members = [r \in Room |-> IF r = "main" THEN Pid ELSE {}]
  /\ rec \in [Session -> {"none", "recording"}]
  /\ bytes = [s \in Session |-> {}] /\ manifest = [s \in Session |-> None]
  /\ store \in {"disk", "s3"}
  /\ task = [h \in Handler |-> Idle]
  /\ made = 1 /\ calls = 0
  /\ history = [deleted |-> [r \in Room |-> 0], raced |-> {},
                entered |-> Pid, moved |-> {},
                started |-> {s \in Session : rec[s] = "recording"},
                holed |-> {}, torn |-> {}, crossed |-> {}]

At(h, pc) == task[h].pc = pc
Goto(h, pc) == task' = [task EXCEPT ![h].pc = pc]
Done(h) == task' = [task EXCEPT ![h] = Idle]
Others(h) == {g \in Handler \ {h} : ~At(g, "idle")}

\* A request arrives; its first step is a read.
Request(h, op, r, p, s, i) ==
  /\ At(h, "idle") /\ calls < MaxCalls /\ calls' = calls + 1
  /\ task' = [task EXCEPT ![h] = [Idle EXCEPT
       !.op = op, !.pc = op, !.room = r, !.pid = p, !.sid = s, !.i = i]]
  /\ UNCHANGED <<rooms, recordings, store, history>>

\* A recording's id is random.
Unused(s) == /\ s \notin history.started
             /\ \A g \in Handler : task[g].op = "start" => task[g].sid # s

Arrive(h) ==
  \/ \E op \in {"create", "close", "delete"}, r \in Room : Request(h, op, r, None, None, 0)
  \/ \E op \in {"join", "leave"}, r \in Room, p \in Pid : Request(h, op, r, p, None, 0)
  \/ \E p \in Pid : Request(h, "breakout", "main", p, None, 0)
  \/ \E s \in Session : Unused(s) /\ Request(h, "start", "main", None, s, 0)
  \/ \E s \in Session, i \in Index : Request(h, "chunk", "main", None, s, i)
  \/ \E op \in {"finalize", "remove", "expire"}, s \in Session :
       Request(h, op, "main", None, s, 0)

\* The reading steps: nothing but the task changes.
ReadOnly == UNCHANGED <<rooms, recordings, store, history, calls>>
KeepRecordings == UNCHANGED <<recordings, store, calls>>
KeepRooms == UNCHANGED <<rooms, store, calls>>

-----------------------------------------------------------------------------
(* Room rows.                                                              *)

\* The row read stays with the task; without one the request ends in a 404.
RequireRoom(h, r, pc) ==
  IF row[r] = None THEN Done(h)
  ELSE task' = [task EXCEPT ![h].copy = row[r], ![h].pc = pc]

\* putRoom writes a whole row, whatever is there now.
PutRoom(r, value) == row' = [row EXCEPT ![r] = value]

Fresh == [gen |-> made + 1, st |-> "open"]

\* createRoom reads; only if there is no row it goes on to write one.
Create(h) ==
  /\ At(h, "create") /\ ReadOnly
  /\ IF row[task[h].room] # None THEN Done(h) ELSE Goto(h, "createPut")
CreatePut(h) ==
  /\ At(h, "createPut")
  /\ PutRoom(task[h].room, Fresh) /\ made' = made + 1
  /\ Done(h) /\ UNCHANGED <<members, history>> /\ KeepRecordings

Close(h) == At(h, "close") /\ ReadOnly /\ RequireRoom(h, task[h].room, "closePut")
ClosePut(h) ==
  /\ At(h, "closePut")
  /\ PutRoom(task[h].room, [task[h].copy EXCEPT !.st = "closed"])
  /\ Done(h) /\ UNCHANGED <<members, made, history>> /\ KeepRecordings

\* The requests that will write the row they hold.
Holding(r, S) == {h \in S : /\ task[h].room = r /\ task[h].copy # None
                            /\ task[h].op \notin {"delete", "start"}}

\* A move that has read its participant.
Moving(h) == task[h].pc \in {"moveTarget", "moveCount", "moveDelete", "movePut"}

Elsewhere(p, r) == \E q \in Room \ {r} : p \in members[q]

Delete(h) == At(h, "delete") /\ ReadOnly /\ RequireRoom(h, task[h].room, "deleteRoom")

\* Faulty variant: the room's row is left.
Swept(r) == [row EXCEPT ![r] = @]

\* deleteRoom removes the room's rows, those of its recordings included, but
\* nobody tells the recording storage.
Emptied(r) == [row EXCEPT ![r] = None]
DeleteRoom(h) ==
  LET r == task[h].room
      gone == IF r = "main" THEN {s \in Session : rec[s] # "none"} ELSE {}
  IN
  /\ At(h, "deleteRoom")
  /\ row' = Emptied(r)
  /\ members' = [members EXCEPT ![r] = {}]
  /\ rec' = [s \in Session |-> IF s \in gone THEN "none" ELSE rec[s]]
  /\ history' = [history EXCEPT
       !.deleted[r] = IF row[r] = None THEN @ ELSE Max({@, row[r].gen}),
       !.raced = IF Holding(r, Others(h)) # {} THEN @ \cup {r} ELSE @,
       !.entered = @ \ {p \in members[r] : ~Elsewhere(p, r)},
       !.moved = @ \cup {task[g].pid : g \in {g \in Others(h) : Moving(g)}},
       !.crossed = @ \cup gone]
  /\ Done(h) /\ UNCHANGED <<bytes, manifest, made, store, calls>>

-----------------------------------------------------------------------------
(* Participants: joining, leaving, and moving to the breakout room.        *)

Join(h) ==
  /\ At(h, "join") /\ ReadOnly
  /\ IF row[task[h].room] # None /\ row[task[h].room].st = "closed" THEN Done(h)
     ELSE RequireRoom(h, task[h].room, "joinSeen")
Full(r) == r = "side" /\ Cardinality(members[r]) >= Cap
JoinSeen(h) ==
  /\ At(h, "joinSeen") /\ ReadOnly
  /\ IF task[h].pid \in members[task[h].room] THEN Done(h) ELSE Goto(h, "joinCount")
JoinCount(h) ==
  /\ At(h, "joinCount") /\ ReadOnly
  /\ IF Full(task[h].room) THEN Done(h) ELSE Goto(h, "joinPut")
JoinPut(h) ==
  LET p == task[h].pid IN
  /\ At(h, "joinPut")
  /\ members' = [members EXCEPT ![task[h].room] = @ \cup {p}]
  /\ history' = [history EXCEPT
       !.entered = @ \cup {p},
       !.moved = IF \E g \in Others(h) : Moving(g) /\ task[g].pid = p THEN @ \cup {p} ELSE @]
  /\ Goto(h, "touch") /\ UNCHANGED <<row, made>> /\ KeepRecordings

Leave(h) == At(h, "leave") /\ ReadOnly /\ RequireRoom(h, task[h].room, "leaveSeen")
LeaveSeen(h) ==
  /\ At(h, "leaveSeen") /\ ReadOnly
  /\ IF task[h].pid \notin members[task[h].room] THEN Done(h) ELSE Goto(h, "leaveDelete")
LeaveDelete(h) ==
  LET p == task[h].pid
      r == task[h].room
  IN
  /\ At(h, "leaveDelete")
  /\ members' = [members EXCEPT ![r] = @ \ {p}]
  /\ history' = [history EXCEPT
       !.entered = IF Elsewhere(p, r) THEN @ ELSE @ \ {p},
       !.moved = IF \E g \in Others(h) : Moving(g) /\ task[g].pid = p THEN @ \cup {p} ELSE @]
  /\ Goto(h, "touch") /\ UNCHANGED <<row, made>> /\ KeepRecordings

\* The last step of join, leave and breakout: the room row read at the start
\* is written back with a new updatedAt.
Touch(h) ==
  /\ At(h, "touch")
  /\ PutRoom(task[h].room, task[h].copy)
  /\ Done(h) /\ UNCHANGED <<members, made, history>> /\ KeepRecordings

\* breakoutHandler: the parent's row, the side room unless it exists, then
\* the participant, the target's row and its members, and the move itself.
Breakout(h) == At(h, "breakout") /\ ReadOnly /\ RequireRoom(h, "main", "sideRead")
SideRead(h) ==
  /\ At(h, "sideRead") /\ ReadOnly
  /\ Goto(h, IF row["side"] # None THEN "moveRead" ELSE "sidePut")
SidePut(h) ==
  /\ At(h, "sidePut")
  /\ PutRoom("side", Fresh) /\ made' = made + 1
  /\ Goto(h, "moveRead") /\ UNCHANGED <<members, history>> /\ KeepRecordings
MoveRead(h) ==
  /\ At(h, "moveRead") /\ ReadOnly
  /\ IF task[h].pid \notin members["main"] THEN Done(h) ELSE Goto(h, "moveTarget")
MoveTarget(h) ==
  /\ At(h, "moveTarget") /\ ReadOnly
  /\ IF row["side"] = None THEN Done(h) ELSE Goto(h, "moveCount")

MoveCount(h) ==
  /\ At(h, "moveCount") /\ ReadOnly
  /\ IF Full("side") THEN Done(h) ELSE Goto(h, "moveDelete")

MoveDelete(h) ==
  /\ At(h, "moveDelete")
  /\ members' = [members EXCEPT !["main"] = @ \ {task[h].pid}]
  /\ Goto(h, "movePut") /\ UNCHANGED <<row, made, history>> /\ KeepRecordings
MovePut(h) ==
  /\ At(h, "movePut")
  /\ members' = [members EXCEPT !["side"] = @ \cup {task[h].pid}]
  /\ Goto(h, "touch") /\ UNCHANGED <<row, made, history>> /\ KeepRecordings
\* putParticipant may reject: the request ends with the participant nowhere.
MovePutFails(h) ==
  /\ At(h, "movePut")
  /\ history' = [history EXCEPT !.moved = @ \cup {task[h].pid}]
  /\ Done(h) /\ UNCHANGED rooms /\ KeepRecordings

-----------------------------------------------------------------------------
(* Recordings: rows in the Store, bytes in the storage.                    *)

Row(h) == rec[task[h].sid]

\* The row is read before the storage is used.
RequireRecording(h, pc) == IF Row(h) = "none" THEN Done(h) ELSE Goto(h, pc)

\* startRecording requires the room and writes a row under a fresh id.
Start(h) == At(h, "start") /\ ReadOnly /\ RequireRoom(h, "main", "startPut")
StartPut(h) ==
  LET s == task[h].sid IN
  /\ At(h, "startPut")
  /\ rec' = [rec EXCEPT ![s] = "recording"]
  /\ history' = [history EXCEPT !.started = @ \cup {s}]
  /\ Done(h) /\ UNCHANGED <<bytes, manifest>> /\ KeepRooms

Chunk(h) == At(h, "chunk") /\ ReadOnly /\ RequireRecording(h, "chunkCheck")

\* Whether a deletion of the recording has removed its bytes and not yet its
\* row, so that what is written now is missed by it.
Late(h) == IF \E g \in Others(h) : /\ task[g].sid = task[h].sid
                                  /\ task[g].pc \in {"removeRow", "expireRow"}
           THEN {task[h].sid} ELSE {}
Written(h) == history' = [history EXCEPT !.crossed = @ \cup Late(h)]

\* DiskRecordingStorage.saveChunk: an index beyond the next one is refused,
\* except as the first chunk of all.
Gap(have, i) == have # {} /\ i > Max(have) + 1
ChunkCheck(h) ==
  LET s == task[h].sid
      i == task[h].i
  IN
  /\ At(h, "chunkCheck")
  /\ IF store = "disk" /\ Gap(bytes[s], i) THEN Done(h) ELSE Goto(h, "chunkWrite")
  /\ history' = [history EXCEPT !.holed =
       IF (bytes[s] = {} /\ i > 0) \/ store = "s3" THEN @ \cup {s} ELSE @]
  /\ UNCHANGED recordings /\ KeepRooms
ChunkWrite(h) ==
  /\ At(h, "chunkWrite")
  /\ bytes' = [bytes EXCEPT ![task[h].sid] = @ \cup {task[h].i}]
  /\ Done(h) /\ UNCHANGED <<rec, manifest>> /\ Written(h) /\ KeepRooms

\* finalize counts the stored chunks: every file on a disk, the prefix
\* without a gap in a bucket.  The manifest is written afterwards.
Prefix(have) == CHOOSE n \in 0 .. MaxN : n \notin have /\ \A k \in 0 .. n - 1 : k \in have
Counted(have) == IF store = "disk" THEN Cardinality(have) ELSE Prefix(have)
Finalize(h) == At(h, "finalize") /\ ReadOnly /\ RequireRecording(h, "finalizeCount")
FinalizeCount(h) ==
  LET n == Counted(bytes[task[h].sid]) IN
  /\ At(h, "finalizeCount") /\ ReadOnly
  /\ IF n = 0 THEN Done(h)
     ELSE task' = [task EXCEPT ![h].n = n, ![h].pc = "finalizeWrite"]
FinalizeWrite(h) ==
  /\ At(h, "finalizeWrite")
  /\ manifest' = [manifest EXCEPT ![task[h].sid] = task[h].n]
  /\ Goto(h, "stop") /\ UNCHANGED <<rec, bytes>> /\ Written(h) /\ KeepRooms
\* stopRecording reads the row again and writes it back finalized.
Stop(h) == At(h, "stop") /\ ReadOnly /\ RequireRecording(h, "stopPut")
StopPut(h) ==
  /\ At(h, "stopPut")
  /\ rec' = [rec EXCEPT ![task[h].sid] = "finalized"]
  /\ Done(h) /\ UNCHANGED <<bytes, manifest>> /\ Written(h) /\ KeepRooms

\* getStream reads the chunks the manifest counts, one by one.
Streams(s) == manifest[s] # None /\ 0 .. manifest[s] - 1 \subseteq bytes[s]

\* Requests that have found the row and will write to the storage or the row.
Using(s, S) == {g \in S : task[g].sid = s /\ task[g].pc \notin {"chunk", "finalize", "remove", "expire", "start", "startPut"}}
Cross(h) == IF Using(task[h].sid, Others(h)) = {} THEN {} ELSE {task[h].sid}

\* What delete() leaves: nothing on a disk; in a bucket the scan stops at the
\* first index that is missing.
LeftBytes(s) == IF store = "disk" THEN {} ELSE {i \in bytes[s] : i > Prefix(bytes[s])}

DeleteBytes(h, pc) ==
  LET s == task[h].sid IN
  /\ bytes' = [bytes EXCEPT ![s] = LeftBytes(s)]
  /\ manifest' = [manifest EXCEPT ![s] = None]
  /\ history' = [history EXCEPT !.torn = @ \cup {s}, !.crossed = @ \cup Cross(h)]
  /\ Goto(h, pc) /\ UNCHANGED rec /\ KeepRooms
DeleteRow(h) ==
  /\ rec' = [rec EXCEPT ![task[h].sid] = "none"]
  /\ history' = [history EXCEPT !.crossed = @ \cup Cross(h)]
  /\ Done(h) /\ UNCHANGED <<bytes, manifest>> /\ KeepRooms

Remove(h) == At(h, "remove") /\ ReadOnly /\ RequireRecording(h, "removeBytes")
RemoveBytes(h) == At(h, "removeBytes") /\ DeleteBytes(h, "removeRow")
RemoveRow(h) == At(h, "removeRow") /\ DeleteRow(h)

\* expireRecordings walks a copy of the rows: it writes the row, whether or
\* not it is still there, and takes both away.
Expire(h) == At(h, "expire") /\ ReadOnly /\ RequireRecording(h, "expirePut")
ExpirePut(h) ==
  /\ At(h, "expirePut")
  /\ rec' = [rec EXCEPT ![task[h].sid] = "finalized"]
  /\ Goto(h, "expireBytes") /\ UNCHANGED <<bytes, manifest, history>> /\ KeepRooms
ExpireBytes(h) == At(h, "expireBytes") /\ DeleteBytes(h, "expireRow")
ExpireRow(h) == At(h, "expireRow") /\ DeleteRow(h)

-----------------------------------------------------------------------------
Next == \E h \in Handler :
  \/ Arrive(h)
  \/ Create(h) \/ CreatePut(h) \/ Close(h) \/ ClosePut(h) \/ Delete(h) \/ DeleteRoom(h)
  \/ Join(h) \/ JoinSeen(h) \/ JoinCount(h) \/ JoinPut(h) \/ Touch(h)
  \/ Leave(h) \/ LeaveSeen(h) \/ LeaveDelete(h)
  \/ Breakout(h) \/ SideRead(h) \/ SidePut(h) \/ MoveRead(h) \/ MoveTarget(h)
  \/ MoveCount(h) \/ MoveDelete(h) \/ MovePut(h) \/ MovePutFails(h)
  \/ Start(h) \/ StartPut(h) \/ Chunk(h) \/ ChunkCheck(h) \/ ChunkWrite(h)
  \/ Finalize(h) \/ FinalizeCount(h) \/ FinalizeWrite(h) \/ Stop(h) \/ StopPut(h)
  \/ Remove(h) \/ RemoveBytes(h) \/ RemoveRow(h)
  \/ Expire(h) \/ ExpirePut(h) \/ ExpireBytes(h) \/ ExpireRow(h)

Spec == Init /\ [][Next]_vars

\* Bound: a recording is under way from the start on S3 and is still to be started on disk.
StoreStart == (store = "disk") <=> (\A s \in Session : rec[s] = "none")

-----------------------------------------------------------------------------
AtRest == \A h \in Handler : At(h, "idle")

\* A deleted room does not come back, unless a request that had read its row
\* before was still in progress.
NoRevival == \A r \in Room :
  (row[r] # None /\ row[r].gen <= history.deleted[r]) => r \in history.raced

\* A participant who has entered and not left is a member of a room, and one
\* who has left is of none, except while the request that moves him is between
\* its two writes; or if the second one failed, or he joined, left or lost the
\* room while he was being moved.
MovedNotLost == \A p \in Pid :
  \/ p \in history.moved
  \/ \E h \in Handler : At(h, "movePut") /\ task[h].pid = p
  \/ (p \in history.entered) <=> (\E r \in Room : p \in members[r])

\* At rest the chunks that a manifest counts are all stored, so that the
\* stream can be read, unless the disk took a first chunk other than 0, or a
\* deletion ran at the same time.
ManifestReadable == AtRest => \A s \in Session :
  \/ manifest[s] = None \/ s \in history.crossed
  \/ store = "disk" /\ s \in history.holed
  \/ Streams(s)

\* At rest a recording that was deleted has neither row nor manifest nor
\* chunks, unless another request had found its row before, or the bucket
\* held chunks with a gap.
RecordingGone == AtRest => \A s \in history.torn :
  \/ s \in history.crossed
  \/ store = "s3" /\ s \in history.holed
  \/ rec[s] = "none" /\ manifest[s] = None /\ bytes[s] = {}
=============================================================================
