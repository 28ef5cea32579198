--------------------------- MODULE Transcription ---------------------------
(***************************************************************************)
(* The transcription worker of an SFU room (packages/sfu-gateway/src/       *)
(* transcription-worker.ts, the same code as the worker of                  *)
(* packages/core/src/media/transcription.ts): audio is buffered, flushed by *)
(* its length and by a timer, handed to a transcriber that answers when it  *)
(* likes, and dispatched as a numbered transcript of the room.              *)
(***************************************************************************)
EXTENDS Naturals, Sequences, FiniteSets

CONSTANTS Rooms,        \* the rooms a worker is started for
          ChunkMs,      \* chunkMs, in chunks of audio
          MaxAudio,     \* bound on the chunks pushed
          MaxSwitches,  \* bound on starts and stops
          NoRoom

VARIABLES room,         \* roomId while running, else NoRoom
          buffer,       \* the chunks buffered
          seq,          \* number of the next transcript
          underway,     \* batches handed to the transcriber: [audio, start]
          out,          \* the transcripts dispatched, in order
          from,         \* of each chunk pushed: the start it came after (history)
          start,        \* how many starts there were (history)
          where,        \* the room of each start (history)
          quiet,        \* chunks the transcriber heard nothing in (history)
          switches
transcriptionVars == <<room, buffer, seq, underway, out, from, start, where, quiet, switches>>

-----------------------------------------------------------------------------
TranscriptionInit ==
  /\ room = NoRoom /\ buffer = <<>> /\ seq = 0 /\ underway = {} /\ out = <<>>
  /\ from = <<>> /\ start = 0 /\ where = <<>> /\ quiet = {} /\ switches = 0

Switched == switches < MaxSwitches /\ switches' = switches + 1

\* start, of a worker that runs or not: a running one loses what it had buffered
StartRoom(r) ==
  /\ Switched /\ room' = r /\ seq' = 0 /\ buffer' = <<>>
  /\ start' = start + 1 /\ where' = Append(where, r)
  /\ UNCHANGED <<underway, out, from, quiet>>

StopRoom ==
  /\ Switched /\ room # NoRoom /\ room' = NoRoom /\ buffer' = <<>>
  /\ UNCHANGED <<seq, underway, out, from, start, where, quiet>>

\* flush: the buffer is emptied before the transcriber is awaited
Flush(b) == underway' = underway \cup {[audio |-> b, start |-> start]} /\ buffer' = <<>>

pushAudio ==
  /\ room # NoRoom /\ Len(from) < MaxAudio
  /\ from' = Append(from, start)
  /\ LET b == Append(buffer, Len(from) + 1)
     IN IF Len(b) >= ChunkMs THEN Flush(b) ELSE buffer' = b /\ UNCHANGED underway
  /\ UNCHANGED <<room, seq, out, start, where, quiet, switches>>

Timer ==
  /\ room # NoRoom /\ buffer # <<>> /\ Flush(buffer)
  /\ UNCHANGED <<room, seq, out, from, start, where, quiet, switches>>

\* The transcriber answers, in any order: a text (its own, or the mock text a provider
\* falls back to) goes out with the room and the number of now
Answer(b) ==
  /\ b \in underway /\ underway' = underway \ {b}
  /\ out' = Append(out, [room |-> room, seq |-> seq, audio |-> b.audio, start |-> b.start,
                         now |-> start])
  /\ seq' = seq + 1
  /\ UNCHANGED <<room, buffer, from, start, where, quiet, switches>>

\* No text, or a throw: nothing goes out
AnswerNothing(b) ==
  /\ b \in underway /\ underway' = underway \ {b}
  /\ quiet' = quiet \cup {b.audio[i] : i \in DOMAIN b.audio}
  /\ UNCHANGED <<room, buffer, seq, out, from, start, where, switches>>

TranscriptionNext ==
  \/ \E r \in Rooms : StartRoom(r)
  \/ StopRoom \/ pushAudio \/ Timer
  \/ \E b \in underway : Answer(b) \/ AnswerNothing(b)

TranscriptionSpec == TranscriptionInit /\ [][TranscriptionNext]_transcriptionVars

-----------------------------------------------------------------------------
Chunks(b) == {b[i] : i \in DOMAIN b}
Batches(c) == Cardinality({b \in underway : c \in Chunks(b.audio)})
              + Cardinality({i \in DOMAIN out : c \in Chunks(out[i].audio)})

\* Audio pushed to a worker is transcribed once: a chunk is in one batch at most, and while
\* the worker it was pushed to goes on, it is buffered, under way, heard or found silent,
\* however pushes, timer and late answers cross.  The transcripts sent after one start are
\* numbered 0, 1, 2..., and one carries another room than its audio's only when the worker
\* was stopped or started again while the transcriber was at it (81-107).
AudioOnce ==
  /\ \A c \in DOMAIN from :
       /\ Batches(c) <= 1
       /\ from[c] = start /\ room # NoRoom =>
            Batches(c) + (IF c \in Chunks(buffer) THEN 1 ELSE 0) + (IF c \in quiet THEN 1 ELSE 0) = 1
  /\ \A i \in DOMAIN out :
       /\ out[i].seq = Cardinality({j \in 1..(i - 1) : out[j].now = out[i].now})
       /\ out[i].now = out[i].start => out[i].room \in {where[out[i].start], NoRoom}
=============================================================================
