--------------------------- MODULE RecordingClient ---------------------------
(***************************************************************************)
(* A room's recording from the recorders to the stored chunks:             *)
(* RoomRecordingFacade, CompositeRecordingHook, MediaRecorderRecordingHook *)
(* (packages/core/src/recording) and DiskRecordingStorage's saveChunk and  *)
(* finalize (packages/server/src/recording.ts), joined by an uploader that *)
(* keeps the RecordingUploader contract and passes every chunk's index on. *)
(*                                                                         *)
(* The MediaRecorder is external: while it records it emits data, it ends  *)
(* by itself with its tracks or fails, and after stop() it emits once more *)
(* or not and then stops.  Uploads are not awaited, so they are a set in   *)
(* which any one may be next.  Inside one recording session every call of  *)
(* start() makes new recorders, which is what the numbers in rec stand for.*)
(***************************************************************************)
EXTENDS Integers, FiniteSets, FiniteSetsExt

CONSTANTS
  Stream,    \* streams that can be recorded
  MaxR,      \* bound: recorders made
  MaxN,      \* bound: chunks per recorder
  MaxCalls   \* bound: calls of the application

ASSUME RecordingAssumption == IsFiniteSet(Stream) /\ MaxR \in Nat

VARIABLES
  rec,       \* the recorders made: their stream, state and chunkIndex
  made,      \* how many
  hooks,     \* CompositeRecordingHook.hooks: the recorder of a stream, or 0
  activeMode,  \* the facade's activeMode
  key,       \* whether its encryptionKey is set
  asked,     \* whether the recording was asked to be encrypted
  waits,     \* stop() and failed start() calls that await recorders
  uploads,   \* chunks on their way to the server
  reports,   \* finalize requests on their way, with the count they tell
  disk,      \* indices of the chunk files
  manifest,  \* the manifest: chunks counted and chunks told
  resting,   \* the last call was stopRecording() and it is over
  noted,     \* what the exceptions of the properties refer to
  calls

facade == <<activeMode, key, asked>>
server == <<uploads, reports, disk, manifest>>
recordingVars == <<rec, made, hooks, facade, waits, server, resting, noted, calls>>

R == 1 .. MaxR
Active == {"recording", "paused"}
Live == Active \cup {"stopping"}

RecordingInit ==
  /\ rec = [r \in R |-> [stream |-> "none", st |-> "idle", n |-> 0, secret |-> FALSE]]
  /\ made = 0 /\ hooks = [s \in Stream |-> 0]
  /\ activeMode = "client" /\ key = FALSE /\ asked = FALSE
  /\ waits = {} /\ uploads = {} /\ reports = {} /\ disk = {}
  /\ manifest = [chunks |-> 0, told |-> 0]
  /\ resting = TRUE /\ calls = 0
  /\ noted = [reasked |-> FALSE, again |-> FALSE,
                failed |-> FALSE, overtook |-> FALSE]

\* The application calls between tasks, when no promise is left to resolve.
Call ==
  /\ calls < MaxCalls /\ calls' = calls + 1
  /\ \A w \in waits : \E r \in w.of : rec[r].st \in Live

-----------------------------------------------------------------------------
(* The composite hook.                                                     *)

Hooked == {hooks[s] : s \in Stream} \ {0}

\* getState(): the worst state of any recorder.
State ==
  LET states == {rec[r].st : r \in Hooked} IN
  CASE "error" \in states     -> "error"
    [] "stopping" \in states  -> "stopping"
    [] "paused" \in states    -> "paused"
    [] "recording" \in states -> "recording"
    [] OTHER                  -> "idle"

NewRecorder(s, st, e) == [stream |-> s, st |-> st, n |-> 0, secret |-> e]

\* A recorder's stop() has something to stop.
Stops(r) == rec[r].st \in Active

\* stop() on some recorders: those that run begin to stop.
StopAll(S) ==
  [r \in R |-> IF r \in S /\ Stops(r) THEN [rec[r] EXCEPT !.st = "stopping"] ELSE rec[r]]

\* The recorders whose stop() promise is to be awaited.
Awaited(S) == {r \in S : rec[r].st = "stopping" \/ Stops(r)}

\* Faulty variant: a key set by an earlier recording stays.
KeyKept(e) == key \/ e

KeyFor(e) == e

\* The composite's start() refuses while it records or stops, but not when a
\* recorder failed.
Accepts == State \in {"idle", "error"}

\* The composite makes a recorder for each stream of D.  If the one in bad
\* cannot be made, those already started are stopped again, and only when they
\* have stopped the map is cleared.
MakeAll(D, bad, e) ==
  LET order == CHOOSE f \in [D -> made + 1 .. made + Cardinality(D)] :
                 \A s, t \in D : s # t => f[s] # f[t]
      started == {order[s] : s \in D \ bad}
      st(s) == IF s \in bad THEN "error" ELSE IF bad = {} THEN "recording" ELSE "stopping"
  IN
  /\ made + Cardinality(D) <= MaxR
  /\ made' = made + Cardinality(D)
  /\ hooks' = [s \in Stream |-> IF bad # {} /\ started = {} THEN 0
                              ELSE IF s \in D THEN order[s] ELSE hooks[s]]
  /\ rec' = [r \in R |-> IF \E s \in D : order[s] = r
                         THEN LET s == CHOOSE t \in D : order[t] = r
                              IN NewRecorder(s, st(s), e)
                         ELSE rec[r]]
  /\ waits' = IF bad = {} \/ started = {} THEN waits
              ELSE waits \cup {[of |-> started, report |-> FALSE]}

\* startRecording(): the options are stored before anything is checked.
Start(m, e, D, bad) ==
  /\ Call /\ activeMode' = m /\ key' = KeyFor(e) /\ resting' = FALSE
  /\ noted' = [noted EXCEPT !.reasked = @ \/ \E r \in R : rec[r].st \in Live]
  /\ IF m = "client" /\ Accepts THEN MakeAll(D, bad, e) /\ asked' = e
     ELSE UNCHANGED <<rec, made, hooks, asked, waits>>
  /\ UNCHANGED server

\* stopRecording(): for an SFU recording only a report; else every recorder in
\* the map is stopped and awaited.
Stop ==
  /\ Call
  /\ IF activeMode # "client"
     THEN /\ reports' = reports \cup {[told |-> 0, sfu |-> TRUE]}
          /\ resting' = TRUE
          /\ UNCHANGED <<rec, waits>>
     ELSE /\ rec' = StopAll(Hooked)
          /\ IF Hooked = {} THEN resting' = TRUE /\ UNCHANGED waits
             ELSE /\ waits' = waits \cup {[of |-> Awaited(Hooked), report |-> TRUE]}
                  /\ resting' = FALSE
          /\ UNCHANGED reports
  /\ UNCHANGED <<made, hooks, facade, uploads, disk, manifest, noted>>

\* All awaited recorders have settled: the map is cleared, and the report of
\* stop() counts the chunks of those that stopped in good order.
Settled(w) ==
  /\ \A r \in w.of : rec[r].st \notin Live
  /\ waits' = waits \ {w}
  /\ hooks' = [s \in Stream |-> 0]
  /\ LET good == {r \in w.of : rec[r].st = "idle"} IN
     reports' = IF w.report /\ good # {}
                THEN reports \cup {[told |-> MapThenSumSet(LAMBDA r : rec[r].n, good), sfu |-> FALSE]} ELSE reports
  /\ resting' = (resting \/ (w.report /\ waits' = {}))
  /\ UNCHANGED <<rec, made, facade, uploads, disk, manifest, noted, calls>>

\* pause() and resume() pass over the recorders they do not apply to.
Pause(from, to) ==
  /\ Call /\ State = from
  /\ rec' = [r \in R |-> IF r \in Hooked /\ rec[r].st = from
                         THEN [rec[r] EXCEPT !.st = to] ELSE rec[r]]
  /\ UNCHANGED <<made, hooks, facade, waits, server, resting, noted>>

\* addRemoteStream(): the recorder takes the place of one with the same id.
AddRemote(s, st) ==
  /\ Call /\ State = "recording" /\ made < MaxR
  /\ made' = made + 1
  /\ hooks' = [hooks EXCEPT ![s] = made + 1]
  /\ rec' = [rec EXCEPT ![made + 1] = NewRecorder(s, st, asked)]
  /\ noted' = [noted EXCEPT !.again = @ \/ hooks[s] # 0]
  /\ UNCHANGED <<facade, waits, server, resting>>

RemoveRemote(s) ==
  /\ Call /\ hooks[s] # 0
  /\ hooks' = [hooks EXCEPT ![s] = 0]
  /\ rec' = StopAll({hooks[s]})
  /\ UNCHANGED <<made, facade, waits, server, resting, noted>>

-----------------------------------------------------------------------------
(* A recorder's events.                                                    *)

\* uploadChunk(): under the facade's present options.
Upload(r) == [r |-> r, index |-> rec[r].n, secret |-> key]

\* A chunk gets the recorder's next index.
Data(r) ==
  /\ rec[r].st \in {"recording", "stopping"} /\ rec[r].n < MaxN
  /\ rec' = [rec EXCEPT ![r].n = @ + 1]
  /\ uploads' = uploads \cup {Upload(r)}
  /\ UNCHANGED <<made, hooks, facade, waits, reports, disk, manifest, resting, noted, calls>>

\* onstop after stop(), or because the tracks ended; onerror.
Ends(r, st) ==
  /\ rec[r].st \in Live
  /\ rec' = [rec EXCEPT ![r].st = st]
  /\ UNCHANGED <<made, hooks, facade, waits, server, resting, noted, calls>>

-----------------------------------------------------------------------------
(* The server.                                                             *)

\* saveChunk() refuses a chunk beyond the one after the largest.
GapRefused(i) == i > 0 /\ i - 1 \notin disk /\ disk # {} /\ \A j \in disk : i > j + 1

\* The request fails, or the server refuses: the facade reports the error and
\* goes on.
Uploaded(u) ==
  /\ uploads' = uploads \ {u}
  /\ \/ /\ ~GapRefused(u.index)
        /\ disk' = disk \cup {u.index} /\ UNCHANGED noted
     \/ /\ noted' = [noted EXCEPT !.failed = TRUE] /\ UNCHANGED disk
  /\ UNCHANGED <<rec, made, hooks, facade, waits, reports, manifest, resting, calls>>

\* Faulty variant: the largest index is taken for the count.
LastChunk == CHOOSE i \in disk : \A j \in disk : j <= i

\* finalize() counts the chunk files there are.
Counted == Cardinality(disk)

Finalized(f) ==
  /\ reports' = reports \ {f}
  /\ IF disk = {} THEN UNCHANGED manifest
     ELSE manifest' = [chunks |-> Counted, told |-> IF f.sfu THEN Counted ELSE f.told]
  /\ noted' = [noted EXCEPT !.overtook = @ \/ uploads # {}]
  /\ UNCHANGED <<rec, made, hooks, facade, waits, uploads, disk, resting, calls>>

-----------------------------------------------------------------------------
RecordingNext ==
  \/ \E m \in {"client", "sfu"}, e \in BOOLEAN, D \in SUBSET Stream \ {{}} :
       \E bad \in {{}} \cup {{s} : s \in D} : Start(m, e, D, bad)
  \/ Stop \/ Pause("recording", "paused") \/ Pause("paused", "recording")
  \/ \E w \in waits : Settled(w)
  \/ \E s \in Stream : AddRemote(s, "recording") \/ AddRemote(s, "error") \/ RemoveRemote(s)
  \/ \E r \in R : Data(r) \/ Ends(r, "idle") \/ Ends(r, "error")
  \/ \E u \in uploads : Uploaded(u)
  \/ \E f \in reports : Finalized(f)

RecordingSpec == RecordingInit /\ [][RecordingNext]_recordingVars

\* Bound: several recorders make one chunk between them.
FewChunks == made > 1 => MapThenSumSet(LAMBDA r : rec[r].n, R) <= 1

-----------------------------------------------------------------------------
(* Properties.                                                             *)

\* Once stopRecording() has returned no recorder goes on, unless start was
\* called while something was recording, which may change the mode or replace
\* recorders, or a stream was added that was already recorded.
StopStops ==
  resting => \/ \A r \in R : rec[r].st \notin Active
             \/ noted.reasked \/ noted.again

\* Every chunk goes out encrypted exactly if the recording was asked to be,
\* unless start was called again meanwhile, which is refused but stores its
\* options all the same.
AskedFor == \A u \in uploads : u.secret = rec[u.r].secret \/ noted.reasked

\* A manifest counts as many chunks as the report told, unless an error of an
\* upload was reported, finalize overtook an upload that it does not wait for,
\* or chunks of several recorders shared the indices of one session.
ManifestComplete ==
  manifest.chunks = manifest.told \/ noted.failed \/ noted.overtook \/ made > 1
=============================================================================
