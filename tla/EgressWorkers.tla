---------------------------- MODULE EgressWorkers ----------------------------
(***************************************************************************)
(* What carries a room's stream out of the SFU.                             *)
(*                                                                          *)
(* FfmpegEgressWorker (packages/core/src/recording/sfu-egress.ts): one      *)
(* worker, several sessions, each a child process that is fed RTP and whose *)
(* output is handed on in numbered chunks.  The process is external: it may *)
(* end at any time (a missing binary ends at once) and what it had buffered *)
(* still comes out after it was killed.                                     *)
(*                                                                          *)
(* MediasoupAdapter.startEgress and stopEgress                              *)
(* (packages/sfu-gateway/src/mediasoup-adapter.ts): one handle per room;    *)
(* creating the PlainTransport is awaited, and so is the handle's stop.     *)
(***************************************************************************)
EXTENDS Naturals, Sequences

CONSTANTS W,          \* sessions of the worker
          C,          \* calls of startEgress for the room
          MaxChunks,  \* bound on a session's output
          MaxStops,   \* bound on calls of stopEgress
          Absent      \* no session, no handle, no result

ASSUME EgressAssumption == Absent \notin C

VARIABLES at,        \* of a session: idle, importing, running, placing (the placeholder), done
          proc,      \* its process: none, alive, killed, ended
          idx, stopped, fed,   \* variables of start(): next index, the flag, RTP attached
          handed,    \* indices given to onChunk
          result,    \* chunks the last stop() reported
          endedFirst,   \* the process ended before stop() (history)
          active     \* the worker's [w, stopped], or Absent
worker == <<at, proc, idx, stopped, fed, handed, result, endedFirst, active>>
VARIABLES call,        \* of a startEgress: idle, creating, done
          handle,      \* egressHandles.get(room): the call that made it, or Absent
          transports,  \* calls whose PlainTransport is open
          stopping,    \* stopEgress calls that await the handle's stop()
          stops, overlap \* calls of stopEgress; calls overlapped (history)
adapter == <<call, handle, transports, stopping, stops, overlap>>
egressVars == <<worker, adapter>>

EgressInit ==
  /\ at = [w \in W |-> "idle"] /\ proc = [w \in W |-> "none"] /\ idx = [w \in W |-> 0]
  /\ stopped = [w \in W |-> FALSE] /\ fed = [w \in W |-> FALSE] /\ handed = [w \in W |-> <<>>]
  /\ result = [w \in W |-> Absent] /\ endedFirst = [w \in W |-> FALSE] /\ active = Absent
  /\ call = [c \in C |-> "idle"] /\ handle = Absent /\ transports = {}
  /\ stopping = 0 /\ stops = 0 /\ overlap = FALSE

---- \* FfmpegEgressWorker

StartWorker(w) ==
  /\ at[w] = "idle" /\ at' = [at EXCEPT ![w] = "importing"]
  /\ UNCHANGED <<proc, idx, stopped, fed, handed, result, endedFirst, active>>

\* spawn() works or throws
Spawned(w) ==
  /\ at[w] = "importing" /\ at' = [at EXCEPT ![w] = "running"]
  /\ \E works \in BOOLEAN :
       /\ proc' = [proc EXCEPT ![w] = IF works THEN "alive" ELSE "none"]
       /\ fed' = [fed EXCEPT ![w] = works]
  /\ active' = [w |-> w, stopped |-> FALSE]
  /\ UNCHANGED <<idx, stopped, handed, result, endedFirst>>

Hand(w) == handed' = [handed EXCEPT ![w] = Append(@, idx[w])] /\ idx' = [idx EXCEPT ![w] = @ + 1]

Output(w) ==
  /\ proc[w] \in {"alive", "killed"} /\ Len(handed[w]) < MaxChunks /\ Hand(w)
  /\ UNCHANGED <<at, proc, stopped, fed, result, endedFirst, active>>

\* The 'close' event
Ended(w) ==
  /\ proc[w] \in {"alive", "killed"} /\ proc' = [proc EXCEPT ![w] = "ended"]
  /\ stopped' = [stopped EXCEPT ![w] = TRUE]
  /\ endedFirst' = [endedFirst EXCEPT ![w] = @ \/ ~stopped[w]]
  /\ UNCHANGED <<at, idx, fed, handed, result, active>>

Report(w) == result' = [result EXCEPT ![w] = idx[w]]
Inactive == active' = [active EXCEPT !.stopped = TRUE]

\* stop(): nothing if the process has ended; a placeholder if there is no chunk yet
PlaceAtZero(w) == handed' = [handed EXCEPT ![w] = Append(@, 0)] /\ UNCHANGED idx
Place(w) == Hand(w)
Cleanup(w) == fed' = [fed EXCEPT ![w] = FALSE]
StopWorker(w) ==
  /\ at[w] = "running"
  /\ IF stopped[w]
     THEN /\ at' = [at EXCEPT ![w] = "done"] /\ Report(w)
          /\ UNCHANGED <<proc, idx, stopped, fed, handed, active>>
     ELSE /\ stopped' = [stopped EXCEPT ![w] = TRUE] /\ Cleanup(w)
          /\ proc' = [proc EXCEPT ![w] = IF @ = "alive" THEN "killed" ELSE @]
          /\ IF idx[w] = 0
             THEN Place(w) /\ at' = [at EXCEPT ![w] = "placing"] /\ UNCHANGED <<result, active>>
             ELSE /\ Report(w) /\ Inactive /\ at' = [at EXCEPT ![w] = "done"]
                  /\ UNCHANGED <<idx, handed>>
  /\ UNCHANGED endedFirst

Placed(w) ==
  /\ at[w] = "placing" /\ at' = [at EXCEPT ![w] = "done"] /\ Report(w) /\ Inactive
  /\ UNCHANGED <<proc, idx, stopped, fed, handed, endedFirst>>

---- \* MediasoupAdapter

Creating == \E c \in C : call[c] = "creating"

\* startEgress: the handle there is, or a PlainTransport is created
startEgress(c) ==
  /\ call[c] = "idle" /\ overlap' = (overlap \/ Creating \/ stopping > 0)
  /\ call' = [call EXCEPT ![c] = IF handle # Absent THEN "done" ELSE "creating"]
  /\ UNCHANGED <<handle, transports, stopping, stops>>

\* Creation may fail: the handle then has nothing to close
Created(c) ==
  /\ call[c] = "creating" /\ call' = [call EXCEPT ![c] = "done"]
  /\ \E works \in BOOLEAN : transports' = IF works THEN transports \cup {c} ELSE transports
  /\ handle' = c /\ UNCHANGED <<stopping, stops, overlap>>

StopHandle == transports' = transports \ {handle}
stopEgress ==
  /\ stops < MaxStops /\ stops' = stops + 1
  /\ overlap' = (overlap \/ Creating \/ stopping > 0)
  /\ IF handle = Absent THEN UNCHANGED <<transports, stopping>>
     ELSE StopHandle /\ stopping' = stopping + 1
  /\ UNCHANGED <<call, handle>>

\* The room's entry goes, whichever handle it holds by now
Deleted ==
  /\ stopping > 0 /\ stopping' = stopping - 1 /\ handle' = Absent
  /\ UNCHANGED <<call, transports, stops, overlap>>

EgressNext ==
  \/ /\ \E w \in W : \/ StartWorker(w) \/ Spawned(w) \/ Output(w) \/ Ended(w)
                    \/ StopWorker(w) \/ Placed(w)
     /\ UNCHANGED adapter
  \/ /\ (stopEgress \/ Deleted \/ \E c \in C : startEgress(c) \/ Created(c))
     /\ UNCHANGED worker

EgressSpec == EgressInit /\ [][EgressNext]_egressVars

-----------------------------------------------------------------------------
\* Output that crosses the placeholder of a stop(), or comes after it, is numbered on: every
\* index is handed once, in order.  A stop() that finds the process running reports at least
\* one chunk and detaches the RTP feed (53, 81-95); one that finds it ended does neither.
WorkerStops ==
  \A w \in W : /\ handed[w] = [i \in 1..idx[w] |-> i - 1]
               /\ at[w] = "done" /\ ~endedFirst[w] => result[w] >= 1 /\ ~fed[w]

\* No PlainTransport is open that a stop of the room would not close, unless a call began
\* while another was under way (195-223).
EgressOwned == ~overlap => transports \subseteq {handle}
=============================================================================
