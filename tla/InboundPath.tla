---------------------------- MODULE InboundPath ----------------------------
(***************************************************************************)
(* The receiving half of a client: BaseSignalingTransport.deliverFrame     *)
(* (packages/transport/src/base.ts) composed with the Room that subscribed *)
(* to it.  Every frame push() returns is fanned out synchronously to       *)
(* Room.handleEnvelope (packages/core/src/room.ts), which drops it unless  *)
(* OrderedMessageBuffer.accept (packages/core/src/ordering.ts) takes it.   *)
(*                                                                         *)
(* Kind = {"plain"} is BaseOptions.reorder = false: no kind is ordered.    *)
(* A participant's two sessions carry different sessionIds.                *)
(***************************************************************************)
EXTENDS ReorderBuffer

VARIABLES
  lastSeq,     \* OrderedMessageBuffer.lastSeq per sender session, -1 if unset
  handled,     \* envelopes the Room dispatched
  repeated     \* those it dispatched a second time

inVars == <<lastSeq, handled, repeated>>
allVars == <<vars, inVars>>

Session == Sender \X (1 .. MaxSess)

SessionOf(f) == <<f.from, f.sess>>

InInit ==
  /\ Init
  /\ lastSeq = [k \in Session |-> -1]
  /\ handled = {}
  /\ repeated = {}

\* Faulty variant: no envelope is ever taken for a replay.
AlwaysNewer(f) == TRUE

\* accept(): newer than everything accepted from the same session.
Newer(f) == f.seq > lastSeq[SessionOf(f)]

\* handleEnvelope for each frame of `out', which rises in seq, so that each
\* one only has to beat what its session had accepted before the fan-out.
Dispatch(out) ==
  LET taken == {f \in out : Newer(f)}
      top(k) == {f.seq : f \in {g \in taken : SessionOf(g) = k}}
  IN /\ handled' = handled \cup taken
     /\ repeated' = repeated \cup (handled \cap taken)
     /\ lastSeq' = [k \in Session |->
                      IF top(k) = {} THEN lastSeq[k]
                      ELSE CHOOSE m \in top(k) : \A n \in top(k) : n <= m]

ReceivePlain(f) == PushPlain(f) /\ Dispatch({f})

ReceiveDuplicate(f) == PushDuplicate(f) /\ UNCHANGED inVars

ReceiveOrdered(f) ==
  PushOrdered(f) /\ Dispatch(released'[f.from] \ released[f.from])

Receive(f) == ReceivePlain(f) \/ ReceiveDuplicate(f) \/ ReceiveOrdered(f)

InNext ==
  \/ /\ \/ \E s \in Sender, k \in Kind : Emit(s, k)
        \/ \E s \in Sender : Rejoin(s) \/ Sweep(s)
        \/ \E f \in wire : Lose(f)
     /\ UNCHANGED inVars
  \/ \E f \in wire : Receive(f)

InSpec == InInit /\ [][InNext]_allVars

-----------------------------------------------------------------------------
(* Properties.                                                             *)

\* The Room handles no envelope twice.
HandledOnce == repeated = {}

\* The window of a session stands at the newest envelope handled from it, so
\* a replayed envelope of this or an earlier moment is always recognised.
WindowIsNewestHandled ==
  \A k \in Session :
    \/ lastSeq[k] = -1 /\ ~\E f \in handled : SessionOf(f) = k
    \/ /\ \E f \in handled : SessionOf(f) = k /\ f.seq = lastSeq[k]
       /\ \A f \in handled : SessionOf(f) = k => f.seq <= lastSeq[k]

\* Whatever the channel reorders, repeats or loses and whatever the transport
\* buffer releases again after a sweep, what the Room handles of a session
\* rises strictly, and the session's window stands where it last handled.
HandledRising ==
  [][/\ \A f \in handled' \ handled, g \in handled :
          SessionOf(f) = SessionOf(g) => f.seq > g.seq
     /\ HandledOnce' /\ WindowIsNewestHandled']_allVars
=============================================================================
