---------------------------- MODULE FifoDelivery ----------------------------
(***************************************************************************)
(* What an ordering stage promises its consumer, per sender: frames are    *)
(* numbered from 0 by the sender and handed over in that order, each once, *)
(* none skipped and none before it was sent.  A stage may hand several     *)
(* frames over at once, so what the consumer has is always a prefix.       *)
(***************************************************************************)
EXTENDS Integers

CONSTANT Sender

VARIABLES
  sent,   \* frames each sender has numbered so far
  got     \* the numbers the consumer has received

vars == <<sent, got>>

Init == /\ sent = [s \in Sender |-> 0]
        /\ got = [s \in Sender |-> {}]

Send(s) == /\ sent' = [sent EXCEPT ![s] = @ + 1]
           /\ UNCHANGED got

Deliver(s) == /\ \E n \in 1 .. sent[s] :
                    /\ got[s] \subseteq 0 .. n - 1
                    /\ got' = [got EXCEPT ![s] = 0 .. n - 1]
              /\ UNCHANGED sent

Next == \E s \in Sender : Send(s) \/ Deliver(s)

Spec == Init /\ [][Next]_vars
=============================================================================
