---------------------------- MODULE MCRoomServer ----------------------------
(* RoomServer with the symmetry of its connections, of its workers and of  *)
(* the participants without privileges.                                    *)
EXTENDS RoomServer, TLC

Symmetry == Permutations(Sock) \cup Permutations(Worker) \cup Permutations(Pid \ Privileged)
\* At most one of the connections goes: what two drops do to each other is one participant's
\* row, which the model reaches with a drop beside a leave, a kick or a join.
OneLives == open # {}
=============================================================================
