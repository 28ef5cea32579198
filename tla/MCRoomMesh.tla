----------------------------- MODULE MCRoomMesh -----------------------------
(* Peers are interchangeable: no definition compares two of them.          *)
EXTENDS RoomMesh, TLC

PeerSymmetry == Permutations(Peer)
=============================================================================
