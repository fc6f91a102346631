---------------------------- MODULE MCRoomList ----------------------------
EXTENDS RoomList, TLC

Symmetry == Permutations(Rooms)

=============================================================================
