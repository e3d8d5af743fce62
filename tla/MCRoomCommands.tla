--------------------------- MODULE MCRoomCommands ---------------------------
(* Small instances of RoomCommands for TLC.                                *)
EXTENDS RoomCommands, TLC

Symmetry == Permutations(Handle) \cup Permutations(Dir) \cup Permutations(Process)
=============================================================================
