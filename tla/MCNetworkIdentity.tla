-------------------------- MODULE MCNetworkIdentity --------------------------
(* Small instances of NetworkIdentity for TLC.                             *)
EXTENDS NetworkIdentity, TLC

Symmetry == Permutations(Room) \cup Permutations(Device) \cup Permutations(Invite)
              \cup Permutations(Handle \ {OwnerHandle})
=============================================================================
