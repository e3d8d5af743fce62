-------------------------- MODULE MCNetworkDelivery --------------------------
(* Small instances of NetworkDelivery for TLC.                             *)
EXTENDS NetworkDelivery, TLC

\* Events that mention nobody, and events for @everyone.
MCMention == {{}, Handle}

Symmetry == Permutations(Handle) \cup Permutations(Target) \cup Permutations(Loop)
=============================================================================
