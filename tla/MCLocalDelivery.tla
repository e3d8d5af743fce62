--------------------------- MODULE MCLocalDelivery ---------------------------
(* Small instances of LocalDelivery for TLC.                               *)
EXTENDS LocalDelivery

\* Events that mention nobody, and events for @everyone.
MCMention == {{}, Handle}
=============================================================================
