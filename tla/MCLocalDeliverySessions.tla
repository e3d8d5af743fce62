----------------------- MODULE MCLocalDeliverySessions -----------------------
(* Small instances of LocalDeliverySessions for TLC.                       *)
EXTENDS LocalDeliverySessions

\* Events that mention nobody, and events for @everyone.
MCMention == {{}, Handle}
=============================================================================
