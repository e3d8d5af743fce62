-------------------------- MODULE MCConnectorConfig --------------------------
(* Small instances of ConnectorConfig for TLC.                             *)
EXTENDS ConnectorConfig, TLC

CONSTANTS r1, r2, i1, i2, alice

\* One invitation for each of two rooms.
MCInviteRoom == i1 :> r1 @@ i2 :> r2

\* An agent of the hub's own machine that wants the same handle.
MCOthers ==
  {[op |-> o, by |-> AgentOf(Local), room |-> r1, handle |-> alice] : o \in {"join", "send"}}
=============================================================================
