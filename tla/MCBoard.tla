------------------------------- MODULE MCBoard -------------------------------
(* Board on a small room: two agents and the owner, one operation each.    *)
EXTENDS Board

\* Updates that edit the pending question, ask a new one, or do nothing to
\* posts.
MCEdit == {{"title"}, {"options"}, {"notes", "human"}, {"title", "plain"}}
=============================================================================
