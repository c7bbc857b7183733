------------------------------- MODULE MCHitl -------------------------------
(* Instances of Hitl for TLC: m is a request of the MCP server, which looks at
   the window of its server and at the global one, and c one of "ssh connect
   --cmd", which looks at none. *)
EXTENDS Hitl, TLC

CONSTANTS m, c, server, global

OnlyM == {m}
Both == {m, c}
Apart == {{r} : r \in Requests}
TwoScopes == {server, global}
GlobalOnly == {global}

LooksAtTwo == [r \in Requests |-> IF r = m THEN <<server, global>> ELSE <<>>]
LooksAtGlobal == [r \in Requests |-> IF r = m THEN <<global>> ELSE <<>>]
=============================================================================
