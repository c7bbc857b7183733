------------------------------ MODULE MCBgJobs ------------------------------
(* Instances of BgJobs for TLC: one or two MCP jobs and one CLI job are
   enough, since jobs meet only in McpCrash and in a purge. *)
EXTENDS BgJobs

CONSTANTS m1, m2, c1

NoJobs == {}
OneMcpJob == {m1}
TwoMcpJobs == {m1, m2}
OneCliJob == {c1}
BothJobs == {m1, c1}
=============================================================================
