---------------------------- MODULE MCMcpServer ----------------------------
(* Constants for model checking McpServer: one or two files, up to two tool *)
(* calls and one command beside them.                                       *)
EXTENDS McpServer

CONSTANTS f1, f2, good1, good2, junk, r1, r2, cli

OneFile == {f1}
TwoFiles == {f1, f2}
OneContent == {good1}
Good == {good1, good2}
OneCall == {r1}
TwoCalls == {r1, r2}
CallAndCli == {r1, cli}
=============================================================================
