---------------------------- MODULE MCExpandCache ----------------------------
(* Two calls in one MCP server, one in another.                            *)
EXTENDS ExpandCache
CONSTANTS a, b, c, P, Q
MCRuns == [x \in Callers |-> IF x = c THEN Q ELSE P]
=============================================================================
