------------------------------ MODULE MCPgConn ------------------------------
(* Small instances of PgConn for TLC.                                       *)
EXTENDS PgConn, TLC

CONSTANTS r1, r2, r3

\* All requests over HTTP; one of them over MCP.
MCHttpOnly == [r \in Requests |-> "http"]
MCBoth == [r \in Requests |-> IF r = r1 THEN "mcp" ELSE "http"]

MCSymmetry == Permutations(Requests)
=============================================================================
