------------------------------ MODULE MCTracePage ------------------------------
(***************************************************************************)
(* The instance of TracePage: a run of four events, one of them a call of  *)
(* the MCP server, and two requests that may overlap.                      *)
(***************************************************************************)
EXTENDS TracePage, TLC

MCScript == <<"thought", "mcp", "thought", "final">>

MCAlike == Permutations(Calls)

=============================================================================
