----------------------------- MODULE MCRoundBuild -----------------------------
(***************************************************************************)
(* A roster of two specialists, one with the default budget of a single    *)
(* step and one with three; three distinct targets; a tool of the process  *)
(* and one of an MCP server.                                               *)
(***************************************************************************)
EXTENDS RoundBuild

MCTarget == [default |-> "qwen", escalation |-> "glm", fallback |-> "minimax"]
MCRoster == <<"implementation", "risk">>
MCFallbackRoster == <<"implementation">>
MCTurnBudget == [implementation |-> 3, risk |-> 1]
MCLocalTools == {<<"calc">>}
MCServedTools == {<<"search">>}
MCUnknownTool == <<"nosuch">>
NoPrefix == <<>>
McpPrefix == <<"mcp.">>

=============================================================================
