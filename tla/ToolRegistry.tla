----------------------------- MODULE ToolRegistry -----------------------------
(***************************************************************************)
(* The tools an agent may call: tools/registry.py and the adapter that     *)
(* registers the tools of an MCP server (tools/mcp_adapter.py).  A name is *)
(* a sequence of fragments, so that a prefixed name is a concatenation.    *)
(* Each operation holds the registry's lock, and runs at any time.         *)
(***************************************************************************)
EXTENDS Sequences

CONSTANTS
    LocalTools,   \* names of tools the process registers itself
    ServedTools,  \* names an MCP server lists, and answers to
    Prefix        \* name_prefix of the discovery, <<>> for none

VARIABLES registry,  \* ToolRegistry._tools: what each registered name runs
          refused    \* a healthy tool was called and failed (history)

Local(name) == [source |-> "local", asks |-> name]
Served(name) == [source |-> "mcp", asks |-> name]

Names == LocalTools \cup {Prefix \o name : name \in ServedTools}
Tools == {Local(name) : name \in LocalTools}
         \cup {Served(Prefix \o name) : name \in ServedTools}

\* ToolRegistry.register refuses a name that is taken.
Register(name) ==
    /\ name \notin DOMAIN registry
    /\ registry' = [n \in DOMAIN registry \cup {name} |->
                       IF n = name THEN Local(name) ELSE registry[n]]
    /\ UNCHANGED refused

Unregister(name) ==
    /\ name \in DOMAIN registry
    /\ registry' = [n \in DOMAIN registry \ {name} |-> registry[n]]
    /\ UNCHANGED refused

\* MCPToolAdapter: the adapter asks the server for the name it is registered
\* under.  The mutant asks for another tool.
AdapterOfAnother(name) == Served(name \o <<"v2">>)
Adapter(name) == Served(name)

\* register_mcp_tools: every tool the server lists, except under names that
\* are taken; a server that cannot list its tools adds none.
RegisterMcpTools ==
    LET found == {Prefix \o name : name \in ServedTools} \ DOMAIN registry IN
    /\ found # {}
    /\ registry' = [n \in DOMAIN registry \cup found |->
                       IF n \in found THEN Adapter(n) ELSE registry[n]]
    /\ UNCHANGED refused

\* What a tool's own run comes to; it may raise, or return something that is
\* no ToolResult, which dispatch turns into a failed result.
RunOutcomes == {"result", "error", "raises", "garbage"}

\* MCPToolAdapter.run asks the server, which knows the names it lists; a
\* local tool is asked for nothing by name.
Reaches(tool) == tool.source = "local" \/ tool.asks \in ServedTools

\* ToolRegistry.dispatch: whether the result is ok.
Dispatch(name, outcome) ==
    /\ name \in DOMAIN registry
    /\ Reaches(registry[name])
    /\ outcome = "result"

RegistryChanges ==
    \/ \E name \in LocalTools : Register(name)
    \/ \E name \in Names : Unregister(name)
    \/ RegisterMcpTools

\* A tool found by discovery, called while it is registered and its server
\* well, answers, whatever other threads did to the registry before: the name
\* it is registered under leads to an adapter that asks its server for a name
\* the server lists.
DiscoveredToolsAnswer == ~refused

=============================================================================
