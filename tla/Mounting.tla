------------------------------- MODULE Mounting -------------------------------
(***************************************************************************)
(* Which tools a start registers for the configured MCP servers.  Servers  *)
(* are mounted one after the other; one that fails contributes nothing,    *)
(* the first to claim a name keeps it, and a name the program itself uses  *)
(* refuses the whole batch.  A tool is the local name its server's name    *)
(* and its own are folded into, so two tools may share one.                *)
(***************************************************************************)
EXTENDS Naturals, Sequences, FiniteSets, SequencesExt

CONSTANTS
  ServerOrder,  \* the configured servers, in order
  Native,       \* the names of the tools the apps registered
  ToolName,     \* the local names
  Listings,     \* Listings[s]: what server s may list: sequences of [name, fit]
  ToolCap       \* MAX_TOOLS_PER_SERVER

Server == Range(ServerOrder)
Tool == [name : ToolName, fit : BOOLEAN]

ASSUME MountingAssumption ==
  /\ ToolCap \in Nat
  /\ Native \subseteq ToolName
  /\ ServerOrder \in Seq(Server)
  /\ "native" \notin Server
  /\ \A s \in Server : Listings[s] \subseteq Seq(Tool)

\* What a server that could not be mounted lists.
Failed == <<>>

NativeRegistry == [n \in Native |-> "native"]

\* Slip: claimed names are not looked at.
Consider_LastWins(server, mounted, tool) ==
  IF /\ Cardinality({n \in DOMAIN mounted : mounted[n] = server}) < ToolCap
     /\ tool.fit
  THEN [n \in DOMAIN mounted \cup {tool.name} |-> IF n = tool.name THEN server ELSE mounted[n]]
  ELSE mounted

\* One advertised tool: over the cap, unfit (name or schema) and claimed names
\* are dropped.
Consider(server, mounted, tool) ==
  IF /\ Cardinality({n \in DOMAIN mounted : mounted[n] = server}) < ToolCap
     /\ tool.fit
     /\ tool.name \notin DOMAIN mounted
  THEN [n \in DOMAIN mounted \cup {tool.name} |-> IF n = tool.name THEN server ELSE mounted[n]]
  ELSE mounted

CollectServerTools(server, mounted, list) ==
  LET taken[i \in 0..Len(list)] ==
        IF i = 0 THEN mounted ELSE Consider(server, taken[i - 1], list[i])
  IN taken[Len(list)]

\* The names the servers mounted so far claim, and who has them.
NoTools == [n \in {} |-> "native"]

Mounted(lists) ==
  LET claimed[k \in 0..Len(lists)] ==
        IF k = 0 THEN NoTools
        ELSE CollectServerTools(ServerOrder[k], claimed[k - 1], lists[k])
  IN claimed[Len(lists)]

\* add_mcp_tools checks every tool before it adds any.
Collides(registry, tools) ==
  \E n \in DOMAIN tools \cap DOMAIN registry : registry[n] = "native"

AddMcpTools(registry, tools) ==
  [n \in DOMAIN registry \cup DOMAIN tools |->
     IF n \in DOMAIN registry THEN registry[n] ELSE tools[n]]

===============================================================================
