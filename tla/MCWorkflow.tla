------------------------------ MODULE MCWorkflow ------------------------------
(***************************************************************************)
(* A small instance of the stored graph with those who read it: a call that *)
(* is being loaded (AgentCall), the seeders of the demo (DemoClone), and    *)
(* the calls of one tool with its config (HttpTool), which no other part    *)
(* looks into.  They share no state but the graph, which they only read, so *)
(* a behaviour has one of the three at work.                               *)
(***************************************************************************)
EXTENDS AgentCall, DemoClone, HttpTool, TLC

VARIABLE about  \* "graph" or "tool"

Symmetry ==
  Permutations(Agents) \cup Permutations(Tools) \cup Permutations(Edges)
    \cup Permutations(Requests) \cup Permutations(Tenants)

AllOperations == OperationKinds

\* What changes the agents, tools and edges that a reader takes along.
ReadOperations ==
  {"new_workflow", "new_agent", "edit_agent", "drop_agent", "new_tool", "new_edge",
   "edit_edge"}

\* A graph that has had nothing but agents.
Plain ==
  /\ \A t \in Tools : node[t].st = "fresh"
  /\ \A e \in Edges : edge[e].st = "fresh"

\* Bound: agents are edited, and seeders race, on plain graphs.
FewEdits == (\E a \in Agents : node[a].config = "edited") => Plain

Races == \E s, x \in Seeders : s # x /\ ~At(s, "idle") /\ ~At(x, "idle")

NobodySeeds == \A s \in Seeders : At(s, "idle")

MCInit ==
  /\ SeedInit /\ call = NoCall /\ ToolInit
  /\ \/ about = "graph" /\ tool.method = "GET"
     \/ about = "tool"

\* The graph is edited beside a call, or beside seeders.
EditNext ==
  \/ NobodySeeds /\ EditStep /\ FewEdits' /\ UNCHANGED <<tenant, copy, seeder>>
  \/ ~NobodySeeds /\ SourceStep /\ FewEdits' /\ UNCHANGED call
     /\ (Races => Plain')

ReadNext ==
  \/ NobodySeeds /\ CallStep /\ UNCHANGED <<vars, tenant, copy, seeder>>
  \/ /\ call.pc = "idle" /\ (\E s \in Seeders : SeederStep(s))
     /\ (Races' => Plain) /\ UNCHANGED <<vars, call>>

MCNext ==
  /\ \/ about = "graph" /\ (EditNext \/ ReadNext) /\ UNCHANGED toolVars
     \/ about = "tool" /\ ToolNext /\ UNCHANGED <<vars, tenant, copy, seeder, call>>
  /\ UNCHANGED about

MCSpec ==
  MCInit /\ [][MCNext]_<<vars, tenant, copy, seeder, call, toolVars, about>>
=============================================================================
