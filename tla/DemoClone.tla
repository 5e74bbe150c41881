------------------------------ MODULE DemoClone -------------------------------
(***************************************************************************)
(* Every tenant gets a copy of the demo workflow: when it registers, when  *)
(* an operator bootstraps it with create_user, or from the backfill script.*)
(* All three call clone_workflow_to_tenant, which reads the source table by*)
(* table, each statement seeing what is committed by then, while the       *)
(* source's owner goes on editing it (WorkflowGraph).                      *)
(*                                                                         *)
(* A copied row is written as the id of its source; a tenant's copy is one *)
(* value, for it appears in one commit.                                    *)
(***************************************************************************)
EXTENDS WorkflowGraph

CONSTANTS
  Tenants,        \* tenants that may be created, the source's own left out
  Demo,           \* DEMO_WORKFLOW_NAME
  Registrations,  \* POST /auth/register requests
  Bootstraps,     \* runs of scripts/create_user.py
  Backfills       \* runs of scripts/backfill_demo_workflows.py

ASSUME SeedAssumption ==
  /\ Demo \in Titles
  /\ None \notin Tenants
  /\ Registrations \cap Bootstraps = {}
  /\ (Registrations \cup Bootstraps) \cap Backfills = {}

VARIABLES
  tenant,  \* the tenant table and whether it has its first user
  copy,    \* the tenant's copy of the demo
  seeder   \* who is seeding, and what has been read

allVars == <<workflow, node, edge, req, tenant, copy, seeder>>

Seeders == Registrations \cup Bootstraps \cup Backfills

Reading == {"agents", "tools", "positions", "configs", "edges", "write"}

\* held: the session has the source's row since its last commit, and asks for it
\* no more.  changed is history: the source was edited since the first table was
\* read.
SeederStates ==
  [pc : {"idle", "pick", "lookup", "insert", "user", "done", "failed"} \cup Reading,
   tenant : Tenants \cup {None}, todo : SUBSET Tenants,
   source : Workflows \cup {None}, held : BOOLEAN,
   agents : SUBSET Agents, tools : SUBSET (Tools \X (Agents \cup {None})),
   positions : SUBSET Nodes, configs : SUBSET Nodes,
   edges : SUBSET (Nodes \X Nodes), changed : BOOLEAN]

Resting == [pc |-> "idle", tenant |-> None, todo |-> {}, source |-> None,
            held |-> FALSE, agents |-> {}, tools |-> {}, positions |-> {}, configs |-> {},
            edges |-> {}, changed |-> FALSE]

Copies == [agents : SUBSET Agents, tools : SUBSET (Tools \X (Agents \cup {None})),
           positions : SUBSET Nodes, configs : SUBSET Nodes,
           edges : SUBSET (Nodes \X Nodes)]

NoCopy == None

SeedInit ==
  /\ Init
  /\ tenant = [t \in Tenants |-> "absent"]
  /\ copy = [t \in Tenants |-> NoCopy]
  /\ seeder = [s \in Seeders |-> Resting]

-----------------------------------------------------------------------------

Moves(s, fields) == seeder' = [seeder EXCEPT ![s] = fields]

At(s, pc) == seeder[s].pc = pc

Goes(s, pc) == Moves(s, [seeder[s] EXCEPT !.pc = pc])

\* The demo workflow of the source tenant.
DemoWorkflows == {w \in Workflows : workflow[w].st = "live" /\ workflow[w].name = Demo}

\* register_new_tenant: create_user commits the tenant with its first user,
\* before anything of the demo is looked up.
Register(s, t) ==
  /\ s \in Registrations /\ At(s, "idle")
  /\ tenant[t] = "absent"
  /\ tenant' = [tenant EXCEPT ![t] = "in_use"]
  /\ Moves(s, [Resting EXCEPT !.pc = "lookup", !.tenant = t])
  /\ UNCHANGED copy

\* create_user.py: the tenant is committed alone; one that exists already is
\* given a user and no demo.
Bootstrap(s, t) ==
  /\ s \in Bootstraps /\ At(s, "idle")
  /\ tenant' = [tenant EXCEPT ![t] = IF @ = "absent" THEN "no_user" ELSE @]
  /\ Moves(s, [Resting EXCEPT !.tenant = t,
                 !.pc = IF tenant[t] = "absent" THEN "lookup" ELSE "user"])
  /\ UNCHANGED copy

CreateFirstUser(s) ==
  /\ s \in Bootstraps /\ At(s, "user")
  /\ tenant' = [tenant EXCEPT ![seeder[s].tenant] = "in_use"]
  /\ Goes(s, "done")
  /\ UNCHANGED copy

\* The backfill finds the demo, then lists the tenants there are.
StartBackfill(s) ==
  /\ s \in Backfills /\ At(s, "idle")
  /\ \E w \in DemoWorkflows :
       Moves(s, [Resting EXCEPT !.pc = "pick", !.source = w, !.held = TRUE,
                   !.todo = {t \in Tenants : tenant[t] # "absent"}])
  /\ UNCHANGED <<tenant, copy>>

\* The next tenant of the list: skipped if it has a workflow by now.
PickTenant(s) ==
  /\ At(s, "pick")
  /\ \/ seeder[s].todo = {} /\ Goes(s, "done")
     \/ \E t \in seeder[s].todo :
          Moves(s, [Resting EXCEPT !.source = seeder[s].source, !.held = seeder[s].held,
                      !.todo = seeder[s].todo \ {t},
                      !.tenant = IF copy[t] = NoCopy THEN t ELSE None,
                      !.pc = IF copy[t] = NoCopy THEN "insert" ELSE "pick"])
  /\ UNCHANGED <<tenant, copy>>

\* Where a seeder goes when there is nothing to clone, and after a clone.
Afterwards(s) ==
  IF s \in Bootstraps THEN "user" ELSE IF s \in Backfills THEN "pick" ELSE "done"

LookUpDemo(s) ==
  /\ At(s, "lookup")
  /\ IF DemoWorkflows = {} THEN Goes(s, Afterwards(s))
     ELSE \E w \in DemoWorkflows :
            Moves(s, [seeder[s] EXCEPT !.pc = "insert", !.source = w, !.held = TRUE])
  /\ UNCHANGED <<tenant, copy>>

\* Slip: no constraint makes one clone wait for the other.
ContendedNot(s) == FALSE

\* Another clone for the tenant has inserted its workflow and not ended.
Contended(s) ==
  \E x \in Seeders \ {s} : seeder[x].pc \in Reading /\ seeder[x].tenant = seeder[s].tenant

\* The new workflow's row: a second one of the name waits, then is refused by
\* uq_workflow_tenant_name.  A session that does not hold the source reads it
\* again first; one that does copies what is left of it, if it is gone nothing.
InsertCopy(s) ==
  /\ At(s, "insert")
  /\ ~Contended(s)
  /\ Goes(s, IF \/ copy[seeder[s].tenant] # NoCopy
                \/ ~seeder[s].held /\ workflow[seeder[s].source].st # "live"
             THEN "failed" ELSE "agents")
  /\ UNCHANGED <<tenant, copy>>

In(s) == {n \in Nodes : NodeIn(n, seeder[s].source)}

ReadAgents(s) ==
  /\ At(s, "agents")
  /\ Moves(s, [seeder[s] EXCEPT !.pc = "tools", !.agents = In(s) \cap Agents])
  /\ UNCHANGED <<tenant, copy>>

ReadTools(s) ==
  /\ At(s, "tools")
  /\ Moves(s, [seeder[s] EXCEPT !.pc = "positions",
                 !.tools = {<<t, node[t].agent>> : t \in In(s) \cap Tools}])
  /\ UNCHANGED <<tenant, copy>>

ReadPositions(s) ==
  /\ At(s, "positions")
  /\ Moves(s, [seeder[s] EXCEPT !.pc = "configs", !.positions = In(s)])
  /\ UNCHANGED <<tenant, copy>>

ReadConfigs(s) ==
  /\ At(s, "configs")
  /\ Moves(s, [seeder[s] EXCEPT !.pc = "edges", !.configs = In(s)])
  /\ UNCHANGED <<tenant, copy>>

\* Slip: an edge's ends are swapped.
ReadEdgesReversed(s) ==
  /\ At(s, "edges")
  /\ Moves(s, [seeder[s] EXCEPT !.pc = "write",
                 !.edges = {<<edge[e].target, edge[e].source>> :
                              e \in {x \in LiveEdges : edge[x].wf = seeder[s].source}}])
  /\ UNCHANGED <<tenant, copy>>

ReadEdges(s) ==
  /\ At(s, "edges")
  /\ Moves(s, [seeder[s] EXCEPT !.pc = "write",
                 !.edges = {<<edge[e].source, edge[e].target>> :
                              e \in {x \in LiveEdges : edge[x].wf = seeder[s].source}}])
  /\ UNCHANGED <<tenant, copy>>

ToolsRead(s) == {pair[1] : pair \in seeder[s].tools}

\* Slip: a tool whose agent is not in the map is copied without.
ToolsMapSome(s) == TRUE

\* Every tool's agent is in the map of agents: agent_id_map[...] raises else.
ToolsMap(s) == \A pair \in seeder[s].tools : pair[2] \in seeder[s].agents

\* Slip: positions are looked up among the agents only.
PositionsMapAgents(s) == seeder[s].positions \subseteq seeder[s].agents

\* A position whose node is in neither map has no owner and breaks the check
\* only_one_position_type.
PositionsMap(s) == seeder[s].positions \subseteq seeder[s].agents \cup ToolsRead(s)

\* So does a config with only_one_node_type.
ConfigsMap(s) == seeder[s].configs \subseteq seeder[s].agents \cup ToolsRead(s)

\* The second pass links each copied node to its position and config.
LinksMap(s) ==
  seeder[s].agents \cup ToolsRead(s) \subseteq seeder[s].positions \cap seeder[s].configs

EdgesMap(s) ==
  \A pair \in seeder[s].edges : {pair[1], pair[2]} \subseteq seeder[s].positions

CloneHolds(s) ==
  ToolsMap(s) /\ PositionsMap(s) /\ ConfigsMap(s) /\ LinksMap(s) /\ EdgesMap(s)

WriteCopy(s) ==
  /\ At(s, "write")
  /\ CloneHolds(s)
  /\ copy' = [copy EXCEPT ![seeder[s].tenant] =
                [agents |-> seeder[s].agents, tools |-> seeder[s].tools,
                 positions |-> seeder[s].positions, configs |-> seeder[s].configs,
                 edges |-> seeder[s].edges]]
  /\ Moves(s, [seeder[s] EXCEPT !.pc = Afterwards(s), !.held = FALSE])
  /\ UNCHANGED tenant

\* The clone raises: its transaction is undone, and the request, or the whole
\* script with the tenants it had left, ends there.
FailClone(s) ==
  /\ At(s, "write")
  /\ ~CloneHolds(s)
  /\ Goes(s, "failed")
  /\ UNCHANGED <<tenant, copy>>

SeederStep(s) ==
  \/ \E t \in Tenants : Register(s, t) \/ Bootstrap(s, t)
  \/ CreateFirstUser(s)
  \/ StartBackfill(s) \/ PickTenant(s) \/ LookUpDemo(s) \/ InsertCopy(s)
  \/ ReadAgents(s) \/ ReadTools(s) \/ ReadPositions(s) \/ ReadConfigs(s) \/ ReadEdges(s)
  \/ WriteCopy(s) \/ FailClone(s)

\* The owner edits the source.
SourceStep ==
  /\ Next
  /\ seeder' = [s \in Seeders |->
                  [seeder[s] EXCEPT !.changed = @ \/ seeder[s].pc \in Reading]]
  /\ UNCHANGED <<tenant, copy>>

SeedNext ==
  \/ SourceStep
  \/ (\E s \in Seeders : SeederStep(s)) /\ UNCHANGED vars

SeedSpec == SeedInit /\ [][SeedNext]_allVars

-----------------------------------------------------------------------------
(* Properties.                                                              *)

\* The types of the seeding variables.
SeedTypeOK ==
  /\ tenant \in [Tenants -> {"absent", "no_user", "in_use"}]
  /\ copy \in [Tenants -> Copies \cup {NoCopy}]
  /\ seeder \in [Seeders -> SeederStates]

\* A copy that was committed is whole, whatever the owner did to the source
\* while its tables were read one by one: every tool has its agent, every edge
\* both its ends, every node its position and config, among what was copied.
CopiesWhole ==
  \A t \in Tenants : copy[t] # NoCopy =>
    LET tools == {pair[1] : pair \in copy[t].tools}
        nodes == copy[t].agents \cup tools
    IN /\ \A pair \in copy[t].tools : pair[2] \in copy[t].agents
       /\ copy[t].positions = nodes /\ copy[t].configs = nodes
       /\ \A pair \in copy[t].edges : {pair[1], pair[2]} \subseteq nodes

\* What is stored of a workflow.
Here(w) == {n \in Nodes : NodeIn(n, w)}

ToolsHere(w) == {<<t, node[t].agent>> : t \in Here(w) \cap Tools}

LinksHere(w) ==
  {<<edge[e].source, edge[e].target>> : e \in {x \in LiveEdges : edge[x].wf = w}}

Contents(w) ==
  [agents |-> Here(w) \cap Agents, tools |-> ToolsHere(w),
   positions |-> Here(w), configs |-> Here(w), edges |-> LinksHere(w)]

\* A copy appears only by a clone's commit, and is then what is stored of the
\* source at that moment, table for table, although it was read by five
\* statements, unless the owner edited the source between the first and the
\* commit.
CopiesMirrorSource ==
  [][\A t \in Tenants : copy'[t] # copy[t] =>
       \E s \in Seeders :
         /\ seeder[s].tenant = t /\ At(s, "write")
         /\ seeder[s].changed \/ copy'[t] = Contents(seeder[s].source)]_allVars

\* However registrations, bootstraps and backfills race for a tenant, its demo
\* is seeded once: no clone replaces the copy of another.
DemoIsSeededOnce ==
  [][\A t \in Tenants : copy[t] # NoCopy => copy'[t] = copy[t]]_allVars

\* A clone fails for one of two reasons only: the source was edited while it
\* was read, or it holds a tool whose agent had been deleted.
OnlyEditsFailClones ==
  \A s \in Seeders : At(s, "write") /\ ~CloneHolds(s) =>
    \/ seeder[s].changed
    \/ \E pair \in seeder[s].tools : pair[2] = None

\* register_new_tenant: "so the new tenant never lands on an empty workflow
\* list": a tenant that can sign in and is not being seeded has the demo.
RegisteredTenantsSeeded ==
  \A s \in Registrations :
    seeder[s].pc \in {"done", "failed"} /\ DemoWorkflows # {} =>
      copy[seeder[s].tenant] # NoCopy

\* backfill_demo_workflows.py: "Seeds the demo workflow into every existing
\* tenant that has none": when it is over, no tenant it listed is left out.
BackfillSeedsAll ==
  \A s \in Backfills : seeder[s].pc = "failed" => seeder[s].todo = {}

=============================================================================
