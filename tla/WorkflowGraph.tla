---------------------------- MODULE WorkflowGraph ----------------------------
(***************************************************************************)
(* The stored graph of a workflow: agents and tools, each with one config  *)
(* and one place on the canvas, and the edges between them, as the handlers*)
(* of the API change it for one tenant.                                    *)
(*                                                                         *)
(* Agent and workflow routes run in a thread pool and interleave between   *)
(* any two SQL statements; tool, edge and position routes are coroutines   *)
(* without an await and run whole, one after the other, on the event loop. *)
(* Postgres runs at READ COMMITTED: a statement sees what is committed, and*)
(* waits for the rows another transaction has changed.  Every request names*)
(* ids its page has been shown; one that is refused changes nothing and is *)
(* an action here only where it leaves something behind.                   *)
(***************************************************************************)
EXTENDS FiniteSets

CONSTANTS
  Workflows, Agents, Tools, Edges,  \* ids that may be drawn, each once
  Titles,      \* names of workflows
  Names,       \* names of agents
  Start,       \* the name of the agent a workflow is born with
  Spots,       \* places on the canvas
  Origin,      \* where a node is put when it is created
  Requests,    \* slots for agent requests in flight: bounds the concurrency
  None,
  Operations   \* the kinds of request made in a run, see OperationKinds

OperationKinds ==
  {"new_workflow", "drop_workflow", "new_agent", "edit_agent", "drop_agent",
   "new_tool", "edit_tool", "drop_tool", "new_edge", "edit_edge", "drop_edge",
   "move", "restart"}

ASSUME GraphAssumption ==
  /\ Start \in Names
  /\ Origin \in Spots
  /\ Agents \cap Tools = {}
  /\ None \notin Workflows \cup Agents \cup Tools \cup Names \cup Titles
  /\ Operations \subseteq OperationKinds

VARIABLES
  workflow, \* the workflow table
  node,     \* the agent and tool tables with nodeconfig and positionnode
  edge,     \* the edge table
  req       \* the agent requests in flight and where their handler stands

vars == <<workflow, node, edge, req>>

Nodes == Agents \cup Tools

\* An id is drawn once: a row that is gone never comes back under its id.
Stages == {"fresh", "live", "gone"}

WorkflowRows == [st : Stages, name : Titles \cup {None}]

Configs == {"given", "edited"}

AgentRows == [st : Stages, wf : Workflows \cup {None}, name : Names \cup {None},
              initial : BOOLEAN, agent : {None}, config : Configs, place : Spots]

ToolRows == [st : Stages, wf : Workflows \cup {None}, name : {None},
             initial : {FALSE}, agent : Agents \cup {None}, config : Configs,
             place : Spots]

\* owned: the row carries the tenant; without it no handler finds the edge.
EdgeRows == [st : Stages, wf : Workflows \cup {None},
             source : Nodes \cup {None}, target : Nodes \cup {None},
             owned : BOOLEAN]

\* An agent request between two of its statements or commits.  The last three
\* fields are a deletion's: the edges it has deleted but not committed, the
\* tools it has loaded, and (history) the edges the agent had when it began.
RequestStates ==
  [pc : {"free", "create", "rename", "delete", "detach"},
   wf : Workflows \cup {None}, agent : Agents \cup {None},
   name : Names \cup {None}, initial : BOOLEAN,
   dropped : SUBSET Edges, tools : SUBSET Tools, before : SUBSET Edges]

NoWorkflow(st) == [st |-> st, name |-> None]

NoNode(st) == [st |-> st, wf |-> None, name |-> None, initial |-> FALSE,
               agent |-> None, config |-> "given", place |-> Origin]

NoEdge(st) == [st |-> st, wf |-> None, source |-> None, target |-> None,
               owned |-> TRUE]

Free == [pc |-> "free", wf |-> None, agent |-> None, name |-> None,
         initial |-> FALSE, dropped |-> {}, tools |-> {}, before |-> {}]

Init ==
  /\ workflow = [w \in Workflows |-> NoWorkflow("fresh")]
  /\ node = [n \in Nodes |-> NoNode("fresh")]
  /\ edge = [e \in Edges |-> NoEdge("fresh")]
  /\ req = [r \in Requests |-> Free]

-----------------------------------------------------------------------------
(* Rows, constraints and locks.                                             *)

LiveEdges == {e \in Edges : edge[e].st = "live"}

NodeIn(n, w) == node[n].st = "live" /\ node[n].wf = w

EdgesAt(n) == {e \in LiveEdges : n \in {edge[e].source, edge[e].target}}

\* uq_workflow_tenant_name
WorkflowNameTaken(x) ==
  \E w \in Workflows : workflow[w].st = "live" /\ workflow[w].name = x

\* isNameAlreadyExist, and uq_agent_tenant_workflow_name for a row of its own.
NameTaken(x, w, self) == \E a \in Agents \ {self} : NodeIn(a, w) /\ node[a].name = x

\* The agent's row is locked from the flush of a deletion to its end, and so
\* are the edges it has deleted.
AgentLocked(a) ==
  \E r \in Requests : req[r].pc \in {"delete", "detach"} /\ req[r].agent = a

\* Slip: the edges a deletion has deleted are not locked.
EdgeUnlocked(e) == FALSE

EdgeLocked(e) == \E r \in Requests : e \in req[r].dropped

\* A workflow's row goes, and by ON DELETE CASCADE every row that names it.
CascadeWorkflow(w) ==
  /\ workflow' = [workflow EXCEPT ![w] = NoWorkflow("gone")]
  /\ node' = [n \in Nodes |-> IF NodeIn(n, w) THEN NoNode("gone") ELSE node[n]]
  /\ edge' = [e \in Edges |-> IF e \in LiveEdges /\ edge[e].wf = w
                              THEN NoEdge("gone") ELSE edge[e]]

RemoveEdges(E) ==
  edge' = [e \in Edges |-> IF e \in E THEN NoEdge("gone") ELSE edge[e]]

\* The row a node is born with.
Born(w, fields) ==
  [st |-> "live", wf |-> w, name |-> fields.name, initial |-> fields.initial,
   agent |-> fields.agent, config |-> "given", place |-> Origin]

\* A node is inserted with its config and its position in one transaction.
InsertNode(n, w, fields) == [node EXCEPT ![n] = Born(w, fields)]

AgentFields(x, initial) == [name |-> x, initial |-> initial, agent |-> None]

\* Slip: a tool is created like the agent a workflow is born with.
ToolFieldsOfStart(a) == [name |-> None, initial |-> TRUE, agent |-> a]

ToolFields(a) == [name |-> None, initial |-> FALSE, agent |-> a]

-----------------------------------------------------------------------------
(* Workflows.                                                               *)

\* create_workflow_with_initial_agent: both rows or none.
CreateWorkflow(w, x, a) ==
  /\ "new_workflow" \in Operations
  /\ workflow[w].st = "fresh" /\ node[a].st = "fresh"
  /\ ~WorkflowNameTaken(x)
  /\ workflow' = [workflow EXCEPT ![w] = [st |-> "live", name |-> x]]
  /\ node' = InsertNode(a, w, AgentFields(Start, TRUE))
  /\ UNCHANGED <<edge, req>>

\* Waits for the deletions of its agents that are under way.
DeleteWorkflow(w) ==
  /\ "drop_workflow" \in Operations
  /\ workflow[w].st = "live"
  /\ ~\E a \in Agents : NodeIn(a, w) /\ AgentLocked(a)
  /\ CascadeWorkflow(w)
  /\ UNCHANGED req

-----------------------------------------------------------------------------
(* Agents.                                                                  *)

\* The name is looked up in a statement of its own.
CheckAgentName(r, w, x) ==
  /\ "new_agent" \in Operations
  /\ req[r].pc = "free"
  /\ workflow[w].st = "live"
  /\ ~NameTaken(x, w, None)
  /\ req' = [req EXCEPT ![r] = [Free EXCEPT !.pc = "create", !.wf = w, !.name = x]]
  /\ UNCHANGED <<workflow, node, edge>>

\* Slip: the insert relies on the lookup, no constraint backs it.
InsertAgentUnconstrained(r, a) ==
  /\ req[r].pc = "create"
  /\ node[a].st = "fresh"
  /\ workflow[req[r].wf].st = "live"
  /\ node' = InsertNode(a, req[r].wf, AgentFields(req[r].name, FALSE))
  /\ req' = [req EXCEPT ![r] = Free]
  /\ UNCHANGED <<workflow, edge>>

\* Slip: the agent's row needs no workflow.
InsertAgentAnywhere(r, a) ==
  /\ req[r].pc = "create"
  /\ node[a].st = "fresh"
  /\ ~NameTaken(req[r].name, req[r].wf, None)
  /\ node' = InsertNode(a, req[r].wf, AgentFields(req[r].name, FALSE))
  /\ req' = [req EXCEPT ![r] = Free]
  /\ UNCHANGED <<workflow, edge>>

\* The foreign key and the unique constraint decide, whatever was looked up.
InsertAgent(r, a) ==
  /\ req[r].pc = "create"
  /\ node[a].st = "fresh"
  /\ workflow[req[r].wf].st = "live"
  /\ ~NameTaken(req[r].name, req[r].wf, None)
  /\ node' = InsertNode(a, req[r].wf, AgentFields(req[r].name, FALSE))
  /\ req' = [req EXCEPT ![r] = Free]
  /\ UNCHANGED <<workflow, edge>>

InsertAgentRefused(r) ==
  /\ req[r].pc = "create"
  /\ \/ workflow[req[r].wf].st # "live"
     \/ NameTaken(req[r].name, req[r].wf, None)
  /\ req' = [req EXCEPT ![r] = Free]
  /\ UNCHANGED <<workflow, node, edge>>

\* The config is written and committed before the agent is looked at.
SaveAgentConfig(r, a, x, initial) ==
  /\ "edit_agent" \in Operations
  /\ req[r].pc = "free"
  /\ node[a].st = "live"
  /\ node' = [node EXCEPT ![a].config = "edited"]
  /\ req' = [req EXCEPT ![r] = [Free EXCEPT !.pc = "rename", !.agent = a,
                                  !.name = x, !.initial = initial]]
  /\ UNCHANGED <<workflow, edge>>

WriteAgent(r) ==
  LET a == req[r].agent IN
  /\ req[r].pc = "rename"
  /\ ~AgentLocked(a)
  /\ node[a].st = "live"
  /\ ~NameTaken(req[r].name, node[a].wf, a)
  /\ node' = [node EXCEPT ![a].name = req[r].name, ![a].initial = req[r].initial]
  /\ req' = [req EXCEPT ![r] = Free]
  /\ UNCHANGED <<workflow, edge>>

\* The agent is gone, or the new name is another's: an error, config kept.
WriteAgentRefused(r) ==
  LET a == req[r].agent IN
  /\ req[r].pc = "rename"
  /\ ~AgentLocked(a)
  /\ node[a].st = "live" => NameTaken(req[r].name, node[a].wf, a)
  /\ req' = [req EXCEPT ![r] = Free]
  /\ UNCHANGED <<workflow, node, edge>>

\* Slip: only the edges that leave the agent are deleted.
DropOutgoingEdges(r, a) ==
  /\ "drop_agent" \in Operations
  /\ req[r].pc = "free"
  /\ node[a].st = "live" /\ ~AgentLocked(a)
  /\ ~\E e \in EdgesAt(a) : EdgeLocked(e)
  /\ req' = [req EXCEPT ![r] = [Free EXCEPT !.pc = "delete", !.agent = a,
                 !.dropped = {e \in LiveEdges : edge[e].source = a},
                 !.before = EdgesAt(a)]]
  /\ UNCHANGED <<workflow, node, edge>>

\* AgentRepository.delete up to its first flush: nothing is committed yet.
DropAgentEdges(r, a) ==
  /\ "drop_agent" \in Operations
  /\ req[r].pc = "free"
  /\ node[a].st = "live" /\ ~AgentLocked(a)
  /\ ~\E e \in EdgesAt(a) : EdgeLocked(e)
  /\ req' = [req EXCEPT ![r] = [Free EXCEPT !.pc = "delete", !.agent = a,
                                  !.dropped = EdgesAt(a), !.before = EdgesAt(a)]]
  /\ UNCHANGED <<workflow, node, edge>>

ToolsOf(a) == {t \in Tools : node[t].st = "live" /\ node[t].agent = a}

\* The unit of work loads tool_nodes, whose agent_id it is to clear.
LoadAgentTools(r) ==
  /\ req[r].pc = "delete"
  /\ req' = [req EXCEPT ![r].pc = "detach", ![r].tools = ToolsOf(req[r].agent)]
  /\ UNCHANGED <<workflow, node, edge>>

\* Tools created since go with the agent by ON DELETE CASCADE.
LateTools(r) == ToolsOf(req[r].agent) \ req[r].tools

\* No edge may still hold a position that is to go, no loaded tool be missing.
DeletionHolds(r) ==
  /\ \A n \in {req[r].agent} \cup LateTools(r) : EdgesAt(n) \subseteq req[r].dropped
  /\ req[r].tools \subseteq ToolsOf(req[r].agent)

CommitDeletion(r) ==
  /\ req[r].pc = "detach"
  /\ DeletionHolds(r)
  /\ node' = [n \in Nodes |->
                IF n = req[r].agent \/ n \in LateTools(r) THEN NoNode("gone")
                ELSE IF n \in req[r].tools THEN [node[n] EXCEPT !.agent = None]
                ELSE node[n]]
  /\ RemoveEdges(req[r].dropped)
  /\ req' = [req EXCEPT ![r] = Free]
  /\ UNCHANGED workflow

\* The database refuses and the whole transaction is undone.
AbortDeletion(r) ==
  /\ req[r].pc = "detach"
  /\ ~DeletionHolds(r)
  /\ req' = [req EXCEPT ![r] = Free]
  /\ UNCHANGED <<workflow, node, edge>>

-----------------------------------------------------------------------------
(* Tools, edges and positions.                                              *)

CreateTool(t, a) ==
  /\ "new_tool" \in Operations
  /\ node[t].st = "fresh"
  /\ node[a].st = "live"
  /\ node' = InsertNode(t, node[a].wf, ToolFields(a))
  /\ UNCHANGED <<workflow, edge, req>>

UpdateTool(t) ==
  /\ "edit_tool" \in Operations
  /\ node[t].st = "live"
  /\ node' = [node EXCEPT ![t].config = "edited"]
  /\ UNCHANGED <<workflow, edge, req>>

DeleteTool(t) ==
  /\ "drop_tool" \in Operations
  /\ node[t].st = "live"
  /\ ~\E e \in EdgesAt(t) : EdgeLocked(e)
  /\ RemoveEdges(EdgesAt(t))
  /\ node' = [node EXCEPT ![t] = NoNode("gone")]
  /\ UNCHANGED <<workflow, req>>

\* source and target are foreign keys; the page draws within its workflow.
CreateEdge(e, s, d) ==
  /\ "new_edge" \in Operations
  /\ edge[e].st = "fresh"
  /\ s # d /\ node[s].st = "live" /\ NodeIn(d, node[s].wf)
  /\ edge' = [edge EXCEPT ![e] = [st |-> "live", wf |-> node[s].wf, source |-> s,
                                  target |-> d, owned |-> TRUE]]
  /\ UNCHANGED <<workflow, node, req>>

\* get returns the row only to its tenant, and a locked row is waited for.
EdgeFound(e) == edge[e].st = "live" /\ edge[e].owned /\ ~EdgeLocked(e)

\* Slip: merge without the lookup inserts the row it does not find.
MergeEdge(e, s, d) ==
  /\ "edit_edge" \in Operations
  /\ edge[e].st # "fresh" /\ ~EdgeLocked(e)
  /\ s # d /\ node[s].st = "live" /\ NodeIn(d, node[s].wf)
  /\ edge' = [edge EXCEPT ![e] = [st |-> "live", wf |-> node[s].wf, source |-> s,
                                  target |-> d, owned |-> FALSE]]
  /\ UNCHANGED <<workflow, node, req>>

\* merge writes every column, the tenant it was not given included; the
\* refresh that follows the commit raises, so the caller is told of an error.
UpdateEdge(e, s, d) ==
  /\ "edit_edge" \in Operations
  /\ EdgeFound(e)
  /\ s # d /\ NodeIn(s, edge[e].wf) /\ NodeIn(d, edge[e].wf)
  /\ edge' = [edge EXCEPT ![e].source = s, ![e].target = d, ![e].owned = FALSE]
  /\ UNCHANGED <<workflow, node, req>>

DeleteEdge(e) ==
  /\ "drop_edge" \in Operations
  /\ EdgeFound(e)
  /\ RemoveEdges({e})
  /\ UNCHANGED <<workflow, node, req>>

\* A bulk save skips the positions it does not find and commits the others.
MovePositions(S, p) ==
  /\ "move" \in Operations
  /\ S # {} /\ \A n \in S : node[n].st # "fresh"
  /\ node' = [n \in Nodes |-> IF n \in S /\ node[n].st = "live"
                              THEN [node[n] EXCEPT !.place = p] ELSE node[n]]
  /\ UNCHANGED <<workflow, edge, req>>

\* The process restarts: what was not committed is undone.
RestartApi ==
  /\ "restart" \in Operations
  /\ req' = [r \in Requests |-> Free]
  /\ UNCHANGED <<workflow, node, edge>>

-----------------------------------------------------------------------------

WorkflowStep ==
  \E w \in Workflows :
    \/ \E x \in Titles, a \in Agents : CreateWorkflow(w, x, a)
    \/ DeleteWorkflow(w)

RequestStep(r) ==
  \/ \E w \in Workflows, x \in Names : CheckAgentName(r, w, x)
  \/ \E a \in Agents : InsertAgent(r, a)
  \/ InsertAgentRefused(r)
  \/ \E a \in Agents, x \in Names, i \in BOOLEAN : SaveAgentConfig(r, a, x, i)
  \/ WriteAgent(r)
  \/ WriteAgentRefused(r)
  \/ \E a \in Agents : DropAgentEdges(r, a)
  \/ LoadAgentTools(r)
  \/ CommitDeletion(r)
  \/ AbortDeletion(r)

ToolStep ==
  \E t \in Tools :
    \/ \E a \in Agents : CreateTool(t, a)
    \/ UpdateTool(t)
    \/ DeleteTool(t)

EdgeStep ==
  \E e \in Edges :
    \/ \E s, d \in Nodes : CreateEdge(e, s, d) \/ UpdateEdge(e, s, d)
    \/ DeleteEdge(e)

MoveStep == \E S \in SUBSET Nodes, p \in Spots : MovePositions(S, p)

Next ==
  \/ WorkflowStep
  \/ \E r \in Requests : RequestStep(r)
  \/ ToolStep
  \/ EdgeStep
  \/ MoveStep
  \/ RestartApi

Spec == Init /\ [][Next]_vars

-----------------------------------------------------------------------------
(* StoreRefined: requests in several statements implement the store.        *)

StagesStored == [w \in Workflows |-> workflow[w].st]

PartsStored ==
  [n \in Nodes |-> [st |-> node[n].st, wf |-> node[n].wf, name |-> node[n].name,
                    agent |-> node[n].agent]]

LinksStored ==
  [e \in Edges |-> [st |-> edge[e].st, source |-> edge[e].source,
                    target |-> edge[e].target]]

Store == INSTANCE GraphStore
           WITH stage <- StagesStored, part <- PartsStored, link <- LinksStored

-----------------------------------------------------------------------------
(* Properties.                                                              *)

\* Every variable keeps its type: agents hold agent rows, tools tool rows.
TypeOK ==
  /\ workflow \in [Workflows -> WorkflowRows]
  /\ node \in [Nodes -> AgentRows \cup ToolRows]
  /\ \A a \in Agents : node[a] \in AgentRows
  /\ \A t \in Tools : node[t] \in ToolRows
  /\ edge \in [Edges -> EdgeRows]
  /\ req \in [Requests -> RequestStates]

\* A stored node belongs to a stored workflow.
NodesHaveWorkflow ==
  \A n \in Nodes : node[n].st = "live" =>
    node[n].wf \in Workflows /\ workflow[node[n].wf].st = "live"

\* A tool's agent, when it has one, is stored and in the tool's workflow.
ToolsNextToAgent ==
  \A t \in Tools : node[t].st = "live" /\ node[t].agent # None =>
    NodeIn(node[t].agent, node[t].wf)

\* Both ends of a stored edge are stored and in the edge's workflow.
EdgesHaveEnds ==
  \A e \in Edges : edge[e].st = "live" =>
    /\ edge[e].source \in Nodes /\ NodeIn(edge[e].source, edge[e].wf)
    /\ edge[e].target \in Nodes /\ NodeIn(edge[e].target, edge[e].wf)

\* However creations, renames, deletions and cascades interleave, no stored
\* row names one that is gone or that belongs to another workflow: the worker
\* and the clone follow these references without looking.
ReferencesInside == NodesHaveWorkflow /\ ToolsNextToAgent /\ EdgesHaveEnds

\* The lookup of an agent's name and its insertion are two steps, renames are
\* committed without a lookup, and still no two agents of a workflow share a
\* name: hand-off tools are named after it.
AgentNamesDiffer ==
  \A a, b \in Agents : a # b /\ node[a].st = "live" /\ NodeIn(b, node[a].wf)
                       => node[a].name # node[b].name

\* A deletion of an agent is refused only for something that happened after
\* it began: an edge drawn or moved to it since, or one of its tools deleted.
OnlyLateChangesAbort ==
  [][\A r \in Requests : AbortDeletion(r) =>
       \/ \E n \in {req[r].agent} \cup LateTools(r) : EdgesAt(n) \ req[r].before # {}
       \/ \E t \in req[r].tools : node[t].st = "gone"]_vars

\* No update of a row that another tab has deleted brings it back, whichever
\* handler (rename, reconnect, move) it comes through.
GoneStaysGone ==
  [][/\ \A n \in Nodes : node[n].st = "gone" => node[n]' = node[n]
     /\ \A e \in Edges : edge[e].st = "gone" => edge[e]' = edge[e]]_vars

\* However the statements of requests interleave, and wherever one is refused
\* or cut off by a restart, each request takes effect at once or not at all:
\* a deleted agent takes exactly the edges that then end at it, and no edge
\* that another tab has moved away from it in between.
StoreRefined == Store!Spec

\* models.py declares agent_id of a tool as required: every stored tool has
\* an agent.
ToolsHaveAgent == \A t \in Tools : node[t].st = "live" => node[t].agent # None

\* README, PUT /edges/ "Update edge": an edge stays visible to its workflow.
EdgesStayVisible == \A e \in LiveEdges : edge[e].owned

=============================================================================
