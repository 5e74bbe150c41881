------------------------- MODULE WorkflowGraphProofs --------------------------
(***************************************************************************)
(* Proofs about WorkflowGraph: for every set of ids, every number of agent *)
(* requests in flight and every choice of operations.                      *)
(***************************************************************************)
EXTENDS WorkflowGraph, TLAPS

-----------------------------------------------------------------------------
(* Types.                                                                   *)

\* The rows there are without being typed by anyone.
LEMMA BlankRows ==
  ASSUME NEW st \in Stages
  PROVE  /\ NoNode(st) \in AgentRows /\ NoNode(st) \in ToolRows
         /\ NoEdge(st) \in EdgeRows
         /\ NoWorkflow(st) \in WorkflowRows
         /\ Free \in RequestStates
<1>1. NoNode(st) \in AgentRows /\ NoNode(st) \in ToolRows
  BY GraphAssumption DEF NoNode, AgentRows, ToolRows, Configs
<1>2. NoEdge(st) \in EdgeRows
  BY DEF NoEdge, EdgeRows
<1>3. NoWorkflow(st) \in WorkflowRows
  BY DEF NoWorkflow, WorkflowRows
<1>4. Free \in RequestStates
  BY DEF Free, RequestStates
<1> QED
  BY <1>1, <1>2, <1>3, <1>4

LEMMA BornTypes ==
  ASSUME NEW w \in Workflows \cup {None}
  PROVE  /\ \A x \in Names, i \in BOOLEAN : Born(w, AgentFields(x, i)) \in AgentRows
         /\ \A a \in Agents : Born(w, ToolFields(a)) \in ToolRows
<1>1. ASSUME NEW x \in Names, NEW i \in BOOLEAN
      PROVE  Born(w, AgentFields(x, i)) \in AgentRows
  BY GraphAssumption DEF Born, AgentFields, AgentRows, Stages, Configs
<1>2. ASSUME NEW a \in Agents
      PROVE  Born(w, ToolFields(a)) \in ToolRows
  BY GraphAssumption DEF Born, ToolFields, ToolRows, Stages, Configs
<1> QED
  BY <1>1, <1>2

NodeTypes ==
  /\ node \in [Nodes -> AgentRows \cup ToolRows]
  /\ \A a \in Agents : node[a] \in AgentRows
  /\ \A t \in Tools : node[t] \in ToolRows

\* One row is written with a row of its kind.
LEMMA AgentWritten ==
  ASSUME NodeTypes, NEW a \in Agents, NEW row \in AgentRows, node' = [node EXCEPT ![a] = row]
  PROVE  NodeTypes'
<1>1. node' \in [Nodes -> AgentRows \cup ToolRows]
  BY DEF NodeTypes, Nodes
<1>2. \A b \in Agents : node'[b] \in AgentRows
  BY DEF NodeTypes, Nodes
<1>3. \A t \in Tools : node'[t] = node[t]
  BY GraphAssumption DEF NodeTypes, Nodes
<1> QED
  BY <1>1, <1>2, <1>3 DEF NodeTypes

LEMMA ToolWritten ==
  ASSUME NodeTypes, NEW t \in Tools, NEW row \in ToolRows, node' = [node EXCEPT ![t] = row]
  PROVE  NodeTypes'
<1>1. node' \in [Nodes -> AgentRows \cup ToolRows]
  BY DEF NodeTypes, Nodes
<1>2. \A u \in Tools : node'[u] \in ToolRows
  BY DEF NodeTypes, Nodes
<1>3. \A a \in Agents : node'[a] = node[a]
  BY GraphAssumption DEF NodeTypes, Nodes
<1> QED
  BY <1>1, <1>2, <1>3 DEF NodeTypes

\* Rows are written together, each with one of its kind.
LEMMA ManyWritten ==
  ASSUME NodeTypes, NEW S, node' = [n \in Nodes |-> node'[n]],
         \A n \in Nodes : node[n] \in AgentRows => node'[n] \in AgentRows,
         \A n \in Nodes : node[n] \in ToolRows => node'[n] \in ToolRows
  PROVE  NodeTypes'
BY DEF NodeTypes, Nodes

LEMMA InitTypes == Init => TypeOK
<1> SUFFICES ASSUME Init PROVE TypeOK
  OBVIOUS
<1>1. "fresh" \in Stages
  BY DEF Stages
<1> QED
  BY <1>1, BlankRows DEF Init, TypeOK, Nodes

\* What a request's slot holds after each step that fills it.
LEMMA SlotTypes ==
  /\ \A w \in Workflows, x \in Names :
       [Free EXCEPT !.pc = "create", !.wf = w, !.name = x] \in RequestStates
  /\ \A a \in Agents, x \in Names, i \in BOOLEAN :
       [Free EXCEPT !.pc = "rename", !.agent = a, !.name = x, !.initial = i]
         \in RequestStates
  /\ \A a \in Agents, E, B \in SUBSET Edges :
       [Free EXCEPT !.pc = "delete", !.agent = a, !.dropped = E, !.before = B]
         \in RequestStates
  /\ \A q \in RequestStates, T \in SUBSET Tools :
       [q EXCEPT !.pc = "detach", !.tools = T] \in RequestStates
<1>1. ASSUME NEW w \in Workflows, NEW x \in Names
      PROVE  [Free EXCEPT !.pc = "create", !.wf = w, !.name = x] \in RequestStates
  BY DEF Free, RequestStates
<1>2. ASSUME NEW a \in Agents, NEW x \in Names, NEW i \in BOOLEAN
      PROVE  [Free EXCEPT !.pc = "rename", !.agent = a, !.name = x, !.initial = i]
               \in RequestStates
  BY DEF Free, RequestStates
<1>3. ASSUME NEW a \in Agents, NEW E \in SUBSET Edges, NEW B \in SUBSET Edges
      PROVE  [Free EXCEPT !.pc = "delete", !.agent = a, !.dropped = E, !.before = B]
               \in RequestStates
  BY DEF Free, RequestStates
<1>4. ASSUME NEW q \in RequestStates, NEW T \in SUBSET Tools
      PROVE  [q EXCEPT !.pc = "detach", !.tools = T] \in RequestStates
  BY DEF RequestStates
<1> QED
  BY <1>1, <1>2, <1>3, <1>4

LEMMA WorkflowTypes ==
  ASSUME TypeOK, WorkflowStep
  PROVE  TypeOK'
<1> USE DEF TypeOK
<1>1. ASSUME NEW w \in Workflows, NEW x \in Titles, NEW a \in Agents,
             CreateWorkflow(w, x, a)
      PROVE  TypeOK'
  <2>1. workflow' \in [Workflows -> WorkflowRows]
    BY <1>1 DEF CreateWorkflow, WorkflowRows, Stages
  <2>2. Born(w, AgentFields(Start, TRUE)) \in AgentRows
    BY BornTypes, GraphAssumption
  <2>3. NodeTypes'
    BY <1>1, <2>2, AgentWritten DEF CreateWorkflow, InsertNode, NodeTypes
  <2> QED
    BY <1>1, <2>1, <2>3 DEF CreateWorkflow, NodeTypes
<1>2. ASSUME NEW w \in Workflows, DeleteWorkflow(w)
      PROVE  TypeOK'
  <2>1. "gone" \in Stages
    BY DEF Stages
  <2>2. workflow' \in [Workflows -> WorkflowRows]
    BY <1>2, <2>1, BlankRows DEF DeleteWorkflow, CascadeWorkflow
  <2>3. NodeTypes'
    BY <1>2, <2>1, BlankRows DEF DeleteWorkflow, CascadeWorkflow, NodeTypes, Nodes
  <2>4. edge' \in [Edges -> EdgeRows]
    BY <1>2, <2>1, BlankRows DEF DeleteWorkflow, CascadeWorkflow
  <2> QED
    BY <1>2, <2>2, <2>3, <2>4 DEF DeleteWorkflow, NodeTypes
<1> QED
  BY <1>1, <1>2 DEF WorkflowStep

(* A request that has got somewhere knows what it is about.                  *)
SlotOK(q) ==
  /\ q.pc = "create" => q.wf \in Workflows /\ q.name \in Names
  /\ q.pc = "rename" => q.agent \in Agents /\ q.name \in Names
  /\ q.pc \in {"delete", "detach"} => q.agent \in Agents

SlotsOK == \A r \in Requests : SlotOK(req[r])

LEMMA RequestTypes ==
  ASSUME TypeOK, SlotsOK, NEW r \in Requests, RequestStep(r)
  PROVE  TypeOK'
<1> USE DEF TypeOK
<1>0. Free \in RequestStates
  BY BlankRows DEF Stages
<1>1. ASSUME NEW w \in Workflows, NEW x \in Names, CheckAgentName(r, w, x)
      PROVE  TypeOK'
  BY <1>1, SlotTypes DEF CheckAgentName
<1>2. ASSUME NEW a \in Agents, InsertAgent(r, a)
      PROVE  TypeOK'
  <2>1. req[r].wf \in Workflows /\ req[r].name \in Names
    BY <1>2 DEF InsertAgent, SlotsOK, SlotOK
  <2>2. Born(req[r].wf, AgentFields(req[r].name, FALSE)) \in AgentRows
    BY <2>1, BornTypes
  <2>3. NodeTypes'
    BY <1>2, <2>2, AgentWritten DEF InsertAgent, InsertNode, NodeTypes
  <2> QED
    BY <1>0, <1>2, <2>3 DEF InsertAgent, NodeTypes
<1>3. ASSUME InsertAgentRefused(r) PROVE TypeOK'
  BY <1>0, <1>3 DEF InsertAgentRefused
<1>4. ASSUME NEW a \in Agents, NEW x \in Names, NEW i \in BOOLEAN,
             SaveAgentConfig(r, a, x, i)
      PROVE  TypeOK'
  <2>1. [node[a] EXCEPT !.config = "edited"] \in AgentRows
    BY DEF AgentRows, Configs
  <2>2. node' = [node EXCEPT ![a] = [node[a] EXCEPT !.config = "edited"]]
    BY <1>4 DEF SaveAgentConfig
  <2>3. NodeTypes'
    BY <2>1, <2>2, AgentWritten DEF NodeTypes
  <2> QED
    BY <1>4, <2>3, SlotTypes DEF SaveAgentConfig, NodeTypes
<1>5. ASSUME WriteAgent(r) PROVE TypeOK'
  <2> DEFINE a == req[r].agent
             row == [node[a] EXCEPT !.name = req[r].name, !.initial = req[r].initial]
  <2>1. a \in Agents /\ req[r].name \in Names /\ req[r].initial \in BOOLEAN
    BY <1>5 DEF WriteAgent, SlotsOK, SlotOK, RequestStates
  <2>2. row \in AgentRows
    BY <2>1 DEF AgentRows
  <2>3. node' = [node EXCEPT ![a] = row]
    BY <1>5 DEF WriteAgent
  <2>4. NodeTypes'
    BY <2>1, <2>2, <2>3, AgentWritten DEF NodeTypes
  <2> QED
    BY <1>0, <1>5, <2>4 DEF WriteAgent, NodeTypes
<1>6. ASSUME WriteAgentRefused(r) PROVE TypeOK'
  BY <1>0, <1>6 DEF WriteAgentRefused
<1>7. ASSUME NEW a \in Agents, DropAgentEdges(r, a)
      PROVE  TypeOK'
  <2>1. EdgesAt(a) \in SUBSET Edges
    BY DEF EdgesAt, LiveEdges
  <2> QED
    BY <1>7, <2>1, SlotTypes DEF DropAgentEdges
<1>8. ASSUME LoadAgentTools(r) PROVE TypeOK'
  <2>1. ToolsOf(req[r].agent) \in SUBSET Tools
    BY DEF ToolsOf
  <2>2. [req[r] EXCEPT !.pc = "detach", !.tools = ToolsOf(req[r].agent)] \in RequestStates
    BY <2>1, SlotTypes
  <2> QED
    BY <1>8, <2>2 DEF LoadAgentTools
<1>9. ASSUME CommitDeletion(r) PROVE TypeOK'
  <2>1. "gone" \in Stages
    BY DEF Stages
  <2>2. \A t \in Tools : [node[t] EXCEPT !.agent = None] \in ToolRows
    BY DEF ToolRows
  <2>3. req[r].tools \subseteq Tools /\ LateTools(r) \subseteq Tools
    BY DEF RequestStates, LateTools, ToolsOf
  <2>4. NodeTypes'
    BY <1>9, <2>1, <2>2, <2>3, BlankRows, GraphAssumption DEF CommitDeletion, NodeTypes, Nodes
  <2>5. edge' \in [Edges -> EdgeRows]
    BY <1>9, <2>1, BlankRows DEF CommitDeletion, RemoveEdges
  <2> QED
    BY <1>0, <1>9, <2>4, <2>5 DEF CommitDeletion, NodeTypes
<1>10. ASSUME AbortDeletion(r) PROVE TypeOK'
  BY <1>0, <1>10 DEF AbortDeletion
<1> QED
  BY <1>1, <1>2, <1>3, <1>4, <1>5, <1>6, <1>7, <1>8, <1>9, <1>10 DEF RequestStep

LEMMA ToolTypes ==
  ASSUME TypeOK, ToolStep
  PROVE  TypeOK'
<1> USE DEF TypeOK
<1>1. ASSUME NEW t \in Tools, NEW a \in Agents, CreateTool(t, a)
      PROVE  TypeOK'
  <2>1. node[a].wf \in Workflows \cup {None}
    BY DEF AgentRows
  <2>2. Born(node[a].wf, ToolFields(a)) \in ToolRows
    BY <2>1, BornTypes
  <2>3. NodeTypes'
    BY <1>1, <2>2, ToolWritten DEF CreateTool, InsertNode, NodeTypes
  <2> QED
    BY <1>1, <2>3 DEF CreateTool, NodeTypes
<1>2. ASSUME NEW t \in Tools, UpdateTool(t)
      PROVE  TypeOK'
  <2>1. [node[t] EXCEPT !.config = "edited"] \in ToolRows
    BY DEF ToolRows, Configs
  <2>2. node' = [node EXCEPT ![t] = [node[t] EXCEPT !.config = "edited"]]
    BY <1>2 DEF UpdateTool
  <2>3. NodeTypes'
    BY <2>1, <2>2, ToolWritten DEF NodeTypes
  <2> QED
    BY <1>2, <2>3 DEF UpdateTool, NodeTypes
<1>3. ASSUME NEW t \in Tools, DeleteTool(t)
      PROVE  TypeOK'
  <2>1. "gone" \in Stages
    BY DEF Stages
  <2>2. NodeTypes'
    BY <1>3, <2>1, BlankRows, ToolWritten DEF DeleteTool, NodeTypes
  <2>3. edge' \in [Edges -> EdgeRows]
    BY <1>3, <2>1, BlankRows DEF DeleteTool, RemoveEdges
  <2> QED
    BY <1>3, <2>2, <2>3 DEF DeleteTool, NodeTypes
<1> QED
  BY <1>1, <1>2, <1>3 DEF ToolStep

LEMMA EdgeTypes ==
  ASSUME TypeOK, EdgeStep
  PROVE  TypeOK'
<1> USE DEF TypeOK
<1>1. ASSUME NEW e \in Edges, NEW s \in Nodes, NEW d \in Nodes, CreateEdge(e, s, d)
      PROVE  TypeOK'
  <2>1. node[s].wf \in Workflows \cup {None}
    BY DEF AgentRows, ToolRows, Nodes
  <2>2. edge' \in [Edges -> EdgeRows]
    BY <1>1, <2>1 DEF CreateEdge, EdgeRows, Stages
  <2> QED
    BY <1>1, <2>2 DEF CreateEdge
<1>2. ASSUME NEW e \in Edges, NEW s \in Nodes, NEW d \in Nodes, UpdateEdge(e, s, d)
      PROVE  TypeOK'
  <2>1. edge[e] \in EdgeRows
    OBVIOUS
  <2>2. [edge[e] EXCEPT !.source = s, !.target = d, !.owned = FALSE] \in EdgeRows
    BY <2>1 DEF EdgeRows
  <2>3. edge' = [edge EXCEPT ![e] =
                   [edge[e] EXCEPT !.source = s, !.target = d, !.owned = FALSE]]
    BY <1>2, <2>1 DEF UpdateEdge, EdgeRows
  <2>4. edge' \in [Edges -> EdgeRows]
    BY <2>2, <2>3
  <2> QED
    BY <1>2, <2>4 DEF UpdateEdge
<1>3. ASSUME NEW e \in Edges, DeleteEdge(e)
      PROVE  TypeOK'
  BY <1>3, BlankRows DEF DeleteEdge, RemoveEdges, Stages
<1> QED
  BY <1>1, <1>2, <1>3 DEF EdgeStep

LEMMA MoveTypes ==
  ASSUME TypeOK, MoveStep
  PROVE  TypeOK'
<1> USE DEF TypeOK
<1>1. PICK S \in SUBSET Nodes, p \in Spots : MovePositions(S, p)
  BY DEF MoveStep
<1>2. \A row \in AgentRows : [row EXCEPT !.place = p] \in AgentRows
  BY DEF AgentRows
<1>3. \A row \in ToolRows : [row EXCEPT !.place = p] \in ToolRows
  BY DEF ToolRows
<1>4. NodeTypes'
  BY <1>1, <1>2, <1>3 DEF MovePositions, NodeTypes, Nodes
<1> QED
  BY <1>1, <1>4 DEF MovePositions, NodeTypes

LEMMA RestartTypes ==
  ASSUME TypeOK, RestartApi
  PROVE  TypeOK'
BY BlankRows DEF RestartApi, TypeOK, Stages

LEMMA SlotsStep ==
  ASSUME TypeOK, SlotsOK, [Next]_vars
  PROVE  SlotsOK'
<1>0. SlotOK(Free)
  BY DEF SlotOK, Free
<1>1. CASE req' = req
  BY <1>1 DEF SlotsOK
<1>2. CASE RestartApi
  BY <1>0, <1>2 DEF RestartApi, SlotsOK
<1>3. ASSUME NEW r \in Requests, RequestStep(r)
      PROVE  SlotsOK'
  <2>1. ASSUME NEW q, SlotOK(q), req' = [req EXCEPT ![r] = q]
        PROVE  SlotsOK'
    BY <2>1 DEF SlotsOK, TypeOK
  <2>2. ASSUME NEW w \in Workflows, NEW x \in Names, CheckAgentName(r, w, x)
        PROVE  SlotsOK'
    <3>1. SlotOK([Free EXCEPT !.pc = "create", !.wf = w, !.name = x])
      BY DEF SlotOK, Free
    <3> QED
      BY <2>1, <2>2, <3>1 DEF CheckAgentName
  <2>3. ASSUME NEW a \in Agents, NEW x \in Names, NEW i \in BOOLEAN,
               SaveAgentConfig(r, a, x, i)
        PROVE  SlotsOK'
    <3>1. SlotOK([Free EXCEPT !.pc = "rename", !.agent = a, !.name = x, !.initial = i])
      BY DEF SlotOK, Free
    <3> QED
      BY <2>1, <2>3, <3>1 DEF SaveAgentConfig
  <2>4. ASSUME NEW a \in Agents, DropAgentEdges(r, a)
        PROVE  SlotsOK'
    <3>1. SlotOK([Free EXCEPT !.pc = "delete", !.agent = a, !.dropped = EdgesAt(a),
                              !.before = EdgesAt(a)])
      BY DEF SlotOK, Free
    <3> QED
      BY <2>1, <2>4, <3>1 DEF DropAgentEdges
  <2>5. ASSUME LoadAgentTools(r)
        PROVE  SlotsOK'
    <3>1. SlotOK([req[r] EXCEPT !.pc = "detach", !.tools = ToolsOf(req[r].agent)])
      BY <2>5 DEF SlotOK, SlotsOK, LoadAgentTools, TypeOK, RequestStates
    <3>2. req' = [req EXCEPT ![r] =
                    [req[r] EXCEPT !.pc = "detach", !.tools = ToolsOf(req[r].agent)]]
      BY <2>5 DEF LoadAgentTools, TypeOK
    <3> QED
      BY <2>1, <3>1, <3>2
  <2>6. CASE req' = [req EXCEPT ![r] = Free]
    BY <1>0, <2>1, <2>6
  <2> QED
    BY <1>3, <2>2, <2>3, <2>4, <2>5, <2>6
       DEF RequestStep, InsertAgent, InsertAgentRefused, WriteAgent, WriteAgentRefused,
           CommitDeletion, AbortDeletion
<1>4. WorkflowStep \/ ToolStep \/ EdgeStep \/ MoveStep => req' = req
  BY DEF WorkflowStep, CreateWorkflow, DeleteWorkflow, ToolStep, CreateTool, UpdateTool,
         DeleteTool, EdgeStep, CreateEdge, UpdateEdge, DeleteEdge, MoveStep, MovePositions
<1> QED
  BY <1>1, <1>2, <1>3, <1>4 DEF Next, vars

TypesInv == TypeOK /\ SlotsOK

LEMMA TypesInductive ==
  /\ Init => TypesInv
  /\ TypesInv /\ [Next]_vars => TypesInv'
<1>1. Init => TypesInv
  BY InitTypes DEF TypesInv, SlotsOK, SlotOK, Init, Free
<1>2. ASSUME TypesInv, [Next]_vars
      PROVE  TypesInv'
  <2>1. SlotsOK'
    BY <1>2, SlotsStep DEF TypesInv
  <2>2. CASE UNCHANGED vars
    BY <1>2, <2>2 DEF TypesInv, TypeOK, vars, SlotsOK, SlotOK
  <2>3. CASE Next
    BY <1>2, <2>1, <2>3, WorkflowTypes, RequestTypes, ToolTypes, EdgeTypes, MoveTypes,
       RestartTypes DEF Next, TypesInv
  <2> QED
    BY <1>2, <2>2, <2>3
<1> QED
  BY <1>1, <1>2

\* Every variable keeps its type: agents hold agent rows, tools tool rows, and
\* a handler's slot what the handler has got to.
THEOREM TypesHold == Spec => []TypeOK
<1>1. Spec => []TypesInv
  BY TypesInductive, PTL DEF Spec
<1> QED
  BY <1>1, PTL DEF TypesInv

-----------------------------------------------------------------------------
(* References.  A row that is not stored is named by nobody, so what is     *)
(* fresh may be born and what is deleted must have lost its references.     *)

\* Steps that leave alone where a node belongs.
LEMMA FieldsFrame ==
  ASSUME ReferencesInside, workflow' = workflow, edge' = edge,
         \A n \in Nodes : /\ node'[n].st = node[n].st /\ node'[n].wf = node[n].wf
                          /\ node'[n].agent = node[n].agent,
         TypeOK
  PROVE  ReferencesInside'
<1>1. \A n \in Nodes : \A w : NodeIn(n, w)' <=> NodeIn(n, w)
  BY DEF NodeIn
<1>2. NodesHaveWorkflow'
  BY DEF ReferencesInside, NodesHaveWorkflow
<1>3. ToolsNextToAgent'
  <2> SUFFICES ASSUME NEW t \in Tools, node'[t].st = "live", node'[t].agent # None
               PROVE  NodeIn(node[t].agent, node[t].wf)'
    BY DEF ToolsNextToAgent
  <2>1. node[t].agent \in Nodes
    BY DEF TypeOK, ToolRows, Nodes
  <2> QED
    BY <1>1, <2>1 DEF ReferencesInside, ToolsNextToAgent, Nodes
<1>4. EdgesHaveEnds'
  BY <1>1 DEF ReferencesInside, EdgesHaveEnds
<1> QED
  BY <1>2, <1>3, <1>4 DEF ReferencesInside

\* A node is born into a stored workflow, next to its agent if it has one.
LEMMA BirthRefers ==
  ASSUME TypeOK, ReferencesInside, edge' = edge,
         NEW n \in Nodes, node[n].st = "fresh",
         NEW w \in Workflows, workflow'[w].st = "live",
         \A v \in Workflows : workflow[v].st = "live" => workflow'[v].st = "live",
         NEW fields, node' = [node EXCEPT ![n] = Born(w, fields)],
         fields.agent # None => fields.agent \in Agents /\ NodeIn(fields.agent, w)
  PROVE  ReferencesInside'
<1>1. /\ node'[n].st = "live" /\ node'[n].wf = w /\ node'[n].agent = fields.agent
      /\ \A m \in Nodes \ {n} : node'[m] = node[m]
  BY DEF TypeOK, Born
<1>2. \A m \in Nodes : \A v : NodeIn(m, v) => NodeIn(m, v)'
  BY <1>1 DEF NodeIn
<1>3. NodesHaveWorkflow'
  BY <1>1 DEF ReferencesInside, NodesHaveWorkflow
<1>4. ToolsNextToAgent'
  <2> SUFFICES ASSUME NEW t \in Tools, node'[t].st = "live", node'[t].agent # None
               PROVE  NodeIn(node[t].agent, node[t].wf)'
    BY DEF ToolsNextToAgent
  <2>1. CASE t = n
    BY <1>1, <1>2, <2>1 DEF Nodes
  <2>2. CASE t # n
    <3>1. node'[t] = node[t]
      BY <1>1, <2>2 DEF Nodes
    <3>2. NodeIn(node[t].agent, node[t].wf)
      BY <3>1 DEF ReferencesInside, ToolsNextToAgent
    <3>3. node[t].agent \in Nodes
      BY <3>1 DEF TypeOK, ToolRows, Nodes
    <3> QED
      BY <1>2, <3>1, <3>2, <3>3
  <2> QED
    BY <2>1, <2>2
<1>5. EdgesHaveEnds'
  BY <1>2 DEF ReferencesInside, EdgesHaveEnds
<1> QED
  BY <1>3, <1>4, <1>5 DEF ReferencesInside

\* The nodes of G go, with the edges of E and what the tools of D say of them;
\* nothing else names a node of G.
Departure(G, E, D) ==
  /\ workflow' = workflow
  /\ \A n \in Nodes : node'[n] = IF n \in G THEN NoNode("gone")
                                  ELSE IF n \in D THEN [node[n] EXCEPT !.agent = None]
                                  ELSE node[n]
  /\ edge' = [e \in Edges |-> IF e \in E THEN NoEdge("gone") ELSE edge[e]]
  /\ \A t \in Tools \ (G \cup D) : node[t].st = "live" => node[t].agent \notin G
  /\ \A e \in LiveEdges \ E : edge[e].source \notin G /\ edge[e].target \notin G

LEMMA DepartureRefers ==
  ASSUME TypeOK, ReferencesInside,
         NEW G \in SUBSET Nodes, NEW E \in SUBSET Edges, NEW D \in SUBSET Tools,
         Departure(G, E, D)
  PROVE  ReferencesInside'
<1> USE DEF Departure
<1>1. \A n \in Nodes \ G : /\ node'[n].st = node[n].st /\ node'[n].wf = node[n].wf
                           /\ node'[n].agent \in {None, node[n].agent}
  BY DEF TypeOK, AgentRows, ToolRows, Nodes
<1>2. \A n \in G : node'[n].st = "gone"
  <2>1. ASSUME NEW n \in G PROVE node'[n] = NoNode("gone")
    OBVIOUS
  <2>2. NoNode("gone").st = "gone"
    BY DEF NoNode
  <2> QED
    BY <2>1, <2>2
<1>3. \A n \in Nodes \ G : \A w : NodeIn(n, w) => NodeIn(n, w)'
  BY <1>1 DEF NodeIn
<1>4. NodesHaveWorkflow'
  BY <1>1, <1>2 DEF ReferencesInside, NodesHaveWorkflow
<1>5. ToolsNextToAgent'
  <2> SUFFICES ASSUME NEW t \in Tools, node'[t].st = "live", node'[t].agent # None
               PROVE  NodeIn(node[t].agent, node[t].wf)'
    BY DEF ToolsNextToAgent
  <2>1. t \notin G /\ t \in Nodes
    BY <1>2 DEF Nodes
  <2>2. t \notin D
    BY <2>1 DEF TypeOK, ToolRows
  <2>3. node'[t] = node[t] /\ node[t].agent \in Nodes \ G
    BY <2>1, <2>2 DEF TypeOK, ToolRows, Nodes
  <2> QED
    BY <1>3, <2>3 DEF ReferencesInside, ToolsNextToAgent
<1>6. EdgesHaveEnds'
  <2> SUFFICES ASSUME NEW e \in Edges, edge'[e].st = "live"
               PROVE  /\ edge'[e].source \in Nodes
                      /\ NodeIn(edge[e].source, edge[e].wf)'
                      /\ edge'[e].target \in Nodes
                      /\ NodeIn(edge[e].target, edge[e].wf)'
    BY DEF EdgesHaveEnds
  <2>1. e \notin E /\ edge'[e] = edge[e]
    BY DEF NoEdge
  <2> QED
    BY <1>3, <2>1 DEF ReferencesInside, EdgesHaveEnds, LiveEdges
<1> QED
  BY <1>4, <1>5, <1>6 DEF ReferencesInside

\* An edge is drawn or moved between stored nodes of its workflow, or goes.
LEMMA EdgeRefers ==
  ASSUME TypeOK, ReferencesInside, EdgeStep
  PROVE  ReferencesInside'
<1>1. workflow' = workflow /\ node' = node
  BY DEF EdgeStep, CreateEdge, UpdateEdge, DeleteEdge
<1>2. NodesHaveWorkflow' /\ ToolsNextToAgent'
  BY <1>1 DEF ReferencesInside, NodesHaveWorkflow, ToolsNextToAgent, NodeIn
<1>3. \A n, w : NodeIn(n, w)' <=> NodeIn(n, w)
  BY <1>1 DEF NodeIn
<1>4. ASSUME NEW e \in Edges, NEW s \in Nodes, NEW d \in Nodes, CreateEdge(e, s, d)
      PROVE  EdgesHaveEnds'
  <2>1. \A f \in Edges \ {e} : edge'[f] = edge[f]
    BY <1>4 DEF CreateEdge, TypeOK
  <2>2. edge'[e].source = s /\ edge'[e].target = d /\ edge'[e].wf = node[s].wf
    BY <1>4 DEF CreateEdge, TypeOK
  <2>3. NodeIn(s, node[s].wf) /\ NodeIn(d, node[s].wf)
    BY <1>4 DEF CreateEdge, NodeIn
  <2> QED
    BY <1>3, <2>1, <2>2, <2>3 DEF ReferencesInside, EdgesHaveEnds
<1>5. ASSUME NEW e \in Edges, NEW s \in Nodes, NEW d \in Nodes, UpdateEdge(e, s, d)
      PROVE  EdgesHaveEnds'
  <2>1. \A f \in Edges \ {e} : edge'[f] = edge[f]
    BY <1>5 DEF UpdateEdge, TypeOK
  <2>2. edge'[e].source = s /\ edge'[e].target = d /\ edge'[e].wf = edge[e].wf
    BY <1>5 DEF UpdateEdge, TypeOK, EdgeRows
  <2>3. NodeIn(s, edge[e].wf) /\ NodeIn(d, edge[e].wf)
    BY <1>5 DEF UpdateEdge
  <2> QED
    BY <1>3, <2>1, <2>2, <2>3 DEF ReferencesInside, EdgesHaveEnds
<1>6. ASSUME NEW e \in Edges, DeleteEdge(e)
      PROVE  EdgesHaveEnds'
  <2>1. \A f \in Edges \ {e} : edge'[f] = edge[f]
    BY <1>6 DEF DeleteEdge, RemoveEdges
  <2>2. edge'[e].st = "gone"
    BY <1>6 DEF DeleteEdge, RemoveEdges, NoEdge
  <2> QED
    BY <1>3, <2>1, <2>2 DEF ReferencesInside, EdgesHaveEnds
<1> QED
  BY <1>2, <1>4, <1>5, <1>6 DEF EdgeStep, ReferencesInside

\* A workflow takes everything along that names it.
LEMMA CascadeRefers ==
  ASSUME TypeOK, ReferencesInside, NEW w \in Workflows, CascadeWorkflow(w)
  PROVE  ReferencesInside'
<1>1. \A n \in Nodes : node'[n].st = "live" =>
        node'[n] = node[n] /\ ~NodeIn(n, w)
  <2>1. ASSUME NEW n \in Nodes, NodeIn(n, w)
        PROVE  node'[n].st = "gone"
    BY <2>1 DEF CascadeWorkflow, NoNode
  <2> QED
    BY <2>1 DEF CascadeWorkflow
<1>2. \A n \in Nodes : \A v : v # w /\ NodeIn(n, v) => NodeIn(n, v)'
  BY DEF CascadeWorkflow, NodeIn
<1>3. NodesHaveWorkflow'
  BY <1>1 DEF ReferencesInside, NodesHaveWorkflow, CascadeWorkflow, NodeIn
<1>4. ToolsNextToAgent'
  <2> SUFFICES ASSUME NEW t \in Tools, node'[t].st = "live", node'[t].agent # None
               PROVE  NodeIn(node[t].agent, node[t].wf)'
    BY DEF ToolsNextToAgent
  <2>1. node'[t] = node[t] /\ node[t].wf # w /\ node[t].agent \in Nodes
    BY <1>1 DEF TypeOK, ToolRows, Nodes, NodeIn
  <2> QED
    BY <1>2, <2>1 DEF ReferencesInside, ToolsNextToAgent
<1>5. EdgesHaveEnds'
  <2>1. \A e \in Edges : edge'[e].st = "live" => edge'[e] = edge[e] /\ edge[e].wf # w
    <3>1. ASSUME NEW e \in Edges, e \in LiveEdges /\ edge[e].wf = w
          PROVE  edge'[e].st = "gone"
      BY <3>1 DEF CascadeWorkflow, NoEdge
    <3> QED
      BY <3>1 DEF CascadeWorkflow, LiveEdges
  <2> QED
    BY <1>2, <2>1 DEF ReferencesInside, EdgesHaveEnds
<1> QED
  BY <1>3, <1>4, <1>5 DEF ReferencesInside

\* A deletion commits only when nothing but what it takes along names what goes.
LEMMA CommitRefers ==
  ASSUME TypeOK, SlotsOK, ReferencesInside, NEW r \in Requests, CommitDeletion(r)
  PROVE  ReferencesInside'
<1> DEFINE a == req[r].agent
           G == {a} \cup LateTools(r)
<1>1. a \in Agents /\ req[r].tools \subseteq Tools /\ req[r].dropped \subseteq Edges
  BY DEF CommitDeletion, SlotsOK, SlotOK, TypeOK, RequestStates
<1>2. LateTools(r) \subseteq Tools
  BY DEF LateTools, ToolsOf
<1>3. G \in SUBSET Nodes
  BY <1>1, <1>2 DEF Nodes
<1>4. \A n \in Nodes : node'[n] = IF n \in G THEN NoNode("gone")
                                  ELSE IF n \in req[r].tools THEN [node[n] EXCEPT !.agent = None]
                                  ELSE node[n]
  BY DEF CommitDeletion
<1>5. ASSUME NEW t \in Tools \ (G \cup req[r].tools), node[t].st = "live"
      PROVE  node[t].agent \notin G
  <2>1. node[t].agent # a
    BY <1>5 DEF LateTools, ToolsOf
  <2>2. node[t].agent \notin Tools
    BY GraphAssumption DEF TypeOK, ToolRows
  <2> QED
    BY <1>2, <2>1, <2>2
<1>6. ASSUME NEW e \in LiveEdges \ req[r].dropped
      PROVE  edge[e].source \notin G /\ edge[e].target \notin G
  BY <1>6 DEF CommitDeletion, DeletionHolds, EdgesAt
<1>7. edge' = [e \in Edges |-> IF e \in req[r].dropped THEN NoEdge("gone") ELSE edge[e]]
  BY DEF CommitDeletion, RemoveEdges
<1>8. workflow' = workflow
  BY DEF CommitDeletion
<1> HIDE DEF G
<1>9. Departure(G, req[r].dropped, req[r].tools)
  BY <1>4, <1>5, <1>6, <1>7, <1>8 DEF Departure
<1>10. req[r].dropped \in SUBSET Edges /\ req[r].tools \in SUBSET Tools
  BY <1>1
<1> QED
  BY <1>3, <1>9, <1>10, DepartureRefers

LEMMA DeleteToolRefers ==
  ASSUME TypeOK, ReferencesInside, NEW t \in Tools, DeleteTool(t)
  PROVE  ReferencesInside'
<1>1. \A n \in Nodes : node'[n] = IF n \in {t} THEN NoNode("gone")
                                  ELSE IF n \in {} THEN [node[n] EXCEPT !.agent = None]
                                  ELSE node[n]
  BY DEF DeleteTool, TypeOK
<1>2. \A u \in Tools \ ({t} \cup {}) : node[u].st = "live" => node[u].agent \notin {t}
  BY GraphAssumption DEF TypeOK, ToolRows
<1>3. \A e \in LiveEdges \ EdgesAt(t) : edge[e].source \notin {t} /\ edge[e].target \notin {t}
  BY DEF EdgesAt
<1>4. edge' = [e \in Edges |-> IF e \in EdgesAt(t) THEN NoEdge("gone") ELSE edge[e]]
  BY DEF DeleteTool, RemoveEdges
<1>5. {t} \in SUBSET Nodes /\ EdgesAt(t) \in SUBSET Edges /\ {} \in SUBSET Tools
  BY DEF Nodes, EdgesAt, LiveEdges
<1>6. workflow' = workflow
  BY DEF DeleteTool
<1>7. Departure({t}, EdgesAt(t), {})
  BY <1>1, <1>2, <1>3, <1>4, <1>6 DEF Departure
<1> QED
  BY <1>5, <1>7, DepartureRefers

\* The steps that write a row's name, config, mark or place.
Rewrites(n) ==
  /\ node'[n].st = node[n].st /\ node'[n].wf = node[n].wf
  /\ node'[n].agent = node[n].agent

LEMMA RewritesKeep ==
  ASSUME TypeOK, SlotsOK
  PROVE  /\ \A r \in Requests, a \in Agents, x \in Names, i \in BOOLEAN :
              SaveAgentConfig(r, a, x, i) => \A n \in Nodes : Rewrites(n)
         /\ \A r \in Requests : WriteAgent(r) => \A n \in Nodes : Rewrites(n)
         /\ \A t \in Tools : UpdateTool(t) => \A n \in Nodes : Rewrites(n)
         /\ MoveStep => \A n \in Nodes : Rewrites(n)
<1>0. \A n \in Nodes : node[n] = [node[n] EXCEPT !.st = node[n].st]
  BY DEF TypeOK, AgentRows, ToolRows, Nodes
<1>1. ASSUME NEW r \in Requests, NEW a \in Agents, NEW x \in Names, NEW i \in BOOLEAN,
             SaveAgentConfig(r, a, x, i), NEW n \in Nodes
      PROVE  Rewrites(n)
  BY <1>1 DEF SaveAgentConfig, Rewrites, TypeOK, AgentRows, ToolRows, Nodes
<1>2. ASSUME NEW r \in Requests, WriteAgent(r), NEW n \in Nodes
      PROVE  Rewrites(n)
  BY <1>2 DEF WriteAgent, Rewrites, TypeOK, AgentRows, ToolRows, Nodes, SlotsOK, SlotOK
<1>3. ASSUME NEW t \in Tools, UpdateTool(t), NEW n \in Nodes
      PROVE  Rewrites(n)
  BY <1>3 DEF UpdateTool, Rewrites, TypeOK, AgentRows, ToolRows, Nodes
<1>4. ASSUME MoveStep, NEW n \in Nodes
      PROVE  Rewrites(n)
  BY <1>4 DEF MoveStep, MovePositions, Rewrites, TypeOK, AgentRows, ToolRows, Nodes
<1> QED
  BY <1>1, <1>2, <1>3, <1>4

LEMMA ReferencesStep ==
  ASSUME TypesInv, ReferencesInside, [Next]_vars
  PROVE  ReferencesInside'
<1> USE DEF TypesInv
<1>1. CASE UNCHANGED <<workflow, node, edge>>
  BY <1>1, FieldsFrame
<1>2. ASSUME UNCHANGED <<workflow, edge>>, \A n \in Nodes : Rewrites(n)
      PROVE  ReferencesInside'
  BY <1>2, FieldsFrame DEF Rewrites
<1>3. ASSUME NEW w \in Workflows, NEW x \in Titles, NEW a \in Agents,
             CreateWorkflow(w, x, a)
      PROVE  ReferencesInside'
  <2>1. /\ workflow'[w].st = "live"
        /\ \A v \in Workflows : workflow[v].st = "live" => workflow'[v].st = "live"
    BY <1>3 DEF CreateWorkflow, TypeOK
  <2>2. /\ node' = [node EXCEPT ![a] = Born(w, AgentFields(Start, TRUE))]
        /\ node[a].st = "fresh" /\ edge' = edge /\ a \in Nodes
    BY <1>3 DEF CreateWorkflow, InsertNode, Nodes
  <2>3. AgentFields(Start, TRUE).agent = None
    BY DEF AgentFields
  <2> QED
    BY <2>1, <2>2, <2>3, BirthRefers
<1>4. ASSUME NEW r \in Requests, NEW a \in Agents, InsertAgent(r, a)
      PROVE  ReferencesInside'
  <2>1. req[r].wf \in Workflows /\ workflow'[req[r].wf].st = "live" /\ workflow' = workflow
    BY <1>4 DEF InsertAgent, SlotsOK, SlotOK
  <2>2. /\ node' = [node EXCEPT ![a] = Born(req[r].wf, AgentFields(req[r].name, FALSE))]
        /\ node[a].st = "fresh" /\ edge' = edge /\ a \in Nodes
    BY <1>4 DEF InsertAgent, InsertNode, Nodes
  <2>3. AgentFields(req[r].name, FALSE).agent = None
    BY DEF AgentFields
  <2> QED
    BY <2>1, <2>2, <2>3, BirthRefers
<1>5. ASSUME NEW t \in Tools, NEW a \in Agents, CreateTool(t, a)
      PROVE  ReferencesInside'
  <2>1. /\ node[a].wf \in Workflows /\ workflow'[node[a].wf].st = "live"
        /\ workflow' = workflow
    BY <1>5 DEF CreateTool, ReferencesInside, NodesHaveWorkflow, Nodes
  <2>2. /\ node' = [node EXCEPT ![t] = Born(node[a].wf, ToolFields(a))]
        /\ node[t].st = "fresh" /\ edge' = edge /\ t \in Nodes
    BY <1>5 DEF CreateTool, InsertNode, Nodes
  <2>3. ToolFields(a).agent = a /\ NodeIn(a, node[a].wf)
    BY <1>5 DEF ToolFields, CreateTool, NodeIn
  <2> QED
    BY <2>1, <2>2, <2>3, BirthRefers
<1>6. ASSUME NEW w \in Workflows, DeleteWorkflow(w)
      PROVE  ReferencesInside'
  BY <1>6, CascadeRefers DEF DeleteWorkflow
<1>7. CASE WorkflowStep
  BY <1>3, <1>6, <1>7 DEF WorkflowStep
<1>8. ASSUME NEW r \in Requests, RequestStep(r)
      PROVE  ReferencesInside'
  <2>1. ASSUME NEW a \in Agents, NEW x \in Names, NEW i \in BOOLEAN,
               SaveAgentConfig(r, a, x, i)
        PROVE  ReferencesInside'
    BY <1>2, <2>1, RewritesKeep DEF SaveAgentConfig
  <2>2. ASSUME WriteAgent(r)
        PROVE  ReferencesInside'
    BY <1>2, <2>2, RewritesKeep DEF WriteAgent
  <2>3. CASE UNCHANGED <<workflow, node, edge>>
    BY <1>1, <2>3
  <2> QED
    BY <1>4, <1>8, <2>1, <2>2, <2>3, CommitRefers
       DEF RequestStep, CheckAgentName, InsertAgentRefused, WriteAgentRefused,
           DropAgentEdges, LoadAgentTools, AbortDeletion
<1>9. CASE ToolStep
  <2>1. ASSUME NEW t \in Tools, UpdateTool(t)
        PROVE  ReferencesInside'
    BY <1>2, <2>1, RewritesKeep DEF UpdateTool
  <2> QED
    BY <1>5, <1>9, <2>1, DeleteToolRefers DEF ToolStep
<1>10. CASE MoveStep
  <2>1. UNCHANGED <<workflow, edge>>
    BY <1>10 DEF MoveStep, MovePositions
  <2> QED
    BY <1>2, <1>10, <2>1, RewritesKeep
<1>11. CASE RestartApi
  BY <1>1, <1>11 DEF RestartApi
<1>12. CASE UNCHANGED vars
  BY <1>1, <1>12 DEF vars
<1> QED
  BY <1>7, <1>8, <1>9, <1>10, <1>11, <1>12, EdgeRefers DEF Next

GraphInv == TypesInv /\ ReferencesInside

LEMMA GraphInductive ==
  /\ Init => GraphInv
  /\ GraphInv /\ [Next]_vars => GraphInv'
<1>1. ASSUME Init
      PROVE  ReferencesInside
  <2>1. \A n \in Nodes : node[n].st # "live"
    BY <1>1 DEF Init, NoNode
  <2>2. \A e \in Edges : edge[e].st # "live"
    BY <1>1 DEF Init, NoEdge
  <2> QED
    BY <2>1, <2>2 DEF ReferencesInside, NodesHaveWorkflow, ToolsNextToAgent, EdgesHaveEnds,
                      Nodes
<1> QED
  BY <1>1, TypesInductive, ReferencesStep DEF GraphInv

\* However creations, renames, deletions and cascades interleave, no stored
\* row names one that is gone or that belongs to another workflow.
THEOREM ReferencesHold == Spec => []ReferencesInside
<1>1. Spec => []GraphInv
  BY GraphInductive, PTL DEF Spec
<1> QED
  BY <1>1, PTL DEF GraphInv

-----------------------------------------------------------------------------
(* Names.                                                                   *)

\* Agents that are stored afterwards were stored before, under that name.
LEMMA NamesFrame ==
  ASSUME AgentNamesDiffer,
         \A a \in Agents : node'[a].st = "live" =>
           /\ node[a].st = "live" /\ node'[a].wf = node[a].wf
           /\ node'[a].name = node[a].name
  PROVE  AgentNamesDiffer'
BY DEF AgentNamesDiffer, NodeIn, Nodes

\* One agent gets a name that no other agent of its workflow has.
LEMMA NamesNew ==
  ASSUME AgentNamesDiffer, NEW a \in Agents, NEW w, NEW x,
         \A b \in Agents \ {a} : node'[b] = node[b],
         node'[a].wf = w, node'[a].name = x,
         \A b \in Agents \ {a} : NodeIn(b, w) => node[b].name # x
  PROVE  AgentNamesDiffer'
<1> SUFFICES ASSUME NEW b \in Agents, NEW c \in Agents, b # c, node'[b].st = "live",
                    node'[c].st = "live", node'[c].wf = node'[b].wf
             PROVE  node'[b].name # node'[c].name
  BY DEF AgentNamesDiffer, NodeIn
<1>1. CASE b = a
  BY <1>1 DEF NodeIn
<1>2. CASE c = a
  BY <1>2 DEF NodeIn
<1>3. CASE a \notin {b, c}
  BY <1>3 DEF AgentNamesDiffer, NodeIn
<1> QED
  BY <1>1, <1>2, <1>3

LEMMA NamesStep ==
  ASSUME GraphInv, AgentNamesDiffer, [Next]_vars
  PROVE  AgentNamesDiffer'
<1> USE DEF GraphInv, TypesInv
<1>0. None \notin Agents /\ Agents \subseteq Nodes
  BY GraphAssumption DEF Nodes
<1>1. CASE node' = node
  BY <1>1, NamesFrame
<1>2. ASSUME NEW w \in Workflows, NEW x \in Titles, NEW a \in Agents,
             CreateWorkflow(w, x, a)
      PROVE  AgentNamesDiffer'
  <2>1. node' = [node EXCEPT ![a] = Born(w, AgentFields(Start, TRUE))]
    BY <1>2 DEF CreateWorkflow, InsertNode
  <2>2. /\ node'[a].wf = w /\ node'[a].name = Start
        /\ \A b \in Agents \ {a} : node'[b] = node[b]
    BY <1>0, <2>1 DEF TypeOK, Born, AgentFields
  <2>3. \A b \in Agents : ~NodeIn(b, w)
    BY <1>0, <1>2 DEF CreateWorkflow, NodeIn, ReferencesInside, NodesHaveWorkflow
  <2> QED
    BY <2>2, <2>3, NamesNew
<1>3. ASSUME NEW w \in Workflows, DeleteWorkflow(w)
      PROVE  AgentNamesDiffer'
  <2>1. ASSUME NEW a \in Agents, NodeIn(a, w)
        PROVE  node'[a].st = "gone"
    BY <1>0, <1>3, <2>1 DEF DeleteWorkflow, CascadeWorkflow, NoNode
  <2>2. \A a \in Agents : ~NodeIn(a, w) => node'[a] = node[a]
    BY <1>0, <1>3 DEF DeleteWorkflow, CascadeWorkflow
  <2> QED
    BY <2>1, <2>2, NamesFrame
<1>4. ASSUME NEW r \in Requests, NEW a \in Agents, InsertAgent(r, a)
      PROVE  AgentNamesDiffer'
  <2>1. node' = [node EXCEPT ![a] = Born(req[r].wf, AgentFields(req[r].name, FALSE))]
    BY <1>4 DEF InsertAgent, InsertNode
  <2>2. /\ node'[a].wf = req[r].wf /\ node'[a].name = req[r].name
        /\ \A b \in Agents \ {a} : node'[b] = node[b]
    BY <1>0, <2>1 DEF TypeOK, Born, AgentFields
  <2>3. \A b \in Agents : NodeIn(b, req[r].wf) => node[b].name # req[r].name
    BY <1>0, <1>4 DEF InsertAgent, NameTaken
  <2> QED
    BY <2>2, <2>3, NamesNew
<1>5. ASSUME NEW r \in Requests, NEW a \in Agents, NEW x \in Names, NEW i \in BOOLEAN,
             SaveAgentConfig(r, a, x, i)
      PROVE  AgentNamesDiffer'
  <2>1. \A b \in Agents : node'[b].name = node[b].name
    BY <1>0, <1>5 DEF SaveAgentConfig, TypeOK, AgentRows
  <2> QED
    BY <1>0, <1>5, <2>1, RewritesKeep, NamesFrame DEF Rewrites
<1>6. ASSUME NEW r \in Requests, WriteAgent(r)
      PROVE  AgentNamesDiffer'
  <2> DEFINE a == req[r].agent
  <2>1. a \in Agents
    BY <1>6 DEF WriteAgent, SlotsOK, SlotOK
  <2>2. /\ node'[a].wf = node[a].wf /\ node'[a].name = req[r].name
        /\ \A b \in Agents \ {a} : node'[b] = node[b]
    BY <1>0, <1>6, <2>1 DEF WriteAgent, TypeOK, AgentRows
  <2>3. \A b \in Agents \ {a} : NodeIn(b, node[a].wf) => node[b].name # req[r].name
    BY <1>6 DEF WriteAgent, NameTaken
  <2> QED
    BY <2>1, <2>2, <2>3, NamesNew
<1>7. ASSUME NEW r \in Requests, CommitDeletion(r)
      PROVE  AgentNamesDiffer'
  <2>1. \A n \in Nodes : n \in Agents => n \notin req[r].tools
    BY GraphAssumption DEF TypeOK, RequestStates
  <2>2. \A b \in Agents : node'[b] \in {node[b], NoNode("gone")}
    BY <1>0, <1>7, <2>1 DEF CommitDeletion
  <2>3. NoNode("gone").st # "live"
    BY DEF NoNode
  <2> QED
    BY <2>2, <2>3, NamesFrame
<1>8. ASSUME ToolStep
      PROVE  AgentNamesDiffer'
  <2>1. \A b \in Agents : node'[b] = node[b]
    BY <1>0, <1>8, GraphAssumption
       DEF ToolStep, CreateTool, UpdateTool, DeleteTool, InsertNode, TypeOK
  <2> QED
    BY <2>1, NamesFrame
<1>9. ASSUME MoveStep
      PROVE  AgentNamesDiffer'
  <2>1. \A b \in Agents : node'[b].name = node[b].name
    BY <1>0, <1>9 DEF MoveStep, MovePositions, TypeOK, AgentRows
  <2> QED
    BY <1>0, <1>9, <2>1, RewritesKeep, NamesFrame DEF Rewrites
<1>10. ASSUME NEW r \in Requests, RequestStep(r)
       PROVE  AgentNamesDiffer'
  BY <1>1, <1>4, <1>5, <1>6, <1>7, <1>10
     DEF RequestStep, CheckAgentName, InsertAgentRefused, WriteAgentRefused,
         DropAgentEdges, LoadAgentTools, AbortDeletion
<1>11. EdgeStep \/ RestartApi \/ UNCHANGED vars => node' = node
  BY DEF EdgeStep, CreateEdge, UpdateEdge, DeleteEdge, RestartApi, vars
<1> QED
  BY <1>1, <1>2, <1>3, <1>8, <1>9, <1>10, <1>11 DEF Next, WorkflowStep

\* The lookup of an agent's name and its insertion are two steps, and still no
\* two agents of a workflow ever share a name.
THEOREM NamesHold == Spec => []AgentNamesDiffer
<1>1. Init => AgentNamesDiffer
  BY DEF Init, AgentNamesDiffer, NoNode, Nodes
<1>2. GraphInv /\ AgentNamesDiffer /\ [Next]_vars => GraphInv' /\ AgentNamesDiffer'
  BY GraphInductive, NamesStep
<1> QED
  BY <1>1, <1>2, GraphInductive, PTL DEF Spec

-----------------------------------------------------------------------------
(* What is gone.                                                            *)

\* A row that is gone holds nothing.
GoneRows ==
  /\ \A n \in Nodes : node[n].st = "gone" => node[n] = NoNode("gone")
  /\ \A e \in Edges : edge[e].st = "gone" => edge[e] = NoEdge("gone")

\* A step leaves what is gone alone, and what it makes go it empties.
NodesDepart ==
  \A n \in Nodes :
    \/ node'[n] = node[n]
    \/ node'[n] = NoNode("gone")
    \/ node[n].st # "gone" /\ node'[n].st # "gone"

EdgesDepart ==
  \A e \in Edges :
    \/ edge'[e] = edge[e]
    \/ edge'[e] = NoEdge("gone")
    \/ edge[e].st # "gone" /\ edge'[e].st # "gone"

LEMMA DepartStays ==
  ASSUME GoneRows, NodesDepart, EdgesDepart
  PROVE  /\ GoneRows'
         /\ \A n \in Nodes : node[n].st = "gone" => node'[n] = node[n]
         /\ \A e \in Edges : edge[e].st = "gone" => edge'[e] = edge[e]
BY DEF GoneRows, NodesDepart, EdgesDepart

LEMMA RequestDeparts ==
  ASSUME TypesInv, NEW r \in Requests, RequestStep(r)
  PROVE  NodesDepart /\ EdgesDepart
<1> USE DEF TypesInv
<1>1. CASE UNCHANGED <<node, edge>>
  BY <1>1 DEF NodesDepart, EdgesDepart
<1>2. ASSUME NEW a \in Agents, InsertAgent(r, a)
      PROVE  NodesDepart /\ EdgesDepart
  <2>1. node'[a].st # "gone" /\ \A n \in Nodes \ {a} : node'[n] = node[n]
    BY <1>2 DEF InsertAgent, InsertNode, Born, TypeOK, Nodes
  <2> QED
    BY <1>2, <2>1 DEF InsertAgent, NodesDepart, EdgesDepart
<1>3. ASSUME NEW a \in Agents, NEW x \in Names, NEW i \in BOOLEAN,
             SaveAgentConfig(r, a, x, i)
      PROVE  NodesDepart /\ EdgesDepart
  <2>1. \A n \in Nodes \ {a} : node'[n] = node[n]
    BY <1>3 DEF SaveAgentConfig, TypeOK, Nodes
  <2>2. node[a].st = "live" /\ node'[a].st = node[a].st
    BY <1>3, RewritesKeep DEF SaveAgentConfig, Rewrites, Nodes
  <2> QED
    BY <1>3, <2>1, <2>2 DEF SaveAgentConfig, NodesDepart, EdgesDepart
<1>4. ASSUME WriteAgent(r)
      PROVE  NodesDepart /\ EdgesDepart
  <2> DEFINE a == req[r].agent
  <2>1. a \in Agents
    BY <1>4 DEF WriteAgent, SlotsOK, SlotOK
  <2>2. \A n \in Nodes \ {a} : node'[n] = node[n]
    BY <1>4, <2>1 DEF WriteAgent, TypeOK, Nodes
  <2>3. node[a].st = "live" /\ node'[a].st = node[a].st
    BY <1>4, <2>1, RewritesKeep DEF WriteAgent, Rewrites, Nodes
  <2> QED
    BY <1>4, <2>2, <2>3 DEF WriteAgent, NodesDepart, EdgesDepart
<1>5. ASSUME CommitDeletion(r)
      PROVE  NodesDepart /\ EdgesDepart
  <2>1. \A t \in req[r].tools : node[t].st = "live"
    BY <1>5 DEF CommitDeletion, DeletionHolds, ToolsOf
  <2>2. \A n \in Nodes : \/ node'[n] \in {node[n], NoNode("gone")}
                         \/ n \in req[r].tools /\ node'[n] = [node[n] EXCEPT !.agent = None]
    BY <1>5 DEF CommitDeletion
  <2>3. \A n \in Nodes : [node[n] EXCEPT !.agent = None].st = node[n].st
    BY DEF TypeOK, AgentRows, ToolRows, Nodes
  <2>4. NodesDepart
    BY <2>1, <2>2, <2>3 DEF NodesDepart
  <2> QED
    BY <1>5, <2>4 DEF CommitDeletion, RemoveEdges, EdgesDepart
<1> QED
  BY <1>1, <1>2, <1>3, <1>4, <1>5
     DEF RequestStep, CheckAgentName, InsertAgentRefused, WriteAgentRefused,
         DropAgentEdges, LoadAgentTools, AbortDeletion

LEMMA StepDeparts ==
  ASSUME TypesInv, [Next]_vars
  PROVE  NodesDepart /\ EdgesDepart
<1> USE DEF TypesInv
<1>1. ASSUME NEW w \in Workflows, NEW x \in Titles, NEW a \in Agents,
             CreateWorkflow(w, x, a)
      PROVE  NodesDepart /\ EdgesDepart
  <2>1. node'[a].st # "gone" /\ \A n \in Nodes \ {a} : node'[n] = node[n]
    BY <1>1 DEF CreateWorkflow, InsertNode, Born, TypeOK, Nodes
  <2> QED
    BY <1>1, <2>1 DEF CreateWorkflow, NodesDepart, EdgesDepart
<1>2. ASSUME NEW w \in Workflows, DeleteWorkflow(w)
      PROVE  NodesDepart /\ EdgesDepart
  BY <1>2 DEF DeleteWorkflow, CascadeWorkflow, NodesDepart, EdgesDepart
<1>3. ASSUME NEW t \in Tools, NEW a \in Agents, CreateTool(t, a)
      PROVE  NodesDepart /\ EdgesDepart
  <2>1. node'[t].st # "gone" /\ \A n \in Nodes \ {t} : node'[n] = node[n]
    BY <1>3 DEF CreateTool, InsertNode, Born, TypeOK, Nodes
  <2> QED
    BY <1>3, <2>1 DEF CreateTool, NodesDepart, EdgesDepart
<1>4. ASSUME NEW t \in Tools, UpdateTool(t)
      PROVE  NodesDepart /\ EdgesDepart
  <2>1. \A n \in Nodes \ {t} : node'[n] = node[n]
    BY <1>4 DEF UpdateTool, TypeOK, Nodes
  <2>2. node[t].st = "live" /\ node'[t].st = node[t].st
    BY <1>4, RewritesKeep DEF UpdateTool, Rewrites, Nodes
  <2> QED
    BY <1>4, <2>1, <2>2 DEF UpdateTool, NodesDepart, EdgesDepart
<1>5. ASSUME NEW t \in Tools, DeleteTool(t)
      PROVE  NodesDepart /\ EdgesDepart
  BY <1>5 DEF DeleteTool, RemoveEdges, NodesDepart, EdgesDepart, TypeOK
<1>6. ASSUME NEW e \in Edges, NEW s \in Nodes, NEW d \in Nodes, CreateEdge(e, s, d)
      PROVE  NodesDepart /\ EdgesDepart
  <2>1. edge'[e].st = "live" /\ edge[e].st = "fresh"
    BY <1>6 DEF CreateEdge, TypeOK
  <2>2. \A f \in Edges \ {e} : edge'[f] = edge[f]
    BY <1>6 DEF CreateEdge, TypeOK
  <2> QED
    BY <1>6, <2>1, <2>2 DEF CreateEdge, NodesDepart, EdgesDepart
<1>7. ASSUME NEW e \in Edges, NEW s \in Nodes, NEW d \in Nodes, UpdateEdge(e, s, d)
      PROVE  NodesDepart /\ EdgesDepart
  <2>1. edge'[e].st = edge[e].st /\ edge[e].st = "live"
    BY <1>7 DEF UpdateEdge, EdgeFound, TypeOK, EdgeRows
  <2>2. \A f \in Edges \ {e} : edge'[f] = edge[f]
    BY <1>7 DEF UpdateEdge, TypeOK
  <2> QED
    BY <1>7, <2>1, <2>2 DEF UpdateEdge, NodesDepart, EdgesDepart
<1>8. ASSUME NEW e \in Edges, DeleteEdge(e)
      PROVE  NodesDepart /\ EdgesDepart
  BY <1>8 DEF DeleteEdge, RemoveEdges, NodesDepart, EdgesDepart
<1>9. ASSUME NEW S \in SUBSET Nodes, NEW p \in Spots, MovePositions(S, p)
      PROVE  NodesDepart /\ EdgesDepart
  <2>1. \A n \in Nodes : node[n].st # "live" => node'[n] = node[n]
    BY <1>9 DEF MovePositions
  <2>2. \A n \in Nodes : node'[n].st = node[n].st
    BY <1>9, RewritesKeep DEF MoveStep, Rewrites
  <2> QED
    BY <1>9, <2>1, <2>2 DEF MovePositions, NodesDepart, EdgesDepart
<1>10. CASE RestartApi \/ UNCHANGED vars
  BY <1>10 DEF RestartApi, vars, NodesDepart, EdgesDepart
<1> QED
  BY <1>1, <1>2, <1>3, <1>4, <1>5, <1>6, <1>7, <1>8, <1>9, <1>10, RequestDeparts
     DEF Next, WorkflowStep, ToolStep, EdgeStep, MoveStep

\* No update of a row that another tab has deleted brings it back, whichever
\* handler it comes through.
THEOREM GoneForGood == Spec => GoneStaysGone
<1>1. Init => GoneRows
  BY DEF Init, GoneRows, NoNode, NoEdge
<1>2. ASSUME TypesInv, GoneRows, [Next]_vars
      PROVE  /\ GoneRows'
             /\ \A n \in Nodes : node[n].st = "gone" => node[n]' = node[n]
             /\ \A e \in Edges : edge[e].st = "gone" => edge[e]' = edge[e]
  BY <1>2, StepDeparts, DepartStays
<1>3. Spec => [](TypesInv /\ GoneRows)
  BY <1>1, <1>2, TypesInductive, PTL DEF Spec
<1> QED
  BY <1>2, <1>3, PTL DEF Spec, GoneStaysGone

-----------------------------------------------------------------------------
(* Deletions of agents.                                                     *)

Deleting == {r \in Requests : req[r].pc \in {"delete", "detach"}}

\* A deletion has dropped the edges it found, no other deletes its agent, and
\* a tool it has loaded is still that agent's, or gone.
DeletionsOK ==
  \A r \in Deleting :
    /\ req[r].dropped = req[r].before
    /\ \A s \in Deleting : req[s].agent = req[r].agent => s = r
    /\ req[r].pc = "detach" =>
         \A t \in req[r].tools :
           \/ node[t].st = "gone"
           \/ node[t].st = "live" /\ node[t].agent = req[r].agent

\* A stored tool keeps its agent until it goes or that agent's deletion commits.
ToolStays(t) ==
  node[t].st = "live" =>
    \/ node'[t].st = "gone"
    \/ node'[t].st = "live" /\ node'[t].agent = node[t].agent
    \/ \E s \in Requests : CommitDeletion(s) /\ req[s].agent = node[t].agent

LEMMA ToolsStay ==
  ASSUME TypesInv, [Next]_vars, NEW t \in Tools
  PROVE  ToolStays(t)
<1> USE DEF TypesInv
<1>0. t \in Nodes /\ t \notin Agents
  BY GraphAssumption DEF Nodes
<1>1. CASE node'[t] = node[t]
  BY <1>1 DEF ToolStays
<1>2. CASE node'[t] = NoNode("gone")
  BY <1>2 DEF ToolStays, NoNode
<1>3. CASE Rewrites(t)
  BY <1>3 DEF ToolStays, Rewrites
<1>4. CASE node[t].st # "live"
  BY <1>4 DEF ToolStays
<1>5. ASSUME NEW s \in Requests, CommitDeletion(s)
      PROVE  ToolStays(t)
  <2>1. \/ node'[t] \in {node[t], NoNode("gone")}
        \/ t \in req[s].tools
    BY <1>0, <1>5 DEF CommitDeletion
  <2>2. t \in req[s].tools => req[s].agent = node[t].agent
    BY <1>5 DEF CommitDeletion, DeletionHolds, ToolsOf
  <2> QED
    BY <1>1, <1>2, <1>5, <2>1, <2>2 DEF ToolStays
<1>6. ASSUME NEW r \in Requests, RequestStep(r)
      PROVE  ToolStays(t)
  <2>1. ASSUME NEW a \in Agents, InsertAgent(r, a)
        PROVE  node'[t] = node[t]
    BY <1>0, <2>1 DEF InsertAgent, InsertNode, TypeOK
  <2>2. ASSUME NEW a \in Agents, NEW x \in Names, NEW i \in BOOLEAN,
               SaveAgentConfig(r, a, x, i)
        PROVE  Rewrites(t)
    BY <1>0, <2>2, RewritesKeep
  <2>3. ASSUME WriteAgent(r)
        PROVE  Rewrites(t)
    BY <1>0, <2>3, RewritesKeep
  <2> QED
    BY <1>1, <1>3, <1>5, <1>6, <2>1, <2>2, <2>3
       DEF RequestStep, CheckAgentName, InsertAgentRefused, WriteAgentRefused,
           DropAgentEdges, LoadAgentTools, AbortDeletion
<1>7. ASSUME WorkflowStep
      PROVE  ToolStays(t)
  <2>1. ASSUME NEW w \in Workflows, NEW x \in Titles, NEW a \in Agents,
               CreateWorkflow(w, x, a)
        PROVE  node'[t] = node[t]
    BY <1>0, <2>1 DEF CreateWorkflow, InsertNode, TypeOK
  <2>2. ASSUME NEW w \in Workflows, DeleteWorkflow(w)
        PROVE  node'[t] \in {node[t], NoNode("gone")}
    BY <1>0, <2>2 DEF DeleteWorkflow, CascadeWorkflow
  <2> QED
    BY <1>1, <1>2, <1>7, <2>1, <2>2 DEF WorkflowStep
<1>8. ASSUME ToolStep
      PROVE  ToolStays(t)
  <2>1. ASSUME NEW u \in Tools, NEW a \in Agents, CreateTool(u, a), node[t].st = "live"
        PROVE  node'[t] = node[t]
    BY <1>0, <2>1 DEF CreateTool, InsertNode, TypeOK
  <2>2. ASSUME NEW u \in Tools, UpdateTool(u)
        PROVE  Rewrites(t)
    BY <1>0, <2>2, RewritesKeep
  <2>3. ASSUME NEW u \in Tools, DeleteTool(u)
        PROVE  node'[t] \in {node[t], NoNode("gone")}
    BY <1>0, <2>3 DEF DeleteTool, TypeOK
  <2> QED
    BY <1>1, <1>2, <1>3, <1>4, <1>8, <2>1, <2>2, <2>3 DEF ToolStep
<1>9. MoveStep => Rewrites(t)
  BY <1>0, RewritesKeep
<1>10. EdgeStep \/ RestartApi \/ UNCHANGED vars => node' = node
  BY DEF EdgeStep, CreateEdge, UpdateEdge, DeleteEdge, RestartApi, vars
<1> QED
  BY <1>1, <1>3, <1>6, <1>7, <1>8, <1>9, <1>10 DEF Next

\* Requests that go on deleting keep what they have found.
LEMMA DeletionsFrame ==
  ASSUME TypesInv, DeletionsOK, [Next]_vars, NodesDepart, NEW r \in Deleting,
         req'[r] = req[r]
  PROVE  req'[r].pc = "detach" =>
           \A t \in req'[r].tools :
             \/ node'[t].st = "gone"
             \/ node'[t].st = "live" /\ node'[t].agent = req'[r].agent
<1> SUFFICES ASSUME req[r].pc = "detach", NEW t \in req[r].tools
             PROVE  \/ node'[t].st = "gone"
                    \/ node'[t].st = "live" /\ node'[t].agent = req[r].agent
  OBVIOUS
<1>1. r \in Requests /\ t \in Tools /\ t \in Nodes
  BY DEF Deleting, TypesInv, TypeOK, RequestStates, Nodes
<1>2. CASE node[t].st = "gone"
  BY <1>1, <1>2 DEF NodesDepart, NoNode
<1>3. CASE node[t].st = "live" /\ node[t].agent = req[r].agent
  <2>1. ASSUME NEW s \in Requests, CommitDeletion(s), req[s].agent = node[t].agent
        PROVE  FALSE
    <3>1. s \in Deleting
      BY <2>1 DEF CommitDeletion, Deleting
    <3>2. s = r
      BY <1>3, <2>1, <3>1 DEF DeletionsOK
    <3>3. req'[s].pc = "free"
      BY <2>1 DEF CommitDeletion, TypesInv, TypeOK, Free
    <3> QED
      BY <3>2, <3>3
  <2> QED
    BY <1>1, <1>3, <2>1, ToolsStay DEF ToolStays
<1> QED
  BY <1>2, <1>3 DEF DeletionsOK

LEMMA DeletionsStep ==
  ASSUME TypesInv, DeletionsOK, [Next]_vars
  PROVE  DeletionsOK'
<1> USE DEF TypesInv
<1>0. NodesDepart
  BY StepDeparts
<1>1. ASSUME \A r \in Requests : req'[r] = req[r] \/ req'[r].pc \notin {"delete", "detach"}
      PROVE  DeletionsOK'
  <2>1. \A r \in Deleting' : r \in Deleting /\ req'[r] = req[r]
    BY <1>1 DEF Deleting
  <2> QED
    BY <1>0, <2>1, DeletionsFrame DEF DeletionsOK
<1>2. ASSUME NEW r \in Requests, NEW a \in Agents, DropAgentEdges(r, a)
      PROVE  DeletionsOK'
  <2>1. /\ req'[r].pc = "delete" /\ req'[r].agent = a
        /\ req'[r].dropped = req'[r].before
        /\ \A s \in Requests \ {r} : req'[s] = req[s]
    BY <1>2 DEF DropAgentEdges, TypeOK, Free
  <2>2. \A s \in Deleting : req[s].agent # a
    BY <1>2 DEF DropAgentEdges, AgentLocked, Deleting
  <2>3. \A s \in Deleting' : s = r \/ (s \in Deleting /\ req'[s] = req[s])
    BY <2>1 DEF Deleting
  <2> QED
    BY <1>0, <2>1, <2>2, <2>3, DeletionsFrame DEF DeletionsOK
<1>3. ASSUME NEW r \in Requests, LoadAgentTools(r)
      PROVE  DeletionsOK'
  <2>1. /\ req'[r].agent = req[r].agent /\ req'[r].dropped = req[r].dropped
        /\ req'[r].before = req[r].before /\ req'[r].tools = ToolsOf(req[r].agent)
        /\ \A s \in Requests \ {r} : req'[s] = req[s]
    BY <1>3 DEF LoadAgentTools, TypeOK, RequestStates
  <2>2. r \in Deleting /\ node' = node
    BY <1>3 DEF LoadAgentTools, Deleting
  <2>3. \A s \in Deleting' : s = r \/ (s \in Deleting /\ req'[s] = req[s])
    BY <2>1 DEF Deleting
  <2>4. \A t \in ToolsOf(req[r].agent) : node'[t].st = "live" /\ node'[t].agent = req'[r].agent
    BY <2>1, <2>2 DEF ToolsOf
  <2> QED
    BY <1>0, <2>1, <2>2, <2>3, <2>4, DeletionsFrame DEF DeletionsOK
<1>4. ASSUME NEW r \in Requests, RequestStep(r)
      PROVE  DeletionsOK'
  <2>1. ASSUME NEW q, q.pc \notin {"delete", "detach"}, req' = [req EXCEPT ![r] = q]
        PROVE  DeletionsOK'
    BY <1>1, <2>1 DEF TypeOK
  <2>2. ASSUME NEW w \in Workflows, NEW x \in Names, CheckAgentName(r, w, x)
        PROVE  DeletionsOK'
    <3>1. [Free EXCEPT !.pc = "create", !.wf = w, !.name = x].pc = "create"
      BY DEF Free
    <3> QED
      BY <2>1, <2>2, <3>1 DEF CheckAgentName
  <2>3. ASSUME NEW a \in Agents, NEW x \in Names, NEW i \in BOOLEAN,
               SaveAgentConfig(r, a, x, i)
        PROVE  DeletionsOK'
    <3>1. [Free EXCEPT !.pc = "rename", !.agent = a, !.name = x, !.initial = i].pc = "rename"
      BY DEF Free
    <3> QED
      BY <2>1, <2>3, <3>1 DEF SaveAgentConfig
  <2>4. CASE req' = [req EXCEPT ![r] = Free]
    BY <2>1, <2>4 DEF Free
  <2> QED
    BY <1>2, <1>3, <1>4, <2>2, <2>3, <2>4
       DEF RequestStep, InsertAgent, InsertAgentRefused, WriteAgent, WriteAgentRefused,
           CommitDeletion, AbortDeletion
<1>5. CASE RestartApi
  BY <1>1, <1>5 DEF RestartApi, Free
<1>6. WorkflowStep \/ ToolStep \/ EdgeStep \/ MoveStep \/ UNCHANGED vars => req' = req
  BY DEF WorkflowStep, CreateWorkflow, DeleteWorkflow, ToolStep, CreateTool, UpdateTool,
         DeleteTool, EdgeStep, CreateEdge, UpdateEdge, DeleteEdge, MoveStep, MovePositions,
         vars
<1> QED
  BY <1>1, <1>4, <1>5, <1>6 DEF Next

\* A deletion of an agent is refused only for something that happened after it
\* began: an edge drawn or moved to it since, or one of its tools deleted.
THEOREM OnlyLateAborts == Spec => OnlyLateChangesAbort
<1>1. Init => DeletionsOK
  BY DEF Init, DeletionsOK, Deleting, Free
<1>2. ASSUME TypesInv, DeletionsOK, [Next]_vars
      PROVE  /\ DeletionsOK'
             /\ \A r \in Requests : AbortDeletion(r) =>
                  \/ \E n \in {req[r].agent} \cup LateTools(r) :
                       EdgesAt(n) \ req[r].before # {}
                  \/ \E t \in req[r].tools : node[t].st = "gone"
  <2>1. DeletionsOK'
    BY <1>2, DeletionsStep
  <2>2. ASSUME NEW r \in Requests, AbortDeletion(r),
               \A n \in {req[r].agent} \cup LateTools(r) :
                 EdgesAt(n) \ req[r].before = {}
        PROVE  \E t \in req[r].tools : node[t].st = "gone"
    <3>1. r \in Deleting /\ req[r].pc = "detach" /\ req[r].tools \subseteq Tools
      BY <1>2, <2>2 DEF AbortDeletion, Deleting, TypesInv, TypeOK, RequestStates
    <3>2. req[r].dropped = req[r].before
      BY <1>2, <3>1 DEF DeletionsOK
    <3>3. PICK t \in req[r].tools : t \notin ToolsOf(req[r].agent)
      BY <2>2, <3>2 DEF AbortDeletion, DeletionHolds
    <3> QED
      BY <1>2, <3>1, <3>3 DEF DeletionsOK, ToolsOf
  <2> QED
    BY <2>1, <2>2
<1>3. Spec => [](TypesInv /\ DeletionsOK)
  BY <1>1, <1>2, TypesInductive, PTL DEF Spec
<1> QED
  BY <1>2, <1>3, PTL DEF Spec, OnlyLateChangesAbort

-----------------------------------------------------------------------------
(* The store.  What a deletion has locked stays as it is until it commits,  *)
(* so that its commit takes the edges that end at what goes, and no others. *)

LocksOK ==
  \A r \in Deleting :
    /\ node[req[r].agent].st = "live"
    /\ req[r].dropped \subseteq EdgesAt(req[r].agent)
    /\ \A s \in Deleting : s # r => req[s].dropped \cap req[r].dropped = {}

LEMMA DeletingTyped ==
  ASSUME TypesInv, NEW r \in Deleting
  PROVE  /\ r \in Requests /\ req[r].agent \in Agents /\ req[r].agent \in Nodes
         /\ req[r].dropped \subseteq Edges /\ req[r].tools \subseteq Tools
BY DEF Deleting, TypesInv, TypeOK, SlotsOK, SlotOK, RequestStates, Nodes

\* Nobody but the deletion itself touches the agent it deletes ...
LEMMA LockedAgentStays ==
  ASSUME TypesInv, DeletionsOK, LocksOK, [Next]_vars, NEW r \in Deleting,
         ~CommitDeletion(r)
  PROVE  node'[req[r].agent].st = "live"
<1> DEFINE a == req[r].agent
<1> USE DEF TypesInv
<1>0. a \in Agents /\ a \in Nodes /\ a \notin Tools /\ node[a].st = "live"
  BY DeletingTyped, GraphAssumption DEF LocksOK
<1>1. ASSUME NEW s \in Requests, RequestStep(s)
      PROVE  node'[a].st = "live"
  <2>1. ASSUME NEW b \in Agents, InsertAgent(s, b)
        PROVE  node'[a] = node[a]
    BY <1>0, <2>1 DEF InsertAgent, InsertNode, TypeOK
  <2>2. ASSUME CommitDeletion(s)
        PROVE  node'[a] = node[a]
    <3>1. s \in Deleting /\ req[s].agent # a
      BY <2>2 DEF CommitDeletion, Deleting, DeletionsOK
    <3>2. a \notin LateTools(s) /\ a \notin req[s].tools
      BY <1>0, <3>1, DeletingTyped DEF LateTools, ToolsOf
    <3> QED
      BY <1>0, <2>2, <3>1, <3>2 DEF CommitDeletion
  <2>3. (\E b \in Agents, x \in Names, i \in BOOLEAN : SaveAgentConfig(s, b, x, i))
          \/ WriteAgent(s) => Rewrites(a)
    BY <1>0, RewritesKeep
  <2> QED
    BY <1>0, <1>1, <2>1, <2>2, <2>3
       DEF RequestStep, CheckAgentName, InsertAgentRefused, WriteAgentRefused,
           DropAgentEdges, LoadAgentTools, AbortDeletion, Rewrites
<1>2. ASSUME NEW w \in Workflows, NEW x \in Titles, NEW b \in Agents,
             CreateWorkflow(w, x, b)
      PROVE  node'[a] = node[a]
  BY <1>0, <1>2 DEF CreateWorkflow, InsertNode, TypeOK
<1>3. ASSUME NEW w \in Workflows, DeleteWorkflow(w)
      PROVE  node'[a] = node[a]
  <2>1. ~NodeIn(a, w)
    BY <1>0, <1>3 DEF DeleteWorkflow, AgentLocked, Deleting
  <2> QED
    BY <1>0, <1>3, <2>1 DEF DeleteWorkflow, CascadeWorkflow
<1>4. ASSUME ToolStep
      PROVE  node'[a].st = "live"
  <2>1. ASSUME NEW t \in Tools, NEW b \in Agents, CreateTool(t, b)
        PROVE  node'[a] = node[a]
    BY <1>0, <2>1 DEF CreateTool, InsertNode, TypeOK
  <2>2. ASSUME NEW t \in Tools, DeleteTool(t)
        PROVE  node'[a] = node[a]
    BY <1>0, <2>2 DEF DeleteTool, TypeOK
  <2>3. ASSUME NEW t \in Tools, UpdateTool(t)
        PROVE  Rewrites(a)
    BY <1>0, <2>3, RewritesKeep
  <2> QED
    BY <1>0, <1>4, <2>1, <2>2, <2>3 DEF ToolStep, Rewrites
<1>5. MoveStep => node'[a].st = "live"
  BY <1>0, RewritesKeep DEF Rewrites
<1>6. EdgeStep \/ RestartApi \/ UNCHANGED vars => node' = node
  BY DEF EdgeStep, CreateEdge, UpdateEdge, DeleteEdge, RestartApi, vars
<1> QED
  BY <1>0, <1>1, <1>2, <1>3, <1>4, <1>5, <1>6 DEF Next, WorkflowStep

\* ... nor the edges it has deleted.
LEMMA LockedEdgesStay ==
  ASSUME TypesInv, ReferencesInside, DeletionsOK, LocksOK, [Next]_vars, NEW r \in Deleting,
         ~CommitDeletion(r), NEW e \in req[r].dropped
  PROVE  edge'[e] = edge[e]
<1> DEFINE a == req[r].agent
<1> USE DEF TypesInv
<1>0. /\ r \in Requests /\ e \in Edges /\ e \in EdgesAt(a) /\ EdgeLocked(e)
      /\ edge[e].st = "live" /\ a \in Agents /\ node[a].st = "live"
  BY DeletingTyped DEF LocksOK, EdgesAt, LiveEdges, EdgeLocked
<1>1. ASSUME NEW s \in Requests, CommitDeletion(s)
      PROVE  edge'[e] = edge[e]
  <2>1. s \in Deleting /\ e \notin req[s].dropped
    BY <1>1 DEF CommitDeletion, Deleting, LocksOK
  <2> QED
    BY <1>0, <1>1, <2>1 DEF CommitDeletion, RemoveEdges
<1>2. ASSUME NEW s \in Requests, RequestStep(s)
      PROVE  edge'[e] = edge[e]
  BY <1>1, <1>2 DEF RequestStep, CheckAgentName, InsertAgent, InsertAgentRefused,
       SaveAgentConfig, WriteAgent, WriteAgentRefused, DropAgentEdges, LoadAgentTools,
       AbortDeletion
<1>3. ASSUME NEW w \in Workflows, DeleteWorkflow(w)
      PROVE  edge'[e] = edge[e]
  <2>1. ~NodeIn(a, w)
    BY <1>0, <1>3 DEF DeleteWorkflow, AgentLocked, Deleting
  <2>2. NodeIn(a, edge[e].wf)
    BY <1>0 DEF EdgesAt, ReferencesInside, EdgesHaveEnds
  <2>3. edge[e].wf # w
    BY <2>1, <2>2
  <2> QED
    BY <1>0, <1>3, <2>3 DEF DeleteWorkflow, CascadeWorkflow
<1>4. ASSUME WorkflowStep
      PROVE  edge'[e] = edge[e]
  BY <1>3, <1>4 DEF WorkflowStep, CreateWorkflow
<1>5. ASSUME NEW t \in Tools, DeleteTool(t)
      PROVE  edge'[e] = edge[e]
  <2>1. e \notin EdgesAt(t)
    BY <1>0, <1>5 DEF DeleteTool
  <2> QED
    BY <1>0, <1>5, <2>1 DEF DeleteTool, RemoveEdges
<1>6. ASSUME ToolStep
      PROVE  edge'[e] = edge[e]
  BY <1>5, <1>6 DEF ToolStep, CreateTool, UpdateTool
<1>7. ASSUME EdgeStep
      PROVE  edge'[e] = edge[e]
  <2>1. ASSUME NEW f \in Edges, NEW s \in Nodes, NEW d \in Nodes, CreateEdge(f, s, d)
        PROVE  edge'[e] = edge[e]
    BY <1>0, <2>1 DEF CreateEdge, TypeOK
  <2>2. ASSUME NEW f \in Edges, NEW s \in Nodes, NEW d \in Nodes, UpdateEdge(f, s, d)
        PROVE  edge'[e] = edge[e]
    BY <1>0, <2>2 DEF UpdateEdge, EdgeFound, TypeOK
  <2>3. ASSUME NEW f \in Edges, DeleteEdge(f)
        PROVE  edge'[e] = edge[e]
    BY <1>0, <2>3 DEF DeleteEdge, EdgeFound, RemoveEdges
  <2> QED
    BY <1>7, <2>1, <2>2, <2>3 DEF EdgeStep
<1>8. MoveStep \/ RestartApi \/ UNCHANGED vars => edge' = edge
  BY DEF MoveStep, MovePositions, RestartApi, vars
<1> QED
  BY <1>2, <1>4, <1>6, <1>7, <1>8 DEF Next

\* Who is deleting after a step was deleting before, or has just begun.
LEMMA DeletingBefore ==
  ASSUME TypesInv, [Next]_vars, NEW r \in Deleting'
  PROVE  \/ /\ r \in Deleting /\ ~CommitDeletion(r)
            /\ req'[r].agent = req[r].agent /\ req'[r].dropped = req[r].dropped
         \/ \E a \in Agents : DropAgentEdges(r, a)
<1> USE DEF TypesInv
<1>0. r \in Requests /\ req'[r].pc \in {"delete", "detach"}
  BY DEF Deleting
<1>1. CommitDeletion(r) => req'[r].pc = "free"
  BY <1>0 DEF CommitDeletion, TypeOK, Free
<1>2. CASE req'[r] = req[r]
  BY <1>0, <1>1, <1>2 DEF Deleting
<1>3. ASSUME NEW s \in Requests, RequestStep(s)
      PROVE  \/ req'[r] = req[r]
             \/ LoadAgentTools(r)
             \/ \E a \in Agents : DropAgentEdges(r, a)
  <2>1. ASSUME NEW q, q.pc \notin {"delete", "detach"}, req' = [req EXCEPT ![s] = q]
        PROVE  req'[r] = req[r]
    BY <1>0, <2>1 DEF TypeOK
  <2>2. ASSUME NEW w \in Workflows, NEW x \in Names, CheckAgentName(s, w, x)
        PROVE  req'[r] = req[r]
    <3>1. [Free EXCEPT !.pc = "create", !.wf = w, !.name = x].pc = "create"
      BY DEF Free
    <3> QED
      BY <2>1, <2>2, <3>1 DEF CheckAgentName
  <2>3. ASSUME NEW a \in Agents, NEW x \in Names, NEW i \in BOOLEAN,
               SaveAgentConfig(s, a, x, i)
        PROVE  req'[r] = req[r]
    <3>1. [Free EXCEPT !.pc = "rename", !.agent = a, !.name = x, !.initial = i].pc = "rename"
      BY DEF Free
    <3> QED
      BY <2>1, <2>3, <3>1 DEF SaveAgentConfig
  <2>4. CASE req' = [req EXCEPT ![s] = Free]
    BY <2>1, <2>4 DEF Free
  <2>5. ASSUME LoadAgentTools(s)
        PROVE  req'[r] = req[r] \/ LoadAgentTools(r)
    BY <1>0, <2>5 DEF LoadAgentTools, TypeOK
  <2>6. ASSUME NEW a \in Agents, DropAgentEdges(s, a)
        PROVE  req'[r] = req[r] \/ DropAgentEdges(r, a)
    BY <1>0, <2>6 DEF DropAgentEdges, TypeOK
  <2> QED
    BY <1>3, <2>2, <2>3, <2>4, <2>5, <2>6
       DEF RequestStep, InsertAgent, InsertAgentRefused, WriteAgent, WriteAgentRefused,
           CommitDeletion, AbortDeletion
<1>4. LoadAgentTools(r) => /\ r \in Deleting
                           /\ req'[r].agent = req[r].agent
                           /\ req'[r].dropped = req[r].dropped
                           /\ req'[r].pc = "detach"
  BY <1>0 DEF LoadAgentTools, Deleting, TypeOK, RequestStates
<1>5. ~RestartApi
  BY <1>0 DEF RestartApi, Free
<1>6. WorkflowStep \/ ToolStep \/ EdgeStep \/ MoveStep \/ UNCHANGED vars => req' = req
  BY DEF WorkflowStep, CreateWorkflow, DeleteWorkflow, ToolStep, CreateTool, UpdateTool,
         DeleteTool, EdgeStep, CreateEdge, UpdateEdge, DeleteEdge, MoveStep, MovePositions,
         vars
<1> QED
  BY <1>1, <1>2, <1>3, <1>4, <1>5, <1>6 DEF Next

LEMMA LocksStep ==
  ASSUME TypesInv, ReferencesInside, DeletionsOK, LocksOK, [Next]_vars
  PROVE  LocksOK'
<1> USE DEF TypesInv
<1> DEFINE Old(r) == /\ r \in Deleting /\ ~CommitDeletion(r)
                     /\ req'[r].agent = req[r].agent /\ req'[r].dropped = req[r].dropped
           New(r) == \E a \in Agents : DropAgentEdges(r, a)
<1>1. \A r \in Deleting' : r \in Requests /\ (Old(r) \/ New(r))
  BY DeletingBefore DEF Deleting
<1>2. ASSUME NEW r \in Deleting', Old(r)
      PROVE  /\ node'[req'[r].agent].st = "live"
             /\ req'[r].dropped \subseteq EdgesAt(req[r].agent)'
  <2>1. \A e \in req[r].dropped : edge'[e] = edge[e]
    BY <1>2, LockedEdgesStay
  <2>2. req[r].dropped \subseteq EdgesAt(req[r].agent)
    BY <1>2 DEF LocksOK
  <2> QED
    BY <1>2, <2>1, <2>2, LockedAgentStays DEF EdgesAt, LiveEdges
<1>3. ASSUME NEW r \in Requests, NEW a \in Agents, DropAgentEdges(r, a)
      PROVE  /\ req'[r].agent = a /\ req'[r].dropped = EdgesAt(a)
             /\ node'[a].st = "live" /\ EdgesAt(a)' = EdgesAt(a)
             /\ \A s \in Deleting : req[s].dropped \cap EdgesAt(a) = {}
             /\ \A s \in Requests : s # r => req'[s] = req[s]
  <2>1. node' = node /\ edge' = edge
    BY <1>3 DEF DropAgentEdges
  <2>2. req'[r].agent = a /\ req'[r].dropped = EdgesAt(a) /\ node[a].st = "live"
    BY <1>3 DEF DropAgentEdges, TypeOK, Free
  <2>3. \A s \in Deleting : req[s].dropped \cap EdgesAt(a) = {}
    BY <1>3 DEF DropAgentEdges, EdgeLocked, Deleting
  <2>4. \A s \in Requests : s # r => req'[s] = req[s]
    BY <1>3 DEF DropAgentEdges, TypeOK
  <2> QED
    BY <2>1, <2>2, <2>3, <2>4 DEF EdgesAt, LiveEdges
<1>4. ASSUME NEW r \in Deleting', NEW s \in Deleting', s # r
      PROVE  req'[s].dropped \cap req'[r].dropped = {}
  <2>1. CASE Old(r) /\ Old(s)
    BY <1>4, <2>1 DEF LocksOK
  <2>2. CASE New(r) /\ Old(s)
    BY <1>1, <1>3, <2>2
  <2>3. CASE Old(r) /\ New(s)
    BY <1>1, <1>3, <2>3
  <2>4. ~(New(r) /\ New(s))
    <3> SUFFICES ASSUME New(r), New(s) PROVE FALSE
      OBVIOUS
    <3>1. r \in Requests /\ s \in Requests
      BY <1>1, <1>4
    <3>2. req'[s] = req[s]
      BY <1>3, <1>4, <3>1
    <3>3. req[s].pc = "free"
      BY DEF DropAgentEdges
    <3>4. req'[s].pc \in {"delete", "detach"}
      BY <1>4 DEF Deleting
    <3> QED
      BY <3>2, <3>3, <3>4
  <2> QED
    BY <1>1, <2>1, <2>2, <2>3, <2>4
<1>5. ASSUME NEW r \in Deleting', New(r)
      PROVE  /\ node'[req'[r].agent].st = "live"
             /\ req'[r].dropped \subseteq EdgesAt(req[r].agent)'
  BY <1>1, <1>3, <1>5
<1> QED
  BY <1>1, <1>2, <1>4, <1>5 DEF LocksOK

\* What a row looks like in the store.
LEMMA StoredRows ==
  /\ \A w \in Workflows : StagesStored[w] = workflow[w].st
  /\ \A n \in Nodes : /\ PartsStored[n].st = node[n].st /\ PartsStored[n].wf = node[n].wf
                      /\ PartsStored[n].name = node[n].name
                      /\ PartsStored[n].agent = node[n].agent
  /\ \A e \in Edges : /\ LinksStored[e].st = edge[e].st
                      /\ LinksStored[e].source = edge[e].source
                      /\ LinksStored[e].target = edge[e].target
BY DEF StagesStored, PartsStored, LinksStored

LEMMA StoredTerms ==
  /\ \A n \in Nodes : Store!Stored(n) <=> node[n].st = "live"
  /\ \A w : Store!PartsOf(w) = {n \in Nodes : NodeIn(n, w)}
  /\ \A a : Store!ToolsOf(a) = ToolsOf(a)
  /\ \A x, w, self : Store!Taken(x, w, self) <=> NameTaken(x, w, self)
  /\ \A N : Store!LinksAt(N) =
              {e \in LiveEdges : edge[e].source \in N \/ edge[e].target \in N}
<1>0. Store!Nodes = Nodes /\ Agents \subseteq Nodes /\ Tools \subseteq Nodes
  BY DEF Store!Nodes, Nodes
<1>1. \A n \in Nodes : Store!Stored(n) <=> node[n].st = "live"
  BY StoredRows DEF Store!Stored
<1>2. \A w : Store!PartsOf(w) = {n \in Nodes : NodeIn(n, w)}
  BY <1>0, <1>1, StoredRows DEF Store!PartsOf, NodeIn
<1>3. \A a : Store!ToolsOf(a) = ToolsOf(a)
  BY <1>0, <1>1, StoredRows DEF Store!ToolsOf, ToolsOf
<1>4. ASSUME NEW x, NEW w, NEW self
      PROVE  Store!Taken(x, w, self) <=> NameTaken(x, w, self)
  <2>1. Store!Taken(x, w, self)
          <=> \E a \in Agents \ {self} : NodeIn(a, w) /\ PartsStored[a].name = x
    BY <1>0, <1>2 DEF Store!Taken
  <2> QED
    BY <1>0, <2>1, StoredRows DEF NameTaken
<1>5. \A N : Store!LinksAt(N) =
              {e \in LiveEdges : edge[e].source \in N \/ edge[e].target \in N}
  BY StoredRows DEF Store!LinksAt, LiveEdges
<1> QED
  BY <1>1, <1>2, <1>3, <1>4, <1>5

\* A node that is born is put into the store.
LEMMA BirthPuts ==
  ASSUME TypeOK, edge' = edge, NEW n \in Nodes, node[n].st = "fresh",
         NEW w, NEW fields, node' = [node EXCEPT ![n] = Born(w, fields)]
  PROVE  Store!Put(n, w, fields.name, fields.agent)
<1>1. /\ node'[n] = Born(w, fields)
      /\ \A m \in Nodes \ {n} : node'[m] = node[m]
  BY DEF TypeOK
<1>2. PartsStored' = [PartsStored EXCEPT ![n] =
        [st |-> "live", wf |-> w, name |-> fields.name, agent |-> fields.agent]]
  <2> DEFINE part == [st |-> "live", wf |-> w, name |-> fields.name, agent |-> fields.agent]
  <2>1. PartsStored'[n] = part
    BY <1>1 DEF PartsStored, Born
  <2>2. \A m \in Nodes \ {n} : PartsStored'[m] = PartsStored[m]
    BY <1>1 DEF PartsStored
  <2>3. /\ PartsStored' = [m \in Nodes |-> PartsStored'[m]]
        /\ PartsStored = [m \in Nodes |-> PartsStored[m]]
    BY DEF PartsStored
  <2> HIDE DEF part
  <2>4. PartsStored' = [PartsStored EXCEPT ![n] = part]
    BY <2>1, <2>2, <2>3
  <2> QED
    BY <2>4 DEF part
<1>3. LinksStored' = LinksStored
  BY DEF LinksStored
<1> QED
  BY <1>2, <1>3, StoredRows DEF Store!Put

\* Nodes that go with exactly the edges that end at them are taken from it.
LEMMA DepartureTakes ==
  ASSUME TypeOK, NEW G \in SUBSET Nodes, NEW D \in SUBSET Tools,
         \A n \in Nodes : node'[n] = IF n \in G THEN NoNode("gone")
                                     ELSE IF n \in D THEN [node[n] EXCEPT !.agent = None]
                                     ELSE node[n],
         edge' = [e \in Edges |-> IF e \in Store!LinksAt(G) THEN NoEdge("gone") ELSE edge[e]]
  PROVE  Store!Take(G, D)
<1>1. \A n \in Nodes : node[n] \in AgentRows \cup ToolRows
  BY DEF TypeOK
<1>2. ASSUME NEW n \in Nodes
      PROVE  PartsStored'[n] = IF n \in G THEN Store!NoPart("gone")
                               ELSE IF n \in D THEN [PartsStored[n] EXCEPT !.agent = None]
                               ELSE PartsStored[n]
  <2>1. CASE n \in G
    <3>1. node'[n] = NoNode("gone")
      BY <2>1
    <3>2. /\ node'[n].st = "gone" /\ node'[n].wf = None
          /\ node'[n].name = None /\ node'[n].agent = None
      BY <3>1 DEF NoNode
    <3> QED
      BY <2>1, <3>2 DEF PartsStored, Store!NoPart
  <2>2. CASE n \notin G /\ n \in D
    <3>1. node'[n] = [node[n] EXCEPT !.agent = None]
      BY <2>2
    <3>2. /\ node'[n].st = node[n].st /\ node'[n].wf = node[n].wf
          /\ node'[n].name = node[n].name /\ node'[n].agent = None
      BY <1>1, <3>1 DEF AgentRows, ToolRows
    <3>3. PartsStored'[n] = [st |-> node[n].st, wf |-> node[n].wf, name |-> node[n].name,
                             agent |-> None]
      BY <3>2 DEF PartsStored
    <3>4. [PartsStored[n] EXCEPT !.agent = None] =
            [st |-> node[n].st, wf |-> node[n].wf, name |-> node[n].name, agent |-> None]
      BY DEF PartsStored
    <3> QED
      BY <2>2, <3>3, <3>4
  <2>3. CASE n \notin G /\ n \notin D
    BY <2>3 DEF PartsStored
  <2> QED
    BY <2>1, <2>2, <2>3
<1>3. PartsStored' = [n \in Store!Nodes |->
        IF n \in G THEN Store!NoPart("gone")
        ELSE IF n \in D THEN [PartsStored[n] EXCEPT !.agent = None]
        ELSE PartsStored[n]]
  BY <1>2 DEF PartsStored, Store!Nodes, Nodes
<1>4. LinksStored' = [e \in Edges |-> IF e \in Store!LinksAt(G) THEN Store!NoLink("gone")
                                      ELSE LinksStored[e]]
  BY DEF LinksStored, NoEdge, Store!NoLink
<1> QED
  BY <1>3, <1>4 DEF Store!Take

\* Rows whose workflow, name and agent stay are the same rows to the store.
LEMMA StoreUnchanged ==
  ASSUME \A w \in Workflows : workflow'[w].st = workflow[w].st,
         \A n \in Nodes : /\ node'[n].st = node[n].st /\ node'[n].wf = node[n].wf
                          /\ node'[n].name = node[n].name /\ node'[n].agent = node[n].agent,
         edge' = edge
  PROVE  UNCHANGED <<StagesStored, PartsStored, LinksStored>>
BY DEF StagesStored, PartsStored, LinksStored

LEMMA WorkflowInStore ==
  ASSUME TypesInv, ReferencesInside, WorkflowStep
  PROVE  Store!Next
<1> USE DEF TypesInv
<1>0. PICK w \in Workflows : \/ \E x \in Titles, a \in Agents : CreateWorkflow(w, x, a)
                             \/ DeleteWorkflow(w)
  BY DEF WorkflowStep
<1>1. ASSUME NEW x \in Titles, NEW a \in Agents, CreateWorkflow(w, x, a)
      PROVE  Store!CreateWorkflow(w, a)
  <2>1. StagesStored' = [StagesStored EXCEPT ![w] = "live"]
    BY <1>1 DEF CreateWorkflow, StagesStored, TypeOK
  <2>2. /\ node' = [node EXCEPT ![a] = Born(w, AgentFields(Start, TRUE))]
        /\ node[a].st = "fresh" /\ edge' = edge /\ a \in Nodes
    BY <1>1 DEF CreateWorkflow, InsertNode, Nodes
  <2>3. Store!Put(a, w, AgentFields(Start, TRUE).name, AgentFields(Start, TRUE).agent)
    BY <2>2, BirthPuts
  <2>4. Store!Put(a, w, Start, None)
    BY <2>3 DEF AgentFields
  <2> QED
    BY <1>1, <2>1, <2>4, StoredRows DEF CreateWorkflow, Store!CreateWorkflow
<1>2. ASSUME DeleteWorkflow(w)
      PROVE  Store!DeleteWorkflow(w)
  <2> DEFINE G == {n \in Nodes : NodeIn(n, w)}
  <2>1. StagesStored' = [StagesStored EXCEPT ![w] = "gone"]
    BY <1>2 DEF DeleteWorkflow, CascadeWorkflow, NoWorkflow, StagesStored, TypeOK
  <2>2. \A n \in Nodes : node'[n] = IF n \in G THEN NoNode("gone")
                                    ELSE IF n \in {} THEN [node[n] EXCEPT !.agent = None]
                                    ELSE node[n]
    BY <1>2 DEF DeleteWorkflow, CascadeWorkflow
  <2>3. \A e \in Edges : (e \in LiveEdges /\ edge[e].wf = w) <=> e \in Store!LinksAt(G)
    BY StoredTerms DEF ReferencesInside, EdgesHaveEnds, NodeIn, LiveEdges
  <2>4. edge' = [e \in Edges |-> IF e \in Store!LinksAt(G) THEN NoEdge("gone") ELSE edge[e]]
    BY <1>2, <2>3 DEF DeleteWorkflow, CascadeWorkflow
  <2>5. G \in SUBSET Nodes /\ {} \in SUBSET Tools
    OBVIOUS
  <2> HIDE DEF G
  <2>6. Store!Take(G, {})
    BY <2>2, <2>4, <2>5, DepartureTakes
  <2>7. Store!PartsOf(w) = G
    BY StoredTerms DEF G
  <2> QED
    BY <1>2, <2>1, <2>6, <2>7, StoredRows DEF DeleteWorkflow, Store!DeleteWorkflow
<1> QED
  BY <1>0, <1>1, <1>2 DEF Store!Next

\* The commit takes the agent, its late tools and the edges at them at once,
\* and lets go of the tools that were loaded.
LEMMA CommitInStore ==
  ASSUME TypesInv, LocksOK, NEW r \in Requests, CommitDeletion(r)
  PROVE  Store!DeleteAgent(req[r].agent)
<1> DEFINE a == req[r].agent
           T == LateTools(r)
           G == {a} \cup T
<1> USE DEF TypesInv
<1>1. /\ r \in Deleting /\ a \in Agents /\ a \in Nodes /\ node[a].st = "live"
      /\ req[r].tools \subseteq Tools
  BY DeletingTyped DEF CommitDeletion, Deleting, LocksOK
<1>2. /\ T \subseteq ToolsOf(a) /\ ToolsOf(a) \ T = req[r].tools
      /\ T \subseteq Nodes
  BY DEF LateTools, ToolsOf, CommitDeletion, DeletionHolds, Nodes
<1>3. \A n \in Nodes : node'[n] = IF n \in G THEN NoNode("gone")
                                  ELSE IF n \in req[r].tools THEN [node[n] EXCEPT !.agent = None]
                                  ELSE node[n]
  BY DEF CommitDeletion
<1>4. Store!LinksAt(G) = req[r].dropped
  <2>1. \A n \in G : EdgesAt(n) \subseteq req[r].dropped
    BY DEF CommitDeletion, DeletionHolds
  <2>2. req[r].dropped \subseteq EdgesAt(a)
    BY <1>1 DEF LocksOK
  <2>3. Store!LinksAt(G) = {e \in LiveEdges : edge[e].source \in G \/ edge[e].target \in G}
    BY StoredTerms
  <2> HIDE DEF T
  <2> QED
    BY <2>1, <2>2, <2>3 DEF EdgesAt
<1>5. edge' = [e \in Edges |-> IF e \in Store!LinksAt(G) THEN NoEdge("gone") ELSE edge[e]]
  BY <1>4 DEF CommitDeletion, RemoveEdges
<1>6. G \in SUBSET Nodes /\ req[r].tools \in SUBSET Tools
  BY <1>1, <1>2
<1> HIDE DEF G
<1>7. Store!Take(G, req[r].tools)
  BY <1>3, <1>5, <1>6, DepartureTakes
<1>8. StagesStored' = StagesStored
  BY DEF CommitDeletion, StagesStored
<1> HIDE DEF T
<1>9. /\ T \in SUBSET Store!ToolsOf(a)
      /\ Store!Take({a} \cup T, Store!ToolsOf(a) \ T)
  BY <1>2, <1>7, StoredTerms DEF G
<1>10. Store!Stored(a)
  BY <1>1, StoredTerms
<1> QED
  BY <1>8, <1>9, <1>10 DEF Store!DeleteAgent

LEMMA RequestInStore ==
  ASSUME TypesInv, ReferencesInside, LocksOK, NEW r \in Requests, RequestStep(r)
  PROVE  Store!Next \/ UNCHANGED <<StagesStored, PartsStored, LinksStored>>
<1> USE DEF TypesInv
<1>1. CASE UNCHANGED <<workflow, node, edge>>
  BY <1>1, StoreUnchanged
<1>2. ASSUME NEW a \in Agents, InsertAgent(r, a)
      PROVE  Store!CreateAgent(a, req[r].wf, req[r].name) /\ req[r].wf \in Workflows
             /\ req[r].name \in Names
  <2>1. req[r].wf \in Workflows /\ req[r].name \in Names
    BY <1>2 DEF InsertAgent, SlotsOK, SlotOK
  <2>2. /\ node' = [node EXCEPT ![a] = Born(req[r].wf, AgentFields(req[r].name, FALSE))]
        /\ node[a].st = "fresh" /\ edge' = edge /\ a \in Nodes
    BY <1>2 DEF InsertAgent, InsertNode, Nodes
  <2>3. Store!Put(a, req[r].wf, AgentFields(req[r].name, FALSE).name,
                  AgentFields(req[r].name, FALSE).agent)
    BY <2>2, BirthPuts
  <2>4. Store!Put(a, req[r].wf, req[r].name, None)
    BY <2>3 DEF AgentFields
  <2>5. StagesStored' = StagesStored
    BY <1>2 DEF InsertAgent, StagesStored
  <2> QED
    BY <1>2, <2>1, <2>4, <2>5, StoredRows, StoredTerms DEF InsertAgent, Store!CreateAgent
<1>3. ASSUME NEW a \in Agents, NEW x \in Names, NEW i \in BOOLEAN,
             SaveAgentConfig(r, a, x, i)
      PROVE  UNCHANGED <<StagesStored, PartsStored, LinksStored>>
  <2>1. \A n \in Nodes : Rewrites(n)
    BY <1>3, RewritesKeep
  <2>2. \A n \in Nodes : node'[n].name = node[n].name
    BY <1>3 DEF SaveAgentConfig, TypeOK, AgentRows, ToolRows, Nodes
  <2> QED
    BY <1>3, <2>1, <2>2, StoreUnchanged DEF SaveAgentConfig, Rewrites
<1>4. ASSUME WriteAgent(r)
      PROVE  Store!RenameAgent(req[r].agent, req[r].name) /\ req[r].agent \in Agents
             /\ req[r].name \in Names
  <2> DEFINE a == req[r].agent
  <2>1. a \in Agents /\ a \in Nodes /\ req[r].name \in Names
    BY <1>4 DEF WriteAgent, SlotsOK, SlotOK, Nodes
  <2>2. /\ node'[a].name = req[r].name
        /\ \A n \in Nodes \ {a} : node'[n] = node[n]
    BY <1>4, <2>1 DEF WriteAgent, TypeOK, AgentRows
  <2>3. Rewrites(a)
    BY <1>4, <2>1, RewritesKeep
  <2>4. PartsStored'[a] = [PartsStored[a] EXCEPT !.name = req[r].name]
    BY <2>1, <2>2, <2>3 DEF PartsStored, Rewrites
  <2>5. \A n \in Nodes \ {a} : PartsStored'[n] = PartsStored[n]
    BY <2>2 DEF PartsStored
  <2>6. /\ PartsStored' = [n \in Nodes |-> PartsStored'[n]]
        /\ PartsStored = [n \in Nodes |-> PartsStored[n]]
    BY DEF PartsStored
  <2>7. PartsStored' = [PartsStored EXCEPT ![a].name = req[r].name]
    BY <2>1, <2>4, <2>5, <2>6
  <2>8. UNCHANGED <<StagesStored, LinksStored>>
    BY <1>4 DEF WriteAgent, StagesStored, LinksStored
  <2>9. Store!Stored(a) /\ ~Store!Taken(req[r].name, PartsStored[a].wf, a)
    BY <1>4, <2>1, StoredRows, StoredTerms DEF WriteAgent
  <2> QED
    BY <2>1, <2>7, <2>8, <2>9 DEF Store!RenameAgent
<1>5. ASSUME CommitDeletion(r)
      PROVE  Store!DeleteAgent(req[r].agent) /\ req[r].agent \in Agents
  BY <1>5, CommitInStore DEF CommitDeletion, SlotsOK, SlotOK
<1> QED
  BY <1>1, <1>2, <1>3, <1>4, <1>5
     DEF RequestStep, CheckAgentName, InsertAgentRefused, WriteAgentRefused,
         DropAgentEdges, LoadAgentTools, AbortDeletion, Store!Next

LEMMA ToolInStore ==
  ASSUME TypesInv, ReferencesInside, ToolStep
  PROVE  Store!Next \/ UNCHANGED <<StagesStored, PartsStored, LinksStored>>
<1> USE DEF TypesInv
<1>1. ASSUME NEW t \in Tools, NEW a \in Agents, CreateTool(t, a)
      PROVE  Store!CreateTool(t, a)
  <2>1. /\ node' = [node EXCEPT ![t] = Born(node[a].wf, ToolFields(a))]
        /\ node[t].st = "fresh" /\ edge' = edge /\ t \in Nodes /\ a \in Nodes
    BY <1>1 DEF CreateTool, InsertNode, Nodes
  <2>2. Store!Put(t, node[a].wf, ToolFields(a).name, ToolFields(a).agent)
    BY <2>1, BirthPuts
  <2>3. Store!Put(t, PartsStored[a].wf, None, a)
    BY <2>1, <2>2, StoredRows DEF ToolFields
  <2>4. StagesStored' = StagesStored
    BY <1>1 DEF CreateTool, StagesStored
  <2> QED
    BY <1>1, <2>1, <2>3, <2>4, StoredTerms DEF CreateTool, Store!CreateTool
<1>2. ASSUME NEW t \in Tools, UpdateTool(t)
      PROVE  UNCHANGED <<StagesStored, PartsStored, LinksStored>>
  <2>1. \A n \in Nodes : Rewrites(n)
    BY <1>2, RewritesKeep
  <2>2. \A n \in Nodes : node'[n].name = node[n].name
    BY <1>2 DEF UpdateTool, TypeOK, AgentRows, ToolRows, Nodes
  <2> QED
    BY <1>2, <2>1, <2>2, StoreUnchanged DEF UpdateTool, Rewrites
<1>3. ASSUME NEW t \in Tools, DeleteTool(t)
      PROVE  Store!DeleteTool(t)
  <2>1. t \in Nodes /\ {t} \in SUBSET Nodes /\ {} \in SUBSET Tools
    BY DEF Nodes
  <2>2. \A n \in Nodes : node'[n] = IF n \in {t} THEN NoNode("gone")
                                    ELSE IF n \in {} THEN [node[n] EXCEPT !.agent = None]
                                    ELSE node[n]
    BY <1>3 DEF DeleteTool, TypeOK
  <2>3. Store!LinksAt({t}) = EdgesAt(t)
    BY StoredTerms DEF EdgesAt
  <2>4. edge' = [e \in Edges |-> IF e \in Store!LinksAt({t}) THEN NoEdge("gone") ELSE edge[e]]
    BY <1>3, <2>3 DEF DeleteTool, RemoveEdges
  <2>5. Store!Take({t}, {})
    BY <2>1, <2>2, <2>4, DepartureTakes
  <2>6. StagesStored' = StagesStored
    BY <1>3 DEF DeleteTool, StagesStored
  <2> QED
    BY <1>3, <2>1, <2>5, <2>6, StoredTerms DEF DeleteTool, Store!DeleteTool
<1> QED
  BY <1>1, <1>2, <1>3 DEF ToolStep, Store!Next

LEMMA EdgeInStore ==
  ASSUME TypesInv, ReferencesInside, EdgeStep
  PROVE  Store!Next
<1> USE DEF TypesInv
<1>0. Store!Nodes = Nodes
  BY DEF Store!Nodes, Nodes
<1>1. UNCHANGED <<StagesStored, PartsStored>>
  BY DEF EdgeStep, CreateEdge, UpdateEdge, DeleteEdge, StagesStored, PartsStored
<1>2. ASSUME NEW e \in Edges, NEW row, edge'[e] = row,
             \A f \in Edges \ {e} : edge'[f] = edge[f]
      PROVE  LinksStored' = [LinksStored EXCEPT ![e] =
               [st |-> row.st, source |-> row.source, target |-> row.target]]
  BY <1>2 DEF LinksStored
<1>3. \A m, n \in Nodes : \A w : NodeIn(m, w) /\ NodeIn(n, w) => Store!Together(m, n)
  BY StoredTerms, StoredRows DEF NodeIn, Store!Together
<1>4. ASSUME NEW e \in Edges, NEW s \in Nodes, NEW d \in Nodes, CreateEdge(e, s, d)
      PROVE  Store!CreateEdge(e, s, d)
  <2>1. /\ edge'[e] = [st |-> "live", wf |-> node[s].wf, source |-> s, target |-> d,
                       owned |-> TRUE]
        /\ \A f \in Edges \ {e} : edge'[f] = edge[f]
    BY <1>4 DEF CreateEdge, TypeOK
  <2>2. LinksStored' = [LinksStored EXCEPT ![e] = [st |-> "live", source |-> s, target |-> d]]
    BY <1>2, <2>1
  <2>3. Store!Together(s, d)
    BY <1>3, <1>4 DEF CreateEdge, NodeIn
  <2> QED
    BY <1>1, <1>4, <2>2, <2>3, StoredRows DEF CreateEdge, Store!CreateEdge
<1>5. ASSUME NEW e \in Edges, NEW s \in Nodes, NEW d \in Nodes, UpdateEdge(e, s, d)
      PROVE  Store!UpdateEdge(e, s, d)
  <2>1. /\ edge'[e].st = "live" /\ edge'[e].source = s /\ edge'[e].target = d
        /\ edge[e].st = "live"
    BY <1>5 DEF UpdateEdge, EdgeFound, TypeOK, EdgeRows
  <2>2. \A f \in Edges \ {e} : edge'[f] = edge[f]
    BY <1>5 DEF UpdateEdge, TypeOK
  <2>3. LinksStored' = [LinksStored EXCEPT ![e] = [st |-> "live", source |-> s, target |-> d]]
    BY <1>2, <2>1, <2>2
  <2>4. NodeIn(s, edge[e].wf) /\ NodeIn(d, edge[e].wf)
    BY <1>5 DEF UpdateEdge
  <2>5. edge[e].source \in Nodes /\ NodeIn(edge[e].source, edge[e].wf)
    BY <2>1 DEF ReferencesInside, EdgesHaveEnds
  <2>6. Store!Together(s, d) /\ Store!Together(s, LinksStored[e].source)
    BY <1>3, <2>4, <2>5, StoredRows
  <2> QED
    BY <1>1, <1>5, <2>1, <2>3, <2>6, StoredRows DEF UpdateEdge, Store!UpdateEdge
<1>6. ASSUME NEW e \in Edges, DeleteEdge(e)
      PROVE  Store!DeleteEdge(e)
  <2>1. edge'[e] = NoEdge("gone") /\ \A f \in Edges \ {e} : edge'[f] = edge[f]
    BY <1>6 DEF DeleteEdge, RemoveEdges
  <2>2. LinksStored' = [LinksStored EXCEPT ![e] = Store!NoLink("gone")]
    BY <1>2, <2>1 DEF NoEdge, Store!NoLink
  <2> QED
    BY <1>1, <1>6, <2>2, StoredRows DEF DeleteEdge, EdgeFound, Store!DeleteEdge
<1> QED
  BY <1>0, <1>4, <1>5, <1>6 DEF EdgeStep, Store!Next

\* However the statements of the requests interleave (AgentRepository.delete,
\* create and update in threads, tools, edges and positions on the event loop),
\* and wherever one is refused or cut off, each takes effect on the graph at
\* once or not at all; a deleted agent takes exactly the edges that end at it.
THEOREM StoreImplemented == Spec => StoreRefined
<1>1. Init => Store!Init
  BY DEF Init, Store!Init, StagesStored, PartsStored, LinksStored, NoWorkflow, NoNode,
         NoEdge, Store!NoPart, Store!NoLink, Store!Nodes, Nodes
<1>2. Init => DeletionsOK /\ LocksOK
  BY DEF Init, DeletionsOK, LocksOK, Deleting, Free
<1>3. ASSUME GraphInv, DeletionsOK, LocksOK, [Next]_vars
      PROVE  /\ DeletionsOK' /\ LocksOK'
             /\ [Store!Next]_<<StagesStored, PartsStored, LinksStored>>
  <2>0. TypesInv /\ ReferencesInside
    BY <1>3 DEF GraphInv
  <2>1. MoveStep => UNCHANGED <<StagesStored, PartsStored, LinksStored>>
    <3> SUFFICES ASSUME MoveStep
                 PROVE  UNCHANGED <<StagesStored, PartsStored, LinksStored>>
      OBVIOUS
    <3>1. \A n \in Nodes : Rewrites(n)
      BY <2>0, RewritesKeep DEF TypesInv
    <3>2. \A n \in Nodes : node'[n].name = node[n].name
      BY <2>0 DEF MoveStep, MovePositions, TypesInv, TypeOK, AgentRows, ToolRows, Nodes
    <3> QED
      BY <3>1, <3>2, StoreUnchanged DEF MoveStep, MovePositions, Rewrites
  <2>2. RestartApi \/ UNCHANGED vars
          => UNCHANGED <<StagesStored, PartsStored, LinksStored>>
    BY StoreUnchanged DEF RestartApi, vars
  <2>3. [Store!Next]_<<StagesStored, PartsStored, LinksStored>>
    BY <1>3, <2>0, <2>1, <2>2, WorkflowInStore, RequestInStore, ToolInStore, EdgeInStore
       DEF Next
  <2> QED
    BY <1>3, <2>0, <2>3, DeletionsStep, LocksStep
<1> QED
  BY <1>1, <1>2, <1>3, GraphInductive, PTL DEF Spec, StoreRefined, Store!Spec

=============================================================================
