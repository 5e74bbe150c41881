------------------------------ MODULE AgentCall -------------------------------
(***************************************************************************)
(* What the worker makes of a stored workflow when a call begins: the      *)
(* loader reads the tables one by one, each statement seeing what is       *)
(* committed by then, while the owner edits the graph (WorkflowGraph), and *)
(* the factory builds from what was read the agent the call starts with,   *)
(* the tools of each agent and the hand-offs between them.                 *)
(***************************************************************************)
EXTENDS WorkflowGraph

CONSTANT TenantKnown  \* whether TenantContext holds a tenant in the worker

ASSUME CallAssumption == TenantKnown \in BOOLEAN

VARIABLE call  \* one call: where its loader stands, what it read and built

callVars == <<workflow, node, edge, req, call>>

\* What a workflow holds that a call can come to use: the agents marked as
\* initial, the tools with their agents, the edges its tenant can see.
Snapshots ==
  [initials : SUBSET Agents, tools : SUBSET (Tools \X (Agents \cup {None})),
   links : SUBSET (Edges \X Nodes \X Nodes)]

Nothing == [initials |-> {}, tools |-> {}, links |-> {}]

CallStates ==
  [pc : {"idle", "agents", "configs", "positions", "tools", "edges", "build",
         "ready", "lost"},
   wf : Workflows \cup {None},
   agents : SUBSET Agents,      \* rows read
   configured : SUBSET Agents,  \* those whose config was still there
   placed : SUBSET Agents,      \* those whose position was still there
   read : Snapshots,
   start : Agents \cup {None},  \* None: the built-in default agent
   attached : SUBSET (Agents \X Tools),
   handoffs : SUBSET (Edges \X Agents \X Agents),
   steady : Snapshots,          \* history: stored throughout the load
   ever : Snapshots]            \* history: stored at some time of the load

NoCall == [pc |-> "idle", wf |-> None, agents |-> {}, configured |-> {},
           placed |-> {}, read |-> Nothing, start |-> None, attached |-> {},
           handoffs |-> {}, steady |-> Nothing, ever |-> Nothing]

CallInit == Init /\ call = NoCall

-----------------------------------------------------------------------------

AgentsOf(w) == {a \in Agents : NodeIn(a, w)}

InitialsOf(w) == {a \in AgentsOf(w) : node[a].initial}

ToolsIn(w) == {<<t, node[t].agent>> : t \in {x \in Tools : NodeIn(x, w)}}

\* get_all: the edges of the workflow that carry the tenant.
LinksIn(w) ==
  {<<e, edge[e].source, edge[e].target>> :
     e \in {x \in LiveEdges : edge[x].wf = w /\ edge[x].owned}}

Snapshot(w) ==
  [initials |-> InitialsOf(w), tools |-> ToolsIn(w), links |-> LinksIn(w)]

\* The first statement asks for the tenant and then for the workflow; without
\* either it raises, and the call is held by the default agent.
BeginCall(w) ==
  /\ call.pc = "idle"
  /\ workflow[w].st # "fresh"
  /\ call' = [NoCall EXCEPT
                !.pc = IF TenantKnown /\ workflow[w].st = "live" THEN "agents" ELSE "ready",
                !.wf = w, !.steady = Snapshot(w), !.ever = Snapshot(w)]

ReadAgentRows ==
  /\ call.pc = "agents"
  /\ call' = [call EXCEPT !.pc = "configs", !.agents = AgentsOf(call.wf),
                          !.read.initials = InitialsOf(call.wf)]

\* selectinload: one statement each for the configs and the positions of the
\* agents read before.
ReadAgentConfigs ==
  /\ call.pc = "configs"
  /\ call' = [call EXCEPT !.pc = "positions",
                          !.configured = call.agents \cap AgentsOf(call.wf)]

ReadAgentPositions ==
  /\ call.pc = "positions"
  /\ call' = [call EXCEPT !.pc = "tools",
                          !.placed = call.agents \cap AgentsOf(call.wf)]

ReadToolRows ==
  /\ call.pc = "tools"
  /\ call' = [call EXCEPT !.pc = "edges", !.read.tools = ToolsIn(call.wf)]

ReadEdgeRows ==
  /\ call.pc = "edges"
  /\ call' = [call EXCEPT !.pc = "build", !.read.links = LinksIn(call.wf)]

\* Slip: the hand-offs of an agent are looked up by the edges' targets.
SuccessorsReversed ==
  {<<l[1], l[3], l[2]>> :
     l \in {x \in call.read.links : {x[2], x[3]} \subseteq call.placed}}

\* successors: an edge whose ends are not both agents with a position that
\* was read is not a hand-off.
Successors == {l \in call.read.links : {l[2], l[3]} \subseteq call.placed}

\* A tool goes to the agent it names, if that was read.
Attached ==
  {p \in call.agents \X Tools : <<p[2], p[1]>> \in call.read.tools}

\* initial_agent: one of those marked, the query giving no order; without one
\* nothing is built and the default agent holds the call.
Starts == IF call.read.initials = {} THEN {None} ELSE call.read.initials

BuildGraph ==
  /\ call.pc = "build"
  /\ \E a \in Starts :
       call' = [call EXCEPT !.pc = "ready", !.start = a,
                  !.attached = IF a = None THEN {} ELSE Attached,
                  !.handoffs = IF a = None THEN {} ELSE Successors]

\* The database is lost in the middle: the default agent again.
LoadFails ==
  /\ call.pc \notin {"idle", "ready", "lost"}
  /\ call' = [call EXCEPT !.pc = "lost"]

EndCall ==
  /\ call.pc \in {"ready", "lost"}
  /\ call' = NoCall

CallStep ==
  \/ \E w \in Workflows : BeginCall(w)
  \/ ReadAgentRows \/ ReadAgentConfigs \/ ReadAgentPositions
  \/ ReadToolRows \/ ReadEdgeRows
  \/ BuildGraph \/ LoadFails \/ EndCall

Meet(a, b) == [f \in DOMAIN a |-> a[f] \cap b[f]]

Join(a, b) == [f \in DOMAIN a |-> a[f] \cup b[f]]

\* The owner edits; history follows while the load is under way.
EditStep ==
  /\ Next
  /\ IF call.pc \in {"idle", "ready", "lost"} THEN UNCHANGED call
     ELSE \E w \in Workflows :
            /\ w = call.wf
            /\ call' = [call EXCEPT !.steady = Meet(@, Snapshot(w)'),
                                    !.ever = Join(@, Snapshot(w)')]

CallNext == EditStep \/ (CallStep /\ UNCHANGED vars)

CallSpec == CallInit /\ [][CallNext]_callVars

-----------------------------------------------------------------------------
(* Properties.                                                              *)

\* The type of the call.
CallTypeOK == call \in CallStates

\* Read table by table under an editing owner, the graph the call runs on has
\* every hand-off and tool that was stored throughout the load, and none that
\* was not stored at some time of it.
LoadKeepsWhatStays ==
  call.pc = "ready" /\ call.start # None =>
    /\ {l \in call.steady.links : {l[2], l[3]} \subseteq Agents} \subseteq call.handoffs
    /\ call.handoffs \subseteq call.ever.links
    /\ {pair \in call.steady.tools : pair[2] # None}
         \subseteq {<<p[2], p[1]>> : p \in call.attached}
    /\ {<<p[2], p[1]>> : p \in call.attached} \subseteq call.ever.tools

-----------------------------------------------------------------------------
(* What the README says, and the code does not do: the worker knows no      *)
(* tenant, so its loads raise before they read anything.                    *)

\* A workflow that had an initial agent all the while is started with an
\* agent that was initial at some time of the load, and if it was that agent
\* all the while, with its own instructions: README, "The isInitial agent's
\* instructions, model, and temperature from the builder UI drive the session".
StartsWithInitial ==
  call.pc = "ready" /\ call.steady.initials # {} =>
    /\ call.start \in call.ever.initials
    /\ call.start \in call.steady.initials => call.start \in call.configured

=============================================================================
