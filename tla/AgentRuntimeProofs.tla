------------------------- MODULE AgentRuntimeProofs -------------------------
(***************************************************************************)
(* What a call runs on is what was stored while its workflow was read table*)
(* by table, for any graph and any edits in between; and where the arguments*)
(* of a tool call go, for any set of parameters.  The runs take one        *)
(* parameter, which the places treat by itself.                            *)
(***************************************************************************)
EXTENDS AgentCall, HttpTool, WorkflowGraphProofs

-----------------------------------------------------------------------------
(* A call: types.                                                           *)

Loading == {"agents", "configs", "positions", "tools", "edges", "build"}

SnapshotsTyped == \A w : Snapshot(w) \in Snapshots

LEMMA SnapshotTyped == GraphInv => SnapshotsTyped
<1> SUFFICES ASSUME TypesInv, ReferencesInside, NEW w PROVE Snapshot(w) \in Snapshots
  BY DEF SnapshotsTyped, GraphInv
<1>1. InitialsOf(w) \in SUBSET Agents
  BY DEF InitialsOf, AgentsOf
<1>2. \A t \in Tools : node[t].agent \in Agents \cup {None}
  BY DEF TypesInv, TypeOK, ToolRows
<1>3. ToolsIn(w) \in SUBSET (Tools \X (Agents \cup {None}))
  BY <1>2 DEF ToolsIn
<1>4. \A e \in LiveEdges : edge[e].source \in Nodes /\ edge[e].target \in Nodes
  BY DEF ReferencesInside, EdgesHaveEnds, LiveEdges
<1>5. LinksIn(w) \in SUBSET (Edges \X Nodes \X Nodes)
  BY <1>4 DEF LinksIn, LiveEdges
<1> QED
  BY <1>1, <1>3, <1>5 DEF Snapshot, Snapshots

LEMMA NothingTyped == NoCall \in CallStates
  BY DEF NoCall, CallStates, Nothing, Snapshots

\* What a loader that is under way can rely on: the workflow it reads.
CallTypes == CallTypeOK /\ (call.pc \in Loading => call.wf \in Workflows)

LEMMA CallStepTypes == GraphInv /\ CallTypes /\ CallStep => CallTypes'
<1> SUFFICES ASSUME GraphInv, CallTypes, CallStep PROVE CallTypes'
  OBVIOUS
<1>1. /\ call \in CallStates /\ NoCall \in CallStates
      /\ \A w : Snapshot(w) \in Snapshots
  BY SnapshotTyped, NothingTyped DEF CallTypes, CallTypeOK, GraphInv, SnapshotsTyped
<1>2. ASSUME NEW w \in Workflows, BeginCall(w) PROVE CallTypes'
  <2> DEFINE pc == IF TenantKnown /\ workflow[w].st = "live" THEN "agents" ELSE "ready"
  <2>1. /\ call' = [NoCall EXCEPT !.pc = pc, !.wf = w, !.steady = Snapshot(w),
                                  !.ever = Snapshot(w)]
        /\ pc \in {"agents", "ready"}
    BY <1>2 DEF BeginCall
  <2> HIDE DEF pc
  <2> QED
    BY <1>1, <2>1 DEF CallTypes, CallTypeOK, CallStates, NoCall
<1>3. CASE ReadAgentRows
  <2>1. InitialsOf(call.wf) \subseteq Agents /\ AgentsOf(call.wf) \subseteq Agents
    BY DEF InitialsOf, AgentsOf
  <2> QED
    BY <1>1, <1>3, <2>1 DEF ReadAgentRows, CallTypes, CallTypeOK, CallStates, Snapshots, Loading
<1>4. CASE ReadAgentConfigs \/ ReadAgentPositions
  <2>1. call.agents \cap AgentsOf(call.wf) \in SUBSET Agents
    BY DEF AgentsOf
  <2>2. CASE ReadAgentConfigs
    BY <1>1, <2>1, <2>2 DEF ReadAgentConfigs, CallTypes, CallTypeOK, CallStates, Loading
  <2>3. CASE ReadAgentPositions
    BY <1>1, <2>1, <2>3 DEF ReadAgentPositions, CallTypes, CallTypeOK, CallStates, Loading
  <2> QED
    BY <1>4, <2>2, <2>3
<1>5. CASE ReadToolRows \/ ReadEdgeRows
  <2>1. /\ ToolsIn(call.wf) \in SUBSET (Tools \X (Agents \cup {None}))
        /\ LinksIn(call.wf) \in SUBSET (Edges \X Nodes \X Nodes)
    BY <1>1 DEF Snapshot, Snapshots
  <2>2. CASE ReadToolRows
    <3>1. [call.read EXCEPT !.tools = ToolsIn(call.wf)] \in Snapshots
      BY <1>1, <2>1 DEF CallStates, Snapshots
    <3> QED
      BY <1>1, <2>2, <3>1 DEF ReadToolRows, CallTypes, CallTypeOK, CallStates, Loading
  <2>3. CASE ReadEdgeRows
    <3>1. [call.read EXCEPT !.links = LinksIn(call.wf)] \in Snapshots
      BY <1>1, <2>1 DEF CallStates, Snapshots
    <3> QED
      BY <1>1, <2>3, <3>1 DEF ReadEdgeRows, CallTypes, CallTypeOK, CallStates, Loading
  <2> QED
    BY <1>5, <2>2, <2>3
<1>6. CASE BuildGraph
  <2>1. PICK a \in Starts :
          call' = [call EXCEPT !.pc = "ready", !.start = a,
                     !.attached = IF a = None THEN {} ELSE Attached,
                     !.handoffs = IF a = None THEN {} ELSE Successors]
    BY <1>6 DEF BuildGraph
  <2>2. a \in Agents \cup {None}
    BY <1>1, <2>1 DEF Starts, CallStates, Snapshots
  <2>3. Attached \in SUBSET (Agents \X Tools)
    BY <1>1 DEF Attached, CallStates
  <2>4. Successors \in SUBSET (Edges \X Agents \X Agents)
    <3> SUFFICES ASSUME NEW l \in Successors PROVE l \in Edges \X Agents \X Agents
      OBVIOUS
    <3>1. l \in Edges \X Nodes \X Nodes /\ l[2] \in Agents /\ l[3] \in Agents
      BY <1>1 DEF Successors, CallStates, Snapshots
    <3> QED
      BY <3>1
  <2>5. /\ (IF a = None THEN {} ELSE Attached) \in SUBSET (Agents \X Tools)
        /\ (IF a = None THEN {} ELSE Successors) \in SUBSET (Edges \X Agents \X Agents)
    BY <2>3, <2>4
  <2> QED
    BY <1>1, <2>1, <2>2, <2>5 DEF CallTypes, CallTypeOK, CallStates, Loading
<1>7. CASE LoadFails \/ EndCall
  BY <1>1, <1>7 DEF LoadFails, EndCall, CallTypes, CallTypeOK, CallStates, Loading, NoCall
<1> QED
  BY <1>2, <1>3, <1>4, <1>5, <1>6, <1>7 DEF CallStep

\* What is known of a load does not change while the graph is edited, but for
\* its history: what was always stored becomes less, what ever was, more.
Aged(c, d) ==
  /\ \A f \in {"pc", "wf", "agents", "configured", "placed", "read", "start",
               "attached", "handoffs"} : d[f] = c[f]
  /\ \A f \in {"initials", "tools", "links"} :
       d.steady[f] \subseteq c.steady[f] /\ c.ever[f] \subseteq d.ever[f]

LEMMA EditAges ==
  ASSUME GraphInv, CallTypes, EditStep
  PROVE  /\ GraphInv' /\ CallTypes' /\ Aged(call, call')
         /\ call.pc \notin Loading => call' = call
         /\ call.pc \in Loading => \E w \in Workflows :
              /\ w = call.wf
              /\ \A f \in {"initials", "tools", "links"} :
                   /\ call'.steady[f] = call.steady[f] \cap Snapshot(w)'[f]
                   /\ call'.ever[f] = call.ever[f] \cup Snapshot(w)'[f]
<1>1. GraphInv'
  BY GraphInductive DEF EditStep
<1>2. CASE call.pc \notin Loading
  <2>1. call' = call
    BY <1>2 DEF EditStep, CallTypes, CallTypeOK, CallStates, Loading
  <2> QED
    BY <1>1, <1>2, <2>1 DEF CallTypes, CallTypeOK, Aged
<1>3. CASE call.pc \in Loading
  <2>1. PICK w \in Workflows :
          /\ w = call.wf
          /\ call' = [call EXCEPT !.steady = Meet(@, Snapshot(w)'),
                                  !.ever = Join(@, Snapshot(w)')]
    BY <1>3 DEF EditStep, Loading
  <2>2. GraphInv' => SnapshotsTyped'
    BY SnapshotTyped, PTL
  <2> DEFINE now == Snapshot(w)'
  <2>3. now \in Snapshots
    BY <1>1, <2>2 DEF SnapshotsTyped
  <2> HIDE DEF now
  <2>4. call \in CallStates
    BY DEF CallTypes, CallTypeOK
  <2>5. /\ Meet(call.steady, now) \in Snapshots /\ Join(call.ever, now) \in Snapshots
        /\ \A f \in {"initials", "tools", "links"} :
             /\ Meet(call.steady, now)[f] = call.steady[f] \cap now[f]
             /\ Join(call.ever, now)[f] = call.ever[f] \cup now[f]
    BY <2>3, <2>4 DEF Meet, Join, Snapshots, CallStates
  <2>6. call' = [call EXCEPT !.steady = Meet(@, now), !.ever = Join(@, now)]
    BY <2>1 DEF now
  <2>7. /\ call' \in CallStates
        /\ call'.steady = Meet(call.steady, now) /\ call'.ever = Join(call.ever, now)
        /\ \A f \in {"pc", "wf", "agents", "configured", "placed", "read", "start",
                     "attached", "handoffs"} : call'[f] = call[f]
    BY <2>4, <2>5, <2>6 DEF CallStates
  <2> QED
    BY <1>1, <1>3, <2>1, <2>5, <2>7 DEF CallTypes, CallTypeOK, Aged, now
<1> QED
  BY <1>2, <1>3

LEMMA CallTypesInductive ==
  /\ CallInit => GraphInv /\ CallTypes
  /\ GraphInv /\ CallTypes /\ [CallNext]_callVars => GraphInv' /\ CallTypes'
<1>1. CallInit => GraphInv /\ CallTypes
  BY GraphInductive, NothingTyped DEF CallInit, CallTypes, CallTypeOK, NoCall, Loading
<1>2. ASSUME GraphInv, CallTypes, [CallNext]_callVars PROVE GraphInv' /\ CallTypes'
  <2>1. CASE EditStep
    BY <1>2, <2>1, EditAges
  <2>2. CASE CallStep /\ UNCHANGED vars
    BY <1>2, <2>2, GraphInductive, CallStepTypes
  <2>3. CASE UNCHANGED callVars
    BY <1>2, <2>3, GraphInductive DEF callVars, vars, CallTypes, CallTypeOK
  <2> QED
    BY <1>2, <2>1, <2>2, <2>3 DEF CallNext
<1> QED
  BY <1>1, <1>2

\* A call keeps its type, whatever the owner does to the graph it reads.
THEOREM CallTypesHold == CallSpec => []CallTypeOK
<1>1. GraphInv /\ CallTypes => CallTypeOK
  BY DEF CallTypes
<1> QED
  BY <1>1, CallTypesInductive, PTL DEF CallSpec

-----------------------------------------------------------------------------
(* Each table is read whole at a moment of the load, so what it gave lies   *)
(* between what was stored all the while and what was stored at some time;  *)
(* and a reference that was stored all the while leads to an agent that was *)
(* there at every statement before.                                         *)

AgentsRead == {"configs", "positions", "tools", "edges", "build"}

Between(c, f) == c.steady[f] \subseteq c.read[f] /\ c.read[f] \subseteq c.ever[f]

\* The agents that the edges and tools stored all the while refer to.
LinksAmong(c, S) == \A l \in c.steady.links : {l[2], l[3]} \cap Agents \subseteq S

ToolsAmong(c, S) == \A p \in c.steady.tools : p[2] # None => p[2] \in S

GraphIsWhole(c) ==
  /\ {l \in c.steady.links : {l[2], l[3]} \subseteq Agents} \subseteq c.handoffs
  /\ c.handoffs \subseteq c.ever.links
  /\ {pair \in c.steady.tools : pair[2] # None}
       \subseteq {<<p[2], p[1]>> : p \in c.attached}
  /\ {<<p[2], p[1]>> : p \in c.attached} \subseteq c.ever.tools

Sound(c) ==
  /\ c.pc \in AgentsRead => LinksAmong(c, c.agents) /\ ToolsAmong(c, c.agents)
  /\ c.pc \in {"tools", "edges", "build"} => LinksAmong(c, c.placed)
  /\ c.pc \in {"edges", "build"} => Between(c, "tools")
  /\ c.pc = "build" => Between(c, "links")
  /\ c.pc = "ready" /\ c.start # None => GraphIsWhole(c)

\* What is stored now belongs to the history of the load.
Recorded ==
  call.pc \in Loading =>
    \A f \in {"initials", "tools", "links"} :
      /\ call.steady[f] \subseteq Snapshot(call.wf)[f]
      /\ Snapshot(call.wf)[f] \subseteq call.ever[f]

CallInv == GraphInv /\ CallTypes /\ Recorded /\ Sound(call)

LEMMA StoredAgents ==
  ASSUME GraphInv, NEW w
  PROVE  /\ InitialsOf(w) \subseteq AgentsOf(w)
         /\ \A l \in LinksIn(w) : {l[2], l[3]} \cap Agents \subseteq AgentsOf(w)
         /\ \A p \in ToolsIn(w) : p[2] # None => p[2] \in AgentsOf(w)
<1>1. \A e \in LiveEdges : edge[e].wf = w =>
        NodeIn(edge[e].source, w) /\ NodeIn(edge[e].target, w)
  BY DEF GraphInv, ReferencesInside, EdgesHaveEnds, LiveEdges
<1>2. \A l \in LinksIn(w) : {l[2], l[3]} \cap Agents \subseteq AgentsOf(w)
  BY <1>1 DEF LinksIn, AgentsOf
<1>3. \A t \in Tools : NodeIn(t, w) /\ node[t].agent # None =>
        node[t].agent \in AgentsOf(w)
  BY DEF GraphInv, TypesInv, TypeOK, ToolRows, ReferencesInside, ToolsNextToAgent, NodeIn,
     AgentsOf
<1> QED
  BY <1>2, <1>3 DEF InitialsOf, ToolsIn

\* Editing the graph leaves a load sound: its history only grows apart.
LEMMA EditKeeps == CallInv /\ EditStep => CallInv'
<1> SUFFICES ASSUME CallInv, EditStep PROVE Recorded' /\ Sound(call')
  BY EditAges DEF CallInv
<1>1. CASE call.pc \notin Loading
  BY <1>1, EditAges DEF CallInv, Recorded
<1>2. CASE call.pc \in Loading
  <2>1. /\ Aged(call, call') /\ call'.pc = call.pc /\ call'.wf = call.wf
        /\ call.pc # "ready"
    BY <1>2, EditAges DEF CallInv, Aged, Loading
  <2>2. PICK w \in Workflows :
          /\ w = call.wf
          /\ \A f \in {"initials", "tools", "links"} :
               /\ call'.steady[f] = call.steady[f] \cap Snapshot(w)'[f]
               /\ call'.ever[f] = call.ever[f] \cup Snapshot(w)'[f]
    BY <1>2, EditAges DEF CallInv
  <2>3. Recorded'
    BY <2>1, <2>2 DEF Recorded
  <2>4. Sound(call')
    BY <2>1 DEF CallInv, Sound, Aged, Between, LinksAmong, ToolsAmong
  <2> QED
    BY <2>3, <2>4
<1> QED
  BY <1>1, <1>2

\* Each statement of the loader finds what it needs between its two histories.
LEMMA LoadStep == CallInv /\ CallStep /\ UNCHANGED vars => CallInv'
<1> SUFFICES ASSUME CallInv, CallStep, UNCHANGED vars PROVE Recorded' /\ Sound(call')
  BY CallStepTypes, GraphInductive DEF CallInv
<1> DEFINE w == call.wf
<1>1. /\ call \in CallStates /\ Sound(call) /\ GraphInv
      /\ \A v : Snapshot(v)' = Snapshot(v)
  BY DEF CallInv, CallTypes, CallTypeOK, vars, Snapshot, InitialsOf, AgentsOf, ToolsIn,
     LinksIn, LiveEdges, NodeIn
<1>2. /\ InitialsOf(w) \subseteq AgentsOf(w)
      /\ \A l \in LinksIn(w) : {l[2], l[3]} \cap Agents \subseteq AgentsOf(w)
      /\ \A p \in ToolsIn(w) : p[2] # None => p[2] \in AgentsOf(w)
  BY <1>1, StoredAgents
<1>3. call.pc \in Loading =>
        /\ call.steady.initials \subseteq InitialsOf(w)
        /\ InitialsOf(w) \subseteq call.ever.initials
        /\ call.steady.tools \subseteq ToolsIn(w) /\ ToolsIn(w) \subseteq call.ever.tools
        /\ call.steady.links \subseteq LinksIn(w) /\ LinksIn(w) \subseteq call.ever.links
        /\ LinksAmong(call, AgentsOf(w))
        /\ ToolsAmong(call, AgentsOf(w))
  BY <1>2 DEF CallInv, Recorded, Snapshot, LinksAmong, ToolsAmong
<1> HIDE DEF w
<1>4. ASSUME call'.wf = call.wf, call'.steady = call.steady, call'.ever = call.ever,
             call.pc \in Loading
      PROVE  Recorded'
  BY <1>1, <1>4 DEF CallInv, Recorded
<1>5. ASSUME NEW v \in Workflows, BeginCall(v) PROVE Recorded' /\ Sound(call')
  <2> DEFINE pc == IF TenantKnown /\ workflow[v].st = "live" THEN "agents" ELSE "ready"
  <2>1. call' = [NoCall EXCEPT !.pc = pc, !.wf = v, !.steady = Snapshot(v),
                               !.ever = Snapshot(v)]
    BY <1>5 DEF BeginCall
  <2>2. pc \in {"agents", "ready"}
    OBVIOUS
  <2> HIDE DEF pc
  <2>3. /\ call'.pc = pc /\ call'.wf = v /\ call'.start = None
        /\ call'.steady = Snapshot(v) /\ call'.ever = Snapshot(v)
    BY <2>1 DEF NoCall
  <2>4. Recorded'
    BY <1>1, <2>3 DEF Recorded
  <2>5. Sound(call')
    BY <2>2, <2>3 DEF Sound, AgentsRead
  <2> QED
    BY <2>4, <2>5
<1>6. CASE ReadAgentRows
  <2>1. /\ call.pc = "agents" /\ call'.pc = "configs" /\ call'.wf = call.wf
        /\ call'.steady = call.steady /\ call'.ever = call.ever
        /\ call'.agents = AgentsOf(w) /\ call'.read.initials = InitialsOf(w)
    BY <1>1, <1>6 DEF ReadAgentRows, CallStates, Snapshots, w
  <2> QED
    BY <1>3, <1>4, <2>1 DEF Sound, AgentsRead, Loading, Between, LinksAmong,
       ToolsAmong
<1>7. CASE ReadAgentConfigs
  <2>1. /\ call.pc = "configs" /\ call'.pc = "positions" /\ call'.wf = call.wf
        /\ call'.steady = call.steady /\ call'.ever = call.ever /\ call'.read = call.read
        /\ call'.agents = call.agents /\ call'.configured = call.agents \cap AgentsOf(w)
    BY <1>1, <1>7 DEF ReadAgentConfigs, CallStates, w
  <2> QED
    BY <1>1, <1>3, <1>4, <2>1 DEF Sound, AgentsRead, Loading, Between, LinksAmong, ToolsAmong
<1>8. CASE ReadAgentPositions
  <2>1. /\ call.pc = "positions" /\ call'.pc = "tools" /\ call'.wf = call.wf
        /\ call'.steady = call.steady /\ call'.ever = call.ever /\ call'.read = call.read
        /\ call'.agents = call.agents /\ call'.configured = call.configured
        /\ call'.placed = call.agents \cap AgentsOf(w)
    BY <1>1, <1>8 DEF ReadAgentPositions, CallStates, w
  <2> QED
    BY <1>1, <1>3, <1>4, <2>1 DEF Sound, AgentsRead, Loading, Between, LinksAmong, ToolsAmong
<1>9. CASE ReadToolRows
  <2>1. /\ call.pc = "tools" /\ call'.pc = "edges" /\ call'.wf = call.wf
        /\ call'.steady = call.steady /\ call'.ever = call.ever
        /\ call'.read.initials = call.read.initials /\ call'.read.tools = ToolsIn(w)
        /\ call'.agents = call.agents /\ call'.configured = call.configured
        /\ call'.placed = call.placed
    BY <1>1, <1>9 DEF ReadToolRows, CallStates, Snapshots, w
  <2> QED
    BY <1>1, <1>3, <1>4, <2>1 DEF Sound, AgentsRead, Loading, Between, LinksAmong, ToolsAmong
<1>10. CASE ReadEdgeRows
  <2>1. /\ call.pc = "edges" /\ call'.pc = "build" /\ call'.wf = call.wf
        /\ call'.steady = call.steady /\ call'.ever = call.ever
        /\ call'.read.initials = call.read.initials /\ call'.read.tools = call.read.tools
        /\ call'.read.links = LinksIn(w)
        /\ call'.agents = call.agents /\ call'.configured = call.configured
        /\ call'.placed = call.placed
    BY <1>1, <1>10 DEF ReadEdgeRows, CallStates, Snapshots, w
  <2> QED
    BY <1>1, <1>3, <1>4, <2>1 DEF Sound, AgentsRead, Loading, Between, LinksAmong, ToolsAmong
<1>11. CASE BuildGraph
  <2>1. PICK a \in Starts :
          call' = [call EXCEPT !.pc = "ready", !.start = a,
                     !.attached = IF a = None THEN {} ELSE Attached,
                     !.handoffs = IF a = None THEN {} ELSE Successors]
    BY <1>11 DEF BuildGraph
  <2>2. /\ call.pc = "build" /\ call'.pc = "ready" /\ call'.start = a
        /\ call'.steady = call.steady /\ call'.ever = call.ever
        /\ call'.configured = call.configured
        /\ a # None => call'.attached = Attached /\ call'.handoffs = Successors
    BY <1>1, <1>11, <2>1 DEF BuildGraph, CallStates
  <2>3. /\ Between(call, "tools") /\ Between(call, "links")
        /\ LinksAmong(call, call.placed) /\ ToolsAmong(call, call.agents)
    BY <1>1, <2>2 DEF Sound, AgentsRead
  <2>4. {l \in call.steady.links : {l[2], l[3]} \subseteq Agents} \subseteq Successors
    BY <2>3 DEF Successors, Between, LinksAmong
  <2>5. Successors \subseteq call.ever.links
    BY <2>3 DEF Successors, Between
  <2>6. \A pair \in call.read.tools :
          pair[1] \in Tools /\ pair[2] \in Agents \cup {None} /\ pair = <<pair[1], pair[2]>>
    BY <1>1 DEF CallStates, Snapshots
  <2>7. ASSUME NEW pair \in call.steady.tools, pair[2] # None
        PROVE  pair \in {<<p[2], p[1]>> : p \in Attached}
    <3>1. pair \in call.read.tools /\ pair[2] \in call.agents
      BY <2>3, <2>7 DEF Between, ToolsAmong
    <3>2. <<pair[2], pair[1]>> \in Attached
      BY <2>6, <3>1 DEF Attached
    <3> QED
      BY <2>6, <3>1, <3>2
  <2>8. {<<p[2], p[1]>> : p \in Attached} \subseteq call.ever.tools
    BY <2>3 DEF Attached, Between
  <2>9. call'.start # None => GraphIsWhole(call')
    BY <2>2, <2>4, <2>5, <2>7, <2>8 DEF GraphIsWhole
  <2> QED
    BY <2>2, <2>9 DEF Recorded, Sound, Loading, AgentsRead
<1>12. CASE LoadFails \/ EndCall
  <2>1. call'.pc \in {"lost", "idle"}
    BY <1>1, <1>12 DEF LoadFails, EndCall, CallStates, NoCall
  <2> QED
    BY <2>1 DEF Recorded, Sound, Loading, AgentsRead
<1> QED
  BY <1>5, <1>6, <1>7, <1>8, <1>9, <1>10, <1>11, <1>12 DEF CallStep

LEMMA CallInductive ==
  /\ CallInit => CallInv
  /\ CallInv /\ [CallNext]_callVars => CallInv'
<1>1. CallInit => CallInv
  BY CallTypesInductive DEF CallInit, CallInv, Recorded, Sound, NoCall, Loading, AgentsRead
<1>2. CallInv /\ UNCHANGED callVars => CallInv'
  BY CallTypesInductive DEF CallInv, callVars, vars, Recorded, Snapshot, InitialsOf,
     AgentsOf, ToolsIn, LinksIn, LiveEdges, NodeIn
<1> QED
  BY <1>1, <1>2, EditKeeps, LoadStep DEF CallNext

\* The graph a call runs on has every hand-off and tool that was stored
\* throughout its load, and none that was not stored at some time of it.
THEOREM LoadsKeepWhatStays == CallSpec => []LoadKeepsWhatStays
<1>1. CallInv => LoadKeepsWhatStays
  BY DEF CallInv, Sound, GraphIsWhole, LoadKeepsWhatStays
<1> QED
  BY <1>1, CallInductive, PTL DEF CallSpec

-----------------------------------------------------------------------------
(* A tool: types.                                                           *)

LEMMA PlacesTyped ==
  ASSUME ToolTypeOK, NEW args \in SUBSET Params
  PROVE  /\ InPath(args) \in [Params -> Origins]
         /\ InQuery(args) \in [Params -> Origins]
         /\ InBody(args) \in [Params -> Origins]
<1>1. \A p \in Places : Collect(p, args) \in [Params -> Origins]
  BY DEF Collect, Origins
<1>2. InPath(args) \in [Params -> Origins]
  BY DEF InPath, Origins
<1>3. InQuery(args) \in [Params -> Origins]
  BY <1>1 DEF InQuery, Origins, Places
<1>4. InBody(args) \in [Params -> Origins]
  BY <1>1 DEF InBody, Origins, Places
<1> QED
  BY <1>2, <1>3, <1>4

\* The request Send makes.
Made(args) ==
  [pc |-> "sent", args |-> args,
   at |-> [p \in Places |-> CASE p = "path" -> InPath(args)
                              [] p = "query" -> InQuery(args)
                              [] p = "body" -> InBody(args)]]

LEMMA MadeFields ==
  ASSUME NEW args
  PROVE  /\ Made(args).pc = "sent" /\ Made(args).args = args
         /\ Made(args).at["path"] = InPath(args)
         /\ Made(args).at["query"] = InQuery(args)
         /\ Made(args).at["body"] = InBody(args)
  BY DEF Made, Places

LEMMA MadeTyped ==
  ASSUME ToolTypeOK, NEW args \in SUBSET Params
  PROVE  Made(args) \in HttpRequests
<1>1. \A p \in Places : p = "path" \/ p = "query" \/ p = "body"
  BY DEF Places
<1>2. Made(args).at \in [Places -> [Params -> Origins]]
  BY <1>1, PlacesTyped DEF Made
<1> QED
  BY <1>2 DEF Made, HttpRequests

LEMMA UnsentTyped == Unsent \in HttpRequests
  BY DEF Unsent, HttpRequests, Origins

\* Every variable keeps its type.
THEOREM ToolTypesHold == ToolSpec => []ToolTypeOK
<1>1. ToolInit => ToolTypeOK
  <2> SUFFICES ASSUME ToolInit PROVE ToolTypeOK
    OBVIOUS
  <2>1. tool \in ToolConfigs
    BY DEF ToolInit, ToolConfigs, NoParams, Declarations
  <2> QED
    BY <2>1, UnsentTyped DEF ToolInit, ToolTypeOK
<1>2. ToolTypeOK /\ [ToolNext]_toolVars => ToolTypeOK'
  <2> SUFFICES ASSUME ToolTypeOK, [ToolNext]_toolVars PROVE ToolTypeOK'
    OBVIOUS
  <2>1. tool \in ToolConfigs
    BY DEF ToolTypeOK
  <2>2. ASSUME NEW config \in ToolConfigs, Edit(config) PROVE ToolTypeOK'
    BY <2>2 DEF Edit, ToolTypeOK
  <2>3. CASE UNCHANGED toolVars
    BY <2>3 DEF toolVars, ToolTypeOK
  <2>4. ASSUME NEW m \in Methods, SetMethod(m) PROVE ToolTypeOK'
    <3>1. [tool EXCEPT !.method = m, !.switched = @ \/ m # tool.method] \in ToolConfigs
      BY <2>1 DEF ToolConfigs
    <3> QED
      BY <2>2, <2>4, <3>1 DEF SetMethod
  <2>5. ASSUME NEW b \in BOOLEAN, SetBaseUrl(b) \/ Rename(b) PROVE ToolTypeOK'
    <3>1. /\ [tool EXCEPT !.baseUrl = b] \in ToolConfigs
          /\ [tool EXCEPT !.known = b] \in ToolConfigs
      BY <2>1 DEF ToolConfigs
    <3> QED
      BY <2>2, <2>5, <3>1 DEF SetBaseUrl, Rename
  <2>6. ASSUME NEW S \in SUBSET Params, SetPath(S) \/ SetBody(S) PROVE ToolTypeOK'
    <3>1. /\ [tool EXCEPT !.path = S] \in ToolConfigs
          /\ [tool EXCEPT !.body = S] \in ToolConfigs
      BY <2>1 DEF ToolConfigs
    <3> QED
      BY <2>2, <2>6, <3>1 DEF SetPath, SetBody
  <2>7. ASSUME NEW p \in Places, NEW d \in [Params -> Declarations], SetParams(p, d)
        PROVE  ToolTypeOK'
    <3>1. [tool EXCEPT !.params[p] = d, !.switched = @ /\ p # "body"] \in ToolConfigs
      BY <2>1 DEF ToolConfigs
    <3> QED
      BY <2>2, <2>7, <3>1 DEF SetParams
  <2>8. ASSUME NEW S \in SUBSET Params, Send(S) PROVE ToolTypeOK'
    <3>1. request' = Made(S)
      BY <2>8 DEF Send, Made
    <3> QED
      BY <2>8, <3>1, MadeTyped DEF Send, ToolTypeOK
  <2>9. ASSUME NEW text \in {"text", "error", "failed", "unreached", "mock", "misconfigured"},
               Tell(text)
        PROVE  ToolTypeOK'
    BY <2>9, UnsentTyped DEF Tell, ToolTypeOK
  <2> QED
    BY <2>3, <2>4, <2>5, <2>6, <2>7, <2>8, <2>9
       DEF ToolNext, CallHandler, Mock, Misconfigured, Answer, NoAnswer
<1> QED
  BY <1>1, <1>2, PTL DEF ToolSpec

-----------------------------------------------------------------------------
(* Where arguments go.                                                      *)

\* The request in flight was made of the config that is stored: nothing edits
\* a tool between its request and the answer.
RequestMade == request.pc = "sent" => request = Made(request.args)

LEMMA RequestMadeStep == RequestMade /\ [ToolNext]_toolVars => RequestMade'
<1> SUFFICES ASSUME RequestMade, [ToolNext]_toolVars PROVE RequestMade'
  OBVIOUS
<1>1. ASSUME tool' = tool, request' = request PROVE RequestMade'
  <2>1. ASSUME NEW S PROVE Made(S)' = Made(S)
    BY <1>1 DEF Made, InPath, InQuery, InBody, Collect, Leftover, Declared
  <2>2. Made(request.args)' = Made(request.args)
    BY <1>1, <2>1
  <2> QED
    BY <1>1, <2>2 DEF RequestMade
<1>2. ASSUME request'.pc = "idle" PROVE RequestMade'
  BY <1>2 DEF RequestMade
<1>3. ASSUME NEW S \in SUBSET Params, Send(S) PROVE RequestMade'
  <2>1. request' = Made(S) /\ tool' = tool
    BY <1>3 DEF Send, Made
  <2>2. Made(S)' = Made(S)
    BY <2>1 DEF Made, InPath, InQuery, InBody, Collect, Leftover, Declared
  <2>3. request'.args = S
    BY <2>1, MadeFields
  <2> QED
    BY <2>1, <2>2, <2>3 DEF RequestMade
<1>4. ASSUME NEW text, Tell(text) PROVE RequestMade'
  BY <1>2, <1>4 DEF Tell, Unsent
<1>5. ASSUME NEW config, Edit(config) PROVE RequestMade'
  BY <1>2, <1>5 DEF Edit
<1> QED
  BY <1>1, <1>3, <1>4, <1>5
     DEF ToolNext, toolVars, CallHandler, Mock, Misconfigured, Answer, NoAnswer,
         SetMethod, SetBaseUrl, Rename, SetPath, SetBody, SetParams

LEMMA RequestsMade == ToolSpec => []RequestMade
<1>1. ToolInit => RequestMade
  BY DEF ToolInit, RequestMade, Unsent
<1> QED
  BY <1>1, RequestMadeStep, PTL DEF ToolSpec

\* An argument the model gives goes to every place that declares it and that
\* the request has; one that nothing declares goes to exactly one place.
THEOREM EveryArgumentTravels == ToolSpec => []ArgumentsTravel
<1>1. ToolTypeOK /\ RequestMade => ArgumentsTravel
  <2> SUFFICES ASSUME ToolTypeOK, RequestMade, request.pc = "sent",
                      NEW n \in request.args
               PROVE  IF \E p \in Places : Declared(p, n)
                      THEN GoesTo(n) = {p \in Places :
                             /\ Declared(p, n)
                             /\ p = "path" => n \in tool.path
                             /\ p = "body" => tool.method \notin Bodyless}
                      ELSE GoesTo(n) = {IF tool.method \in Bodyless
                                        THEN "query" ELSE "body"}
    BY DEF ArgumentsTravel
  <2> DEFINE args == request.args
  <2>1. n \in Params
    BY DEF ToolTypeOK, HttpRequests
  <2>2. /\ request.at["path"] = InPath(args)
        /\ request.at["query"] = InQuery(args)
        /\ request.at["body"] = InBody(args)
    BY MadeFields DEF RequestMade
  <2>3. request.at["path"][n] = "argument" <=> n \in tool.path /\ Declared("path", n)
    BY <2>1, <2>2 DEF InPath
  <2>4. \A p \in Places : Declared(p, n) => n \notin Leftover(args)
    BY DEF Leftover
  <2>5. (\A p \in Places : ~Declared(p, n)) => n \in Leftover(args)
    BY DEF Leftover
  <2>6. \A p \in Places :
          /\ Declared(p, n) => Collect(p, args)[n] = "argument"
          /\ ~Declared(p, n) => Collect(p, args)[n] = "none"
    BY <2>1 DEF Collect
  <2>7. request.at["query"][n] = "argument"
          <=> \/ Declared("query", n)
              \/ tool.method \in Bodyless /\ n \in Leftover(args)
    BY <2>1, <2>2, <2>6 DEF InQuery, Places
  <2>8. request.at["body"][n] = "argument"
          <=> /\ tool.method \notin Bodyless
              /\ Declared("body", n) \/ n \in Leftover(args)
    BY <2>1, <2>2, <2>6 DEF InBody, Places
  <2> HIDE DEF args
  <2>9. \A p \in Places : p = "path" \/ p = "query" \/ p = "body"
    BY DEF Places
  <2>10. CASE \E p \in Places : Declared(p, n)
    BY <2>3, <2>4, <2>7, <2>8, <2>9, <2>10 DEF GoesTo
  <2>11. CASE \A p \in Places : ~Declared(p, n)
    BY <2>3, <2>5, <2>7, <2>8, <2>9, <2>11 DEF GoesTo, Places
  <2> QED
    BY <2>10, <2>11
<1> QED
  BY <1>1, ToolTypesHold, RequestsMade, PTL

-----------------------------------------------------------------------------
(* Arguments that are lost.                                                 *)

\* A request without a body has a list of body parameters only if the method
\* was changed after the list was written.
ListHidden ==
  tool.method \in Bodyless /\ (\E n \in Params : Declared("body", n)) => tool.switched

LEMMA ListHiddenStep == ToolTypeOK /\ ListHidden /\ [ToolNext]_toolVars => ListHidden'
<1> SUFFICES ASSUME ToolTypeOK, ListHidden, [ToolNext]_toolVars PROVE ListHidden'
  OBVIOUS
<1> USE DEF ListHidden, Declared
<1>1. tool \in ToolConfigs
  BY DEF ToolTypeOK
<1>2. ASSUME tool' = tool PROVE ListHidden'
  BY <1>2
<1>3. ASSUME NEW m \in Methods, SetMethod(m) PROVE ListHidden'
  <2>1. /\ tool'.params = tool.params /\ tool'.method = m
        /\ tool'.switched = (tool.switched \/ m # tool.method)
    BY <1>1, <1>3 DEF SetMethod, Edit, ToolConfigs
  <2>2. CASE m = tool.method
    BY <2>1, <2>2
  <2>3. CASE m # tool.method
    BY <2>1, <2>3
  <2> QED
    BY <2>2, <2>3
<1>4. ASSUME NEW config, Edit(config), config.method = tool.method,
             config.params = tool.params, config.switched = tool.switched
      PROVE  ListHidden'
  BY <1>4 DEF Edit
<1>5. ASSUME NEW p \in Places, NEW d \in [Params -> Declarations], SetParams(p, d)
      PROVE  ListHidden'
  <2>1. /\ tool'.method = tool.method
        /\ tool'.params = [tool.params EXCEPT ![p] = d]
        /\ tool'.switched = (tool.switched /\ p # "body")
    BY <1>1, <1>5 DEF SetParams, Edit, ToolConfigs
  <2>2. CASE p = "body"
    BY <1>5, <2>1, <2>2 DEF SetParams, Offered
  <2>3. CASE p # "body"
    <3>1. tool'.params["body"] = tool.params["body"]
      BY <1>1, <2>1, <2>3 DEF ToolConfigs, Places
    <3> QED
      BY <2>1, <2>3, <3>1
  <2> QED
    BY <2>2, <2>3
<1>6. ASSUME NEW b, SetBaseUrl(b) PROVE ListHidden'
  BY <1>1, <1>4, <1>6 DEF SetBaseUrl, ToolConfigs
<1>7. ASSUME NEW b, Rename(b) PROVE ListHidden'
  BY <1>1, <1>4, <1>7 DEF Rename, ToolConfigs
<1>8. ASSUME NEW S, SetPath(S) PROVE ListHidden'
  BY <1>1, <1>4, <1>8 DEF SetPath, ToolConfigs
<1>9. ASSUME NEW S, SetBody(S) PROVE ListHidden'
  BY <1>1, <1>4, <1>9 DEF SetBody, ToolConfigs
<1> QED
  BY <1>2, <1>3, <1>5, <1>6, <1>7, <1>8, <1>9
     DEF ToolNext, toolVars, Send, CallHandler, Mock, Misconfigured, Answer, NoAnswer, Tell

\* An argument is lost only if the path has no braces for it, or it was
\* declared for the body before the method was changed.
THEOREM ArgumentsAreLostLate == ToolSpec => []LostOnlyAfterSwitch
<1>1. ToolInit => ListHidden
  BY DEF ToolInit, ListHidden, Declared, NoParams, Places
<1>2. ToolSpec => []ListHidden
  BY <1>1, ListHiddenStep, ToolTypesHold, PTL DEF ToolSpec
<1>3. ToolTypeOK /\ ArgumentsTravel /\ ListHidden => LostOnlyAfterSwitch
  <2> SUFFICES ASSUME ToolTypeOK, ArgumentsTravel, ListHidden, request.pc = "sent",
                      NEW n \in request.args, GoesTo(n) = {}
               PROVE  \/ Declared("path", n) /\ n \notin tool.path
                      \/ Declared("body", n) /\ tool.switched
    BY DEF LostOnlyAfterSwitch
  <2>1. PICK p \in Places : Declared(p, n)
    BY DEF ArgumentsTravel
  <2>2. \/ p = "path" /\ n \notin tool.path
        \/ p = "body" /\ tool.method \in Bodyless
    BY <2>1 DEF ArgumentsTravel
  <2>3. n \in Params
    BY DEF ToolTypeOK, HttpRequests
  <2> QED
    BY <2>1, <2>2, <2>3 DEF ListHidden
<1> QED
  BY <1>2, <1>3, ToolTypesHold, EveryArgumentTravels, PTL

=============================================================================
