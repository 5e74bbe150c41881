-------------------------- MODULE BuilderEdgesProofs --------------------------
(***************************************************************************)
(* That the canvas comes to show the edges the server has, for any number  *)
(* of agents, edges and overlapping requests.                              *)
(***************************************************************************)
EXTENDS BuilderEdges, TLAPS

-----------------------------------------------------------------------------
(* Types.                                                                   *)

\* What a request is about.
SlotOK(q) ==
  /\ q \in RequestStates
  /\ IF q.pc = "free" THEN q = Free
     ELSE /\ q.kind # "none"
          /\ q.kind = "create" => q.edge \in Edges
          /\ q.kind \in {"create", "create_agent"} => q.from \in Agents /\ q.to \in Agents

TypesInv ==
  /\ TypeOK
  /\ \A r \in Requests : SlotOK(req[r])
  /\ \A r \in Requests : req[r].kind = "create_agent" => req[r].to \in known
  /\ \A e \in Edges : row[e].state = "live" => row[e].from \in Agents /\ row[e].to \in Agents

LEMMA FreeTyped == SlotOK(Free) /\ Free.kind = "none" /\ Free.pc = "free"
  BY DEF SlotOK, Free, RequestStates

\* One slot is written.
LEMMA SlotsTyped ==
  ASSUME TypesInv, NEW r \in Requests, NEW q, SlotOK(q), req' = [req EXCEPT ![r] = q],
         q.kind = "create_agent" => q.to \in known', known \subseteq known'
  PROVE  /\ req' \in [Requests -> RequestStates]
         /\ \A s \in Requests : SlotOK(req'[s])
         /\ \A s \in Requests : req'[s].kind = "create_agent" => req'[s].to \in known'
         /\ req'[r] = q /\ \A s \in Requests \ {r} : req'[s] = req[s]
<1>1. req'[r] = q /\ \A s \in Requests \ {r} : req'[s] = req[s]
  BY DEF TypesInv, TypeOK
<1>2. q \in RequestStates
  BY DEF SlotOK
<1> QED
  BY <1>1, <1>2 DEF TypesInv, TypeOK

LEMMA SentTyped ==
  ASSUME TypesInv, NEW r \in Requests, NEW kind, NEW e, NEW a, NEW b, Send(r, kind, e, a, b),
         SlotOK([pc |-> "sent", kind |-> kind, edge |-> e, from |-> a, to |-> b]),
         kind = "create_agent" => b \in known', known \subseteq known'
  PROVE  /\ req' \in [Requests -> RequestStates]
         /\ \A s \in Requests : SlotOK(req'[s])
         /\ \A s \in Requests : req'[s].kind = "create_agent" => req'[s].to \in known'
BY SlotsTyped DEF Send

LEMMA AnsweredTyped ==
  ASSUME TypesInv, NEW r \in Requests, req[r].pc # "free", NEW pc \in {"ok", "failed"},
         Answer(r, pc), UNCHANGED known
  PROVE  /\ req' \in [Requests -> RequestStates]
         /\ \A s \in Requests : SlotOK(req'[s])
         /\ \A s \in Requests : req'[s].kind = "create_agent" => req'[s].to \in known'
<1> DEFINE q == [req[r] EXCEPT !.pc = pc]
<1>1. SlotOK(q) /\ q.kind = req[r].kind /\ q.to = req[r].to
  BY DEF TypesInv, SlotOK, RequestStates
<1>2. req' = [req EXCEPT ![r] = q]
  BY DEF Answer, TypesInv, TypeOK
<1>3. q.kind = "create_agent" => q.to \in known'
  BY <1>1 DEF TypesInv
<1> HIDE DEF q
<1> QED
  BY <1>1, <1>2, <1>3, SlotsTyped

LEMMA DoneTyped ==
  ASSUME TypesInv, NEW r \in Requests, Done(r), UNCHANGED known
  PROVE  /\ req' \in [Requests -> RequestStates]
         /\ \A s \in Requests : SlotOK(req'[s])
         /\ \A s \in Requests : req'[s].kind = "create_agent" => req'[s].to \in known'
BY FreeTyped, SlotsTyped DEF Done

LEMMA SerializedTyped ==
  ASSUME NEW data, data \subseteq Ends, NEW nodes
  PROVE  Serialized(data, nodes) \subseteq ShownEdges
BY DEF Serialized, NamedBy, Ends, ShownEdges

LEMMA MirrorTyped ==
  ASSUME NEW edges, edges \subseteq ShownEdges, NEW data, data \subseteq Ends, NEW nodes
  PROVE  Mirror(edges, data, nodes) \subseteq ShownEdges
BY SerializedTyped DEF Mirror

LEMMA FetchTyped ==
  /\ Idle \in [pc : {"idle", "sent", "served"}, data : SUBSET Ends]
  /\ Invalidate => fetch' \in [pc : {"idle", "sent", "served"}, data : SUBSET Ends]
BY DEF Idle, Invalidate

LEMMA NodesTyped ==
  ASSUME TypesInv, UNCHANGED nodesQuery
  PROVE  /\ nodesCache' \subseteq Agents
         /\ nodesFetch' \in [pc : {"idle", "sent", "served"}, data : SUBSET Agents]
BY DEF TypesInv, TypeOK, nodesQuery

LEMMA LiveTyped == TypesInv => LiveRows \subseteq Ends
BY DEF TypesInv, LiveRows, Ends

\* The user's gestures.
LEMMA UserTypes ==
  ASSUME TypesInv, NEW r \in Requests,
         \/ \E e \in Edges, a, b \in Agents : Connect(r, e, a, b)
         \/ \E x \in shown, a, b \in Agents : Reconnect(r, x, a, b)
         \/ \E x \in shown : EditCondition(r, x) \/ DeleteEdge(r, x)
         \/ \E a, b \in Agents : AddAgent(r, a, b)
         \/ \E a \in Agents : DeleteAgent(r, a)
  PROVE  TypesInv'
<1>0. TypeOK /\ shown \subseteq ShownEdges
  BY DEF TypesInv, TypeOK
<1>1. ASSUME NEW kind \in {"create", "update"}, NEW e \in Edges \cup {None},
             kind = "create" => e \in Edges, NEW a \in Agents, NEW b \in Agents
      PROVE  SlotOK([pc |-> "sent", kind |-> kind, edge |-> e, from |-> a, to |-> b])
  BY <1>1 DEF SlotOK, RequestStates
<1>2. ASSUME NEW e \in Edges, NEW a \in Agents, NEW b \in Agents, Connect(r, e, a, b)
      PROVE  TypesInv'
  <2>1. shown' \subseteq ShownEdges
    BY <1>0, <1>2 DEF Connect, ShownEdges
  <2> QED
    BY <1>0, <1>1, <1>2, <2>1, SentTyped, NodesTyped DEF Connect, TypesInv, TypeOK
<1>3. ASSUME NEW x \in shown, NEW a \in Agents, NEW b \in Agents, Reconnect(r, x, a, b)
      PROVE  TypesInv'
  <2>1. x \in ShownEdges /\ shown' \subseteq ShownEdges
    BY <1>0, <1>3 DEF Reconnect, ShownEdges
  <2>2. RowOf(x) \in Edges \cup {None}
    BY <2>1 DEF ShownEdges, RowOf
  <2> QED
    BY <1>0, <1>1, <1>3, <2>1, <2>2, SentTyped, NodesTyped
       DEF Reconnect, Strays, TypesInv, TypeOK
<1>4. ASSUME NEW x \in shown, EditCondition(r, x) PROVE TypesInv'
  <2>1. RowOf(x) \in Edges \cup {None} /\ x.from \in Agents /\ x.to \in Agents
    BY <1>0 DEF ShownEdges, RowOf
  <2> QED
    BY <1>0, <1>1, <1>4, <2>1, SentTyped, NodesTyped
       DEF EditCondition, Strays, TypesInv, TypeOK
<1>5. ASSUME NEW x \in shown, DeleteEdge(r, x) PROVE TypesInv'
  <2>1. RowOf(x) \in Edges \cup {None}
    BY <1>0 DEF ShownEdges, RowOf
  <2>2. SlotOK([pc |-> "sent", kind |-> "delete", edge |-> RowOf(x),
                from |-> None, to |-> None])
    BY <2>1 DEF SlotOK, RequestStates
  <2> QED
    BY <1>0, <1>5, <2>2, SentTyped, NodesTyped DEF DeleteEdge, Strays, TypesInv, TypeOK
<1>6. ASSUME NEW a \in Agents, NEW b \in Agents, AddAgent(r, a, b) PROVE TypesInv'
  <2>1. SlotOK([pc |-> "sent", kind |-> "create_agent", edge |-> None, from |-> a, to |-> b])
    BY DEF SlotOK, RequestStates
  <2>2. known \subseteq known' /\ b \in known'
    BY <1>6 DEF AddAgent
  <2> QED
    BY <1>0, <1>6, <2>1, <2>2, SentTyped, NodesTyped DEF AddAgent, TypesInv, TypeOK
<1>7. ASSUME NEW a \in Agents, DeleteAgent(r, a) PROVE TypesInv'
  <2>1. SlotOK([pc |-> "sent", kind |-> "delete_agent", edge |-> None, from |-> a, to |-> None])
    BY DEF SlotOK, RequestStates
  <2> QED
    BY <1>0, <1>7, <2>1, SentTyped, NodesTyped DEF DeleteAgent, TypesInv, TypeOK
<1> QED
  BY <1>2, <1>3, <1>4, <1>5, <1>6, <1>7

\* What the server does.
LEMMA ServeTypes ==
  ASSUME TypesInv, NEW r \in Requests, Serve(r) \/ LoseAnswer(r)
  PROVE  TypesInv'
<1>0. TypeOK /\ SlotOK(req[r]) /\ "ok" \in {"ok", "failed"} /\ "failed" \in {"ok", "failed"}
  BY DEF TypesInv
<1>1. CASE ServeCreate(r)
  <2>1. req[r].edge \in Edges /\ req[r].from \in Agents /\ req[r].to \in Agents
    BY <1>0, <1>1 DEF ServeCreate, Asked, SlotOK
  <2>2. /\ row' \in [Edges -> EdgeRows]
        /\ \A e \in Edges : row'[e].state = "live" =>
             row'[e].from \in Agents /\ row'[e].to \in Agents
    BY <1>1, <2>1 DEF ServeCreate, TypesInv, TypeOK, EdgeRows
  <2> QED
    BY <1>0, <1>1, <2>2, AnsweredTyped, NodesTyped DEF ServeCreate, Asked, TypesInv, TypeOK
<1>2. CASE ServeUpdate(r)
  <2>1. req[r].edge \in Edges /\ req[r].from \in Agents /\ req[r].to \in Agents
    BY <1>0, <1>2 DEF ServeUpdate, Asked, RequestStates, SlotOK, TypesInv, TypeOK
  <2>2. /\ row' \in [Edges -> EdgeRows]
        /\ \A e \in Edges : row'[e].state = "live" =>
             row'[e].from \in Agents /\ row'[e].to \in Agents
    BY <1>2, <2>1 DEF ServeUpdate, TypesInv, TypeOK, EdgeRows
  <2> QED
    BY <1>0, <1>2, <2>2, AnsweredTyped, NodesTyped DEF ServeUpdate, Asked, TypesInv, TypeOK
<1>3. CASE ServeDelete(r)
  <2>1. /\ row' \in [Edges -> EdgeRows]
        /\ \A e \in Edges : row'[e].state = "live" =>
             row'[e].from \in Agents /\ row'[e].to \in Agents
    BY <1>3 DEF ServeDelete, TypesInv, TypeOK, EdgeRows
  <2> QED
    BY <1>0, <1>3, <2>1, AnsweredTyped, NodesTyped DEF ServeDelete, Asked, TypesInv, TypeOK
<1>4. CASE ServeCreateAgent(r)
  <2>1. alive' \subseteq known
    BY <1>4 DEF ServeCreateAgent, Asked, TypesInv, TypeOK
  <2> QED
    BY <1>0, <1>4, <2>1, AnsweredTyped, NodesTyped DEF ServeCreateAgent, Asked, TypesInv, TypeOK
<1>5. CASE ServeDeleteAgent(r)
  <2>1. /\ row' \in [Edges -> EdgeRows]
        /\ \A e \in Edges : row'[e].state = "live" =>
             row'[e].from \in Agents /\ row'[e].to \in Agents
    BY <1>5 DEF ServeDeleteAgent, TypesInv, TypeOK, EdgeRows
  <2> QED
    BY <1>0, <1>5, <2>1, AnsweredTyped, NodesTyped DEF ServeDeleteAgent, Asked, TypesInv, TypeOK
<1>6. CASE Refuse(r)
  BY <1>0, <1>6, AnsweredTyped, NodesTyped DEF Refuse, TypesInv, TypeOK
<1>7. CASE LoseAnswer(r)
  BY <1>0, <1>7, AnsweredTyped, NodesTyped DEF LoseAnswer, Strays, TypesInv, TypeOK
<1> QED
  BY <1>1, <1>2, <1>3, <1>4, <1>5, <1>6, <1>7 DEF Serve

\* What the page makes of the answers.
LEMMA HandleTypes ==
  ASSUME TypesInv, NEW r \in Requests, Handle(r)
  PROVE  TypesInv'
<1>0. TypeOK /\ SlotOK(req[r]) /\ shown \subseteq ShownEdges /\ cache \subseteq Ends
  BY DEF TypesInv, TypeOK
<1>1. CASE EdgeCreated(r)
  <2> DEFINE x == [edge |-> req[r].edge, from |-> req[r].from, to |-> req[r].to]
  <2>1. x \in Ends
    BY <1>0, <1>1 DEF EdgeCreated, SlotOK, Ends
  <2>2. Serialized({x}, agents) \subseteq ShownEdges
    BY <2>1, SerializedTyped
  <2>3. shown' \subseteq shown \cup Serialized({x}, agents)
    BY <1>1 DEF EdgeCreated
  <2> HIDE DEF x
  <2>4. shown' \subseteq ShownEdges
    BY <1>0, <2>2, <2>3
  <2> QED
    BY <1>0, <1>1, <2>4, DoneTyped, FetchTyped, NodesTyped DEF EdgeCreated, TypesInv, TypeOK
<1>2. CASE EdgeNotCreated(r)
  BY <1>0, <1>2, DoneTyped, NodesTyped DEF EdgeNotCreated, RollBack, TypesInv, TypeOK
<1>3. CASE EdgeDeleted(r)
  BY <1>0, <1>3, DoneTyped, FetchTyped, NodesTyped DEF EdgeDeleted, AfterDeletion, TypesInv, TypeOK
<1>4. CASE AgentDeleted(r)
  <2>1. shown' \subseteq ShownEdges
    BY <1>0, <1>4, MirrorTyped DEF AgentDeleted
  <2> QED
    BY <1>0, <1>4, <2>1, DoneTyped, NodesTyped DEF AgentDeleted, TypesInv, TypeOK
<1>5. CASE OnlyReported(r)
  BY <1>0, <1>5, DoneTyped, NodesTyped DEF OnlyReported, TypesInv, TypeOK
<1>6. ASSUME NEW e \in Edges, AgentCreated(r, e) PROVE TypesInv'
  <2> DEFINE q == [req[r] EXCEPT !.pc = "sent", !.kind = "create", !.edge = e]
             local == [edge |-> e, from |-> req[r].from, to |-> req[r].to, name |-> "local"]
  <2>1. req[r].from \in Agents /\ req[r].to \in Agents
    BY <1>0, <1>6 DEF AgentCreated, SlotOK
  <2>2. SlotOK(q) /\ q.kind = "create"
    BY <1>0, <2>1 DEF SlotOK, RequestStates
  <2>3. req' = [req EXCEPT ![r] = q] \/ Done(r)
    BY <1>0, <1>6 DEF AgentCreated, TypeOK
  <2>4. shown \cup {local} \subseteq ShownEdges
    BY <1>0, <2>1 DEF ShownEdges
  <2>5. \/ shown' = Mirror(shown, cache, agents \cup {req[r].to})
        \/ shown' = Mirror(shown \cup {local}, cache, agents \cup {req[r].to})
    BY <1>6 DEF AgentCreated
  <2> HIDE DEF q, local
  <2>6. shown' \subseteq ShownEdges
    BY <1>0, <2>4, <2>5, MirrorTyped
  <2>7. /\ req' \in [Requests -> RequestStates]
        /\ \A s \in Requests : SlotOK(req'[s])
        /\ \A s \in Requests : req'[s].kind = "create_agent" => req'[s].to \in known'
    <3>1. UNCHANGED known
      BY <1>6 DEF AgentCreated
    <3>2. CASE req' = [req EXCEPT ![r] = q]
      BY <2>2, <3>1, <3>2, SlotsTyped
    <3>3. CASE Done(r)
      BY <3>1, <3>3, DoneTyped
    <3> QED
      BY <2>3, <3>2, <3>3
  <2> QED
    BY <1>0, <1>6, <2>1, <2>6, <2>7, NodesTyped DEF AgentCreated, TypesInv, TypeOK
<1> QED
  BY <1>1, <1>2, <1>3, <1>4, <1>5, <1>6 DEF Handle

LEMMA TypesInductive ==
  /\ Init => TypesInv
  /\ TypesInv /\ [Next]_vars => TypesInv'
<1>1. ASSUME Init PROVE TypesInv
  <2>1. \A r \in Requests : req[r] = Free
    BY <1>1 DEF Init
  <2>2. req \in [Requests -> RequestStates]
    BY <1>1, FreeTyped DEF Init, SlotOK
  <2>3. row \in [Edges -> EdgeRows] /\ \A e \in Edges : row[e].state = "absent"
    BY <1>1 DEF Init, Absent, EdgeRows
  <2> QED
    BY <1>1, <2>1, <2>2, <2>3, FreeTyped, FetchTyped, BuilderAssumption
       DEF Init, Idle, TypesInv, TypeOK
<1>2. ASSUME TypesInv, [Next]_vars PROVE TypesInv'
  <2>0. TypeOK /\ shown \subseteq ShownEdges /\ cache \subseteq Ends
    BY <1>2 DEF TypesInv, TypeOK
  <2>1. CASE UNCHANGED vars
    BY <1>2, <2>1 DEF vars, nodesQuery, TypesInv, TypeOK
  <2>2. CASE (\E x \in shown : Backspace(x)) \/ FetchFailed
    BY <1>2, <2>2, FetchTyped, NodesTyped DEF Backspace, FetchFailed, Strays, TypesInv, TypeOK
  <2>3. CASE NodesChange
    BY <1>2, <2>0, <2>3, MirrorTyped, NodesTyped DEF NodesChange, TypesInv, TypeOK
  <2>4. CASE ServeFetch
    BY <1>2, <2>4, LiveTyped, NodesTyped DEF ServeFetch, TypesInv, TypeOK
  <2>5. CASE Fetched
    <3>1. fetch.data \subseteq Ends
      BY <2>0 DEF TypeOK
    <3> QED
      BY <1>2, <2>0, <2>5, <3>1, MirrorTyped, FetchTyped, NodesTyped
         DEF Fetched, TypesInv, TypeOK
  <2>6. CASE Focus \/ ServeNodesFetch \/ NodesFetchFailed
    BY <1>2, <2>6 DEF Focus, Refetched, ServeNodesFetch, NodesFetchFailed, Idle,
       TypesInv, TypeOK
  <2>7. CASE NodesFetched
    <3>1. shown' \subseteq ShownEdges
      BY <2>0, <2>7, MirrorTyped DEF NodesFetched
    <3> QED
      BY <1>2, <2>7, <3>1 DEF NodesFetched, Idle, TypesInv, TypeOK
  <2> QED
    BY <1>2, <2>1, <2>2, <2>3, <2>4, <2>5, <2>6, <2>7, UserTypes, ServeTypes, HandleTypes
       DEF Next
<1> QED
  BY <1>1, <1>2

\* Whatever is drawn, refused, lost or answered late, the page, the server and
\* the requests between them keep their types.
THEOREM TypesHold == Spec => []TypeOK
<1>1. TypesInv => TypeOK
  BY DEF TypesInv
<1> QED
  BY <1>1, TypesInductive, PTL DEF Spec

-----------------------------------------------------------------------------
(* An edge with a temp id waits for an answer.  Agents leave the page and   *)
(* come back only with a redrawing, so an edge that starts at an agent of   *)
(* the page has been drawn since that agent came.                           *)

Awaits(q, x) ==
  q.pc # "free" /\ q.kind = "create" /\ q.edge = x.edge /\ q.from = x.from /\ q.to = x.to

ShownOK ==
  \A x \in shown :
    x.name = "temp" /\ x.from \in agents =>
      /\ x.to \in agents
      /\ \E r \in Requests : Awaits(req[r], x)

\* No request for a new edge is forgotten.
KeepsWaiting ==
  \A r \in Requests :
    req[r].pc # "free" /\ req[r].kind = "create" =>
      /\ req'[r].pc # "free" /\ req'[r].kind = "create"
      /\ req'[r].edge = req[r].edge /\ req'[r].from = req[r].from /\ req'[r].to = req[r].to

LEMMA ShownKeeps ==
  ASSUME ShownOK, KeepsWaiting, agents' = agents,
         \A x \in shown' : x \in shown \/ x.name # "temp"
  PROVE  ShownOK'
BY DEF ShownOK, KeepsWaiting, Awaits

LEMMA SerializedShown ==
  ASSUME NEW data, NEW nodes
  PROVE  \A x \in Serialized(data, nodes) :
           x.name = "saved" /\ x.from \in nodes /\ x.to \in nodes
BY DEF Serialized, NamedBy

LEMMA MirrorShown ==
  ASSUME NEW edges, NEW data, NEW nodes
  PROVE  \A x \in Mirror(edges, data, nodes) :
           (x \in edges /\ x.from \notin nodes) \/ (x.name = "saved" /\ x.from \in nodes)
BY SerializedShown DEF Mirror

\* A redrawing leaves no temp edge that starts at an agent of the page.
LEMMA ShownRedrawn ==
  ASSUME NEW edges, shown' = Mirror(edges, cache', agents')
  PROVE  ShownOK'
BY MirrorShown DEF ShownOK

LEMMA SlotWritten ==
  ASSUME TypesInv, NEW r \in Requests, NEW q, req' = [req EXCEPT ![r] = q]
  PROVE  req'[r] = q /\ \A s \in Requests \ {r} : req'[s] = req[s]
BY DEF TypesInv, TypeOK

LEMMA AnswerWritten ==
  ASSUME TypesInv, NEW r \in Requests, NEW pc, Answer(r, pc)
  PROVE  /\ req'[r].pc = pc /\ req'[r].kind = req[r].kind /\ req'[r].edge = req[r].edge
         /\ req'[r].from = req[r].from /\ req'[r].to = req[r].to
         /\ \A s \in Requests \ {r} : req'[s] = req[s]
BY DEF Answer, TypesInv, TypeOK, RequestStates

\* An agent of the request takes its place on the page.
LEMMA AgentWritten ==
  ASSUME TypesInv, NEW r \in Requests, NEW e \in Edges, AgentCreated(r, e)
  PROVE  /\ req[r].kind = "create_agent" /\ ~Used(e) /\ row' = row
         /\ \A s \in Requests \ {r} : req'[s] = req[s]
         /\ \/ req'[r] = Free
            \/ /\ req'[r].kind = "create" /\ req'[r].pc = "sent" /\ req'[r].edge = e
               /\ req'[r].from = req[r].from /\ req'[r].to = req[r].to
<1>1. CASE Done(r)
  BY <1>1, SlotWritten DEF AgentCreated, Done
<1>2. CASE ~Done(r)
  BY <1>2 DEF AgentCreated, TypesInv, TypeOK, RequestStates
<1> QED
  BY <1>1, <1>2

LEMMA ShownStep == TypesInv /\ ShownOK /\ [Next]_vars => ShownOK'
<1> SUFFICES ASSUME TypesInv, ShownOK, [Next]_vars PROVE ShownOK'
  OBVIOUS
<1>1. CASE UNCHANGED vars
  BY <1>1 DEF vars, ShownOK, Awaits
<1>2. CASE \/ \E x \in shown : Backspace(x)
           \/ Focus \/ FetchFailed \/ ServeFetch \/ ServeNodesFetch \/ NodesFetchFailed
  BY <1>2, ShownKeeps DEF Backspace, Focus, FetchFailed, ServeFetch, ServeNodesFetch,
     NodesFetchFailed, KeepsWaiting
<1>3. CASE NodesChange \/ Fetched \/ NodesFetched
  <2>1. KeepsWaiting
    BY <1>3 DEF NodesChange, Fetched, NodesFetched, KeepsWaiting
  <2>2. \/ shown' = shown /\ agents' = agents
        \/ shown' = Mirror(shown, cache', agents')
    BY <1>3 DEF NodesChange, Fetched, NodesFetched
  <2> QED
    BY <2>1, <2>2, ShownKeeps, ShownRedrawn
<1> SUFFICES ASSUME NEW r \in Requests,
        \/ \E e \in Edges, a, b \in Agents : Connect(r, e, a, b)
        \/ \E x \in shown, a, b \in Agents : Reconnect(r, x, a, b)
        \/ \E x \in shown : EditCondition(r, x) \/ DeleteEdge(r, x)
        \/ \E a, b \in Agents : AddAgent(r, a, b)
        \/ \E a \in Agents : DeleteAgent(r, a)
        \/ Serve(r) \/ LoseAnswer(r) \/ Handle(r)
             PROVE  ShownOK'
  BY <1>1, <1>2, <1>3 DEF Next
<1>4. ASSUME NEW kind, NEW e, NEW a, NEW b, Send(r, kind, e, a, b)
      PROVE  /\ KeepsWaiting /\ req[r].pc = "free"
             /\ req'[r] = [pc |-> "sent", kind |-> kind, edge |-> e, from |-> a, to |-> b]
  BY <1>4, SlotWritten DEF Send, KeepsWaiting
<1>5. ASSUME NEW e \in Edges, NEW a \in Agents, NEW b \in Agents, Connect(r, e, a, b)
      PROVE  ShownOK'
  <2> DEFINE x == [edge |-> e, from |-> a, to |-> b, name |-> "temp"]
  <2>1. KeepsWaiting /\ Awaits(req'[r], x)
    <3>1. Send(r, "create", e, a, b)
      BY <1>5 DEF Connect
    <3>2. /\ KeepsWaiting
          /\ req'[r] = [pc |-> "sent", kind |-> "create", edge |-> e, from |-> a, to |-> b]
      BY <1>4, <3>1
    <3> QED
      BY <3>2 DEF Awaits
  <2>2. shown' \subseteq shown \cup {x} /\ agents' = agents /\ a \in agents /\ b \in agents
    BY <1>5 DEF Connect
  <2>3. \A y \in shown : y.name = "temp" /\ y.from \in agents =>
          y.to \in agents /\ \E s \in Requests : Awaits(req'[s], y)
    BY <2>1 DEF ShownOK, KeepsWaiting, Awaits
  <2> QED
    BY <2>1, <2>2, <2>3 DEF ShownOK
<1>6. ASSUME NEW x \in shown, NEW a \in Agents, NEW b \in Agents, Reconnect(r, x, a, b)
      PROVE  ShownOK'
  <2>1. KeepsWaiting
    BY <1>4, <1>6 DEF Reconnect
  <2> QED
    BY <1>6, <2>1, ShownKeeps DEF Reconnect
<1>7. ASSUME \/ \E x \in shown : EditCondition(r, x) \/ DeleteEdge(r, x)
             \/ \E a, b \in Agents : AddAgent(r, a, b)
             \/ \E a \in Agents : DeleteAgent(r, a)
      PROVE  ShownOK'
  <2>1. KeepsWaiting
    BY <1>4, <1>7 DEF EditCondition, DeleteEdge, AddAgent, DeleteAgent
  <2> QED
    BY <1>7, <2>1, ShownKeeps DEF EditCondition, DeleteEdge, AddAgent, DeleteAgent
<1>8. ASSUME NEW pc \in {"ok", "failed"}, Answer(r, pc)
      PROVE  KeepsWaiting
  BY <1>8, AnswerWritten DEF KeepsWaiting
<1>9. CASE Serve(r) \/ LoseAnswer(r)
  <2>1. KeepsWaiting
    BY <1>8, <1>9 DEF Serve, ServeCreate, ServeUpdate, ServeDelete, ServeCreateAgent,
       ServeDeleteAgent, Refuse, LoseAnswer
  <2>2. shown' = shown /\ agents' = agents
    BY <1>9 DEF Serve, ServeCreate, ServeUpdate, ServeDelete, ServeCreateAgent,
       ServeDeleteAgent, Refuse, LoseAnswer
  <2> QED
    BY <2>1, <2>2, ShownKeeps
<1>10. ASSUME Done(r), req[r].kind # "create"
       PROVE  KeepsWaiting
  BY <1>10, SlotWritten DEF Done, KeepsWaiting
<1>11. CASE EdgeCreated(r)
  <2> DEFINE e == req[r].edge
             new == Serialized({[edge |-> e, from |-> req[r].from, to |-> req[r].to]}, agents)
             temp == {x \in shown : x.edge = e /\ x.name = "temp"}
  <2>1. /\ req[r].kind = "create" /\ agents' = agents /\ Done(r)
        /\ shown' = IF new = {} THEN shown ELSE (shown \ temp) \cup new
    BY <1>11 DEF EdgeCreated
  <2>2. \A x \in new : x.name = "saved"
    BY SerializedShown
  <2>3. ASSUME NEW x \in shown, x.name = "temp", x.from \in agents, Awaits(req[r], x)
        PROVE  x \notin shown'
    <3> DEFINE y == [edge |-> e, from |-> req[r].from, to |-> req[r].to]
    <3>1. y.from \in agents /\ y.to \in agents /\ x.edge = e
      BY <2>3 DEF Awaits, ShownOK
    <3>2. NamedBy(y, "saved") \in new
      BY <3>1 DEF Serialized
    <3>3. x \in temp /\ shown' = (shown \ temp) \cup new
      BY <2>1, <2>3, <3>1, <3>2
    <3> HIDE DEF new, temp
    <3> QED
      BY <2>2, <2>3, <3>3
  <2>4. \A s \in Requests \ {r} : req'[s] = req[s]
    BY <2>1, SlotWritten DEF Done
  <2>5. shown' \subseteq shown \cup new
    BY <2>1
  <2> HIDE DEF new, temp, e
  <2> QED
    BY <2>1, <2>2, <2>3, <2>4, <2>5 DEF ShownOK
<1>12. CASE EdgeNotCreated(r)
  BY <1>12 DEF EdgeNotCreated, RollBack, ShownOK
<1>13. CASE EdgeDeleted(r) \/ OnlyReported(r)
  <2>1. KeepsWaiting
    BY <1>10, <1>13 DEF EdgeDeleted, OnlyReported
  <2> QED
    BY <1>13, <2>1, ShownKeeps DEF EdgeDeleted, OnlyReported
<1>14. CASE AgentDeleted(r) \/ \E e \in Edges : AgentCreated(r, e)
  <2>1. \E edges : shown' = Mirror(edges, cache', agents')
    BY <1>14 DEF AgentDeleted, AgentCreated
  <2> QED
    BY <2>1, ShownRedrawn
<1> QED
  BY <1>5, <1>6, <1>7, <1>9, <1>11, <1>12, <1>13, <1>14 DEF Handle

\* Whatever was refused, lost or went astray: once all answers are in, no edge
\* that the page draws waits for one.
THEOREM DrawingsResolve == Spec => []DrawnEdgesResolve
<1>1. ShownOK => DrawnEdgesResolve
  BY DEF ShownOK, Awaits, DrawnEdgesResolve, Drawn, Quiet
<1>2. Init => ShownOK
  BY DEF Init, ShownOK
<1> QED
  BY <1>1, <1>2, TypesInductive, ShownStep, PTL DEF Spec

-----------------------------------------------------------------------------
(* The agents of rows.  An agent that has left the server does not come     *)
(* back to it, so a row whose agents exist has had them all along.          *)

Coming(b) ==
  \E r \in Requests : req[r].kind = "create_agent" /\ req[r].pc = "sent" /\ req[r].to = b

\* The agents that are on the server, or gone from it for good.
Settled == {a \in known : ~Coming(a)}

RowPlaced(e) ==
  /\ row[e].state # "absent" => row[e].from \in Settled /\ row[e].to \in Settled
  /\ row[e].state = "live" => row[e].from \in alive /\ row[e].to \in alive

NewAgentsDiffer ==
  \A r, s \in Requests :
    r # s /\ req[r].kind = "create_agent" /\ req[s].kind = "create_agent"
      => req[r].to # req[s].to

PlacesOK ==
  /\ alive \subseteq Settled
  /\ \A e \in Edges : RowPlaced(e)
  /\ NewAgentsDiffer

PagesInv == TypesInv /\ ShownOK /\ PlacesOK

\* A slot is used anew, answered, freed, or turned from a new agent to the edge
\* that leads to it.
Asks(r) ==
  /\ req[r].pc = "free" /\ req'[r].pc = "sent"
  /\ req'[r].kind = "create_agent" => req'[r].to \notin known

Answers(r) ==
  /\ req[r].pc \in {"sent", "ok"} /\ req'[r].pc \in {"ok", "failed"}
  /\ req'[r].kind = req[r].kind /\ req'[r].edge = req[r].edge
  /\ req'[r].from = req[r].from /\ req'[r].to = req[r].to
  /\ req'[r].pc = "ok" => req[r].pc = "sent"

SlotMoves(r) ==
  \/ req'[r] = req[r] \/ Asks(r) \/ Answers(r) \/ req'[r] = Free
  \/ \E e \in Edges : AgentCreated(r, e)

LEMMA SlotSteps ==
  ASSUME TypesInv, [Next]_vars, NEW r \in Requests
  PROVE  SlotMoves(r)
<1>1. ASSUME NEW s \in Requests, NEW kind, NEW e, NEW a, NEW b, Send(s, kind, e, a, b),
             kind = "create_agent" => b \notin known
      PROVE  SlotMoves(r)
  <2>1. \/ req'[r] = req[r]
        \/ /\ req[r].pc = "free"
           /\ req'[r] = [pc |-> "sent", kind |-> kind, edge |-> e, from |-> a, to |-> b]
    BY <1>1, SlotWritten DEF Send
  <2> QED
    BY <1>1, <2>1 DEF SlotMoves, Asks
<1>2. ASSUME NEW s \in Requests, NEW pc \in {"ok", "failed"}, Answer(s, pc),
             req[s].pc \in {"sent", "ok"}, pc = "ok" => req[s].pc = "sent"
      PROVE  SlotMoves(r)
  BY <1>2, AnswerWritten DEF SlotMoves, Answers
<1>3. ASSUME NEW s \in Requests, Done(s) PROVE SlotMoves(r)
  BY <1>3, SlotWritten DEF Done, SlotMoves
<1>4. ASSUME NEW s \in Requests, NEW e \in Edges, AgentCreated(s, e) PROVE SlotMoves(r)
  BY <1>4, AgentWritten DEF SlotMoves
<1>5. CASE \/ UNCHANGED vars \/ \E x \in shown : Backspace(x)
           \/ NodesChange \/ Focus \/ ServeFetch \/ Fetched \/ FetchFailed
           \/ ServeNodesFetch \/ NodesFetched \/ NodesFetchFailed
  BY <1>5 DEF vars, Backspace, NodesChange, Focus, ServeFetch, Fetched, FetchFailed,
     ServeNodesFetch, NodesFetched, NodesFetchFailed, SlotMoves
<1> SUFFICES ASSUME NEW s \in Requests,
        \/ \E e \in Edges, a, b \in Agents : Connect(s, e, a, b)
        \/ \E x \in shown, a, b \in Agents : Reconnect(s, x, a, b)
        \/ \E x \in shown : EditCondition(s, x) \/ DeleteEdge(s, x)
        \/ \E a, b \in Agents : AddAgent(s, a, b)
        \/ \E a \in Agents : DeleteAgent(s, a)
        \/ Serve(s) \/ LoseAnswer(s) \/ Handle(s)
             PROVE  SlotMoves(r)
  BY <1>5 DEF Next
<1>6. CASE \/ \E e \in Edges, a, b \in Agents : Connect(s, e, a, b)
           \/ \E x \in shown, a, b \in Agents : Reconnect(s, x, a, b)
           \/ \E x \in shown : EditCondition(s, x) \/ DeleteEdge(s, x)
           \/ \E a, b \in Agents : AddAgent(s, a, b)
           \/ \E a \in Agents : DeleteAgent(s, a)
  <2>1. ASSUME NEW e \in Edges, NEW a \in Agents, NEW b \in Agents, Connect(s, e, a, b)
        PROVE  SlotMoves(r)
    BY <1>1, <2>1 DEF Connect
  <2>2. ASSUME NEW x \in shown, NEW a \in Agents, NEW b \in Agents, Reconnect(s, x, a, b)
        PROVE  SlotMoves(r)
    BY <1>1, <2>2 DEF Reconnect
  <2>3. ASSUME NEW x \in shown, EditCondition(s, x) PROVE SlotMoves(r)
    BY <1>1, <2>3 DEF EditCondition
  <2>4. ASSUME NEW x \in shown, DeleteEdge(s, x) PROVE SlotMoves(r)
    BY <1>1, <2>4 DEF DeleteEdge
  <2>5. ASSUME NEW a \in Agents, NEW b \in Agents, AddAgent(s, a, b) PROVE SlotMoves(r)
    BY <1>1, <2>5 DEF AddAgent
  <2>6. ASSUME NEW a \in Agents, DeleteAgent(s, a) PROVE SlotMoves(r)
    BY <1>1, <2>6 DEF DeleteAgent
  <2> QED
    BY <1>6, <2>1, <2>2, <2>3, <2>4, <2>5, <2>6
<1>7. CASE Serve(s) \/ LoseAnswer(s)
  <2>1. \E pc \in {"ok", "failed"} :
          /\ Answer(s, pc) /\ req[s].pc \in {"sent", "ok"}
          /\ pc = "ok" => req[s].pc = "sent"
    BY <1>7 DEF Serve, ServeCreate, ServeUpdate, ServeDelete, ServeCreateAgent,
       ServeDeleteAgent, Refuse, LoseAnswer, Asked
  <2> QED
    BY <1>2, <2>1
<1>8. CASE Handle(s)
  <2>1. Done(s) \/ \E e \in Edges : AgentCreated(s, e)
    BY <1>8 DEF Handle, EdgeCreated, EdgeNotCreated, EdgeDeleted, AgentDeleted, OnlyReported
  <2> QED
    BY <1>3, <1>4, <2>1
<1> QED
  BY <1>6, <1>7, <1>8

\* What changes the ids given out, the agents stored or the rows.
Stores(r) ==
  \/ \E a, b \in Agents : AddAgent(r, a, b)
  \/ ServeCreate(r) \/ ServeUpdate(r) \/ ServeDelete(r)
  \/ ServeCreateAgent(r) \/ ServeDeleteAgent(r)

LEMMA StoreSteps ==
  ASSUME [Next]_vars
  PROVE  \/ known' = known /\ alive' = alive /\ row' = row
         \/ \E r \in Requests : Stores(r)
<1>1. CASE \/ UNCHANGED vars \/ \E x \in shown : Backspace(x)
           \/ NodesChange \/ Focus \/ ServeFetch \/ Fetched \/ FetchFailed
           \/ ServeNodesFetch \/ NodesFetched \/ NodesFetchFailed
  BY <1>1 DEF vars, Backspace, NodesChange, Focus, ServeFetch, Fetched, FetchFailed,
     ServeNodesFetch, NodesFetched, NodesFetchFailed
<1> SUFFICES ASSUME NEW r \in Requests,
        \/ \E e \in Edges, a, b \in Agents : Connect(r, e, a, b)
        \/ \E x \in shown, a, b \in Agents : Reconnect(r, x, a, b)
        \/ \E x \in shown : EditCondition(r, x) \/ DeleteEdge(r, x)
        \/ \E a, b \in Agents : AddAgent(r, a, b)
        \/ \E a \in Agents : DeleteAgent(r, a)
        \/ Serve(r) \/ LoseAnswer(r) \/ Handle(r)
             PROVE  (known' = known /\ alive' = alive /\ row' = row) \/ Stores(r)
  BY <1>1 DEF Next
<1>2. CASE \/ \E e \in Edges, a, b \in Agents : Connect(r, e, a, b)
           \/ \E x \in shown, a, b \in Agents : Reconnect(r, x, a, b)
           \/ \E x \in shown : EditCondition(r, x) \/ DeleteEdge(r, x)
           \/ \E a, b \in Agents : AddAgent(r, a, b)
           \/ \E a \in Agents : DeleteAgent(r, a)
  BY <1>2 DEF Connect, Reconnect, EditCondition, DeleteEdge, DeleteAgent, Stores
<1>3. CASE Serve(r) \/ LoseAnswer(r)
  BY <1>3 DEF Serve, Refuse, LoseAnswer, Stores
<1>4. CASE Handle(r)
  BY <1>4 DEF Handle, EdgeCreated, EdgeNotCreated, EdgeDeleted, AgentDeleted, OnlyReported,
     AgentCreated
<1> QED
  BY <1>2, <1>3, <1>4

LEMMA AgentSteps ==
  ASSUME [Next]_vars
  PROVE  /\ known' = known \/ \E r \in Requests, a, b \in Agents : AddAgent(r, a, b)
         /\ alive' = alive \/ \E r \in Requests : ServeCreateAgent(r) \/ ServeDeleteAgent(r)
<1>1. ASSUME NEW r \in Requests, Stores(r)
      PROVE  /\ known' = known \/ \E a, b \in Agents : AddAgent(r, a, b)
             /\ alive' = alive \/ ServeCreateAgent(r) \/ ServeDeleteAgent(r)
  BY <1>1 DEF Stores, AddAgent, ServeCreate, ServeUpdate, ServeDelete, ServeCreateAgent,
     ServeDeleteAgent
<1> QED
  BY <1>1, StoreSteps

\* A request for a new agent is a new one or was so before.
LEMMA ComingSteps ==
  ASSUME TypesInv, [Next]_vars, NEW r \in Requests, req'[r].kind = "create_agent"
  PROVE  \/ Asks(r) /\ req'[r].to \notin known
         \/ /\ req[r].kind = "create_agent" /\ req'[r].to = req[r].to /\ req[r].to \in known
            /\ req'[r].pc = "sent" => req'[r] = req[r]
<1>1. ~\E e \in Edges : AgentCreated(r, e)
  BY AgentWritten, FreeTyped
<1> QED
  BY <1>1, SlotSteps, FreeTyped DEF SlotMoves, Asks, Answers, TypesInv

LEMMA SettledStays ==
  ASSUME TypesInv, [Next]_vars, NEW a \in Settled
  PROVE  a \in Settled'
<1>1. a \in known' /\ a \in known /\ ~Coming(a)
  BY AgentSteps DEF Settled, AddAgent
<1>2. ~Coming(a)'
  <2> SUFFICES ASSUME NEW r \in Requests, req'[r].kind = "create_agent",
                      req'[r].pc = "sent", req'[r].to = a
               PROVE  FALSE
    BY DEF Coming
  <2> QED
    BY <1>1, ComingSteps DEF Coming
<1> QED
  BY <1>1, <1>2 DEF Settled

\* An agent that is gone stays gone.
LEMMA DeadStay ==
  ASSUME [Next]_vars, NEW a \in Settled, a \notin alive
  PROVE  a \notin alive'
BY AgentSteps DEF ServeCreateAgent, ServeDeleteAgent, Asked, Coming, Settled

LEMMA RowSteps ==
  ASSUME TypesInv, [Next]_vars, NEW e \in Edges
  PROVE  \/ row'[e] = row[e]
         \/ \E r \in Requests :
              /\ ServeCreate(r) \/ ServeUpdate(r)
              /\ req[r].edge = e /\ row'[e].from = req[r].from /\ row'[e].to = req[r].to
         \/ /\ row[e].state # "absent" /\ row'[e].state = "gone"
            /\ row'[e].from = row[e].from /\ row'[e].to = row[e].to
<1>1. row \in [Edges -> EdgeRows]
  BY DEF TypesInv, TypeOK
<1>2. \/ row' = row
      \/ \E r \in Requests :
           ServeCreate(r) \/ ServeUpdate(r) \/ ServeDelete(r) \/ ServeDeleteAgent(r)
  BY StoreSteps DEF Stores, AddAgent, ServeCreateAgent
<1>3. ASSUME NEW r \in Requests, ServeCreate(r) \/ ServeUpdate(r)
      PROVE  row'[e] = row[e] \/ (req[r].edge = e /\ row'[e].from = req[r].from
                                     /\ row'[e].to = req[r].to)
  BY <1>1, <1>3 DEF ServeCreate, ServeUpdate
<1>4. ASSUME NEW r \in Requests, ServeDelete(r) \/ ServeDeleteAgent(r)
      PROVE  row'[e] = row[e] \/
               (/\ row[e].state # "absent" /\ row'[e].state = "gone"
                /\ row'[e].from = row[e].from /\ row'[e].to = row[e].to)
  BY <1>1, <1>4 DEF ServeDelete, ServeDeleteAgent, EdgeRows
<1> QED
  BY <1>2, <1>3, <1>4

\* One request is sent at a time.
LEMMA OneAsks ==
  ASSUME TypesInv, [Next]_vars, NEW r \in Requests, NEW s \in Requests,
         req[r].pc = "free", req'[r].pc = "sent", req[s].pc = "free", req'[s].pc = "sent"
  PROVE  r = s
<1>1. \E x \in Requests : \A y \in Requests \ {x} : req'[y] = req[y]
  <2>1. CASE req' = req
    BY <2>1
  <2>2. ASSUME NEW x \in Requests, NEW q, req' = [req EXCEPT ![x] = q]
        PROVE  \A y \in Requests \ {x} : req'[y] = req[y]
    BY <2>2, SlotWritten
  <2>3. ASSUME NEW x \in Requests,
          Serve(x) \/ LoseAnswer(x) \/ \E e \in Edges : AgentCreated(x, e)
        PROVE  \A y \in Requests \ {x} : req'[y] = req[y]
    BY <2>3, AgentWritten, AnswerWritten DEF Serve, ServeCreate, ServeUpdate, ServeDelete,
       ServeCreateAgent, ServeDeleteAgent, Refuse, LoseAnswer
  <2>4. ASSUME NEW x \in Requests, Handle(x)
        PROVE  \A y \in Requests \ {x} : req'[y] = req[y]
    BY <2>2, <2>3, <2>4 DEF Handle, EdgeCreated, EdgeNotCreated, EdgeDeleted, AgentDeleted,
       OnlyReported, Done
  <2>5. ASSUME NEW x \in Requests,
          \/ \E e \in Edges, a, b \in Agents : Connect(x, e, a, b)
          \/ \E d \in shown, a, b \in Agents : Reconnect(x, d, a, b)
          \/ \E d \in shown : EditCondition(x, d) \/ DeleteEdge(x, d)
          \/ \E a, b \in Agents : AddAgent(x, a, b)
          \/ \E a \in Agents : DeleteAgent(x, a)
        PROVE  \A y \in Requests \ {x} : req'[y] = req[y]
    BY <2>2, <2>5 DEF Connect, Reconnect, EditCondition, DeleteEdge, AddAgent, DeleteAgent, Send
  <2>6. req' = req \/ \E x \in Requests : \A y \in Requests \ {x} : req'[y] = req[y]
    BY <2>3, <2>4, <2>5 DEF Next, vars, Backspace, NodesChange, Focus, ServeFetch, Fetched,
       FetchFailed, ServeNodesFetch, NodesFetched, NodesFetchFailed
  <2> QED
    BY <2>1, <2>6
<1> QED
  BY <1>1

LEMMA PlacesStep == PagesInv /\ [Next]_vars => PlacesOK'
<1> SUFFICES ASSUME PagesInv, [Next]_vars PROVE PlacesOK'
  OBVIOUS
<1>0. TypesInv /\ PlacesOK /\ \A a \in Settled : a \in Settled'
  BY SettledStays DEF PagesInv
<1>1. ASSUME NEW a \in alive' PROVE a \in Settled'
  <2>1. CASE a \in alive
    BY <1>0, <2>1 DEF PlacesOK
  <2>2. CASE a \notin alive
    <3>1. PICK s \in Requests : ServeCreateAgent(s) /\ req[s].to = a
      BY <1>1, <2>2, AgentSteps DEF ServeCreateAgent, ServeDeleteAgent
    <3>2. /\ req[s].kind = "create_agent" /\ a \in known /\ known' = known
          /\ req'[s].pc = "ok"
      BY <1>0, <3>1, AnswerWritten DEF ServeCreateAgent, Asked, TypesInv
    <3>3. ASSUME NEW r \in Requests, req'[r].kind = "create_agent",
                 req'[r].pc = "sent", req'[r].to = a
          PROVE  FALSE
      <4>1. req[r].kind = "create_agent" /\ req[r].to = a /\ r # s
        BY <1>0, <3>2, <3>3, ComingSteps
      <4> QED
        BY <1>0, <3>1, <3>2, <4>1 DEF PlacesOK, NewAgentsDiffer
    <3> QED
      BY <3>2, <3>3 DEF Settled, Coming
  <2> QED
    BY <2>1, <2>2
<1>2. ASSUME NEW e \in Edges PROVE RowPlaced(e)'
  <2>1. RowPlaced(e) /\ row \in [Edges -> EdgeRows]
    BY <1>0 DEF PlacesOK, TypesInv, TypeOK
  <2>2. CASE row'[e] = row[e]
    <3>1. ASSUME NEW s \in Requests, ServeDeleteAgent(s), row[e].state = "live"
          PROVE  req[s].from \notin {row[e].from, row[e].to}
      BY <2>1, <2>2, <3>1 DEF ServeDeleteAgent, EdgeRows
    <3> QED
      BY <1>0, <2>1, <2>2, <3>1, AgentSteps DEF RowPlaced, ServeDeleteAgent, ServeCreateAgent
  <2>3. ASSUME NEW r \in Requests, ServeCreate(r) \/ ServeUpdate(r), req[r].edge = e,
               row'[e].from = req[r].from, row'[e].to = req[r].to
        PROVE  RowPlaced(e)'
    <3>1. req[r].from \in alive /\ req[r].to \in alive /\ alive' = alive
      BY <2>3 DEF ServeCreate, ServeUpdate
    <3> QED
      BY <1>1, <2>3, <3>1 DEF RowPlaced
  <2>4. CASE /\ row[e].state # "absent" /\ row'[e].state = "gone"
             /\ row'[e].from = row[e].from /\ row'[e].to = row[e].to
    BY <1>0, <2>1, <2>4 DEF RowPlaced
  <2> QED
    BY <1>0, <2>2, <2>3, <2>4, RowSteps
<1>3. NewAgentsDiffer'
  <2>1. ASSUME NEW r \in Requests, req'[r].kind = "create_agent"
        PROVE  \/ Asks(r) /\ req'[r].to \notin known
               \/ req[r].kind = "create_agent" /\ req'[r].to = req[r].to
                    /\ req[r].to \in known
    BY <1>0, <2>1, ComingSteps
  <2>2. ASSUME NEW r \in Requests, NEW s \in Requests, Asks(r), Asks(s) PROVE r = s
    <3>1. req'[r] # req[r] /\ req'[s] # req[s] /\ req[r].pc = "free" /\ req[s].pc = "free"
          /\ req'[r].pc = "sent" /\ req'[s].pc = "sent"
      BY <2>2 DEF Asks
    <3> QED
      BY <1>0, <3>1, OneAsks
  <2>3. ASSUME NEW r \in Requests, NEW s \in Requests, r # s,
               req'[r].kind = "create_agent", req'[s].kind = "create_agent"
        PROVE  req'[r].to # req'[s].to
    <3>1. CASE Asks(r)
      <4>1. ~Asks(s)
        BY <2>2, <2>3, <3>1
      <4>2. req'[r].to \notin known
        BY <2>3, <3>1 DEF Asks
      <4> QED
        BY <2>1, <2>3, <4>1, <4>2
    <3>2. CASE Asks(s)
      <4>1. ~Asks(r)
        BY <2>2, <2>3, <3>2
      <4>2. req'[s].to \notin known
        BY <2>3, <3>2 DEF Asks
      <4> QED
        BY <2>1, <2>3, <4>1, <4>2
    <3>3. CASE ~Asks(r) /\ ~Asks(s)
      BY <1>0, <2>1, <2>3, <3>3 DEF PlacesOK, NewAgentsDiffer
    <3> QED
      BY <3>1, <3>2, <3>3
  <2> QED
    BY <2>3 DEF NewAgentsDiffer
<1> QED
  BY <1>1, <1>2, <1>3 DEF PlacesOK

-----------------------------------------------------------------------------
(* How far the page may be from the server while nothing has strayed.       *)

Row(e) == [edge |-> e, from |-> row[e].from, to |-> row[e].to]

Existing == {e \in Edges : row[e].state # "absent"}

Stored == {e \in Edges : row[e].state = "live"}

\* Edges that an answer on its way will put right.
Excused ==
  {e \in Existing : \E r \in Requests :
     req[r].pc = "ok" /\ req[r].kind \in {"create", "delete"} /\ req[r].edge = e}

\* Edges between agents that exist, of which nothing is on its way.
Exposed == {e \in Existing \ Excused : {row[e].from, row[e].to} \subseteq alive}

OnPage(e) == {row[e].from, row[e].to} \subseteq agents

\* A request for an edge agrees with the row it is about.
RequestTidy(r) ==
  /\ req[r].kind = "update" => req[r].edge = None
  /\ req[r].kind = "create" =>
       /\ req[r].pc = "sent" => req[r].edge \notin Existing
       /\ req[r].pc = "ok" =>
            /\ req[r].edge \in Existing
            /\ row[req[r].edge].from = req[r].from /\ row[req[r].edge].to = req[r].to
            /\ \/ req[r].edge \in Stored
               \/ req[r].from \notin alive \/ req[r].to \notin alive
  /\ req[r].kind = "delete" =>
       /\ req[r].edge # None => req[r].edge \in Existing
       /\ req[r].pc = "ok" => req[r].edge \notin Stored

EdgesApart ==
  \A r, s \in Requests :
    r # s /\ req[r].kind = "create" /\ req[s].kind \in {"create", "delete"}
      => req[r].edge # req[s].edge

RequestsTidy == (\A r \in Requests : RequestTidy(r)) /\ EdgesApart

\* What is cached, fetched or shown as saved is a row, living or not; what only
\* the page knows starts at an agent that has left it.
ListsTidy ==
  /\ \A x \in cache \cup fetch.data : x.edge \in Existing /\ x = Row(x.edge)
  /\ \A x \in shown :
       /\ x.name \in {"temp", "local", "saved"}
       /\ x.name = "saved" => x.edge \in Existing /\ x = NamedBy(Row(x.edge), "saved")
       /\ x.name = "local" => x.from \notin agents

\* The list that the page is shown next: the cached one or the one fetched.
Due == IF fetch.pc = "served" THEN fetch.data ELSE cache

DueIds == {x.edge : x \in Due}
CachedIds == {x.edge : x \in cache}
SavedIds == {x.edge : x \in {y \in shown : y.name = "saved"}}

\* What the page will be shown is what is stored.
DueIsStored ==
  fetch.pc # "sent" => \A e \in Exposed : e \in DueIds <=> e \in Stored

\* The page shows what it was told last, or knows better.
ShownIsKnown ==
  \A e \in Exposed :
    OnPage(e) =>
      (e \in SavedIds <=> e \in CachedIds) \/ (e \in SavedIds <=> e \in Stored)

Tidy == RequestsTidy /\ ListsTidy /\ DueIsStored /\ ShownIsKnown

\* The steps after which nothing has strayed.
CalmGesture(r) ==
  \/ \E e \in Edges, a, b \in Agents : Connect(r, e, a, b)
  \/ \E x \in shown : EditCondition(r, x) /\ RowOf(x) = None
  \/ \E x \in shown :
       /\ DeleteEdge(r, x)
       /\ \A q \in Requests : ~(req[q].kind = "create" /\ req[q].edge = RowOf(x))
  \/ \E a, b \in Agents : AddAgent(r, a, b)
  \/ \E a \in Agents : DeleteAgent(r, a)

CalmServe(r) ==
  \/ ServeCreate(r) \/ ServeDelete(r) \/ ServeCreateAgent(r) \/ ServeDeleteAgent(r)
  \/ Refuse(r)

\* The queries are asked and answered and the nodes redrawn.
Lists ==
  \/ NodesChange \/ Focus \/ ServeFetch \/ Fetched
  \/ ServeNodesFetch \/ NodesFetched \/ NodesFetchFailed

Calm ==
  \/ UNCHANGED vars
  \/ \E r \in Requests : CalmGesture(r) \/ CalmServe(r) \/ Handle(r)
  \/ Lists

LEMMA CalmSteps ==
  ASSUME TypesInv, [Next]_vars, ~strayed', ~strayed => RequestsTidy
  PROVE  ~strayed /\ Calm
<1>1. CASE UNCHANGED vars
  BY <1>1 DEF vars, Calm
<1>2. CASE (\E x \in shown : Backspace(x)) \/ FetchFailed
  BY <1>2 DEF Backspace, FetchFailed, Strays
<1>3. CASE Lists
  BY <1>3 DEF Lists, NodesChange, Focus, ServeFetch, Fetched, ServeNodesFetch, NodesFetched,
     NodesFetchFailed, Calm
<1> SUFFICES ASSUME NEW r \in Requests,
        \/ \E e \in Edges, a, b \in Agents : Connect(r, e, a, b)
        \/ \E x \in shown, a, b \in Agents : Reconnect(r, x, a, b)
        \/ \E x \in shown : EditCondition(r, x) \/ DeleteEdge(r, x)
        \/ \E a, b \in Agents : AddAgent(r, a, b)
        \/ \E a \in Agents : DeleteAgent(r, a)
        \/ Serve(r) \/ LoseAnswer(r) \/ Handle(r)
             PROVE  ~strayed /\ (CalmGesture(r) \/ CalmServe(r) \/ Handle(r))
  BY <1>1, <1>2, <1>3 DEF Next, Lists, Calm
<1>4. CASE \/ \E e \in Edges, a, b \in Agents : Connect(r, e, a, b)
           \/ \E a, b \in Agents : AddAgent(r, a, b)
           \/ \E a \in Agents : DeleteAgent(r, a)
  BY <1>4 DEF Connect, AddAgent, DeleteAgent, CalmGesture
<1>5. CASE LoseAnswer(r) \/ \E x \in shown, a, b \in Agents : Reconnect(r, x, a, b)
  BY <1>5 DEF Reconnect, LoseAnswer, Strays
<1>6. ASSUME NEW x \in shown, EditCondition(r, x) \/ DeleteEdge(r, x)
      PROVE  ~strayed /\ CalmGesture(r)
  BY <1>6 DEF EditCondition, DeleteEdge, Strays, RowOf, CalmGesture
<1>7. CASE Serve(r)
  <2>1. ~strayed
    BY <1>7 DEF Serve, ServeCreate, ServeUpdate, ServeDelete, ServeCreateAgent,
       ServeDeleteAgent, Refuse
  <2>2. ~ServeUpdate(r)
    BY <2>1 DEF ServeUpdate, Asked, RequestsTidy, RequestTidy
  <2> QED
    BY <1>7, <2>1, <2>2 DEF Serve, CalmServe
<1>8. CASE Handle(r)
  <2>1. strayed' = strayed
    BY <1>8 DEF Handle, EdgeCreated, EdgeNotCreated, EdgeDeleted, AgentDeleted, OnlyReported,
       AgentCreated
  <2> QED
    BY <1>8, <2>1
<1> QED
  BY <1>4, <1>5, <1>6, <1>7, <1>8

\* What a calm step does to a slot, by the step that does it.
CalmCause(r) ==
  /\ req[r].pc = "sent" /\ req'[r].pc = "ok" =>
       /\ req[r].kind = "create" => ServeCreate(r)
       /\ req[r].kind = "delete" => ServeDelete(r)
  /\ req[r].pc = "ok" /\ req'[r] # req[r] =>
       \/ EdgeCreated(r) \/ EdgeDeleted(r) \/ AgentDeleted(r)
       \/ \E e \in Edges : AgentCreated(r, e)
  /\ req[r].pc = "free" /\ req'[r].pc = "sent" =>
       /\ row' = row
       /\ req'[r].kind = "update" => req'[r].edge = None
       /\ req'[r].kind = "create" => ~Used(req'[r].edge)
       /\ req'[r].kind = "delete" =>
            /\ \/ req'[r].edge = None
               \/ \E x \in shown : x.name = "saved" /\ x.edge = req'[r].edge
            /\ \A q \in Requests :
                 ~(req[q].kind = "create" /\ req[q].edge = req'[r].edge)

LEMMA CalmCauses ==
  ASSUME TypesInv, Calm, NEW r \in Requests
  PROVE  CalmCause(r)
<1>1. ASSUME req'[r] = req[r] PROVE CalmCause(r)
  BY <1>1 DEF CalmCause
<1>2. CASE UNCHANGED vars \/ Lists
  BY <1>1, <1>2 DEF vars, Lists, NodesChange, Focus, ServeFetch, Fetched, ServeNodesFetch,
     NodesFetched, NodesFetchFailed
<1> SUFFICES ASSUME NEW s \in Requests, CalmGesture(s) \/ CalmServe(s) \/ Handle(s)
             PROVE  CalmCause(r)
  BY <1>2 DEF Calm
<1>3. ASSUME NEW kind, NEW e, NEW a, NEW b, Send(s, kind, e, a, b), row' = row,
             kind = "update" => e = None,
             kind = "create" => ~Used(e),
             kind = "delete" =>
               /\ e = None \/ \E x \in shown : x.name = "saved" /\ x.edge = e
               /\ \A q \in Requests : ~(req[q].kind = "create" /\ req[q].edge = e)
      PROVE  CalmCause(r)
  <2>1. CASE s = r
    <3> DEFINE q == [pc |-> "sent", kind |-> kind, edge |-> e, from |-> a, to |-> b]
    <3>0. req[r].pc = "free" /\ req' = [req EXCEPT ![r] = q]
      BY <1>3, <2>1 DEF Send
    <3>1. req[r].pc = "free" /\ req'[r].kind = kind /\ req'[r].edge = e
      BY <3>0 DEF TypesInv, TypeOK
    <3> QED
      BY <1>3, <3>1 DEF CalmCause
  <2>2. CASE s # r
    BY <1>1, <1>3, <2>2, SlotWritten DEF Send
  <2> QED
    BY <2>1, <2>2
<1>4. ASSUME NEW e \in Edges, NEW a \in Agents, NEW b \in Agents, Connect(s, e, a, b)
      PROVE  CalmCause(r)
  <2>1. Send(s, "create", e, a, b) /\ ~Used(e) /\ row' = row
    BY <1>4 DEF Connect
  <2> QED
    BY <1>3, <2>1
<1>5. ASSUME NEW x \in shown, DeleteEdge(s, x),
             \A q \in Requests : ~(req[q].kind = "create" /\ req[q].edge = RowOf(x))
      PROVE  CalmCause(r)
  <2>1. Send(s, "delete", RowOf(x), None, None) /\ row' = row
    BY <1>5 DEF DeleteEdge
  <2>2. RowOf(x) = None \/ (x.name = "saved" /\ x.edge = RowOf(x))
    BY DEF RowOf
  <2> QED
    BY <1>3, <1>5, <2>1, <2>2
<1>6. ASSUME NEW x \in shown, EditCondition(s, x), RowOf(x) = None PROVE CalmCause(r)
  <2>1. Send(s, "update", RowOf(x), x.from, x.to) /\ row' = row
    BY <1>6 DEF EditCondition
  <2> QED
    BY <1>3, <1>6, <2>1
<1>7. ASSUME NEW a \in Agents, NEW b \in Agents, AddAgent(s, a, b) PROVE CalmCause(r)
  <2>1. Send(s, "create_agent", None, a, b) /\ row' = row
    BY <1>7 DEF AddAgent
  <2> QED
    BY <1>3, <2>1
<1>8. ASSUME NEW a \in Agents, DeleteAgent(s, a) PROVE CalmCause(r)
  <2>1. Send(s, "delete_agent", None, a, None) /\ row' = row
    BY <1>8 DEF DeleteAgent
  <2> QED
    BY <1>3, <2>1
<1>9. CASE CalmServe(s)
  <2>1. s # r => req'[r] = req[r]
    BY <1>9, AnswerWritten DEF CalmServe, ServeCreate, ServeDelete, ServeCreateAgent,
       ServeDeleteAgent, Refuse
  <2>2. s = r => req[r].pc = "sent" /\ req'[r].pc \in {"ok", "failed"}
    BY <1>9, AnswerWritten DEF CalmServe, ServeCreate, ServeDelete, ServeCreateAgent,
       ServeDeleteAgent, Refuse, Asked
  <2>3. s = r /\ Refuse(r) => req'[r].pc = "failed"
    BY AnswerWritten DEF Refuse
  <2> QED
    BY <1>1, <1>9, <2>1, <2>2, <2>3 DEF CalmServe, ServeCreate, ServeDelete,
       ServeCreateAgent, ServeDeleteAgent, Asked, CalmCause
<1>10. CASE Handle(s)
  <2>1. s # r => req'[r] = req[r]
    BY <1>10, SlotWritten, AgentWritten DEF Handle, EdgeCreated, EdgeNotCreated, EdgeDeleted,
       AgentDeleted, OnlyReported, Done
  <2>2. s = r => req[r].pc \in {"ok", "failed"}
    BY <1>10 DEF Handle, EdgeCreated, EdgeNotCreated, EdgeDeleted, AgentDeleted,
       OnlyReported, AgentCreated
  <2>3. s = r /\ req[r].pc = "ok" =>
          \/ EdgeCreated(r) \/ EdgeDeleted(r) \/ AgentDeleted(r)
          \/ \E e \in Edges : AgentCreated(r, e)
    BY <1>10 DEF Handle, EdgeNotCreated, OnlyReported
  <2> QED
    BY <1>1, <2>1, <2>2, <2>3 DEF CalmCause
<1> QED
  BY <1>4, <1>5, <1>6, <1>7, <1>8, <1>9, <1>10 DEF CalmGesture

TidyInv == ~strayed => Tidy

\* Rows come with a creation and die with a deletion; none changes its ends.
LEMMA CalmRows ==
  ASSUME PagesInv, RequestsTidy, Calm, [Next]_vars, NEW e \in Edges
  PROVE  /\ e \in Existing => /\ e \in Existing' /\ (e \in Stored' => e \in Stored)
                              /\ row'[e].from = row[e].from /\ row'[e].to = row[e].to
         /\ e \in Existing' \ Existing =>
              \E r \in Requests : ServeCreate(r) /\ req[r].edge = e
         /\ e \in Stored \ Stored' =>
              \E r \in Requests :
                \/ ServeDelete(r) /\ req[r].edge = e
                \/ ServeDeleteAgent(r) /\ req[r].from \in {row[e].from, row[e].to}
<1>0. TypesInv /\ row \in [Edges -> EdgeRows]
  BY DEF PagesInv, TypesInv, TypeOK
<1>1. \/ row' = row
      \/ \E r \in Requests : ServeCreate(r) \/ ServeDelete(r) \/ ServeDeleteAgent(r)
  <2>1. ASSUME NEW r \in Requests PROVE ~ServeUpdate(r)
    BY DEF ServeUpdate, Asked, RequestsTidy, RequestTidy
  <2> QED
    BY <2>1, StoreSteps DEF Stores, AddAgent, ServeCreateAgent
<1>2. CASE row' = row
  BY <1>2 DEF Existing, Stored
<1>3. ASSUME NEW r \in Requests, ServeCreate(r)
      PROVE  /\ req[r].edge \notin Existing
             /\ e # req[r].edge => row'[e] = row[e]
  BY <1>0, <1>3 DEF ServeCreate, Asked, RequestsTidy, RequestTidy
<1>4. ASSUME NEW r \in Requests, ServeDelete(r)
      PROVE  /\ e # req[r].edge => row'[e] = row[e]
             /\ e = req[r].edge =>
                  /\ row[e].state = "live" /\ row'[e].state = "gone"
                  /\ row'[e].from = row[e].from /\ row'[e].to = row[e].to
  BY <1>0, <1>4 DEF ServeDelete, EdgeRows
<1>5. ASSUME NEW r \in Requests, ServeDeleteAgent(r)
      PROVE  \/ row'[e] = row[e]
             \/ /\ row[e].state # "absent" /\ row'[e].state = "gone"
                /\ row'[e].from = row[e].from /\ row'[e].to = row[e].to
                /\ req[r].from \in {row[e].from, row[e].to}
  BY <1>0, <1>5 DEF ServeDeleteAgent, EdgeRows
<1> QED
  BY <1>1, <1>2, <1>3, <1>4, <1>5 DEF Existing, Stored


LEMMA RequestsStep ==
  ASSUME PagesInv, RequestsTidy, ListsTidy, Calm, [Next]_vars
  PROVE  RequestsTidy'
<1>0. TypesInv /\ alive \subseteq Settled /\ None \notin Edges
  BY BuilderAssumption DEF PagesInv, PlacesOK
<1>2. ASSUME NEW r \in Requests PROVE RequestTidy(r)'
  <2>0. RequestTidy(r) /\ SlotMoves(r) /\ CalmCause(r) /\ SlotOK(req[r])
    BY <1>0, SlotSteps, CalmCauses DEF RequestsTidy, TypesInv
  <2>1. CASE req'[r] = req[r]
    <3>1. ASSUME req[r].kind = "create", req[r].pc = "sent"
          PROVE  req[r].edge \notin Existing'
      <4>1. req[r].edge \notin Existing /\ req[r].edge \in Edges
        BY <2>0, <3>1 DEF RequestTidy, SlotOK
      <4>2. ASSUME NEW s \in Requests, ServeCreate(s), req[s].edge = req[r].edge
            PROVE  FALSE
        <5>1. req'[s].pc = "ok" /\ req[s].kind = "create"
          BY <1>0, <4>2, AnswerWritten DEF ServeCreate, Asked
        <5>2. s # r
          BY <2>1, <3>1, <5>1
        <5> QED
          BY <3>1, <4>2, <5>1, <5>2 DEF RequestsTidy, EdgesApart
      <4> QED
        BY <4>1, <4>2, CalmRows
    <3>2. ASSUME req[r].kind = "create", req[r].pc = "ok"
          PROVE  /\ req[r].edge \in Existing'
                 /\ row'[req[r].edge].from = req[r].from /\ row'[req[r].edge].to = req[r].to
                 /\ \/ req[r].edge \in Stored'
                    \/ req[r].from \notin alive' \/ req[r].to \notin alive'
      <4> DEFINE e == req[r].edge
      <4>1. /\ e \in Edges /\ e \in Existing /\ row[e].from = req[r].from
            /\ row[e].to = req[r].to
            /\ e \in Stored \/ req[r].from \notin alive \/ req[r].to \notin alive
            /\ req[r].from \in Settled /\ req[r].to \in Settled
        BY <2>0, <3>2 DEF RequestTidy, Existing, PagesInv, PlacesOK, RowPlaced
      <4>2. CASE req[r].from \notin alive \/ req[r].to \notin alive
        BY <4>1, <4>2, CalmRows, DeadStay
      <4>3. CASE e \in Stored
        <5>1. ASSUME NEW s \in Requests, ServeDelete(s), req[s].edge = e PROVE FALSE
          BY <3>2, <5>1 DEF RequestsTidy, EdgesApart, ServeDelete, Asked
        <5>2. ASSUME NEW s \in Requests, ServeDeleteAgent(s),
                     req[s].from \in {row[e].from, row[e].to}
              PROVE  req[r].from \notin alive' \/ req[r].to \notin alive'
          BY <4>1, <5>2 DEF ServeDeleteAgent
        <5> QED
          BY <4>1, <4>3, <5>1, <5>2, CalmRows
      <4> QED
        BY <4>1, <4>2, <4>3
    <3>3. ASSUME req[r].kind = "delete"
          PROVE  /\ req[r].edge # None => req[r].edge \in Existing'
                 /\ req[r].pc = "ok" => req[r].edge \notin Stored'
      <4>1. /\ req[r].edge # None => req[r].edge \in Existing /\ req[r].edge \in Edges
            /\ req[r].pc = "ok" => req[r].edge \notin Stored
        BY <2>0, <3>3 DEF RequestTidy, Existing
      <4>2. CASE req[r].edge = None
        BY <1>0, <4>2 DEF Stored
      <4> QED
        BY <4>1, <4>2, CalmRows
    <3> QED
      BY <2>0, <2>1, <3>1, <3>2, <3>3 DEF RequestTidy
  <2>2. CASE Asks(r)
    <3>1. /\ req[r].pc = "free" /\ req'[r].pc = "sent" /\ row' = row
          /\ req'[r].kind = "update" => req'[r].edge = None
      BY <2>0, <2>2 DEF Asks, CalmCause
    <3>2. req'[r].kind = "create" => req'[r].edge \notin Existing
      BY <2>0, <3>1 DEF CalmCause, Used, Existing
    <3>3. req'[r].kind = "delete" => req'[r].edge = None \/ req'[r].edge \in Existing
      BY <2>0, <3>1 DEF CalmCause, ListsTidy
    <3> QED
      BY <3>1, <3>2, <3>3 DEF RequestTidy, Existing
  <2>3. CASE Answers(r)
    <3>1. /\ req'[r].kind = req[r].kind /\ req'[r].edge = req[r].edge
          /\ req'[r].from = req[r].from /\ req'[r].to = req[r].to
          /\ req'[r].pc \in {"ok", "failed"}
          /\ req'[r].pc = "ok" => req[r].pc = "sent"
      BY <2>3 DEF Answers
    <3>2. ASSUME req[r].kind = "create", req'[r].pc = "ok"
          PROVE  /\ req[r].edge \in Existing' /\ req[r].edge \in Stored'
                 /\ row'[req[r].edge].from = req[r].from /\ row'[req[r].edge].to = req[r].to
      <4>1. ServeCreate(r) /\ req[r].edge \in Edges
        BY <2>0, <3>1, <3>2 DEF CalmCause, SlotOK
      <4> QED
        BY <1>0, <4>1 DEF ServeCreate, Existing, Stored, TypesInv, TypeOK
    <3>3. ASSUME req[r].kind = "delete"
          PROVE  /\ req[r].edge # None => req[r].edge \in Existing'
                 /\ req'[r].pc = "ok" => req[r].edge \notin Stored'
      <4>1. req[r].edge # None => req[r].edge \in Existing /\ req[r].edge \in Edges
        BY <2>0, <3>3 DEF RequestTidy, Existing
      <4>2. req[r].edge # None => req[r].edge \in Existing'
        BY <4>1, CalmRows
      <4>3. ASSUME req'[r].pc = "ok" PROVE req[r].edge \notin Stored'
        <5>1. ServeDelete(r) /\ req[r].edge # None
          BY <2>0, <3>1, <3>3, <4>3 DEF CalmCause, ServeDelete
        <5> QED
          BY <1>0, <4>1, <5>1 DEF ServeDelete, Stored, TypesInv, TypeOK, EdgeRows
      <4> QED
        BY <4>2, <4>3
    <3> QED
      BY <2>0, <3>1, <3>2, <3>3 DEF RequestTidy
  <2>4. CASE req'[r] = Free
    BY <2>4, FreeTyped DEF RequestTidy
  <2>5. ASSUME NEW e \in Edges, AgentCreated(r, e) PROVE RequestTidy(r)'
    BY <1>0, <2>5, AgentWritten, FreeTyped DEF RequestTidy, Used, Existing
  <2> QED
    BY <2>0, <2>1, <2>2, <2>3, <2>4, <2>5 DEF SlotMoves
<1>3. EdgesApart'
  <2>1. ASSUME NEW r \in Requests, req'[r].kind \in {"create", "delete"}
        PROVE  \/ req[r].kind = req'[r].kind /\ req[r].edge = req'[r].edge
               \/ req[r].pc = "free" /\ req'[r].pc = "sent"
               \/ \E e \in Edges : AgentCreated(r, e)
    BY <1>0, <2>1, SlotSteps, FreeTyped DEF SlotMoves, Asks, Answers
  <2> SUFFICES ASSUME NEW r \in Requests, NEW s \in Requests, r # s,
                      req'[r].kind = "create", req'[s].kind \in {"create", "delete"},
                      req'[r].edge = req'[s].edge
               PROVE  FALSE
    BY DEF EdgesApart
  <2>2. ASSUME NEW x \in Requests, NEW y \in Requests, x # y,
               req[x].pc = "free", req'[x].pc = "sent",
               req'[x].kind \in {"create", "delete"},
               req'[y].kind \in {"create", "delete"},
               "create" \in {req'[x].kind, req'[y].kind},
               req'[x].edge = req'[y].edge
        PROVE  FALSE
    <3>1. CalmCause(x)
      BY <1>0, CalmCauses
    <3>2. CASE req[y].kind = req'[y].kind /\ req[y].edge = req'[y].edge
      BY <2>2, <3>1, <3>2 DEF CalmCause, Used
    <3>3. CASE req[y].pc = "free" /\ req'[y].pc = "sent"
      BY <1>0, <2>2, <3>3, OneAsks
    <3>4. ASSUME NEW e \in Edges, AgentCreated(y, e) PROVE FALSE
      BY <1>0, <2>2, <3>4, AgentWritten, FreeTyped
    <3> QED
      BY <2>1, <2>2, <3>2, <3>3, <3>4
  <2>3. ASSUME NEW x \in Requests, NEW y \in Requests, NEW e \in Edges, x # y,
               AgentCreated(x, e), req'[x].kind \in {"create", "delete"},
               req'[x].edge = req'[y].edge
        PROVE  FALSE
    BY <1>0, <2>3, AgentWritten, FreeTyped DEF Used
  <2>4. CASE req[r].pc = "free" /\ req'[r].pc = "sent"
    BY <2>2, <2>4
  <2>5. CASE req[s].pc = "free" /\ req'[s].pc = "sent"
    BY <2>2, <2>5
  <2> QED
    BY <2>1, <2>3, <2>4, <2>5 DEF RequestsTidy, EdgesApart
<1> QED
  BY <1>2, <1>3 DEF RequestsTidy

\* The page is redrawn from the list it has, or the agents stay.
LEMMA PageSteps ==
  ASSUME Calm
  PROVE  \/ \E edges :
              /\ \A x \in edges : x \in shown \/ x.name = "local"
              /\ shown' = Mirror(edges, cache', agents')
         \/ agents' = agents /\ cache' = cache /\ shown' = shown
         \/ /\ agents' = agents /\ cache' = cache
            /\ \E r \in Requests :
                 \/ \E e \in Edges, a, b \in Agents : Connect(r, e, a, b)
                 \/ EdgeCreated(r) \/ EdgeNotCreated(r) \/ EdgeDeleted(r)
<1>1. CASE UNCHANGED vars \/ \E r \in Requests : CalmServe(r)
  BY <1>1 DEF vars, CalmServe, ServeCreate, ServeDelete, ServeCreateAgent, ServeDeleteAgent,
     Refuse
<1>2. CASE Lists
  <2>1. \/ agents' = agents /\ cache' = cache /\ shown' = shown
        \/ shown' = Mirror(shown, cache', agents')
    BY <1>2 DEF Lists, NodesChange, Focus, ServeFetch, Fetched, ServeNodesFetch, NodesFetched,
       NodesFetchFailed
  <2> QED
    BY <2>1
<1>3. ASSUME NEW r \in Requests, CalmGesture(r)
      PROVE  \/ agents' = agents /\ cache' = cache /\ shown' = shown
             \/ /\ agents' = agents /\ cache' = cache
                /\ \E e \in Edges, a, b \in Agents : Connect(r, e, a, b)
  BY <1>3 DEF CalmGesture, Connect, EditCondition, DeleteEdge, AddAgent, DeleteAgent
<1>4. ASSUME NEW r \in Requests, EdgeCreated(r) \/ EdgeNotCreated(r) \/ EdgeDeleted(r)
      PROVE  agents' = agents /\ cache' = cache
  BY <1>4 DEF EdgeCreated, EdgeNotCreated, EdgeDeleted
<1>5. ASSUME NEW r \in Requests, OnlyReported(r)
      PROVE  agents' = agents /\ cache' = cache /\ shown' = shown
  BY <1>5 DEF OnlyReported
<1>6. ASSUME NEW r \in Requests, AgentDeleted(r)
      PROVE  \E edges :
               /\ \A x \in edges : x \in shown \/ x.name = "local"
               /\ shown' = Mirror(edges, cache', agents')
  <2> DEFINE kept == {x \in shown : req[r].from \notin {x.from, x.to}}
  <2>1. shown' = Mirror(kept, cache', agents') /\ \A x \in kept : x \in shown
    BY <1>6 DEF AgentDeleted
  <2> QED
    BY <2>1
<1>7. ASSUME NEW r \in Requests, NEW e \in Edges, AgentCreated(r, e)
      PROVE  \E edges :
               /\ \A x \in edges : x \in shown \/ x.name = "local"
               /\ shown' = Mirror(edges, cache', agents')
  <2> DEFINE local == [edge |-> e, from |-> req[r].from, to |-> req[r].to, name |-> "local"]
  <2>1. \/ shown' = Mirror(shown, cache', agents')
        \/ shown' = Mirror(shown \cup {local}, cache', agents')
    BY <1>7 DEF AgentCreated
  <2>2. local.name = "local"
    OBVIOUS
  <2> HIDE DEF local
  <2> QED
    BY <2>1, <2>2
<1> QED
  BY <1>1, <1>2, <1>3, <1>4, <1>5, <1>6, <1>7 DEF Calm, Handle

\* Where an edge that the page shows next comes from.
Familiar(x) ==
  \/ x.name = "temp"
  \/ x \in shown /\ x.name # "local"
  \/ x.name = "local" /\ x.from \notin agents'
  \/ \E y \in cache' : x = NamedBy(y, "saved")
  \/ \E r \in Requests : EdgeCreated(r) /\
       x = NamedBy([edge |-> req[r].edge, from |-> req[r].from, to |-> req[r].to], "saved")

LEMMA CalmLists ==
  ASSUME ListsTidy, Calm
  PROVE  /\ cache' = cache \/ cache' = fetch.data
         /\ fetch'.data \in {fetch.data, {}, LiveRows}
         /\ \A x \in shown' : Familiar(x)
<1>1. cache' = cache \/ cache' = fetch.data
  BY DEF Calm, vars, CalmGesture, CalmServe, Lists, Connect, EditCondition, DeleteEdge,
     AddAgent, DeleteAgent, ServeCreate, ServeDelete, ServeCreateAgent, ServeDeleteAgent,
     Refuse, Handle, EdgeCreated, EdgeNotCreated, EdgeDeleted, AgentDeleted, OnlyReported,
     AgentCreated, NodesChange, Focus, ServeFetch, Fetched, ServeNodesFetch, NodesFetched,
     NodesFetchFailed
<1>2. fetch'.data \in {fetch.data, {}, LiveRows}
  <2>1. Invalidate => fetch'.data = {}
    BY DEF Invalidate, Idle
  <2>2. fetch' = Idle => fetch'.data = {}
    BY DEF Idle
  <2>3. ServeFetch => fetch'.data = LiveRows
    BY DEF ServeFetch
  <2>4. Focus => fetch'.data \in {fetch.data, {}}
    BY DEF Focus, Refetched, Idle
  <2>5. ASSUME NEW r \in Requests, CalmGesture(r) \/ CalmServe(r) \/ Handle(r)
        PROVE  fetch' = fetch \/ Invalidate
    BY <2>5 DEF CalmGesture, CalmServe, Connect, EditCondition, DeleteEdge,
       AddAgent, DeleteAgent, ServeCreate, ServeDelete, ServeCreateAgent, ServeDeleteAgent,
       Refuse, Handle, EdgeCreated, EdgeNotCreated, EdgeDeleted, AfterDeletion, AgentDeleted,
       OnlyReported, AgentCreated
  <2>6. CASE UNCHANGED vars \/ Lists
    BY <2>2, <2>3, <2>4, <2>6 DEF vars, Lists, NodesChange, Fetched, ServeNodesFetch,
       NodesFetched, NodesFetchFailed
  <2> QED
    BY <2>1, <2>5, <2>6 DEF Calm
<1>3. ASSUME NEW x \in shown, agents' = agents PROVE Familiar(x)
  BY <1>3 DEF ListsTidy, Familiar
<1>4. ASSUME NEW edges, \A x \in edges : x \in shown \/ x.name = "local",
             shown' = Mirror(edges, cache', agents'), NEW x \in shown'
      PROVE  Familiar(x)
  BY <1>4 DEF Mirror, Serialized, Familiar
<1>5. ASSUME NEW r \in Requests, EdgeCreated(r), agents' = agents, NEW x \in shown'
      PROVE  Familiar(x)
  <2>1. x \in shown \/ x = NamedBy([edge |-> req[r].edge, from |-> req[r].from,
                                    to |-> req[r].to], "saved")
    BY <1>5 DEF EdgeCreated, Serialized
  <2> QED
    BY <1>3, <1>5, <2>1 DEF Familiar
<1>6. ASSUME NEW r \in Requests, EdgeNotCreated(r) \/ EdgeDeleted(r), agents' = agents,
             NEW x \in shown'
      PROVE  Familiar(x)
  <2>1. x \in shown
    BY <1>6 DEF EdgeNotCreated, RollBack, EdgeDeleted
  <2> QED
    BY <1>3, <1>6, <2>1
<1>7. ASSUME NEW r \in Requests, NEW e \in Edges, NEW a \in Agents, NEW b \in Agents,
             Connect(r, e, a, b), agents' = agents, NEW x \in shown'
      PROVE  Familiar(x)
  <2>1. x \in shown \/ x = [edge |-> e, from |-> a, to |-> b, name |-> "temp"]
    BY <1>7 DEF Connect
  <2> QED
    BY <1>3, <1>7, <2>1 DEF Familiar
<1>8. \A x \in shown' : Familiar(x)
  BY <1>3, <1>4, <1>5, <1>6, <1>7, PageSteps
<1> QED
  BY <1>1, <1>2, <1>8

LEMMA ListsStep ==
  ASSUME PagesInv, RequestsTidy, ListsTidy, Calm, [Next]_vars
  PROVE  ListsTidy'
<1>1. \A e \in Existing : e \in Existing' /\ Row(e)' = Row(e)
  BY CalmRows DEF Existing, Row
<1>2. \A x \in LiveRows : x.edge \in Existing /\ x = Row(x.edge)
  BY DEF LiveRows, Existing, Row
<1>3. \A x \in cache \cup fetch.data : x.edge \in Existing /\ x = Row(x.edge)
  BY DEF ListsTidy
<1>4. \A x \in cache' \cup fetch'.data : x.edge \in Existing /\ x = Row(x.edge)
  BY <1>2, <1>3, CalmLists
<1>5. \A x \in cache' \cup fetch'.data : x.edge \in Existing' /\ x = Row(x.edge)'
  BY <1>1, <1>4
<1>6. ASSUME NEW x \in shown'
      PROVE  /\ x.name \in {"temp", "local", "saved"}
             /\ x.name = "saved" => x.edge \in Existing /\ x = NamedBy(Row(x.edge), "saved")
             /\ x.name = "local" => x.from \notin agents'
  <2>1. CASE \/ x.name = "temp" \/ (x \in shown /\ x.name # "local")
             \/ (x.name = "local" /\ x.from \notin agents')
    BY <2>1 DEF ListsTidy
  <2>2. ASSUME NEW y \in cache', x = NamedBy(y, "saved")
        PROVE  /\ x.name = "saved" /\ x.edge \in Existing
               /\ x = NamedBy(Row(x.edge), "saved")
    <3>1. x.name = "saved" /\ x.edge = y.edge
      BY <2>2 DEF NamedBy
    <3> QED
      BY <1>4, <2>2, <3>1
  <2>3. ASSUME NEW r \in Requests, EdgeCreated(r),
               x = NamedBy([edge |-> req[r].edge, from |-> req[r].from, to |-> req[r].to],
                           "saved")
        PROVE  /\ x.name = "saved" /\ x.edge \in Existing
               /\ x = NamedBy(Row(x.edge), "saved")
    <3>1. x.name = "saved" /\ x.edge = req[r].edge
      BY <2>3 DEF NamedBy
    <3>2. /\ req[r].edge \in Existing /\ row[req[r].edge].from = req[r].from
          /\ row[req[r].edge].to = req[r].to
      BY <2>3 DEF EdgeCreated, RequestsTidy, RequestTidy
    <3> QED
      BY <2>3, <3>1, <3>2 DEF Row
  <2> QED
    BY <2>1, <2>2, <2>3, CalmLists DEF Familiar
<1>7. \A x \in shown' :
        /\ x.name \in {"temp", "local", "saved"}
        /\ x.name = "saved" => x.edge \in Existing' /\ x = NamedBy(Row(x.edge)', "saved")
        /\ x.name = "local" => x.from \notin agents'
  BY <1>1, <1>6
<1> QED
  BY <1>5, <1>7 DEF ListsTidy, NamedBy, Row

\* An edge that no answer on its way will put right was so before, unless the
\* answer has just come.
LEMMA ExposedStays ==
  ASSUME PagesInv, RequestsTidy, Calm, [Next]_vars, NEW e \in Exposed'
  PROVE  \/ e \in Exposed /\ (e \in Stored' <=> e \in Stored)
         \/ \E r \in Requests : (EdgeCreated(r) \/ EdgeDeleted(r)) /\ req[r].edge = e
<1>0. /\ TypesInv /\ e \in Edges /\ e \in Existing' /\ e \notin Excused'
      /\ row'[e].from \in alive' /\ row'[e].to \in alive'
  BY DEF PagesInv, Exposed, Existing
<1>1. ASSUME NEW r \in Requests, req'[r].pc = "ok", req'[r].kind \in {"create", "delete"},
             req'[r].edge = e
      PROVE  FALSE
  BY <1>0, <1>1 DEF Excused
<1>2. e \in Existing
  <2> SUFFICES ASSUME e \notin Existing PROVE FALSE
    OBVIOUS
  <2>1. PICK r \in Requests : ServeCreate(r) /\ req[r].edge = e
    BY <1>0, CalmRows
  <2> QED
    BY <1>0, <1>1, <2>1, AnswerWritten DEF ServeCreate, Asked
<1>3. row'[e].from = row[e].from /\ row'[e].to = row[e].to
  BY <1>0, <1>2, CalmRows
<1>4. row[e].from \in alive /\ row[e].to \in alive
  <2>1. row[e].from \in Settled /\ row[e].to \in Settled
    BY <1>0, <1>2 DEF PagesInv, PlacesOK, RowPlaced, Existing
  <2> QED
    BY <1>0, <1>3, <2>1, DeadStay
<1>5. e \in Stored' <=> e \in Stored
  <2>1. ASSUME NEW r \in Requests, ServeDelete(r), req[r].edge = e PROVE FALSE
    BY <1>0, <1>1, <2>1, AnswerWritten DEF ServeDelete, Asked
  <2>2. ASSUME NEW r \in Requests, ServeDeleteAgent(r),
               req[r].from \in {row[e].from, row[e].to}
        PROVE  FALSE
    BY <1>0, <1>3, <2>2 DEF ServeDeleteAgent
  <2> QED
    BY <1>0, <1>2, <2>1, <2>2, CalmRows
<1>6. CASE e \in Excused
  <2>1. PICK r \in Requests :
          req[r].pc = "ok" /\ req[r].kind \in {"create", "delete"} /\ req[r].edge = e
    BY <1>6 DEF Excused
  <2>2. req'[r] # req[r]
    BY <1>1, <2>1
  <2>3. EdgeCreated(r) \/ EdgeDeleted(r)
    BY <1>0, <2>1, <2>2, CalmCauses DEF CalmCause, AgentCreated, AgentDeleted
  <2> QED
    BY <2>1, <2>3
<1>7. CASE e \notin Excused
  BY <1>2, <1>4, <1>5, <1>7 DEF Exposed
<1> QED
  BY <1>6, <1>7

LEMMA DueSteps ==
  ASSUME Calm
  PROVE  /\ \/ fetch' = fetch /\ cache' = cache
            \/ fetch'.pc = "sent"
            \/ ServeFetch \/ Fetched
         /\ \A r \in Requests : EdgeCreated(r) \/ EdgeDeleted(r) =>
              fetch'.pc = "sent" /\ cache' = cache /\ agents' = agents /\ row' = row
<1>1. Invalidate => fetch'.pc = "sent"
  BY DEF Invalidate, Idle
<1>2. Focus => (fetch' = fetch /\ cache' = cache) \/ fetch'.pc = "sent"
  BY DEF Focus, Refetched, Idle
<1>3. ASSUME NEW r \in Requests, CalmGesture(r) \/ CalmServe(r) \/ Handle(r)
      PROVE  (fetch' = fetch /\ cache' = cache) \/ Invalidate
  BY <1>3 DEF CalmGesture, CalmServe, Connect, EditCondition, DeleteEdge, AddAgent,
     DeleteAgent, ServeCreate, ServeDelete, ServeCreateAgent, ServeDeleteAgent, Refuse,
     Handle, EdgeCreated, EdgeNotCreated, EdgeDeleted, AfterDeletion, AgentDeleted,
     OnlyReported, AgentCreated
<1>4. ASSUME UNCHANGED vars \/ Lists
      PROVE  \/ fetch' = fetch /\ cache' = cache
             \/ fetch'.pc = "sent" \/ ServeFetch \/ Fetched
  BY <1>2, <1>4 DEF vars, Lists, NodesChange, ServeNodesFetch, NodesFetched, NodesFetchFailed
<1>5. ASSUME NEW r \in Requests, EdgeCreated(r) \/ EdgeDeleted(r)
      PROVE  fetch'.pc = "sent" /\ cache' = cache /\ agents' = agents /\ row' = row
  BY <1>1, <1>5 DEF EdgeCreated, EdgeDeleted, AfterDeletion
<1> QED
  BY <1>1, <1>3, <1>4, <1>5 DEF Calm

LEMMA DueStep ==
  ASSUME PagesInv, RequestsTidy, DueIsStored, Calm, [Next]_vars
  PROVE  DueIsStored'
<1> SUFFICES ASSUME fetch'.pc # "sent", NEW e \in Exposed'
             PROVE  e \in DueIds' <=> e \in Stored'
  BY DEF DueIsStored
<1>1. e \in Exposed /\ (e \in Stored' <=> e \in Stored) /\ e \in Edges
  BY ExposedStays, DueSteps DEF Exposed, Existing
<1>2. CASE fetch' = fetch /\ cache' = cache
  BY <1>1, <1>2 DEF DueIsStored, DueIds, Due
<1>3. CASE ServeFetch
  <2>1. fetch'.pc = "served" /\ fetch'.data = LiveRows
    BY <1>3 DEF ServeFetch
  <2>2. DueIds' = {x.edge : x \in LiveRows}
    BY <2>1 DEF DueIds, Due
  <2>3. e \in {x.edge : x \in LiveRows} <=> e \in Stored
    <3>1. LiveRows = {Row(f) : f \in Stored}
      BY DEF LiveRows, Stored, Row
    <3>2. \A f \in Stored : Row(f).edge = f
      BY DEF Row
    <3> QED
      BY <3>1, <3>2
  <2> QED
    BY <1>1, <2>2, <2>3
<1>4. CASE Fetched
  <2>1. fetch.pc = "served" /\ cache' = fetch.data /\ fetch'.pc = "idle"
    BY <1>4 DEF Fetched, Idle
  <2>2. DueIds' = DueIds
    BY <2>1 DEF DueIds, Due
  <2> QED
    BY <1>1, <2>1, <2>2 DEF DueIsStored
<1> QED
  BY <1>2, <1>3, <1>4, DueSteps

\* The effect shows what is cached, of all edges with both ends on the page.
LEMMA RedrawStep ==
  ASSUME ListsTidy', NEW edges, shown' = Mirror(edges, cache', agents'), NEW e,
         row'[e].from \in agents', row'[e].to \in agents'
  PROVE  e \in SavedIds' <=> e \in CachedIds'
<1>2. ASSUME e \in CachedIds' PROVE e \in SavedIds'
  <2>1. PICK y \in cache' : y.edge = e
    BY <1>2 DEF CachedIds
  <2>2. y.from \in agents' /\ y.to \in agents'
    BY <2>1 DEF ListsTidy, Row
  <2>3. NamedBy(y, "saved") \in shown'
    BY <2>2 DEF Mirror, Serialized
  <2> QED
    BY <2>1, <2>3 DEF SavedIds, NamedBy
<1>3. ASSUME e \in SavedIds' PROVE e \in CachedIds'
  <2>1. PICK x \in shown' : x.name = "saved" /\ x.edge = e
    BY <1>3 DEF SavedIds
  <2>2. x.from = row'[e].from
    BY <2>1 DEF ListsTidy, NamedBy, Row
  <2>3. PICK y \in cache' : x = NamedBy(y, "saved")
    BY <2>1, <2>2 DEF Mirror, Serialized
  <2> QED
    BY <2>1, <2>3 DEF CachedIds, NamedBy
<1> QED
  BY <1>2, <1>3

LEMMA SavedSteps ==
  ASSUME Calm
  PROVE  \/ SavedIds' = SavedIds /\ CachedIds' = CachedIds /\ agents' = agents
         \/ \E edges : shown' = Mirror(edges, cache', agents')
         \/ \E r \in Requests : EdgeCreated(r) \/ EdgeDeleted(r)
<1>1. ASSUME shown' = shown, cache' = cache
      PROVE  SavedIds' = SavedIds /\ CachedIds' = CachedIds
  BY <1>1 DEF SavedIds, CachedIds
<1>2. ASSUME NEW r \in Requests, NEW e \in Edges, NEW a \in Agents, NEW b \in Agents,
             Connect(r, e, a, b)
      PROVE  SavedIds' = SavedIds /\ CachedIds' = CachedIds
  <2>1. /\ {y \in shown' : y.name = "saved"} = {y \in shown : y.name = "saved"}
        /\ cache' = cache
    BY <1>2 DEF Connect
  <2> QED
    BY <2>1 DEF SavedIds, CachedIds
<1>3. ASSUME NEW r \in Requests, EdgeNotCreated(r)
      PROVE  SavedIds' = SavedIds /\ CachedIds' = CachedIds
  <2>1. /\ {y \in shown' : y.name = "saved"} = {y \in shown : y.name = "saved"}
        /\ cache' = cache
    BY <1>3 DEF EdgeNotCreated, RollBack
  <2> QED
    BY <2>1 DEF SavedIds, CachedIds
<1> QED
  BY <1>1, <1>2, <1>3, PageSteps

LEMMA KnownStep ==
  ASSUME PagesInv, Tidy, ListsTidy', Calm, [Next]_vars
  PROVE  ShownIsKnown'
<1>0. TypesInv /\ RequestsTidy /\ ShownIsKnown
  BY DEF PagesInv, Tidy
<1> SUFFICES ASSUME NEW e \in Exposed', OnPage(e)'
             PROVE  (e \in SavedIds' <=> e \in CachedIds') \/ (e \in SavedIds' <=> e \in Stored')
  BY DEF ShownIsKnown
<1>1. /\ e \in Edges /\ row'[e].from \in agents' /\ row'[e].to \in agents'
      /\ row'[e].from \in alive' /\ row'[e].to \in alive'
  BY DEF Exposed, Existing, OnPage
<1>2. ASSUME NEW r \in Requests, EdgeCreated(r), req[r].edge = e
      PROVE  e \in SavedIds' /\ e \in Stored'
  <2>1. /\ row' = row /\ agents' = agents /\ alive' = alive
        /\ row[e].from = req[r].from /\ row[e].to = req[r].to
        /\ e \in Stored \/ req[r].from \notin alive \/ req[r].to \notin alive
    BY <1>0, <1>2 DEF EdgeCreated, RequestsTidy, RequestTidy
  <2> DEFINE y == [edge |-> req[r].edge, from |-> req[r].from, to |-> req[r].to]
  <2>2. NamedBy(y, "saved") \in Serialized({y}, agents)
    BY <1>1, <2>1 DEF Serialized
  <2>3. NamedBy(y, "saved") \in shown'
    BY <1>2, <2>2 DEF EdgeCreated
  <2>4. e \in SavedIds'
    BY <1>2, <2>3 DEF SavedIds, NamedBy
  <2> QED
    BY <1>1, <2>1, <2>4 DEF Stored
<1>3. ASSUME NEW r \in Requests, EdgeDeleted(r), req[r].edge = e
      PROVE  e \notin SavedIds' /\ e \notin Stored'
  <2>1. row' = row /\ e \notin Stored
    BY <1>0, <1>3 DEF EdgeDeleted, RequestsTidy, RequestTidy
  <2> QED
    BY <1>3, <2>1 DEF EdgeDeleted, SavedIds, Stored
<1>4. ASSUME e \in Exposed, e \in Stored' <=> e \in Stored,
             NEW r \in Requests, EdgeCreated(r) \/ EdgeDeleted(r), req[r].edge # e
      PROVE  (e \in SavedIds' <=> e \in CachedIds') \/ (e \in SavedIds' <=> e \in Stored')
  <2>1. CachedIds' = CachedIds /\ OnPage(e)
    BY <1>1, <1>4, DueSteps DEF CachedIds, OnPage
  <2>2. CASE EdgeCreated(r)
    <3> DEFINE y == [edge |-> req[r].edge, from |-> req[r].from, to |-> req[r].to]
               temp == {x \in shown : x.edge = req[r].edge /\ x.name = "temp"}
    <3>1. shown' = shown \/ shown' = (shown \ temp) \cup Serialized({y}, agents)
      BY <2>2 DEF EdgeCreated
    <3>2. \A x \in Serialized({y}, agents) : x.edge = req[r].edge
      BY DEF Serialized, NamedBy
    <3>3. \A x : x.edge = e => (x \in shown' <=> x \in shown)
      BY <1>4, <3>1, <3>2
    <3> HIDE DEF temp, y
    <3>4. e \in SavedIds' <=> e \in SavedIds
      BY <3>3 DEF SavedIds
    <3> QED
      BY <1>0, <1>4, <2>1, <3>4 DEF ShownIsKnown
  <2>3. CASE EdgeDeleted(r)
    <3>1. \A x : x.edge = e => (x \in shown' <=> x \in shown)
      BY <1>4, <2>3 DEF EdgeDeleted
    <3>2. e \in SavedIds' <=> e \in SavedIds
      BY <3>1 DEF SavedIds
    <3> QED
      BY <1>0, <1>4, <2>1, <3>2 DEF ShownIsKnown
  <2> QED
    BY <1>4, <2>2, <2>3
<1>5. CASE e \in Exposed /\ (e \in Stored' <=> e \in Stored)
  <2>1. CASE SavedIds' = SavedIds /\ CachedIds' = CachedIds /\ agents' = agents
    <3>1. row'[e].from = row[e].from /\ row'[e].to = row[e].to
      BY <1>0, <1>1, <1>5, CalmRows DEF Exposed
    <3>2. OnPage(e)
      BY <1>1, <2>1, <3>1 DEF OnPage
    <3> QED
      BY <1>0, <1>5, <2>1, <3>2 DEF ShownIsKnown
  <2>2. CASE \E edges : shown' = Mirror(edges, cache', agents')
    BY <1>1, <2>2, RedrawStep
  <2>3. ASSUME NEW r \in Requests, EdgeCreated(r) \/ EdgeDeleted(r)
        PROVE  (e \in SavedIds' <=> e \in CachedIds') \/ (e \in SavedIds' <=> e \in Stored')
    BY <1>2, <1>3, <1>4, <1>5, <2>3
  <2> QED
    BY <2>1, <2>2, <2>3, SavedSteps
<1>6. CASE \E r \in Requests : (EdgeCreated(r) \/ EdgeDeleted(r)) /\ req[r].edge = e
  BY <1>2, <1>3, <1>6
<1> QED
  BY <1>0, <1>5, <1>6, ExposedStays

LEMMA TidyInductive ==
  /\ Init => PagesInv /\ TidyInv
  /\ PagesInv /\ TidyInv /\ [Next]_vars => PagesInv' /\ TidyInv'
<1>1. ASSUME Init PROVE PagesInv /\ TidyInv
  <2>1. \A r \in Requests : req[r] = Free
    BY <1>1 DEF Init
  <2>2. \A e \in Edges : row[e].state = "absent"
    BY <1>1 DEF Init, Absent
  <2>3. TypesInv /\ ShownOK /\ PlacesOK
    BY <1>1, <2>1, <2>2, FreeTyped, TypesInductive
       DEF Init, ShownOK, PlacesOK, Settled, Coming, RowPlaced, NewAgentsDiffer
  <2>4. RequestsTidy
    BY <2>1, FreeTyped DEF RequestsTidy, RequestTidy, EdgesApart
  <2>5. fetch.data = {} /\ Existing = {}
    BY <1>1, <2>2 DEF Init, Idle, Existing
  <2> QED
    BY <1>1, <2>3, <2>4, <2>5
       DEF Init, PagesInv, TidyInv, Tidy, ListsTidy, DueIsStored, ShownIsKnown, Exposed
<1>2. ASSUME PagesInv, TidyInv, [Next]_vars PROVE PagesInv' /\ TidyInv'
  <2>1. PagesInv'
    BY <1>2, TypesInductive, ShownStep, PlacesStep DEF PagesInv
  <2>2. ASSUME ~strayed' PROVE Tidy'
    <3>1. ~strayed => RequestsTidy
      BY <1>2 DEF TidyInv, Tidy
    <3>2. ~strayed /\ Calm
      BY <1>2, <2>2, <3>1, CalmSteps DEF PagesInv
    <3>3. Tidy /\ RequestsTidy /\ ListsTidy /\ DueIsStored
      BY <1>2, <3>2 DEF TidyInv, Tidy
    <3>4. ListsTidy'
      BY <1>2, <3>2, <3>3, ListsStep
    <3> QED
      BY <1>2, <3>2, <3>3, <3>4, RequestsStep, DueStep, KnownStep DEF Tidy
  <2> QED
    BY <2>1, <2>2 DEF TidyInv
<1> QED
  BY <1>1, <1>2

LEMMA TidyShows == PagesInv /\ TidyInv => PageShowsServer
<1> DEFINE drawn == {x \in shown : {x.from, x.to} \subseteq agents \cap alive}
<1> SUFFICES ASSUME PagesInv, TidyInv, Quiet, ~strayed
             PROVE  drawn = Serialized(LiveRows, agents)
  BY DEF PageShowsServer
<1>0. ListsTidy /\ DueIsStored /\ ShownIsKnown /\ ShownOK /\ PlacesOK
  BY DEF TidyInv, Tidy, PagesInv
<1>1. Excused = {} /\ Due = cache /\ fetch.pc # "sent"
  BY DEF Quiet, Excused, Due
<1>2. ASSUME NEW e \in Existing, OnPage(e), {row[e].from, row[e].to} \subseteq alive
      PROVE  e \in SavedIds <=> e \in Stored
  <2>1. e \in Exposed
    BY <1>1, <1>2 DEF Exposed
  <2>2. DueIds = CachedIds
    BY <1>1 DEF DueIds, CachedIds
  <2> QED
    BY <1>0, <1>1, <1>2, <2>1, <2>2 DEF DueIsStored, ShownIsKnown
<1>3. LiveRows = {Row(e) : e \in Stored} /\ Stored \subseteq Existing
  BY DEF LiveRows, Stored, Existing, Row
<1>4. ASSUME NEW x \in drawn PROVE x \in Serialized(LiveRows, agents)
  <2>1. x \in shown /\ {x.from, x.to} \subseteq agents /\ {x.from, x.to} \subseteq alive
    OBVIOUS
  <2>2. x.name = "saved" /\ x.edge \in Existing /\ x = NamedBy(Row(x.edge), "saved")
    BY <1>0, <2>1 DEF ListsTidy, ShownOK, Awaits, Quiet
  <2>3. row[x.edge].from = x.from /\ row[x.edge].to = x.to
    BY <2>2 DEF NamedBy, Row
  <2>4. x.edge \in Stored
    BY <1>2, <2>1, <2>2, <2>3 DEF SavedIds, OnPage
  <2> QED
    BY <1>3, <2>1, <2>2, <2>3, <2>4 DEF Serialized, Row
<1>5. ASSUME NEW x \in Serialized(LiveRows, agents) PROVE x \in drawn
  <2>1. PICK y \in LiveRows : {y.from, y.to} \subseteq agents /\ x = NamedBy(y, "saved")
    BY DEF Serialized
  <2>2. PICK e \in Stored : y = Row(e)
    BY <1>3
  <2>3. /\ e \in Existing /\ e \in Edges /\ OnPage(e)
        /\ row[e].from \in alive /\ row[e].to \in alive
    BY <1>0, <1>3, <2>1, <2>2 DEF Row, OnPage, Stored, PlacesOK, RowPlaced
  <2>4. PICK z \in shown : z.name = "saved" /\ z.edge = e
    BY <1>2, <2>3 DEF SavedIds
  <2>5. x \in shown
    BY <1>0, <2>1, <2>2, <2>4 DEF ListsTidy
  <2>6. x.from = row[e].from /\ x.to = row[e].to
    BY <2>1, <2>2 DEF NamedBy, Row
  <2> QED
    BY <2>3, <2>5, <2>6 DEF OnPage
<1> QED
  BY <1>4, <1>5

\* In whatever order requests are served and answered and whichever of them are
\* refused, whatever agents a late list takes off the page or brings back, the
\* page ends up with the edges the server has between its agents, unless an
\* update, an edge deleted too early or by key, or a lost answer has led it
\* astray.
THEOREM PageFollowsServer == Spec => []PageShowsServer
BY TidyInductive, TidyShows, PTL DEF Spec

=============================================================================
