----------------------------- MODULE BuilderEdges -----------------------------
(***************************************************************************)
(* The hand-off edges of the builder's canvas (useWorkflowBuilder).  The   *)
(* page shows what it hopes the server will say; its picture comes from    *)
(* four sources: the user's gestures, the answers to its requests, the     *)
(* cached list of edges, and the cached list again whenever the nodes      *)
(* change.  The nodes come from the answers to the user's gestures and     *)
(* from a query of their own, which knows nothing of the gestures.         *)
(* Requests overlap and are served and answered in any order.              *)
(***************************************************************************)
EXTENDS FiniteSets

CONSTANTS
  Agents,
  Initial,     \* the agents the page was loaded with
  Start,       \* the one marked initial, which the page refuses to delete
  Edges,       \* identities of edges: bounds how many are drawn in a run
  Requests,    \* slots for mutations in flight
  None

ASSUME BuilderAssumption ==
  /\ Start \in Initial /\ Initial \subseteq Agents
  /\ None \notin Agents \cup Edges

VARIABLES
  agents,  \* the agents on the page
  shown,   \* the edges on the page
  cache,   \* fetchedEdges, the query's data
  fetch,   \* the query's request
  nodesCache,  \* the agents of fetchedNodes
  nodesFetch,  \* that query's request
  req,     \* the mutations in flight
  alive,   \* the server's agents
  known,   \* the ids that agents have had: none is given out twice
  row,     \* the server's edges
  strayed  \* history: something happened that the page does not make up for

nodesQuery == <<nodesCache, nodesFetch>>

vars == <<agents, shown, cache, fetch, nodesQuery, req, alive, known, row, strayed>>

Ends == [edge : Edges, from : Agents, to : Agents]

\* How the page names an edge: by its temp id and with the temp flag, with the
\* flag but by an id React Flow made up when it was moved, by an id made up on
\* the page, or by the server's id.
ShownEdges == [edge : Edges, from : Agents, to : Agents,
               name : {"temp", "moved", "local", "saved"}]

\* "hidden": a row whose tenant was emptied, see EdgeRepository.update.
EdgeRows == [state : {"absent", "live", "hidden", "gone"},
             from : Agents \cup {None}, to : Agents \cup {None}]

Absent == [state |-> "absent", from |-> None, to |-> None]

RequestStates ==
  [pc : {"free", "sent", "ok", "failed"},
   kind : {"none", "create", "update", "delete", "create_agent", "delete_agent"},
   edge : Edges \cup {None}, from : Agents \cup {None}, to : Agents \cup {None}]

Free == [pc |-> "free", kind |-> "none", edge |-> None, from |-> None, to |-> None]

Idle == [pc |-> "idle", data |-> {}]

Init ==
  /\ agents = Initial
  /\ shown = {}
  /\ cache = {}
  /\ fetch = Idle
  /\ nodesCache = Initial /\ nodesFetch = Idle
  /\ req = [r \in Requests |-> Free]
  /\ alive = Initial
  /\ known = Initial
  /\ row = [e \in Edges |-> Absent]
  /\ strayed = FALSE

-----------------------------------------------------------------------------

NamedBy(x, name) == [edge |-> x.edge, from |-> x.from, to |-> x.to, name |-> name]

\* edgeSerializer: an edge one of whose nodes is not on the page is left out.
Serialized(data, nodes) ==
  {NamedBy(x, "saved") : x \in {y \in data : {y.from, y.to} \subseteq nodes}}

\* The effect on [fetchedEdges, nodes]: what starts at an agent is replaced by
\* the cached edges.
Mirror(edges, data, nodes) ==
  {x \in edges : x.from \notin nodes} \cup Serialized(data, nodes)

\* invalidateQueries drops the fetch that is under way and starts another.
Invalidate == fetch' = [Idle EXCEPT !.pc = "sent"]

Used(e) == row[e].state # "absent" \/ \E r \in Requests : req[r].edge = e

Send(r, kind, e, a, b) ==
  /\ req[r].pc = "free"
  /\ req' = [req EXCEPT ![r] =
       [pc |-> "sent", kind |-> kind, edge |-> e, from |-> a, to |-> b]]

Done(r) == req' = [req EXCEPT ![r] = Free]

Strays(now) == strayed' = (strayed \/ now)

\* React Flow draws an edge between two nodes it has.
Drawn(x) == x \in shown /\ {x.from, x.to} \subseteq agents

\* The edge of the server that a request for x is about: ids made up on the page
\* are ids of none.
RowOf(x) == IF x.name = "saved" THEN x.edge ELSE None

-----------------------------------------------------------------------------
(* The user.                                                                *)

\* addEdge adds no second edge between the same two handles; the request is
\* sent all the same.
Connect(r, e, a, b) ==
  /\ {a, b} \subseteq agents /\ a # b
  /\ ~Used(e)
  /\ Send(r, "create", e, a, b)
  /\ shown' = IF \E x \in shown : x.from = a /\ x.to = b THEN shown
              ELSE shown \cup {[edge |-> e, from |-> a, to |-> b, name |-> "temp"]}
  /\ UNCHANGED <<agents, cache, fetch, nodesQuery, alive, known, row, strayed>>

\* reconnectEdge gives the edge a new id, which the page never matches again.
Reconnect(r, x, a, b) ==
  /\ Drawn(x) /\ (a = x.from \/ b = x.to)
  /\ {a, b} \subseteq agents /\ a # b
  /\ Send(r, "update", RowOf(x), a, b)
  /\ shown' = (shown \ {x}) \cup
       {[edge |-> x.edge, from |-> a, to |-> b,
         name |-> IF x.name \in {"temp", "moved"} THEN "moved" ELSE "local"]}
  /\ Strays(TRUE)
  /\ UNCHANGED <<agents, cache, fetch, nodesQuery, alive, known, row>>

\* updateEdgeData: what the panel says of the edge is sent as it is typed.
EditCondition(r, x) ==
  /\ Drawn(x)
  /\ Send(r, "update", RowOf(x), x.from, x.to)
  /\ Strays(x.name = "saved")
  /\ UNCHANGED <<agents, shown, cache, fetch, nodesQuery, alive, known, row>>

\* It strays if a fetch has shown the edge before its creation is answered.  The
\* panel stays open when an end of its edge has left the page.
DeleteEdge(r, x) ==
  /\ x \in shown
  /\ Send(r, "delete", RowOf(x), None, None)
  /\ Strays(\E q \in Requests : req[q].kind = "create" /\ req[q].edge = RowOf(x))
  /\ UNCHANGED <<agents, shown, cache, fetch, nodesQuery, alive, known, row>>

\* React Flow's own key: the edge leaves the page only.
Backspace(x) ==
  /\ Drawn(x)
  /\ shown' = shown \ {x}
  /\ Strays(TRUE)
  /\ UNCHANGED <<agents, cache, fetch, nodesQuery, req, alive, known, row>>

AddAgent(r, a, b) ==
  /\ a \in agents /\ b \notin known
  /\ Send(r, "create_agent", None, a, b)
  /\ known' = known \cup {b}
  /\ UNCHANGED <<agents, shown, cache, fetch, nodesQuery, alive, row, strayed>>

DeleteAgent(r, a) ==
  /\ a \in agents \ {Start}
  /\ Send(r, "delete_agent", None, a, None)
  /\ UNCHANGED <<agents, shown, cache, fetch, nodesQuery, alive, known, row, strayed>>

\* Any change of the nodes, a selection or a drag, runs the effect.
NodesChange ==
  /\ shown' = Mirror(shown, cache, agents)
  /\ UNCHANGED <<agents, cache, fetch, nodesQuery, req, alive, known, row, strayed>>

Refetched(f) == IF f.pc = "idle" THEN [Idle EXCEPT !.pc = "sent"] ELSE f

\* Both queries are stale at once; a fetch that is under way is not repeated.
Focus ==
  /\ "idle" \in {fetch.pc, nodesFetch.pc}
  /\ fetch' = Refetched(fetch) /\ nodesFetch' = Refetched(nodesFetch)
  /\ UNCHANGED <<agents, shown, cache, nodesCache, req, alive, known, row, strayed>>

-----------------------------------------------------------------------------
(* The server.                                                              *)

Answer(r, pc) == req' = [req EXCEPT ![r].pc = pc]

Asked(r, kind) == req[r].pc = "sent" /\ req[r].kind = kind

ServeCreate(r) ==
  /\ Asked(r, "create") /\ {req[r].from, req[r].to} \subseteq alive
  /\ row' = [row EXCEPT ![req[r].edge] =
       [state |-> "live", from |-> req[r].from, to |-> req[r].to]]
  /\ Answer(r, "ok")
  /\ UNCHANGED <<agents, shown, cache, fetch, nodesQuery, alive, known, strayed>>

\* The foreign keys, a row that is not there or not visible, or any failure.
Refuse(r) ==
  /\ req[r].pc = "sent"
  /\ Answer(r, "failed")
  /\ UNCHANGED <<agents, shown, cache, fetch, nodesQuery, alive, known, row, strayed>>

\* The update is committed and then answered with an error.
ServeUpdate(r) ==
  /\ Asked(r, "update") /\ req[r].edge # None /\ row[req[r].edge].state = "live"
  /\ {req[r].from, req[r].to} \subseteq alive
  /\ row' = [row EXCEPT ![req[r].edge] =
       [state |-> "hidden", from |-> req[r].from, to |-> req[r].to]]
  /\ Answer(r, "failed")
  /\ UNCHANGED <<agents, shown, cache, fetch, nodesQuery, alive, known, strayed>>

ServeDelete(r) ==
  /\ Asked(r, "delete") /\ req[r].edge # None /\ row[req[r].edge].state = "live"
  /\ row' = [row EXCEPT ![req[r].edge].state = "gone"]
  /\ Answer(r, "ok")
  /\ UNCHANGED <<agents, shown, cache, fetch, nodesQuery, alive, known, strayed>>

ServeCreateAgent(r) ==
  /\ Asked(r, "create_agent")
  /\ alive' = alive \cup {req[r].to}
  /\ Answer(r, "ok")
  /\ UNCHANGED <<agents, shown, cache, fetch, nodesQuery, known, row, strayed>>

ServeDeleteAgent(r) ==
  LET a == req[r].from IN
  /\ Asked(r, "delete_agent") /\ a \in alive
  /\ alive' = alive \ {a}
  /\ row' = [e \in Edges |->
       IF row[e].state \in {"live", "hidden"} /\ a \in {row[e].from, row[e].to}
         THEN [row[e] EXCEPT !.state = "gone"] ELSE row[e]]
  /\ Answer(r, "ok")
  /\ UNCHANGED <<agents, shown, cache, fetch, nodesQuery, known, strayed>>

\* The answer does not arrive in time.
LoseAnswer(r) ==
  /\ req[r].pc = "ok"
  /\ Answer(r, "failed")
  /\ Strays(TRUE)
  /\ UNCHANGED <<agents, shown, cache, fetch, nodesQuery, alive, known, row>>

\* Slip: the query has lost its filter.
EveryRow ==
  {[edge |-> e, from |-> row[e].from, to |-> row[e].to] : e \in Edges}

LiveRows ==
  {[edge |-> e, from |-> row[e].from, to |-> row[e].to] :
     e \in {f \in Edges : row[f].state = "live"}}

ServeFetch ==
  /\ fetch.pc = "sent"
  /\ fetch' = [pc |-> "served", data |-> LiveRows]
  /\ UNCHANGED <<agents, shown, cache, nodesQuery, req, alive, known, row, strayed>>

ServeNodesFetch ==
  /\ nodesFetch.pc = "sent"
  /\ nodesFetch' = [pc |-> "served", data |-> alive]
  /\ UNCHANGED <<agents, shown, cache, fetch, nodesCache, req, alive, known, row, strayed>>

-----------------------------------------------------------------------------
(* The answers.                                                             *)

\* React Query keeps the old list when the new one is equal: no effect runs.
Fetched ==
  /\ fetch.pc = "served"
  /\ cache' = fetch.data
  /\ shown' = IF fetch.data = cache THEN shown
              ELSE Mirror(shown, fetch.data, agents)
  /\ fetch' = Idle
  /\ UNCHANGED <<nodesQuery, agents, req, alive, known, row, strayed>>

\* The nodes become those of the answer, unless nothing at all has changed in
\* it; where the nodes are and what they say may have.
NodesFetched ==
  /\ nodesFetch.pc = "served"
  /\ nodesCache' = nodesFetch.data
  /\ \/ nodesFetch.data = nodesCache /\ UNCHANGED <<agents, shown>>
     \/ /\ agents' = nodesFetch.data
        /\ shown' = Mirror(shown, cache, nodesFetch.data)
  /\ nodesFetch' = Idle
  /\ UNCHANGED <<cache, fetch, req, alive, known, row, strayed>>

\* The edges cannot be fetched, retries included.
FetchFailed ==
  /\ fetch.pc # "idle"
  /\ fetch' = Idle
  /\ Strays(TRUE)
  /\ UNCHANGED <<nodesQuery, agents, shown, cache, req, alive, known, row>>

NodesFetchFailed ==
  /\ nodesFetch.pc # "idle"
  /\ nodesFetch' = Idle
  /\ UNCHANGED <<agents, shown, cache, fetch, nodesCache, req, alive, known, row, strayed>>

\* The edge takes the server's id, in the place of its temp edge or as one more
\* if that is gone by now.
EdgeCreated(r) ==
  LET e == req[r].edge
      new == Serialized({[edge |-> e, from |-> req[r].from, to |-> req[r].to]}, agents)
      temp == {x \in shown : x.edge = e /\ x.name = "temp"}
  IN
  /\ req[r].pc = "ok" /\ req[r].kind = "create"
  /\ shown' = IF new = {} THEN shown ELSE (shown \ temp) \cup new
  /\ Invalidate
  /\ Done(r)
  /\ UNCHANGED <<nodesQuery, agents, cache, alive, known, row, strayed>>

\* Slip: nothing is rolled back.
RollBackNothing == shown

RollBack == {x \in shown : x.name \notin {"temp", "moved"}}

\* "rollback any temp edge": those of other requests too.
EdgeNotCreated(r) ==
  /\ req[r].pc = "failed" /\ req[r].kind = "create"
  /\ shown' = RollBack
  /\ Done(r)
  /\ UNCHANGED <<agents, cache, fetch, nodesQuery, alive, known, row, strayed>>

\* Slip: the cached list is not fetched again after a deletion.
NotInvalidated == UNCHANGED fetch

AfterDeletion == Invalidate

EdgeDeleted(r) ==
  /\ req[r].pc = "ok" /\ req[r].kind = "delete"
  /\ shown' = {x \in shown : ~(x.edge = req[r].edge /\ x.name = "saved")}
  /\ AfterDeletion
  /\ Done(r)
  /\ UNCHANGED <<nodesQuery, agents, cache, alive, known, row, strayed>>

\* The new node runs the effect, which drops the edge drawn along with it; the
\* edge comes back when the request for it, sent now, is answered.  If the agent
\* it starts at has left the page, the edge stays and no request is sent.
AgentCreated(r, e) ==
  LET a == req[r].from
      b == req[r].to
      nodes == agents \cup {b}
  IN
  /\ req[r].pc = "ok" /\ req[r].kind = "create_agent"
  /\ ~Used(e)
  /\ agents' = nodes
  /\ IF a \in agents
       THEN /\ shown' = Mirror(shown, cache, nodes)
            /\ req' = [req EXCEPT ![r].pc = "sent", ![r].kind = "create", ![r].edge = e]
       ELSE /\ shown' = Mirror(shown \cup {[edge |-> e, from |-> a, to |-> b, name |-> "local"]},
                               cache, nodes)
            /\ Done(r)
  /\ UNCHANGED <<cache, fetch, nodesQuery, alive, known, row, strayed>>

AgentDeleted(r) ==
  LET nodes == agents \ {req[r].from}
      kept == {x \in shown : req[r].from \notin {x.from, x.to}}
  IN
  /\ req[r].pc = "ok" /\ req[r].kind = "delete_agent"
  /\ agents' = nodes
  /\ shown' = Mirror(kept, cache, nodes)
  /\ Done(r)
  /\ UNCHANGED <<cache, fetch, nodesQuery, alive, known, row, strayed>>

\* A message to the user, nothing else.
OnlyReported(r) ==
  /\ req[r].pc = "failed" /\ req[r].kind # "create"
  /\ Done(r)
  /\ UNCHANGED <<agents, shown, cache, fetch, nodesQuery, alive, known, row, strayed>>

Serve(r) ==
  \/ ServeCreate(r) \/ ServeUpdate(r) \/ ServeDelete(r) \/ ServeCreateAgent(r)
  \/ ServeDeleteAgent(r) \/ Refuse(r)

Handle(r) ==
  \/ EdgeCreated(r) \/ EdgeNotCreated(r) \/ EdgeDeleted(r) \/ AgentDeleted(r)
  \/ OnlyReported(r)
  \/ \E e \in Edges : AgentCreated(r, e)

Next ==
  \/ \E r \in Requests :
       \/ \E e \in Edges, a, b \in Agents : Connect(r, e, a, b)
       \/ \E x \in shown, a, b \in Agents : Reconnect(r, x, a, b)
       \/ \E x \in shown : EditCondition(r, x) \/ DeleteEdge(r, x)
       \/ \E a, b \in Agents : AddAgent(r, a, b)
       \/ \E a \in Agents : DeleteAgent(r, a)
       \/ Serve(r) \/ LoseAnswer(r) \/ Handle(r)
  \/ \E x \in shown : Backspace(x)
  \/ NodesChange \/ Focus
  \/ ServeFetch \/ Fetched \/ FetchFailed
  \/ ServeNodesFetch \/ NodesFetched \/ NodesFetchFailed

Spec == Init /\ [][Next]_vars

-----------------------------------------------------------------------------

Quiet ==
  /\ fetch.pc = "idle" /\ nodesFetch.pc = "idle"
  /\ \A r \in Requests : req[r].pc = "free"

\* Every variable keeps its type.
TypeOK ==
  /\ agents \subseteq Agents
  /\ shown \subseteq ShownEdges
  /\ cache \subseteq Ends
  /\ fetch \in [pc : {"idle", "sent", "served"}, data : SUBSET Ends]
  /\ nodesCache \subseteq Agents
  /\ nodesFetch \in [pc : {"idle", "sent", "served"}, data : SUBSET Agents]
  /\ req \in [Requests -> RequestStates]
  /\ alive \subseteq known /\ known \subseteq Agents
  /\ row \in [Edges -> EdgeRows]
  /\ strayed \in BOOLEAN

\* useWorkflowBuilder: "mirror query data into editable React Flow state".  Once
\* all answers are in, the page draws between agents that exist the edges the
\* server has between them, in whatever order requests were served and answered,
\* whichever of them were refused and whatever agents a late list of nodes has
\* taken off the page or brought back.  It takes an update, an edge deleted too
\* early or by key, or a lost answer to leave the two apart.
PageShowsServer ==
  Quiet /\ ~strayed =>
    {x \in shown : {x.from, x.to} \subseteq agents \cap alive} = Serialized(LiveRows, agents)

\* Once all answers are in, and whatever was refused, lost or went astray, an
\* edge that was drawn is saved or taken back: none that the page draws is left
\* with its temp id, for which no answer would ever come.
DrawnEdgesResolve ==
  Quiet => \A x \in shown : Drawn(x) => x.name # "temp"

-----------------------------------------------------------------------------
(* What one would expect, and the code does not do: a list of nodes that    *)
(* was read before an agent was deleted and arrives after it brings the     *)
(* agent back, with its edges if the list of edges still has them.          *)

DeletedAgentsLeave == Quiet /\ ~strayed => agents \subseteq alive

DeletedEdgesLeave ==
  Quiet /\ ~strayed => {x \in shown : Drawn(x)} = Serialized(LiveRows, agents)

=============================================================================
