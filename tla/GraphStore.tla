------------------------------ MODULE GraphStore ------------------------------
(***************************************************************************)
(* What the stored graph promises those who draw it: every request is one  *)
(* step or none, a row is stored once and goes for good, and what goes     *)
(* takes along, or lets go of, whatever names it.  WorkflowGraph implements*)
(* this with requests of several statements that no lock spans.            *)
(***************************************************************************)
CONSTANTS Workflows, Agents, Tools, Edges, Names, Start, None

VARIABLES
  stage, \* of a workflow: "fresh", "live" or "gone"
  part,  \* the agents and tools: stage, workflow, name, and agent of a tool
  link   \* the edges: stage and ends; an edge is where its ends are

Nodes == Agents \cup Tools

NoPart(st) == [st |-> st, wf |-> None, name |-> None, agent |-> None]

NoLink(st) == [st |-> st, source |-> None, target |-> None]

Init ==
  /\ stage = [w \in Workflows |-> "fresh"]
  /\ part = [n \in Nodes |-> NoPart("fresh")]
  /\ link = [e \in Edges |-> NoLink("fresh")]

Stored(n) == part[n].st = "live"

PartsOf(w) == {n \in Nodes : Stored(n) /\ part[n].wf = w}

ToolsOf(a) == {t \in Tools : Stored(t) /\ part[t].agent = a}

LinksAt(N) ==
  {e \in Edges : link[e].st = "live" /\ {link[e].source, link[e].target} \cap N # {}}

Taken(x, w, self) == \E a \in (PartsOf(w) \cap Agents) \ {self} : part[a].name = x

\* New nodes are stored.
Put(n, w, x, a) ==
  /\ part[n].st = "fresh"
  /\ part' = [part EXCEPT ![n] = [st |-> "live", wf |-> w, name |-> x, agent |-> a]]
  /\ UNCHANGED link

\* The nodes of N go, with every edge that ends at one of them; the tools of D
\* are left without an agent.
Take(N, D) ==
  /\ part' = [n \in Nodes |-> IF n \in N THEN NoPart("gone")
                              ELSE IF n \in D THEN [part[n] EXCEPT !.agent = None]
                              ELSE part[n]]
  /\ link' = [e \in Edges |-> IF e \in LinksAt(N) THEN NoLink("gone") ELSE link[e]]

CreateWorkflow(w, a) ==
  /\ stage[w] = "fresh"
  /\ stage' = [stage EXCEPT ![w] = "live"]
  /\ Put(a, w, Start, None)

DeleteWorkflow(w) ==
  /\ stage[w] = "live"
  /\ stage' = [stage EXCEPT ![w] = "gone"]
  /\ Take(PartsOf(w), {})

CreateAgent(a, w, x) ==
  /\ stage[w] = "live" /\ ~Taken(x, w, None)
  /\ Put(a, w, x, None)
  /\ UNCHANGED stage

RenameAgent(a, x) ==
  /\ Stored(a) /\ ~Taken(x, part[a].wf, a)
  /\ part' = [part EXCEPT ![a].name = x]
  /\ UNCHANGED <<stage, link>>

\* Of its tools some may go with it, the others stay without an agent.
DeleteAgent(a) ==
  /\ Stored(a)
  /\ \E T \in SUBSET ToolsOf(a) : Take({a} \cup T, ToolsOf(a) \ T)
  /\ UNCHANGED stage

CreateTool(t, a) ==
  /\ Stored(a)
  /\ Put(t, part[a].wf, None, a)
  /\ UNCHANGED stage

DeleteTool(t) == Stored(t) /\ Take({t}, {}) /\ UNCHANGED stage

Together(m, n) == Stored(m) /\ Stored(n) /\ part[m].wf = part[n].wf

CreateEdge(e, s, d) ==
  /\ link[e].st = "fresh"
  /\ s # d /\ Together(s, d)
  /\ link' = [link EXCEPT ![e] = [st |-> "live", source |-> s, target |-> d]]
  /\ UNCHANGED <<stage, part>>

UpdateEdge(e, s, d) ==
  /\ link[e].st = "live"
  /\ s # d /\ Together(s, d) /\ Together(s, link[e].source)
  /\ link' = [link EXCEPT ![e] = [st |-> "live", source |-> s, target |-> d]]
  /\ UNCHANGED <<stage, part>>

DeleteEdge(e) ==
  /\ link[e].st = "live"
  /\ link' = [link EXCEPT ![e] = NoLink("gone")]
  /\ UNCHANGED <<stage, part>>

Next ==
  \/ \E w \in Workflows :
       \/ \E a \in Agents : CreateWorkflow(w, a)
       \/ \E a \in Agents, x \in Names : CreateAgent(a, w, x)
       \/ DeleteWorkflow(w)
  \/ \E a \in Agents :
       \/ \E x \in Names : RenameAgent(a, x)
       \/ \E t \in Tools : CreateTool(t, a)
       \/ DeleteAgent(a)
  \/ \E t \in Tools : DeleteTool(t)
  \/ \E e \in Edges :
       \/ \E s, d \in Nodes : CreateEdge(e, s, d) \/ UpdateEdge(e, s, d)
       \/ DeleteEdge(e)

Spec == Init /\ [][Next]_<<stage, part, link>>

=============================================================================
