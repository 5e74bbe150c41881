----------------------------- MODULE BuilderNodes -----------------------------
(***************************************************************************)
(* Where the builder's nodes are and what their panels say                 *)
(* (useWorkflowBuilder).  Dragging collects positions that a timer sends   *)
(* in one request; letting go of a node sends its position at once; a      *)
(* panel is saved by its button and overwritten by the answer; the query   *)
(* of all nodes overwrites everything when its data have changed.  What the*)
(* page can send of a node depends on the ids it knows of it, and these    *)
(* depend on which answer it has the node from.                            *)
(***************************************************************************)
EXTENDS Naturals, Sequences, SequencesExt

CONSTANTS
  Agents,
  Tools,
  Spots,
  Origin,     \* where a node is that was never put anywhere
  Texts,      \* what the config of a node can say
  Empty,      \* what it says before it is edited
  None,
  MaxWire,    \* bound on the requests in flight
  MaxEdits    \* bound on what the user does and on what gets lost

Nodes == Agents \cup Tools

\* What may come between a gesture and its result.
Incidents ==
  { "reorder",  \* requests are served in another order than they were sent
    "lost",     \* a request or its answer is lost
    "focus" }   \* the nodes are fetched again when the window gets the focus

ASSUME NodesAssumption ==
  /\ Origin \in Spots /\ Empty \in Texts
  /\ Agents \cap Tools = {}
  /\ None \notin Spots \cup Texts \cup Nodes
  /\ {MaxWire, MaxEdits} \subseteq Nat

VARIABLES
  page,     \* the nodes as the page has them
  server,   \* their rows
  cache,    \* fetchedNodes
  fetch,    \* the query's request
  pending,  \* pendingPositionsRef
  armed,    \* whether the debounce timer runs
  held,     \* the node that is being dragged
  wire,     \* the requests in flight, oldest first
  answers,  \* what saves have answered, oldest first
  edits,    \* how often the user did something or something was lost
  dragged,  \* history: where the user last put a node
  blind,    \* history: the nodes put there when the page did not know their position's id
  unsaved,  \* history: the nodes whose panel was edited since it was saved
  met       \* history: the incidents so far

vars == <<page, server, cache, fetch, pending, armed, held, wire, answers,
          edits, dragged, blind, unsaved, met>>

NoSpots == [n \in Nodes |-> None]

\* Rows; a tool that does not exist is nowhere, the agents always exist.
Views == {rows \in [Nodes -> [spot : Spots \cup {None}, text : Texts]] :
            \A n \in Agents : rows[n].spot # None}

\* The agents are there when the page is loaded, the tools are created on it.
Loaded == [n \in Nodes |-> [spot |-> IF n \in Agents THEN Origin ELSE None, text |-> Empty]]

\* What the page may know of a node: the ids of its position and of its config
\* and, of a tool, that of its agent.
Ids == {"position", "config", "agent"}

\* get_all_nodes answers with the rows of position and config; the response
\* model has no agent of a tool.
Listed == {"position", "config"}

Pages == [Nodes -> [spot : Spots \cup {None}, text : Texts, ids : SUBSET Ids]]

\* The nodes as the page makes them of the query's data.
Shown(data) ==
  [n \in Nodes |-> [spot |-> data[n].spot, text |-> data[n].text,
                    ids |-> IF data[n].spot = None THEN {} ELSE Listed]]

OnPage(n) == page[n].spot # None

\* The nodes whose moves the page can send.
Placed == {n \in Nodes : "position" \in page[n].ids}

Idle == [pc |-> "idle", data |-> Loaded]

\* A request of positions, by node, to create a tool or to save one panel, with
\* the ids the page puts into it.
Moves(spots) == [kind |-> "moves", spots |-> spots, node |-> None, text |-> Empty, ids |-> {}]
Create(t) == [kind |-> "create", spots |-> NoSpots, node |-> t, text |-> Empty, ids |-> {}]
Save(n) == [kind |-> "save", spots |-> NoSpots, node |-> n, text |-> page[n].text,
            ids |-> page[n].ids]

WireItems == [kind : {"moves", "create", "save"}, spots : [Nodes -> Spots \cup {None}],
              node : Nodes \cup {None}, text : Texts, ids : SUBSET Ids]

Init ==
  /\ page = Shown(Loaded) /\ server = Loaded /\ cache = Loaded
  /\ fetch = Idle
  /\ pending = NoSpots
  /\ armed = FALSE
  /\ held = None
  /\ wire = <<>> /\ answers = <<>>
  /\ edits = 0
  /\ dragged = NoSpots
  /\ blind = {}
  /\ unsaved = {}
  /\ met = {}

-----------------------------------------------------------------------------
(* The user.                                                                *)

Send(item) == Len(wire) < MaxWire /\ wire' = Append(wire, item)

\* Slip: the nodes moved now replace those that are pending already.
PendingReplaced(moved, p) == [n \in Nodes |-> IF n \in moved THEN p ELSE None]

PendingWith(moved, p) ==
  [n \in Nodes |-> IF n \in moved THEN p ELSE pending[n]]

\* onNodesChange: the selected nodes move along with the one that is dragged,
\* those with a known position are collected, and the timer starts anew.
Drag(n, moved, p) ==
  /\ edits < MaxEdits
  /\ held \in {n, None} /\ n \in moved
  /\ \A m \in moved : OnPage(m)
  /\ p # page[n].spot
  /\ page' = [m \in Nodes |->
       IF m \in moved THEN [page[m] EXCEPT !.spot = p] ELSE page[m]]
  /\ pending' = PendingWith(moved \cap Placed, p)
  /\ armed' = TRUE
  /\ held' = n
  /\ edits' = edits + 1
  /\ dragged' = [m \in Nodes |-> IF m \in moved THEN p ELSE dragged[m]]
  /\ blind' = (blind \ moved) \cup (moved \ Placed)
  /\ UNCHANGED <<server, cache, fetch, wire, answers, unsaved, met>>

\* onNodeDragStop: the one node, as the drag left it, if its position is known.
DragStop(n) ==
  /\ held = n
  /\ held' = None
  /\ IF n \in Placed THEN Send(Moves([NoSpots EXCEPT ![n] = dragged[n]]))
                     ELSE UNCHANGED wire
  /\ UNCHANGED <<page, server, cache, fetch, pending, armed, answers, edits,
                 dragged, blind, unsaved, met>>

\* Slip: the timer's callback forgets to send what it has cleared.
SendNothing(spots) == UNCHANGED wire

SendPositions(spots) == IF spots = NoSpots THEN UNCHANGED wire ELSE Send(Moves(spots))

TimerFires ==
  /\ armed
  /\ armed' = FALSE
  /\ pending' = NoSpots
  /\ SendPositions(pending)
  /\ UNCHANGED <<page, server, cache, fetch, held, answers, edits, dragged, blind,
                 unsaved, met>>

Type(n, text) ==
  /\ edits < MaxEdits
  /\ OnPage(n)
  /\ text # page[n].text
  /\ page' = [page EXCEPT ![n].text = text]
  /\ edits' = edits + 1
  /\ unsaved' = unsaved \cup {n}
  /\ UNCHANGED <<server, cache, fetch, pending, armed, held, wire, answers, dragged,
                 blind, met>>

\* onSavePanel.
SavePanel(n) ==
  /\ edits < MaxEdits
  /\ OnPage(n)
  /\ Send(Save(n))
  /\ edits' = edits + 1
  /\ unsaved' = unsaved \ {n}
  /\ UNCHANGED <<page, server, cache, fetch, pending, armed, held, answers, dragged,
                 blind, met>>

\* addToolNode; the id stands for the one the server will draw.
AddTool(t) ==
  /\ edits < MaxEdits
  /\ server[t].spot = None
  /\ \A i \in DOMAIN wire : wire[i].kind = "create" => wire[i].node # t
  /\ Send(Create(t))
  /\ edits' = edits + 1
  /\ UNCHANGED <<page, server, cache, fetch, pending, armed, held, answers, dragged,
                 blind, unsaved, met>>

Meets(incidents) == met' = met \cup incidents

Focus ==
  /\ edits < MaxEdits
  /\ fetch.pc = "idle" /\ fetch' = [fetch EXCEPT !.pc = "sent"]
  /\ edits' = edits + 1
  /\ Meets({"focus"})
  /\ UNCHANGED <<page, server, cache, pending, armed, held, wire, answers,
                 dragged, blind, unsaved>>

-----------------------------------------------------------------------------
(* The server and its answers.                                              *)

\* A tool's row cannot be saved without its agent (422), an agent's can.
Accepted(item) == item.kind = "save" /\ (item.node \in Tools => "agent" \in item.ids)

\* Slip: a request writes every column of every position.
StoredWhole(item) ==
  [n \in Nodes |->
     [spot |-> item.spots[n],
      text |-> IF item.node = n THEN item.text ELSE server[n].text]]

\* Slip: the save of a panel writes no config.
StoredWithoutConfig(item) ==
  [n \in Nodes |->
     [spot |-> IF item.spots[n] # None THEN item.spots[n]
               ELSE IF item = Create(n) /\ server[n].spot = None THEN Origin
               ELSE server[n].spot,
      text |-> server[n].text]]

\* The facade leaves the config alone if the request does not name it.
Stored(item) ==
  [n \in Nodes |->
     [spot |-> IF item.spots[n] # None THEN item.spots[n]
               ELSE IF item = Create(n) /\ server[n].spot = None THEN Origin
               ELSE server[n].spot,
      text |-> IF item.node = n /\ Accepted(item) /\ "config" \in item.ids THEN item.text
               ELSE server[n].text]]

\* Positions are answered too, but nobody uses the answer; a refusal is shown
\* to the user and changes nothing.
Serve(i) ==
  /\ i \in DOMAIN wire
  /\ Meets(IF i = 1 THEN {} ELSE {"reorder"})
  /\ server' = Stored(wire[i])
  /\ wire' = RemoveAt(wire, i)
  /\ answers' = IF wire[i].kind = "create" \/ Accepted(wire[i])
                THEN Append(answers, wire[i]) ELSE answers
  /\ UNCHANGED <<page, cache, fetch, pending, armed, held, edits, dragged, blind, unsaved>>

\* A mutation is not tried again; the page says so and keeps what it shows.
Lose(i) ==
  /\ edits < MaxEdits
  /\ \/ i \in DOMAIN wire /\ wire' = RemoveAt(wire, i) /\ UNCHANGED answers
     \/ i \in DOMAIN answers /\ answers' = RemoveAt(answers, i) /\ UNCHANGED wire
  /\ edits' = edits + 1
  /\ Meets({"lost"})
  /\ UNCHANGED <<page, server, cache, fetch, pending, armed, held, dragged, blind, unsaved>>

\* updateAgentMutation: the answer has the rows of position and config, and its
\* data go over the node's.  updateToolMutation: the answer is the bare row, in
\* which the serializer finds an agent but neither config nor position, so that
\* defaults go over the panel.
AfterSave(item) ==
  LET n == item.node IN
  IF ~OnPage(n) THEN page[n]
  ELSE IF n \in Agents THEN [page[n] EXCEPT !.text = item.text]
  ELSE [page[n] EXCEPT !.text = Empty, !.ids = {"agent"}]

\* createToolMutation: a node that a fetch has brought already stays the first
\* of its name.
AfterCreation(item) ==
  IF OnPage(item.node) THEN page[item.node] ELSE [spot |-> Origin, text |-> Empty, ids |-> Ids]

Answered(i) ==
  /\ i \in DOMAIN answers
  /\ Meets(IF i = 1 THEN {} ELSE {"reorder"})
  /\ page' = [page EXCEPT ![answers[i].node] =
                IF answers[i].kind = "create" THEN AfterCreation(answers[i])
                ELSE AfterSave(answers[i])]
  /\ answers' = RemoveAt(answers, i)
  /\ UNCHANGED <<server, cache, fetch, pending, armed, held, wire, edits, dragged,
                 blind, unsaved>>

ServeFetch ==
  /\ fetch.pc = "sent"
  /\ fetch' = [pc |-> "served", data |-> server]
  /\ UNCHANGED <<page, server, cache, pending, armed, held, wire, answers, edits,
                 dragged, blind, unsaved, met>>

\* Equal data keep their reference and run no effect.
Fetched ==
  /\ fetch.pc = "served"
  /\ cache' = fetch.data
  /\ page' = IF fetch.data = cache THEN page ELSE Shown(fetch.data)
  /\ fetch' = Idle
  /\ UNCHANGED <<server, pending, armed, held, wire, answers, edits, dragged, blind,
                 unsaved, met>>

Next ==
  \/ \E n \in Nodes :
       \/ \E moved \in SUBSET Nodes, p \in Spots : Drag(n, moved, p)
       \/ \E text \in Texts : Type(n, text)
       \/ DragStop(n) \/ SavePanel(n)
  \/ \E t \in Tools : AddTool(t)
  \/ TimerFires \/ Focus
  \/ \E i \in 1..MaxWire : Serve(i) \/ Lose(i) \/ Answered(i)
  \/ ServeFetch \/ Fetched

Spec == Init /\ [][Next]_vars

\* The browser's timers fire and the server serves what it is sent.
FairSpec == Spec /\ WF_vars(TimerFires) /\ WF_vars(Serve(1))

-----------------------------------------------------------------------------

Quiet == wire = <<>> /\ answers = <<>> /\ fetch.pc = "idle" /\ ~armed

\* Every variable keeps its type.
TypeOK ==
  /\ page \in Pages
  /\ {server, cache} \subseteq Views
  /\ fetch \in [pc : {"idle", "sent", "served"}, data : Views]
  /\ pending \in [Nodes -> Spots \cup {None}]
  /\ armed \in BOOLEAN
  /\ held \in Nodes \cup {None}
  /\ wire \in Seq(WireItems) /\ answers \in Seq(WireItems)
  /\ edits \in Nat
  /\ dragged \in [Nodes -> Spots \cup {None}]
  /\ blind \subseteq Nodes /\ unsaved \subseteq Nodes
  /\ met \subseteq Incidents

\* Served in order and without loss, the positions that are stored when all is
\* quiet are those where the user last put the nodes, whichever nodes were
\* dragged before the timer fired and whatever was created, saved and fetched in
\* between.  Only a tool can have been put elsewhere, and only while the page had
\* it from the answer to its save (onNodesChange, persistNodePosition).
DragsAreStored ==
  Quiet /\ met \subseteq {"focus"} =>
    \A n \in Nodes : \/ dragged[n] \in {None, server[n].spot}
                    \/ n \in Tools \cap blind

\* Served and answered in order and with no fetch in between, a page without
\* unsaved edits says of an agent what is stored, however saves of its panel
\* overlap (updateAgentMutation).
SavedIsShown ==
  Quiet /\ met = {} => \A n \in Agents \ unsaved : page[n].text = server[n].text

\* A position that waits for the timer is stored, or dragged over, in the end,
\* unless something is lost.
PendingIsStored ==
  \A n \in Nodes, p \in Spots :
    pending[n] = p ~> (server[n].spot = p \/ dragged[n] # p \/ "lost" \in met)

-----------------------------------------------------------------------------
(* What one would expect, and the code does not do: a tool's panel shows    *)
(* defaults once its save is answered, and the page can neither send where  *)
(* it is dragged then nor save its config.  A tool that was loaded cannot   *)
(* be saved at all, for want of its agent.                                  *)

ToolDragsAreStored ==
  Quiet /\ met = {} => \A t \in Tools : dragged[t] \in {None, server[t].spot}

ToolsSavedAreShown ==
  Quiet /\ met = {} => \A t \in Tools \ unsaved : page[t].text = server[t].text

=============================================================================
