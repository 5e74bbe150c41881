-------------------------- MODULE BuilderNodesProofs --------------------------
(***************************************************************************)
(* That what is dragged is stored and what is stored is shown, for any     *)
(* number of nodes and any bounds, as long as the requests keep their      *)
(* order.                                                                  *)
(***************************************************************************)
EXTENDS BuilderNodes, SequenceTheorems, TLAPS

-----------------------------------------------------------------------------
(* Types.                                                                   *)

\* All but positions are about one node, and so is every answer.
Addressed(item) == item.kind # "moves" => item.node \in Nodes

TypesInv ==
  /\ TypeOK
  /\ \A i \in 1..Len(wire) : Addressed(wire[i])
  /\ \A i \in 1..Len(answers) : answers[i].node \in Nodes

LEMMA RemoveAtProperties ==
  ASSUME NEW S, NEW s \in Seq(S), NEW i \in 1..Len(s)
  PROVE  /\ RemoveAt(s, i) \in Seq(S)
         /\ Len(RemoveAt(s, i)) = Len(s) - 1
         /\ \A j \in 1..Len(s) - 1 : RemoveAt(s, i)[j] = IF j < i THEN s[j] ELSE s[j + 1]
<1> DEFINE front == SubSeq(s, 1, i - 1)
           back == SubSeq(s, i + 1, Len(s))
<1>1. Len(s) \in Nat /\ \A j \in 1..Len(s) : s[j] \in S
  BY LenProperties, ElementOfSeq
<1>2. /\ front \in Seq(S) /\ Len(front) = i - 1
      /\ \A j \in 1..i - 1 : front[j] = s[j]
  BY <1>1, SubSeqProperties
<1>3. /\ back \in Seq(S) /\ Len(back) = Len(s) - i
      /\ \A j \in 1..Len(s) - i : back[j] = s[i + j]
  <2>1. i + 1 \in Int /\ Len(s) \in Int /\ \A j \in i + 1..Len(s) : s[j] \in S
    BY <1>1
  <2> QED
    BY <1>1, <2>1, SubSeqProperties
<1> HIDE DEF front, back
<1>4. /\ front \o back \in Seq(S) /\ Len(front \o back) = Len(s) - 1
      /\ \A j \in 1..Len(s) - 1 :
           (front \o back)[j] = IF j <= i - 1 THEN front[j] ELSE back[j - (i - 1)]
  BY <1>1, <1>2, <1>3, ConcatProperties
<1>5. ASSUME NEW j \in 1..Len(s) - 1
      PROVE  (front \o back)[j] = IF j < i THEN s[j] ELSE s[j + 1]
  <2>1. CASE j < i
    BY <1>1, <1>2, <1>4, <2>1
  <2>2. CASE ~(j < i)
    <3>1. j - (i - 1) \in 1..Len(s) - i /\ i + (j - (i - 1)) = j + 1
      BY <1>1, <2>2
    <3> QED
      BY <1>1, <1>3, <1>4, <2>2, <3>1
  <2> QED
    BY <2>1, <2>2
<1> QED
  BY <1>4, <1>5 DEF RemoveAt, front, back

LEMMA RemoveKeeps ==
  ASSUME NEW S, NEW s \in Seq(S), NEW i \in 1..Len(s), NEW j \in 1..Len(RemoveAt(s, i))
  PROVE  \E k \in 1..Len(s) : RemoveAt(s, i)[j] = s[k]
<1>1. Len(s) \in Nat /\ j \in 1..Len(s) - 1
  BY RemoveAtProperties, LenProperties
<1>2. RemoveAt(s, i)[j] = IF j < i THEN s[j] ELSE s[j + 1]
  BY <1>1, RemoveAtProperties
<1>3. j \in 1..Len(s) /\ j + 1 \in 1..Len(s)
  BY <1>1
<1> QED
  BY <1>2, <1>3

LEMMA ItemsTyped ==
  /\ \A spots \in [Nodes -> Spots \cup {None}] : Moves(spots) \in WireItems
  /\ \A t \in Tools : Create(t) \in WireItems
  /\ page \in Pages => \A n \in Nodes : Save(n) \in WireItems
BY NodesAssumption DEF Moves, Create, Save, WireItems, NoSpots, Nodes, Pages

\* A request is put at the end.
LEMMA SendTyped ==
  ASSUME TypesInv, NEW item \in WireItems, Send(item), Addressed(item)
  PROVE  /\ wire' \in Seq(WireItems)
         /\ Len(wire) \in Nat /\ Len(wire') = Len(wire) + 1
         /\ \A i \in 1..Len(wire) : wire'[i] = wire[i]
         /\ wire'[Len(wire) + 1] = item
         /\ \A i \in 1..Len(wire') : Addressed(wire'[i])
<1>1. wire \in Seq(WireItems) /\ Len(wire) \in Nat
  BY LenProperties DEF TypesInv, TypeOK
<1>2. /\ wire' \in Seq(WireItems) /\ Len(wire') = Len(wire) + 1
      /\ \A i \in 1..Len(wire) : wire'[i] = wire[i]
      /\ wire'[Len(wire) + 1] = item
  BY <1>1 DEF Send
<1>3. ASSUME NEW i \in 1..Len(wire')
      PROVE  Addressed(wire'[i])
  <2>1. i \in 1..Len(wire) \/ i = Len(wire) + 1
    BY <1>1, <1>2
  <2> QED
    BY <1>2, <2>1 DEF TypesInv
<1> QED
  BY <1>1, <1>2, <1>3

\* A request or an answer is taken out.
LEMMA WireShrinks ==
  ASSUME TypesInv, NEW i \in 1..Len(wire), wire' = RemoveAt(wire, i)
  PROVE  /\ wire' \in Seq(WireItems)
         /\ Len(wire) \in Nat /\ Len(wire') = Len(wire) - 1
         /\ \A j \in 1..Len(wire') : wire'[j] = IF j < i THEN wire[j] ELSE wire[j + 1]
         /\ \A j \in 1..Len(wire') : Addressed(wire'[j])
<1>1. wire \in Seq(WireItems) /\ Len(wire) \in Nat
  BY LenProperties DEF TypesInv, TypeOK
<1>2. /\ wire' \in Seq(WireItems) /\ Len(wire') = Len(wire) - 1
      /\ \A j \in 1..Len(wire) - 1 : wire'[j] = IF j < i THEN wire[j] ELSE wire[j + 1]
  BY <1>1, RemoveAtProperties
<1>3. ASSUME NEW j \in 1..Len(wire')
      PROVE  Addressed(wire'[j])
  <2>1. PICK k \in 1..Len(wire) : wire'[j] = wire[k]
    BY <1>1, RemoveKeeps
  <2> QED
    BY <2>1 DEF TypesInv
<1> QED
  BY <1>1, <1>2, <1>3

LEMMA AnswersShrink ==
  ASSUME TypesInv, NEW i \in 1..Len(answers), answers' = RemoveAt(answers, i)
  PROVE  /\ answers' \in Seq(WireItems)
         /\ Len(answers) \in Nat /\ Len(answers') = Len(answers) - 1
         /\ \A j \in 1..Len(answers') : answers'[j] = IF j < i THEN answers[j] ELSE answers[j + 1]
         /\ \A j \in 1..Len(answers') : answers'[j].node \in Nodes
<1>1. answers \in Seq(WireItems) /\ Len(answers) \in Nat
  BY LenProperties DEF TypesInv, TypeOK
<1>2. /\ answers' \in Seq(WireItems) /\ Len(answers') = Len(answers) - 1
      /\ \A j \in 1..Len(answers) - 1 :
           answers'[j] = IF j < i THEN answers[j] ELSE answers[j + 1]
  BY <1>1, RemoveAtProperties
<1>3. ASSUME NEW j \in 1..Len(answers')
      PROVE  answers'[j].node \in Nodes
  <2>1. PICK k \in 1..Len(answers) : answers'[j] = answers[k]
    BY <1>1, RemoveKeeps
  <2> QED
    BY <2>1 DEF TypesInv
<1> QED
  BY <1>1, <1>2, <1>3

LEMMA StoredTyped ==
  ASSUME TypesInv, NEW item \in WireItems
  PROVE  Stored(item) \in Views
<1> DEFINE spot(n) == IF item.spots[n] # None THEN item.spots[n]
                      ELSE IF item = Create(n) /\ server[n].spot = None THEN Origin
                      ELSE server[n].spot
           text(n) == IF item.node = n /\ Accepted(item) /\ "config" \in item.ids THEN item.text
                      ELSE server[n].text
<1>1. ASSUME NEW n \in Nodes
      PROVE  spot(n) \in Spots \cup {None} /\ text(n) \in Texts
  <2>1. server[n].spot \in Spots \cup {None} /\ server[n].text \in Texts
    BY DEF TypesInv, TypeOK, Views
  <2>2. item.spots[n] \in Spots \cup {None} /\ item.text \in Texts /\ Origin \in Spots
    BY NodesAssumption DEF WireItems
  <2> QED
    BY <2>1, <2>2
<1>3. ASSUME NEW n \in Agents PROVE spot(n) # None
  BY NodesAssumption DEF TypesInv, TypeOK, Views
<1>2. Stored(item) = [n \in Nodes |-> [spot |-> spot(n), text |-> text(n)]]
  BY DEF Stored
<1> HIDE DEF spot, text
<1> QED
  BY <1>1, <1>2, <1>3 DEF Views, Nodes

LEMMA ShownTyped ==
  ASSUME NEW data \in Views
  PROVE  Shown(data) \in Pages
BY DEF Shown, Views, Pages, Listed, Ids

\* An answer changes the one node it is about.
LEMMA AnsweredTyped ==
  ASSUME TypesInv, NEW i \in 1..MaxWire, Answered(i)
  PROVE  /\ i \in 1..Len(answers) /\ answers[i].node \in Nodes /\ answers[i].text \in Texts
         /\ page' \in Pages
         /\ \A n \in Nodes : n # answers[i].node => page'[n] = page[n]
         /\ page'[answers[i].node] = IF answers[i].kind = "create" THEN AfterCreation(answers[i])
                                     ELSE AfterSave(answers[i])
<1>1. answers \in Seq(WireItems) /\ Len(answers) \in Nat /\ i \in 1..Len(answers)
      /\ page \in Pages
  BY LenProperties DEF TypesInv, TypeOK, Answered
<1>2. answers[i].node \in Nodes /\ answers[i] \in WireItems
  BY <1>1, ElementOfSeq DEF TypesInv
<1>3. AfterCreation(answers[i]) \in [spot : Spots \cup {None}, text : Texts, ids : SUBSET Ids]
  BY <1>1, <1>2, NodesAssumption DEF AfterCreation, Pages
<1>4. AfterSave(answers[i]) \in [spot : Spots \cup {None}, text : Texts, ids : SUBSET Ids]
  <2>1. {"agent"} \in SUBSET Ids /\ answers[i].text \in Texts /\ Empty \in Texts
    BY <1>2, NodesAssumption DEF Ids, WireItems
  <2>2. page[answers[i].node] \in [spot : Spots \cup {None}, text : Texts, ids : SUBSET Ids]
    BY <1>1, <1>2 DEF Pages
  <2> QED
    BY <2>1, <2>2 DEF AfterSave
<1> QED
  BY <1>1, <1>2, <1>3, <1>4 DEF Answered, Pages, WireItems

LEMMA TypesInductive ==
  /\ Init => TypesInv
  /\ TypesInv /\ [Next]_vars => TypesInv'
<1>1. ASSUME Init PROVE TypesInv
  <2>1. Loaded \in Views /\ NoSpots \in [Nodes -> Spots \cup {None}]
    BY NodesAssumption DEF Loaded, Views, NoSpots, Nodes
  <2>2. wire \in Seq(WireItems) /\ answers \in Seq(WireItems) /\ Len(wire) = 0 /\ Len(answers) = 0
    BY <1>1 DEF Init
  <2>3. 1..0 = {}
    OBVIOUS
  <2> QED
    BY <1>1, <2>1, <2>2, <2>3, ShownTyped, NodesAssumption DEF Init, TypesInv, TypeOK, Idle
<1>2. ASSUME TypesInv, [Next]_vars PROVE TypesInv'
  <2>0. /\ TypeOK /\ page \in Pages /\ server \in Views /\ cache \in Views
        /\ wire \in Seq(WireItems) /\ answers \in Seq(WireItems)
        /\ Len(wire) \in Nat /\ Len(answers) \in Nat
        /\ DOMAIN wire = 1..Len(wire) /\ DOMAIN answers = 1..Len(answers)
    BY <1>2, LenProperties DEF TypesInv, TypeOK
  <2>1. CASE UNCHANGED vars
    BY <1>2, <2>1 DEF vars, TypesInv, TypeOK
  <2>2. ASSUME NEW n \in Nodes, NEW moved \in SUBSET Nodes, NEW p \in Spots, Drag(n, moved, p)
        PROVE  TypesInv'
    <3>1. page' \in Pages /\ pending' \in [Nodes -> Spots \cup {None}]
      BY <2>0, <2>2 DEF Drag, PendingWith, Pages, TypeOK
    <3>2. dragged' \in [Nodes -> Spots \cup {None}] /\ edits' \in Nat /\ blind' \subseteq Nodes
      BY <2>0, <2>2 DEF Drag, TypeOK
    <3> QED
      BY <1>2, <2>0, <2>2, <3>1, <3>2 DEF Drag, TypesInv, TypeOK
  <2>3. ASSUME NEW n \in Nodes, NEW text \in Texts, Type(n, text) PROVE TypesInv'
    <3>1. page' \in Pages
      BY <2>0, <2>3 DEF Type, Pages
    <3>2. edits' \in Nat
      BY <2>0, <2>3 DEF Type, TypeOK
    <3> QED
      BY <1>2, <2>0, <2>3, <3>1, <3>2 DEF Type, TypesInv, TypeOK
  <2>4. ASSUME NEW n \in Nodes, DragStop(n) PROVE TypesInv'
    <3>1. [NoSpots EXCEPT ![n] = dragged[n]] \in [Nodes -> Spots \cup {None}]
      BY <2>0 DEF NoSpots, TypeOK
    <3>2. /\ Moves([NoSpots EXCEPT ![n] = dragged[n]]) \in WireItems
          /\ Addressed(Moves([NoSpots EXCEPT ![n] = dragged[n]]))
      BY <3>1, ItemsTyped DEF Moves, Addressed
    <3>3. CASE n \in Placed
      BY <1>2, <2>0, <2>4, <3>2, <3>3, SendTyped DEF DragStop, TypesInv, TypeOK
    <3>4. CASE n \notin Placed
      BY <1>2, <2>0, <2>4, <3>4 DEF DragStop, TypesInv, TypeOK
    <3> QED
      BY <3>3, <3>4
  <2>5. CASE TimerFires
    <3>1. Moves(pending) \in WireItems /\ Addressed(Moves(pending))
      BY <2>0, ItemsTyped DEF TypeOK, Moves, Addressed
    <3>2. NoSpots \in [Nodes -> Spots \cup {None}]
      BY DEF NoSpots
    <3>3. CASE pending = NoSpots
      BY <1>2, <2>0, <2>5, <3>2, <3>3 DEF TimerFires, SendPositions, TypesInv, TypeOK
    <3>4. CASE pending # NoSpots
      BY <1>2, <2>0, <2>5, <3>1, <3>2, <3>4, SendTyped DEF TimerFires, SendPositions, TypesInv, TypeOK
    <3> QED
      BY <3>3, <3>4
  <2>6. ASSUME NEW n \in Nodes, SavePanel(n) PROVE TypesInv'
    <3>1. Save(n) \in WireItems /\ Addressed(Save(n))
      BY <2>0, ItemsTyped DEF Save, Addressed
    <3>2. edits' \in Nat
      BY <2>0, <2>6 DEF SavePanel, TypeOK
    <3> QED
      BY <1>2, <2>0, <2>6, <3>1, <3>2, SendTyped DEF SavePanel, TypesInv, TypeOK
  <2>7. ASSUME NEW t \in Tools, AddTool(t) PROVE TypesInv'
    <3>1. Create(t) \in WireItems /\ Addressed(Create(t))
      BY ItemsTyped DEF Create, Addressed, Nodes
    <3>2. edits' \in Nat
      BY <2>0, <2>7 DEF AddTool, TypeOK
    <3> QED
      BY <1>2, <2>0, <2>7, <3>1, <3>2, SendTyped DEF AddTool, TypesInv, TypeOK
  <2>8. CASE Focus
    <3>1. edits' \in Nat /\ met' \subseteq Incidents
      BY <2>0, <2>8 DEF Focus, Meets, Incidents, TypeOK
    <3>2. fetch' \in [pc : {"idle", "sent", "served"}, data : Views]
      BY <2>0, <2>8 DEF Focus, TypeOK
    <3> QED
      BY <1>2, <2>0, <2>8, <3>1, <3>2 DEF Focus, TypesInv, TypeOK
  <2>9. ASSUME NEW i \in 1..MaxWire, Serve(i) PROVE TypesInv'
    <3>1. i \in 1..Len(wire) /\ wire[i] \in WireItems
      BY <2>0, <2>9, ElementOfSeq DEF Serve
    <3>2. server' \in Views
      BY <1>2, <2>9, <3>1, StoredTyped DEF Serve
    <3>3. wire' \in Seq(WireItems) /\ \A j \in 1..Len(wire') : Addressed(wire'[j])
      BY <1>2, <2>9, <3>1, WireShrinks DEF Serve
    <3>4. met' \subseteq Incidents
      BY <2>0, <2>9 DEF Serve, Meets, Incidents, TypeOK
    <3>5. answers' \in Seq(WireItems) /\ \A j \in 1..Len(answers') : answers'[j].node \in Nodes
      <4>1. CASE ~(wire[i].kind = "create" \/ Accepted(wire[i]))
        BY <1>2, <2>0, <2>9, <4>1 DEF Serve, TypesInv
      <4>2. CASE wire[i].kind = "create" \/ Accepted(wire[i])
        <5>1. answers' = Append(answers, wire[i])
          BY <2>9, <4>2 DEF Serve
        <5>2. /\ answers' \in Seq(WireItems) /\ Len(answers') = Len(answers) + 1
              /\ \A j \in 1..Len(answers) : answers'[j] = answers[j]
              /\ answers'[Len(answers) + 1] = wire[i]
          BY <2>0, <3>1, <5>1
        <5>3. wire[i].node \in Nodes
          BY <1>2, <3>1, <4>2 DEF TypesInv, Addressed, Accepted
        <5>4. ASSUME NEW j \in 1..Len(answers')
              PROVE  answers'[j].node \in Nodes
          <6>1. j \in 1..Len(answers) \/ j = Len(answers) + 1
            BY <2>0, <5>2
          <6> QED
            BY <1>2, <5>2, <5>3, <6>1 DEF TypesInv
        <5> QED
          BY <5>2, <5>4
      <4> QED
        BY <4>1, <4>2
    <3> QED
      BY <1>2, <2>0, <2>9, <3>2, <3>3, <3>4, <3>5 DEF Serve, TypesInv, TypeOK
  <2>10. ASSUME NEW i \in 1..MaxWire, Lose(i) PROVE TypesInv'
    <3>1. edits' \in Nat /\ met' \subseteq Incidents
      BY <2>0, <2>10 DEF Lose, Meets, Incidents, TypeOK
    <3>2. wire' \in Seq(WireItems) /\ \A j \in 1..Len(wire') : Addressed(wire'[j])
      BY <1>2, <2>0, <2>10, WireShrinks DEF Lose, TypesInv
    <3>3. answers' \in Seq(WireItems) /\ \A j \in 1..Len(answers') : answers'[j].node \in Nodes
      BY <1>2, <2>0, <2>10, AnswersShrink DEF Lose, TypesInv
    <3> QED
      BY <1>2, <2>0, <2>10, <3>1, <3>2, <3>3 DEF Lose, TypesInv, TypeOK
  <2>11. ASSUME NEW i \in 1..MaxWire, Answered(i) PROVE TypesInv'
    <3>1. i \in 1..Len(answers) /\ page' \in Pages
      BY <1>2, <2>11, AnsweredTyped
    <3>2. met' \subseteq Incidents
      BY <2>0, <2>11 DEF Answered, Meets, Incidents, TypeOK
    <3>3. answers' \in Seq(WireItems) /\ \A j \in 1..Len(answers') : answers'[j].node \in Nodes
      BY <1>2, <2>11, <3>1, AnswersShrink DEF Answered
    <3> QED
      BY <1>2, <2>0, <2>11, <3>1, <3>2, <3>3 DEF Answered, TypesInv, TypeOK
  <2>12. CASE ServeFetch
    BY <1>2, <2>0, <2>12 DEF ServeFetch, TypesInv, TypeOK
  <2>13. CASE Fetched
    <3>1. fetch.data \in Views /\ Idle \in [pc : {"idle", "sent", "served"}, data : Views]
      BY <2>0, NodesAssumption DEF TypeOK, Idle, Loaded, Views, Nodes
    <3>2. page' \in Pages
      BY <2>0, <2>13, <3>1, ShownTyped DEF Fetched
    <3> QED
      BY <1>2, <2>0, <2>13, <3>1, <3>2 DEF Fetched, TypesInv, TypeOK
  <2> QED
    BY <1>2, <2>1, <2>2, <2>3, <2>4, <2>5, <2>6, <2>7, <2>8, <2>9, <2>10, <2>11, <2>12, <2>13
       DEF Next
<1> QED
  BY <1>1, <1>2

\* Whatever the user does and whatever is reordered or lost, the page, the rows
\* and the requests between them keep their types.
THEOREM TypesHold == Spec => []TypeOK
<1>1. TypesInv => TypeOK
  BY DEF TypesInv
<1> QED
  BY <1>1, TypesInductive, PTL DEF Spec

-----------------------------------------------------------------------------
(* Where a node was put is stored, or it is the last that is under way for  *)
(* the node, or the timer will send it, unless the page could not say which *)
(* position it means.                                                       *)

StoredOrSent(n) ==
  \/ /\ server[n].spot = dragged[n]
     /\ \A i \in 1..Len(wire) : wire[i].spots[n] = None
  \/ \E i \in 1..Len(wire) :
       /\ wire[i].spots[n] = dragged[n]
       /\ \A j \in i + 1..Len(wire) : wire[j].spots[n] = None

\* Every agent that is on the page has its ids.
AgentsPlaced == \A n \in Agents : OnPage(n) => Listed \subseteq page[n].ids

LEMMA AgentsPlacedInductive ==
  /\ Init => AgentsPlaced
  /\ TypesInv /\ AgentsPlaced /\ [Next]_vars => AgentsPlaced'
<1>0. Agents \subseteq Nodes /\ \A data \in Views, n \in Agents :
        Shown(data)[n].spot # None => Shown(data)[n].ids = Listed
  BY DEF Nodes, Shown
<1>1. ASSUME Init PROVE AgentsPlaced
  <2>1. Loaded \in Views
    BY NodesAssumption DEF Loaded, Views, Nodes
  <2> QED
    BY <1>0, <1>1, <2>1 DEF Init, AgentsPlaced, OnPage
<1>2. ASSUME TypesInv, AgentsPlaced, [Next]_vars PROVE AgentsPlaced'
  <2>0. page \in Pages /\ fetch.data \in Views
    BY <1>2 DEF TypesInv, TypeOK
  <2>1. CASE UNCHANGED page
    BY <1>2, <2>1 DEF AgentsPlaced, OnPage
  <2>2. ASSUME NEW n \in Nodes, NEW moved \in SUBSET Nodes, NEW p \in Spots, Drag(n, moved, p)
        PROVE  AgentsPlaced'
    <3>1. \A m \in Nodes : page'[m].ids = page[m].ids /\ (page'[m].spot # None => OnPage(m))
      BY <2>0, <2>2 DEF Drag, Pages, OnPage
    <3> QED
      BY <1>0, <1>2, <3>1 DEF AgentsPlaced, OnPage
  <2>3. ASSUME NEW n \in Nodes, NEW text \in Texts, Type(n, text) PROVE AgentsPlaced'
    <3>1. \A m \in Nodes : page'[m].ids = page[m].ids /\ page'[m].spot = page[m].spot
      BY <2>0, <2>3 DEF Type, Pages
    <3> QED
      BY <1>0, <1>2, <3>1 DEF AgentsPlaced, OnPage
  <2>4. ASSUME NEW i \in 1..MaxWire, Answered(i) PROVE AgentsPlaced'
    <3> SUFFICES ASSUME NEW n \in Agents, page'[n].spot # None
                 PROVE  Listed \subseteq page'[n].ids
      BY DEF AgentsPlaced, OnPage
    <3>1. CASE n # answers[i].node
      BY <1>0, <1>2, <2>4, <3>1, AnsweredTyped DEF AgentsPlaced, OnPage
    <3>2. CASE n = answers[i].node
      <4>0. n \in Nodes /\ page[n] \in [spot : Spots \cup {None}, text : Texts, ids : SUBSET Ids]
        BY <1>0, <2>0 DEF Pages
      <4>1. OnPage(n) => Listed \subseteq page[n].ids
        BY <1>2 DEF AgentsPlaced
      <4>2. page'[n] = AfterCreation(answers[i]) \/ page'[n] = AfterSave(answers[i])
        BY <1>2, <2>4, <3>2, AnsweredTyped
      <4>3. CASE page'[n] = AfterCreation(answers[i])
        BY <3>2, <4>1, <4>3 DEF AfterCreation, Listed, Ids
      <4>4. CASE page'[n] = AfterSave(answers[i])
        <5>1. AfterSave(answers[i]) = IF OnPage(n) THEN [page[n] EXCEPT !.text = answers[i].text]
                                      ELSE page[n]
          BY <3>2 DEF AfterSave
        <5>2. page'[n].ids = page[n].ids /\ page'[n].spot = page[n].spot
          BY <4>0, <4>4, <5>1
        <5> QED
          BY <4>1, <5>2 DEF OnPage
      <4> QED
        BY <4>2, <4>3, <4>4
    <3> QED
      BY <3>1, <3>2
  <2>5. CASE Fetched
    BY <1>0, <1>2, <2>0, <2>5 DEF Fetched, AgentsPlaced, OnPage
  <2>6. \/ UNCHANGED page
        \/ \E n \in Nodes :
             \/ \E moved \in SUBSET Nodes, p \in Spots : Drag(n, moved, p)
             \/ \E text \in Texts : Type(n, text)
        \/ \E i \in 1..MaxWire : Answered(i)
        \/ Fetched
    BY <1>2 DEF Next, vars, DragStop, SavePanel, AddTool, TimerFires, Focus, Serve, Lose, ServeFetch
  <2> QED
    BY <2>1, <2>2, <2>3, <2>4, <2>5, <2>6
<1> QED
  BY <1>1, <1>2

DragInv ==
  /\ ~armed => pending = NoSpots
  /\ blind \cap Agents = {}
  /\ met \subseteq {"focus"} =>
       \A n \in Nodes \ blind :
         IF pending[n] = None THEN dragged[n] = None \/ StoredOrSent(n)
         ELSE pending[n] = dragged[n]

LEMMA SendKeeps ==
  ASSUME TypesInv, NEW n \in Nodes, NEW item \in WireItems, Send(item),
         Addressed(item), UNCHANGED <<server, dragged>>
  PROVE  /\ item.spots[n] = None /\ StoredOrSent(n) => StoredOrSent(n)'
         /\ item.spots[n] = dragged[n] => StoredOrSent(n)'
<1>0. /\ Len(wire) \in Nat /\ Len(wire') = Len(wire) + 1
      /\ \A i \in 1..Len(wire) : wire'[i] = wire[i]
      /\ wire'[Len(wire) + 1] = item
  BY SendTyped
<1>1. ASSUME item.spots[n] = None, StoredOrSent(n) PROVE StoredOrSent(n)'
  <2>1. \A i \in 1..Len(wire') : i \in 1..Len(wire) \/ i = Len(wire) + 1
    BY <1>0
  <2>2. CASE /\ server[n].spot = dragged[n]
             /\ \A i \in 1..Len(wire) : wire[i].spots[n] = None
    BY <1>0, <1>1, <2>1, <2>2 DEF StoredOrSent
  <2>3. ASSUME NEW i \in 1..Len(wire), wire[i].spots[n] = dragged[n],
               \A j \in i + 1..Len(wire) : wire[j].spots[n] = None
        PROVE  StoredOrSent(n)'
    <3>1. i \in 1..Len(wire') /\ wire'[i].spots[n] = dragged'[n]
      BY <1>0, <2>3
    <3>2. ASSUME NEW j \in i + 1..Len(wire') PROVE wire'[j].spots[n] = None
      <4>1. j \in i + 1..Len(wire) \/ j = Len(wire) + 1
        BY <1>0
      <4>2. j \in i + 1..Len(wire) => j \in 1..Len(wire)
        BY <1>0
      <4> QED
        BY <1>0, <1>1, <2>3, <4>1, <4>2
    <3> QED
      BY <3>1, <3>2 DEF StoredOrSent
  <2> QED
    BY <1>1, <2>2, <2>3 DEF StoredOrSent
<1>2. ASSUME item.spots[n] = dragged[n] PROVE StoredOrSent(n)'
  <2>1. /\ Len(wire) + 1 \in 1..Len(wire')
        /\ \A j \in Len(wire) + 1 + 1..Len(wire') : FALSE
    BY <1>0
  <2> QED
    BY <1>0, <1>2, <2>1 DEF StoredOrSent
<1> QED
  BY <1>1, <1>2

LEMMA ServeKeeps ==
  ASSUME TypesInv, NEW n \in Nodes, Serve(1), StoredOrSent(n), dragged[n] # None
  PROVE  StoredOrSent(n)'
<1>0. /\ wire \in Seq(WireItems) /\ Len(wire) \in Nat /\ 1 \in 1..Len(wire)
      /\ wire' = RemoveAt(wire, 1) /\ dragged' = dragged
      /\ wire[1].spots[n] # None => server'[n].spot = wire[1].spots[n]
      /\ wire[1].spots[n] = None /\ server[n].spot # None => server'[n].spot = server[n].spot
  BY LenProperties DEF Serve, Stored, TypesInv, TypeOK
<1>1. /\ Len(wire') = Len(wire) - 1
      /\ \A j \in 1..Len(wire') : wire'[j] = wire[j + 1] /\ j + 1 \in 1..Len(wire)
  BY <1>0, WireShrinks
<1>2. CASE /\ server[n].spot = dragged[n]
           /\ \A i \in 1..Len(wire) : wire[i].spots[n] = None
  BY <1>0, <1>1, <1>2 DEF StoredOrSent
<1>3. ASSUME NEW i \in 1..Len(wire), wire[i].spots[n] = dragged[n],
             \A j \in i + 1..Len(wire) : wire[j].spots[n] = None
      PROVE  StoredOrSent(n)'
  <2>1. CASE i = 1
    <3>1. server'[n].spot = dragged'[n]
      BY <1>0, <1>3, <2>1
    <3>2. ASSUME NEW j \in 1..Len(wire') PROVE wire'[j].spots[n] = None
      <4>1. j + 1 \in i + 1..Len(wire)
        BY <1>0, <1>1, <2>1
      <4> QED
        BY <1>1, <1>3, <4>1
    <3> QED
      BY <3>1, <3>2 DEF StoredOrSent
  <2>2. CASE i # 1
    <3>1. i - 1 \in 1..Len(wire') /\ wire'[i - 1].spots[n] = dragged'[n]
      <4>1. i - 1 \in 1..Len(wire') /\ i - 1 + 1 = i
        BY <1>0, <1>1, <2>2
      <4> QED
        BY <1>0, <1>1, <1>3, <4>1
    <3>2. ASSUME NEW j \in i - 1 + 1..Len(wire') PROVE wire'[j].spots[n] = None
      <4>1. j \in 1..Len(wire') /\ j + 1 \in i + 1..Len(wire)
        BY <1>0, <1>1
      <4> QED
        BY <1>1, <1>3, <4>1
    <3> QED
      BY <3>1, <3>2 DEF StoredOrSent
  <2> QED
    BY <2>1, <2>2
<1> QED
  BY <1>2, <1>3 DEF StoredOrSent

LEMMA DragInductive ==
  /\ Init => DragInv
  /\ TypesInv /\ AgentsPlaced /\ DragInv /\ [Next]_vars => DragInv'
<1>1. ASSUME Init PROVE DragInv
  BY <1>1 DEF Init, DragInv, NoSpots
<1>2. ASSUME TypesInv, AgentsPlaced, DragInv, [Next]_vars PROVE DragInv'
  <2>1. CASE UNCHANGED <<server, wire, dragged, pending, armed, blind>> /\ met \subseteq met'
    BY <1>2, <2>1 DEF DragInv, StoredOrSent
  <2>2. \/ UNCHANGED <<server, wire, dragged, pending, armed, blind>> /\ met \subseteq met'
        \/ \E n \in Nodes :
             \/ \E moved \in SUBSET Nodes, p \in Spots : Drag(n, moved, p)
             \/ DragStop(n) \/ SavePanel(n)
        \/ \E t \in Tools : AddTool(t)
        \/ TimerFires
        \/ \E i \in 1..MaxWire : Serve(i) \/ Lose(i)
    BY <1>2 DEF Next, vars, Type, Focus, Meets, Answered, ServeFetch, Fetched
  <2>3. ASSUME NEW n \in Nodes, NEW moved \in SUBSET Nodes, NEW p \in Spots, Drag(n, moved, p)
        PROVE  DragInv'
    <3>1. armed' = TRUE /\ met' = met /\ server' = server /\ wire' = wire
      BY <2>3 DEF Drag
    <3>2. ASSUME NEW m \in Nodes, m \in moved, m \notin blind'
          PROVE  pending'[m] = dragged'[m] /\ pending'[m] # None
      <4>1. m \in moved \cap Placed
        BY <2>3, <3>2 DEF Drag
      <4> QED
        BY <1>2, <2>3, <3>2, <4>1, NodesAssumption DEF Drag, PendingWith
    <3>3. ASSUME NEW m \in Nodes, m \notin moved
          PROVE  pending'[m] = pending[m] /\ dragged'[m] = dragged[m] /\ (m \in blind <=> m \in blind')
      BY <1>2, <2>3, <3>3 DEF Drag, PendingWith, TypesInv, TypeOK
    <3>4. ASSUME NEW m \in Nodes \ blind', met \subseteq {"focus"}
          PROVE  IF pending'[m] = None THEN dragged'[m] = None \/ StoredOrSent(m)'
                 ELSE pending'[m] = dragged'[m]
      <4>1. CASE m \in moved
        BY <3>2, <3>4, <4>1
      <4>2. CASE m \notin moved
        BY <1>2, <3>1, <3>3, <3>4, <4>2 DEF DragInv, StoredOrSent
      <4> QED
        BY <4>1, <4>2
    <3>5. blind' \cap Agents = {}
      <4> SUFFICES ASSUME NEW m \in Agents, m \in blind' PROVE FALSE
        OBVIOUS
      <4>1. m \in moved /\ m \notin Placed
        BY <1>2, <2>3 DEF Drag, DragInv
      <4>2. OnPage(m) /\ m \in Nodes
        BY <2>3, <4>1 DEF Drag, Nodes
      <4> QED
        BY <1>2, <4>1, <4>2 DEF AgentsPlaced, Placed, Listed
    <3> QED
      BY <3>1, <3>4, <3>5 DEF DragInv
  <2>4. ASSUME NEW item \in WireItems, Send(item), Addressed(item),
               UNCHANGED <<server, dragged, pending, armed, blind>>, met \subseteq met',
               \A m \in Nodes : item.spots[m] \in {None, dragged[m]}
        PROVE  DragInv'
    <3>1. ASSUME NEW m \in Nodes, StoredOrSent(m) PROVE StoredOrSent(m)'
      BY <1>2, <2>4, <3>1, SendKeeps
    <3> QED
      BY <1>2, <2>4, <3>1 DEF DragInv
  <2>5. ASSUME NEW n \in Nodes, DragStop(n) PROVE DragInv'
    <3> DEFINE item == Moves([NoSpots EXCEPT ![n] = dragged[n]])
    <3>1. /\ met' = met /\ UNCHANGED <<server, dragged, pending, armed, blind>>
          /\ n \in Placed => Send(item)
          /\ n \notin Placed => UNCHANGED wire
      BY <2>5 DEF DragStop
    <3>2. item \in WireItems /\ Addressed(item)
      <4>1. [NoSpots EXCEPT ![n] = dragged[n]] \in [Nodes -> Spots \cup {None}]
        BY <1>2 DEF NoSpots, TypesInv, TypeOK
      <4> QED
        BY <4>1, ItemsTyped DEF Moves, Addressed
    <3>3. \A m \in Nodes : item.spots[m] = IF m = n THEN dragged[m] ELSE None
      BY DEF Moves, NoSpots
    <3> HIDE DEF item
    <3> QED
      BY <2>1, <2>4, <3>1, <3>2, <3>3
  <2>6. ASSUME NEW n \in Nodes, SavePanel(n) PROVE DragInv'
    <3>1. /\ Send(Save(n)) /\ met' = met /\ UNCHANGED <<server, dragged, pending, armed, blind>>
      BY <2>6 DEF SavePanel
    <3>2. /\ Save(n) \in WireItems /\ Addressed(Save(n))
          /\ \A m \in Nodes : Save(n).spots[m] = None
      BY <1>2, ItemsTyped DEF Save, NoSpots, Addressed, TypesInv, TypeOK
    <3> QED
      BY <2>4, <3>1, <3>2
  <2>7. ASSUME NEW t \in Tools, AddTool(t) PROVE DragInv'
    <3>1. /\ Send(Create(t)) /\ met' = met /\ UNCHANGED <<server, dragged, pending, armed, blind>>
      BY <2>7 DEF AddTool
    <3>2. /\ Create(t) \in WireItems /\ Addressed(Create(t))
          /\ \A m \in Nodes : Create(t).spots[m] = None
      BY ItemsTyped DEF Create, NoSpots, Addressed, Nodes
    <3> QED
      BY <2>4, <3>1, <3>2
  <2>8. CASE TimerFires
    <3>1. /\ met' = met /\ pending' = NoSpots /\ UNCHANGED <<server, dragged, blind>>
      BY <2>8 DEF TimerFires
    <3>2. Moves(pending) \in WireItems /\ Addressed(Moves(pending)) /\ Moves(pending).spots = pending
      BY <1>2, ItemsTyped DEF TypesInv, TypeOK, Moves, Addressed
    <3>3. \A m \in Nodes : pending'[m] = None
      BY <3>1 DEF NoSpots
    <3>4. CASE pending = NoSpots
      <4>1. wire' = wire
        BY <2>8, <3>4 DEF TimerFires, SendPositions
      <4> QED
        BY <1>2, <3>1, <3>3, <3>4, <4>1 DEF DragInv, StoredOrSent
    <3>5. CASE pending # NoSpots
      <4>1. Send(Moves(pending))
        BY <2>8, <3>5 DEF TimerFires, SendPositions
      <4>2. ASSUME NEW m \in Nodes \ blind, met \subseteq {"focus"}
            PROVE  dragged[m] = None \/ StoredOrSent(m)'
        BY <1>2, <3>1, <3>2, <4>1, <4>2, SendKeeps DEF DragInv
      <4> QED
        BY <1>2, <3>1, <3>3, <4>2 DEF DragInv
    <3> QED
      BY <3>4, <3>5
  <2>9. ASSUME NEW i \in 1..MaxWire, Serve(i) PROVE DragInv'
    <3>1. met' \subseteq {"focus"} => i = 1 /\ met \subseteq {"focus"}
      BY <2>9 DEF Serve, Meets
    <3>2. pending' = pending /\ armed' = armed /\ dragged' = dragged /\ blind' = blind
      BY <2>9 DEF Serve
    <3> QED
      BY <1>2, <2>9, <3>1, <3>2, ServeKeeps DEF DragInv
  <2>10. ASSUME NEW i \in 1..MaxWire, Lose(i) PROVE DragInv'
    <3>1. "lost" \in met' /\ pending' = pending /\ armed' = armed /\ blind' = blind
      BY <2>10 DEF Lose, Meets
    <3> QED
      BY <1>2, <3>1 DEF DragInv
  <2> QED
    BY <2>1, <2>2, <2>3, <2>5, <2>6, <2>7, <2>8, <2>9, <2>10
<1> QED
  BY <1>1, <1>2

\* Whichever nodes were dragged before the timer fired, whatever tools were
\* created and whatever was fetched in between: served in order and without loss,
\* the positions end up where the user last put the nodes, of every agent and of
\* every tool that was dragged while the page knew its position's id.
THEOREM DragsEndUpStored == Spec => []DragsAreStored
<1>1. TypesInv /\ DragInv => DragsAreStored
  <2> SUFFICES ASSUME TypesInv, DragInv, Quiet, met \subseteq {"focus"}, NEW n \in Nodes,
                      n \notin Tools \cap blind, dragged[n] # None
               PROVE  server[n].spot = dragged[n]
    BY DEF DragsAreStored
  <2>1. pending[n] = None /\ Len(wire) = 0 /\ n \notin blind
    BY DEF DragInv, Quiet, NoSpots, Nodes
  <2>2. \A i \in 1..Len(wire) : FALSE
    BY <2>1
  <2> QED
    BY <2>1, <2>2 DEF DragInv, StoredOrSent
<1> QED
  BY <1>1, TypesInductive, AgentsPlacedInductive, DragInductive, PTL DEF Spec

-----------------------------------------------------------------------------
(* The last answer for an agent has what is stored, and a page that waits   *)
(* for no answer and has no edits says it.                                  *)

LastAnswer(n, i) ==
  answers[i].node = n /\ \A j \in i + 1..Len(answers) : answers[j].node # n

NoneSent(n) == \A i \in 1..Len(wire) : wire[i].node # n

NoneAnswered(n) == \A i \in 1..Len(answers) : answers[i].node # n

\* A request that is accepted and stored, if it is about an agent.
Saving(item) == item.node \in Agents => item.kind = "save" /\ "config" \in item.ids

SaveInv ==
  met = {} =>
    /\ fetch.pc = "idle"
    /\ \A n \in Agents : OnPage(n)
    /\ \A i \in 1..Len(wire) : Saving(wire[i])
    /\ \A i \in 1..Len(answers) : Saving(answers[i])
    /\ \A n \in Agents, i \in 1..Len(answers) :
         LastAnswer(n, i) => answers[i].text = server[n].text
    /\ \A n \in Agents \ unsaved :
         NoneSent(n) /\ NoneAnswered(n) => page[n].text = server[n].text

\* The answer to a save is put behind those for the same agent that it follows.
LEMMA ServeSaves ==
  ASSUME TypesInv, SaveInv, met = {}, Serve(1)
  PROVE  SaveInv'
<1> DEFINE replied == wire[1].kind = "create" \/ Accepted(wire[1])
<1>0. /\ wire \in Seq(WireItems) /\ Len(wire) \in Nat /\ 1 \in 1..Len(wire)
      /\ wire' = RemoveAt(wire, 1) /\ UNCHANGED <<fetch, unsaved, page>>
      /\ answers \in Seq(WireItems) /\ Len(answers) \in Nat
      /\ answers' = IF replied THEN Append(answers, wire[1]) ELSE answers
      /\ \A n \in Agents : n \in Nodes /\ n \notin Tools
  BY LenProperties, NodesAssumption DEF Serve, TypesInv, TypeOK, Nodes
<1> HIDE DEF replied
<1>1. /\ Len(wire') = Len(wire) - 1
      /\ \A j \in 1..Len(wire') : wire'[j] = wire[j + 1] /\ j + 1 \in 1..Len(wire)
  BY <1>0, WireShrinks
<1>2. wire[1] \in WireItems /\ Saving(wire[1]) /\ \A j \in 1..Len(wire') : Saving(wire'[j])
  BY <1>0, <1>1, ElementOfSeq DEF SaveInv
<1>3. \A n \in Agents : wire[1].node = n => replied
  BY <1>0, <1>2 DEF Saving, Accepted, replied
<1>4. ASSUME NEW n \in Agents
      PROVE  server'[n].text = IF wire[1].node = n THEN wire[1].text ELSE server[n].text
  BY <1>0, <1>2, <1>4 DEF Serve, Stored, Saving, Accepted
<1>5. ASSUME NEW n \in Agents, NoneSent(n)', wire[1].node # n PROVE NoneSent(n)
  <2> SUFFICES ASSUME NEW i \in 1..Len(wire), wire[i].node = n PROVE FALSE
    BY DEF NoneSent
  <2>1. i # 1
    BY <1>5
  <2>2. i - 1 \in 1..Len(wire') /\ i - 1 + 1 = i
    BY <1>0, <1>1, <2>1
  <2> QED
    BY <1>1, <1>5, <2>2 DEF NoneSent
<1>6. CASE ~replied
  <2>1. answers' = answers /\ \A n \in Agents : server'[n].text = server[n].text /\ wire[1].node # n
    BY <1>0, <1>3, <1>4, <1>6
  <2> QED
    BY <1>0, <1>2, <1>5, <2>1 DEF SaveInv, LastAnswer, NoneAnswered, OnPage
<1>7. CASE replied
  <2>2. /\ Len(answers') = Len(answers) + 1
        /\ \A j \in 1..Len(answers) : answers'[j] = answers[j]
        /\ answers'[Len(answers) + 1] = wire[1]
    BY <1>0, <1>2, <1>7
  <2>3. ASSUME NEW n \in Agents, NEW i \in 1..Len(answers'), LastAnswer(n, i)'
        PROVE  answers'[i].text = server'[n].text
    <3>1. CASE i = Len(answers) + 1
      BY <1>4, <2>2, <2>3, <3>1 DEF LastAnswer
    <3>2. CASE i # Len(answers) + 1
      <4>1. i \in 1..Len(answers) /\ Len(answers) + 1 \in i + 1..Len(answers')
        BY <1>0, <2>2, <3>2
      <4>2. wire[1].node # n
        BY <2>2, <2>3, <4>1 DEF LastAnswer
      <4>3. \A j \in i + 1..Len(answers) : j \in i + 1..Len(answers') /\ j \in 1..Len(answers)
        BY <1>0, <2>2, <4>1
      <4>4. LastAnswer(n, i)
        BY <2>2, <2>3, <4>1, <4>3 DEF LastAnswer
      <4> QED
        BY <1>4, <2>2, <4>1, <4>2, <4>4 DEF SaveInv
    <3> QED
      BY <3>1, <3>2
  <2>4. ASSUME NEW n \in Agents \ unsaved, NoneSent(n)', NoneAnswered(n)'
        PROVE  page'[n].text = server'[n].text
    <3>1. Len(answers) + 1 \in 1..Len(answers')
          /\ \A j \in 1..Len(answers) : j \in 1..Len(answers')
      BY <1>0, <2>2
    <3>2. wire[1].node # n /\ NoneAnswered(n)
      BY <2>2, <2>4, <3>1 DEF NoneAnswered
    <3> QED
      BY <1>0, <1>4, <1>5, <2>4, <3>2 DEF SaveInv
  <2>5. ASSUME NEW i \in 1..Len(answers') PROVE Saving(answers'[i])
    <3>1. i \in 1..Len(answers) \/ i = Len(answers) + 1
      BY <1>0, <2>2
    <3> QED
      BY <1>2, <2>2, <3>1 DEF SaveInv
  <2> QED
    BY <1>0, <1>2, <2>3, <2>4, <2>5 DEF SaveInv, OnPage
<1> QED
  BY <1>6, <1>7

\* If no answer for an agent is left, the one that was taken was its last.
LEMMA AnswerSaves ==
  ASSUME TypesInv, SaveInv, met = {}, Answered(1), 1 \in 1..MaxWire
  PROVE  SaveInv'
<1>0. /\ answers \in Seq(WireItems) /\ Len(answers) \in Nat /\ 1 \in 1..Len(answers)
      /\ answers' = RemoveAt(answers, 1)
      /\ UNCHANGED <<server, wire, fetch, unsaved>>
      /\ page \in Pages /\ answers[1].node \in Nodes
      /\ \A n \in Agents : n \in Nodes
  BY LenProperties DEF Answered, TypesInv, TypeOK, Nodes
<1>1. /\ Len(answers') = Len(answers) - 1
      /\ \A j \in 1..Len(answers') : answers'[j] = answers[j + 1] /\ j + 1 \in 1..Len(answers)
  BY <1>0, AnswersShrink
<1>2. ASSUME NEW n \in Agents
      PROVE  /\ OnPage(n)'
             /\ page'[n].text = IF n = answers[1].node THEN answers[1].text ELSE page[n].text
  <2>1. OnPage(n) /\ page[n] \in [spot : Spots \cup {None}, text : Texts, ids : SUBSET Ids]
    BY <1>0 DEF SaveInv, Pages
  <2>2. CASE n # answers[1].node
    <3>1. page'[n] = page[n]
      BY <1>0, <2>2, AnsweredTyped
    <3> QED
      BY <2>1, <2>2, <3>1 DEF OnPage
  <2>3. CASE n = answers[1].node
    <3>1. answers[1].kind = "save"
      BY <1>0, <2>3 DEF SaveInv, Saving
    <3>2. page'[n] = AfterSave(answers[1])
      BY <1>0, <2>3, <3>1, AnsweredTyped
    <3>3. AfterSave(answers[1]) = [page[n] EXCEPT !.text = answers[1].text]
      BY <2>1, <2>3 DEF AfterSave
    <3>4. page'[n].text = answers[1].text /\ page'[n].spot = page[n].spot
      BY <2>1, <3>2, <3>3
    <3> QED
      BY <2>1, <2>3, <3>4 DEF OnPage
  <2> QED
    BY <2>2, <2>3
<1>3. ASSUME NEW n \in Agents, NEW i \in 1..Len(answers'), LastAnswer(n, i)'
      PROVE  answers'[i].text = server'[n].text
  <2>1. ASSUME NEW j \in i + 1 + 1..Len(answers) PROVE answers[j].node # n
    <3>1. j - 1 \in i + 1..Len(answers') /\ j - 1 \in 1..Len(answers') /\ j - 1 + 1 = j
      BY <1>0, <1>1
    <3> QED
      BY <1>1, <1>3, <3>1 DEF LastAnswer
  <2>2. LastAnswer(n, i + 1)
    BY <1>1, <1>3, <2>1 DEF LastAnswer
  <2> QED
    BY <1>0, <1>1, <2>2 DEF SaveInv
<1>4. ASSUME NEW n \in Agents \ unsaved, NoneSent(n)', NoneAnswered(n)'
      PROVE  page'[n].text = server'[n].text
  <2>1. ASSUME NEW i \in 1..Len(answers), i # 1 PROVE answers[i].node # n
    <3>1. i - 1 \in 1..Len(answers') /\ i - 1 + 1 = i
      BY <1>0, <1>1, <2>1
    <3> QED
      BY <1>1, <1>4, <3>1 DEF NoneAnswered
  <2>2. CASE answers[1].node = n
    <3>1. LastAnswer(n, 1)
      BY <1>0, <2>1, <2>2 DEF LastAnswer
    <3> QED
      BY <1>0, <1>2, <2>2, <3>1 DEF SaveInv
  <2>3. CASE answers[1].node # n
    <3>1. NoneAnswered(n) /\ NoneSent(n)
      BY <1>0, <1>4, <2>1, <2>3 DEF NoneAnswered, NoneSent
    <3> QED
      BY <1>0, <1>2, <2>3, <3>1 DEF SaveInv
  <2> QED
    BY <2>2, <2>3
<1>5. /\ \A i \in 1..Len(answers') : Saving(answers'[i])
      /\ \A i \in 1..Len(wire') : Saving(wire'[i])
  BY <1>0, <1>1 DEF SaveInv
<1> QED
  BY <1>0, <1>2, <1>3, <1>4, <1>5 DEF SaveInv

\* A request that is sent takes no answer away.
LEMMA SendSaves ==
  ASSUME TypesInv, SaveInv, NEW item \in WireItems, Send(item),
         Addressed(item), Saving(item),
         UNCHANGED <<page, server, fetch, answers, met>>,
         \A n \in Agents : n \in unsaved /\ n \notin unsaved' => item.node = n
  PROVE  SaveInv'
<1>0. /\ Len(wire) \in Nat /\ Len(wire') = Len(wire) + 1
      /\ \A i \in 1..Len(wire) : wire'[i] = wire[i]
      /\ wire'[Len(wire) + 1] = item
  BY SendTyped
<1>1. Len(wire) + 1 \in 1..Len(wire') /\ \A i \in 1..Len(wire) : i \in 1..Len(wire')
  BY <1>0
<1>2. \A n \in Agents : NoneSent(n)' => NoneSent(n) /\ item.node # n
  BY <1>0, <1>1 DEF NoneSent
<1>3. ASSUME met = {}, NEW i \in 1..Len(wire') PROVE Saving(wire'[i])
  <2>1. i \in 1..Len(wire) \/ i = Len(wire) + 1
    BY <1>0
  <2> QED
    BY <1>0, <1>3, <2>1 DEF SaveInv
<1> QED
  BY <1>2, <1>3 DEF SaveInv, LastAnswer, NoneAnswered, OnPage

LEMMA SaveInductive ==
  /\ Init => SaveInv
  /\ TypesInv /\ AgentsPlaced /\ SaveInv /\ [Next]_vars => SaveInv'
<1>0. \A n \in Agents : n \in Nodes /\ n \notin Tools
  BY NodesAssumption DEF Nodes
<1>1. ASSUME Init PROVE SaveInv
  <2>1. Len(answers) = 0 /\ Len(wire) = 0 /\ fetch.pc = "idle" /\ 1..0 = {}
    BY <1>1 DEF Init, Idle
  <2>2. \A n \in Agents : page[n].text = server[n].text /\ OnPage(n)
    BY <1>0, <1>1, NodesAssumption DEF Init, Shown, Loaded, OnPage
  <2> QED
    BY <2>1, <2>2 DEF SaveInv
<1>2. ASSUME TypesInv, AgentsPlaced, SaveInv, [Next]_vars PROVE SaveInv'
  <2>0. met \subseteq met'
    BY <1>2 DEF Next, vars, Drag, Type, DragStop, SavePanel, AddTool, TimerFires, Focus, Serve,
       Lose, Answered, ServeFetch, Fetched, Meets
  <2> SUFFICES ASSUME met' = {} PROVE SaveInv'
    BY DEF SaveInv
  <2>1. met = {} /\ fetch.pc = "idle"
    BY <1>2, <2>0 DEF SaveInv
  <2>2. ASSUME UNCHANGED <<server, fetch, wire, answers, met>>,
               \A n \in Agents : OnPage(n) => OnPage(n)',
               \A n \in Agents \ unsaved' : n \notin unsaved /\ page'[n].text = page[n].text
        PROVE  SaveInv'
    BY <1>2, <2>2 DEF SaveInv, LastAnswer, NoneSent, NoneAnswered
  <2>3. CASE UNCHANGED vars
    BY <2>2, <2>3 DEF vars, OnPage
  <2>4. ASSUME NEW n \in Nodes, NEW moved \in SUBSET Nodes, NEW p \in Spots, Drag(n, moved, p)
        PROVE  SaveInv'
    <3>1. \A m \in Agents : page'[m].text = page[m].text /\ (OnPage(m) => OnPage(m)')
      BY <1>0, <1>2, <2>4, NodesAssumption DEF Drag, TypesInv, TypeOK, Pages, OnPage
    <3>2. UNCHANGED <<server, fetch, wire, answers, unsaved, met>>
      BY <2>4 DEF Drag
    <3> QED
      BY <2>2, <3>1, <3>2
  <2>5. ASSUME NEW n \in Nodes, NEW text \in Texts, Type(n, text) PROVE SaveInv'
    <3>1. /\ \A m \in Agents \ unsaved' : m \notin unsaved /\ page'[m].text = page[m].text
          /\ \A m \in Agents : OnPage(m) => OnPage(m)'
      BY <1>0, <1>2, <2>5 DEF Type, TypesInv, TypeOK, Pages, OnPage
    <3>2. UNCHANGED <<server, fetch, wire, answers, met>>
      BY <2>5 DEF Type
    <3> QED
      BY <2>2, <3>1, <3>2
  <2>6. ASSUME NEW n \in Nodes, DragStop(n) PROVE SaveInv'
    <3>1. [NoSpots EXCEPT ![n] = dragged[n]] \in [Nodes -> Spots \cup {None}]
      BY <1>2 DEF NoSpots, TypesInv, TypeOK
    <3> DEFINE item == Moves([NoSpots EXCEPT ![n] = dragged[n]])
    <3>2. item \in WireItems /\ Addressed(item) /\ Saving(item)
      BY <1>0, <3>1, ItemsTyped, NodesAssumption DEF Moves, Addressed, Saving
    <3>3. /\ UNCHANGED <<page, server, fetch, answers, unsaved, met>>
          /\ Send(item) \/ UNCHANGED wire
      BY <2>6 DEF DragStop
    <3> HIDE DEF item
    <3>4. CASE Send(item)
      BY <1>2, <3>2, <3>3, <3>4, SendSaves
    <3>5. CASE UNCHANGED wire
      BY <2>2, <3>3, <3>5 DEF OnPage
    <3> QED
      BY <3>3, <3>4, <3>5
  <2>7. CASE TimerFires
    <3>1. Moves(pending) \in WireItems /\ Addressed(Moves(pending)) /\ Saving(Moves(pending))
      BY <1>0, <1>2, ItemsTyped, NodesAssumption DEF TypesInv, TypeOK, Moves, Addressed, Saving
    <3>2. /\ UNCHANGED <<page, server, fetch, answers, unsaved, met>>
          /\ Send(Moves(pending)) \/ UNCHANGED wire
      BY <2>7 DEF TimerFires, SendPositions
    <3>3. CASE Send(Moves(pending))
      BY <1>2, <3>1, <3>2, <3>3, SendSaves
    <3>4. CASE UNCHANGED wire
      BY <2>2, <3>2, <3>4 DEF OnPage
    <3> QED
      BY <3>2, <3>3, <3>4
  <2>8. ASSUME NEW n \in Nodes, SavePanel(n) PROVE SaveInv'
    <3>1. Save(n) \in WireItems /\ Addressed(Save(n)) /\ Save(n).node = n
      BY <1>2, ItemsTyped DEF Save, Addressed, TypesInv, TypeOK
    <3>2. Saving(Save(n))
      BY <1>2, <2>8 DEF Save, Saving, SavePanel, AgentsPlaced, Listed
    <3>3. /\ Send(Save(n)) /\ UNCHANGED <<page, server, fetch, answers, met>>
          /\ unsaved' = unsaved \ {n}
      BY <2>8 DEF SavePanel
    <3> QED
      BY <1>2, <3>1, <3>2, <3>3, SendSaves
  <2>9. ASSUME NEW t \in Tools, AddTool(t) PROVE SaveInv'
    <3>1. Create(t) \in WireItems /\ Addressed(Create(t)) /\ Saving(Create(t))
      BY <1>0, ItemsTyped DEF Create, Addressed, Saving, Nodes
    <3>2. Send(Create(t)) /\ UNCHANGED <<page, server, fetch, answers, unsaved, met>>
      BY <2>9 DEF AddTool
    <3> QED
      BY <1>2, <3>1, <3>2, SendSaves
  <2>10. ASSUME NEW i \in 1..MaxWire, Serve(i) PROVE SaveInv'
    <3>1. i = 1
      BY <2>10 DEF Serve, Meets
    <3> QED
      BY <1>2, <2>1, <2>10, <3>1, ServeSaves
  <2>11. ASSUME NEW i \in 1..MaxWire, Answered(i) PROVE SaveInv'
    <3>1. i = 1
      BY <2>11 DEF Answered, Meets
    <3> QED
      BY <1>2, <2>1, <2>11, <3>1, AnswerSaves
  <2>12. /\ \A i \in 1..MaxWire : ~Lose(i)
         /\ ~Focus /\ ~ServeFetch /\ ~Fetched
    BY <2>1 DEF Lose, Meets, Focus, ServeFetch, Fetched
  <2> QED
    BY <1>2, <2>3, <2>4, <2>5, <2>6, <2>7, <2>8, <2>9, <2>10, <2>11, <2>12 DEF Next
<1> QED
  BY <1>1, <1>2

\* However saves and edits of one agent's panel overlap: served and answered in
\* order and with no fetch in between, a page without unsaved edits says what is
\* stored of it.
THEOREM SavesEndUpShown == Spec => []SavedIsShown
<1>1. TypesInv /\ SaveInv => SavedIsShown
  <2> SUFFICES ASSUME TypesInv, SaveInv, Quiet, met = {}, NEW n \in Agents \ unsaved
               PROVE  page[n].text = server[n].text
    BY DEF SavedIsShown
  <2>1. Len(wire) = 0 /\ Len(answers) = 0
    BY DEF Quiet
  <2>2. NoneSent(n) /\ NoneAnswered(n)
    BY <2>1 DEF NoneSent, NoneAnswered
  <2> QED
    BY <2>2 DEF SaveInv
<1> QED
  BY <1>1, TypesInductive, AgentsPlacedInductive, SaveInductive, PTL DEF Spec

=============================================================================
