--------------------------- MODULE DemoCloneProofs ----------------------------
(***************************************************************************)
(* What a tenant's copy of the demo is, for any number of tenants, seeders *)
(* and edits of the source while it is read.                               *)
(***************************************************************************)
EXTENDS DemoClone, WorkflowGraphProofs

-----------------------------------------------------------------------------
(* Types.                                                                   *)

\* The graph's own invariant and the types of what is seeded from it.
SeedInv == GraphInv /\ SeedTypeOK

LEMMA RestingTyped ==
  /\ Resting \in SeederStates
  /\ \A t \in Tenants : [Resting EXCEPT !.tenant = t] \in SeederStates
  BY DEF Resting, SeederStates, Reading, Nodes

SeederPcs == {"idle", "pick", "lookup", "insert", "user", "done", "failed"} \cup Reading

LEMMA GoesTyped ==
  ASSUME SeedTypeOK, NEW s \in Seeders, NEW pc \in SeederPcs
  PROVE  [seeder[s] EXCEPT !.pc = pc] \in SeederStates
<1>1. seeder[s] \in SeederStates
  BY DEF SeedTypeOK
<1> QED
  BY <1>1 DEF SeederStates, SeederPcs

LEMMA AfterwardsTyped == ASSUME NEW s PROVE Afterwards(s) \in {"user", "pick", "done"}
  BY DEF Afterwards

LEMMA MoveTyped ==
  ASSUME SeedTypeOK, NEW s \in Seeders, NEW r \in SeederStates, Moves(s, r),
         tenant' \in [Tenants -> {"absent", "no_user", "in_use"}],
         copy' \in [Tenants -> Copies \cup {NoCopy}]
  PROVE  SeedTypeOK'
  BY DEF SeedTypeOK, Moves

\* What a seeder reads is made of nodes and pairs of nodes.
LEMMA ReadsTyped ==
  ASSUME SeedInv, NEW s \in Seeders
  PROVE  /\ In(s) \subseteq Nodes
         /\ {<<t, node[t].agent>> : t \in In(s) \cap Tools}
              \in SUBSET (Tools \X (Agents \cup {None}))
         /\ {<<edge[e].source, edge[e].target>> :
               e \in {x \in LiveEdges : edge[x].wf = seeder[s].source}}
              \in SUBSET (Nodes \X Nodes)
<1>1. \A t \in Tools : node[t].agent \in Agents \cup {None}
  BY DEF SeedInv, GraphInv, TypesInv, TypeOK, ToolRows
<1>2. \A e \in LiveEdges : edge[e].source \in Nodes /\ edge[e].target \in Nodes
  BY DEF SeedInv, GraphInv, ReferencesInside, EdgesHaveEnds, LiveEdges
<1> QED
  BY <1>1, <1>2 DEF In

LEMMA SeederTypes ==
  ASSUME SeedInv, NEW s \in Seeders, SeederStep(s)
  PROVE  SeedTypeOK'
<1> USE RestingTyped
<1>1. /\ SeedTypeOK /\ seeder[s] \in SeederStates
      /\ tenant \in [Tenants -> {"absent", "no_user", "in_use"}]
      /\ copy \in [Tenants -> Copies \cup {NoCopy}]
  BY DEF SeedInv, SeedTypeOK
<1>2. ASSUME NEW pc \in SeederPcs, Goes(s, pc), UNCHANGED <<tenant, copy>>
      PROVE  SeedTypeOK'
  BY <1>1, <1>2, GoesTyped, MoveTyped DEF Goes
<1>3. ASSUME NEW t \in Tenants, Register(s, t) PROVE SeedTypeOK'
  <2>1. [Resting EXCEPT !.pc = "lookup", !.tenant = t] \in SeederStates
    BY DEF SeederStates
  <2> QED
    BY <1>1, <1>3, <2>1, MoveTyped DEF Register
<1>4. ASSUME NEW t \in Tenants, Bootstrap(s, t) PROVE SeedTypeOK'
  <2> DEFINE pc == IF tenant[t] = "absent" THEN "lookup" ELSE "user"
  <2>1. [Resting EXCEPT !.tenant = t, !.pc = pc] \in SeederStates
    BY DEF SeederStates
  <2>2. tenant' \in [Tenants -> {"absent", "no_user", "in_use"}]
    BY <1>1, <1>4 DEF Bootstrap
  <2>3. Moves(s, [Resting EXCEPT !.tenant = t, !.pc = pc])
    BY <1>4 DEF Bootstrap
  <2> QED
    BY <1>1, <1>4, <2>1, <2>2, <2>3, MoveTyped DEF Bootstrap
<1>5. CASE CreateFirstUser(s)
  <2>1. tenant' \in [Tenants -> {"absent", "no_user", "in_use"}]
    BY <1>1, <1>5 DEF CreateFirstUser
  <2> QED
    BY <1>1, <1>5, <2>1, GoesTyped, MoveTyped DEF CreateFirstUser, Goes, SeederPcs
<1>6. CASE StartBackfill(s)
  <2> DEFINE todo == {t \in Tenants : tenant[t] # "absent"}
  <2>1. PICK w \in DemoWorkflows :
          Moves(s, [Resting EXCEPT !.pc = "pick", !.source = w, !.held = TRUE,
                       !.todo = todo])
    BY <1>6 DEF StartBackfill
  <2>2. [Resting EXCEPT !.pc = "pick", !.source = w, !.held = TRUE,
                       !.todo = todo] \in SeederStates
    BY <2>1 DEF SeederStates, DemoWorkflows
  <2> QED
    BY <1>1, <1>6, <2>1, <2>2, MoveTyped DEF StartBackfill
<1>7. CASE PickTenant(s)
  <2>1. CASE seeder[s].todo = {} /\ Goes(s, "done")
    BY <1>2, <1>7, <2>1 DEF PickTenant, SeederPcs
  <2>2. ASSUME NEW t \in seeder[s].todo,
               Moves(s, [Resting EXCEPT !.source = seeder[s].source, !.held = seeder[s].held,
                           !.todo = seeder[s].todo \ {t},
                           !.tenant = IF copy[t] = NoCopy THEN t ELSE None,
                           !.pc = IF copy[t] = NoCopy THEN "insert" ELSE "pick"])
        PROVE  SeedTypeOK'
    <3> DEFINE x == IF copy[t] = NoCopy THEN t ELSE None
               pc == IF copy[t] = NoCopy THEN "insert" ELSE "pick"
               w == seeder[s].source
               h == seeder[s].held
               todo == seeder[s].todo \ {t}
    <3>1. /\ x \in Tenants \cup {None} /\ pc \in {"insert", "pick"}
          /\ w \in Workflows \cup {None} /\ h \in BOOLEAN /\ todo \in SUBSET Tenants
      BY <1>1 DEF SeederStates
    <3>2. Moves(s, [Resting EXCEPT !.source = w, !.held = h, !.todo = todo, !.tenant = x,
                      !.pc = pc])
      BY <2>2
    <3> HIDE DEF x, pc, w, h, todo
    <3>3. [Resting EXCEPT !.source = w, !.held = h, !.todo = todo, !.tenant = x, !.pc = pc]
            \in SeederStates
      <4>1. [Resting EXCEPT !.source = w, !.held = h] \in SeederStates
        BY <3>1 DEF SeederStates
      <4>2. ASSUME NEW r \in SeederStates
            PROVE  [r EXCEPT !.todo = todo, !.tenant = x, !.pc = pc] \in SeederStates
        BY <3>1 DEF SeederStates
      <4> QED
        BY <4>1, <4>2
    <3> QED
      BY <1>1, <1>7, <3>2, <3>3, MoveTyped DEF PickTenant
  <2> QED
    BY <1>7, <2>1, <2>2 DEF PickTenant
<1>8. CASE LookUpDemo(s)
  <2>1. ASSUME NEW w \in DemoWorkflows,
               Moves(s, [seeder[s] EXCEPT !.pc = "insert", !.source = w, !.held = TRUE])
        PROVE  SeedTypeOK'
    <3>1. [seeder[s] EXCEPT !.pc = "insert", !.source = w, !.held = TRUE] \in SeederStates
      BY <1>1 DEF SeederStates, DemoWorkflows
    <3> QED
      BY <1>1, <1>8, <2>1, <3>1, MoveTyped DEF LookUpDemo
  <2>2. CASE Goes(s, Afterwards(s))
    BY <1>2, <1>8, <2>2, AfterwardsTyped DEF LookUpDemo, SeederPcs
  <2> QED
    BY <1>8, <2>1, <2>2 DEF LookUpDemo
<1>9. CASE InsertCopy(s)
  BY <1>2, <1>9 DEF InsertCopy, SeederPcs, Reading
<1>10. CASE ReadAgents(s)
  <2>1. [seeder[s] EXCEPT !.pc = "tools", !.agents = In(s) \cap Agents] \in SeederStates
    BY <1>1 DEF SeederStates, Reading
  <2> QED
    BY <1>1, <1>10, <2>1, MoveTyped DEF ReadAgents
<1>11. CASE ReadTools(s)
  <2>1. [seeder[s] EXCEPT !.pc = "positions",
           !.tools = {<<t, node[t].agent>> : t \in In(s) \cap Tools}] \in SeederStates
    BY <1>1, ReadsTyped DEF SeederStates, Reading
  <2> QED
    BY <1>1, <1>11, <2>1, MoveTyped DEF ReadTools
<1>12. CASE ReadPositions(s)
  <2>1. [seeder[s] EXCEPT !.pc = "configs", !.positions = In(s)] \in SeederStates
    BY <1>1, ReadsTyped DEF SeederStates, Reading
  <2> QED
    BY <1>1, <1>12, <2>1, MoveTyped DEF ReadPositions
<1>13. CASE ReadConfigs(s)
  <2>1. [seeder[s] EXCEPT !.pc = "edges", !.configs = In(s)] \in SeederStates
    BY <1>1, ReadsTyped DEF SeederStates, Reading
  <2> QED
    BY <1>1, <1>13, <2>1, MoveTyped DEF ReadConfigs
<1>14. CASE ReadEdges(s)
  <2>1. [seeder[s] EXCEPT !.pc = "write",
           !.edges = {<<edge[e].source, edge[e].target>> :
                        e \in {x \in LiveEdges : edge[x].wf = seeder[s].source}}]
          \in SeederStates
    BY <1>1, ReadsTyped DEF SeederStates, Reading
  <2> QED
    BY <1>1, <1>14, <2>1, MoveTyped DEF ReadEdges
<1>15. CASE WriteCopy(s)
  <2>1. copy' \in [Tenants -> Copies \cup {NoCopy}]
    BY <1>1, <1>15 DEF WriteCopy, Copies, SeederStates
  <2>2. Afterwards(s) \in {"user", "pick", "done"}
    BY AfterwardsTyped
  <2>3. [seeder[s] EXCEPT !.pc = Afterwards(s), !.held = FALSE] \in SeederStates
    BY <1>1, <2>2 DEF SeederStates
  <2> QED
    BY <1>1, <1>15, <2>1, <2>3, MoveTyped DEF WriteCopy
<1>16. CASE FailClone(s)
  BY <1>2, <1>16 DEF FailClone, SeederPcs
<1> QED
  BY <1>3, <1>4, <1>5, <1>6, <1>7, <1>8, <1>9, <1>10, <1>11, <1>12, <1>13, <1>14, <1>15,
     <1>16 DEF SeederStep

LEMMA SourceTypes == SeedInv /\ SourceStep => SeedTypeOK'
<1> SUFFICES ASSUME SeedInv, SourceStep PROVE SeedTypeOK'
  OBVIOUS
<1>1. ASSUME NEW s \in Seeders
      PROVE  [seeder[s] EXCEPT !.changed = @ \/ seeder[s].pc \in Reading] \in SeederStates
  <2>1. seeder[s] \in SeederStates
    BY DEF SeedInv, SeedTypeOK
  <2> QED
    BY <2>1 DEF SeederStates
<1> QED
  BY <1>1 DEF SourceStep, SeedInv, SeedTypeOK

LEMMA SeedInductive ==
  /\ SeedInit => SeedInv
  /\ SeedInv /\ [SeedNext]_allVars => SeedInv'
<1>1. SeedInit => SeedInv
  BY GraphInductive, RestingTyped DEF SeedInit, SeedInv, SeedTypeOK
<1>2. ASSUME SeedInv, [SeedNext]_allVars PROVE SeedInv'
  <2>1. [Next]_vars
    BY <1>2 DEF SeedNext, SourceStep, allVars, vars
  <2>2. GraphInv'
    BY <1>2, <2>1, GraphInductive DEF SeedInv
  <2>3. SeedTypeOK'
    BY <1>2, SeederTypes, SourceTypes DEF SeedNext, allVars, SeedInv, SeedTypeOK
  <2> QED
    BY <2>2, <2>3 DEF SeedInv
<1> QED
  BY <1>1, <1>2

\* Every seeding variable keeps its type.
THEOREM SeedTypesHold == SeedSpec => []SeedTypeOK
<1>1. SeedInv => SeedTypeOK
  BY DEF SeedInv
<1> QED
  BY <1>1, SeedInductive, PTL DEF SeedSpec

-----------------------------------------------------------------------------
(* Copies are whole.                                                        *)

LEMMA OnlyWritesCopy ==
  ASSUME [SeedNext]_allVars
  PROVE  copy' = copy \/ \E s \in Seeders : WriteCopy(s)
  BY DEF SeedNext, SourceStep, allVars, SeederStep, Register, Bootstrap, CreateFirstUser,
     StartBackfill, PickTenant, LookUpDemo, InsertCopy, ReadAgents, ReadTools,
     ReadPositions, ReadConfigs, ReadEdges, FailClone

\* The copy a seeder would write.
CopyOf(s) ==
  [agents |-> seeder[s].agents, tools |-> seeder[s].tools,
   positions |-> seeder[s].positions, configs |-> seeder[s].configs,
   edges |-> seeder[s].edges]

\* What CopiesWhole says of one copy.
Whole(k) ==
  LET tools == {pair[1] : pair \in k.tools}
      nodes == k.agents \cup tools
  IN /\ \A pair \in k.tools : pair[2] \in k.agents
     /\ k.positions = nodes /\ k.configs = nodes
     /\ \A pair \in k.edges : {pair[1], pair[2]} \subseteq nodes

LEMMA HoldingIsWhole ==
  ASSUME NEW s \in Seeders, CloneHolds(s)
  PROVE  Whole(CopyOf(s))
<1>1. seeder[s].positions = seeder[s].agents \cup ToolsRead(s)
  BY DEF CloneHolds, PositionsMap, LinksMap
<1>2. seeder[s].configs = seeder[s].agents \cup ToolsRead(s)
  BY DEF CloneHolds, ConfigsMap, LinksMap
<1>3. \A pair \in seeder[s].tools : pair[2] \in seeder[s].agents
  BY DEF CloneHolds, ToolsMap
<1>4. \A pair \in seeder[s].edges : {pair[1], pair[2]} \subseteq seeder[s].positions
  BY DEF CloneHolds, EdgesMap
<1> QED
  BY <1>1, <1>2, <1>3, <1>4 DEF Whole, CopyOf, ToolsRead

AllWhole == \A t \in Tenants : copy[t] # NoCopy => Whole(copy[t])

LEMMA WholeStep == SeedInv /\ AllWhole /\ [SeedNext]_allVars => AllWhole'
<1> SUFFICES ASSUME SeedInv, AllWhole, [SeedNext]_allVars, NEW t \in Tenants,
                    copy'[t] # NoCopy
             PROVE  Whole(copy'[t])
  BY DEF AllWhole, NoCopy, Whole
<1>1. CASE copy'[t] = copy[t]
  BY <1>1 DEF AllWhole
<1>2. ASSUME NEW s \in Seeders, WriteCopy(s), copy'[t] # copy[t]
      PROVE  Whole(copy'[t])
  <2>1. copy'[t] = CopyOf(s)
    BY <1>2 DEF WriteCopy, CopyOf, SeedInv, SeedTypeOK
  <2> QED
    BY <1>2, <2>1, HoldingIsWhole DEF WriteCopy
<1> QED
  BY <1>1, <1>2, OnlyWritesCopy

\* A copy that was committed is whole, whatever the owner did to the source
\* while its tables were read one by one.
THEOREM CopiesAreWhole == SeedSpec => []CopiesWhole
<1>1. AllWhole => CopiesWhole
  BY DEF AllWhole, Whole, CopiesWhole
<1>2. SeedInit => AllWhole
  BY DEF SeedInit, AllWhole
<1> QED
  BY <1>1, <1>2, WholeStep, SeedInductive, PTL DEF SeedSpec

-----------------------------------------------------------------------------
(* Copies are written once.                                                 *)

\* A clone is for a tenant; at most one per tenant is under way, and none for
\* a tenant that has its copy.
Aimed == {"lookup", "insert"} \cup Reading

OneClone ==
  /\ \A s \in Seeders : seeder[s].pc \in Aimed => seeder[s].tenant \in Tenants
  /\ \A s, x \in Seeders :
       seeder[s].pc \in Reading /\ seeder[x].pc \in Reading
         /\ seeder[s].tenant = seeder[x].tenant => s = x
  /\ \A s \in Seeders : seeder[s].pc \in Reading => copy[seeder[s].tenant] = NoCopy

\* A step that begins no clone and ends none.
LEMMA NoNewClone ==
  ASSUME SeedTypeOK, OneClone, NEW s \in Seeders, copy' = copy,
         \A x \in Seeders \ {s} : seeder'[x] = seeder[x],
         seeder'[s].pc \in Aimed => seeder'[s].tenant \in Tenants,
         seeder'[s].pc \in Reading =>
           seeder[s].pc \in Reading /\ seeder'[s].tenant = seeder[s].tenant
  PROVE  OneClone'
<1>1. \A x \in Seeders : seeder'[x].pc \in Reading =>
        seeder[x].pc \in Reading /\ seeder'[x].tenant = seeder[x].tenant
  OBVIOUS
<1>2. \A x \in Seeders : seeder'[x].pc \in Aimed => seeder'[x].tenant \in Tenants
  BY DEF OneClone
<1> QED
  BY <1>1, <1>2 DEF OneClone

LEMMA SeederMoves ==
  ASSUME SeedTypeOK, NEW s \in Seeders, NEW r, Moves(s, r)
  PROVE  seeder'[s] = r /\ \A x \in Seeders \ {s} : seeder'[x] = seeder[x]
  BY DEF SeedTypeOK, Moves

LEMMA OneCloneStep == SeedInv /\ OneClone /\ [SeedNext]_allVars => OneClone'
<1> SUFFICES ASSUME SeedInv, OneClone, [SeedNext]_allVars PROVE OneClone'
  OBVIOUS
<1>0. SeedTypeOK
  BY DEF SeedInv
<1>1. CASE UNCHANGED allVars
  BY <1>1 DEF allVars, OneClone
<1>2. CASE SourceStep
  <2>1. \A s \in Seeders : seeder'[s].pc = seeder[s].pc /\ seeder'[s].tenant = seeder[s].tenant
    BY <1>0, <1>2 DEF SourceStep, SeedTypeOK, SeederStates
  <2> QED
    BY <1>2, <2>1 DEF SourceStep, OneClone
<1> SUFFICES ASSUME NEW s \in Seeders, SeederStep(s) PROVE OneClone'
  BY <1>1, <1>2 DEF SeedNext
<1>3. seeder[s] \in SeederStates
  BY <1>0 DEF SeedTypeOK
<1>4. ASSUME NEW r, Moves(s, r), copy' = copy,
             r.pc \in Aimed => r.tenant \in Tenants,
             r.pc \in Reading => seeder[s].pc \in Reading /\ r.tenant = seeder[s].tenant
      PROVE  OneClone'
  BY <1>0, <1>4, SeederMoves, NoNewClone
<1>5. ASSUME NEW pc, Goes(s, pc) PROVE
        /\ seeder'[s].pc = pc /\ seeder'[s].tenant = seeder[s].tenant
        /\ \A x \in Seeders \ {s} : seeder'[x] = seeder[x]
  BY <1>0, <1>3, <1>5 DEF Goes, Moves, SeedTypeOK, SeederStates
<1>6. ASSUME NEW pc \in {"done", "failed", "user", "pick"}, Goes(s, pc), copy' = copy
      PROVE  OneClone'
  <2>1. pc \notin Aimed /\ pc \notin Reading
    BY DEF Aimed, Reading
  <2> QED
    BY <1>0, <1>5, <1>6, <2>1, NoNewClone
<1>7. ASSUME NEW t \in Tenants, Register(s, t) \/ Bootstrap(s, t) PROVE OneClone'
  <2>1. /\ seeder'[s].tenant = t /\ seeder'[s].pc \in {"lookup", "user"} /\ copy' = copy
        /\ \A x \in Seeders \ {s} : seeder'[x] = seeder[x]
    <3>1. CASE Register(s, t)
      BY <1>0, <3>1 DEF Register, Moves, Resting, SeedTypeOK
    <3>2. CASE Bootstrap(s, t)
      BY <1>0, <3>2 DEF Bootstrap, Moves, Resting, SeedTypeOK
    <3> QED
      BY <1>7, <3>1, <3>2
  <2> QED
    BY <1>0, <2>1, NoNewClone DEF Reading
<1>8. CASE CreateFirstUser(s) \/ FailClone(s)
  BY <1>6, <1>8 DEF CreateFirstUser, FailClone
<1>9. CASE StartBackfill(s)
  <2>1. /\ seeder'[s].pc = "pick" /\ copy' = copy
        /\ \A x \in Seeders \ {s} : seeder'[x] = seeder[x]
    BY <1>0, <1>9 DEF StartBackfill, Moves, Resting, SeedTypeOK
  <2> QED
    BY <1>0, <2>1, NoNewClone DEF Aimed, Reading
<1>10. CASE PickTenant(s)
  <2>1. CASE Goes(s, "done")
    BY <1>6, <1>10, <2>1 DEF PickTenant
  <2>2. ASSUME NEW t \in seeder[s].todo,
               Moves(s, [Resting EXCEPT !.source = seeder[s].source, !.held = seeder[s].held,
                           !.todo = seeder[s].todo \ {t},
                           !.tenant = IF copy[t] = NoCopy THEN t ELSE None,
                           !.pc = IF copy[t] = NoCopy THEN "insert" ELSE "pick"])
        PROVE  OneClone'
    <3>1. t \in Tenants
      BY <1>3 DEF SeederStates
    <3>2. /\ seeder'[s].pc \in {"insert", "pick"}
          /\ seeder'[s].pc = "insert" => seeder'[s].tenant = t
          /\ \A x \in Seeders \ {s} : seeder'[x] = seeder[x]
      BY <1>0, <2>2 DEF Moves, Resting, SeedTypeOK
    <3> QED
      BY <1>0, <1>10, <3>1, <3>2, NoNewClone DEF PickTenant, Aimed, Reading
  <2> QED
    BY <1>10, <2>1, <2>2 DEF PickTenant
<1>11. CASE LookUpDemo(s)
  <2>1. ASSUME NEW w \in DemoWorkflows,
               Moves(s, [seeder[s] EXCEPT !.pc = "insert", !.source = w, !.held = TRUE])
        PROVE  OneClone'
    <3>1. /\ seeder'[s].pc = "insert" /\ seeder'[s].tenant = seeder[s].tenant
          /\ \A x \in Seeders \ {s} : seeder'[x] = seeder[x]
      BY <1>0, <1>3, <2>1 DEF Moves, SeedTypeOK, SeederStates
    <3>2. seeder[s].tenant \in Tenants
      BY <1>11 DEF LookUpDemo, At, OneClone, Aimed
    <3> QED
      BY <1>0, <1>11, <3>1, <3>2, NoNewClone DEF LookUpDemo, Reading
  <2>2. CASE Goes(s, Afterwards(s))
    BY <1>6, <1>11, <2>2, AfterwardsTyped DEF LookUpDemo
  <2> QED
    BY <1>11, <2>1, <2>2 DEF LookUpDemo
<1>12. CASE InsertCopy(s)
  <2>1. CASE Goes(s, "failed")
    BY <1>6, <1>12, <2>1 DEF InsertCopy
  <2>2. CASE Goes(s, "agents") /\ copy[seeder[s].tenant] = NoCopy
    <3>1. seeder[s].tenant \in Tenants
      BY <1>12 DEF InsertCopy, At, OneClone, Aimed
    <3>2. \A x \in Seeders \ {s} :
            ~(seeder[x].pc \in Reading /\ seeder[x].tenant = seeder[s].tenant)
      BY <1>12 DEF InsertCopy, Contended
    <3>3. /\ seeder'[s].tenant = seeder[s].tenant
          /\ \A x \in Seeders \ {s} : seeder'[x] = seeder[x]
      BY <1>5, <2>2
    <3> QED
      BY <1>12, <2>2, <3>1, <3>2, <3>3 DEF InsertCopy, OneClone
  <2> QED
    BY <1>12, <2>1, <2>2 DEF InsertCopy
<1>13. CASE ReadAgents(s) \/ ReadTools(s) \/ ReadPositions(s) \/ ReadConfigs(s) \/ ReadEdges(s)
  <2>1. seeder[s].pc \in Reading /\ copy' = copy
    BY <1>13 DEF ReadAgents, ReadTools, ReadPositions, ReadConfigs, ReadEdges, At, Reading
  <2>2. seeder'[s].tenant = seeder[s].tenant
        /\ \A x \in Seeders \ {s} : seeder'[x] = seeder[x]
    <3> USE DEF Moves, SeedTypeOK, SeederStates
    <3>1. CASE ReadAgents(s)
      BY <1>0, <1>3, <3>1 DEF ReadAgents
    <3>2. CASE ReadTools(s)
      BY <1>0, <1>3, <3>2 DEF ReadTools
    <3>3. CASE ReadPositions(s)
      BY <1>0, <1>3, <3>3 DEF ReadPositions
    <3>4. CASE ReadConfigs(s)
      BY <1>0, <1>3, <3>4 DEF ReadConfigs
    <3>5. CASE ReadEdges(s)
      BY <1>0, <1>3, <3>5 DEF ReadEdges
    <3> QED
      BY <1>13, <3>1, <3>2, <3>3, <3>4, <3>5
  <2>3. seeder[s].tenant \in Tenants
    BY <2>1 DEF OneClone, Aimed
  <2> QED
    BY <1>0, <2>1, <2>2, <2>3, NoNewClone
<1>14. CASE WriteCopy(s)
  <2>1. seeder[s].pc \in Reading
    BY <1>14 DEF WriteCopy, At, Reading
  <2>2. /\ seeder'[s].pc \in {"user", "pick", "done"}
        /\ \A x \in Seeders \ {s} : seeder'[x] = seeder[x]
    BY <1>0, <1>3, <1>14, AfterwardsTyped DEF WriteCopy, Moves, SeedTypeOK, SeederStates
  <2>3. seeder'[s].pc \notin Aimed /\ seeder'[s].pc \notin Reading
    BY <2>2 DEF Aimed, Reading
  <2>4. \A t \in Tenants : t # seeder[s].tenant => copy'[t] = copy[t]
    BY <1>0, <1>14 DEF WriteCopy, SeedTypeOK
  <2>5. \A x \in Seeders \ {s} : seeder[x].pc \in Reading =>
          seeder[x].tenant \in Tenants /\ seeder[x].tenant # seeder[s].tenant
    BY <2>1 DEF OneClone, Aimed
  <2> QED
    BY <2>2, <2>3, <2>4, <2>5 DEF OneClone
<1> QED
  BY <1>7, <1>8, <1>9, <1>10, <1>11, <1>12, <1>13, <1>14 DEF SeederStep

\* However registrations, bootstraps and backfills race for a tenant, no clone
\* replaces the copy of another.
THEOREM SeedingIsOnce == SeedSpec => DemoIsSeededOnce
<1> DEFINE Once == \A t \in Tenants : copy[t] # NoCopy => copy'[t] = copy[t]
<1>1. SeedInit => OneClone
  BY DEF SeedInit, OneClone, Resting, Aimed, Reading
<1>2. SeedInv /\ OneClone /\ [SeedNext]_allVars => [Once]_allVars
  <2>1. ASSUME SeedInv, OneClone, NEW s \in Seeders, WriteCopy(s), NEW t \in Tenants,
               copy[t] # NoCopy
        PROVE  copy'[t] = copy[t]
    <3>1. t # seeder[s].tenant
      BY <2>1 DEF WriteCopy, At, Reading, OneClone
    <3> QED
      BY <2>1, <3>1 DEF WriteCopy, SeedInv, SeedTypeOK
  <2> QED
    BY <2>1, OnlyWritesCopy
<1> QED
  BY <1>1, <1>2, OneCloneStep, SeedInductive, PTL DEF SeedSpec, DemoIsSeededOnce

-----------------------------------------------------------------------------
(* Why clones fail.                                                         *)

\* As long as the source was not edited, what has been read is what is stored.
Current(r) ==
  ~r.changed =>
    /\ r.pc \in {"tools", "positions", "configs", "edges", "write"} =>
         r.agents = Here(r.source) \cap Agents
    /\ r.pc \in {"positions", "configs", "edges", "write"} =>
         r.tools = ToolsHere(r.source)
    /\ r.pc \in {"configs", "edges", "write"} => r.positions = Here(r.source)
    /\ r.pc \in {"edges", "write"} => r.configs = Here(r.source)
    /\ r.pc = "write" => r.edges = LinksHere(r.source)

AllCurrent == \A s \in Seeders : Current(seeder[s])

\* A step that leaves the tables alone.
LEMMA OneCurrent ==
  ASSUME SeedTypeOK, AllCurrent, UNCHANGED vars, NEW s \in Seeders, NEW r,
         Current(r), Moves(s, r)
  PROVE  AllCurrent'
<1>1. ASSUME NEW x \in Seeders, NEW k, Current(k), seeder'[x] = k
      PROVE  Current(seeder[x])'
  BY <1>1 DEF vars, Current, Here, ToolsHere, LinksHere, NodeIn, LiveEdges
<1>2. ASSUME NEW x \in Seeders PROVE Current(seeder[x])'
  <2>1. seeder'[x] = r \/ seeder'[x] = seeder[x]
    BY SeederMoves
  <2> QED
    BY <1>1, <2>1 DEF AllCurrent
<1> QED
  BY <1>2 DEF AllCurrent

\* Outside the reading there is nothing to be current.
LEMMA IdleIsCurrent == ASSUME NEW r, r.pc \notin Reading \ {"agents"} PROVE Current(r)
  BY DEF Current, Reading

LEMMA IdleMove ==
  ASSUME SeedTypeOK, AllCurrent, UNCHANGED vars, NEW s \in Seeders, NEW r, Moves(s, r),
         r.pc \in {"idle", "pick", "lookup", "insert", "user", "done", "failed", "agents"}
  PROVE  AllCurrent'
<1>1. r.pc \notin Reading \ {"agents"}
  BY DEF Reading
<1> QED
  BY <1>1, IdleIsCurrent, OneCurrent

LEMMA CurrentStep == SeedInv /\ AllCurrent /\ [SeedNext]_allVars => AllCurrent'
<1> SUFFICES ASSUME SeedInv, AllCurrent, [SeedNext]_allVars PROVE AllCurrent'
  OBVIOUS
<1>0. SeedTypeOK
  BY DEF SeedInv
<1>1. CASE UNCHANGED allVars
  BY <1>1 DEF allVars, AllCurrent, Current, Here, ToolsHere, LinksHere, NodeIn, LiveEdges
<1>2. CASE SourceStep
  <2> SUFFICES ASSUME NEW s \in Seeders PROVE Current(seeder[s])'
    BY DEF AllCurrent
  <2>1. /\ seeder'[s].pc = seeder[s].pc
        /\ seeder[s].pc \in Reading => seeder'[s].changed
    BY <1>0, <1>2 DEF SourceStep, SeedTypeOK, SeederStates
  <2>2. CASE seeder[s].pc \in Reading
    BY <2>1, <2>2 DEF Current
  <2>3. CASE seeder[s].pc \notin Reading
    BY <2>1, <2>3 DEF Current, Reading
  <2> QED
    BY <2>2, <2>3
<1> SUFFICES ASSUME NEW s \in Seeders, SeederStep(s), UNCHANGED vars PROVE AllCurrent'
  BY <1>1, <1>2 DEF SeedNext
<1>3. seeder[s] \in SeederStates /\ Current(seeder[s])
  BY <1>0 DEF SeedTypeOK, AllCurrent
<1>4. ASSUME NEW pc \in {"done", "failed", "user", "pick", "agents"}, Goes(s, pc)
      PROVE  AllCurrent'
  <2>1. [seeder[s] EXCEPT !.pc = pc].pc = pc
    BY <1>3 DEF SeederStates
  <2> QED
    BY <1>0, <1>4, <2>1, IdleMove DEF Goes
<1>5. ASSUME NEW t \in Tenants, Register(s, t) PROVE AllCurrent'
  <2>1. [Resting EXCEPT !.pc = "lookup", !.tenant = t].pc = "lookup"
    BY DEF Resting
  <2> QED
    BY <1>0, <1>5, <2>1, IdleMove DEF Register
<1>6. ASSUME NEW t \in Tenants, Bootstrap(s, t) PROVE AllCurrent'
  <2> DEFINE pc == IF tenant[t] = "absent" THEN "lookup" ELSE "user"
  <2>1. pc \in {"lookup", "user"} /\ Moves(s, [Resting EXCEPT !.tenant = t, !.pc = pc])
    BY <1>6 DEF Bootstrap
  <2> HIDE DEF pc
  <2>2. [Resting EXCEPT !.tenant = t, !.pc = pc].pc = pc
    BY DEF Resting
  <2> QED
    BY <1>0, <2>1, <2>2, IdleMove
<1>7. CASE CreateFirstUser(s) \/ FailClone(s)
  BY <1>4, <1>7 DEF CreateFirstUser, FailClone
<1>8. CASE StartBackfill(s)
  <2> DEFINE todo == {t \in Tenants : tenant[t] # "absent"}
  <2>1. PICK w \in DemoWorkflows :
          Moves(s, [Resting EXCEPT !.pc = "pick", !.source = w, !.held = TRUE,
                       !.todo = todo])
    BY <1>8 DEF StartBackfill
  <2>2. [Resting EXCEPT !.pc = "pick", !.source = w, !.held = TRUE,
                       !.todo = todo].pc = "pick"
    BY DEF Resting
  <2> QED
    BY <1>0, <2>1, <2>2, IdleMove
<1>9. CASE PickTenant(s)
  <2>1. CASE Goes(s, "done")
    BY <1>4, <2>1
  <2>2. ASSUME NEW t \in seeder[s].todo,
               Moves(s, [Resting EXCEPT !.source = seeder[s].source, !.held = seeder[s].held,
                           !.todo = seeder[s].todo \ {t},
                           !.tenant = IF copy[t] = NoCopy THEN t ELSE None,
                           !.pc = IF copy[t] = NoCopy THEN "insert" ELSE "pick"])
        PROVE  AllCurrent'
    <3> DEFINE x == IF copy[t] = NoCopy THEN t ELSE None
               pc == IF copy[t] = NoCopy THEN "insert" ELSE "pick"
               r == [Resting EXCEPT !.source = seeder[s].source, !.held = seeder[s].held,
                       !.todo = seeder[s].todo \ {t}, !.tenant = x, !.pc = pc]
    <3>1. pc \in {"insert", "pick"} /\ Moves(s, r)
      BY <2>2
    <3> HIDE DEF x, pc
    <3>2. r.pc = pc
      BY DEF Resting
    <3> QED
      BY <1>0, <3>1, <3>2, IdleMove
  <2> QED
    BY <1>9, <2>1, <2>2 DEF PickTenant
<1>10. CASE LookUpDemo(s)
  <2>1. ASSUME NEW w \in DemoWorkflows,
               Moves(s, [seeder[s] EXCEPT !.pc = "insert", !.source = w, !.held = TRUE])
        PROVE  AllCurrent'
    <3>1. [seeder[s] EXCEPT !.pc = "insert", !.source = w, !.held = TRUE].pc = "insert"
      BY <1>3 DEF SeederStates
    <3> QED
      BY <1>0, <2>1, <3>1, IdleMove
  <2>2. CASE Goes(s, Afterwards(s))
    BY <1>4, <2>2, AfterwardsTyped
  <2> QED
    BY <1>10, <2>1, <2>2 DEF LookUpDemo
<1>11. CASE InsertCopy(s)
  BY <1>4, <1>11 DEF InsertCopy
<1>12. CASE ReadAgents(s)
  <2> DEFINE r == [seeder[s] EXCEPT !.pc = "tools", !.agents = In(s) \cap Agents]
  <2>1. Current(r)
    BY <1>3, <1>12 DEF ReadAgents, At, Current, In, Here, SeederStates
  <2> QED
    BY <1>0, <1>12, <2>1, OneCurrent DEF ReadAgents
<1>13. CASE ReadTools(s)
  <2> DEFINE r == [seeder[s] EXCEPT !.pc = "positions",
                     !.tools = {<<t, node[t].agent>> : t \in In(s) \cap Tools}]
  <2>1. Current(r)
    BY <1>3, <1>13 DEF ReadTools, At, Current, In, Here, ToolsHere, SeederStates
  <2> QED
    BY <1>0, <1>13, <2>1, OneCurrent DEF ReadTools
<1>14. CASE ReadPositions(s)
  <2> DEFINE r == [seeder[s] EXCEPT !.pc = "configs", !.positions = In(s)]
  <2>1. Current(r)
    BY <1>3, <1>14 DEF ReadPositions, At, Current, In, Here, SeederStates
  <2> QED
    BY <1>0, <1>14, <2>1, OneCurrent DEF ReadPositions
<1>15. CASE ReadConfigs(s)
  <2> DEFINE r == [seeder[s] EXCEPT !.pc = "edges", !.configs = In(s)]
  <2>1. Current(r)
    BY <1>3, <1>15 DEF ReadConfigs, At, Current, In, Here, SeederStates
  <2> QED
    BY <1>0, <1>15, <2>1, OneCurrent DEF ReadConfigs
<1>16. CASE ReadEdges(s)
  <2> DEFINE r == [seeder[s] EXCEPT !.pc = "write",
           !.edges = {<<edge[e].source, edge[e].target>> :
                        e \in {x \in LiveEdges : edge[x].wf = seeder[s].source}}]
  <2>1. Current(r)
    BY <1>3, <1>16 DEF ReadEdges, At, Current, LinksHere, SeederStates
  <2> QED
    BY <1>0, <1>16, <2>1, OneCurrent DEF ReadEdges
<1>17. CASE WriteCopy(s)
  <2> DEFINE r == [seeder[s] EXCEPT !.pc = Afterwards(s), !.held = FALSE]
  <2>1. r.pc = Afterwards(s)
    BY <1>3 DEF SeederStates
  <2>2. Moves(s, r)
    BY <1>17 DEF WriteCopy
  <2> HIDE DEF r
  <2> QED
    BY <1>0, <2>1, <2>2, IdleMove, AfterwardsTyped
<1> QED
  BY <1>5, <1>6, <1>7, <1>8, <1>9, <1>10, <1>11, <1>12, <1>13, <1>14, <1>15, <1>16, <1>17
     DEF SeederStep

\* A clone fails only if the source was edited while it was read or holds a
\* tool without an agent.
THEOREM FailuresAreEdits == SeedSpec => []OnlyEditsFailClones
<1>1. SeedInit => AllCurrent
  BY DEF SeedInit, AllCurrent, Current, Resting
<1>2. SeedInv /\ AllCurrent => OnlyEditsFailClones
  <2> SUFFICES ASSUME SeedInv, AllCurrent, NEW s \in Seeders, At(s, "write"),
                      ~seeder[s].changed, \A pair \in seeder[s].tools : pair[2] # None
               PROVE  CloneHolds(s)
    BY DEF OnlyEditsFailClones
  <2> DEFINE w == seeder[s].source
  <2>1. /\ seeder[s].agents = Here(w) \cap Agents /\ seeder[s].tools = ToolsHere(w)
        /\ seeder[s].positions = Here(w) /\ seeder[s].configs = Here(w)
        /\ seeder[s].edges = LinksHere(w)
    BY DEF AllCurrent, Current, At
  <2> HIDE DEF w
  <2>2. ToolsRead(s) = Here(w) \cap Tools
    <3>1. ASSUME NEW t \in ToolsRead(s) PROVE t \in Here(w) \cap Tools
      <4>1. PICK pair \in ToolsHere(w) : t = pair[1]
        BY <2>1 DEF ToolsRead
      <4>2. PICK x \in Here(w) \cap Tools : pair = <<x, node[x].agent>>
        BY <4>1 DEF ToolsHere
      <4> QED
        BY <4>1, <4>2
    <3>2. ASSUME NEW t \in Here(w) \cap Tools PROVE t \in ToolsRead(s)
      <4>1. <<t, node[t].agent>> \in ToolsHere(w)
        BY DEF ToolsHere
      <4>2. <<t, node[t].agent>>[1] = t
        OBVIOUS
      <4> QED
        BY <2>1, <4>1, <4>2 DEF ToolsRead
    <3> QED
      BY <3>1, <3>2
  <2>3. seeder[s].agents \cup ToolsRead(s) = Here(w)
    BY <2>1, <2>2 DEF Here, Nodes
  <2>4. ToolsMap(s)
    <3> SUFFICES ASSUME NEW t \in Here(w) \cap Tools, node[t].agent # None
                 PROVE  node[t].agent \in Here(w) \cap Agents
      BY <2>1 DEF ToolsMap, ToolsHere
    <3>1. NodeIn(node[t].agent, w) /\ node[t].agent \in Agents
      BY DEF SeedInv, GraphInv, TypesInv, TypeOK, ToolRows, ReferencesInside,
         ToolsNextToAgent, Here, NodeIn
    <3> QED
      BY <3>1 DEF Here, Nodes
  <2>5. \A e \in LiveEdges : edge[e].wf = w =>
          edge[e].source \in Here(w) /\ edge[e].target \in Here(w)
    BY DEF SeedInv, GraphInv, ReferencesInside, EdgesHaveEnds, LiveEdges, Here
  <2>6. EdgesMap(s)
    BY <2>1, <2>5 DEF EdgesMap, LinksHere
  <2> QED
    BY <2>1, <2>3, <2>4, <2>6 DEF CloneHolds, PositionsMap, ConfigsMap, LinksMap
<1> QED
  BY <1>1, <1>2, CurrentStep, SeedInductive, PTL DEF SeedSpec

\* A copy of a source that nobody edited meanwhile is what is stored of it.
THEOREM CopiesAreFaithful == SeedSpec => CopiesMirrorSource
<1> DEFINE Mirrors(t) ==
      \E s \in Seeders :
        /\ seeder[s].tenant = t /\ At(s, "write")
        /\ seeder[s].changed \/ copy'[t] = Contents(seeder[s].source)
<1>1. SeedInit => AllCurrent
  BY DEF SeedInit, AllCurrent, Current, Resting
<1>2. SeedInv /\ AllCurrent /\ [SeedNext]_allVars =>
        [\A t \in Tenants : copy'[t] # copy[t] => Mirrors(t)]_allVars
  <2> SUFFICES ASSUME SeedInv, AllCurrent, [SeedNext]_allVars, NEW t \in Tenants,
                      copy'[t] # copy[t]
               PROVE  Mirrors(t)
    OBVIOUS
  <2>1. PICK s \in Seeders : WriteCopy(s)
    BY OnlyWritesCopy
  <2>2. seeder[s].tenant = t
    BY <2>1 DEF WriteCopy, SeedInv, SeedTypeOK
  <2>3. ASSUME ~seeder[s].changed PROVE CopyOf(s) = Contents(seeder[s].source)
    BY <2>1, <2>3 DEF AllCurrent, Current, WriteCopy, At, CopyOf, Contents
  <2>4. copy'[t] = CopyOf(s)
    BY <2>1, <2>2 DEF WriteCopy, SeedInv, SeedTypeOK, CopyOf
  <2>5. At(s, "write")
    BY <2>1 DEF WriteCopy
  <2> QED
    BY <2>2, <2>3, <2>4, <2>5
<1> QED
  BY <1>1, <1>2, CurrentStep, SeedInductive, PTL DEF SeedSpec, CopiesMirrorSource

=============================================================================
