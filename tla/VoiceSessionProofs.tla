-------------------------- MODULE VoiceSessionProofs -------------------------
(***************************************************************************)
(* Proofs about VoiceSession for every number of workflows, pages, requests *)
(* and sessions, and every combination of faults.                          *)
(***************************************************************************)
EXTENDS VoiceSession, FiniteSetTheorems, TLAPS

-----------------------------------------------------------------------------
(* Type correctness.                                                        *)

LEMMA SessionFacts ==
  /\ Sessions \subseteq Nat \ {0}
  /\ IsFiniteSet(Sessions)
  /\ NoSession \notin Sessions
<1>1. MaxSessions \in Nat
  BY LimitsAssumption
<1>2. IsFiniteSet(1..MaxSessions)
  BY <1>1, FS_Interval
<1> QED
  BY <1>1, <1>2 DEF Sessions, NoSession

(* How the records of the requests are updated.                              *)
LEMMA RequestUpdates ==
  /\ Free \in RequestStates
  /\ \A q \in RequestStates : \A p \in {"free"} \cup StopPcs \cup LaunchPcs :
       /\ [q EXCEPT !.pc = p] \in RequestStates
       /\ \A s \in Sessions : [q EXCEPT !.pc = p, !.target = s] \in RequestStates
       /\ \A s \in Sessions : [q EXCEPT !.pc = p, !.new = s, !.target = NoSession] \in RequestStates
       /\ \A t \in Tabs : [Free EXCEPT !.pc = p, !.tab = t] \in RequestStates
  /\ \A q \in RequestStates : [q EXCEPT !.lost = TRUE] \in RequestStates
<1>1. Free \in RequestStates
  BY DEF RequestStates, Free
<1>2. ASSUME NEW q \in RequestStates, NEW p \in {"free"} \cup StopPcs \cup LaunchPcs
      PROVE  /\ [q EXCEPT !.pc = p] \in RequestStates
             /\ \A s \in Sessions : [q EXCEPT !.pc = p, !.target = s] \in RequestStates
  BY ZenonT(60) DEF RequestStates
<1>3. ASSUME NEW q \in RequestStates, NEW p \in {"free"} \cup StopPcs \cup LaunchPcs,
             NEW s \in Sessions
      PROVE  [q EXCEPT !.pc = p, !.new = s, !.target = NoSession] \in RequestStates
  BY ZenonT(60) DEF RequestStates
<1>4. ASSUME NEW p \in {"free"} \cup StopPcs \cup LaunchPcs, NEW t \in Tabs
      PROVE  [Free EXCEPT !.pc = p, !.tab = t] \in RequestStates
  BY ZenonT(60) DEF RequestStates, Free
<1>5. ASSUME NEW q \in RequestStates
      PROVE  [q EXCEPT !.lost = TRUE] \in RequestStates
  BY ZenonT(60) DEF RequestStates
<1> QED
  BY <1>1, <1>2, <1>3, <1>4, <1>5

(* What a launch that meets the limits does to the request and the counter.  *)
LEMMA EnforceLimitsType ==
  ASSUME TypeOK, NEW r \in Requests, NEW rows, EnforceLimits(r, rows)
  PROVE  /\ issued' \in 0..MaxSessions
         /\ req' \in [Requests -> RequestStates]
         /\ tab' = tab
<1> USE SessionFacts, LimitsAssumption
<1>1. CASE Admit(r)
  <2>1. issued + 1 \in Sessions /\ issued' \in 0..MaxSessions
    BY <1>1 DEF Admit, TypeOK, Sessions
  <2>2. [req[r] EXCEPT !.pc = "create", !.new = issued + 1, !.target = NoSession] \in RequestStates
    BY <2>1, RequestUpdates DEF TypeOK, LaunchPcs
  <2> QED
    BY <1>1, <2>1, <2>2 DEF Admit, TypeOK
<1>2. CASE RejectLaunch(r) /\ UNCHANGED issued
  BY <1>2 DEF RejectLaunch, TypeOK, RequestStates, Free
<1> QED
  BY <1>1, <1>2 DEF EnforceLimits

(* Answering a stop leaves requests and pages well typed.                    *)
LEMMA AnswerStopType ==
  ASSUME TypeOK, NEW r \in Requests, AnswerStop(r)
  PROVE  /\ req' \in [Requests -> RequestStates]
         /\ tab' \in [Tabs -> Pages]
BY DEF AnswerStop, TypeOK, RequestStates, Free, Pages, Idle

(* Ending a session from the API leaves the table well typed.                *)
LEMMA EndedByApiType ==
  ASSUME TypeOK, NEW s
  PROVE  EndedByApi(s) \in [Sessions -> Rows]
<1> DEFINE ended == [row[s] EXCEPT !.status = "stopped", !.endedBy = "api"]
<1>1. s \in Sessions => ended \in Rows
  BY ZenonT(60) DEF TypeOK, Rows
<1>2. EndedByApi(s) = [row EXCEPT ![s] = ended]
  BY DEF EndedByApi
<1> HIDE DEF ended
<1>3. row \in [Sessions -> Rows]
  BY DEF TypeOK
<1> QED
  BY <1>1, <1>2, <1>3

LEMMA PageType ==
  ASSUME TypeOK, NEW t \in Tabs, Page(t)
  PROVE  TypeOK'
<1> USE DEF TypeOK
<1>1. CASE Join(t)
  BY <1>1 DEF Join, Pages
<1>2. CASE CloseTab(t)
  <2>1. req' \in [Requests -> RequestStates]
    BY <1>2, RequestUpdates DEF CloseTab
  <2> QED
    BY <1>2, <2>1 DEF CloseTab, Pages, Idle
<1>3. ASSUME NEW r \in Requests, ClickLaunch(t, r) \/ ClickToolbarStop(t, r) \/ LeaveCall(t, r)
      PROVE  TypeOK'
  <2>1. req' \in [Requests -> RequestStates]
    <3>1. PICK p \in {"launch", "stop"} : Send(r, t, p)
      BY <1>3 DEF ClickLaunch, ClickToolbarStop, LeaveCall
    <3>2. [Free EXCEPT !.pc = p, !.tab = t] \in RequestStates
      BY RequestUpdates DEF LaunchPcs, StopPcs, TypeOK
    <3> QED
      BY <3>1, <3>2 DEF Send
  <2> QED
    BY <1>3, <2>1 DEF ClickLaunch, ClickToolbarStop, LeaveCall, Pages
<1> QED
  BY <1>1, <1>2, <1>3 DEF Page

(* Joining a room or closing a page leaves every handler where it stands.    *)
LEMMA PageKeepsRequests ==
  ASSUME TypeOK, NEW t \in Tabs, Join(t) \/ CloseTab(t)
  PROVE  \A x \in Requests : /\ req'[x].pc = req[x].pc /\ req'[x].tab = req[x].tab
                              /\ req'[x].new = req[x].new /\ req'[x].target = req[x].target
<1>1. CASE Join(t)
  BY <1>1 DEF Join
<1>2. ASSUME CloseTab(t), NEW x \in Requests
      PROVE  /\ req'[x].pc = req[x].pc /\ req'[x].tab = req[x].tab
             /\ req'[x].new = req[x].new /\ req'[x].target = req[x].target
  <2>1. req[x] \in RequestStates
    BY DEF TypeOK
  <2>2. req'[x] = req[x] \/ req'[x] = [req[x] EXCEPT !.lost = TRUE]
    BY <1>2 DEF CloseTab
  <2> QED
    BY <2>1, <2>2 DEF RequestStates
<1> QED
  BY <1>1, <1>2

(* A page's click puts a request in a free slot.                             *)
LEMMA PageSends ==
  ASSUME TypeOK, NEW t \in Tabs, NEW r \in Requests,
         ClickLaunch(t, r) \/ ClickToolbarStop(t, r) \/ LeaveCall(t, r)
  PROVE  /\ req[r].pc = "free" /\ req'[r].pc \in {"launch", "stop"} /\ req'[r].tab = t
         /\ \A x \in Requests \ {r} : req'[x] = req[x]
<1>1. PICK p \in {"launch", "stop"} : Send(r, t, p)
  BY DEF ClickLaunch, ClickToolbarStop, LeaveCall
<1> QED
  BY <1>1 DEF Send, Free, TypeOK

LEMMA HandleType ==
  ASSUME TypeOK, NEW r \in Requests, Handle(r)
  PROVE  TypeOK'
<1>1. CASE BeginLaunch(r)
  <2>1. CASE GetActive(PageOf[req[r].tab]) = {}
    BY <1>1, <2>1, EnforceLimitsType DEF BeginLaunch, TypeOK
  <2>2. CASE GetActive(PageOf[req[r].tab]) # {}
    <3>1. PICK s \in GetActive(PageOf[req[r].tab]) :
            req' = [req EXCEPT ![r] = [@ EXCEPT !.pc = "launch_delete", !.target = s]]
      BY <1>1, <2>2 DEF BeginLaunch
    <3>2. s \in Sessions
      BY DEF GetActive, ActiveOf, ActiveRows
    <3>3. [req[r] EXCEPT !.pc = "launch_delete", !.target = s] \in RequestStates
      BY <3>2, RequestUpdates DEF TypeOK, LaunchPcs
    <3> QED
      BY <1>1, <2>2, <3>1, <3>3 DEF BeginLaunch, TypeOK
  <2> QED
    BY <2>1, <2>2
<1>2. CASE BeginStop(r)
  <2>1. CASE GetActive(PageOf[req[r].tab]) = {}
    BY <1>2, <2>1, AnswerStopType DEF BeginStop, TypeOK
  <2>2. CASE GetActive(PageOf[req[r].tab]) # {}
    <3>1. PICK s \in GetActive(PageOf[req[r].tab]) :
            req' = [req EXCEPT ![r] = [@ EXCEPT !.pc = "stop_delete", !.target = s]]
      BY <1>2, <2>2 DEF BeginStop
    <3>2. s \in Sessions
      BY DEF GetActive, ActiveOf, ActiveRows
    <3>3. [req[r] EXCEPT !.pc = "stop_delete", !.target = s] \in RequestStates
      BY <3>2, RequestUpdates DEF TypeOK, StopPcs
    <3> QED
      BY <1>2, <2>2, <3>1, <3>3 DEF BeginStop, TypeOK
  <2> QED
    BY <2>1, <2>2
<1>3. CASE DeleteRoom(r)
  <2>1. req' \in [Requests -> RequestStates]
    <3>1. PICK p \in {"launch_mark", "stop_mark"} : req' = [req EXCEPT ![r].pc = p]
      BY <1>3 DEF DeleteRoom
    <3>2. [req[r] EXCEPT !.pc = p] \in RequestStates
      BY RequestUpdates DEF LaunchPcs, StopPcs, TypeOK
    <3> QED
      BY <3>1, <3>2 DEF TypeOK
  <2> QED
    BY <1>3, <2>1 DEF DeleteRoom, Close, TypeOK
<1>4. CASE MarkForLaunch(r)
  <2>1. row' \in [Sessions -> Rows]
    BY <1>4, EndedByApiType DEF MarkForLaunch, TypeOK
  <2>2. \/ \E rows : EnforceLimits(r, rows)
        \/ RejectLaunch(r) /\ UNCHANGED issued
    BY <1>4 DEF MarkForLaunch
  <2>3. /\ issued' \in 0..MaxSessions
        /\ req' \in [Requests -> RequestStates]
        /\ tab' = tab
    BY <2>2, EnforceLimitsType DEF EnforceLimits
  <2> QED
    BY <1>4, <2>1, <2>3 DEF MarkForLaunch, TypeOK
<1>5. CASE MarkForStop(r)
  <2>1. row' \in [Sessions -> Rows]
    BY <1>5, EndedByApiType DEF MarkForStop, TypeOK
  <2> QED
    BY <1>5, <2>1, AnswerStopType DEF MarkForStop, TypeOK
<1>6. CASE CreateRoom(r)
  <2>1. req' \in [Requests -> RequestStates]
    BY <1>6, RequestUpdates DEF CreateRoom, TypeOK, LaunchPcs
  <2>2. \A j \in Jobs : [j EXCEPT !.pc = "waiting"] \in Jobs
    BY DEF Jobs
  <2>3. job' \in [Sessions -> Jobs] /\ room' \in [Sessions -> {"none", "open", "closed"}]
    BY <1>6, <2>2 DEF CreateRoom, OpenRoom, TypeOK
  <2> QED
    BY <1>6, <2>1, <2>3 DEF CreateRoom, TypeOK
<1>7. CASE CreateRoomFails(r)
  <2>1. \A j \in Jobs : [j EXCEPT !.pc = "waiting"] \in Jobs
    BY DEF Jobs
  <2>2. job' \in [Sessions -> Jobs] /\ room' \in [Sessions -> {"none", "open", "closed"}]
    BY <1>7, <2>1 DEF CreateRoomFails, OpenRoom, TypeOK
  <2> QED
    BY <1>7, <2>2, RequestUpdates DEF CreateRoomFails, RejectLaunch, TypeOK
<1>8. CASE InsertRow(r)
  <2>1. NextStart \in Nat
    BY SessionFacts, FS_Subset, FS_CardinalityType DEF NextStart
  <2>2. ASSUME NEW w \in Workflows, NEW n \in Nat
        PROVE  [Absent EXCEPT !.status = "active", !.workflow = w, !.startedAt = n] \in Rows
    BY DEF Rows, Absent
  <2>4. row' \in [Sessions -> Rows]
    <3> DEFINE new == [Absent EXCEPT !.status = "active", !.workflow = PageOf[req[r].tab],
                                     !.startedAt = NextStart]
    <3>1. row' = [row EXCEPT ![req[r].new] = new]
      BY <1>8 DEF InsertRow
    <3>2. PageOf[req[r].tab] \in Workflows
      BY <1>8 DEF InsertRow, TypeOK
    <3>3. new \in Rows
      BY <2>1, <2>2, <3>2
    <3> QED
      BY <3>1, <3>3 DEF TypeOK
  <2>3. tab' \in [Tabs -> Pages]
    BY <1>8 DEF InsertRow, TypeOK, Pages, RequestStates
  <2> QED
    BY <1>8, <2>4, <2>3, RequestUpdates DEF InsertRow, TypeOK
<1>9. CASE InsertFails(r)
  BY <1>9 DEF InsertFails, RejectLaunch, TypeOK, RequestStates, Free
<1> QED
  BY <1>1, <1>2, <1>3, <1>4, <1>5, <1>6, <1>7, <1>8, <1>9 DEF Handle

LEMMA WorkType ==
  ASSUME TypeOK, NEW s \in Sessions, Work(s) \/ ReapRoom(s)
  PROVE  TypeOK'
<1> USE DEF TypeOK
<1>1. CASE StartCall(s) \/ AbandonCall(s) \/ HitDurationCap(s) \/ LoseJob(s)
  BY <1>1 DEF StartCall, AbandonCall, HitDurationCap, LoseJob, Close, Jobs, Over, Reasons
<1>2. CASE ReadRow(s)
  BY <1>2 DEF ReadRow, Jobs, Over, Reasons
<1>3. CASE WriteRow(s)
  <2>1. row' \in [Sessions -> Rows]
    <3>1. \A x \in Rows, known \in BOOLEAN :
            /\ [x EXCEPT !.usage = known] \in Rows
            /\ \A o \in Reasons :
                 [x EXCEPT !.usage = known, !.status = "stopped",
                           !.endedBy = "worker", !.reason = o] \in Rows
      BY DEF Rows
    <3>2. job[s].outcome \in Reasons
      BY DEF Jobs
    <3>3. PICK known \in BOOLEAN :
            row' = IF row[s].status = "gone" THEN row
                   ELSE IF job[s].pc = "saw_ended" THEN [row EXCEPT ![s].usage = known]
                   ELSE [row EXCEPT ![s] = [@ EXCEPT !.usage = known, !.status = "stopped",
                                                    !.endedBy = "worker", !.reason = job[s].outcome]]
      BY <1>3 DEF WriteRow
    <3>4. [row[s] EXCEPT !.usage = known] \in Rows
          /\ [row[s] EXCEPT !.usage = known, !.status = "stopped",
                            !.endedBy = "worker", !.reason = job[s].outcome] \in Rows
      BY <3>1, <3>2
    <3> QED
      BY <3>3, <3>4
  <2> QED
    BY <1>3, <2>1 DEF WriteRow, Jobs, Over, Reasons
<1>4. CASE ReapRoom(s)
  BY <1>4 DEF ReapRoom, Close
<1> QED
  BY <1>1, <1>2, <1>3, <1>4 DEF Work

(* The variables keep their types in every run: the session a handler works  *)
(* on is a session that exists, whatever was dropped, restarted or deleted   *)
(* while it waited.                                                          *)
THEOREM TypesHold == Spec => []TypeOK
<1>1. Init => TypeOK
  BY LimitsAssumption DEF Init, TypeOK, Rows, Absent, Jobs, NoJob, Reasons, RequestStates,
                          Free, Pages, Idle
<1>2. ASSUME TypeOK, [Next]_vars
      PROVE  TypeOK'
  <2>1. ASSUME NEW w \in Workflows, DeleteWorkflow(w)
        PROVE  TypeOK'
    BY <1>2, <2>1 DEF DeleteWorkflow, TypeOK, Rows
  <2>2. CASE RestartApi
    BY <1>2, <2>2 DEF RestartApi, TypeOK, RequestStates, Free, Pages, Idle
  <2>3. CASE UNCHANGED vars
    BY <1>2, <2>3 DEF vars, TypeOK
  <2> QED
    BY <1>2, <2>1, <2>2, <2>3, PageType, HandleType, WorkType DEF Next
<1> QED
  BY <1>1, <1>2, PTL DEF Spec

-----------------------------------------------------------------------------
(* The concurrency cap.                                                      *)

LEMMA CountedSets ==
  /\ IsFiniteSet(ActiveRows) /\ Cardinality(ActiveRows) \in Nat
  /\ IsFiniteSet(Launching) /\ Cardinality(Launching) \in Nat
  /\ Cardinality(Launching) <= Cardinality(Requests)
  /\ Cardinality(Requests) \in Nat
<1>1. ActiveRows \in SUBSET Sessions /\ Launching \in SUBSET Requests
  BY DEF ActiveRows, Launching
<1>2. IsFiniteSet(ActiveRows) /\ IsFiniteSet(Launching)
  BY <1>1, SessionFacts, NamesAssumption, FS_Subset
<1>3. Cardinality(Launching) <= Cardinality(Requests)
  BY <1>1, NamesAssumption, FS_Subset
<1> QED
  BY <1>2, <1>3, NamesAssumption, FS_CardinalityType

(* Losing rows or launches cannot break the bound.                           *)
LEMMA CapShrinks ==
  ASSUME CapOvershootBounded, ActiveRows' \subseteq ActiveRows, Launching' \subseteq Launching
  PROVE  CapOvershootBounded'
<1>1. Cardinality(ActiveRows') <= Cardinality(ActiveRows) /\ Cardinality(ActiveRows') \in Nat
  BY CountedSets, FS_Subset, FS_CardinalityType
<1>2. Cardinality(Launching') <= Cardinality(Launching) /\ Cardinality(Launching') \in Nat
  BY CountedSets, FS_Subset, FS_CardinalityType
<1>3. MaxConcurrent \in Nat
  BY LimitsAssumption
<1> QED
  BY <1>1, <1>2, <1>3, CountedSets DEF CapOvershootBounded

(* A launch that passes the limits found a row to spare, and one request in  *)
(* flight is itself.                                                         *)
LEMMA CapAdmits ==
  ASSUME TypeOK, CapOvershootBounded, NEW r \in Requests,
         ActiveRows' \subseteq ActiveRows, EnforceLimits(r, row')
  PROVE  CapOvershootBounded'
<1>1. CASE BelowCap(row')
  <2>1. Cardinality(ActiveRows') < MaxConcurrent
    BY <1>1 DEF BelowCap, ActiveRows
  <2>2. IsFiniteSet(ActiveRows') /\ Cardinality(ActiveRows') \in Nat
    BY CountedSets, FS_Subset, FS_CardinalityType
  <2>3. Launching' \in SUBSET Requests
    BY DEF Launching
  <2>4. Cardinality(Launching') <= Cardinality(Requests) /\ Cardinality(Launching') \in Nat
    BY <2>3, NamesAssumption, FS_Subset, FS_CardinalityType
  <2> QED
    BY <2>1, <2>2, <2>4, CountedSets, LimitsAssumption DEF CapOvershootBounded
<1>2. CASE RejectLaunch(r)
  <2>1. Launching' \subseteq Launching
    BY <1>2 DEF RejectLaunch, Launching, Free, TypeOK
  <2> QED
    BY <2>1, CapShrinks
<1> QED
  BY <1>1, <1>2 DEF EnforceLimits

LEMMA EndedRowsOnly ==
  ASSUME TypeOK, NEW s, row' = EndedByApi(s) \/ row' = row
  PROVE  ActiveRows' \subseteq ActiveRows
<1>1. ASSUME NEW x \in Sessions
      PROVE  EndedByApi(s)[x].status \in {row[x].status, "stopped"}
  BY DEF EndedByApi, TypeOK, Rows
<1> QED
  BY <1>1 DEF ActiveRows

(* What the steps of a handler do to the two numbers.                        *)
LEMMA HandleCap ==
  ASSUME TypeOK, CapOvershootBounded, NEW r \in Requests, Handle(r)
  PROVE  CapOvershootBounded'
<1>1. CASE BeginLaunch(r)
  <2>1. row' = row /\ ActiveRows' = ActiveRows
    BY <1>1 DEF BeginLaunch, ActiveRows
  <2>2. CASE EnforceLimits(r, row)
    BY <2>1, <2>2, CapAdmits
  <2>3. CASE \E s : req' = [req EXCEPT ![r] = [@ EXCEPT !.pc = "launch_delete", !.target = s]]
    <3>1. Launching' \subseteq Launching
      BY <2>3 DEF Launching, TypeOK, RequestStates
    <3> QED
      BY <2>1, <3>1, CapShrinks
  <2> QED
    BY <1>1, <2>2, <2>3 DEF BeginLaunch
<1>2. CASE BeginStop(r) \/ DeleteRoom(r) \/ MarkForStop(r)
  <2>1. Launching' \subseteq Launching
    <3>1. req' = [req EXCEPT ![r] = req'[r]] /\ req'[r].pc \notin {"create", "insert"}
      <4>1. CASE BeginStop(r)
        <5>1. CASE AnswerStop(r)
          BY <5>1 DEF AnswerStop, Free, TypeOK
        <5>2. CASE \E s : req' = [req EXCEPT ![r] = [@ EXCEPT !.pc = "stop_delete", !.target = s]]
          BY <5>2 DEF TypeOK, RequestStates
        <5> QED
          BY <4>1, <5>1, <5>2 DEF BeginStop
      <4>2. CASE DeleteRoom(r)
        BY <4>2 DEF DeleteRoom, TypeOK, RequestStates
      <4>3. CASE MarkForStop(r)
        BY <4>3 DEF MarkForStop, AnswerStop, Free, TypeOK
      <4> QED
        BY <1>2, <4>1, <4>2, <4>3
    <3> QED
      BY <3>1 DEF Launching, TypeOK
  <2>2. ActiveRows' \subseteq ActiveRows
    BY <1>2, EndedRowsOnly DEF BeginStop, DeleteRoom, MarkForStop
  <2> QED
    BY <2>1, <2>2, CapShrinks
<1>3. CASE MarkForLaunch(r)
  <2>1. ActiveRows' \subseteq ActiveRows
    BY <1>3, EndedRowsOnly DEF MarkForLaunch
  <2>2. CASE EnforceLimits(r, row')
    BY <2>1, <2>2, CapAdmits
  <2>3. CASE RejectLaunch(r)
    <3>1. Launching' \subseteq Launching
      BY <2>3 DEF RejectLaunch, Launching, Free, TypeOK
    <3> QED
      BY <2>1, <3>1, CapShrinks
  <2> QED
    BY <1>3, <2>2, <2>3 DEF MarkForLaunch
<1>4. CASE CreateRoom(r) \/ CreateRoomFails(r) \/ InsertFails(r)
  <2>1. Launching' \subseteq Launching
    BY <1>4 DEF CreateRoom, CreateRoomFails, InsertFails, RejectLaunch, Launching, Free, TypeOK
  <2>2. ActiveRows' = ActiveRows
    BY <1>4 DEF CreateRoom, CreateRoomFails, InsertFails, ActiveRows
  <2> QED
    BY <2>1, <2>2, CapShrinks
<1>5. CASE InsertRow(r)
  <2>1. ActiveRows' \in SUBSET (ActiveRows \cup {req[r].new})
    BY <1>5 DEF InsertRow, ActiveRows, TypeOK
  <2>2. Launching' = Launching \ {r} /\ r \in Launching
    BY <1>5 DEF InsertRow, Launching, Free, TypeOK
  <2>3. /\ IsFiniteSet(ActiveRows \cup {req[r].new})
        /\ Cardinality(ActiveRows \cup {req[r].new}) <= Cardinality(ActiveRows) + 1
    <3> DEFINE active == ActiveRows
               new == req[r].new
    <3>1. /\ IsFiniteSet(active \cup {new})
          /\ Cardinality(active \cup {new}) =
               IF new \in active THEN Cardinality(active) ELSE Cardinality(active) + 1
      <4> HIDE DEF active, new
      <4>1. IsFiniteSet(active)
        BY CountedSets DEF active
      <4> QED
        BY <4>1, FS_AddElement
    <3>2. Cardinality(active) \in Nat
      BY CountedSets
    <3> HIDE DEF active
    <3>3. Cardinality(active \cup {new}) <= Cardinality(active) + 1
      BY <3>1, <3>2
    <3> QED
      BY <3>1, <3>3 DEF active
  <2>4. /\ Cardinality(ActiveRows') \in Nat
        /\ Cardinality(ActiveRows') <= Cardinality(ActiveRows \cup {req[r].new})
    BY <2>1, <2>3, FS_Subset, FS_CardinalityType
  <2>5. Cardinality(Launching') = Cardinality(Launching) - 1
    BY <2>2, CountedSets, FS_RemoveElement
  <2>6. Cardinality(ActiveRows \cup {req[r].new}) \in Nat
    BY <2>3, FS_CardinalityType
  <2> QED
    BY <2>3, <2>4, <2>5, <2>6, CountedSets, LimitsAssumption DEF CapOvershootBounded
<1> QED
  BY <1>1, <1>2, <1>3, <1>4, <1>5 DEF Handle

(* CapHolds: for every cap, every number of requests and every fault, active *)
(* rows and launches on their way together exceed MAX_CONCURRENT_SESSIONS by *)
(* less than the number of requests in flight: the check against stale       *)
(* counts in _enforce_launch_limits loses that much and no more.             *)
THEOREM CapHolds == Spec => []CapOvershootBounded
<1>1. Init => CapOvershootBounded
  <2>1. ASSUME Init
        PROVE  ActiveRows = {} /\ Launching = {}
    BY <2>1 DEF Init, ActiveRows, Launching, Absent, Free
  <2>2. Cardinality({}) = 0
    BY FS_EmptySet
  <2>3. ASSUME Init
        PROVE  CapOvershootBounded
    <3>1. Cardinality(Requests) \in Nat /\ MaxConcurrent \in Nat /\ MaxConcurrent >= 1
      BY CountedSets, LimitsAssumption
    <3> QED
      BY <2>1, <2>2, <2>3, <3>1 DEF CapOvershootBounded
  <2> QED
    BY <2>3
<1>2. ASSUME TypeOK, CapOvershootBounded, [Next]_vars
      PROVE  CapOvershootBounded'
  <2>1. ASSUME NEW t \in Tabs, Page(t)
        PROVE  CapOvershootBounded'
    <3>1. ActiveRows' = ActiveRows
      BY <2>1 DEF Page, Join, CloseTab, ClickLaunch, ClickToolbarStop, LeaveCall, ActiveRows
    <3>2. Launching' \subseteq Launching
      <4>1. CASE Join(t) \/ CloseTab(t)
        BY <1>2, <4>1, PageKeepsRequests DEF Launching
      <4>2. ASSUME NEW r \in Requests, ClickLaunch(t, r) \/ ClickToolbarStop(t, r) \/ LeaveCall(t, r)
            PROVE  Launching' \subseteq Launching
        BY <1>2, <4>2, PageSends DEF Launching
      <4> QED
        BY <2>1, <4>1, <4>2 DEF Page
    <3> QED
      BY <1>2, <3>1, <3>2, CapShrinks
  <2>2. ASSUME NEW s \in Sessions, Work(s) \/ ReapRoom(s)
        PROVE  CapOvershootBounded'
    <3>1. Launching' = Launching
      BY <2>2 DEF Work, StartCall, AbandonCall, HitDurationCap, ReadRow, WriteRow, LoseJob,
                  ReapRoom, Launching
    <3>2. ActiveRows' \subseteq ActiveRows
      <4>1. CASE WriteRow(s)
        BY <1>2, <4>1 DEF WriteRow, ActiveRows, TypeOK, Rows
      <4>2. CASE row' = row
        BY <4>2 DEF ActiveRows
      <4> QED
        BY <2>2, <4>1, <4>2 DEF Work, StartCall, AbandonCall, HitDurationCap, ReadRow, LoseJob,
                                ReapRoom
    <3> QED
      BY <1>2, <3>1, <3>2, CapShrinks
  <2>3. ASSUME NEW w \in Workflows, DeleteWorkflow(w)
        PROVE  CapOvershootBounded'
    <3>1. ActiveRows' \subseteq ActiveRows /\ Launching' = Launching
      BY <1>2, <2>3 DEF DeleteWorkflow, ActiveRows, Launching, TypeOK, Rows
    <3> QED
      BY <1>2, <3>1, CapShrinks
  <2>4. CASE RestartApi
    <3>1. ActiveRows' = ActiveRows /\ Launching' \subseteq Launching
      BY <1>2, <2>4 DEF RestartApi, ActiveRows, Launching, Free
    <3> QED
      BY <1>2, <3>1, CapShrinks
  <2>5. CASE UNCHANGED vars
    BY <1>2, <2>5 DEF vars, CapOvershootBounded, ActiveRows, Launching
  <2> QED
    BY <1>2, <2>1, <2>2, <2>3, <2>4, <2>5, HandleCap DEF Next
<1> QED
  BY <1>1, <1>2, TypesHold, PTL DEF Spec

-----------------------------------------------------------------------------
(* Session ids and rows.                                                     *)

MarkPcs   == {"launch_mark", "stop_mark"}
EndingPcs == {"launch_delete", "stop_delete"} \cup MarkPcs
SawPcs    == {"saw_active", "saw_ended"}

Ending == {r \in Requests : req[r].pc \in EndingPcs}

(* Every id belongs to one launch until that launch inserts its row; whoever *)
(* else writes a row has seen it in the table.                               *)
IdsOK ==
  /\ \A r \in Launching : /\ req[r].new \in Sessions
                          /\ req[r].new <= issued
                          /\ row[req[r].new].status = "absent"
  /\ \A r1, r2 \in Launching : req[r1].new = req[r2].new => r1 = r2
  /\ \A r \in Ending : /\ req[r].target \in Sessions
                       /\ row[req[r].target].status # "absent"
  /\ \A s \in Sessions : s > issued => row[s].status = "absent"
  /\ \A s \in Sessions : row[s].status = "absent" => row[s] = Absent
  /\ \A s \in Sessions : job[s].pc \in SawPcs => row[s].status # "absent"

(* A step that writes only rows that are in the table.                       *)
WritesKnownRows ==
  \A s \in Sessions : \/ row'[s] = row[s]
                      \/ row[s].status # "absent" /\ row'[s].status # "absent"

LEMMA IdsFrame ==
  ASSUME TypeOK, IdsOK, issued' = issued, WritesKnownRows,
         \A s \in Sessions : job'[s].pc \in SawPcs => row[s].status # "absent",
         \A r \in Launching' : r \in Launching /\ req'[r].new = req[r].new,
         \A r \in Ending' : \/ r \in Ending /\ req'[r].target = req[r].target
                            \/ req'[r].target \in ActiveRows
  PROVE  IdsOK'
<1>1. \A s \in Sessions : row'[s].status = "absent" <=> row[s].status = "absent"
  BY DEF WritesKnownRows
<1>2. \A s \in Sessions : row'[s].status = "absent" => row'[s] = Absent
  BY <1>1 DEF WritesKnownRows, IdsOK
<1>3. \A r \in Launching' : /\ req'[r].new \in Sessions
                            /\ req'[r].new <= issued'
                            /\ row'[req'[r].new].status = "absent"
  BY <1>1 DEF IdsOK
<1>4. \A r \in Ending' : /\ req'[r].target \in Sessions
                         /\ row'[req'[r].target].status # "absent"
  BY <1>1 DEF IdsOK, ActiveRows
<1> QED
  BY <1>1, <1>2, <1>3, <1>4 DEF IdsOK

LEMMA IdsAdmit ==
  ASSUME TypeOK, IdsOK, NEW r \in Requests, Admit(r), WritesKnownRows, job' = job
  PROVE  IdsOK'
<1>0. issued \in Nat /\ issued' = issued + 1 /\ issued + 1 \in Sessions
  BY LimitsAssumption DEF Admit, TypeOK, Sessions
<1>1. \A s \in Sessions : row'[s].status = "absent" <=> row[s].status = "absent"
  BY DEF WritesKnownRows
<1>2. \A s \in Sessions : row'[s].status = "absent" => row'[s] = Absent
  BY <1>1 DEF WritesKnownRows, IdsOK
<1>3. /\ req'[r].pc = "create" /\ req'[r].new = issued + 1
      /\ \A x \in Requests \ {r} : req'[x] = req[x]
  BY DEF Admit, TypeOK, RequestStates
<1>4. /\ Launching' \subseteq Launching \cup {r}
      /\ Ending' \subseteq Ending \ {r}
  BY <1>3 DEF Launching, Ending, EndingPcs, MarkPcs
<1>5. \A x \in Launching' : x # r => req'[x].new = req[x].new /\ req[x].new <= issued /\ x \in Launching
  BY <1>3, <1>4 DEF Launching, IdsOK
<1>6. \A s \in Sessions : s > issued => row[s].status = "absent"
  BY DEF IdsOK
<1>7. \A x \in Launching' : /\ req'[x].new \in Sessions
                            /\ req'[x].new <= issued'
                            /\ row'[req'[x].new].status = "absent"
  <2>1. ASSUME NEW x \in Launching', x # r
        PROVE  /\ req'[x].new \in Sessions /\ req'[x].new <= issued'
               /\ row'[req'[x].new].status = "absent"
    <3>1. req'[x].new \in Sessions /\ req'[x].new <= issued /\ row[req'[x].new].status = "absent"
      BY <2>1, <1>5 DEF IdsOK
    <3>2. req'[x].new \in Nat
      BY <3>1, SessionFacts
    <3> QED
      BY <3>1, <3>2, <1>0, <1>1
  <2>2. row'[issued + 1].status = "absent"
    BY <1>0, <1>1, <1>6
  <2>3. /\ req'[r].new \in Sessions /\ req'[r].new <= issued'
        /\ row'[req'[r].new].status = "absent"
    BY <2>2, <1>0, <1>3
  <2> QED
    BY <2>1, <2>3
<1>8. \A x, y \in Launching' : req'[x].new = req'[y].new => x = y
  <2>1. ASSUME NEW x \in Launching', x # r
        PROVE  req'[x].new # req'[r].new
    BY <2>1, <1>0, <1>3, <1>5, SessionFacts DEF IdsOK
  <2>2. ASSUME NEW x \in Launching', NEW y \in Launching', x # r, y # r, req'[x].new = req'[y].new
        PROVE  x = y
    BY <2>2, <1>5 DEF IdsOK
  <2> QED
    BY <2>1, <2>2
<1>9. \A x \in Ending' : /\ req'[x].target \in Sessions
                         /\ row'[req'[x].target].status # "absent"
  BY <1>1, <1>3, <1>4 DEF IdsOK, Ending
<1>10. \A s \in Sessions : s > issued' => row'[s].status = "absent"
  BY <1>0, <1>1, <1>6, SessionFacts
<1>11. \A s \in Sessions : job'[s].pc \in SawPcs => row'[s].status # "absent"
  BY <1>1 DEF IdsOK
<1> QED
  BY <1>2, <1>7, <1>8, <1>9, <1>10, <1>11 DEF IdsOK

(* What a handler's answer leaves of the requests.                           *)
LEMMA AnswersForget ==
  ASSUME TypeOK, NEW r \in Requests, RejectLaunch(r) \/ AnswerStop(r)
  PROVE  /\ Launching' \subseteq Launching \ {r}
         /\ Ending' \subseteq Ending \ {r}
         /\ \A x \in Requests \ {r} : req'[x] = req[x]
         /\ req'[r] = Free
<1>1. req' = [req EXCEPT ![r] = Free]
  BY DEF RejectLaunch, AnswerStop
<1>2. (\A x \in Requests \ {r} : req'[x] = req[x]) /\ req'[r] = Free
  BY <1>1 DEF TypeOK
<1>3. Free.pc = "free"
  BY DEF Free
<1> QED
  BY <1>2, <1>3 DEF Launching, Ending, EndingPcs, MarkPcs

(* The UPDATE of _end_session touches one row that is in the table.          *)
LEMMA EndsKnownRow ==
  ASSUME TypeOK, IdsOK, NEW r \in Ending, row' = EndedByApi(req[r].target) \/ row' = row
  PROVE  WritesKnownRows
<1>1. req[r].target \in Sessions /\ row[req[r].target].status # "absent"
  BY DEF IdsOK
<1>2. ASSUME NEW x \in Sessions
      PROVE  /\ x # req[r].target => EndedByApi(req[r].target)[x] = row[x]
             /\ x = req[r].target => EndedByApi(req[r].target)[x].status = "stopped"
  BY DEF EndedByApi, TypeOK, Rows
<1> QED
  BY <1>1, <1>2 DEF WritesKnownRows

LEMMA HandleIds ==
  ASSUME TypeOK, IdsOK, NEW r \in Requests, Handle(r)
  PROVE  IdsOK'
<1> DEFINE JobsKeep == \A s \in Sessions : job'[s].pc \in SawPcs => row[s].status # "absent"
<1>0. UNCHANGED row => WritesKnownRows
  BY DEF WritesKnownRows
<1>1. UNCHANGED job => JobsKeep
  BY DEF IdsOK
<1>2. CASE BeginLaunch(r)
  <2>1. CASE Admit(r)
    BY <1>0, <1>2, <2>1, IdsAdmit DEF BeginLaunch
  <2>2. CASE RejectLaunch(r) /\ UNCHANGED issued
    BY <1>0, <1>1, <1>2, <2>2, IdsFrame, AnswersForget DEF BeginLaunch, Launching, Ending
  <2>3. ASSUME NEW s \in GetActive(PageOf[req[r].tab]), UNCHANGED issued,
               req' = [req EXCEPT ![r] = [@ EXCEPT !.pc = "launch_delete", !.target = s]]
        PROVE  IdsOK'
    <3>1. s \in ActiveRows
      BY DEF GetActive, ActiveOf
    <3>2. /\ req'[r].pc = "launch_delete" /\ req'[r].target = s
          /\ \A x \in Requests \ {r} : req'[x] = req[x]
      BY <2>3 DEF TypeOK, RequestStates
    <3>3. UNCHANGED <<row, job>>
      BY <1>2 DEF BeginLaunch
    <3> QED
      BY <1>0, <1>1, <2>3, <3>1, <3>2, <3>3, IdsFrame DEF Launching, Ending
  <2> QED
    BY <1>2, <2>1, <2>2, <2>3 DEF BeginLaunch, EnforceLimits
<1>3. CASE BeginStop(r)
  <2>1. CASE AnswerStop(r)
    BY <1>0, <1>1, <1>3, <2>1, IdsFrame, AnswersForget DEF BeginStop, Launching, Ending
  <2>2. ASSUME NEW s \in GetActive(PageOf[req[r].tab]),
               req' = [req EXCEPT ![r] = [@ EXCEPT !.pc = "stop_delete", !.target = s]]
        PROVE  IdsOK'
    <3>1. s \in ActiveRows
      BY DEF GetActive, ActiveOf
    <3>2. /\ req'[r].pc = "stop_delete" /\ req'[r].target = s
          /\ \A x \in Requests \ {r} : req'[x] = req[x]
      BY <2>2 DEF TypeOK, RequestStates
    <3>3. UNCHANGED <<row, job, issued>>
      BY <1>3 DEF BeginStop
    <3> QED
      BY <1>0, <1>1, <3>1, <3>2, <3>3, IdsFrame DEF Launching, Ending
  <2> QED
    BY <1>3, <2>1, <2>2 DEF BeginStop
<1>4. CASE DeleteRoom(r)
  <2>1. /\ req'[r].pc \in MarkPcs /\ req'[r].target = req[r].target /\ req[r].pc \in EndingPcs
        /\ \A x \in Requests \ {r} : req'[x] = req[x]
    BY <1>4 DEF DeleteRoom, TypeOK, RequestStates, MarkPcs, EndingPcs
  <2>2. UNCHANGED <<row, job, issued>>
    BY <1>4 DEF DeleteRoom
  <2> QED
    BY <1>0, <1>1, <2>1, <2>2, IdsFrame DEF Launching, Ending, MarkPcs, EndingPcs
<1>5. CASE MarkForLaunch(r) \/ MarkForStop(r)
  <2>1. r \in Ending /\ WritesKnownRows
    BY <1>5, EndsKnownRow DEF MarkForLaunch, MarkForStop, Ending, EndingPcs, MarkPcs
  <2>2. UNCHANGED job
    BY <1>5 DEF MarkForLaunch, MarkForStop
  <2>3. CASE Admit(r)
    BY <2>1, <2>2, <2>3, IdsAdmit
  <2>4. CASE (RejectLaunch(r) \/ AnswerStop(r)) /\ UNCHANGED issued
    BY <1>1, <2>1, <2>2, <2>4, IdsFrame, AnswersForget DEF Launching, Ending
  <2> QED
    BY <1>5, <2>3, <2>4 DEF MarkForLaunch, MarkForStop, EnforceLimits
<1>6. CASE CreateRoom(r)
  <2>1. /\ req'[r].pc = "insert" /\ req'[r].new = req[r].new /\ req[r].pc = "create"
        /\ \A x \in Requests \ {r} : req'[x] = req[x]
    BY <1>6 DEF CreateRoom, TypeOK, RequestStates
  <2>2. JobsKeep
    BY <1>6 DEF CreateRoom, OpenRoom, SawPcs, IdsOK, TypeOK, Jobs
  <2>3. UNCHANGED <<row, issued>>
    BY <1>6 DEF CreateRoom
  <2> QED
    BY <1>0, <2>1, <2>2, <2>3, IdsFrame DEF Launching, Ending, EndingPcs, MarkPcs
<1>7. CASE CreateRoomFails(r) \/ InsertFails(r)
  <2>1. JobsKeep
    BY <1>7 DEF CreateRoomFails, InsertFails, OpenRoom, SawPcs, IdsOK, TypeOK, Jobs
  <2>2. UNCHANGED <<row, issued>> /\ RejectLaunch(r)
    BY <1>7 DEF CreateRoomFails, InsertFails
  <2> QED
    BY <1>0, <2>1, <2>2, IdsFrame, AnswersForget DEF Launching, Ending
<1>8. CASE InsertRow(r)
  <2> DEFINE s == req[r].new
  <2>1. /\ r \in Launching /\ s \in Sessions /\ s <= issued /\ row[s].status = "absent"
        /\ row'[s].status = "active"
        /\ \A x \in Sessions \ {s} : row'[x] = row[x]
        /\ UNCHANGED <<job, issued>>
    <3>1. r \in Launching
      BY <1>8 DEF InsertRow, Launching
    <3> QED
      BY <1>8, <3>1 DEF InsertRow, IdsOK, TypeOK, Absent
  <2>2. /\ Launching' = Launching \ {r} /\ Ending' = Ending
        /\ \A x \in Requests \ {r} : req'[x] = req[x]
    BY <1>8 DEF InsertRow, Free, Launching, Ending, EndingPcs, MarkPcs, TypeOK
  <2>3. \A x \in Launching' : /\ req'[x].new \in Sessions /\ req'[x].new <= issued'
                              /\ row'[req'[x].new].status = "absent"
    BY <2>1, <2>2 DEF IdsOK, Launching
  <2>4. \A x \in Ending' : req'[x].target \in Sessions /\ row'[req'[x].target].status # "absent"
    <3>1. r \notin Ending
      BY <2>1 DEF Ending, Launching, EndingPcs, MarkPcs
    <3> QED
      BY <2>1, <2>2, <3>1 DEF IdsOK, Ending
  <2>5. \A x \in Sessions : x > issued' => row'[x].status = "absent"
    <3>1. issued \in Nat /\ s \in Nat
      BY <2>1, SessionFacts, LimitsAssumption DEF TypeOK
    <3>2. ~(s > issued)
      BY <2>1, <3>1
    <3> QED
      BY <2>1, <3>2 DEF IdsOK
  <2>6. \A x, y \in Launching' : req'[x].new = req'[y].new => x = y
    BY <2>2 DEF IdsOK, Launching
  <2> HIDE DEF s
  <2> QED
    BY <2>1, <2>3, <2>4, <2>5, <2>6 DEF IdsOK
<1> QED
  BY <1>2, <1>3, <1>4, <1>5, <1>6, <1>7, <1>8 DEF Handle

(* No handler inserts a row with an id another handler, worker or row uses,  *)
(* and a session is only ended once it has a row.                            *)
LEMMA IdsHold == Spec => []IdsOK
<1>1. Init => IdsOK
  BY DEF Init, IdsOK, Launching, Ending, EndingPcs, MarkPcs, SawPcs, Free, Absent, NoJob
<1>2. ASSUME TypeOK, IdsOK, [Next]_vars
      PROVE  IdsOK'
  <2>1. ASSUME NEW t \in Tabs, Page(t)
        PROVE  IdsOK'
    <3>1. UNCHANGED <<row, job, issued>>
      BY <2>1 DEF Page, Join, CloseTab, ClickLaunch, ClickToolbarStop, LeaveCall
    <3>2. \A r \in Launching' : r \in Launching /\ req'[r].new = req[r].new
      <4>1. CASE Join(t) \/ CloseTab(t)
        BY <1>2, <4>1, PageKeepsRequests DEF Launching
      <4>2. ASSUME NEW r \in Requests, ClickLaunch(t, r) \/ ClickToolbarStop(t, r) \/ LeaveCall(t, r)
            PROVE  \A x \in Launching' : x \in Launching /\ req'[x].new = req[x].new
        BY <1>2, <4>2, PageSends DEF Launching
      <4> QED
        BY <2>1, <4>1, <4>2 DEF Page
    <3>3. \A r \in Ending' : r \in Ending /\ req'[r].target = req[r].target
      <4>1. CASE Join(t) \/ CloseTab(t)
        BY <1>2, <4>1, PageKeepsRequests DEF Ending
      <4>2. ASSUME NEW r \in Requests, ClickLaunch(t, r) \/ ClickToolbarStop(t, r) \/ LeaveCall(t, r)
            PROVE  \A x \in Ending' : x \in Ending /\ req'[x].target = req[x].target
        BY <1>2, <4>2, PageSends DEF Ending, EndingPcs, MarkPcs
      <4> QED
        BY <2>1, <4>1, <4>2 DEF Page
    <3>4. WritesKnownRows /\ (\A s \in Sessions : job'[s].pc \in SawPcs => row[s].status # "absent")
      BY <1>2, <3>1 DEF WritesKnownRows, IdsOK
    <3> QED
      BY <1>2, <3>1, <3>2, <3>3, <3>4, IdsFrame
  <2>2. ASSUME NEW s \in Sessions, Work(s) \/ ReapRoom(s)
        PROVE  IdsOK'
    <3>1. UNCHANGED <<req, issued>>
      BY <2>2 DEF Work, StartCall, AbandonCall, HitDurationCap, ReadRow, WriteRow, LoseJob, ReapRoom
    <3>2. WritesKnownRows
      <4>1. CASE WriteRow(s)
        BY <1>2, <4>1 DEF WriteRow, WritesKnownRows, IdsOK, SawPcs, TypeOK, Rows
      <4>2. CASE row' = row
        BY <4>2 DEF WritesKnownRows
      <4> QED
        BY <2>2, <4>1, <4>2 DEF Work, StartCall, AbandonCall, HitDurationCap, ReadRow, LoseJob,
                                ReapRoom
    <3>3. \A x \in Sessions : job'[x].pc \in SawPcs => row[x].status # "absent"
      <4>1. CASE ReadRow(s)
        BY <1>2, <4>1 DEF ReadRow, IdsOK, SawPcs, Over, TypeOK, Jobs
      <4>2. \/ ReadRow(s)
            \/ \A x \in Sessions : job'[x].pc \in SawPcs => job[x].pc \in SawPcs
        <5>1. CASE WriteRow(s)
          <6>1. job' = [job EXCEPT ![s] = Over]
            BY <5>1 DEF WriteRow
          <6> QED
            BY <1>2, <6>1 DEF SawPcs, Over, TypeOK
        <5>2. CASE ~WriteRow(s)
          BY <1>2, <2>2, <5>2 DEF Work, StartCall, AbandonCall, HitDurationCap, LoseJob, ReapRoom,
                                  SawPcs, Over, TypeOK, Jobs
        <5> QED
          BY <5>1, <5>2
      <4> QED
        BY <1>2, <4>1, <4>2 DEF IdsOK
    <3>4. Launching' = Launching /\ Ending' = Ending
      BY <3>1 DEF Launching, Ending
    <3> QED
      BY <1>2, <3>1, <3>2, <3>3, <3>4, IdsFrame
  <2>3. ASSUME NEW w \in Workflows, DeleteWorkflow(w)
        PROVE  IdsOK'
    <3>1. WritesKnownRows
      BY <1>2, <2>3, NamesAssumption DEF DeleteWorkflow, WritesKnownRows, IdsOK, Absent, TypeOK, Rows
    <3>2. UNCHANGED <<job, issued>> /\ req' = req /\ Launching' = Launching /\ Ending' = Ending
      BY <2>3 DEF DeleteWorkflow, Launching, Ending
    <3>3. \A s \in Sessions : job'[s].pc \in SawPcs => row[s].status # "absent"
      BY <1>2, <3>2 DEF IdsOK
    <3> QED
      BY <1>2, <3>1, <3>2, <3>3, IdsFrame
  <2>4. CASE RestartApi
    <3>1. Launching' = {} /\ Ending' = {}
      BY <2>4 DEF RestartApi, Launching, Ending, EndingPcs, MarkPcs, Free
    <3>2. UNCHANGED <<row, job, issued>>
      BY <2>4 DEF RestartApi
    <3>3. WritesKnownRows /\ (\A s \in Sessions : job'[s].pc \in SawPcs => row[s].status # "absent")
      BY <1>2, <3>2 DEF WritesKnownRows, IdsOK
    <3> QED
      BY <1>2, <3>1, <3>2, <3>3, IdsFrame
  <2>5. CASE UNCHANGED vars
    BY <1>2, <2>5 DEF vars, IdsOK, Launching, Ending
  <2> QED
    BY <1>2, <2>1, <2>2, <2>3, <2>4, <2>5, HandleIds DEF Next
<1> QED
  BY <1>1, <1>2, TypesHold, PTL DEF Spec

-----------------------------------------------------------------------------
(* No call without a row.                                                    *)

NoRoomIsLost == Faults \cap RoomLosing = {}

(* What the order of the writes rests on: a row is marked only once its room *)
(* is closed, no closed room is created again, and a launch on its way to    *)
(* insert cannot be refused.                                                 *)
RoomsOK ==
  /\ \A r \in Requests : req[r].pc # "free" => req[r].tab \in Tabs
  /\ NoRoomIsLost =>
       /\ alive = Workflows
       /\ \A r \in Requests : req[r].pc \in MarkPcs => room[req[r].target] = "closed"
       /\ NoInvisibleCall

Backed(s) ==
  \/ row[s].status = "active"
  \/ \E r \in Requests : req[r].pc = "insert" /\ req[r].new = s

(* A step that neither opens a room, ends a row nor takes back an insert.    *)
LEMMA RoomsFrame ==
  ASSUME RoomsOK, NoRoomIsLost => UNCHANGED alive,
         \A r \in Requests : req'[r].pc # "free" => req'[r].tab \in Tabs,
         NoRoomIsLost =>
           /\ \A r \in Requests : req'[r].pc \in MarkPcs => room'[req'[r].target] = "closed"
           /\ \A s \in Sessions : Live(s)' => Live(s) \/ Backed(s)'
           /\ \A s \in Sessions : Live(s)' /\ Backed(s) => Backed(s)'
  PROVE  RoomsOK'
<1>1. ASSUME NoRoomIsLost
      PROVE  NoInvisibleCall'
  <2>1. \A s \in Sessions : Live(s) => Backed(s)
    BY <1>1 DEF RoomsOK, NoInvisibleCall, NoRoomIsLost, Backed
  <2>2. \A s \in Sessions : Live(s)' => Backed(s)'
    BY <1>1, <2>1
  <2> QED
    BY <2>2 DEF NoInvisibleCall, Backed
<1> QED
  BY <1>1 DEF RoomsOK, NoRoomIsLost

(* A step of a request that leaves the tables and rooms alone, and was not   *)
(* about to insert.                                                          *)
LEMMA RoomsRequestStep ==
  ASSUME TypeOK, RoomsOK, UNCHANGED <<alive, row, room, job>>, NEW r \in Requests,
         NoRoomIsLost => req[r].pc # "insert",
         \A x \in Requests \ {r} : req'[x] = req[x],
         req'[r].pc \notin MarkPcs,
         req'[r].pc # "free" => req'[r].tab \in Tabs
  PROVE  RoomsOK'
<1>1. \A x \in Requests : req'[x].pc # "free" => req'[x].tab \in Tabs
  BY DEF RoomsOK
<1>2. ASSUME NoRoomIsLost
      PROVE  /\ \A x \in Requests : req'[x].pc \in MarkPcs => room'[req'[x].target] = "closed"
             /\ \A s \in Sessions : Live(s)' => Live(s)
             /\ \A s \in Sessions : Backed(s) => Backed(s)'
  <2>1. \A x \in Requests : req'[x].pc \in MarkPcs => room'[req'[x].target] = "closed"
    BY <1>2 DEF RoomsOK
  <2>2. \A s \in Sessions : Backed(s) => Backed(s)'
    BY <1>2 DEF Backed
  <2> QED
    BY <2>1, <2>2 DEF Live
<1> QED
  BY <1>1, <1>2, RoomsFrame

LEMMA HandleRooms ==
  ASSUME TypeOK, IdsOK, RoomsOK, NEW r \in Requests, Handle(r)
  PROVE  RoomsOK'
<1>0. /\ NoRoomIsLost => /\ "delete_lost" \notin Faults /\ "create_lost" \notin Faults
                         /\ "api_db" \notin Faults
  BY DEF NoRoomIsLost, RoomLosing
<1>a. req[r].pc # "free" => req[r].tab \in Tabs
  BY DEF RoomsOK
<1>1. CASE BeginLaunch(r) \/ BeginStop(r) \/ CreateRoomFails(r)
  <2>0. CASE CreateRoomFails(r) /\ ~NoRoomIsLost
    <3>1. \A x \in Requests : req'[x].pc # "free" => req'[x].tab \in Tabs
      BY <2>0, AnswersForget DEF CreateRoomFails, RoomsOK, Free
    <3> QED
      BY <2>0, <3>1, RoomsFrame DEF CreateRoomFails
  <2>1. CASE ~CreateRoomFails(r) \/ NoRoomIsLost
    <3>1. UNCHANGED <<alive, row, room, job>> /\ req[r].pc \in {"launch", "stop", "create"}
      BY <1>0, <1>1, <2>1 DEF BeginLaunch, BeginStop, CreateRoomFails
    <3>2. CASE RejectLaunch(r) \/ AnswerStop(r)
      BY <3>1, <3>2, RoomsRequestStep, AnswersForget DEF Free, MarkPcs
    <3>3. ASSUME NEW s, NEW p \in {"launch_delete", "stop_delete"},
                 req' = [req EXCEPT ![r] = [@ EXCEPT !.pc = p, !.target = s]]
          PROVE  RoomsOK'
      <4>1. req'[r].pc = p /\ req'[r].tab = req[r].tab /\ \A x \in Requests \ {r} : req'[x] = req[x]
        BY <3>3 DEF TypeOK, RequestStates
      <4> QED
        BY <1>a, <3>1, <4>1, RoomsRequestStep DEF MarkPcs
    <3>4. CASE Admit(r)
      <4>1. req'[r].pc = "create" /\ req'[r].tab = req[r].tab /\ \A x \in Requests \ {r} : req'[x] = req[x]
        BY <3>4 DEF Admit, TypeOK, RequestStates
      <4> QED
        BY <1>a, <3>1, <4>1, RoomsRequestStep DEF MarkPcs
    <3> QED
      BY <1>1, <3>2, <3>3, <3>4 DEF BeginLaunch, BeginStop, CreateRoomFails, EnforceLimits
  <2> QED
    BY <1>1, <2>0, <2>1
<1>2. CASE DeleteRoom(r)
  <2>1. /\ req'[r].pc \in MarkPcs /\ req'[r].target = req[r].target /\ req[r].pc \in EndingPcs \ MarkPcs
        /\ req'[r].tab = req[r].tab
        /\ \A x \in Requests \ {r} : req'[x] = req[x]
    BY <1>2 DEF DeleteRoom, TypeOK, RequestStates, MarkPcs, EndingPcs
  <2>2. req[r].target \in Sessions
    BY <2>1 DEF IdsOK, Ending
  <2>3. UNCHANGED <<alive, row, job>>
    BY <1>2 DEF DeleteRoom
  <2>4. NoRoomIsLost => /\ room'[req[r].target] = "closed"
                        /\ \A s \in Sessions : room'[s] \in {room[s], "closed"}
    BY <1>0, <1>2, <2>2 DEF DeleteRoom, Close, TypeOK
  <2>5. NoRoomIsLost =>
          \A x \in Requests : req'[x].pc \in MarkPcs => room'[req'[x].target] = "closed"
    <3>1. ASSUME NoRoomIsLost, NEW x \in Requests, x # r, req'[x].pc \in MarkPcs
          PROVE  room'[req'[x].target] = "closed"
      <4>1. req[x].target \in Sessions /\ room[req[x].target] = "closed"
        BY <2>1, <3>1 DEF IdsOK, RoomsOK, Ending, EndingPcs
      <4> QED
        BY <2>1, <2>4, <3>1, <4>1
    <3> QED
      BY <2>1, <2>4, <3>1
  <2>6. NoRoomIsLost => \A s \in Sessions : Live(s)' => Live(s)
    BY <2>3, <2>4 DEF Live
  <2>7. \A s \in Sessions : Backed(s) => Backed(s)'
    BY <2>1, <2>3 DEF Backed, EndingPcs, MarkPcs
  <2>8. \A x \in Requests : req'[x].pc # "free" => req'[x].tab \in Tabs
    BY <1>a, <2>1 DEF RoomsOK, EndingPcs, MarkPcs
  <2> QED
    BY <2>3, <2>5, <2>6, <2>7, <2>8, RoomsFrame
<1>3. CASE MarkForLaunch(r) \/ MarkForStop(r)
  <2>1. /\ req[r].pc \in MarkPcs /\ UNCHANGED <<alive, room, job>>
        /\ row' = EndedByApi(req[r].target) \/ row' = row
    BY <1>3 DEF MarkForLaunch, MarkForStop, MarkPcs
  <2>2. req'[r].pc \in {"free", "create"}
    <3>1. CASE Admit(r)
      BY <3>1 DEF Admit, TypeOK, RequestStates
    <3>2. CASE RejectLaunch(r) \/ AnswerStop(r)
      BY <3>2, AnswersForget DEF Free
    <3> QED
      BY <1>3, <3>1, <3>2 DEF MarkForLaunch, MarkForStop, EnforceLimits
  <2>3. (\A x \in Requests \ {r} : req'[x] = req[x]) /\ (req'[r].pc # "free" => req'[r].tab = req[r].tab)
    <3>1. CASE Admit(r)
      BY <3>1 DEF Admit, TypeOK, RequestStates
    <3>2. CASE RejectLaunch(r) \/ AnswerStop(r)
      BY <3>2, AnswersForget DEF Free
    <3> QED
      BY <1>3, <3>1, <3>2 DEF MarkForLaunch, MarkForStop, EnforceLimits
  <2>4. \A s \in Sessions : s # req[r].target => row'[s] = row[s]
    BY <2>1 DEF EndedByApi, TypeOK
  <2>5. NoRoomIsLost => room[req[r].target] = "closed"
    BY <2>1 DEF RoomsOK
  <2>6. NoRoomIsLost => \A s \in Sessions : Live(s)' /\ Backed(s) => Backed(s)'
    BY <2>1, <2>2, <2>3, <2>4, <2>5 DEF Live, Backed, MarkPcs
  <2>7. NoRoomIsLost => \A x \in Requests : req'[x].pc \in MarkPcs => room'[req'[x].target] = "closed"
    BY <2>1, <2>2, <2>3 DEF RoomsOK, MarkPcs
  <2>8. \A x \in Requests : req'[x].pc # "free" => req'[x].tab \in Tabs
    BY <1>a, <2>1, <2>3 DEF RoomsOK, MarkPcs
  <2> QED
    BY <2>1, <2>6, <2>7, <2>8, RoomsFrame DEF Live
<1>4. CASE CreateRoom(r)
  <2> DEFINE new == req[r].new
  <2>1. /\ req'[r].pc = "insert" /\ req'[r].new = new /\ req[r].pc = "create"
        /\ req'[r].tab = req[r].tab
        /\ \A x \in Requests \ {r} : req'[x] = req[x]
    BY <1>4 DEF CreateRoom, TypeOK, RequestStates
  <2>2. UNCHANGED <<alive, row>>
    BY <1>4 DEF CreateRoom
  <2>3. \A s \in Sessions : s # new => room'[s] = room[s] /\ job'[s] = job[s]
    BY <1>4 DEF CreateRoom, OpenRoom, TypeOK
  <2>4. row[new].status = "absent"
    BY <2>1 DEF IdsOK, Launching
  <2>5. \A s \in Sessions : Live(s)' => Live(s) \/ Backed(s)'
    BY <2>1, <2>3 DEF Live, Backed
  <2>6. \A s \in Sessions : Backed(s) => Backed(s)'
    BY <2>1, <2>2 DEF Backed
  <2>7. NoRoomIsLost => \A x \in Requests : req'[x].pc \in MarkPcs => room'[req'[x].target] = "closed"
    <3>1. ASSUME NoRoomIsLost, NEW x \in Requests, req'[x].pc \in MarkPcs
          PROVE  room'[req'[x].target] = "closed"
      <4>1. x # r
        BY <2>1, <3>1 DEF MarkPcs
      <4>2. /\ req[x].target \in Sessions /\ row[req[x].target].status # "absent"
            /\ room[req[x].target] = "closed"
        BY <2>1, <3>1, <4>1 DEF IdsOK, RoomsOK, Ending, EndingPcs
      <4> QED
        BY <2>1, <2>3, <2>4, <4>1, <4>2
    <3> QED
      BY <3>1
  <2>8. \A x \in Requests : req'[x].pc # "free" => req'[x].tab \in Tabs
    BY <1>a, <2>1 DEF RoomsOK
  <2> QED
    BY <2>2, <2>5, <2>6, <2>7, <2>8, RoomsFrame
<1>5. CASE InsertRow(r)
  <2>1. /\ UNCHANGED <<alive, room, job>>
        /\ req' = [req EXCEPT ![r] = Free]
        /\ req[r].pc = "insert"
    BY <1>5 DEF InsertRow
  <2>2. /\ req'[r] = Free
        /\ \A x \in Requests \ {r} : req'[x] = req[x]
    BY <2>1 DEF TypeOK
  <2>3. /\ \A s \in Sessions : s # req[r].new => row'[s] = row[s]
        /\ req[r].new \in Sessions => row'[req[r].new].status = "active"
    BY <1>5 DEF InsertRow, TypeOK, Absent
  <2>4. \A s \in Sessions : Backed(s) => Backed(s)'
    BY <2>1, <2>2, <2>3 DEF Backed
  <2>5. NoRoomIsLost => \A x \in Requests : req'[x].pc \in MarkPcs => room'[req'[x].target] = "closed"
    BY <2>1, <2>2 DEF RoomsOK, Free, MarkPcs
  <2>6. \A x \in Requests : req'[x].pc # "free" => req'[x].tab \in Tabs
    BY <2>2 DEF RoomsOK, Free
  <2> QED
    BY <2>1, <2>4, <2>5, <2>6, RoomsFrame DEF Live
<1>6. CASE InsertFails(r)
  <2>1. ~NoRoomIsLost
    BY <1>0, <1>a, <1>6, NamesAssumption DEF InsertFails, RoomsOK
  <2>2. \A x \in Requests : req'[x].pc # "free" => req'[x].tab \in Tabs
    BY <1>6, AnswersForget DEF InsertFails, RoomsOK, Free
  <2> QED
    BY <2>1, <2>2, RoomsFrame
<1> QED
  BY <1>1, <1>2, <1>3, <1>4, <1>5, <1>6 DEF Handle

LEMMA RoomsHold == Spec => []RoomsOK
<1>1. Init => RoomsOK
  BY DEF Init, RoomsOK, Free, MarkPcs, NoInvisibleCall, Live
<1>2. ASSUME TypeOK, IdsOK, RoomsOK, [Next]_vars
      PROVE  RoomsOK'
  <2>1. ASSUME NEW t \in Tabs, Page(t)
        PROVE  RoomsOK'
    <3>1. UNCHANGED <<alive, row, room, job>>
      BY <2>1 DEF Page, Join, CloseTab, ClickLaunch, ClickToolbarStop, LeaveCall
    <3>2. CASE Join(t) \/ CloseTab(t)
      <4>1. \A x \in Requests : /\ req'[x].pc = req[x].pc /\ req'[x].tab = req[x].tab
                                /\ req'[x].new = req[x].new /\ req'[x].target = req[x].target
        BY <1>2, <3>2, PageKeepsRequests
      <4>2. (\A x \in Requests : req'[x].pc # "free" => req'[x].tab \in Tabs)
            /\ (NoRoomIsLost =>
                 \A x \in Requests : req'[x].pc \in MarkPcs => room'[req'[x].target] = "closed")
        BY <1>2, <3>1, <4>1 DEF RoomsOK
      <4>3. \A s \in Sessions : Backed(s) => Backed(s)'
        BY <3>1, <4>1 DEF Backed
      <4> QED
        BY <1>2, <3>1, <4>2, <4>3, RoomsFrame DEF Live
    <3>3. ASSUME NEW r \in Requests, ClickLaunch(t, r) \/ ClickToolbarStop(t, r) \/ LeaveCall(t, r)
          PROVE  RoomsOK'
        BY <1>2, <3>1, <3>3, PageSends, RoomsRequestStep DEF MarkPcs
    <3> QED
      BY <2>1, <3>2, <3>3 DEF Page
  <2>2. ASSUME NEW s \in Sessions, Work(s) \/ ReapRoom(s)
        PROVE  RoomsOK'
    <3>1. UNCHANGED <<alive, req>>
      BY <2>2 DEF Work, StartCall, AbandonCall, HitDurationCap, ReadRow, WriteRow, LoseJob, ReapRoom
    <3>2. \A x \in Sessions : room'[x] \in {room[x], "closed"}
      BY <1>2, <2>2 DEF Work, StartCall, AbandonCall, HitDurationCap, ReadRow, WriteRow, LoseJob,
                        ReapRoom, Close, TypeOK
    <3>3. \A x \in Sessions : Live(x)' => Live(x)
      <4>1. \A x \in Sessions : job'[x].pc \notin {"none", "over"} => job[x].pc \notin {"none", "over"}
        BY <1>2, <2>2 DEF Work, StartCall, AbandonCall, HitDurationCap, ReadRow, WriteRow, LoseJob,
                          ReapRoom, Over, TypeOK, Jobs
      <4> QED
        BY <1>2, <3>2, <4>1 DEF Live
    <3>4. \A x \in Sessions : Live(x)' /\ Backed(x) => Backed(x)'
      <4>1. CASE WriteRow(s)
        <5>1. job'[s].pc = "over" /\ \A x \in Sessions : x # s => row'[x] = row[x]
          BY <1>2, <4>1 DEF WriteRow, Over, TypeOK
        <5> QED
          BY <3>1, <5>1 DEF Live, Backed
      <4>2. CASE row' = row
        BY <3>1, <4>2 DEF Backed
      <4> QED
        BY <2>2, <4>1, <4>2 DEF Work, StartCall, AbandonCall, HitDurationCap, ReadRow, LoseJob,
                                ReapRoom
    <3>5. NoRoomIsLost =>
            \A x \in Requests : req'[x].pc \in MarkPcs => room'[req'[x].target] = "closed"
      <4>1. ASSUME NoRoomIsLost, NEW x \in Requests, req'[x].pc \in MarkPcs
            PROVE  room'[req'[x].target] = "closed"
        <5>1. req[x].target \in Sessions /\ room[req[x].target] = "closed"
          BY <1>2, <3>1, <4>1 DEF IdsOK, RoomsOK, Ending, EndingPcs
        <5> QED
          BY <3>1, <3>2, <5>1
      <4> QED
        BY <4>1
    <3> QED
      BY <1>2, <3>1, <3>3, <3>4, <3>5, RoomsFrame DEF RoomsOK
  <2>3. ASSUME NEW w \in Workflows, DeleteWorkflow(w)
        PROVE  RoomsOK'
    <3>1. ~NoRoomIsLost /\ UNCHANGED req
      BY <2>3 DEF DeleteWorkflow, NoRoomIsLost, RoomLosing
    <3> QED
      BY <1>2, <3>1, RoomsFrame DEF RoomsOK
  <2>4. CASE RestartApi
    <3>1. ~NoRoomIsLost /\ \A x \in Requests : req'[x] = Free
      BY <2>4 DEF RestartApi, NoRoomIsLost, RoomLosing
    <3> QED
      BY <1>2, <3>1, RoomsFrame DEF Free
  <2>5. CASE UNCHANGED vars
    BY <1>2, <2>5, RoomsFrame DEF vars, RoomsOK, Live, Backed
  <2> QED
    BY <1>2, <2>1, <2>2, <2>3, <2>4, <2>5, HandleRooms DEF Next
<1> QED
  BY <1>1, <1>2, TypesHold, IdsHold, PTL DEF Spec

(* CallsAreVisible: while LiveKit answers, the API's commits succeed and no  *)
(* workflow is deleted, every room that can cost money has an active row or a*)
(* launch about to insert one, however many pages, launches, stops and       *)
(* workers overlap: _end_session deletes the room before it ends the row, and*)
(* launch creates the room with an id no handler can be ending.              *)
THEOREM CallsAreVisible == Spec => []NoInvisibleCall
<1>1. RoomsOK => NoInvisibleCall
  BY DEF RoomsOK, NoInvisibleCall, NoRoomIsLost
<1> QED
  BY <1>1, RoomsHold, PTL

-----------------------------------------------------------------------------
(* Launches that do not overlap replace each other.                          *)

OneAtATime == \A r1, r2 \in Requests : r1 = r2

ReplacingPcs == {"launch_delete", "launch_mark"}

ActiveIn(s, w) == row[s].status = "active" /\ row[s].workflow = w

(* What a launch knows of its workflow's rows, as long as no other request is*)
(* served: only the session it is ending can be active, and none is once it  *)
(* has passed the limits.                                                    *)
LaunchKnows(r) ==
  \A s \in Sessions : ActiveIn(s, PageOf[req[r].tab]) =>
    /\ req[r].pc \in ReplacingPcs => s = req[r].target
    /\ req[r].pc \notin {"create", "insert"}

AtMostOneActive ==
  \A s1, s2 \in Sessions, w \in Workflows :
    ActiveIn(s1, w) /\ ActiveIn(s2, w) => s1 = s2

SerialOK == OneAtATime => AtMostOneActive /\ \A r \in Requests : LaunchKnows(r)

\* No row becomes active, or changes its workflow while it is.
NoNewActive == \A s \in Sessions : row'[s].status = "active" =>
                 row[s].status = "active" /\ row'[s].workflow = row[s].workflow

LEMMA SerialFrame ==
  ASSUME SerialOK, NoNewActive,
         \A r \in Requests :
           \/ req'[r].pc \notin ReplacingPcs \cup {"create", "insert"}
           \/ /\ req'[r].tab = req[r].tab
              /\ req'[r].pc \in ReplacingPcs =>
                   req[r].pc \in ReplacingPcs /\ req'[r].target = req[r].target
              /\ req'[r].pc \in {"create", "insert"} => req[r].pc \in {"create", "insert"}
  PROVE  SerialOK'
<1>1. ASSUME OneAtATime
      PROVE  AtMostOneActive'
  BY <1>1 DEF SerialOK, NoNewActive, AtMostOneActive, ActiveIn
<1>2. ASSUME OneAtATime, NEW r \in Requests
      PROVE  LaunchKnows(r)'
  BY <1>2 DEF SerialOK, NoNewActive, LaunchKnows, ActiveIn
<1> QED
  BY <1>1, <1>2 DEF SerialOK, OneAtATime

(* The only request admits itself when its workflow has no active row.       *)
LEMMA SerialAdmit ==
  ASSUME SerialOK, NEW r \in Requests, NoNewActive,
         req'[r].pc = "create", req'[r].tab = req[r].tab,
         OneAtATime => \A s \in Sessions : ~(ActiveIn(s, PageOf[req[r].tab])')
  PROVE  SerialOK'
<1>1. ASSUME OneAtATime
      PROVE  AtMostOneActive'
  BY <1>1 DEF SerialOK, NoNewActive, AtMostOneActive, ActiveIn
<1>2. ASSUME OneAtATime, NEW x \in Requests
      PROVE  LaunchKnows(x)'
  <2>1. x = r
    BY <1>2 DEF OneAtATime
  <2>2. \A s \in Sessions : ~(row'[s].status = "active" /\ row'[s].workflow = PageOf[req'[r].tab])
    BY <1>2 DEF ActiveIn
  <2> QED
    BY <2>1, <2>2 DEF LaunchKnows, ActiveIn
<1> QED
  BY <1>1, <1>2 DEF SerialOK, OneAtATime

(* A handler that answers, on rows it has left alone or ended.               *)
LEMMA SerialAnswer ==
  ASSUME TypeOK, SerialOK, NoNewActive, NEW r \in Requests, RejectLaunch(r) \/ AnswerStop(r)
  PROVE  SerialOK'
<1>1. (\A x \in Requests \ {r} : req'[x] = req[x]) /\ req'[r] = Free
  BY AnswersForget
<1> QED
  BY <1>1, SerialFrame DEF Free, ReplacingPcs

LEMMA UpdateEndsOne ==
  ASSUME TypeOK, NEW s \in Sessions, row' = EndedByApi(s)
  PROVE  NoNewActive /\ row'[s].status = "stopped"
BY DEF EndedByApi, TypeOK, Rows, NoNewActive

LEMMA HandleSerial ==
  ASSUME TypeOK, IdsOK, RoomsOK, SerialOK, NEW r \in Requests, Handle(r)
  PROVE  SerialOK'
<1> DEFINE w == PageOf[req[r].tab]
<1>a. req[r].pc # "free" => w \in Workflows
  BY NamesAssumption DEF RoomsOK
<1>b. row' = row => NoNewActive
  BY DEF NoNewActive
<1>1. CASE BeginLaunch(r)
  <2>0. w \in Workflows /\ req[r].pc = "launch" /\ NoNewActive
    BY <1>a, <1>b, <1>1 DEF BeginLaunch
  <2>1. CASE GetActive(w) = {}
    <3>1. OneAtATime => \A s \in Sessions : ~ActiveIn(s, w)
      <4>1. ASSUME OneAtATime, NEW s \in Sessions, ActiveIn(s, w)
            PROVE  FALSE
        <5>1. ActiveOf(w) = {s}
          BY <2>0, <4>1 DEF SerialOK, AtMostOneActive, ActiveIn, ActiveOf, ActiveRows
        <5>2. row[s].startedAt \in Nat
          BY DEF TypeOK, Rows
        <5>3. row[s].startedAt <= row[s].startedAt
          BY <5>2
        <5>4. s \in GetActive(w)
          BY <5>1, <5>3 DEF GetActive
        <5> QED
          BY <2>1, <5>4
      <4> QED
        BY <4>1
    <3>2. CASE Admit(r)
      <4>1. req'[r].pc = "create" /\ req'[r].tab = req[r].tab
        BY <3>2 DEF Admit, TypeOK, RequestStates
      <4>2. OneAtATime => \A s \in Sessions : ~(ActiveIn(s, PageOf[req[r].tab])')
        <5>1. \A s \in Sessions : row'[s] = row[s]
          BY <1>1 DEF BeginLaunch
        <5>2. ASSUME OneAtATime, NEW s \in Sessions, row'[s].status = "active",
                     row'[s].workflow = w, req'[r].tab = req[r].tab
              PROVE  FALSE
          BY <3>1, <5>1, <5>2 DEF ActiveIn
        <5> QED
          BY <5>2, <4>1 DEF ActiveIn
      <4> QED
        BY <2>0, <4>1, <4>2, SerialAdmit
    <3>3. CASE RejectLaunch(r)
      BY <2>0, <3>3, SerialAnswer
    <3> QED
      BY <1>1, <2>1, <3>2, <3>3 DEF BeginLaunch, EnforceLimits
  <2>2. CASE GetActive(w) # {}
    <3>1. PICK s \in GetActive(w) :
            req' = [req EXCEPT ![r] = [@ EXCEPT !.pc = "launch_delete", !.target = s]]
      BY <1>1, <2>2 DEF BeginLaunch
    <3>2. s \in Sessions /\ ActiveIn(s, w)
      BY DEF GetActive, ActiveOf, ActiveRows, ActiveIn
    <3>3. /\ req'[r].pc = "launch_delete" /\ req'[r].target = s /\ req'[r].tab = req[r].tab
      BY <3>1 DEF TypeOK, RequestStates
    <3>4. \A x \in Sessions : row'[x] = row[x]
      BY <1>1 DEF BeginLaunch
    <3>5. ASSUME OneAtATime
          PROVE  AtMostOneActive'
      BY <3>4, <3>5 DEF SerialOK, AtMostOneActive, ActiveIn
    <3>6. ASSUME OneAtATime, NEW x \in Requests
          PROVE  LaunchKnows(x)'
      <4>1. x = r
        BY <3>6 DEF OneAtATime
      <4>2. \A y \in Sessions : row[y].status = "active" /\ row[y].workflow = w => y = s
        BY <2>0, <3>2, <3>6 DEF SerialOK, AtMostOneActive, ActiveIn
      <4> QED
        BY <3>3, <3>4, <4>1, <4>2 DEF LaunchKnows, ActiveIn
    <3> QED
      BY <3>5, <3>6 DEF SerialOK, OneAtATime
  <2> QED
    BY <2>1, <2>2
<1>2. CASE BeginStop(r)
  <2>1. CASE AnswerStop(r)
    BY <1>b, <1>2, <2>1, SerialAnswer DEF BeginStop
  <2>2. CASE ~AnswerStop(r)
    <3>1. req'[r].pc = "stop_delete" /\ \A x \in Requests \ {r} : req'[x] = req[x]
      BY <1>2, <2>2, ZenonT(60) DEF BeginStop, TypeOK, RequestStates
    <3> QED
      BY <1>b, <1>2, <3>1, SerialFrame DEF BeginStop, ReplacingPcs
  <2> QED
    BY <2>1, <2>2
<1>3. CASE DeleteRoom(r)
  <2>1. /\ \A x \in Requests \ {r} : req'[x] = req[x]
        /\ req'[r].tab = req[r].tab /\ req'[r].target = req[r].target
        /\ \/ req[r].pc = "launch_delete" /\ req'[r].pc = "launch_mark"
           \/ req'[r].pc = "stop_mark"
    BY <1>3 DEF DeleteRoom, TypeOK, RequestStates
  <2> QED
    BY <1>b, <1>3, <2>1, SerialFrame DEF DeleteRoom, ReplacingPcs
<1>4. CASE MarkForLaunch(r)
  <2>0. req[r].pc = "launch_mark" /\ req[r].target \in Sessions
    BY <1>4 DEF MarkForLaunch, IdsOK, Ending, EndingPcs, MarkPcs
  <2>1. CASE RejectLaunch(r) /\ row' = row
    BY <1>b, <2>1, SerialAnswer
  <2>2. CASE RejectLaunch(r) /\ row' = EndedByApi(req[r].target)
    BY <2>0, <2>2, SerialAnswer, UpdateEndsOne
  <2>3. CASE Admit(r) /\ row' = EndedByApi(req[r].target)
    <3>1. NoNewActive /\ row'[req[r].target].status = "stopped"
      BY <2>0, <2>3, UpdateEndsOne
    <3>2. req'[r].pc = "create" /\ req'[r].tab = req[r].tab
      BY <2>3 DEF Admit, TypeOK, RequestStates
    <3>3. OneAtATime => \A s \in Sessions : ~(ActiveIn(s, PageOf[req[r].tab])')
      <4>1. ASSUME OneAtATime, NEW s \in Sessions, row'[s].status = "active",
                   row'[s].workflow = w
            PROVE  FALSE
        <5>1. ActiveIn(s, w)
          BY <3>1, <4>1 DEF NoNewActive, ActiveIn
        <5>2. s = req[r].target
          BY <2>0, <4>1, <5>1 DEF SerialOK, LaunchKnows, ReplacingPcs
        <5> QED
          BY <3>1, <4>1, <5>2
      <4> QED
        BY <3>2, <4>1 DEF ActiveIn
    <3> QED
      BY <3>1, <3>2, <3>3, SerialAdmit
  <2> QED
    BY <1>4, <2>1, <2>2, <2>3 DEF MarkForLaunch, EnforceLimits
<1>5. CASE MarkForStop(r)
  <2>1. req[r].target \in Sessions
    BY <1>5 DEF MarkForStop, IdsOK, Ending, EndingPcs, MarkPcs
  <2>2. NoNewActive
    BY <1>b, <1>5, <2>1, UpdateEndsOne DEF MarkForStop
  <2> QED
    BY <1>5, <2>2, SerialAnswer DEF MarkForStop
<1>6. CASE CreateRoom(r)
  <2>1. /\ \A x \in Requests \ {r} : req'[x] = req[x]
        /\ req'[r].tab = req[r].tab /\ req[r].pc = "create" /\ req'[r].pc = "insert"
    BY <1>6 DEF CreateRoom, TypeOK, RequestStates
  <2> QED
    BY <1>b, <1>6, <2>1, SerialFrame DEF CreateRoom, ReplacingPcs
<1>7. CASE CreateRoomFails(r) \/ InsertFails(r)
  BY <1>b, <1>7, SerialAnswer DEF CreateRoomFails, InsertFails
<1>8. CASE InsertRow(r)
  <2>0. req[r].pc = "insert" /\ w \in Workflows /\ req[r].new \in Sessions
    BY <1>a, <1>8 DEF InsertRow, IdsOK, Launching
  <2>1. \A s \in Sessions : s # req[r].new => row'[s] = row[s]
    BY <1>8 DEF InsertRow, TypeOK
  <2>2. row'[req[r].new].workflow = w
    BY <1>8, <2>0 DEF InsertRow, TypeOK, Absent
  <2>3. req'[r].pc = "free" /\ \A x \in Requests \ {r} : req'[x] = req[x]
    BY <1>8 DEF InsertRow, Free, TypeOK
  <2>4. ASSUME OneAtATime
        PROVE  AtMostOneActive'
    <3>1. \A s \in Sessions : ~ActiveIn(s, w)
      BY <2>0, <2>4 DEF SerialOK, LaunchKnows
    <3>2. ASSUME NEW s1 \in Sessions, NEW s2 \in Sessions, NEW v \in Workflows,
                 row'[s1].status = "active" /\ row'[s1].workflow = v,
                 row'[s2].status = "active" /\ row'[s2].workflow = v
          PROVE  s1 = s2
      <4>1. CASE v = w
        BY <2>1, <3>1, <3>2, <4>1 DEF ActiveIn
      <4>2. CASE v # w
        BY <2>1, <2>2, <2>4, <3>2, <4>2 DEF SerialOK, AtMostOneActive, ActiveIn
      <4> QED
        BY <4>1, <4>2
    <3> QED
      BY <3>2 DEF AtMostOneActive, ActiveIn
  <2>5. ASSUME OneAtATime, NEW x \in Requests
        PROVE  LaunchKnows(x)'
    <3>1. x = r
      BY <2>5 DEF OneAtATime
    <3> QED
      BY <2>3, <3>1 DEF LaunchKnows, ReplacingPcs
  <2> QED
    BY <2>4, <2>5 DEF SerialOK, OneAtATime
<1> QED
  BY <1>1, <1>2, <1>3, <1>4, <1>5, <1>6, <1>7, <1>8 DEF Handle

LEMMA SerialHolds == Spec => []SerialOK
<1>1. Init => SerialOK
  BY DEF Init, SerialOK, AtMostOneActive, LaunchKnows, ActiveIn, Absent, Free
<1>2. ASSUME TypeOK, IdsOK, RoomsOK, SerialOK, [Next]_vars
      PROVE  SerialOK'
  <2>1. ASSUME NEW t \in Tabs, Page(t)
        PROVE  SerialOK'
    <3>1. NoNewActive
      BY <2>1 DEF Page, Join, CloseTab, ClickLaunch, ClickToolbarStop, LeaveCall, NoNewActive
    <3>2. CASE Join(t) \/ CloseTab(t)
      <4>1. \A x \in Requests : /\ req'[x].pc = req[x].pc /\ req'[x].tab = req[x].tab
                                /\ req'[x].target = req[x].target
        BY <1>2, <3>2, PageKeepsRequests
      <4> QED
        BY <1>2, <3>1, <4>1, SerialFrame
    <3>3. ASSUME NEW r \in Requests, ClickLaunch(t, r) \/ ClickToolbarStop(t, r) \/ LeaveCall(t, r)
          PROVE  SerialOK'
        BY <1>2, <3>1, <3>3, PageSends, SerialFrame DEF ReplacingPcs
    <3> QED
      BY <2>1, <3>2, <3>3 DEF Page
  <2>2. ASSUME NEW s \in Sessions, Work(s) \/ ReapRoom(s)
        PROVE  SerialOK'
    <3>1. UNCHANGED req
      BY <2>2 DEF Work, StartCall, AbandonCall, HitDurationCap, ReadRow, WriteRow, LoseJob, ReapRoom
    <3>2. NoNewActive
      <4>1. CASE WriteRow(s)
        BY <1>2, <4>1 DEF WriteRow, NoNewActive, TypeOK, Rows
      <4>2. CASE row' = row
        BY <4>2 DEF NoNewActive
      <4> QED
        BY <2>2, <4>1, <4>2 DEF Work, StartCall, AbandonCall, HitDurationCap, ReadRow, LoseJob,
                                ReapRoom
    <3> QED
      BY <1>2, <3>1, <3>2, SerialFrame
  <2>3. ASSUME NEW w \in Workflows, DeleteWorkflow(w)
        PROVE  SerialOK'
    <3>1. NoNewActive
      BY <1>2, <2>3 DEF DeleteWorkflow, NoNewActive, TypeOK, Rows
    <3> QED
      BY <1>2, <2>3, <3>1, SerialFrame DEF DeleteWorkflow
  <2>4. CASE RestartApi
    <3>1. NoNewActive /\ \A x \in Requests : req'[x].pc = "free"
      BY <2>4 DEF RestartApi, NoNewActive, Free
    <3> QED
      BY <1>2, <3>1, SerialFrame DEF ReplacingPcs
  <2>5. CASE UNCHANGED vars
    BY <1>2, <2>5, SerialFrame DEF vars, NoNewActive
  <2> QED
    BY <1>2, <2>1, <2>2, <2>3, <2>4, <2>5, HandleSerial DEF Next
<1> QED
  BY <1>1, <1>2, TypesHold, IdsHold, RoomsHold, PTL DEF Spec

(* LaunchesReplace: with one request at a time, a workflow never has two     *)
(* active rows: launch ends the only session get_active can find before it   *)
(* inserts, and refuses to insert when that update fails.                    *)
THEOREM LaunchesReplace == Spec => []SerialLaunchesReplace
<1>1. ASSUME SerialOK
      PROVE  SerialLaunchesReplace
  <2>1. ASSUME Cardinality(Requests) = 1, NEW w \in Workflows
        PROVE  Cardinality(ActiveOf(w)) <= 1
    <3>1. \E r : Requests = {r}
      BY <2>1, NamesAssumption, FS_Singleton
    <3>2. OneAtATime
      BY <3>1 DEF OneAtATime
    <3>3. \A s1, s2 \in ActiveOf(w) : s1 = s2
      BY <1>1, <3>2 DEF SerialOK, AtMostOneActive, ActiveIn, ActiveOf, ActiveRows
    <3>4. CASE ActiveOf(w) = {}
      <4>1. Cardinality({}) = 0
        BY FS_EmptySet
      <4> QED
        BY <3>4, <4>1
    <3>5. ASSUME NEW s \in ActiveOf(w)
          PROVE  Cardinality(ActiveOf(w)) <= 1
      <4>1. ActiveOf(w) = {s}
        BY <3>3
      <4>2. Cardinality({s}) = 1
        BY FS_Singleton
      <4> QED
        BY <4>1, <4>2
    <3> QED
      BY <3>4, <3>5
  <2> QED
    BY <2>1 DEF SerialLaunchesReplace
<1> QED
  BY <1>1, SerialHolds, PTL

-----------------------------------------------------------------------------
(* The ledger: the table that the API and the workers write without a lock  *)
(* implements SessionLedger, whatever fails.                                *)

(* Why one account is enough: usage and reason are stored by the job's last  *)
(* write, and a job that found its session ended can rely on that.           *)
LedgerOK ==
  \A s \in Sessions :
    /\ row[s].usage => job[s].pc = "over"
    /\ row[s].reason # "none" => job[s].pc = "over"
    /\ job[s].pc = "saw_ended" => row[s].status \in {"stopped", "gone"}

\* A row that was not written, or was only ended or taken away.
Settles(s) ==
  \/ row'[s] = row[s]
  \/ /\ row'[s].usage = row[s].usage
     /\ row'[s].reason = row[s].reason
     /\ row[s].status # "absent"
     /\ row'[s].status \in {"stopped", "gone"}

\* A job that was not touched, or that does not claim to have seen the end.
JobKeeps(s) ==
  \/ job'[s].pc = job[s].pc
  \/ job'[s].pc = "over"
  \/ job[s].pc # "over" /\ (job'[s].pc = "saw_ended" => row[s].status = "stopped" /\ row' = row)

LEMMA LedgerFrame ==
  ASSUME LedgerOK, \A s \in Sessions : Settles(s) /\ JobKeeps(s)
  PROVE  LedgerOK'
<1>1. ASSUME NEW s \in Sessions
      PROVE  /\ row'[s].usage => job'[s].pc = "over"
             /\ row'[s].reason # "none" => job'[s].pc = "over"
             /\ job'[s].pc = "saw_ended" => row'[s].status \in {"stopped", "gone"}
  <2>1. row'[s].usage = row[s].usage /\ row'[s].reason = row[s].reason
    BY DEF Settles
  <2>2. row'[s].usage \/ row'[s].reason # "none" => job'[s].pc = "over"
    BY <2>1 DEF LedgerOK, JobKeeps
  <2>3. job'[s].pc = "saw_ended" => row'[s].status \in {"stopped", "gone"}
    BY DEF LedgerOK, JobKeeps, Settles
  <2> QED
    BY <2>1, <2>2, <2>3 DEF LedgerOK
<1> QED
  BY <1>1 DEF LedgerOK

(* The UPDATE of _end_session keeps reason and usage.                        *)
LEMMA UpdateSettles ==
  ASSUME TypeOK, IdsOK, NEW r \in Ending, row' = EndedByApi(req[r].target)
  PROVE  \A s \in Sessions : Settles(s)
<1>1. req[r].target \in Sessions /\ row[req[r].target].status # "absent"
  BY DEF IdsOK
<1> QED
  BY <1>1 DEF EndedByApi, Settles, TypeOK, Rows

LEMMA HandleLedger ==
  ASSUME TypeOK, IdsOK, LedgerOK, NEW r \in Requests, Handle(r)
  PROVE  LedgerOK'
<1>0. /\ row' = row => \A s \in Sessions : Settles(s)
      /\ job' = job => \A s \in Sessions : JobKeeps(s)
  BY DEF Settles, JobKeeps
<1>1. CASE BeginLaunch(r) \/ BeginStop(r) \/ DeleteRoom(r) \/ InsertFails(r)
  BY <1>0, <1>1, LedgerFrame DEF BeginLaunch, BeginStop, DeleteRoom, InsertFails
<1>2. CASE MarkForLaunch(r) \/ MarkForStop(r)
  <2>1. r \in Ending /\ job' = job
    BY <1>2 DEF MarkForLaunch, MarkForStop, Ending, EndingPcs, MarkPcs
  <2>2. row' = row \/ row' = EndedByApi(req[r].target)
    BY <1>2 DEF MarkForLaunch, MarkForStop
  <2> QED
    BY <1>0, <2>1, <2>2, UpdateSettles, LedgerFrame
<1>3. CASE CreateRoom(r) \/ CreateRoomFails(r)
  <2>1. row' = row
    BY <1>3 DEF CreateRoom, CreateRoomFails
  <2>2. CASE job' = job
    BY <1>0, <2>1, <2>2, LedgerFrame
  <2>3. CASE OpenRoom(req[r].new)
    <3>1. req[r].new \in Sessions /\ row[req[r].new] = Absent
      BY <1>3 DEF CreateRoom, CreateRoomFails, IdsOK, Launching
    <3>2. /\ job'[req[r].new].pc = "waiting"
          /\ \A s \in Sessions : s # req[r].new => job'[s] = job[s]
      BY <2>3, <3>1 DEF OpenRoom, TypeOK, Jobs
    <3> QED
      BY <2>1, <3>1, <3>2 DEF LedgerOK, Absent
  <2> QED
    BY <1>3, <2>2, <2>3 DEF CreateRoom, CreateRoomFails
<1>4. CASE InsertRow(r)
  <2>1. req[r].new \in Sessions /\ row[req[r].new] = Absent
    BY <1>4 DEF InsertRow, IdsOK, Launching
  <2>2. /\ row'[req[r].new].usage = FALSE /\ row'[req[r].new].reason = "none"
        /\ \A s \in Sessions : s # req[r].new => row'[s] = row[s]
    BY <1>4, <2>1 DEF InsertRow, Absent, TypeOK
  <2>3. job[req[r].new].pc # "saw_ended" /\ job' = job
    BY <1>4, <2>1 DEF InsertRow, LedgerOK, Absent
  <2> QED
    BY <2>2, <2>3 DEF LedgerOK
<1> QED
  BY <1>1, <1>2, <1>3, <1>4 DEF Handle

\* The job's last write.
LEMMA WriteLedger ==
  ASSUME TypeOK, LedgerOK, NEW s \in Sessions, WriteRow(s)
  PROVE  LedgerOK'
<1>1. /\ job'[s].pc = "over"
      /\ \A x \in Sessions : x # s => job'[x] = job[x] /\ row'[x] = row[x]
  BY DEF WriteRow, Over, TypeOK
<1> QED
  BY <1>1 DEF LedgerOK

LEMMA LedgerHolds == Spec => []LedgerOK
<1>1. Init => LedgerOK
  BY DEF Init, LedgerOK, Absent, NoJob
<1>2. ASSUME TypeOK, IdsOK, LedgerOK, [Next]_vars
      PROVE  LedgerOK'
  <2>0. /\ row' = row => \A s \in Sessions : Settles(s)
        /\ job' = job => \A s \in Sessions : JobKeeps(s)
    BY DEF Settles, JobKeeps
  <2>1. ASSUME NEW t \in Tabs, Page(t)
        PROVE  LedgerOK'
    BY <1>2, <2>0, <2>1, LedgerFrame
       DEF Page, Join, CloseTab, ClickLaunch, ClickToolbarStop, LeaveCall
  <2>2. ASSUME NEW s \in Sessions, Work(s) \/ ReapRoom(s)
        PROVE  LedgerOK'
    <3>1. CASE WriteRow(s)
      BY <1>2, <3>1, WriteLedger
    <3>2. CASE ReapRoom(s)
      BY <1>2, <2>0, <3>2, LedgerFrame DEF ReapRoom
    <3>3. CASE StartCall(s) \/ AbandonCall(s) \/ HitDurationCap(s) \/ LoseJob(s)
      <4>1. \A x \in Sessions : JobKeeps(x)
        BY <1>2, <3>3 DEF StartCall, AbandonCall, HitDurationCap, LoseJob, Over, JobKeeps, TypeOK, Jobs
      <4> QED
        BY <1>2, <2>0, <3>3, <4>1, LedgerFrame DEF StartCall, AbandonCall, HitDurationCap, LoseJob
    <3>4. CASE ReadRow(s)
      <4>1. \A x \in Sessions : JobKeeps(x)
        BY <1>2, <3>4 DEF ReadRow, Over, JobKeeps, TypeOK, Jobs
      <4> QED
        BY <1>2, <2>0, <3>4, <4>1, LedgerFrame DEF ReadRow
    <3> QED
      BY <2>2, <3>1, <3>2, <3>3, <3>4 DEF Work
  <2>3. ASSUME NEW w \in Workflows, DeleteWorkflow(w)
        PROVE  LedgerOK'
    <3>1. \A s \in Sessions : Settles(s)
      BY <1>2, <2>3, NamesAssumption DEF DeleteWorkflow, Settles, IdsOK, Absent, TypeOK, Rows
    <3> QED
      BY <1>2, <2>0, <2>3, <3>1, LedgerFrame DEF DeleteWorkflow
  <2>4. CASE RestartApi \/ UNCHANGED vars
    BY <1>2, <2>0, <2>4, LedgerFrame DEF RestartApi, vars
  <2> QED
    BY <1>2, <2>1, <2>2, <2>3, <2>4, HandleLedger DEF Next
<1> QED
  BY <1>1, <1>2, TypesHold, IdsHold, PTL DEF Spec

-----------------------------------------------------------------------------
(* The steps of the ledger.                                                  *)

LEMMA SameEntries ==
  ASSUME \A s \in Sessions : /\ LedgerState(row'[s].status) = LedgerState(row[s].status)
                             /\ row'[s].reason = row[s].reason /\ row'[s].usage = row[s].usage
  PROVE  LedgerEntries' = LedgerEntries
BY DEF LedgerEntries

LEMMA StoredEntry ==
  ASSUME NEW s \in Sessions
  PROVE  LedgerEntries[s] = [state |-> LedgerState(row[s].status),
                             reason |-> row[s].reason, usage |-> row[s].usage]
BY DEF LedgerEntries

\* One row changes its status and nothing else.
LEMMA StateStep ==
  ASSUME NEW s \in Sessions, \A x \in Sessions : x # s => row'[x] = row[x],
         row'[s].reason = row[s].reason, row'[s].usage = row[s].usage
  PROVE  LedgerEntries' = [LedgerEntries EXCEPT ![s].state = LedgerState(row'[s].status)]
<1>1. LedgerEntries'[s] = [LedgerEntries[s] EXCEPT !.state = LedgerState(row'[s].status)]
  BY DEF LedgerEntries
<1>2. \A x \in Sessions : x # s => LedgerEntries'[x] = LedgerEntries[x]
  BY DEF LedgerEntries
<1> QED
  BY <1>1, <1>2 DEF LedgerEntries

LEMMA ClosesEntry ==
  ASSUME TypeOK, IdsOK, NEW r \in Ending, row' = EndedByApi(req[r].target),
         row[req[r].target].status # "gone"
  PROVE  [Ledger!Next]_LedgerEntries
<1> DEFINE s == req[r].target
<1>1. s \in Sessions /\ row[s].status \in {"active", "stopped"}
  BY DEF IdsOK, TypeOK, Rows
<1>2. /\ row'[s].status = "stopped"
      /\ row'[s].reason = row[s].reason /\ row'[s].usage = row[s].usage
      /\ \A x \in Sessions : x # s => row'[x] = row[x]
  BY <1>1 DEF EndedByApi, TypeOK, Rows
<1> HIDE DEF s
<1>3. CASE row[s].status = "stopped"
  BY <1>1, <1>2, <1>3, SameEntries
<1>4. CASE row[s].status = "active"
  <2>1. LedgerEntries[s].state = "open"
    BY <1>1, <1>4 DEF LedgerEntries, LedgerState
  <2>2. LedgerEntries' = [LedgerEntries EXCEPT ![s].state = "closed"]
    BY <1>1, <1>2, StateStep DEF LedgerState
  <2> QED
    BY <1>1, <2>1, <2>2 DEF Ledger!Next, Ledger!Close
<1> QED
  BY <1>1, <1>3, <1>4

LEMMA OpensEntry ==
  ASSUME TypeOK, IdsOK, NEW r \in Requests, InsertRow(r)
  PROVE  [Ledger!Next]_LedgerEntries
<1> DEFINE s == req[r].new
<1>1. s \in Sessions /\ row[s] = Absent
  BY DEF InsertRow, IdsOK, Launching
<1>2. /\ row'[s].status = "active" /\ row'[s].reason = "none" /\ row'[s].usage = FALSE
      /\ \A x \in Sessions : x # s => row'[x] = row[x]
  BY <1>1 DEF InsertRow, Absent, TypeOK
<1> HIDE DEF s
<1>3. LedgerEntries[s] = [state |-> "none", reason |-> "none", usage |-> FALSE]
  <2>1. row[s].status = "absent" /\ row[s].reason = "none" /\ row[s].usage = FALSE
    BY <1>1 DEF Absent
  <2> QED
    BY <1>1, <2>1, StoredEntry DEF LedgerState
<1>4. LedgerEntries' = [LedgerEntries EXCEPT ![s].state = "open"]
  <2>1. row[s].reason = "none" /\ row[s].usage = FALSE
    BY <1>1 DEF Absent
  <2>2. row'[s].reason = row[s].reason /\ row'[s].usage = row[s].usage
    BY <1>2, <2>1, Zenon
  <2> QED
    BY <1>1, <1>2, <2>2, StateStep DEF LedgerState
<1>5. LedgerEntries[s].state = "none"
  BY <1>3
<1> QED
  BY <1>1, <1>4, <1>5 DEF Ledger!Next, Ledger!Open

LEMMA AccountsEntry ==
  ASSUME TypeOK, IdsOK, LedgerOK, NEW s \in Sessions, WriteRow(s)
  PROVE  [Ledger!Next]_LedgerEntries
<1>1. CASE row[s].status = "gone"
  BY <1>1, SameEntries DEF WriteRow
<1>2. CASE row[s].status # "gone"
  <2>0. row[s] \in Rows /\ job[s] \in Jobs /\ row \in [Sessions -> Rows]
    BY DEF TypeOK
  <2>1. row[s].status \in {"active", "stopped"} /\ ~row[s].usage /\ row[s].reason = "none"
    <3>1. job[s].pc # "over" /\ job[s].pc \in SawPcs
      BY DEF WriteRow, SawPcs
    <3>2. row[s].status # "absent" /\ ~row[s].usage /\ row[s].reason = "none"
      BY <3>1 DEF IdsOK, LedgerOK
    <3> QED
      BY <1>2, <2>0, <3>2 DEF Rows
  <2>2. PICK reason \in Reasons \cup {"none"}, usage \in BOOLEAN :
          /\ row'[s].status = "stopped" /\ row'[s].usage = usage /\ row'[s].reason = reason
          /\ row[s].status = "active" => reason # "none"
          /\ \A x \in Sessions : x # s => row'[x] = row[x]
    <3>0. PICK known \in BOOLEAN :
            row' = IF row[s].status = "gone" THEN row
                   ELSE IF job[s].pc = "saw_ended" THEN [row EXCEPT ![s].usage = known]
                   ELSE [row EXCEPT ![s] = [@ EXCEPT !.usage = known, !.status = "stopped",
                                                    !.endedBy = "worker", !.reason = job[s].outcome]]
      BY DEF WriteRow
    <3>1. CASE job[s].pc = "saw_ended"
      <4>1. row' = [row EXCEPT ![s].usage = known]
        BY <1>2, <3>0, <3>1
      <4>2. row[s].status = "stopped"
        BY <1>2, <3>1 DEF LedgerOK
      <4>3. /\ row'[s].status = "stopped" /\ row'[s].usage = known /\ row'[s].reason = "none"
            /\ \A x \in Sessions : x # s => row'[x] = row[x]
        BY <2>0, <2>1, <4>1, <4>2 DEF Rows
      <4> QED
        BY <4>2, <4>3
    <3>2. CASE job[s].pc # "saw_ended"
      <4>1. row' = [row EXCEPT ![s] = [@ EXCEPT !.usage = known, !.status = "stopped",
                                                !.endedBy = "worker", !.reason = job[s].outcome]]
        BY <1>2, <3>0, <3>2
      <4>2. /\ row'[s].status = "stopped" /\ row'[s].usage = known
            /\ row'[s].reason = job[s].outcome
            /\ \A x \in Sessions : x # s => row'[x] = row[x]
        BY <2>0, <4>1 DEF Rows
      <4>3. job[s].outcome \in Reasons /\ job[s].outcome # "none"
        BY <2>0 DEF Jobs, Reasons
      <4> QED
        BY <4>2, <4>3
    <3> QED
      BY <3>1, <3>2
  <2>3. /\ LedgerEntries[s].state \in {"open", "closed"} /\ ~LedgerEntries[s].usage
        /\ LedgerEntries[s].reason = "none"
        /\ LedgerEntries[s].state = "open" => row[s].status = "active"
    BY <2>1 DEF LedgerEntries, LedgerState
  <2>4. LedgerEntries' =
          [LedgerEntries EXCEPT ![s] = [state |-> "closed", reason |-> reason, usage |-> usage]]
    BY <2>2 DEF LedgerEntries, LedgerState
  <2> QED
    BY <2>2, <2>3, <2>4 DEF Ledger!Next, Ledger!Account
<1> QED
  BY <1>1, <1>2

LEMMA RemovesEntries ==
  ASSUME TypeOK, IdsOK, NEW w \in Workflows, DeleteWorkflow(w)
  PROVE  [Ledger!Next]_LedgerEntries
<1> DEFINE gone == {s \in Sessions : row[s].workflow = w /\ row[s].status \in {"active", "stopped"}}
<1>1. gone \in SUBSET {s \in Sessions : LedgerEntries[s].state \in {"open", "closed"}}
  BY DEF LedgerEntries, LedgerState
<1>2. \A s \in Sessions :
        LedgerEntries'[s] = IF s \in gone THEN [LedgerEntries[s] EXCEPT !.state = "deleted"]
                            ELSE LedgerEntries[s]
  <2>1. ASSUME NEW s \in Sessions, s \in gone
        PROVE  /\ row'[s].status = "gone" /\ row'[s].reason = row[s].reason
               /\ row'[s].usage = row[s].usage
    BY <2>1 DEF DeleteWorkflow, TypeOK, Rows
  <2>2. ASSUME NEW s \in Sessions, s \notin gone
        PROVE  /\ row'[s].status = row[s].status /\ row'[s].reason = row[s].reason
               /\ row'[s].usage = row[s].usage
    BY <2>2, NamesAssumption DEF DeleteWorkflow, TypeOK, Rows, IdsOK, Absent
  <2> QED
    BY <2>1, <2>2 DEF LedgerEntries, LedgerState
<1>3. LedgerEntries' =
        [s \in Sessions |-> IF s \in gone THEN [LedgerEntries[s] EXCEPT !.state = "deleted"]
                            ELSE LedgerEntries[s]]
  BY <1>2 DEF LedgerEntries
<1> QED
  BY <1>1, <1>3 DEF Ledger!Next, Ledger!Remove

(* LedgerImplemented: however the API's handlers and the workers interleave  *)
(* their reads and writes of the table (_end_session, _record_session_end,   *)
(* the cascade), a session is opened once, closed for good, and accounted for*)
(* at most once, and no account is lost or replaced.                         *)
THEOREM LedgerImplemented == Spec => LedgerRefined
<1>1. Init => Ledger!Init
  BY DEF Init, Ledger!Init, LedgerEntries, LedgerState, Absent
<1>2. ASSUME TypeOK, IdsOK, LedgerOK, [Next]_vars
      PROVE  [Ledger!Next]_LedgerEntries
  <2>0. row' = row => LedgerEntries' = LedgerEntries
    BY DEF LedgerEntries
  <2>1. ASSUME NEW r \in Requests, Handle(r)
        PROVE  [Ledger!Next]_LedgerEntries
    <3>1. CASE InsertRow(r)
      BY <1>2, <3>1, OpensEntry
    <3>2. CASE MarkForLaunch(r) \/ MarkForStop(r)
      <4>1. r \in Ending
        BY <3>2 DEF MarkForLaunch, MarkForStop, Ending, EndingPcs, MarkPcs
      <4>2. row' = row \/ (row' = EndedByApi(req[r].target) /\ row[req[r].target].status # "gone")
        BY <3>2 DEF MarkForLaunch, MarkForStop
      <4> QED
        BY <1>2, <2>0, <4>1, <4>2, ClosesEntry
    <3>3. CASE row' = row
      BY <2>0, <3>3
    <3> QED
      BY <2>1, <3>1, <3>2, <3>3
         DEF Handle, BeginLaunch, BeginStop, DeleteRoom, CreateRoom, CreateRoomFails, InsertFails
  <2>2. ASSUME NEW s \in Sessions, Work(s) \/ ReapRoom(s)
        PROVE  [Ledger!Next]_LedgerEntries
    <3>1. CASE WriteRow(s)
      BY <1>2, <3>1, AccountsEntry
    <3>2. CASE row' = row
      BY <2>0, <3>2
    <3> QED
      BY <2>2, <3>1, <3>2
         DEF Work, StartCall, AbandonCall, HitDurationCap, ReadRow, LoseJob, ReapRoom
  <2>3. ASSUME NEW w \in Workflows, DeleteWorkflow(w)
        PROVE  [Ledger!Next]_LedgerEntries
    BY <1>2, <2>3, RemovesEntries
  <2>4. ASSUME (\E t \in Tabs : Page(t)) \/ RestartApi \/ UNCHANGED vars
        PROVE  row' = row
    BY <2>4 DEF Page, Join, CloseTab, ClickLaunch, ClickToolbarStop, LeaveCall, RestartApi, vars
  <2> QED
    BY <1>2, <2>0, <2>1, <2>2, <2>3, <2>4 DEF Next
<1> QED
  BY <1>1, <1>2, TypesHold, IdsHold, LedgerHolds, PTL DEF Spec, LedgerRefined, Ledger!Spec

-----------------------------------------------------------------------------
(* Who ends a call.                                                          *)

(* What a handler is about to end is of the workflow its page shows.         *)
AimsOK ==
  \A r \in Ending : /\ req[r].tab \in Tabs
                    /\ row[req[r].target].workflow = PageOf[req[r].tab]

(* A request that ends a session did so before, or has just looked it up.    *)
KeepsAim(r) ==
  \/ r \in Ending /\ req'[r].target = req[r].target /\ req'[r].tab = req[r].tab
  \/ req'[r].tab \in Tabs /\ req'[r].target \in ActiveOf(PageOf[req'[r].tab])

RowsKeepWorkflow ==
  \A s \in Sessions : row[s].status # "absent" => row'[s].workflow = row[s].workflow

LEMMA AimsFrame ==
  ASSUME IdsOK, AimsOK, RowsKeepWorkflow, \A r \in Ending' : KeepsAim(r)
  PROVE  AimsOK'
<1>1. ASSUME NEW r \in Ending'
      PROVE  req'[r].tab \in Tabs /\ row'[req'[r].target].workflow = PageOf[req'[r].tab]
  <2>1. CASE r \in Ending /\ req'[r].target = req[r].target /\ req'[r].tab = req[r].tab
    BY <2>1 DEF AimsOK, RowsKeepWorkflow, IdsOK
  <2>2. CASE req'[r].tab \in Tabs /\ req'[r].target \in ActiveOf(PageOf[req'[r].tab])
    BY <2>2 DEF RowsKeepWorkflow, ActiveOf, ActiveRows
  <2> QED
    BY <1>1, <2>1, <2>2 DEF KeepsAim
<1> QED
  BY <1>1 DEF AimsOK

(* A step that takes up no new target.                                       *)
LEMMA AimsShrink ==
  ASSUME IdsOK, AimsOK, RowsKeepWorkflow,
         \A r \in Ending' : r \in Ending /\ req'[r].target = req[r].target
                              /\ req'[r].tab = req[r].tab
  PROVE  AimsOK'
  BY AimsFrame DEF KeepsAim

(* A request beyond "free" knows its page.                                   *)
TabsKnown == \A r \in Requests : req[r].pc # "free" => req[r].tab \in Tabs

LEMMA TabsKnownStep == TypeOK /\ TabsKnown /\ [Next]_vars => TabsKnown'
<1> SUFFICES ASSUME TypeOK, TabsKnown, [Next]_vars PROVE TabsKnown'
  OBVIOUS
<1>1. ASSUME NEW t \in Tabs, Page(t) PROVE TabsKnown'
  <2>1. CASE Join(t) \/ CloseTab(t)
    BY <2>1, PageKeepsRequests DEF TabsKnown
  <2>2. ASSUME NEW r \in Requests, ClickLaunch(t, r) \/ ClickToolbarStop(t, r) \/ LeaveCall(t, r)
        PROVE  TabsKnown'
    BY <2>2, PageSends DEF TabsKnown
  <2> QED
    BY <1>1, <2>1, <2>2 DEF Page
<1>2. ASSUME NEW r \in Requests, Handle(r) PROVE TabsKnown'
  <2>1. /\ \A x \in Requests \ {r} : req'[x] = req[x]
        /\ req'[r] = Free \/ req'[r].tab = req[r].tab
        /\ req[r].pc # "free"
    <3>1. CASE RejectLaunch(r) \/ AnswerStop(r)
      BY <1>2, <3>1, AnswersForget
         DEF Handle, BeginLaunch, BeginStop, DeleteRoom, MarkForLaunch, MarkForStop, CreateRoom,
             CreateRoomFails, InsertRow, InsertFails
    <3>2. CASE Admit(r)
      BY <1>2, <3>2
         DEF Admit, Handle, BeginLaunch, BeginStop, DeleteRoom, MarkForLaunch, MarkForStop,
             CreateRoom, CreateRoomFails, InsertRow, InsertFails, TypeOK, RequestStates
    <3>3. CASE InsertRow(r)
      BY <3>3 DEF InsertRow, TypeOK
    <3>4. CASE CreateRoom(r) \/ DeleteRoom(r)
      BY <3>4 DEF CreateRoom, DeleteRoom, TypeOK, RequestStates
    <3>5. ASSUME NEW s, NEW pc, req[r].pc # "free",
                 req' = [req EXCEPT ![r] = [@ EXCEPT !.pc = pc, !.target = s]]
          PROVE  /\ \A x \in Requests \ {r} : req'[x] = req[x]
                 /\ req'[r].tab = req[r].tab /\ req[r].pc # "free"
      BY <3>5 DEF TypeOK, RequestStates
    <3> QED
      BY <1>2, <3>1, <3>2, <3>3, <3>4, <3>5
         DEF Handle, BeginLaunch, BeginStop, EnforceLimits, MarkForLaunch, MarkForStop,
             CreateRoomFails, InsertFails
  <2> QED
    BY <2>1 DEF TabsKnown, Free
<1>3. CASE RestartApi
  BY <1>3 DEF RestartApi, TabsKnown, Free
<1>4. CASE req' = req
  BY <1>4 DEF TabsKnown
<1> QED
  BY <1>1, <1>2, <1>3, <1>4
     DEF Next, Work, StartCall, AbandonCall, HitDurationCap, ReadRow, WriteRow, LoseJob, ReapRoom,
         DeleteWorkflow, vars

(* The rest of _end_session keeps the row's workflow.                        *)
LEMMA EndingKeepsWorkflow ==
  ASSUME TypeOK, IdsOK, NEW r \in Ending, row' = EndedByApi(req[r].target)
  PROVE  RowsKeepWorkflow
<1>1. req[r].target \in Sessions
  BY DEF IdsOK
<1> QED
  BY <1>1 DEF EndedByApi, RowsKeepWorkflow, TypeOK, Rows

LEMMA HandleAims ==
  ASSUME TypeOK, IdsOK, AimsOK, TabsKnown, NEW r \in Requests, Handle(r)
  PROVE  AimsOK'
<1>0. row' = row => RowsKeepWorkflow
  BY DEF RowsKeepWorkflow
<1>1. ASSUME NEW pc \in {"launch_delete", "stop_delete"}, NEW s \in GetActive(PageOf[req[r].tab]),
             req[r].pc # "free", row' = row,
             req' = [req EXCEPT ![r] = [@ EXCEPT !.pc = pc, !.target = s]]
      PROVE  AimsOK'
  <2>1. /\ req'[r].tab = req[r].tab /\ req'[r].target = s
        /\ \A x \in Requests \ {r} : req'[x] = req[x]
    BY <1>1 DEF TypeOK, RequestStates
  <2>2. s \in ActiveOf(PageOf[req[r].tab]) /\ req[r].tab \in Tabs
    BY <1>1 DEF GetActive, TabsKnown
  <2>3. \A x \in Ending' : KeepsAim(x)
    BY <2>1, <2>2 DEF KeepsAim, Ending
  <2> QED
    BY <1>0, <1>1, <2>3, AimsFrame
<1>2. ASSUME RejectLaunch(r) \/ AnswerStop(r), RowsKeepWorkflow PROVE AimsOK'
  BY <1>2, AnswersForget, AimsShrink DEF Ending
<1>3. ASSUME Admit(r), RowsKeepWorkflow PROVE AimsOK'
  <2>1. /\ \A x \in Requests \ {r} : req'[x] = req[x]
        /\ req'[r].pc = "create"
    BY <1>3 DEF Admit, TypeOK, RequestStates
  <2> QED
    BY <1>3, <2>1, AimsShrink DEF Ending, EndingPcs, MarkPcs
<1>4. CASE BeginLaunch(r)
  BY <1>0, <1>1, <1>2, <1>3, <1>4 DEF BeginLaunch, EnforceLimits
<1>5. CASE BeginStop(r)
  BY <1>0, <1>1, <1>2, <1>5 DEF BeginStop
<1>6. CASE DeleteRoom(r)
  <2>1. /\ \A x \in Requests \ {r} : req'[x] = req[x]
        /\ r \in Ending /\ req'[r].target = req[r].target /\ req'[r].tab = req[r].tab
        /\ row' = row
    BY <1>6 DEF DeleteRoom, TypeOK, RequestStates, Ending, EndingPcs
  <2> QED
    BY <1>0, <2>1, AimsShrink DEF Ending
<1>7. CASE MarkForLaunch(r) \/ MarkForStop(r)
  <2>1. r \in Ending
    BY <1>7 DEF MarkForLaunch, MarkForStop, Ending, EndingPcs, MarkPcs
  <2>2. RowsKeepWorkflow
    BY <1>0, <1>7, <2>1, EndingKeepsWorkflow DEF MarkForLaunch, MarkForStop
  <2> QED
    BY <1>2, <1>3, <1>7, <2>2 DEF MarkForLaunch, MarkForStop, EnforceLimits
<1>8. CASE CreateRoom(r)
  <2>1. /\ \A x \in Requests \ {r} : req'[x] = req[x]
        /\ req'[r].pc = "insert" /\ row' = row
    BY <1>8 DEF CreateRoom, TypeOK, RequestStates
  <2> QED
    BY <1>0, <2>1, AimsShrink DEF Ending, EndingPcs, MarkPcs
<1>9. CASE CreateRoomFails(r) \/ InsertFails(r)
  BY <1>0, <1>2, <1>9 DEF CreateRoomFails, InsertFails
<1>10. CASE InsertRow(r)
  <2>1. req[r].new \in Sessions /\ row[req[r].new].status = "absent"
    BY <1>10 DEF InsertRow, IdsOK, Launching
  <2>2. RowsKeepWorkflow
    BY <1>10, <2>1 DEF InsertRow, RowsKeepWorkflow, TypeOK
  <2>3. (\A x \in Requests \ {r} : req'[x] = req[x]) /\ req'[r].pc = "free"
    BY <1>10 DEF InsertRow, TypeOK, Free
  <2> QED
    BY <2>2, <2>3, AimsShrink DEF Ending, EndingPcs, MarkPcs
<1> QED
  BY <1>4, <1>5, <1>6, <1>7, <1>8, <1>9, <1>10 DEF Handle

LEMMA AimsStep == TypeOK /\ IdsOK /\ TabsKnown /\ AimsOK /\ [Next]_vars => AimsOK'
<1> SUFFICES ASSUME TypeOK, IdsOK, TabsKnown, AimsOK, [Next]_vars PROVE AimsOK'
  OBVIOUS
<1>0. row' = row => RowsKeepWorkflow
  BY DEF RowsKeepWorkflow
<1>1. ASSUME NEW t \in Tabs, Page(t) PROVE AimsOK'
  <2>1. row' = row
    BY <1>1 DEF Page, Join, CloseTab, ClickLaunch, ClickToolbarStop, LeaveCall
  <2>2. CASE Join(t) \/ CloseTab(t)
    BY <1>0, <2>1, <2>2, PageKeepsRequests, AimsShrink DEF Ending
  <2>3. ASSUME NEW r \in Requests, ClickLaunch(t, r) \/ ClickToolbarStop(t, r) \/ LeaveCall(t, r)
        PROVE  AimsOK'
    <3>1. \A x \in Ending' : x \in Ending /\ req'[x] = req[x]
      BY <2>3, PageSends DEF Ending, EndingPcs, MarkPcs
    <3> QED
      BY <1>0, <2>1, <3>1, AimsShrink
  <2> QED
    BY <1>1, <2>2, <2>3 DEF Page
<1>2. ASSUME req' = req, RowsKeepWorkflow PROVE AimsOK'
  BY <1>2, AimsShrink DEF Ending
<1>3. ASSUME NEW s \in Sessions, Work(s) \/ ReapRoom(s) PROVE AimsOK'
  <2>1. req' = req
    BY <1>3 DEF Work, StartCall, AbandonCall, HitDurationCap, ReadRow, WriteRow, LoseJob, ReapRoom
  <2>2. CASE WriteRow(s)
    BY <1>2, <2>1, <2>2 DEF WriteRow, RowsKeepWorkflow, TypeOK, Rows
  <2>3. CASE row' = row
    BY <1>0, <1>2, <2>1, <2>3
  <2> QED
    BY <1>3, <2>2, <2>3
       DEF Work, StartCall, AbandonCall, HitDurationCap, ReadRow, LoseJob, ReapRoom
<1>4. ASSUME NEW w \in Workflows, DeleteWorkflow(w) PROVE AimsOK'
  BY <1>2, <1>4 DEF DeleteWorkflow, RowsKeepWorkflow, TypeOK, Rows
<1>5. CASE RestartApi
  BY <1>5 DEF RestartApi, AimsOK, Ending, EndingPcs, MarkPcs, Free
<1>6. CASE UNCHANGED vars
  BY <1>0, <1>2, <1>6 DEF vars
<1> QED
  BY <1>1, <1>3, <1>4, <1>5, <1>6, HandleAims DEF Next

(* A session that is ended is its worker's, or of the workflow whose launch  *)
(* or stop ends it; nobody who has begun aims at one that opens.             *)
THEOREM CallsEndOnPurpose == Spec => CallsEndAsAimed
<1> DEFINE Ends(s) == row[s].status = "active" /\ row'[s].status = "stopped"
           Opens(s) == row[s].status = "absent" /\ row'[s].status = "active"
           Meant(s) ==
             /\ Ends(s) =>
                  \/ job[s].pc = "saw_active"
                  \/ \E r \in Requests : Aims(r, s) /\ PageOf[req[r].tab] = row[s].workflow
             /\ Opens(s) =>
                  /\ job'[s].pc \notin {"saw_active", "saw_ended"}
                  /\ \A r \in Requests : ~Aims(r, s)'
<1>1. Init => AimsOK /\ TabsKnown
  BY DEF Init, AimsOK, TabsKnown, Ending, EndingPcs, MarkPcs, Free
<1>2. ASSUME TypeOK, IdsOK, AimsOK, [Next]_vars, NEW s \in Sessions
      PROVE  Meant(s)
  <2>1. ASSUME NEW r \in Requests, Handle(r) PROVE Meant(s)
    <3>1. CASE row' = row
      BY <3>1
    <3>2. CASE (MarkForLaunch(r) \/ MarkForStop(r)) /\ row' = EndedByApi(req[r].target)
      <4>1. r \in Ending
        BY <3>2 DEF MarkForLaunch, MarkForStop, Ending, EndingPcs, MarkPcs
      <4>2. req[r].target \in Sessions /\ \A x \in Sessions : x # req[r].target => row'[x] = row[x]
        BY <1>2, <3>2, <4>1 DEF EndedByApi, IdsOK, TypeOK
      <4>3. row'[req[r].target].status = "stopped"
        BY <1>2, <3>2, <4>2 DEF EndedByApi, TypeOK, Rows
      <4>4. CASE s = req[r].target
        BY <1>2, <4>1, <4>3, <4>4 DEF AimsOK, Aims, Ending, EndingPcs, MarkPcs
      <4> QED
        BY <4>2, <4>4
    <3>3. CASE InsertRow(r)
      <4>1. /\ r \in Launching /\ r \notin Ending /\ req[r].new \in Sessions
            /\ row[req[r].new].status = "absent"
        BY <1>2, <3>3 DEF InsertRow, IdsOK, Launching, Ending, EndingPcs, MarkPcs
      <4>2. /\ \A x \in Sessions : x # req[r].new => row'[x] = row[x]
            /\ \A x \in Requests \ {r} : req'[x] = req[x]
            /\ req'[r].pc = "free" /\ job' = job
        BY <1>2, <3>3, <4>1 DEF InsertRow, TypeOK, Free
      <4>3. CASE s = req[r].new
        <5>1. \A x \in Ending : req[x].target # s
          BY <1>2, <4>1, <4>3 DEF IdsOK
        <5>2. job[s].pc \notin SawPcs
          BY <1>2, <4>1, <4>3 DEF IdsOK
        <5>3. ASSUME NEW x \in Requests PROVE ~Aims(x, s)'
          BY <4>2, <5>1 DEF Aims, Ending, EndingPcs, MarkPcs
        <5> QED
          BY <4>1, <4>2, <4>3, <5>2, <5>3 DEF SawPcs
      <4> QED
        BY <4>2, <4>3
    <3> QED
      BY <2>1, <3>1, <3>2, <3>3
         DEF Handle, BeginLaunch, BeginStop, DeleteRoom, MarkForLaunch, MarkForStop, CreateRoom,
             CreateRoomFails, InsertFails
  <2>2. ASSUME NEW x \in Sessions, WriteRow(x) PROVE Meant(s)
    BY <1>2, <2>2 DEF WriteRow, TypeOK, Rows, IdsOK, SawPcs
  <2>3. ASSUME NEW w \in Workflows, DeleteWorkflow(w) PROVE Meant(s)
    BY <1>2, <2>3 DEF DeleteWorkflow, TypeOK, Rows
  <2>4. CASE row' = row
    BY <2>4
  <2> QED
    BY <1>2, <2>1, <2>2, <2>3, <2>4
       DEF Next, Page, Join, CloseTab, ClickLaunch, ClickToolbarStop, LeaveCall, Work, StartCall,
           AbandonCall, HitDurationCap, ReadRow, LoseJob, ReapRoom, RestartApi, vars
<1>3. TypeOK /\ IdsOK /\ AimsOK /\ [Next]_vars => [\A s \in Sessions : Meant(s)]_vars
  BY <1>2
<1> QED
  BY <1>1, <1>3, TabsKnownStep, AimsStep, TypesHold, IdsHold, PTL DEF Spec, CallsEndAsAimed

=============================================================================
