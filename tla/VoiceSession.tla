---------------------------- MODULE VoiceSession -----------------------------
(***************************************************************************)
(* The life of a voice call.  Four parties act on it:                      *)
(*   - the browser page (workflowBuilderPage, VoiceSessionPanel);          *)
(*   - the API process, whose launch and stop handlers are coroutines: they*)
(*     run to their next await in one step, and other handlers run while   *)
(*     they wait for LiveKit;                                              *)
(*   - LiveKit (external): rooms, and the reaping of rooms nobody is in;   *)
(*   - the worker job of the room, a process of its own, which closes the  *)
(*     session's row on its way out.                                       *)
(* The WorkflowSession table is what API and worker share.  Postgres runs  *)
(* each statement on committed data (READ COMMITTED), no row is locked and *)
(* no constraint ties active rows to workflows.                            *)
(***************************************************************************)
EXTENDS Naturals, FiniteSets

CONSTANTS
  Workflows,
  Tabs,           \* browser pages of the workflow builder
  PageOf,         \* the workflow a page shows
  Requests,       \* slots for requests in flight: bounds the concurrency
  None,           \* no workflow, no page
  MaxConcurrent,  \* MAX_CONCURRENT_SESSIONS
  MaxSessions,    \* bound on the session ids of a run
  Faults          \* what may go wrong in a run, see FaultKinds

FaultKinds ==
  { "delete_lost",     \* LiveKit's delete_room raises and the room stays
    "create_lost",     \* create_room raises although the room was created
    "api_db",          \* the API's commit fails
    "api_restart",     \* the API process restarts
    "workflow_delete", \* the workflow is deleted, its sessions cascade
    "worker_db",       \* the worker cannot reach the database at the end
    "usage_lost",      \* the worker cannot summarise the call's usage
    "worker_crash" }   \* the job's process dies without its callbacks

ASSUME NamesAssumption ==
  /\ None \notin Workflows \cup Tabs
  /\ PageOf \in [Tabs -> Workflows]
  /\ IsFiniteSet(Requests)
  /\ Faults \subseteq FaultKinds

ASSUME LimitsAssumption ==
  /\ MaxConcurrent \in Nat \ {0}
  /\ MaxSessions \in Nat

VARIABLES
  alive,    \* the workflows that exist
  row,      \* the workflow_session table
  room,     \* LiveKit's rooms, one per session id
  job,      \* the worker jobs, one per room
  issued,   \* how many session ids have been drawn
  req,      \* the requests in flight and where their handler stands
  tab       \* the pages

vars == <<alive, row, room, job, issued, req, tab>>

Sessions == 1..MaxSessions

NoSession == 0

Reasons == {"completed", "error", "duration_cap"}

\* startedAt orders the rows by insertion; endedBy is the writer of ended_at.
Rows == [status : {"absent", "active", "stopped", "gone"},
         workflow : Workflows \cup {None},
         startedAt : Nat,
         endedBy : {"nobody", "api", "worker"},
         reason : Reasons \cup {"none"},
         usage : BOOLEAN]

Absent == [status |-> "absent", workflow |-> None, startedAt |-> 0,
           endedBy |-> "nobody", reason |-> "none", usage |-> FALSE]

\* The job waits for its caller, runs the call (or sits in a room whose agent
\* failed to start, or has hit the cap), reads the row, writes it, is over.
Jobs == [pc : {"none", "waiting", "running", "failed", "capped",
               "saw_active", "saw_ended", "over"},
         outcome : Reasons]

NoJob == [pc |-> "none", outcome |-> "completed"]
Over  == [pc |-> "over", outcome |-> "completed"]

\* A request's handler: sent but not begun, before delete_room, between
\* delete_room and the update of the row, before create_room, before insert.
StopPcs   == {"stop", "stop_delete", "stop_mark"}
LaunchPcs == {"launch", "launch_delete", "launch_mark", "create", "insert"}

RequestStates == [pc : {"free"} \cup StopPcs \cup LaunchPcs,
                  tab : Tabs \cup {None},
                  lost : BOOLEAN,
                  target : Sessions \cup {NoSession},
                  new : Sessions \cup {NoSession}]

Free == [pc |-> "free", tab |-> None, lost |-> FALSE,
         target |-> NoSession, new |-> NoSession]

\* "left": the panel is still shown but has disconnected and called onStop.
Pages == [phase : {"idle", "connecting", "connected", "left"},
          session : Sessions \cup {NoSession}]

Idle == [phase |-> "idle", session |-> NoSession]

Init ==
  /\ alive = Workflows
  /\ row = [s \in Sessions |-> Absent]
  /\ room = [s \in Sessions |-> "none"]
  /\ job = [s \in Sessions |-> NoJob]
  /\ issued = 0
  /\ req = [r \in Requests |-> Free]
  /\ tab = [t \in Tabs |-> Idle]

-----------------------------------------------------------------------------
(* SessionRepository.                                                       *)

ActiveRows == {s \in Sessions : row[s].status = "active"}

ActiveOf(w) == {s \in ActiveRows : row[s].workflow = w}

\* get_active: the newest active row of the workflow, if there is one.
GetActive(w) ==
  {s \in ActiveOf(w) : \A x \in ActiveOf(w) : row[x].startedAt <= row[s].startedAt}

\* started_at of the next row.
NextStart == Cardinality({s \in Sessions : row[s].status # "absent"}) + 1

\* Slip: the whole row is written back as it was when get_active loaded it.
EndedByApiOverwrites(s) ==
  [row EXCEPT ![s] = [@ EXCEPT !.status = "stopped", !.endedBy = "api",
                               !.reason = "none", !.usage = FALSE]]

\* The UPDATE of _end_session: the columns it changed since it read the row.
EndedByApi(s) ==
  [row EXCEPT ![s] = [@ EXCEPT !.status = "stopped", !.endedBy = "api"]]

-----------------------------------------------------------------------------
(* Requests between the page and the API.                                   *)

Send(r, t, kind) ==
  /\ req[r].pc = "free"
  /\ req' = [req EXCEPT ![r] = [Free EXCEPT !.pc = kind, !.tab = t]]

\* The response to a launch that failed: the page only logs it.
RejectLaunch(r) == req' = [req EXCEPT ![r] = Free] /\ UNCHANGED tab

\* The response to a stop, or its failure: handleStop clears the page either
\* way, whatever session the page shows by now.
AnswerStop(r) ==
  /\ req' = [req EXCEPT ![r] = Free]
  /\ tab' = IF req[r].lost THEN tab ELSE [tab EXCEPT ![req[r].tab] = Idle]

-----------------------------------------------------------------------------
(* The page.                                                                *)

\* The Launch button; nothing disables it while a launch is in flight.
ClickLaunch(t, r) ==
  /\ tab[t].phase = "idle"
  /\ Send(r, t, "launch")
  /\ UNCHANGED <<alive, row, room, job, issued, tab>>

\* The toolbar's Stop button calls the page's handleStop directly: the panel
\* stays mounted, and connected, until the response arrives.
ClickToolbarStop(t, r) ==
  /\ tab[t].phase # "idle"
  /\ Send(r, t, "stop")
  /\ UNCHANGED <<alive, row, room, job, issued, tab>>

\* The panel's own Stop button, or the room's Disconnected event (the room was
\* closed or the network dropped): both go through the panel's guard.
LeaveCall(t, r) ==
  /\ tab[t].phase \in {"connecting", "connected"}
  /\ Send(r, t, "stop")
  /\ tab' = [tab EXCEPT ![t].phase = "left"]
  /\ UNCHANGED <<alive, row, room, job, issued>>

\* room.connect with the session's token.
Join(t) ==
  /\ tab[t].phase = "connecting"
  /\ room[tab[t].session] = "open"
  /\ tab' = [tab EXCEPT ![t].phase = "connected"]
  /\ UNCHANGED <<alive, row, room, job, issued, req>>

\* The page is closed or reloaded.  The request its unload handler sends
\* carries no token and is refused before the stop handler runs, and nobody
\* reads the answers still on their way.
CloseTab(t) ==
  /\ tab' = [tab EXCEPT ![t] = Idle]
  /\ req' = [r \in Requests |->
               IF req[r].tab = t THEN [req[r] EXCEPT !.lost = TRUE] ELSE req[r]]
  /\ UNCHANGED <<alive, row, room, job, issued>>

CallerIn(s) == \E t \in Tabs : tab[t] = [phase |-> "connected", session |-> s]

-----------------------------------------------------------------------------
(* SessionService.launch and stop.                                          *)

\* Slip: the cap compared with <= instead of <.
BelowCapOffByOne(rows) ==
  Cardinality({s \in Sessions : rows[s].status = "active"}) <= MaxConcurrent

\* _enforce_launch_limits on the table rows.  The allowance per address is
\* RateLimiter's ServeLaunch; here it may refuse any launch.
BelowCap(rows) ==
  Cardinality({s \in Sessions : rows[s].status = "active"}) < MaxConcurrent

\* The limits let the launch through: it draws its session id.
Admit(r) ==
  /\ issued < MaxSessions
  /\ issued' = issued + 1
  /\ req' = [req EXCEPT ![r] = [@ EXCEPT !.pc = "create", !.new = issued + 1,
                                         !.target = NoSession]]
  /\ UNCHANGED tab

EnforceLimits(r, rows) ==
  \/ BelowCap(rows) /\ Admit(r)
  \/ RejectLaunch(r) /\ UNCHANGED issued

\* Slip: launch does not look for a session to end first.
BeginLaunchKeepsStale(r) ==
  /\ req[r].pc = "launch"
  /\ EnforceLimits(r, row)
  /\ UNCHANGED <<alive, row, room, job>>

\* Up to the first await: delete_room of the stale session, or create_room.
BeginLaunch(r) ==
  /\ req[r].pc = "launch"
  /\ IF GetActive(PageOf[req[r].tab]) = {}
       THEN EnforceLimits(r, row)
       ELSE /\ \E s \in GetActive(PageOf[req[r].tab]) :
                 req' = [req EXCEPT ![r] = [@ EXCEPT !.pc = "launch_delete", !.target = s]]
            /\ UNCHANGED <<issued, tab>>
  /\ UNCHANGED <<alive, row, room, job>>

BeginStop(r) ==
  /\ req[r].pc = "stop"
  /\ IF GetActive(PageOf[req[r].tab]) = {}
       THEN AnswerStop(r)
       ELSE /\ \E s \in GetActive(PageOf[req[r].tab]) :
                 req' = [req EXCEPT ![r] = [@ EXCEPT !.pc = "stop_delete", !.target = s]]
            /\ UNCHANGED tab
  /\ UNCHANGED <<alive, row, room, job, issued>>

Close(s) == room' = [room EXCEPT ![s] = "closed"]

\* Slip: the session is ended without deleting its room.
SkipDeleteRoom(r) ==
  /\ \/ /\ req[r].pc = "launch_delete"
        /\ req' = [req EXCEPT ![r].pc = "launch_mark"]
     \/ /\ req[r].pc = "stop_delete"
        /\ req' = [req EXCEPT ![r].pc = "stop_mark"]
  /\ UNCHANGED <<alive, row, room, job, issued, tab>>

\* delete_room of _end_session; a failure is logged and otherwise ignored.
DeleteRoom(r) ==
  /\ \/ /\ req[r].pc = "launch_delete"
        /\ req' = [req EXCEPT ![r].pc = "launch_mark"]
     \/ /\ req[r].pc = "stop_delete"
        /\ req' = [req EXCEPT ![r].pc = "stop_mark"]
  /\ \/ Close(req[r].target)
     \/ "delete_lost" \in Faults /\ UNCHANGED room
  /\ UNCHANGED <<alive, row, job, issued, tab>>

\* The rest of _end_session, and of launch up to create_room.  An UPDATE of a
\* row that is gone matches nothing, which the ORM reports as an error.
MarkForLaunch(r) ==
  /\ req[r].pc = "launch_mark"
  /\ LET s == req[r].target IN
     \/ /\ row[s].status # "gone"
        /\ row' = EndedByApi(s)
        /\ EnforceLimits(r, EndedByApi(s))
     \/ /\ row[s].status = "gone" \/ "api_db" \in Faults
        /\ RejectLaunch(r)
        /\ UNCHANGED <<row, issued>>
  /\ UNCHANGED <<alive, room, job>>

\* Slip: the session is looked up again after delete_room.
MarkForStopLooksAgain(r) ==
  /\ req[r].pc = "stop_mark"
  /\ \/ \E s \in GetActive(PageOf[req[r].tab]) : row' = EndedByApi(s)
     \/ (GetActive(PageOf[req[r].tab]) = {} \/ "api_db" \in Faults) /\ UNCHANGED row
  /\ AnswerStop(r)
  /\ UNCHANGED <<alive, room, job, issued>>

MarkForStop(r) ==
  /\ req[r].pc = "stop_mark"
  /\ LET s == req[r].target IN
     \/ row[s].status # "gone" /\ row' = EndedByApi(s)
     \/ (row[s].status = "gone" \/ "api_db" \in Faults) /\ UNCHANGED row
  /\ AnswerStop(r)
  /\ UNCHANGED <<alive, room, job, issued>>

\* LiveKit creates the room and dispatches a job to it.
OpenRoom(s) ==
  /\ room' = [room EXCEPT ![s] = "open"]
  /\ job' = [job EXCEPT ![s].pc = "waiting"]

CreateRoom(r) ==
  /\ req[r].pc = "create"
  /\ OpenRoom(req[r].new)
  /\ req' = [req EXCEPT ![r].pc = "insert"]
  /\ UNCHANGED <<alive, row, issued, tab>>

CreateRoomFails(r) ==
  /\ req[r].pc = "create"
  /\ \/ UNCHANGED <<room, job>>
     \/ "create_lost" \in Faults /\ OpenRoom(req[r].new)
  /\ RejectLaunch(r)
  /\ UNCHANGED <<alive, row, issued>>

\* The token is minted, the row inserted, the page answered.  The foreign key
\* refuses a row for a workflow that is gone.
InsertRow(r) ==
  LET s == req[r].new
      w == PageOf[req[r].tab] IN
  /\ req[r].pc = "insert"
  /\ w \in alive
  /\ row' = [row EXCEPT ![s] = [Absent EXCEPT !.status = "active", !.workflow = w,
                                              !.startedAt = NextStart]]
  /\ req' = [req EXCEPT ![r] = Free]
  /\ tab' = IF req[r].lost THEN tab
            ELSE [tab EXCEPT ![req[r].tab] = [phase |-> "connecting", session |-> s]]
  /\ UNCHANGED <<alive, room, job, issued>>

InsertFails(r) ==
  /\ req[r].pc = "insert"
  /\ PageOf[req[r].tab] \notin alive \/ "api_db" \in Faults
  /\ RejectLaunch(r)
  /\ UNCHANGED <<alive, row, room, job, issued>>

\* The process restarts: handlers in flight are gone, and a page waiting
\* for a stop sees it fail.
RestartApi ==
  /\ "api_restart" \in Faults
  /\ req' = [r \in Requests |-> Free]
  /\ tab' = [t \in Tabs |->
               IF \E r \in Requests : req[r].tab = t /\ ~req[r].lost /\ req[r].pc \in StopPcs
               THEN Idle ELSE tab[t]]
  /\ UNCHANGED <<alive, row, room, job, issued>>

\* DELETE /workflows/{id}: the sessions go with it; rooms are not touched.
DeleteWorkflow(w) ==
  /\ "workflow_delete" \in Faults
  /\ w \in alive
  /\ alive' = alive \ {w}
  /\ row' = [s \in Sessions |->
               IF row[s].workflow = w THEN [row[s] EXCEPT !.status = "gone"] ELSE row[s]]
  /\ UNCHANGED <<room, job, issued, req, tab>>

-----------------------------------------------------------------------------
(* LiveKit and the worker.                                                  *)

\* empty_timeout and departure_timeout.
ReapRoom(s) ==
  /\ room[s] = "open"
  /\ ~CallerIn(s)
  /\ Close(s)
  /\ UNCHANGED <<alive, row, job, issued, req, tab>>

\* entrypoint up to the running session: the shutdown callback is registered
\* only once the caller is there.  A session that fails to start returns, and
\* leaves the job in the room without a cap.
StartCall(s) ==
  /\ job[s].pc = "waiting"
  /\ room[s] = "open"
  /\ CallerIn(s)
  /\ \/ job' = [job EXCEPT ![s].pc = "running"]
     \/ job' = [job EXCEPT ![s] = [pc |-> "failed", outcome |-> "error"]]
  /\ UNCHANGED <<alive, row, room, issued, req, tab>>

\* The room went away before anybody came: no callback to run.
AbandonCall(s) ==
  /\ job[s].pc = "waiting"
  /\ room[s] = "closed"
  /\ job' = [job EXCEPT ![s] = Over]
  /\ UNCHANGED <<alive, row, room, issued, req, tab>>

\* Slip: at the cap the worker closes its session but leaves the room.
HitDurationCapKeepsRoom(s) ==
  /\ job[s].pc = "running"
  /\ room[s] = "open"
  /\ job' = [job EXCEPT ![s] = [pc |-> "capped", outcome |-> "duration_cap"]]
  /\ UNCHANGED <<alive, row, room, issued, req, tab>>

\* Slip: the outcome is left without a reason.
HitDurationCapGivesNoReason(s) ==
  /\ job[s].pc = "running"
  /\ room[s] = "open"
  /\ job' = [job EXCEPT ![s] = [pc |-> "capped", outcome |-> "none"]]
  /\ Close(s) \/ ("delete_lost" \in Faults /\ UNCHANGED room)
  /\ UNCHANGED <<alive, row, issued, req, tab>>

\* MAX_SESSION_SECONDS have passed: the worker deletes the room itself.
HitDurationCap(s) ==
  /\ job[s].pc = "running"
  /\ room[s] = "open"
  /\ job' = [job EXCEPT ![s] = [pc |-> "capped", outcome |-> "duration_cap"]]
  /\ Close(s) \/ ("delete_lost" \in Faults /\ UNCHANGED room)
  /\ UNCHANGED <<alive, row, issued, req, tab>>

\* The job shuts down because its room closed or its caller left, and
\* _record_session_end reads the row.
ReadRow(s) ==
  /\ job[s].pc \in {"running", "failed", "capped"}
  /\ room[s] = "closed" \/ ~CallerIn(s)
  /\ job' = [job EXCEPT ![s] = IF row[s].status = "active" THEN [@ EXCEPT !.pc = "saw_active"]
                               ELSE IF row[s].status = "stopped" THEN [@ EXCEPT !.pc = "saw_ended"]
                               ELSE Over]
  /\ UNCHANGED <<alive, row, room, issued, req, tab>>

\* ... and writes the columns it changed, on whatever the row is by then; usage
\* that cannot be summarised is left out.
WriteRow(s) ==
  /\ job[s].pc \in {"saw_active", "saw_ended"}
  /\ \E known \in BOOLEAN :
       /\ known \/ "usage_lost" \in Faults
       /\ row' = IF row[s].status = "gone" THEN row
                 ELSE IF job[s].pc = "saw_ended" THEN [row EXCEPT ![s].usage = known]
                 ELSE [row EXCEPT ![s] = [@ EXCEPT !.usage = known, !.status = "stopped",
                                                  !.endedBy = "worker", !.reason = job[s].outcome]]
  /\ job' = [job EXCEPT ![s] = Over]
  /\ UNCHANGED <<alive, room, issued, req, tab>>

\* The bookkeeping fails, or the process dies: the row stays as it is.
LoseJob(s) ==
  /\ \/ /\ "worker_crash" \in Faults
        /\ job[s].pc \notin {"none", "over"}
     \/ /\ "worker_db" \in Faults
        /\ job[s].pc \in {"saw_active", "saw_ended"}
  /\ job' = [job EXCEPT ![s] = Over]
  /\ UNCHANGED <<alive, row, room, issued, req, tab>>

-----------------------------------------------------------------------------

Page(t) == Join(t) \/ CloseTab(t)
           \/ \E r \in Requests : ClickLaunch(t, r) \/ ClickToolbarStop(t, r) \/ LeaveCall(t, r)

Handle(r) == BeginLaunch(r) \/ BeginStop(r) \/ DeleteRoom(r) \/ MarkForLaunch(r)
             \/ MarkForStop(r) \/ CreateRoom(r) \/ CreateRoomFails(r)
             \/ InsertRow(r) \/ InsertFails(r)

Work(s) == StartCall(s) \/ AbandonCall(s) \/ HitDurationCap(s)
           \/ ReadRow(s) \/ WriteRow(s) \/ LoseJob(s)

Next ==
  \/ \E t \in Tabs : Page(t)
  \/ \E r \in Requests : Handle(r)
  \/ \E s \in Sessions : Work(s) \/ ReapRoom(s)
  \/ \E w \in Workflows : DeleteWorkflow(w)
  \/ RestartApi

Spec == Init /\ [][Next]_vars

(* Fairness, for the liveness properties: a handler that waits gets its      *)
(* answer, LiveKit reaps, a job that can go on does.  Pages owe nothing.     *)
Fairness ==
  /\ \A r \in Requests : WF_vars(Handle(r))
  /\ \A s \in Sessions : /\ WF_vars(ReapRoom(s)) /\ WF_vars(AbandonCall(s))
                         /\ WF_vars(HitDurationCap(s))
                         /\ WF_vars(ReadRow(s)) /\ WF_vars(WriteRow(s))

FairSpec == Spec /\ Fairness

-----------------------------------------------------------------------------

TypeOK ==
  /\ alive \subseteq Workflows
  /\ row \in [Sessions -> Rows]
  /\ room \in [Sessions -> {"none", "open", "closed"}]
  /\ job \in [Sessions -> Jobs]
  /\ issued \in 0..MaxSessions
  /\ req \in [Requests -> RequestStates]
  /\ tab \in [Tabs -> Pages]

\* Launches that have passed the limits and have no row yet.
Launching == {r \in Requests : req[r].pc \in {"create", "insert"}}

(* CapOvershootBounded: the concurrency cap is checked when a launch passes  *)
(* the limits and takes effect when its row is committed, so launches may    *)
(* overtake each other; what the check still guarantees is that the rows and *)
(* the launches on their way never exceed the cap by more than the other     *)
(* requests in flight (count_active, _enforce_launch_limits).                *)
CapOvershootBounded ==
  Cardinality(ActiveRows) + Cardinality(Launching)
    <= MaxConcurrent - 1 + Cardinality(Requests)

\* A room an agent is in, or is about to be.
Live(s) == room[s] = "open" /\ job[s].pc \notin {"none", "over"}

\* What makes a room outlive its row: the failures the code logs or ignores.
RoomLosing == {"delete_lost", "create_lost", "api_db", "api_restart", "workflow_delete"}

(* NoInvisibleCall: as long as none of those failures happens, a room that   *)
(* can cost money is backed by an active row, which counts against the cap   *)
(* and which stop finds, or by a launch about to insert it -- whatever pages,*)
(* handlers and workers interleave (the room is deleted before its row is    *)
(* ended, and created just before it is inserted).                           *)
NoInvisibleCall ==
  Faults \cap RoomLosing = {} =>
    \A s \in Sessions : Live(s) =>
      \/ row[s].status = "active"
      \/ \E r \in Requests : req[r].pc = "insert" /\ req[r].new = s

(* SerialLaunchesReplace: when requests do not overlap, launching ends the   *)
(* workflow's previous session before it starts another, so a workflow never *)
(* has two active rows, even across restarts, failed commits and workers     *)
(* that end late (launch).                                                   *)
SerialLaunchesReplace ==
  Cardinality(Requests) = 1 => \A w \in Workflows : Cardinality(ActiveOf(w)) <= 1

(* CallsEndAsAimed: a launch and a stop name a workflow, look up a session   *)
(* and end it two awaits later, and the worker ends what it has read in      *)
(* another transaction.  Whatever was launched, stopped, deleted or restarted*)
(* in between, what is ended is a session of the request's own workflow, or  *)
(* the worker's own; and nobody who has begun aims at a session that opens,  *)
(* so a stop that is late to finish does not end the next call (launch,      *)
(* stop, _end_session, _record_session_end).                                 *)
Aims(r, s) ==
  req[r].pc \in {"launch_delete", "stop_delete", "launch_mark", "stop_mark"}
    /\ req[r].target = s

CallsEndAsAimed ==
  [][\A s \in Sessions :
       /\ row[s].status = "active" /\ row'[s].status = "stopped" =>
            \/ job[s].pc = "saw_active"
            \/ \E r \in Requests : Aims(r, s) /\ PageOf[req[r].tab] = row[s].workflow
       /\ row[s].status = "absent" /\ row'[s].status = "active" =>
            /\ job'[s].pc \notin {"saw_active", "saw_ended"}
            /\ \A r \in Requests : ~Aims(r, s)']_vars

(* LedgerRefined: the table as two processes write it implements the ledger: *)
(* an ended row is never active again, usage once stored is never lost or    *)
(* replaced, nor is a reason, and a row whose reason was given without usage *)
(* gets none later, however the API's and the worker's writes overlap        *)
(* (_end_session, _record_session_end, the cascade of a workflow's deletion).*)
LedgerState(status) == IF status = "absent" THEN "none"
                       ELSE IF status = "active" THEN "open"
                       ELSE IF status = "stopped" THEN "closed" ELSE "deleted"

LedgerEntries ==
  [s \in Sessions |-> [state |-> LedgerState(row[s].status),
                       reason |-> row[s].reason, usage |-> row[s].usage]]

Ledger == INSTANCE SessionLedger WITH NoReason <- "none", entry <- LedgerEntries

LedgerRefined == Ledger!Spec

(* CallsAreRecorded: a call that got going is closed and its usage stored,   *)
(* whether the caller stays to the cap, leaves, or is stopped, and however   *)
(* the page misbehaves -- given a database and a worker that survive.        *)
CallsAreRecorded ==
  \A s \in Sessions :
    job[s].pc = "running" ~> row[s].status = "stopped" /\ row[s].usage

-----------------------------------------------------------------------------
(* What comments of the repository say, and the code does not do.            *)

(* OneActiveRow: "Without this, launching twice ... leaves two "active" rows *)
(* for the same workflow" (launch).                                          *)
OneActiveRow == \A w \in Workflows : Cardinality(ActiveOf(w)) <= 1

(* CapRespected: MAX_CONCURRENT_SESSIONS is "the only thing bounding" the    *)
(* simultaneous sessions (_enforce_launch_limits).                           *)
CapRespected == Cardinality(ActiveRows) <= MaxConcurrent

(* WorkerKeepsTimestamp: "/stop may have closed the row already; keep its    *)
(* reason and timestamp" (_record_session_end).                              *)
WorkerKeepsTimestamp ==
  [][\A s \in Sessions : row[s].endedBy = "api" => row'[s].endedBy = "api"]_vars

(* RowsDoNotLeak: the shutdown callback "is what stops sessions leaking as   *)
(* permanently active rows" (entrypoint): once the room is gone the row does *)
(* not stay active for ever.                                                 *)
RowsDoNotLeak ==
  \A s \in Sessions :
    (row[s].status = "active" /\ room[s] = "closed") ~> row[s].status # "active"

=============================================================================
