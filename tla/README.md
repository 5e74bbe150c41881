# Verification of the voice-agent workflow platform

TLA+ models, TLC runs and TLAPS proofs about the program in `src/`: a FastAPI
server (`AgentServer/app`), voice workers (`AgentServer/agents`), Postgres,
LiveKit, and a React front end (`AgentUi/agent@ui`). Users draw workflows of
agents and tools in a builder, launch a voice call for one, and talk to it in the
browser.

## 1. Inventory

### 1.1 Components

| component | source | state | operations |
|---|---|---|---|
| Voice session API | `app/application/services/session_service.py`, `session_repository.py`, `api/routers/workflows.py` | table `workflow_session` (status, started/ended, reason, usage), `_launch_history` | `launch`, `stop`, `get_status`, `_end_session`, `_enforce_launch_limits` |
| Voice worker | `agents/workers/entrypoint.py` | one job process per room, `SessionOutcome` | `entrypoint`, `_enforce_duration_cap`, `_record_session_end` |
| LiveKit (external) | used by the two above | rooms, participants, dispatched jobs | create/delete room, reaping of empty rooms, job dispatch, shutdown callbacks |
| Voice session page | `VoiceSessionPanel.jsx`, `workflowBuilderPage.jsx`, `WorkflowToolbar.jsx` | `sessionState`, the connected room, the `endedRef` guard | launch, toolbar stop, panel stop, `Disconnected`, page close |
| Request budgets | `core/rate_limiter.py`, `api/middleware.py`, `_enforce_launch_limits` | key -> list of instants | `is_allowed`, the global, login and launch windows |
| Accounts | `auth_service.py`, `api/routers/auth.py`, `api/dependencies/auth.py` | tenants, users, `failed_login_attempts`, `locked_until`, `token_version` | login, register, logout, `get_current_user` |
| Workflow graph | the six repositories, their services, `agent_facade.py`, `tool_facade.py`, `workflow_facade.py` | workflows, agents, tools, edges, positions, node configs | create, update, delete of each; the facades' transactions |
| Demo clone | `workflow_clone_service.py`, `scripts/backfill_demo_workflows.py` | the same tables | copy a workflow into another tenant |
| Builder page | `hooks/workflow/useWorkflowBuilder.js` | React Flow nodes and edges, query cache, save timers | optimistic inserts, debounced position saves, roll-back |
| Agent runtime | `agents/runtime/*.py` | the loaded hand-off graph of one call, demo action state | load, build agents and tools, hand off, HTTP tool |
| Support | audit log, roles, feature flags, versioning, pagination, logging, migrations, deployment, presentation | - | no caller in the running program, no state of interest, or run once by hand |

### 1.2 How they interact

```
 page --HTTP--> API (launch/stop coroutines) --RPC--> LiveKit --dispatch--> worker job
   \--- joins the room (token from launch) ----------/                        |
                     API ----- workflow_session table (Postgres) ------- worker
```

The API and the worker share nothing but the `workflow_session` table and the
room. Requests reach the launch handler through three budgets that are kept in
memory by the API process. Every request but login and registration passes
`get_current_user`, which compares the token's version with the user's row.

### 1.3 What is hard

* `launch` and `stop` are coroutines. Each runs to its next `await` in one step,
  and holds, across `delete_room` and `create_room`, a row it has read before and
  a cap it has checked before. No lock, no constraint, READ COMMITTED.
* The worker reads the row in one statement and writes it in another, in another
  process; the API may commit in between. The ORM writes only changed columns.
* `delete_room` failures are logged and ignored; `create_room` can fail after it
  worked; commits fail; the API restarts; jobs die without their callbacks;
  workflows are deleted under a running call.
* The page sends stops that name a workflow, not a session, and clears its state on
  any answer.
* The budgets compare their boundaries differently, and one request is charged to
  several.
* Account counters are read, incremented and written by concurrent threads; a
  registration is two transactions.
* The builder shows what it hopes the server will say, and its saves may be
  answered in any order.

### 1.4 What makes each component correct

| component | properties | status |
|---|---|---|
| Voice session | no room that costs money without a row; the cap holds up to overlap; a launch replaces; a request ends only the call it found; the table is a faithful ledger; calls end and are recorded | checked and, but for the last, proved |
| Request budgets | no window exceeds its limit; a request is refused exactly when its window is full, so refusals extend no block; nothing but admissions is remembered | checked and proved |
| Accounts | a lock follows the threshold and never comes early; a revoked token stays revoked; a session ends for a reason; sign-in and sign-out look atomic | checked and proved; what is said of tokens sets aside users whose sign-outs cross |
| Workflow graph | no dangling reference, names differ, what is deleted stays deleted, a deletion fails only for a late change; overlapping requests look like atomic ones | checked and proved |
| Demo clone | a copy is whole, made once, equal to a source nobody edited meanwhile, and fails only for an edit | checked and proved |
| Builder page | after quiescence the page shows what the server stores; what was dragged is stored; what waits for a timer is stored | checked and, but for the last, proved |
| Agent runtime | the loaded graph is what was stored; every argument of a tool call is sent where it is declared | checked and proved |

The hazards, line by line, are in `PROJECT.json`.

## 2. Modules

| module | what it is | run by |
|---|---|---|
| `VoiceSession` | page, API, LiveKit and worker around the life of a call | `MCVoiceSession` |
| `SessionLedger` | abstract: what the `workflow_session` table promises | refined by `VoiceSession` |
| `RateLimiter` | the three request budgets | `MCRateLimiter` |
| `WorkflowGraph` | the stored graph and the routes that change it | `MCWorkflowGraph` |
| `GraphStore` | abstract: the stored graph when every request is one atomic step | refined by `WorkflowGraph` |
| `AgentCall` | on top of it: how a call loads the graph | `MCWorkflow` |
| `DemoClone` | on top of it: registration, bootstrap and backfill copy it | `MCWorkflow` |
| `HttpTool` | a tool's config panel and its calls | `MCWorkflow` |
| `LoginLockout` | signing in by address, failure counters, locks | `MCAccounts` |
| `AuthTokens` | tokens, sign-out, and what a browser keeps | `MCAccounts` |
| `SignIns` | abstract: signing in hands out a live token, signing out ends all of a user's at once | refined by `AuthTokens` |
| `BuilderEdges` | the edges of the canvas, their requests and answers | `MCBuilderEdges` |
| `BuilderNodes` | places and panels of the canvas, timers and saves | `MCBuilderNodes` |
| `VoiceSessionProofs`, `RateLimiterProofs`, `WorkflowGraphProofs`, `DemoCloneProofs`, `AgentRuntimeProofs`, `AccountsProofs`, `BuilderEdgesProofs`, `BuilderNodesProofs` | theorems | |

Definitions introduced by "Slip:" are plausible programming slips, never used by the specifications; `PROJECT.json` lists, under
"mutants", the property each one breaks.

### 2.1 VoiceSession and the code

| variable | code |
|---|---|
| `row` | the row of a session id; `status` is `"absent"` before the insert and `"gone"` after the cascade; `startedAt` orders rows; `endedBy` says who wrote `ended_at` |
| `room`, `job` | LiveKit's room of that id; the worker's `entrypoint` in it, by the point it has reached |
| `req` | a slot per request in flight: the await its handler stands at (`pc`), the page that sent it, whether anybody still reads the answer (`lost`), the stale session (`target`), the session id drawn (`new`) |
| `tab` | `sessionState` of a page: nothing, connecting, connected, or `left` (the `endedRef` guard is set) |
| `alive`, `issued` | workflows that exist; session ids drawn so far |

| action | code |
|---|---|
| `ClickLaunch`, `ClickToolbarStop`, `LeaveCall`, `Join`, `CloseTab` | the page's buttons, the `Disconnected` handler, `room.connect`, `beforeunload` |
| `BeginLaunch`, `BeginStop` | `launch`, `stop` up to their first await |
| `DeleteRoom` | `await delete_room` in `_end_session`; "delete_lost" is the logged failure |
| `MarkForLaunch`, `MarkForStop` | the rest of `_end_session` with its commit, and what the caller does up to its next await (for launch: `_enforce_launch_limits`) |
| `CreateRoom`, `CreateRoomFails`, `InsertRow`, `InsertFails` | the rest of `launch` |
| `StartCall`, `AbandonCall`, `HitDurationCap`, `ReadRow`, `WriteRow`, `LoseJob` | `entrypoint`, `_enforce_duration_cap`, `_record_session_end` |
| `ReapRoom`, `DeleteWorkflow`, `RestartApi` | LiveKit's timeouts, the cascade, a restart |

Left out: usage figures (only that they were stored), tokens, audio, diagnostics, the
read-only `get_status` and `get_sessions`. The allowance per address is `RateLimiter`'s
`EnforceLaunchLimits`; in `VoiceSession` it may refuse any launch. `WriteRow` stores the
usage or, when it could not be summarised, only the reason; `SessionLedger` asks that
an entry is accounted for once, with whatever is known of reason and usage.

### 2.2 RateLimiter and the code

`requests` is `RateLimiter.requests`, `launches` is `_launch_history`, `now` the clock
both read. `passed` is a history variable, every admission ever made, against which the
budgets are judged. `Serve`, `RefuseGlobally` and `ServeAuth` are whole
requests: these limiters run one after the other without awaiting anything but the route. A
launch is charged twice, in `ServeLaunch` by the middleware and in `EnforceLaunchLimits` by the
service, with awaits between the two; `launching` counts those between. One life of the API
process is modelled; a restart empties the windows by design.

### 2.3 WorkflowGraph and the code

`workflow`, `node` and `edge` are the tables; a node is an agent or a tool together with
its rows in `nodeconfig` and `positionnode`, which are created and deleted in the same
transaction. `req` holds the agent requests in flight. What is one step and what is
several follows from how FastAPI runs the routes and where they commit: tool, edge and
position routes are coroutines that never await, so each is one action; agent routes run
in threads, so looking up a name and inserting it (`CheckAgentName`, `InsertAgent`), saving a
config and writing the agent (`SaveAgentConfig`, `WriteAgent`), and the statements of a
deletion up to `CommitDeletion` or `AbortDeletion` are actions of their own. Row locks
(`AgentLocked`, `EdgeLocked`) make a statement wait; unique constraints and foreign keys
(`NameTaken`, `LateTools`, `CascadeWorkflow`) act at once. `edge.owned` is the tenant
column of an edge, which its update empties. `PUT /workflows/update` merges an object
that is not mapped and so always fails; it is left out.

### 2.4 AgentCall, DemoClone and HttpTool

`AgentCall` is `WorkflowLoader.load`: one action per SELECT, then `BuildGraph`
(`agent_factory.py`). `steady` and `ever` are history: what was stored throughout, and at
some time of, the load. `TenantKnown` says whether the process has a tenant; the worker
has none, so its load ends before the first table. `LoadKeepsWhatStays`
is about the loader once a tenant is set, and `readers` sets one; of the worker as it is it says nothing.

`DemoClone` is `clone_workflow_to_tenant` table by table inside one transaction, reached by
registration, `create_user.py` and the backfill script, each with what it commits
before. A copy is a value that appears when the transaction commits. `CloneHolds` is the
conjunction of the look-ups that raise and the constraints that refuse. `held` says that the
session still has the row of its source, so that `session.get` asks for nothing: a source
deleted since is then cloned as what is left of it, an empty workflow, and only after a commit of
the session is it missed.

`HttpTool` is `ToolConfigPanel.jsx` and `http_tool.py`: an argument is only traced by where in the
request it ends up and where its content comes from. Encoding and the endpoint itself
are left out; an answer, an error and none within the timeout are told apart.

### 2.5 LoginLockout and AuthTokens

`LoginLockout` follows one login through its loop over the users of an address. `loaded`
is what its SELECT has read, `expired` that a commit of its own has made the session read
again, `seen` the row it hashes for; the UPDATE names only columns that changed (`Cleared`,
`Charged`). `wrongs`, `streak` and `overlap` are history.

`AuthTokens` follows every request of a browser from the token it carried to what the page
does with the answer (`client.jsx`, `RequireAuth.jsx`). `RevokeAllTokens` writes the version
`CheckLogout` has read, plus one; a second sign-out of the user that reads before the first
has written puts that user into `crossed`, a history variable. `GiveUp` is the ten-second time-out of
the page's client: the page goes on as after a failure while the server works on. `SignIns` is the promise behind it: a token is live, then dead, and a
sign-out is one step; `crossed` maps to its `wild`. Signatures and hashing are taken as given; that
a sign-in may be refused is all that it shares with `LoginLockout`.

### 2.6 BuilderEdges and BuilderNodes

Both are `useWorkflowBuilder.js` with the server's rows behind it.

In `BuilderEdges` a page has its own picture (`shown`, between the `agents` it has), the data
of two queries (`cache`, `nodesCache`), each with a request of its own that the window's focus starts
again, and mutations in flight, served and answered in any order. The names "temp", "moved",
"local" and "saved" say what id an edge has on the page, which decides what an answer can find
and what a request says. `Mirror` is the effect that runs whenever the nodes or the cached edges
change. A list of nodes replaces the page's agents, so one that was read before an agent was
deleted brings it back (`NodesFetched`), and its edges with it, for nothing but a mutation of edges invalidates theirs. An
agent whose source has left the page is connected on the page only (`AgentCreated`).

In `BuilderNodes` requests travel on a `wire` that may be reordered or lost, positions wait in
`pending` for the debounce timer, and answers overwrite panels. A node is an agent, which the page
was loaded with, or a tool, which the user creates on it. What the page can send of a node depends on
the ids it knows (`ids`), and these on the answer it has the node from: `get_all_nodes` has no
agent of a tool, so a tool that was loaded cannot be saved (`Accepted`); the answer to a tool's save
is a bare row, out of which the serializer makes a panel of defaults without position
or config (`AfterSave`), so the tool's later drags are not collected and its later saves leave
the config alone.

`strayed`, `blind`, `unsaved` and `met` are history: they name what has happened that the page
does not make up for, and the properties say what holds without it. A page that closes before the timer
fires is not modelled: what waits then is lost with it.

## 3. Runs

All runs are small on purpose: each hazard needs at most two requests in flight, two
rows of a kind and one or two pages to show itself, and most of what holds is proved
for every size.

| run | instance | shows |
|---|---|---|
| `voice_calls` | 1 workflow, 2 pages, 2 requests, 2 sessions, cap 2, failing workers | a room with an agent in it, or coming, is backed by an active row or a launch about to insert one; a request ends the call it found when it began, whatever was launched since |
| `voice_cap` | 2 workflows with a page each, 2 requests, 3 sessions, cap 1, failing commits and restarts, callers who never join (`NobodyJoins`) | two launches that overlap between the check and the insert exceed the cap by one row, never by more |
| `voice_serial` | 2 workflows with a page each, 1 request, 2 sessions, cap 2, every fault | without overlap, a workflow never has two active rows; the table implements `SessionLedger` |
| `voice_live` | 1 page, 1 request, 2 sessions, fair | a call that ran ends closed, with its usage |
| `rate_limits` | 1 address, anonymous and one user, 2 launches under way, limits 2/1/1, windows 2/3/2, 4 ticks | windows hold, decisions are exact, refusals are free |
| `graph` | 1 workflow, 2 agents, 1 tool, 1 edge, 2 agent requests, every operation | references, names, deletions; the graph implements `GraphStore` |
| `readers` | the same graph with 1 request and the operations that change what is read; 1 call; 1 tenant, one seeder of each kind; 1 tool parameter, GET and POST | what is loaded, copied and sent |
| `accounts` | 2 users of one address, 2 logins, threshold 2; 2 browsers, 2 calls, 2 tokens, every call may fail, time out or lose its answer | locks, revocation, sessions kept; tokens implement `SignIns` |
| `builder_edges` | 2 agents, one of them not loaded at first, 2 edges, 2 mutations, both queries | between agents that exist the page and the server agree when all is quiet; no temp edge is left |
| `builder_nodes` | 1 agent, 1 tool, 2 places, 2 texts, 2 requests on the wire, 5 gestures or losses, fair | what is stored is where agents, and tools the page knows, were put; an agent's panel says what is stored |

Two runs end in a violation of something the repository says of itself:

| run | the repository says | the code does |
|---|---|---|
| `graph_hidden_edge` | `PUT /edges/` is "Update edge" (`README.md:282`) | the update empties the edge's tenant, after which no handler finds it (`edge.py:31`) |
| `call_no_tenant` | the initial agent of the builder drives the session (`README.md:76`) | the worker has no tenant, the load raises, and the built-in agent holds the call (`workflow_service.py:19`) |

Bounds. `MaxSessions` bounds the ids drawn (`Admit` is disabled beyond it), `Requests`,
`Logins`, `Calls` and `MaxLaunching` what is in flight, `MaxTime` a clock, `MaxWrong` wrong passwords,
`MaxTokens` and `PerBrowser` tokens and a page's calls,
`MaxWire` and `MaxEdits` the requests and gestures of `BuilderNodes`. `NobodyJoins` keeps `voice_cap`
from following pages that are connected: the rows and launches it counts are there before anybody
joins, and `CapHolds` needs no such bound. `StrayedStaysSmall` follows a page that has gone astray only while it shows one
edge at most, where `DrawnEdgesResolve` is all that is asked of it. `MCWorkflow` bounds
its edits: an agent is rewritten, and two seeders race, only in graphs that have had neither
tools nor edges (`FewEdits`, `Races`, `Plain`), and either a call is loaded or a demo is seeded, for both only read
the graph. In `MCAccounts` and `MCWorkflow` a variable `about`, chosen at the start, says which of
two parts that share no state is at work; a property of either holds of both kinds of
behaviour. One parameter is enough for `HttpTool` because every place treats each
parameter by itself, and the theorems hold for any number.

Deadlock is not checked where the system may stop: when ids are used up, calls
over and answers in, nothing need happen. Only `rate_limits` checks it. Permutations of equal
ids are symmetries; no run that checks liveness uses one. `voice_calls` leaves
out the API's failures because the property is stated for their absence: what they do
to a room is what the code accepts by logging (`RoomLosing`).

Fairness. `VoiceSession!FairSpec` makes handlers weakly fair (LiveKit and Postgres answer),
LiveKit's reaping, and the worker's steps: an abandoned job ends, the duration timer
fires, the shutdown callback runs. Pages owe nothing: a caller may stay for ever, and
close or click whenever. `BuilderNodes!FairSpec` makes the debounce timer and the server's
next request weakly fair; a request may still be lost. Time passes in `RateLimiter`
(`WF(Tick)`).

## 4. Divergences the models show

Some modules state, as last definitions and outside every run, what the repository says and the code does not
do, or what one would like to hold and does not. Each fails as follows.

| definition | the repository says | fails with |
|---|---|---|
| `VoiceSession!OneActiveRow` | launch's look for a stale session prevents two active rows (`session_service.py:91-93`) | the instance of `voice_calls`: two overlapping launches both insert one |
| `VoiceSession!CapRespected` | `MAX_CONCURRENT_SESSIONS` bounds the cost (`settings.py:85-88`) | two workflows, two requests, cap 1: both launches pass the check before either inserts |
| `VoiceSession!WorkerKeepsTimestamp` | the worker keeps the timestamp of a row `/stop` has closed (`entrypoint.py:165-166`) | one page, one request: the status was read before the stop committed |
| `VoiceSession!RowsDoNotLeak` | the shutdown callback runs however the job ends (`entrypoint.py:95-97`) | the fair instance of `voice_live`: it is registered after `wait_for_participant`, so a call nobody joins leaves its row active |
| `RateLimiter!IdleKeysAreDropped` | emptied keys leave the dictionary (`rate_limiter.py:34-37`) | the instance of `rate_limits`: only a call for the same key drops it, and stores it again |
| `WorkflowGraph!ToolsHaveAgent` | a tool's agent is declared as required (`models.py:182`) | the instance of `graph`: deleting an agent detaches the tools it has loaded |
| `DemoClone!RegisteredTenantsSeeded` | a new tenant "never lands on an empty workflow list" (`auth_service.py:76-80`) | the instance of `readers`: a tool without an agent in the source makes the clone raise after the tenant is committed |
| `BuilderEdges!DeletedAgentsLeave`, `DeletedEdgesLeave` | the page mirrors the query (`useWorkflowBuilder.js`) | the instance of `builder_edges`: a list of nodes read before an agent's deletion arrives after it, and the cached edges still name the agent |
| `BuilderNodes!ToolDragsAreStored` | `onNodesChange` persists moves | the instance of `builder_nodes`: the answer to a tool's save has no position id, and the drags that follow are dropped |
| `BuilderNodes!ToolsSavedAreShown` | the answer refreshes the panel | the instance of `builder_nodes`: it resets it to defaults |
| `DemoClone!BackfillSeedsAll` | the backfill seeds "every existing tenant that has none" | two tenants: the first clone that raises ends the script |
| `LoginLockout!ThresholdLocks` | locked after the threshold of consecutive failures (`SECURITY.md`) | the instance of `accounts`: two overlapping failures count as one |
| `AuthTokens!NoTokenRevives` | signing out invalidates every token (`README.md`) | the instance of `accounts` with three tokens: a sign-out that read its version before two others writes it back, plus one |
| `AuthTokens!OnlyExpiredDropped` | the page drops only an expired session (`client.jsx`) | the instance of `accounts`: a late 401 drops the token of the next session |

Others need no property, the action shows them: a launch that its limits refuse has by
then ended the session it would have replaced (`MarkForLaunch`, `RejectLaunch`); a room whose
deletion fails, or whose row could not be inserted, lives on without a row that counts (`RoomLosing`); a tool that was
loaded cannot be saved (`Accepted`); a source deleted under a session that holds it is cloned
empty (`InsertCopy`).

## 5. Proofs

| theorem | statement |
|---|---|
| `VoiceSessionProofs!TypesHold`, `CapHolds`, `CallsAreVisible`, `LaunchesReplace` | `TypeOK`, `CapOvershootBounded`, `NoInvisibleCall`, `SerialLaunchesReplace` |
| `VoiceSessionProofs!CallsEndOnPurpose` | `CallsEndAsAimed` |
| `VoiceSessionProofs!LedgerImplemented` | `Spec => LedgerRefined` |
| `RateLimiterProofs!TypesHold`, `BudgetHolds`, `RefusalsCostNothing`, `MemoryIsBounded` | `TypeOK`, `Budget`, `RefusalsAreFree`, `MemoryBounded` |
| `WorkflowGraphProofs!TypesHold`, `ReferencesHold`, `NamesHold`, `GoneForGood`, `OnlyLateAborts` | `TypeOK`, `ReferencesInside`, `AgentNamesDiffer`, `GoneStaysGone`, `OnlyLateChangesAbort` |
| `WorkflowGraphProofs!StoreImplemented` | `Spec => StoreRefined` |
| `DemoCloneProofs!SeedTypesHold`, `CopiesAreWhole`, `SeedingIsOnce`, `FailuresAreEdits`, `CopiesAreFaithful` | `SeedTypeOK`, `CopiesWhole`, `DemoIsSeededOnce`, `OnlyEditsFailClones`, `CopiesMirrorSource` |
| `AccountsProofs!TypesHold`, `LocksAreEarned`, `LockedRowsStay`, `FailuresAreCounted` | `TypeOK`, `NoEarlyLock`, `LockedRowsRest`, `CountsConsecutiveFailures` |
| `AccountsProofs!TokenTypesHold`, `RevocationLasts`, `SessionsEndForAReason` | `TokensTypeOK`, `TokensStayRevoked`, `SessionKept` |
| `AccountsProofs!SignInsImplemented` | `TokensSpec => SignInsRefined` |
| `AgentRuntimeProofs!CallTypesHold`, `LoadsKeepWhatStays` | `CallTypeOK`, `LoadKeepsWhatStays` |
| `AgentRuntimeProofs!ToolTypesHold`, `EveryArgumentTravels`, `ArgumentsAreLostLate` | `ToolTypeOK`, `ArgumentsTravel`, `LostOnlyAfterSwitch` |
| `BuilderEdgesProofs!TypesHold`, `DrawingsResolve`, `PageFollowsServer` | `TypeOK`, `DrawnEdgesResolve`, `PageShowsServer` |
| `BuilderNodesProofs!TypesHold`, `DragsEndUpStored`, `SavesEndUpShown` | `TypeOK`, `DragsAreStored`, `SavedIsShown` |

Assumptions: the named ASSUMEs on the constants. Any number of pages, workflows, sessions, nodes, edges,
users, addresses, tenants and parameters, any finite number of requests in flight, every
subset of the faults and operations.

The types of `AgentCall`, `DemoClone` and `HttpTool` (`CallTypeOK`, `SeedTypeOK`, `ToolTypeOK`) are proved and no longer
checked by a run; every other property in the table is checked by one.

* *Cap.* Active rows plus launches between the limit check and their insert never
  exceed `MaxConcurrent - 1` plus the number of requests. Inductive with `TypeOK` alone: a launch that passes saw
  fewer than `MaxConcurrent` active rows, so it is covered by the launches that are in
  flight with it (`CapAdmits`); every other step moves a launch into a row or shrinks
  the sum (`CapShrinks`).
* *Ids.* `IdsOK`: an id belongs to one launch until its insert, and whoever ends or
  closes a row has seen it in the table. Everything below rests on it: the handlers keep
  ids across awaits, and an id that was reused would let one handler end another's call.
* *Visible calls.* `NoInvisibleCall` is not inductive: whether `MarkForStop` may end a
  row depends on its room being closed already, and closed rooms staying closed depends
  on ids not being reused. `RoomsOK` adds the first, `IdsOK` the second.
* *Replacing launches.* `SerialOK` says what the only request in flight knows: while it
  ends a session, no other row of its workflow is active; once past the limits, none is.
* *Ends.* `AimsOK`: the session a handler holds across its awaits is of the workflow its page
  shows, because a row's workflow never changes. With `IdsOK`, which says that nobody
  holds or has read an id that has no row yet, what opens is aimed at by nobody.
* *Ledger.* `LedgerOK`: reason and usage are stored only by a job that is over, so a job that
  is not finds neither, and one that found its row ended can rely on that. With it every step maps to
  one of the ledger's or to a stutter (`OpensEntry`, `ClosesEntry`, `AccountsEntry`,
  `RemovesEntries`).
* *Budgets.* What a window remembers contains every admission still inside it, and each
  admission saw fewer than the limit; equal stamps cannot collapse because the rank
  counts the admissions made before. Once pruned, a window holds nothing else: as many stamps as
  admissions of the key within the window, so a refusal is never due to an earlier refusal and an
  admission never overlooks one. A key is stored only when it is admitted (`KeysStep`). The
  clock is taken not to step back.
* *Graph.* `GraphInv` is the types, what a request in flight holds (`SlotsOK`), and the
  references themselves, which are inductive with those: an insertion looks at its parent
  row, a deletion takes along or detaches whatever names what it deletes, and a cascade everything of
  its workflow. `GoneRows` says that a deleted row holds nothing; no step writes one
  (`NodesDepart`, `EdgesDepart`). `DeletionsOK` says what a deletion between its statements can rely
  on: the edges it dropped are those it found when it began, no other deletes the same
  agent, and a tool it has loaded is still that agent's, or gone; so what aborts it came
  after.
* *Store.* A step of a request maps to the request's atomic step if it commits and to a stutter
  if it only reads, locks or waits. What has to be shown is that nothing came between:
  `LocksOK` says that the agent a deletion has reached is stored until its commit or abort, and that
  the edges it has dropped are still there for everybody else and cannot be rewritten (`LockedAgentStays`, `LockedEdgesStay`).
  With `DeletionsOK` the commit then takes exactly the edges that end at what
  goes (`DepartureTakes`), as one step of the store does.
* *Copies.* Every check the clone makes before it writes is about what it has read, so a
  copy is whole by `CloneHolds` alone (`HoldingIsWhole`). `OneClone` makes it unique: the
  constraint lets one clone per tenant read at a time. `AllCurrent`: as long as
  nobody edited the source, what has been read is what is stored; the references of the
  graph, taken from `WorkflowGraphProofs`, then leave a tool without an agent as the only reason to fail, and the copy equals the source.
* *Lockout.* `CountersOK`: every counter stored, or read by a login in flight, is at most
  the number of wrong passwords, so no stale write can reach the threshold early.
  `FoundOpen`: a login hashes only for a row that was unlocked when it began. `AloneOK`:
  without overlap, what a login has read is what is stored.
* *Tokens.* A user who is not in `crossed` has one sign-out between reading and writing (`OneByOne`),
  so what it has read is the stored version (`Told`) and that user's versions only grow (`Onward`); a
  token refused or revoked once is then `Spent`: it stays invalid. What happens to the
  users in `crossed` needs no bound, for every clause sets them aside. A browser that drops a live
  token after a refusal was refused with another one. For `SignIns`, the issued tokens of the others are
  live or dead as `Valid` says; the write of a sign-out is its atomic step, because with `Told` the
  version it writes ends exactly the tokens that were live (`TokenTime` is positive: a token outlives its issue).
* *Loads.* Each table a load has read lies between what was stored throughout the load and what
  was stored at some time of it (`Sound`), because an edit between two SELECTs only shrinks
  the first and grows the second (`EditKeeps`). The graph built of such tables lies
  between the two as well, given that references stay inside a workflow, which
  `WorkflowGraphProofs` supplies.
* *Tools.* `RequestMade`: a request in flight was made of the config that is stored.
  `ListHidden`: a request without a body has a list of body parameters only if its method
  was changed afterwards.

* *Drawn edges.* `ShownOK`: an edge with a temp id that starts at an agent of the page has a
  creation in flight with its ends, so without one there is none; an agent comes to the page only
  with a redrawing, which leaves no temp edge that starts at it.
* *Canvas and server.* While mutations overlap, page and server differ, so the invariant says for
  which edges they may: those an answer on its way will put right (`Excused`) and those with an end that no longer
  exists. For all others (`Exposed`), the list the page is shown next agrees with the rows
  (`DueIsStored`), and what is shown agrees with the list it was told last, or with the rows, if
  both ends are on the page (`ShownIsKnown`). An excuse ends only when its answer is handled, and every
  handler of one fetches the list again (`ExposedStays`, `DueSteps`). Agents may leave the page and come
  back with a late list of nodes; that list redraws the edges, so what comes back is what is
  cached. `PlacesOK` is what makes a late creation harmless: an agent that has gone
  from the server does not come back to it (`Settled`, `DeadStay`), so a row whose agents exist has had
  them all along. `Calm` lists the steps that do not stray; `TidyInv` is kept by each.
* *Places and panels.* `DragInv`: where a node was put is stored, or last on the wire for
  that node, unless the timer still holds it or the page did not know its position; an agent on the page
  always has its ids (`AgentsPlaced`). `SaveInv`: the last answer for an
  agent has the text that is stored, so a page that waits for none says it.

Only model-checked: the liveness properties `CallsAreRecorded` and `PendingIsStored`, which
are out of the prover's reach, and the violations, which are counterexamples.

## 6. Plan

What is left, in this order.

1. Composition: a workflow edited and deleted under running calls (`WorkflowGraph` with
   `VoiceSession`'s `DeleteWorkflow`).
2. Tools on the canvas in `BuilderEdges`: they follow their agent, with a synthetic edge
   that is never stored. (`BuilderNodes` has them as rows and panels.)
3. A page that waits for each answer, and the builder shown to implement it while nothing
   strays.

## 7. Not modelled

Audit log, roles, feature flags, versioning and pagination have no caller in the running
program or no state; logging, migrations, deployment scripts and the pages' looks say
nothing a property here is about. Passwords, token signatures and speech
models are taken as given. `backfill_tenant_id.py` is a one-off migration;
`authenticate_user` by tenant has no caller; the canned service actions of a call are one
opaque handler; instructions, model settings, coordinates and the viewport are data no
property tells apart.
