# Log Doctor provider backend: a TLA+ verification project

The repository is the backend ("provider") of Log Doctor: a FastAPI service, run
as one or more Azure Container Apps replicas, that registers tenants of a Teams
app, keeps track of the *agents* (Azure Functions) deployed in the tenants'
subscriptions, sends them diagnosis commands through Storage queues, collects
their reports, and aggregates the reports into insight documents. All state is
in Cosmos DB; nothing is locked, every handler is a coroutine that awaits Cosmos,
Azure Resource Manager, Storage queues, Teams or Entra ID between a read and the
write that depends on it. Two Azure Functions timers (source in `src/`, outside
the web process) and the agents call the same API as the users do.

All paths below are relative to `src/`.

## 1. Inventory

| component | source | state it keeps | operations that change it |
|---|---|---|---|
| Agent lifecycle | `app/domains/agent/models/agent.py`, `repositories/agent.py`, `usecases/*agent*` | one document per agent: status, version, `deleted_at` | handshake, PATCH, request-update, DELETE (deactivate), confirm-deletion, tenant-wide uninstall |
| Schedules | `agent/models/schedule.py`, `repositories/schedule.py`, `core/cron.py` | one document per schedule: cron, enabled, `last_run_at`, etag | create, update, delete, disable by agent |
| Scheduled run | `agent/usecases/trigger_scheduled_run_use_case.py` | the claim: `last_run_at` under the etag | one call per timer tick and agent |
| Reports | `report/models.py`, `repositories/report.py`, `usecases/create_report…`, `update_report_status…`, `get_report…` | report document: status, summary, etag | create, status callback, long poll |
| Diagnoses | `repositories/diagnosis.py`, `usecases/receive_diagnoses…`, `update_diagnosis_resolution…` | one document per finding: resolved, severity | receive a batch, resolve and unresolve |
| Insight | `insight/` | per agent and period: totals, counts, trend | queue worker (update), recalculation after a resolution, rebuild |
| Tenants | `tenant/`, Graph calls in `core/auth/services/graph_service.py` | tenant document: accounts, channel; app roles in Entra ID | register, update |
| Client setup template | `api/v1/endpoints/template.py`, `tenant/usecases/get_subscription_setup_info…`, `graph_service.py:147` | the cached service principal id of the process | portal link, template download |
| Agent packages | `package/` | blobs of one container | upload, upload by SAS URL, download, lookup by version, latest |
| Notifications | `notification/` | a record per delivered notification | announce a report, delegate |
| Authentication | `core/auth/` | tokens and identities of one request | identity extraction, guards, token exchange |
| Azure clients, Cosmos layer | `infra/` | – | the calls the handlers await |
| Teams bot and webhook | `infra/external/teams`, `api/v1/endpoints` | conversation references | delivers the uninstall event |
| Support, license | `support/`, `license/` | – | mail, stub |

How they interact. Everything shares Cosmos containers, so the interactions are
reads and writes of the same documents: the uninstall and the deactivation write
agent documents *and* schedules; a scheduled run reads the agent, claims a
schedule, creates a report and enqueues a command; the agent answers with
diagnoses and status callbacks; a report that becomes COMPLETED causes a
notification and an insight event, both as tasks nobody awaits; the insight
worker reads reports and writes insight documents; resolving a diagnosis writes
the diagnosis, then the report.

Which behaviours are hard:

* **Whole-document upserts without etag** (agents, diagnoses, insights, tenants):
  a handler that read before another one wrote erases that write.
* **Optimistic concurrency in some places only** (reports, schedule claims and
  updates), next to blind writers of the same documents (`disable_by_agent`,
  `mark_as_failed`).
* **Two systems, no transaction**: Cosmos and Azure, Cosmos and a queue. Each
  order of the two writes has its own failure.
* **At-least-once queues and retried callbacks** feeding counters.
* **Partial failure of loops** (uninstall, trigger, insight periods).
* **Timers**: the trigger polls at its own pace, cron fires at its own.

What makes each component correct:

* *Agent lifecycle*: the entity's status machine is respected; deletion is stamped only
  when the resource group is gone, or a caller said so without having looked; destruction
  has its record; transient statuses end.
* *Scheduled run*: at most one run per schedule and cron slot however many
  replicas' timers overlap; a command always has a stored report; only enabled
  schedules of live agents run; a due schedule ends in a command or a FAILED report.
* *Reports and diagnoses*: the stored summary counts the stored diagnoses; a final
  status is not left; a resolution counts once.
* *Insight*: no report is counted twice in a period; none is left out in silence; rebuilding
  gives what counting gave.
* *Tenants*: stored operators can sign in, the registrant administers, nobody's
  operators, team or channel are lost.
* *Client setup and packages*: a customer's template names the customer's own principal;
  the version it freezes is the newest and stays installable.
* *Notifications and access*: the history of notifications counts only what arrived; the
  guard admits exactly those who should pass; a stored operator gets in.

## 2. Plan

Order: the most consequential behaviour (agents are destroyed) first, then the
paths that run without a user watching.

1. `AgentStateMachine` (abstract), `AgentLifecycle`, `AgentLifecycleProofs` — done.
2. `ScheduledRun`, `ScheduledRunProofs`: schedules, claims and commands; the agent
   appears as its "active" flag, which `AgentLifecycle` moves — done.
3. `ReportBook` (abstract), `ReportLifecycle`, `ReportLifecycleProofs`: reports, diagnoses,
   resolution — done.
4. `InsightPipeline`, `InsightPipelineProofs`: queue, workers, update, rebuild — done.
5. `TenantRegistration`, `TenantRegistrationProofs` (register and update as blind
   upserts after a conflict check) — done.
6. `AccessControl` (what a token entitles to), `TenantNotifications` (composition of the
   two with the messages sent) and `TenantNotificationsProofs` — done.
7. `ClientSetup`, `ClientSetupProofs`: portal link, template, packages, the package an
   agent runs — done.
8. Left: the composition of the agent's "active" flag in `ScheduledRun` with
   `AgentLifecycle`, and of the package an agent runs with its status there.

| module | extends | role |
|---|---|---|
| `AgentLifecycle` | – | implements `AgentStateMachine` (instance `Machine`) |
| `ReportLifecycle` | – | implements `ReportBook` (instance `Book`) |
| `ScheduledRun`, `InsightPipeline`, `ClientSetup` | – | one component each |
| `TenantNotifications` | `TenantRegistration`, `AccessControl` | their composition |
| `*Proofs` | the module named | theorems |
| `MC*` | the module named | constants for TLC |

Abstract specifications worth stating: the status machine of one agent document
(done: `SerialRefinement`), the stored reports and diagnoses as if each operation took effect
at once (done: `HandlersImplementBook`), the registration of a tenant behind everything built
on it (done: `RegistrationCarriesOver`).
The promises of the other components are stated as properties of their own state.

## 3. Agent lifecycle

`AgentLifecycle` models the `agents` container and every handler that writes it.
A handler is a process (`Requests` slots). One action is the code between two
awaits that another handler or Azure can observe: reading the document and
mutating the private copy is one action, the upsert another, an Azure call a
third. `held[r]` is the handler's Agent object; the upsert stores the whole of it,
as `repositories/agent.py:105` does.

| code | actions |
|---|---|
| `handshake_agent_use_case.py` | `Handshake` (`HandshakeKnown`, `HandshakeFirst`), `HandshakeSave` |
| `update_agent_use_case.py` | `Patch`, `PatchSave` |
| `request_agent_update_use_case.py` | `RequestUpdate`, `UpdateSettings`, `UpdateSave` |
| `deactivate_agent_use_case.py` | `Deactivate`, `DeactivateSave`, `DeactivateAzure`, `DeactivateFailedSave`, `Disable` |
| `confirm_agent_deletion_use_case.py` | `Confirm` (`ConfirmSeen`: by the front end, once it saw the group gone), `ConfirmSave`, `Disable` |
| `check_azure_resource_group_status_use_case.py` | `CheckResourceGroup` |
| `tenant_admin_uninstall_use_case.py` | `Uninstall`, `UninstallDelete`, `UninstallSave`, `UninstallDisable` |
| 403, missing package, missing token | `Reject` |
| replica restart, Cosmos error in a handler | `Abort` |
| Azure, the function app | `RgGone`, `RgDeletionFails`, `FunctionAppRestart` |

A document keeps status, version and whether `deleted_at` is set: the three
fields on which a decision depends. The order in which the query by client id
returns documents is the code's sort key; its `_ts` tie-break has whole-second
resolution and is left open. Resource groups and running versions are per client,
since the client's `agent_id` names the function app.

`stale` is a history variable: the documents of a request that somebody else wrote
after the request read them (or, for a first handshake, the client for which
somebody else created a document). No guard reads it. It lets the properties say
exactly when an anomaly is a lost update. `trusted` is another one: the documents whose deletion
was confirmed by a caller whom `azure-status` had not told (`seenGone`) that the group is gone. The
code accepts such a caller (`confirm_agent_deletion_use_case.py:31-36` looks at the status only), so
`StampedOnlyWhenGone` promises a gone group for all other documents, and a DELETED status for every stamp.
`DestructionIsRecorded` looks at the steps in which Azure accepts a deletion: DELETE stores
DEACTIVATING before it asks; the uninstall asks first, and has the DEACTIVATING copy in its hand
to store next.

`AgentStateMachine` is what the Agent entity alone promises for one document: the
edges its methods (`activate`, `start_update`, `deactivate`, `confirm_deletion`,
`update`) allow.

### Runs

| run | instance | shows |
|---|---|---|
| `agent_races` | 1 document, 2 concurrent requests of every kind, 2 versions, crashes and asynchronous Azure failures | `TypeOK`, `StampedOnlyWhenGone`, `DestructionIsRecorded`, `OnlyLostUpdatesDeviate` |
| `agent_serial` | agents of 2 clients, 1 request at a time, all operations and faults, the uninstall's loop included | refinement of `AgentStateMachine` (`SerialMachine`), `SerialUninstallIsComplete` |
| `agent_ends` | 1 document, 2 requests, 2 versions of the package, fairness | `DeactivatingEnds`, `UpdatingEnds` |
| `agent_zombie` | 2 requests | violation: a handshake revives an agent being deleted |

Why the bounds suffice: two requests are enough for every lost update, because a
lost update involves one reader and one writer of one document; two documents are
enough for "the rest of the list"; two versions separate "the
new version reported" from "the old one". Statuses an operator may PATCH are cut
to those that reach the interesting branches. `agent_serial` runs with symmetry in the two clients
(each with its one document): no operation prefers one. `agent_ends` has both versions as
packages, so an update may be a downgrade and may overlap another update. Duplicate documents of one client (two racing first
handshakes) are covered by the theorems, which hold for any number of documents.

Deadlock is not checked in these runs, because the modelled system really stops: when every
document is DELETED, the resource groups are gone and the handlers have ended, no
action is left (each client's agent runs only while its resource group exists).

Fairness (`FairSpec`): a handler proceeds to its end (the event loop runs it);
Azure finishes accepted deletions; a function app restarts after its settings
changed; the agent repeats its handshake and the front end polls `azure-status` and
confirms (`ConfirmSeen`; a caller who has not looked is allowed and not assumed), both of which
the code and docs describe as periodic — strong fairness,
because a busy request slot is an artefact of the bounded model. Crashes and
asynchronous Azure failures are off in `agent_ends`: with either, the properties do
not hold (see below).

### Proofs

`AgentLifecycleProofs` proves for any number of documents, clients and requests:
type correctness (`AgentTypes`), `StampedOnlyWhenGone` (`DeletionStampSound`),
`DestructionIsRecorded` (`DeletionRecorded`), `OnlyLostUpdatesDeviate`
(`DeviationsAreLostUpdates`) and, for at most one request, the refinement
(`SerialRefinement`) and `SerialUninstallIsComplete` (`UninstallSkipsNobody`). The
assumptions are `ConstantsAssumption` and `NoDocAssumption`; the last two theorems add
`OneAtATime`.

Two theorems say how narrow the finding of `agent_zombie` is. `RevivalsAreLostUpdates`: in any
interleaving an agent that is DEACTIVATING or DELETED becomes ACTIVE only by an operator's
PATCH or by an upsert of a copy that was out of date. `SerialHandshakesReviveNobody`: the violated
`HandshakeNeverRevives` holds with `OneAtATime` and no operator who sets ACTIVE.

The properties are not inductive. The invariant `IInv` adds: what each handler's
copy looks like at each point of its code (a copy about to be stored by
confirm-deletion is stamped, one about to be stored by deactivation is
DEACTIVATING, ...), that a document seen as gone by the front end has no resource
group any more, that a stamped copy is of such a document or of a `trusted` one, and that a copy which is *not* in `stale` is one mutation away from
what is stored. The last part carries `OnlyLostUpdatesDeviate`: a store by a
handler whose copy is not stale moves the stored status by exactly the mutation
the handler made, which is an edge of the machine. For the refinement,
`NothingStaleStep` shows that with one request nothing is ever stale, so no
step is a lost update. `NoRevival`, under `RevivalsAreLostUpdates`, says that what
a handshake found (no document, or one neither DEACTIVATING nor DELETED) still holds unless its copy
is stale, and that no other handler but PATCH has a copy saying ACTIVE to store;
`SerialHandshakesReviveNobody` follows from the refinement, as only PATCH has such an edge in the
machine. For the uninstall, `UninstallProgress` says what the loop has done at
each of its points: a document it has not in its list any more can no longer be
deactivated, because it was DELETED when the list was read, or by the loop itself.

Liveness stays with TLC: the proof system does not do fairness.

### Divergences met while modelling

`agent_zombie` is a finding with a run. The others, each visible in the model:

* The uninstall calls `deactivate()` outside the `try` of its loop
  (`tenant_admin_uninstall_use_case.py:93`). It raises on an agent that is already
  DEACTIVATING, and the agents after it in the list keep running
  (`UninstallDelete` ends the request there), although the class comment at `:17`
  says that every active agent is deleted.

* The confirmation of a deletion takes its caller's word: any administrator's POST on a
  DEACTIVATING agent stamps `deleted_at` while the resource group exists
  (`confirm_agent_deletion_use_case.py:31-36`), although its docstring (`:24`) says that the front
  end calls it after it saw the group deleted. `StampedOnlyWhenGone` counts these as `trusted`.
* `docs/agent-deactivation.md:25-30` and its sequence diagram at `:92-94` send the DELETE to Azure first and
  store DEACTIVATING after the 202. `deactivate_agent_use_case.py:58-61` stores first, which is
  what `DestructionIsRecorded` relies on; the uninstall does it in the documented order
  (`tenant_admin_uninstall_use_case.py:77-94`), so a crash between the two leaves resources
  being deleted under an ACTIVE document. The model reaches that with `Abort` in `uninst_save`.
* An update may stay UPDATING for ever. Two requests are needed: one reads the agent, another's
  settings change and the restarted agent's handshake are stored, and the first, whose copy is
  now out of date, stores UPDATING with a version that the agent already runs. `Handshaken`
  (`handshake_agent_use_case.py:37-53`) ends UPDATING only when the reported version differs from the stored one.
  `UpdatingEnds` speaks of an update that is under way (stored version and settings differ), and
  excuses a copy of that kind by `OutdatedUpdating`.

* `request-update` refuses only a DELETED agent, so a DEACTIVATING one becomes
  UPDATING; `docs/agent-deactivation.md:71-72` has no such edge. The abstract machine
  follows the code (`ByUpdate`).
* `Agent.create` takes a `uuid4` as id, so two first handshakes make two
  documents; the comment at `models/agent.py:22` says `tenant_id:agent_id`.
* The uninstall disables schedules under the client's `agent_id`
  (`tenant_admin_uninstall_use_case.py:97`) while schedules are stored under the
  document id, so it disables none (`UninstallDisable`).
* A deletion that Azure accepts and fails later (`RgDeletionFails`), or one whose
  failure the uninstall swallows, leaves the document DEACTIVATING, which DELETE
  then refuses to retry; `docs/agent-deactivation.md:72` and `:140` promise
  DEACTIVATE_FAILED. `DeactivatingEnds` fails with that fault or with the uninstall
  enabled.

## 4. Schedules and scheduled runs

`ScheduledRun` models one agent's schedules (they share a partition and no handler
touches two agents' schedules) and every handler that uses them. Handlers are processes as in
`AgentLifecycle`; here the reads carry etags.

| code | actions |
|---|---|
| `trigger_scheduled_run_use_case.py` | `Poll`, `ListEnabled`, `Claim`, `ClaimRefused`, `NothingDue`, `CreateReport`, `Push`, `MarkFailed` |
| `create_schedule_use_case.py` | `CreateSchedule`, `CreateScheduleSave` |
| `update_schedule_use_case.py` | `UpdateSchedule`, `UpdateScheduleSave` |
| `delete_schedule_use_case.py` | `DeleteSchedule` |
| `repositories/schedule.py` `disable_by_agent`, called by deactivation and confirmation | `Deactivate`, `DisableQuery`, `DisableSave` |
| failed deactivation patched to ACTIVE, package release, OTA, the clock | `Reactivate`, `MajorRelease`, `AgentUpdated`, `Tick` |

Abstractions. A cron expression is the set of instants at which it fires (croniter and the
time zone are external); `IsDue` is then literally `is_time_to_run`. An etag is not a
number: `valid[r]` is the set of schedules nobody rewrote since request `r` read them,
and a conditional replace succeeds iff the schedule is in it. `runs` is the reports
container and the command queue seen from the trigger: one record per claim, whose
`report` and `command` fields say what was stored and delivered. A push or a
`create_report` that raises may or may not have taken effect. `rewound` is a history
variable: the schedules a disable wrote back although somebody had changed them.

`next_run_at` is written and never read, so it is not modelled: a new schedule has
`last_run_at = None` and runs at the first poll, whatever its cron says.

| run | instance | shows |
|---|---|---|
| `schedule_runs` | 2 schedules, 2 requests, 2 instants, 3 disturbances, all faults | `TypeOK`, `OncePerInstantUnlessRewound`, `CommandsHaveReports`, `OnlyOverlapExceedsLimit`, `OnlyDisableRewinds` |
| `schedule_due` | 2 schedules, 2 requests, failing pushes, fairness | `DueIsAnswered`: a due schedule of an active, current agent ends in a command or a FAILED report |
| `schedule_twice` | 1 schedule, 2 requests | violation: a disable overlapping a claim lets one instant run twice |

`MaxDisturbances` bounds user edits, deactivations, releases and crashes. Three are
what it takes to create a schedule, disable it and enable it again; two requests make every
overlap of two handlers. Deadlock is checked: the timers poll for ever.
Fairness in `schedule_due`: handlers run to their end and the timer keeps polling.

`DueIsAnswered` asks for more than the claim, which moves `last_run_at` and nothing else: for a run newer than the
last one, with a command in the queue or a report that says FAILED. Crashes and
`report_error` are off in that run, because with either the property does not hold: the claim stands
(`trigger_scheduled_run_use_case.py:89`), and if the report after it cannot be stored (`:111-120`), or the
handler dies, the instant passes without a command and without a report. The document says that it prefers
a missed run to a double one; it does not say that nothing shows the miss.

Proved in `ScheduledRunProofs` for any number of schedules, crons, requests and instants:
`ScheduleTypes`, `CommandsBacked`, `RunsOncePerInstant`, `DisableAloneRewinds`; and, for a
finite set of requests that is not empty, `OverlapExceedsLimit`.
The invariant `SafeInv` behind `RunsOncePerInstant` and `DisableAloneRewinds` says: runs of a schedule that was
not rewound are separated by a cron instant; its stored `last_run_at` is at or after
each of its runs; a handler with a valid etag knows the stored `last_run_at`; an id that
was never issued has no trace. A claim then falls on `IsDue` of the *stored*
document, which puts an instant between it and all earlier runs (`ClaimAdvances`).

`SerialRunsOncePerInstant` proves the property that `schedule_twice` violates,
`OncePerInstant`, for one request at a time (`OneAtATime`), whatever fails and whatever a user
deletes between its steps. Neither etags nor `rewound` carry it: every copy of a schedule, stored or read,
knows all of its runs (`CopiesKnow`), since a disable's copy may miss a deletion but no
claim. A double run therefore needs overlapping requests, a disable among them.

`OverlapExceedsLimit` counts: stored schedules that no disable brought back, plus creations past
their check, stay below the limit plus the number of requests, because each creation saw
fewer than `Limit` when it was alone, and the others were at most the other requests.

Divergences: the finding of `schedule_twice`; and `FREE_SCHEDULE_LIMIT`
(`create_schedule_use_case.py:55-62`), checked before an await and not again, is exceeded by
creations that overlap and by schedules that `disable_by_agent` writes back after they were
deleted, whereas `docs/scheduled-diagnosis-architecture.md:128-130` states it without
exception. `OnlyOverlapExceedsLimit` is what remains.

## 5. Reports and diagnoses

`ReportLifecycle` models the reports and diagnoses of one agent: the report a user or
a schedule creates, the agent's diagnoses and status callbacks, and the resolution of a
diagnosis. It is the one place where the code uses optimistic concurrency seriously, so
`valid[q]` tells whether the report was rewritten since request `q` read it, as in
`ScheduledRun`; diagnoses and `mark_as_failed` are blind upserts.

| code | actions |
|---|---|
| `create_report_use_case.py` | `CreateReport`, `Push`, `PushFails`, `StoreReport` |
| `trigger_scheduled_run_use_case.py:99-149` | `ScheduledReport`, `PushScheduled`, `PushScheduledFails`, `MarkFailed` |
| `receive_diagnoses_use_case.py` | `Receive`, `StoreDiagnosis` (one `create_item` each) |
| `update_report_status_use_case.py` | `Callback`, `CompletedCallback`, `Recount`, `SaveStatus`, `SaveStatusRefused`, `Announce` |
| `update_diagnosis_resolution_use_case.py` | `Resolve`, `SaveDiagnosis`, `Count`, `SaveCount`, `SaveCountRefused` |
| replica restart, Cosmos error | `Abort` |

Of the summary only the total and the resolved count are kept: the others do not change
after the recount. A callback without status changes the error text only and is left out.
A failing `create_report` is `Abort` in `store`. The event and the notification are one task; the slot of its request
runs it (`announce`).

`CountsAgree` relates two documents that are written one after the other by several
handlers. It subtracts the resolutions between their two writes and excludes `raced`
reports; `Race` marks a report in exactly these cases: a second request resolving the
same diagnosis, `max(0, ...)` taking effect, giving up after three lost races or a crash
between the writes, and a recount that listed the diagnoses between the writes
(`exact`). A later recount without one of these heals the report, and the model says so.

| run | instance | shows |
|---|---|---|
| `report_counts` | 1 report, 2 diagnoses, 2 requests, 5 callbacks and resolutions, all faults | `TypeOK`, `AnnouncedOncePerCompletion`, `ManualReportsHaveCommands`, `CountsAgree`, `OnlyStoppedTasksLoseEvents`, refinement of `ReportBook` (`WritesAreOperations`) |

Two requests give every overlap of a resolution with another or with a recount; five calls
let one request lose all three retries to another. A handler only touches one report;
`get_initial`, the one query over several, decides `initial` and nothing else. Deadlock is not checked: when
ids and calls are used up and the handlers have ended, the modelled system stops.

`ReportBook` is what those who read the documents may rely on: each operation takes effect at
once on the documents stored at that moment and changes only the fields it is about. `Command`
is a delivered command; `CreateManual` and `CreateScheduled` store a report once; `Find` is
a diagnosis stored; `SetStatus` and `Complete` are the callback, the latter with a count of
diagnoses that exist; `Resolve`, `CountUp` and `CountDown` the two writes of a resolution; `GiveUp`
is `mark_as_failed`, the one operation that starts the document over, because it upserts the copy the
trigger made (`trigger_scheduled_run_use_case.py:142`). In `ReportLifecycle` each of them is a
read, awaits and a write, with others between them: `WritesAreOperations` says that the etags suffice
for it all the same. Without the etag a count overwrites the status of a callback, which is no
operation of the book.

Proved in `ReportLifecycleProofs` for any number of reports, diagnoses and requests, any
bound on calls and any faults: `ReportTypesHold`, `ManualReportsAlwaysHaveCommands`,
`EventsHaveCompletions`, `StoppedTasksLoseEvents`, `SummariesAgree` and the refinement,
`HandlersImplementBook`. The argument has layers, each an invariant that
uses the ones below it:

* `DocInv`: an id is used once, and what a current etag tells its holder — after listing,
  that its copy is the stored report; before saving a newly COMPLETED status, that the
  stored one is not; before saving a count, that its copy is the stored report adjusted.
* `BackedInv`: a copy that may be stored as ANALYZING is backed by a delivered command.
* `OwedInv`: announced plus about-to-announce is at most completed. A save that will
  announce holds an etag under which the stored status was another one. `AccountedStep` adds
  the converse for a single step: the report newly becomes COMPLETED exactly when the
  request that saves it starts a task.
* `SumInv`: the balance of `CountsAgree`, and for each unraced recount in flight the
  balance of *the count it is about to write* (`Recounted`). The latter is why a resolution
  that writes its diagnosis between the recount and the save does no harm: it moves
  both sides of the balance. `ResolutionCounts` and `CountedBalances` are the two
  cardinality facts. A step concerns one request and one report; `StepIsAlone` and
  `SumStep` reduce every action to what it does to those.
* `BookInv`: a report that is being created is not stored, and no two handlers create the same
  one; a status to be saved under a current etag differs from the stored report in nothing else; a
  recount counted diagnoses that exist; the agent sends diagnoses only for commands it got.
  `StepIsOperation` then finds the operation of the book behind each write.

Finite sets of diagnoses and requests are assumed (`ReportAssumption`), since `CountsAgree` counts them.

What does not hold, and the model reaches: an event per completion at *least* (a restart
before the task runs loses it, and a repeated callback finds no change of status; by
`OnlyStoppedTasksLoseEvents` in no other way); the end
of every ANALYZING report (the agent may call back before the report is stored and gets
404); a final status (nothing stops a later callback, and `mark_as_failed` overwrites a
report the agent completed). Nor is there one live initial report per agent: `get_initial`
(`repositories/report.py:148-164`) has neither an order nor a status filter, so after a
FAILED initial report and its successor it may keep returning the FAILED one
(`ShouldBeInitial`), and each later report is initial too;
`create_report_use_case.py:166` wants that only while the initial one is FAILED.

## 6. Insights

`InsightPipeline` models the documents of one agent, the queue, a worker per replica and
rebuild requests. All totals are sums over reports, so a document is the bag of reports it
counts. `Calendar` gives each period's key per day; the key is computed when an event is
processed, not when its report completed.

A report whose status a later callback takes back (`Reopen`) may complete, and be published,
again, as `ReportLifecycle` shows. The worker does not look at the status of the report it reads, the
rebuild does. A report that is missing or has no summary is dropped: nothing is written, and the message is
deleted like any other (`update_insight_use_case.py:20-23`, `insight_queue_worker.py:104`, here
`StartNothing`). `mark_as_failed` over a completed report takes its summary (`Reopen` with
`summaries'`), so a message that waits in the queue can meet one. `Complete` waits until the report's earlier message is deleted; two messages of one
report at once would do what a late timeout does, deliver the same event to two workers.

| code | actions |
|---|---|
| `insight_queue_worker.py` | `Receive`, `Start`, `StartNothing`, `ReportUnreadable`, `Delete` |
| `update_insight_use_case.py`, `azure_insight_repository.py` | `StartNothing` (no summary), `Get`, `Upsert`, `UpsertRaises`, `UpsertFails`, `NextPeriod` |
| `rebuild_insight_use_case.py` | `Rebuild` and `Advance` (from report to report), else as above |
| publisher, queue service, calendar, restarts | `Complete`, `Reopen`, `Reappear`, `NextDay`, `Crash` |

`UpsertRaises` deserves a remark. `azure_insight_repository.py:53` passes
`match_condition=True`. The pinned SDK (azure-cosmos 4.14.6) compares it with the members
of `MatchConditions` and raises `TypeError` for anything else, before a request is sent.
`update_insight_use_case.py:40` swallows it. So a document is written once and then
frozen, and `CountedOnce` holds because of it: a redelivered message meets a document it
cannot change. If it were the conditional write the comment above that line intends, a
redelivered message would be counted again: `update_insight_use_case.py` does not look whether
a report is in the totals already. The mutant of `UpsertRaises` shows that.

| run | instance | shows |
|---|---|---|
| `insight_events` | 2 reports, 2 workers, 1 rebuild slot, 2 periods, 2 days, 1 disturbance | `TypeOK`, `CountedOnce`, `DeletedMeansCounted`, `EventsAreProcessed` |

Two periods stand for four: a first one that changes with the day, and a last one that
does not. One disturbance (`MaxDisturbances`: a midnight, crash, Cosmos error, timeout that expires
while the message is handled, event that is not published, or report that is reopened) makes a message
be delivered twice and overlap itself.
Fairness: a worker that can go on does (the lifespan task loops for ever), and a message
whose timeout ended reappears (the queue service). Deadlock is checked.

`DeletedMeansCounted` asks, for each message that was deleted and each period, for a document that counts that
very report, or for the pair in `lost`. The history `lost` has a pair when a step is known to
lose it: no summary (`StartNothing`), a write that raised or was refused (`UpsertRaises`,
`UpsertFails`), or a blind write over the document that counted it (`Upsert`). Every report after the first of
a document is lost by `UpsertRaises`; what the property adds is that no crash, redelivery, late timeout
or second worker makes a period be passed over in any other way. `EventsAreProcessed` says that the queue
drains again and again (`[]<>`), rather than that each message is deleted once: a
report that completes again is announced again.

The rebuild counts old reports under today's keys and starts from the documents that
are there, although `docs/insight-system-design.md:239` calls it a full recomputation; with
`UpsertRaises` that means today's document shows the oldest report.

Proved in `InsightPipelineProofs`, for any reports, workers, rebuilds, periods and bound on
disturbances: `InsightTypes`, `CountedAtMostOnce`, `DeletedAreCounted`. The invariant adds
what a task knows of its copy: it counts the task's report, one it may still write counts no
report twice, and in every period before the current one of its loop the report is counted or lost
(`TaskInv`). `NothingUnsettled` shows that what is counted or lost stays so, because a document
that is overwritten goes to `lost`; this carries it to the deletion of the message and
beyond. `EventsAreProcessed` is liveness and stays with TLC.

## 7. Tenants

`TenantRegistration` models the one document of a tenant and the two handlers that write
it, with the state that Graph keeps beside it: the app roles of the tenant's users and
the teams in which the app was installed or tried. Its run checks the larger
`TenantNotifications`, of which it is a part (below). Both handlers read the document first
and upsert the whole of it last, and every Graph call between is an await.

| code | actions |
|---|---|
| `register_tenant_use_case.py` | `Register` (read, conflict check, lookup), `AssignAdmin`, `AssignOthers`, `Store` |
| `update_tenant_use_case.py` | `UpdateTeam` (teams_info alone) and `UpdateOperators` (with accounts): read, merge, lookup; `InstallApp`, `AssignMerged`, `Store` |
| Graph or Cosmos raises, 400, replica restart | `Abort` |

Abstractions. An account is its address; the user id stored with it is the user Graph
finds under the address (`UserOf`; two addresses may be one user's). A PATCH that brings an id along
skips the lookup; one that brings another user's id is not modelled. The lookups read nothing that
changes, so they are part of the first step (`Begin`), and one that finds nobody is an `Abort`. `team_id`
and `channel_id` are merged apart, as the code does (`update_tenant_use_case.py:49-61`): a PATCH may change
either, only a new team is installed, and a payload whose teams_info says nothing still writes the
document back. `service_url` is merged in the same way and left out, as no decision depends on it. Roles
are never taken away: the code has no call for it, and an administrator who does
it in Entra ID is outside. Callers of PATCH are users whose token carries one of the
roles and `DirectoryAdmins`, whom `identity_extractor.py:111` makes tenant administrators
without a role of the app; a machine identity (`CI_CD`) is one of the latter that no
address names. `ensure_app_installed_in_team` counts as an attempt (`tried`) whether or not Graph
accepts, as the handler ignores its result; `TEAMS_APP_ID` is configured.
`registrant`, `excused` and `initial` are history fields of the document: who registered,
who was left without a role by the request that wrote it, and whether the team is still the one of the
registration. `fresh[q]` is a history variable: nobody wrote since `q` read. No guard
reads them.

| run | instance | shows |
|---|---|---|
| `tenant_accounts` | 2 users (u1, a directory administrator stored under an alias; u2 under the address in his token), 2 teams, a channel, 2 request slots, 1 notification slot, 3 requests, 2 notifications, aborts anywhere | `TypeOK`, `OperatorsHaveRoles`, `RegistrantIsAdmin`, `TeamsAreTried`, `OnlyStaleWritesUndo`; `GuardAdmitsExactly`, `OperatorsAreLetIn`, `HistoryIsHonest` |

Two slots give each overlap of two handlers; the third request lets a registration be
followed by two overlapping updates. `MaxBeside` is a bound of its own: once a notification was sent,
one request is all that may have begun (`Room`). It keeps the notifications from multiplying with all that
three requests do, and costs little, since a notification reads the document once, in `Announce` or
`Delegate`, and no other property depends on it. Two notifications in a row leave two records. The symmetry is in the
requests and in the teams. Deadlock is not checked: when all have arrived and ended, nothing is left
to do.

Proved in `TenantRegistrationProofs`, from `TenantAssumption` and `NoneAssumption`, for any
users, addresses, teams and number of requests: `TypeCorrect`, `RolesBeforeDocument`,
`AdminBeforeDocument`, `InstallBeforeDocument`, `FreshWritesMerge`. None of the properties is
inductive, since what is stored was put together in a private copy. `IInv` says what each
copy satisfies at each point of its handler: a draft belongs to its caller (`Drafted`), a
copy about to be stored is `Good` and `Staffed` as the stored document is, and a copy of
a fresh request is the stored document with the payload merged in (`Merges`) or there is no
stored document yet. Roles and attempts only grow (`Grows`), and a step moves one request
(`Apart`); `OthersStay` and `Assemble` use the two to reduce each action to its own
request.

What does not hold, and the model reaches:

* Two registrations pass the check together and the second replaces the document of the
  first, and whatever PATCH stored in between; two PATCHes lose one's operators.
  `docs/tenant-registration-architecture.md:106` calls the registration idempotent.
* The app is in the channel's team: the registration installs nothing, and a PATCH that
  names the stored team again skips the installation (`update_tenant_use_case.py:51`), so
  a failed one is never repeated. `TeamsAreTried` is what remains.
* The channel is in a team with the app, or in the stored team at all: `channel_id` is stored
  apart from `team_id` and from any installation, so a PATCH may leave the channel of the old team, or name one
  of a third. Nothing in the code relates them, so no property does.
* A PATCH cannot remove an operator: the payload is merged, and
  `remove_privileged_account` has no caller.

### Access and notifications

Two things rely on what a registration leaves behind. `AccessControl` has the decisions made
on a token, as operators without state: `IdentityType` is the cascade of
`identity_extractor.py:104-123`, `Identified` and `Administers` are the two guards the routes
declare (the route sets list which route declares which; `AdministratorRoutes` adds the PATCH of the
tenant, which asks for an administrator in the handler), `OpenTo` is what a token opens. `Exchange` is
`get_obo_token` with what Entra ID may reply (`Replies`), `TenantStatus` is `GET /tenants/me` and
`SeesSubscriptions` the filter of `GET /tenants/me/subscriptions` and `GET /agents`. A token
is its claims, whether its signature is genuine, and whether it has expired.

`TenantNotifications` extends `TenantRegistration` with `NotificationService`. The service reads
the tenant once; each message is a step of its own, in any order (`asyncio.gather`), while other
requests replace the document.

| code | actions |
|---|---|
| `notification/service.py:62-210` | `Announce` (read), `PostCard`, `Tell`, `Conclude` |
| `notification/service.py:212-278` | `Delegate` (read), `TellDirectly`, `Answer` |
| `bot_service.py`, `graph_service.py:215` refusing a message | the second disjunct of `Reach`, `ok = FALSE` in `PostCard` |
| no bot token, no conversation, replica restart | `Break` |

A notification is its kind, the messages still to be answered (a card to the channel, a message per
stored address), and how many succeeded; `arrived` is history. Wording and cards are left out. Each message has one of
`Outcomes`: it is answered with success, refused, or raises, and one that raised or was refused may
have arrived all the same. `records` keeps what `Conclude` stores. The card goes to the `channel_id` of the
agent's own teams_info if it has one, else to the tenant's (`CardChannel`). `FreshToken` is the token
Entra ID would issue to a user now, from the roles `TenantRegistration` keeps, in the provider's own tenant or
another (`platform`), with or without the provider's `PlatformAdmin`; `MachineToken` is that of an
application. `SignsInAs` says which stored addresses equal the one in a user's token; an alias is
none of them. `Listed` and `Registered` compute what `get_subscriptions_use_case.py:18-40` computes.

* `GuardAdmitsExactly`: cascade, guard and the handler's own condition open the routes of administrators to
  exactly the users with a role, the directory's administrators, platform administrators in the
  platform's tenant, and applications, whatever they combine.
* `OperatorsAreLetIn`: a stored operator whose assignment did not fail passes every guard and sees the
  subscriptions even under an alias; one whose assignment failed sees them if the stored address is the one in
  his token (under an alias he is refused). `GET /tenants/me` never tells a stored operator that the tenant is
  missing, and that he is only if Entra ID says so.
* `HistoryIsHonest`: a record counts at least one recipient and no more than got the message.

`TenantNotificationsProofs` shows that `NotifySpec` implements the registration
(`RegistrationCarriesOver`), so all theorems about it hold here too, and proves the three
properties: `GuardIsExact`, `OperatorsEnter`, `RecordsAreEarned`. The first two need the invariant of the
registration, of which `RolesBeforeDocument` is a part; the third an invariant of a notification under
way: no more succeeded than arrived.

That the card reaches its channel cannot be promised: see the channel above. Nor has an agent's own
teams_info without a channel a fallback: it wins over the tenant's and no card is sent
(`notification/service.py:82-90`, whose comment at `:77` announces an override with a fallback).

Divergences met here: `get_tenant_status_use_case.py:50` answers an administrator whose
exchange failed with advice to register, although the tenant is registered and a registration
would get 409; the docstring of `is_privileged` (`core/auth/models.py:58`) leaves out `CI_CD`;
the list of packages says "operators only" but `package/router.py:90` asks for an
identity only; nothing passes `triggered_by` to `notify_analysis_completed`
(`update_report_status_use_case.py:95`), so its title for scheduled reports is never used.

## 8. Client setup and packages

`ClientSetup` follows an agent into a customer's subscription and keeps the package it
runs. `setup[t]` is how far tenant `t` is; `packages` the blobs of the container;
`cachedSp[r]` the field `_cached_sp_id` of replica `r`.

| code | actions |
|---|---|
| `get_subscription_setup_info_use_case.py`, `arm_service.py:107` | `SetupInfo` (with `MayDeploy`) |
| `template.py` `get_client_template`, `graph_service.py:147-164` | `FromCache`, or `AskGraph` and `GraphAnswers` or `GraphFails`; then `HandOut` |
| `package/repository.py`, `package/usecases/` | `Upload`, `Latest`, `WithVersion`, `Download` |
| `request_agent_update_use_case.py` | `RequestUpdate` (the package side; the status is in `AgentLifecycle`) |
| Azure, Entra ID, the platform | `Consent`, `Deploy`, `StartAgain`, `LinkExpires`, `StartFromLink`, `Restart` |

Abstractions. A tenant stands for the id of its service principal, which Entra ID makes
different in every tenant. A file is a model value; `Rank` is its place in the order of
names, `Release` and `Candidate` the numbers of its version, and `Mentions` says in which
names its version occurs as text, which is all that the two lookups tell apart. They
differ: "latest" compares lists of numbers (`Less` on `Numbers`, where the candidate's
`0-rc` drops out because it is no number), the lookup by version takes the first name
that contains it. `HandOut` may always write "latest", as the listing may raise. Two files of
equal `Numbers` are ordered by name, downwards, since both sorts are stable. Packages are
never removed: the code has no operation for it.

| run | instance | shows |
|---|---|---|
| `client_setup` | 2 tenants, 2 replicas, 4 files: v1.10.0-rc.1, v1.10.0, v1.9.0 and one without a version; 68 472 states | `TypeOK`, `LinkMeansPermission`, `PrincipalsExist`, `TemplatesStayInstallable`, `RunsFrozenOrNamesake`, `FrozenReleaseIsNewest` |
| `template_principal` | the same with the 2 releases | violation: `TemplateNamesOwnPrincipal`; the cache of one `GraphService` per process answers for all tenants |

The two releases are in one order by name and in the other by number, and the
candidate's name contains the release's version and sorts before it: each way in which the
two lookups disagree has an instance. Nothing is counted, so the state space needs no
bound besides the constants. Deadlock is not checked: a tenant whose update link
has expired, in a world where everything is uploaded, may have nothing to do but repeat itself.

The principal in the template gets the right to send messages to the agent's queue
(`infra/client/modules/functions.bicep:173`), so the second customer's agent gets no
commands, or its deployment fails because the id is unknown there. The model leaves out what
the deployment does with it. What is left of the promise is `PrincipalsExist`.

Proved in `ClientSetupProofs` for any tenants, replicas and finite set of files, from
`SetupAssumption`: `SetupTypes`, `LinksNeedPermission`, `NamedPrincipalsExist`,
`FrozenVersionsStay`, `FrozenOrNamesake`, `NewestIsFrozen`. Most of the work is about the data:
`Less` is a strict weak order of sequences (`LessAsymmetric`, `LessSplits`), so with the names
to break ties `Precedes` is total and transitive, and in a finite set such an order has a first
element (`FiniteHasFirst`: a smallest set without one cannot exist, since strict inclusion is
well-founded on finite sets). Hence the `CHOOSE` in `Latest` and in `WithVersion` denotes a
package. The invariant `Good` then says per tenant what its stage promises; it only grows
truer while consent and uploads grow.

What does not hold, and the model reaches:

* A deployed agent runs exactly the frozen package: a candidate uploaded later answers
  for the release (`RunsFrozenOrNamesake` is what remains).
* The frozen version is the newest of *all* packages: of "1.2.0-rc.1" the numbers are
  1, 2, 1, which is above 1.2.0.
* An updated agent can always start: its SAS link is valid for 60 minutes
  (`repository.py:261`), and nothing renews it (`LinkExpires`, `StartFromLink`).
* A version that is not there is a 404: `download_package_use_case.py` raises one inside
  its own `try` and answers 500.

## 9. Not modelled

* `RecalculateMetricsUseCase` is never called: the resolution use case is built without
  a publisher (`report/dependencies.py:83-87`), so no `diagnosis_resolved` event exists.
* Reads: report, agent and schedule lists, the long poll of `get_report_use_case.py`,
  dashboards, the listings of teams, channels and resource groups.
* I/O proper: HTTP, signatures of tokens, the client credential, message cards, mail. Their
  outcome (granted, refused, failed) is a choice in the models.
* The package repository in the file system, for development; guards that no route uses.
* The license router, a stub; the support mail, which keeps no state.
* Liveness (`DeactivatingEnds`, `UpdatingEnds`, `DueIsAnswered`, `EventsAreProcessed`) is checked by
  TLC only: fairness is out of the proof system's reach.
* Bicep templates, scripts and the front-end assets.
