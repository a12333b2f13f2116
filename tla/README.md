# A TLA+ verification of GPO Remediator

GPO Remediator changes Group Policy Objects (GPOs) of a Windows domain under the
credentials of an operator. Its promise is not speed but restraint: a reviewed
change is written at most once, to the GPO it was reviewed for, with a complete
backup, never beside another change of the same GPO, and a restore never
overwrites what somebody else did in the meantime. The service, the PowerShell
worker on the domain controller (DC) and other administrators all act
concurrently, and each of them can stop at any point. This directory states those
promises over models of the code, checks them with TLC and proves the most
important ones with TLAPS.

## 1. Inventory

| Part | Code | State | Operations | What makes it hard |
| --- | --- | --- | --- | --- |
| Operation gate | `backend/Services/OperationGate.cs` | maintenance flag, running operations, reservations (process-local) | `Reserve`, `Release`, `BeginOperation`, `EndOperation`, `BeginMaintenance`, `EndMaintenance` | three kinds of callers; a reservation outlives many operations |
| Server workflows | `backend/Services/WorkspaceWorkflows.cs` | workflow records (durable), channel of 16 work items, one reader, one follow-up task per workflow | `Preview`, `Scan`, `Start` -> `Enqueue`; `ExecuteAsync`/`Process`; `VerifyLater`; recovery; shutdown | records, channel and reservations are written one after the other; follow-ups run without a reservation |
| Operation execution | `GpoWorkflowService.ExecuteAsync` | run records (durable) | apply, rollback, verify, refresh for a workflow or a direct request | checks before the claim and again under it |
| Store | `backend/Infrastructure/Store.cs` | SQLite tables, audit chain | one durable statement per `Put`; recovery of interrupted runs | crash between two statements |
| Transport | `WindowsPowerShellExecutor.cs`, `Invoke-GpoWorkflow.ps1` | one local process per operation | run with a timeout | a timeout ends the wait, not the remote process |
| Worker | `backend/PowerShell/GpoWorkflow.Worker.ps1` | manifest per operation, lock file per GPO, backup, the live GPO | `gpoPreview`, `gpoApply`, `gpoVerify`, `gpoRefresh`, `gpoRollbackInspect`, `gpoRollback` | killed anywhere; other tools edit the GPO; verification and rollback preview take no lock |
| Sessions | `GpoWorkflowService` (connections), `OperatorConfirmation.cs` | connection table, confirmation proofs | connect, renew, expire, disconnect | expiry races renewal and long operations |
| Batch rules | `backend/Domain/BatchWorkflowRules.cs` | none | order dependent controls | boundary of the lockout rule |
| Control mappings | `ProductionGpoMappings.cs`, `GpoWorkflow.cs`, ... | none | validate values and targets | data rules |
| Launcher and service control | `GpoRemediator.ps1`, `scripts/ServiceControl.ps1`, `Control-Panel.ps1` | marker files, child process | start, watch, restart, recover, stop | markers written and deleted by different processes |
| Browser: change plan and change gate | `frontend/source/workspace.js`, `control-view.js` | selection, plan, review, confirmation, write-resume record of the tab | choose, preview, tick, confirm, apply, open the gate, sign in again | one restart in the middle; the page stays usable under every request |
| Browser: batch of controls | `bulk-apply.js` | selection, draft key, revision, job, typed word | select, preview, approve, follow, roll back, reopen | lost answers, late polls, abandoned dialogs |
| Browser: settings panel | `automation.js` | panel, known process, busy flag | load, save, switch, detect, watch for the restart | the restart ends the process that answers |
| Browser: requests and sign-in | `client.js`, `operator-sign-in.js` | requests in flight, the prompt and who waits for it | send, cancel, page the history, reconfirm | concurrent requests share one prompt |
| Browser: connection and polls | `workspace.js`, `operation-monitor.js` | process, mode, account, recorded operation | probe, poll, refresh, sign in, assess a rollback | four writers of one state object |
| Browser: verdicts and journal | `ui-domain.js`, `product.js`, `components.js`, `operation-view.js`, `enterprise-center.js` | none | classify, order, filter, search, page | many functions judge one record |
| Browser: values, targets, pickers | `value-editor.js`, `manual-remediation.js`, `control-view.js`, `gpo-scope-picker.js`, `list-pager.js` | drafts, form, expanded branches | edit, choose, submit | the form, the script, the service and the worker each have their rules |
| Browser: assurance, guides, dialogs | `assurance.js`, `remediation-guides.js`, `workspace.js` | form and answers; backups; inert elements | ask, answer; run a block; open and close | answers after edits; interrupted scripts; three scripts share one page |
| Script workspaces, file protection, request pipeline, diagnostics, catalogue and preferences, release scripts | see `PROJECT.json` | little or none | | |

How they interact: a browser request either submits a workflow (validated, given
a durable record and a place in the channel, and for writing workflows the
reservation of its GPO) or runs one operation directly. The background reader
takes work items one at a time and calls `ExecuteAsync` for every step, as do
direct requests and follow-up tasks. `ExecuteAsync` checks, claims the GPO in the
gate, writes the in-progress record, waits for the worker and writes the outcome.
Maintenance (stop, restart, saving the configuration) takes the gate when nothing
runs, is reserved or is recorded as running.

The browser client is a set of scripts that share one state object and one page.
`run()` in `workspace.js` lets one task at a time through, but probes, polls, timers and
the operator's clicks go on beside it; the settings panel, the sign-in prompt, the batch
dialog and the assurance page have busy flags of their own. What it sends is a plan
id; the service, which made the plan, decides what it means. The client's part of the
promise is therefore that the operator confirmed what is sent, under the account and
of the process that it is sent to, and that what it shows was measured.

`PROJECT.json` lists every component with its status, and under `hazards` what in
this code is hard to test, at the line where it bites.

## 2. Modules

| Module | Models | Correspondence |
| --- | --- | --- |
| `OperationGate` | the gate | every method is an operator under the C# lock: its guard is the negation of what the method throws |
| `WorkspaceWorkflows` | workflows, execution, store, process life; extends `OperationGate` | `job`/`run` are the tables, `queue` the channel, `reader` the local state of `Process`, `follow` that of `VerifyLater`, `call[c]` the invocation of `ExecuteAsync` by caller `c` |
| `GpoCustody` | abstract: who may work on a GPO, and which workflows are open | implemented by `WorkspaceWorkflows`: `holder` is the gate's reservations, `work` the operations in progress, `standing` the records, open until they have their outcome, `told` the plans whose apply reached the worker, `up` that the recovery of a start has run |
| `WorkspaceWorkflowsProofs` | theorems about the gate's part of it | |
| `WorkflowRecordsProofs` | theorems about the records, the reader and the follow-ups, and that the service implements `GpoCustody` | |
| `GpoWorker` | the worker's processes on one GPO | `proc[w].m` is the copy of the manifest the process holds; each step ends where the code saves it, changes the GPO or reads the GPO |
| `ProtectedGpo` | abstract: what the program may do to a live GPO that others edit too | implemented by `GpoWorker`: `begun` are the operations whose writing started, `writer` is what the stage of the process that has the lock file says (`Role`) |
| `Launcher` | the launcher loop, its marker files, the backend processes and their native callers | `registered`, `stop`, `restart`, `config` are the files under `ProgramData`, `sup[s]` a launcher process, `proc[p]` a backend process, `client[c]` a Control Panel or Stop script |
| `LauncherProofs` | theorems about it | |
| `ReviewedChange` | abstract: only the plan on the screen is applied, and only after it was confirmed | implemented by the next two modules |
| `ChangePlan` | the control page: target, access check, preview, review, confirmation, change gate, restart, sign-in, reload | `planPage` is `state`, `doing` the task of `run()`, `stored` the record in `sessionStorage`, `backend` and `plans` the service |
| `ChangePlanProofs` | theorems about it | |
| `BulkApply` | the batch dialog | `bulk` is the dialog's closure, `post` and `look` the submission and the poll in flight, `jobs` the service's workflows |
| `BulkApplyProofs` | theorems about it | |
| `Settings` | the settings panel and the restarts it causes | `panel` its closure, `task` the load or action in flight, `service` the backend process |
| `Transport` | `request`, `history` and the operator's confirmation | `active` the requests, `signIn` the promise all of them share |
| `Console` | connection, probe, poll, refresh, promotion and the recovery assessment | `con` is `state`, `duty` the task of `run()`, `probe` and `poll` what is in flight |
| `Verdicts` | every view's judgement of one recorded operation | each operator is the function of that name; `record` goes through the states the worker can leave |
| `PolicyValues` | value editor and manual script against the service's mapping | `sel` is the selection, `script` what the overview rendered, `prepared` the plan |
| `Targets` | the target form against mapping, preview and worker | `choice` is `state.selection` |
| `ListPager`, `ScopePicker`, `Journal` | paging, the tree of scopes, the lists of operations | one operator per function |
| `Evidence` | the assurance page | `context` is the account it was last drawn for, `reading` the request in flight |
| `Guides` | the guided local procedure for Defender | `block` is the position in the generated script |
| `Dialogs` | what is inert under which dialog | `inertFor`, `rootInert`, `rootHidden` are the attributes three scripts set |
| `PagesProofs` | theorems about `Console`, `Verdicts`, `Targets`, `Evidence`, `Guides` and `Dialogs` | |
| `RequestsProofs` | theorems about `Settings`, `Transport` and `ListPager` | |
| `GpoWorkerProofs` | theorems about `GpoWorker` | |
| `MCBatch`, `MCSubmit`, `MCLive`, `MCWorker`, `MCWorkerPreview`, `MCLauncher`, `MCRequests`, `MCPages` | instances for TLC | |

Names ending in a variant of an operator (`AcceptsAgain`, `CanBeginTogether`, ...)
are plausible mistakes of that code. They are not part of the specification; each
one breaks the property `PROJECT.json` lists it for, which shows that the property
depends on the code.

### WorkspaceWorkflows: where a step begins and ends

The interesting atomicity is the code's own:

* `Validate` runs without the lock; `EnqueueAccepts`, `EnqueueRefuses` and
  `EnqueueSaveFails` are what one `Enqueue` under the lock can do. Two requests with
  one id may both validate before either is accepted.
* A call of `ExecuteAsync` is `Invoke` (checks before the claim), then `Claim`,
  `ClaimAnswered` or `ClaimBusy` (under the gate, with the record as it is then),
  for a refresh also `RefreshLive`, then `WorkerReturns`. The caller sees the
  answer in a step of its own.
* The reader records an operation as completed before it judges its result
  (`StepDone`), marks the operations of a restored batch one record at a time
  (`Mark`), finishes the record (`FinishJob`) and only then gives the reservation
  back (`ReleaseJob`).
* `Crash` may fall between any two steps; `HostStops` is a graceful stop that the
  reader and the follow-ups see before their next step, after which `Exit` may end
  the process whatever is still running. Queue, reader, follow-ups, calls and gate
  are lost; records stay; `Restart` and `Recover` are what the next start does.

What the worker may answer is a set (`Outcomes`), constrained only by what the
worker guarantees: for instance a verification of an operation whose restore was
confirmed never reports it as published. `GpoWorker` models where these answers
come from; that they are among `Outcomes` was compared with it by hand, and one case is
left out: a rollback that the service gave up on before it had the lock can save its old
copy of the manifest after the restore, and a later apply of the same values would then let
the restored operation pass for published.

Abstractions: one operator (the limit on unfinished workflows is per operator);
one refresh group per batch; per-host refresh results (where both outcomes of a
refresh are possible, both are allowed); `VERIFY_MISMATCH` is folded into
`REVIEW_REQUIRED` and `ROLLBACK_DRIFT_DETECTED` into `DRIFT_DETECTED`, which the
code treats alike here; read-only preview and scan workflows are one action; the
session is a possible `LOGIN` answer at every use; target authorization, plan
expiry and mapping changes are a possible `REFUSED`.

### GpoWorker: whose view of the GPO

`gpo.rev` stands for the fingerprint: it changes with every change of the GPO and
never returns to an earlier value. The fingerprint of the code is a hash of version
numbers, content, links and permissions, so equal fingerprints mean no change in
between. `own`, `wrote` and `starts` are history variables used by properties only.

`Overlap` says whose changes may fall into the windows in which a process has
compared or changed the GPO and then reads the fingerprint it saves. With `"none"`
the properties hold. `"edits"` lets other tools in: an edit between the worker's last
write and its read-back (`GpoWorkflow.Worker.ps1:1330,1332`) is then adopted as the
worker's own and a later rollback overwrites it, so `RestoreLosesNothing` fails; the
code cannot close this window against tools that know no lock. `"processes"` lets the
program's own concurrent processes in; the run `preview_adopts_write` shows what
happens then. This is the one assumption about the environment the worker's
protection rests on, and it is named for that reason.

Not modelled in the worker: domain-policy attributes written to AD, legacy manifest
formats, refresh, inventory, explain, and the content of policy files.

### Launcher: who speaks to whom through which file

The launcher, the backend and the native callers share only files. A position `pc`
of a launcher is the stretch of the script between two points at which somebody
else's write can matter: `claim` (markers deleted, mutex not yet asked for), `inspect`
and `migrate` (`Stop-StaleProductInstance`, `Stop-OrphanedRuntimeProcesses`), `prepare`,
`boot`, `register`, `probe`, `abandon`, `watch`, `finish`, `judge` (`Start-Application`,
which reads the markers in four places) and `decide` (the loop). `abandon` lies between a
readiness probe that failed for good and the end of the process (`GpoRemediator.ps1:459-461`
and `490-492`): the launcher sleeps, and the process may by then serve, be busy or be gone;
it is ended all the same. `Fatal` is the outer catch block,
which deletes all three files whoever they belong to; `Leave` is the finally block.

* Two launchers are two extracted releases (`FolderOf`): a launcher of the release
  that runs is refused, one of another release asks the running one to stop.
* The backend serves its gate: `BackendStops`, `BackendRestarts` and `SaveConfig` are
  possible only when `BeginMaintenance` lets them through, that is, when it is not busy.
* `StopScriptClears` and `ClientClears` are the Stop script's own deletions, when nothing runs
  and, whatever runs by then, once the launcher it stopped is gone
  (`Stop-GpoRemediator.ps1:6,14`). They and `Fatal` may delete a marker before the launcher
  read it. A stop lost in that way is remembered as `asked = "lost"`: the properties about
  confirmed stops speak of the others, and say so.
* `PrepareFails` and `BootFails` may be classified as any fault, as the text of the
  exception decides.
* `asked`, `boots` and `doomed` are history variables; only the properties use them
  (and `Unused`, which recycles a process id when nobody holds it, uses none).
* The throw at `GpoRemediator.ps1:689` is a branch of `DecideSetup`, and TLC never takes it:
  whoever opens Setup sets `setupRecoveryUsed`, and only a requested restart leads from
  Setup to Windows, which resets it. A launcher that cannot start Windows therefore
  always ends up in Setup; it gives up only where an exception says so.
* Time is abstracted: a timeout may happen whenever its condition is not yet met, 300
  seconds of health are a possible answer of `Judge`.
* `doomed` marks a process that lives under a marker its own gate did not grant: the
  emergency stop asks no gate, and the second write of a promotion
  (`scripts/ServiceControl.ps1:49-51`), which nothing bounds in time, may come when the process
  that accepted the restart has long been replaced. The property about busy processes
  names these, and the second does happen (see "Other disagreements").

### The browser client: one module per script or concern

The models keep what the scripts read before and write after an `await`, every early
return, and every answer the service may give, lost and late ones included. They leave
out layout, texts and, but for names in the scope picker, characters. A control with its
GPO, scope and values is one member of a small set where only equality counts
(`ChangePlan`, `BulkApply`), and is taken apart in the module about it (`PolicyValues`,
`Targets`).

* `ChangePlan`: `ChooseTarget`, `EditSelection`, `UseDefaults`, `selectRule` and
  `ensureSelection` are the ways to another target; each resets what that handler
  resets, which is the subject of a finding. `LearnRestart` and `LearnExpiry` are the
  probe, the polls and the fault handler, as far as this page is concerned.
* `BulkApply`: the revision counter and the draft key are the code's defence against
  answers that come late; a submission's answer is taken whatever happened since, as in
  the code.
* `Settings`: `overlapped`, `overlap` and `unseen` say when the panel no longer knows the
  process that accepted its change; they are history, and the property names them.
* `Transport`: the requests, the shared prompt and `confirmed`, the server's side of it.
* `Console`: four writers of `con`. `unprobed` marks the places that set the process
  without dropping the account, until the next probe. A sign-in whose second read succeeds
  goes on to the readiness check in the same task.
* `Verdicts`: `record` is built by the operations of the worker (an apply, checks page by
  page, refreshes, restores, each of them interrupted), so that only records that can
  occur are judged. `mismatched` and `MeasuredThroughout` are the reference.
* `PolicyValues`: one control of each kind in the catalogue. `Effective`, `Validate` and `PreviewOf` are
  the service's side (`ProductionGpoMappings.cs`), `effective` and `generate` the browser's.
* `Targets`: the form coerces one field when another changes, each time it is drawn and
  each time it is read; the guards of the service and the worker are operators beside it.
  `Reselect` chooses a recorded target again: a dependency and the way back, a replan, a
  selection resumed after a restart.
* `ScopePicker`, `Journal`, `ListPager`: the functions on lists and trees, with the
  handlers that change query, branch and page. A name is a sequence of one-letter
  tokens; the directory has an escaped comma and a container that is no target.
* `Evidence`: the account ends, or another one signs in, under the page; what belonged to
  the earlier one is dropped when the page is next drawn. So the property speaks of a page
  that is shown, and of the account it was drawn for; that account is the connected one
  unless it has ended since or a sign-in is not over.
* `Guides`: `RunApply` and `RunRollback` start a block, each command is an action,
  `Interrupt` ends it anywhere, and management sets and protects values in between.
* `Dialogs`: `inert` is set and cleared by the workspace, the panel and the sign-in, who do
  not know of each other.

`MCRequests` and `MCPages` put such modules side by side. They share no variables; what
one does to another (a restart, another account, another record) is an action of the
other's own module. The variable `part` chooses the one that runs while the others stand
still in an initial state, so that the state space is the sum of theirs, not the
product. No behaviour of a part is lost by this, as no action of a part reads another's
variables. `MCWorker` does the same for two shapes of one worker instance.

## 3. Properties and runs

The runs of the server, the worker and the launcher check for deadlock: maintenance, a
restart or another start is always possible. `requests` and `pages` do not, because their
parts really may come to rest: a procedure that was interrupted on a protected
endpoint, a dialog after the last allowed revision, a page without an account whose
service has reached the bound on processes.

| Run | Instance and bounds | Shows |
| --- | --- | --- |
| `batch` | a batch of two controls (the second previews anew into a third plan) with refresh, its recovery, one direct client, one process end | exclusion, batch order, coverage of the recovery, the meaning of COMPLETED |
| `submit` | two applies of one plan (symmetric) and a scan; `MaxUnfinished` 2, `QueueBound` 2; a save that throws, requests before the recovery of a restart, one process end | no double apply, no leaked reservation, quiet maintenance |
| `live` | an apply with two scheduled rounds and a competing verification, one process end, fairness | every accepted workflow is closed; the service implements `GpoCustody`, so what is closed stays closed; skipped checks are remembered; the inductive invariant of the proofs |
| `worker` | side by side: one operation with two processes, one of which may have been given up on, previews, kills and edits; and two operations restored separately or with an anchor, one process at a time | write-ahead manifest, faithful snapshot, proving fingerprints, safe restore; the processes together implement `ProtectedGpo`, so nothing is replayed |
| `launcher` | two launchers of two releases, one native caller, two process ids, one recovery attempt, fairness of the launcher | at most one backend; a busy one ends by a crash, a launcher that gave it up before it was ready, or a marker its gate never granted, and by nothing else; a confirmed stop is final and ends the launcher; recovery is bounded; the inductive invariant |
| `requests` | side by side: batch dialog (two controls, two targets, two revisions, three jobs, two connections), control page (two targets, two plans, one restart), settings panel (three processes), requests (two slots, pages of one run, three runs) | both review forms implement `ReviewedChange`; plans end with their process, but for a sign-in beside a live account, and follow the form; a restart is reported when it happened; the history is one snapshot |
| `pages` | side by side: connection (three processes, two versions of the record), verdicts (two endpoints), values, scope picker, journal (two controls, GPOs, runs and times), assurance (two accounts, two subjects), guide (two endpoints and a controller), targets (two OUs and the root), dialogs | see the properties: each relates what is shown or sent to what was measured, chosen or recorded |
| `batch_restored_record` | as `batch` | violation: see findings |
| `record_before_processing` | as `submit` | violation: see findings |
| `preview_adopts_write` | `MCWorkerPreview` with `Overlap = "processes"` | violation: see findings |
| `launcher_second_start` | as `launcher`, without a caller | violation: see findings |
| `approval_carries_over` | as `requests` | violation: see findings |

Why the bounds are enough. Two unfinished workflows and a queue of two reach the
limits that four and sixteen have in the code, with the same comparisons. One GPO
is where everything conflicts; workflows on different GPOs meet only in the gate,
which the proofs cover for any number of GPOs, and in the one reader, which takes
them one at a time. Two or three workflows, or a workflow and a direct
client, give every pair of callers.
One process end gives a crash at every point and a restart over what it left; the
second process has the same start, so a second end adds only longer histories. Two
worker processes are an orphan and its successor. A third round, a third batch
member or a third process only repeats an iteration whose first and last passes
are both present. In `launcher` a second launcher is the intruder of a first one, and a
third would meet the same mutex; two process ids let an old process live while a new
one could be started. One recovery attempt instead of three has both the attempt
and its refusal, and the proof covers every number. In the browser modules two of
everything make "the same" and "another"; one restart makes an earlier and a later
process (the settings panel and the connection get two, to be told of a restart while they
watch one, and to find an account of the process before the last); two
plans are the one that was confirmed and the one that replaces it, and for these the
proofs of `ChangePlan` and `BulkApply` cover every number. Pages of one or two rows
put a page boundary into lists of two to five.

Fairness (`live`): the reader, each call and each follow-up are weakly fair because
the .NET runtime schedules them and every worker run has a timeout
(`WindowsPowerShellExecutor.cs:33-42`); the end of a shutdown is fair because the host
has a shutdown timeout; a restart is fair because the launcher starts the service
again. Requests, maintenance, stops and crashes are not fair. In `launcher` each
launcher process is weakly fair, as its loop polls every 300 ms and all its waits have
a deadline; nothing is assumed of backends and callers. `requests` and `pages` assume
no fairness: an operator may leave at any time.

### Findings

* `batch_restored_record`: the check that keeps a verification or refresh away from
  a batch-restored record is made before the claim and not repeated under it
  (`GpoWorkflowService.cs:274-275` against the comment at 301-302).
* `record_before_processing`: a failed save leaves a work item in the channel
  without its record (`WorkspaceWorkflows.cs:30-31` against the comment at 108); the
  reader then faults. `submit` shows that no approval is executed twice for it.
* `preview_adopts_write`: the rollback preview, without gate or lock, saves a
  fingerprint read after its comparison (`GpoWorkflow.Worker.ps1:1458-1460`).

* `launcher_second_start`: a refused second launcher deletes `service.json` and the
  markers of the running instance (`GpoRemediator.ps1:696` against the messages at 436
  and 576), which the Control Center then takes for stopped.
* `approval_carries_over`: a review ticked for one target stays ticked when another GPO
  or scope is chosen, recommended values are restored or a preview is submitted
  (`workspace.js:342,346` against `RELEASE-NOTES-WORKFLOW-3.2.1.md:4`). The confirmation
  itself does not carry over, which is what `PlanIsReviewed` shows.

Worker instances that fail under `docs/ARCHITECTURE.md:35` do so only in the read-back
windows; `worker` shows that the protection holds outside them.

Other disagreements of code and text were met while modelling. They are written into
the models as they are, and into the property where it needs an exception:

* A native restart of Setup passes the idle gate of that process; the caller then
  overwrites the marker with the one that asks for Windows, outside the gate. When the
  launcher was faster, the next process is ended by it, busy or not
  (`ServiceControl.ps1:49-51` against the gate that
  `docs/AUTHENTICATION-2026-10-20.md:14` speaks of): `doomed = "promotion"` in
  `BusyEndsAreOverruled`.
* A plan for the earlier target may be put beside a form that was changed while its
  preview was under way (`workspace.js:346`): `PlanFollowsForm` says so.
* While a service is stopping the page offers a sign-in beside the account that is still
  connected (`workspace.js:172`). When the service restarts under the prompt, the sign-in
  keeps the plan of the earlier process: `SignInBeside` in `NoPlanSurvivesRestart`.
* `waitForManagedRestart` (`workspace.js:44-48`), `waitForWindowsPromotion`
  (`workspace.js:55-77`) and a sign-in whose two reads straddle a restart set the process
  without dropping the account: `unprobed` in `NoForeignSession`. A probe that finds setup
  mode once more drops nothing either (the page shows no account in that mode, so the
  property speaks of a page that does).
* A mismatch found on an earlier page of endpoints is forgotten by status-based views
  while replication is pending (`GpoWorkflowService.cs:365-372`): `PageForgotten`. The view
  of a refresh without an allowed host differs from the others (`ui-domain.js:18`).
* Endpoints of a user policy default to the scope, also to the domain root, which the
  preview refuses (`control-view.js:69`): `EndpointsAtRoot`. The button that clears them
  clears nothing, because the form chooses the scope again when it is drawn.
* `client.js:19` says for an ended session that the sign-in screen will open; `run()` ignores
  that while it is busy (`workspace.js:138-141,236`).
* Both calls of `load()` after a restart return at once, as the action that waited still
  holds the busy flag (`automation.js:59-63,96`).
* `refreshFinalPlanAfterRestart` (`workspace.js:31-36`) is called by nothing.

## 4. Proofs

Every theorem holds for all values of the constants that satisfy the named assumptions
of its modules. These say no more than the code does: the bounds are numbers, sets of
ids do not contain the value that stands for none, pages have at least one row
(`PageSizeAssumption`; the default is 200, `Program.cs:277`), an operation has at least one
endpoint (`EndpointsAssumption`), and the domain root and no scope are not organizational
units (`ScopesAssumption`). A hypothesis beyond that is part of the theorem's statement.

### The server

`WorkspaceWorkflowsProofs` proves, for every value of the constants that satisfies
the named assumptions of `OperationGate` and `WorkspaceWorkflows`:

| Theorem | States |
| --- | --- |
| `Inductive` | `Spec => []IInv` |
| `TypeCorrect` | `Spec => []TypeOK` |
| `GpoIsExclusive` | `Spec => []GpoExclusive` |
| `MaintenanceIsQuiet` | `Spec => []MaintenanceQuiet` |
| `AppliedAtMostOnce` | `Spec => []AppliedOnce` |
| `ActiveRunsAreRun` | `Spec => []ActiveRunHasCaller` |

None of the properties is inductive. `GpoExclusive` needs to know that whatever runs
is in the gate's set (`BusyInGate`), that no two run together (`BusyAlone`) and that
reservations belong to the running owner (`BusyOwns`). `AppliedOnce` needs that a plan
without a record was never applied (`UnrecordedUnapplied`): the record is written in the
step that tells the worker, and no step, failure or restart removes it.
`MaintenanceQuiet` needs that the gate's three fields stay empty under maintenance
(`MaintenanceIdle`). `ActiveRunHasCaller` needs the stronger `RunHasWorker`, and that at a
restart the in-progress records are closed before anything else runs. All of them need
that the actors index records within their bounds, which is `Shape`: types, the
reader's and follow-ups' positions, and that a record exists for whatever is in hand.

The proof has two parts. First `Shape`, action by action, with frame lemmas for the
parts a group of actions does not write (`NextShape`). Then the invariants of the
gate: most actions are quiet for them (`QuietFrame`); the claims, the ends of
operations, submissions, releases, marks and the host are treated one by one
(`NextGate`). The theorems combine both by temporal logic. `live` checks `IInv` with TLC.

`WorkflowRecordsProofs` goes on from there to what the records say:

| Theorem | States | Hypothesis |
| --- | --- | --- |
| `AccountInductive` | `Spec => []AccountInv` | |
| `ReservationsAreAccounted` | `Spec => []ReservationAccounted` | |
| `NoJobIsOrphaned` | `Spec => []NoOrphanJob` | |
| `OnceInductive` | `Spec => []OnceInv` | `~DbMayFail` |
| `ClosedJobsStayClosed` | `Spec => ClosedStaysClosed` | `~DbMayFail`, `~EarlySubmit` |
| `SkippedChecksRemembered` | `Spec => SkippedNeverCompleted` | `~DbMayFail` |
| `OutcomeInductive` | `Spec => []OutcomeInv` | `~DbMayFail` |
| `BatchStepsArePublished` | `Spec => []BatchStepsFollowPublished` | `~DbMayFail` |
| `CompletedIsVerified` | `Spec => CompletedMeansVerified` | `~DbMayFail` |
| `RecoveryCovers` | `Spec => RecoveryCoversBatch` | `~DbMayFail` |
| `CustodyRefines` | `Spec => CustodyKept` | `~DbMayFail`, `~EarlySubmit` |

* `AccountInv` says who has each reservation and each unfinished record. It adds to the two
  properties that a reservation is on a GPO its workflow works on, so that the release
  gives back all of them (`HeldAccounted`), that the reader has a workflow whenever it is at
  one of its positions (`ReaderHasJob`), and that it writes the final state before it lets
  go (`ReleasedIsWritten`). All of it survives a save that throws: the channel may then
  hold work without a record, but no record is without work.
* `OnceInv` says that a workflow is in one place at most: in the channel once, untouched and
  not with the reader (`QueuedOnce`), with a follow-up only when its record waits for one
  (`FollowAwaits`), with nobody while the service does not run (`Rests`); that what the
  reader works on is recorded as running (`CurrentRuns`); and that whoever has a workflow
  has its reservations (`WorkHolds`). `ClosedStaysClosed` also needs that whatever the
  channel holds still waits (`LateInv`).
* `SkipInv` follows a skipped check from the answer `BUSY` to the end of the workflow.
* `OutcomeInv` is the long one. It relates the position of the reader in a workflow
  (`Positions`), what was asked of the worker (`AskInv`), what it answered (`AnswerInv`),
  and what the run records say of each completed step (`StepsPublished`, `ChecksMeasured`,
  `RestoredKnown`, `Marked`). The last are stable under everybody else's steps only
  because the reader's workflow holds the reservation (`WorkHolds`), which is where the
  exclusion proved above is used; verifications and refreshes that hold none may come
  between, but write nothing that these parts exclude.

`DbMayFail` says that a write of `Enqueue` may throw, the record's or its audit entry's. With `TRUE`, TLC finds `BatchStepsFollowPublished`
and `RecoveryCoversBatch` violated on the instance of `batch`, `ClosedStaysClosed` and
`SkippedNeverCompleted` on the one of `live`: the work item that a failed save left behind (the finding of
`record_before_processing`) lets an id that is sent again be accepted and processed twice.
So the hypothesis is not there for convenience. `EarlySubmit`, requests
before the recovery of a restart has finished, violates `ClosedStaysClosed` alone, and with
it `CustodyKept`.

`CustodyKept` says what all of this is for, in the terms of `GpoCustody`, which knows
neither channel nor reader nor tasks: a workflow is accepted together with the custody of
what it will write; an operation begins only on a GPO that nobody works on and nobody else
has in custody, for a workflow only while that is open, and for one that writes only in
its own custody; each plan is handed to the controller once; a workflow is not closed
and custody not given back while its operation runs; maintenance begins at rest; a process
that ends loses custody and work, and the next one closes what is open before anything is
accepted or begun; what is closed keeps its outcome. The last is `ClosedStaysClosed`, which
`live` therefore does not check separately. The proof maps every action to one of these steps or to a stutter,
group by group:

| Actions | Step of `GpoCustody` |
| --- | --- |
| `EnqueueAccepts` | `Accept`, with the GPOs the request reserves |
| `Claim` | `Begin` |
| `WorkerReturns`, or `RefreshLive` when it ends the call | `End` |
| `FinishJob`, the end of a follow-up | `Close` |
| `ReleaseJob` | `Release` |
| begin and end of maintenance | `Quieten`, `Resume` |
| `Crash`, `Exit` | `Lose` |
| `Recover` | `CloseLost` |
| all other steps of the reader, the follow-ups, calls, requests and the host | stutter |

`CustodyInv` joins the invariants above, for each step needs several: that what the
reader works on is open comes from `OnceInv`, that it has the reservation from `AccountInv`,
that the call in hand belongs to it from `OutcomeInv`. It adds that no request is validated
and nothing called before the recovery (`IdleInv`), without which a request could be accepted
among what the recovery is about to close, and that a refresh is asked for only by a
workflow that has the GPO (`RefreshWrites`).

### The worker

`GpoWorkerProofs` proves, for any operations, mappings, processes and bounds
(`WorkerAssumption`), and but for the last four with every kind of overlap:

| Theorem | States |
| --- | --- |
| `WorkerInductive` | `Spec => []WorkerInv` |
| `WorkerTypes` | `Spec => []TypeOK` |
| `ManifestIsAhead` | `Spec => []WriteAhead` |
| `SnapshotIsFaithful` | `Spec => []SnapshotFaithful` |
| `WrittenOnce` | `Spec => []NotReplayed` |
| `FingerprintsHold` | `Overlap = "none"` implies `Spec => []TrueInv` |
| `FingerprintsProve` | `Overlap = "none"` implies `Spec => []FingerprintProves` |
| `RestoresLoseNothing` | `Overlap = "none"` implies `Spec => RestoreLosesNothing` |
| `WorkerProtects` | `Overlap = "none"` implies `Spec => GpoIsProtected` |

`WriteAhead`, `SnapshotFaithful` and `NotReplayed` are about the disk, but any process may save the copy of the
manifest it read before others moved on, so the invariant is about every copy as well:
`CopySafe` holds of the manifest on disk and of the one each process holds, and is
worded so that it survives as the copy gets old. A copy with a backup is of the reviewed
content if the operation has begun to write or still could (`gpo.rev = plan[o].fp`); an
edit by others between backup and second comparison makes that comparison fail, so nothing
needs to be said of the backup then. `Sound` adds what each stage relies on, `Kept` what is
on disk once writing has begun: a rollback that stops early may put an older phase back,
but marks it. `NotReplayed` follows because `Startable` wants no manifest and a manifest
never vanishes.

The last four hold only while nobody changes the GPO between a comparison and the
fingerprint saved for it, which the code cannot exclude (`preview_adopts_write` shows what
happens then); `Overlap = "none"` is that assumption. `TrueInv` says it of every copy again:
no saved fingerprint is ahead of the GPO, and one that is still the GPO's was left by the
operation's own work (`CopyTrue`); what a process has seen is still so when it
saves it (`Fresh`). A change makes all of it vacuous, because it gives the GPO a fingerprint
that no copy has; the work is in the steps that save the present one. For
`RestoreLosesNothing`, `OnlyComparison` shows that no other step leads from the
comparison to the restore.

`GpoIsProtected` is the same promise for the whole life of a GPO, in the terms of
`ProtectedGpo`, which knows neither processes nor manifests: one writer at a time; an
operation begins once, over the reviewed state, and adds only its values and its link to
what it left itself; a restore begins over the program's own work or over the snapshot, and
leads to the snapshot and nothing else; and a writer may stop anywhere. `NotReplayed` is part
of this, so `worker` does not check it separately; proved by itself it holds with every kind
of overlap. The writer is
whoever has the lock file, and what it may do follows from its stage, so most steps of most
processes are stutters: `OutsideKeeps` has those of a process that has not the lock,
`ApplyKeepsRole`, `RollbackKeepsRole` and `CheckKeepsRole` those that keep the role, and
`ApplyChangesKeep` and `RollbackChangesKeep` the writes. A first write needs that the
comparison is still true (`Fresh`), a beginning that nobody began before (`NotReplayed`'s
`Kept`), a restore that the fingerprint it compared proves whose work it is
(`ComparisonProves`) and that the anchor of a batch has itself begun, in every process that
names one (`AnchorInv`).

### The launcher

`LauncherProofs` proves, for any launchers, releases, callers, finite set of process ids
and number of attempts (`PidAssumption`, `FolderAssumption`, `BoundAssumption`):

| Theorem | States |
| --- | --- |
| `Inductive` | `Spec => []LInv` |
| `TypeCorrect` | `Spec => []TypeOK` |
| `OneRuntimeOnly` | `Spec => []OneRuntime` |
| `StopsAreFinal` | `Spec => []StopIsFinal` |
| `RetriesAreBounded` | `Spec => []BoundedRetries` |
| `QuietInductive` | `Spec => [](LInv /\ QuietInv)` |
| `BusyEndsOnlyOverruled` | `Spec => BusyEndsAreOverruled` |

The argument: past the mutex a launcher is alone (`MutexHeld`), and from its position
one knows what lives (`Position`): nothing while it prepares, boots, judges or decides,
and at most its own child while it registers, probes, watches or finishes. The orphan
check establishes this once, at the end of the inspection; `LauncherDies`, which leaves
a child behind, gives the mutex back and so ends it, and the next launcher has to
establish it again. This is why `OneRuntime`, which no step needs to look at, is not
inductive by itself. `StopKept` says that the marker of a confirmed stop stays while its
supervisor is anywhere between the start of the process and its decision, because
everybody else who deletes markers turns `asked` into `"lost"`. `RetriesPaid` counts
every Windows start against the attempts, the reinstallation and the rotation. `LInv`
is checked by `launcher`.

`BusyEndsAreOverruled` is about one step, in which a busy process ends; who is to blame was
decided long before, by another process that wrote a marker. `QuietInv` carries this over:
only a serving process in Windows mode is busy (`WorkServed`); a launcher starts a process
without a marker, but for one that dooms it (`StartUnmarked`), so what its launcher is about
to end because of a marker is quiet, or doomed (`MarksHeeded`); and a caller that waits or is
about to write a second marker has dealt with the process it remembers (`CallersKnow`). No
assumption is made about when that second marker is written. What is left are the crash,
and a launcher that gives its process up before it was ready: the property says so,
because the code does not look whether that process works by then.

### The browser client

`ChangePlanProofs` proves, for any targets, plans and restarts (`PlanBound` says that the
bound on plans is a number):

| Theorem | States |
| --- | --- |
| `PlanInductive` | `PlanSpec => []PlanInv` |
| `PlansDoNotSurvive` | `PlanSpec => NoPlanSurvivesRestart` |
| `PlanKeepsToForm` | `PlanSpec => PlanFollowsForm` |
| `PlanRefines` | `PlanSpec => PlanIsReviewed` |

`NoPlanSurvivesRestart` is about plan and process, but what keeps it is the session: a plan
is issued only to a session, and while the service holds one the page knows its process
(`PageFollowsService`). Without an account, while the page waits for a restart, or signs in
anew, there is no plan, so the steps that learn of another process find none; a sign-in
beside a live account is the exception. `StepCurrent` goes through the actions: each drops
the plan (`PlanGone`), leaves plan and process alone (`PlanKept`), or brings a plan of the
process it names.
The refinement needs that a plan in the dialog or in an application was issued, and that
no other task holds one (`PlansIssued`): a new plan then has a number that no
confirmation can carry. Each step is shown to show, withdraw, agree, retract, ask or
stutter; `Held` and `Withdrawn` are the two shapes most of them have.

`BulkApplyProofs` proves, for any controls, targets, revisions, connections and number of
workflows (`BatchBound`: the bound on workflows is a number; `BatchTargetExists`: there is
a target):

| Theorem | States |
| --- | --- |
| `BulkInductive` | `BulkSpec => []BulkInv` |
| `BatchRefines` | `BulkSpec => BatchIsReviewed` |

The dialog's snapshot of a workflow, the answer on its way, the poll and the view all hold
workflow ids; a step that reads `jobs` at one of them needs that it exists (`RefsExist`)
and is of the kind it is taken for (`RefsSound`). The refinement adds `ConsentFresh`: a
review begins only at the poll of a preview, and no typed APPLY is left then from an
earlier review. This is what fails when `invalidate` is left out of one of its callers.

### The other browser modules

| Module | Theorem | States |
| --- | --- | --- |
| `PagesProofs` | `ConsoleInductive` | `ConsoleSpec => []ConsoleInv` |
| | `AccountsAreOfTheProcess` | `ConsoleSpec => []NoForeignSession` |
| | `AssessmentsAreCurrent` | `ConsoleSpec => AssessedAsShown` |
| | `VerdictsInductive` | `VerdictsSpec => []VerdictsInv` |
| | `GreenVerdictsAreMeasured` | `VerdictsSpec => []GreenIsMeasured` |
| | `MismatchesAreShown` | `VerdictsSpec => []MismatchIsShown` |
| | `TargetsInductive` | `TargetsSpec => []TargetsInv` |
| | `FormsAreAccepted` | `TargetsSpec => []FormMatchesService` |
| | `ChangesAreBackedUp` | `GuidesSpec => []ChangeHasBackup` |
| | `AnswersFitTheForm` | `EvidenceSpec => []AnswerForSelection` |
| | `PageIsReleased` | `DialogsSpec => []PageReleased` |
| `RequestsProofs` | `TransportInductive` | `TransportSpec => []TransportInv` |
| | `HistoriesAreSnapshots` | `TransportSpec => []HistoryIsSnapshot` |
| | `SettingsInductive` | `SettingsSpec => []SettingsInv` |
| | `RestartsAreReported` | `SettingsSpec => RestartReported` |
| | `PagesAreInRange`, `EveryItemHasAPage` | about the operators of `ListPager` |

* `Console`: `ConsoleInv` bounds what the page knows by what the service is (`Known`), and
  says of the task and the poll under way for which process and account they were begun
  (`Began`, `Asked`), so that an answer that comes late can be told from a current one. The
  attempt to prove `NoForeignSession` of an account the page keeps, rather than shows,
  failed at a probe that finds setup mode a second time; TLC needed two restarts to reach
  this, and `pages` has two since.
* `Verdicts`: the properties are about views of one record, so the invariant says which
  records there are. The evidence is a reading that judges what it shows (`Sees`), a
  verification's, or one that only observes (`Saw`), a restore's, and then a difference in the
  directory stands beside a state that asks for review or is still in progress (`Accounted`).
  Joining the pages of a verification keeps this for any number of endpoints; the
  properties then follow from the views, state by state.
* `Targets`: `Settled` says that a choice is one the control can have within what was
  offered. `EnsureSettles` shows that `ensureChoice` reaches it from any choice, which is
  why the order of edits and drawings does not matter.
* `Guides`, `Evidence`, `Dialogs`: what the script relies on without testing it: that the
  block between backup and change still runs for the value the backup names
  (`BlockPrepared`), that what is read was asked about what the page was drawn for
  (`ReportsCurrent`), and that what makes the page inert is a panel, the sign-in screen or
  a dialog that is drawn (`PageHeld`).
* `Transport`: a history in progress is a prefix, newest first, of the snapshot its first
  page was read from (`Growing`). Runs that are recorded meanwhile shift the rows, which is
  what the cursor is for: a page joins what was read without gap or repetition
  (`OnePageMore`, `WholeJoins`).
* `Settings`: `Watched` says that the process the panel knows is the one that runs, but while
  it waits for another, and that a wait began with the process that accepted the change;
  `Excused` are the ways, written down in the model, in which the panel loses track of it.
* `ListPager` has no behaviour. The two theorems hold for every list, page size and
  requested page, also one that was valid before the list shrank.

### Only model-checked

* `AcceptedIsClosed` and `ConfirmedStopEnds`: liveness and ENABLED are outside the prover.
* `ScriptAgreesWithPlan`: `PolicyValues` has no constants; TLC enumerates it completely.
* `EveryScopeReachable`: the tree of scopes is computed by recursion over its depth, and
  what a recursion over data returns cannot be proved here.
* `JournalAgrees`: the journal sorts and folds over lists of any length, which is induction
  over data again. The paging it ends with is proved.

## 5. What is left

What the models simplify:

* `DbMayFail` covers the writes of `Enqueue`. That a later one throws, of `Finish`, `FailJob`,
  the follow-ups (`WorkspaceWorkflows.cs:258-259`) or the operation itself
  (`GpoWorkflowService.cs:328,337,404`), is not modelled.
* `RefreshLive` takes the two record writes of a refresh, the live state and the beginning
  (`GpoWorkflowService.cs:328,337`), for one: nothing is awaited between them. A reader of the
  store, or a crash just there, sees the first alone, which is a record as a verification
  leaves it.
* `Guides`: an exception ends a block. That is so when the block runs as one script; the text
  (`remediation-guides.js:43-57`) is not wrapped, and lines pasted one by one into a console go
  on after one that failed.
* `Verdicts`: the states of records from earlier releases are left out.

Not modelled, and why:

* Sessions on the server (`GpoWorkflowService.cs:101`): the connection table, its lifetimes
  and slots. Every model lets a session end before any use instead.
* The order of a batch and the lockout rule (`BatchWorkflowRules.cs:29`): a pure function of
  two numbers and a list; `BulkApply` takes the order as given.
* Worker: domain-policy attributes written to AD, the refresh itself, legacy manifests,
  the framing of the result on stdout (`WindowsPowerShellExecutor.cs:119`).
* The list of review states in `WorkspaceWorkflows.cs:253` lacks `ROLLBACK_REVIEW_REQUIRED`;
  no text says what a workflow should end as then, so no property does.
* Launcher: Ctrl+C (`GpoRemediator.ps1:544`), a failed write of the registration (487), an
  emergency stop between decision and start (483), and the window of the Control Panel.
* The limit on unfinished workflows is in the model (`UnfinishedBounded`), and no run
  checks it any more: it restates the guard of one critical section.
* Browser: numeric and registry editors beyond the modelled kinds, other guides, CSV and
  print output, catalogue, themes and routes: presentation.
* Script workspaces, file protection, request pipeline, diagnostics and release scripts:
  file-system effects and stateless checks.

Worth doing next: `GpoWorker` shown to implement what `WorkspaceWorkflows` assumes of
`Outcomes`; the connection table; the audit chain of the store.
