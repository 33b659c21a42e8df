# A verification of MNCS Control

MNCS Control (`src/mncs_control_mcp`) is an MCP service that runs terminal commands in
sandboxes, supervises calls to upstream systems (Fabric, Harness, Forge), coordinates
experiments and replications that last for hours, reclaims storage, and mediates access
to the Environment store.  Its hard part is not any single operation.  It is that
threads, child processes, other Control processes, other principals and a document on
disk disagree about a job, an experiment or a session, and that the service can die
between any two steps.  This directory holds TLA+ specifications of that part, the TLC
configurations that check them on small instances, and TLAPS proofs for instances of
every size.

## 1. Inventory

| Component | State it keeps | Operations | Hard behaviour | What makes it correct |
|---|---|---|---|---|
| Terminal jobs (`processes.py`) | `_jobs`, `_environment_grants`, claim-recovery fence, child processes | `start`, `_monitor`, `stop`, `begin/end_claim_recovery`, `cleanup` | caller, monitor and cleanup threads; persist failures; crash | process limit, no process without a row, grants revoked, fence tight |
| Upstream jobs (`processes.py`) | `_jobs`, futures, cancel events, adapter processes | `submit_external`, worker, `_finish_external`, `stop_control`, `record_external` | `stop_control` takes no lock; late callback; forked adapters | every job settles, adapters supervised, statuses mean what the docs say |
| Job-state document (`processes.py`) | primary JSON file, tmpfs fallback | `_persist`, `_load_metadata` | ENOSPC, crash, stale fallback, 100-row cap | final rows are true and stable, unfinished rows are reconciled |
| Experiment coordinator (`experiments.py`) | `state.json`, `coordinator.lock`, `state.lock`, coordinator threads | `start`, `_thread_main`, `_run_active`, `_poll`, `_submit`, `stop`, `resume_unfinished` | several processes, crash and takeover, lost replies, whole-copy saves | no work orphaned, history append-only, stop honoured, every experiment ends |
| Residency and publication (`experiments.py`) | leases, references, receipt in every `state.json`, `residency.lock` | `_prepare_residency`, `_teardown_residency`, `attach_reference`, `publish` | models shared by experiments, concurrent publishers, saves of stale copies | warm models stay, revisions are linked, evidence is kept |
| Replication (`replication.py`) | a document per attempt, a bundle directory | `start`, `_run` and its stages, `resume_unfinished` | redo of a stage after a crash, lost answers, files that change | one execution, PASS of what was verified, stages in order, an end |
| Storage stewardship (`storage.py`) | plans | `plan`, `reclaim` | builds and users go on; plans age; a deletion fails | stale plans delete nothing, a tree in use is kept |
| Environment endpoint (`environment_rpc.py`) | grants, request table, session locks, fences | `issue_grant`, `dispatch`, claims, automatic recovery | retries, eviction, locks of other sessions, revocation of grants in use | a request runs once, under its grant, and is answered |
| Host inventory (`environment_rpc.py`) | what one scan has read | `_host_process_inventory` and helpers | /proc changes while it is read, pids are reused | nobody who works for the owner is passed over |
| MCP bridge (`local_environment_mcp.py`) | context with grant and session | `invoke`, `_select_session` | restarts, expired grants, repeated calls | a call is executed once, in the session meant |
| Campaign continuation (`environment_rpc.py`, `environment_sessions.py`) | `bound_session_id`, task bindings | `_campaign_continuation`, entry, handoff, task binding | a shared store that moves on, duplicates, worktrees, nested checkouts | what is bound is authorized, exclusive and never a guess |
| Launcher, audit, journal, Git, sandbox, adapters, server, policy, deployment | files, subprocesses, configuration | see `PROJECT.json` | mostly sequential | not modelled, see section 7 |

Interactions: the MCP server calls the managers from many threads.  The job manager asks
the Environment endpoint for a grant per terminal job and revokes it; the endpoint's
claim recovery raises and lowers the job manager's fence, asks it for candidates and
looks for other processes on the host.  The bridge is one client of the endpoint.
Upstream adapters run inside `submit_external`.  Experiments submit detached work to
Fabric by an idempotency key and lease models through Harness.  Everything durable is a
JSON document replaced atomically.

The hazards, each at its line and with the properties that cover it, are the
`hazards` of `PROJECT.json`.

## 2. Modules

| Module | Models | Built on |
|---|---|---|
| `JobTable` | the table, the document, the lock and the service process that both kinds of job share | |
| `TerminalJobs`, `ExternalJobs` | terminal and upstream jobs | extend `JobTable` |
| `ProcessManager` | both kinds in one process | extends `ExternalJobs`, instance of `TerminalJobs` over the same `JobTable` |
| `ExperimentCoordinator` | the coordinators of one experiment, `state.json`, stop calls, Fabric's works, the lease | |
| `ExperimentSharing` | residency and publication of several experiments | |
| `Replication` | attempts, stages, Fabric, Forge and Commons as far as the adapters use them | |
| `StorageReclaim` | plans, reclaims, and a world that goes on | |
| `RequestLedger` | abstract: what the endpoint promises about a request | |
| `EnvironmentEndpoint` | grants, dispatch, locks, claim recovery; implements `RequestLedger` | |
| `LocalBridge` | the bridge | extends `EnvironmentEndpoint` |
| `HostInventory` | the scan of the host | |
| `EnvironmentService` | endpoint, bridge and host together | extends `LocalBridge`, instance of `HostInventory` |
| `ProjectCheckout` | from a directory to repository, checkout and definition (operators only) | |
| `CampaignContinuation` | lookup and selection of sessions, what a grant is bound to | extends `ProjectCheckout` |
| `TerminalJobs_proofs`, `ProcessManager_proofs` | theorems about terminal jobs; about upstream jobs and both together | the module named |
| `ExperimentCoordinator_proofs`, `ExperimentSharing_proofs`, `Replication_proofs`, `StorageReclaim_proofs`, `CampaignContinuation_proofs` | theorems about that module | the module named |
| `EnvironmentService_proofs` | theorems about the endpoint, its ledger, its bridge and the host | extends `EnvironmentService` |
| `MC...` | values and symmetry sets for TLC | |

Operators named as slips (`..NoWait`, `..Unsaved`) stand next to the definition they
vary.  They are no part of any specification: replacing the definition by its slip is
how each property was seen to depend on the code.

### JobTable, TerminalJobs

`status` is the `status` field of `_jobs`, `disk` the rows that the next process will
read, `lock` the holder of `_lock` where it is held across observable steps, `mode` the
service process.  `phase[t]` is the program counter of the thread that carries job `t`:
first the thread in `start()`, then the job's monitor.  `proc`, `grant` and `held` are
the sandbox process, the RPC grant and `_environment_grants`.

`start()` is split where the code gives up the lock or where another thread, the
process or a crash can be observed in between: `StartCheck` (first look at the fence),
`IssueGrant`, `BuildArgv`, `Refuse`/`Launch` (second look and limit, `Popen`, table),
`Record`/`Withdraw` (the first `_persist`), `Unwind` (wait for the withdrawn child).
`_monitor` is `MonitorTimeout`, `MonitorKill`, `MonitorReap`, `MonitorSettle`
(everything under the lock, `_persist` included) and `MonitorRevoke`.  A `_persist`
that raises in the monitor ends the thread (`"died"`): no code catches it.  `stop()`
reads the status without the lock, hence `StopCheck` and `StopSignal`.  `cleanup` is
`CleanupMark` and `CleanupRevoke`; `Exit` is the end of the process at any moment, and
the sandboxes die with it because of `--die-with-parent` (`sandbox.py:350`).

Job ids are random, so a job is an identity used once.  `_persist` either replaces
every row or raises (it is mkstemp, fsync, `os.replace`).  Exit codes, output buffers and
stdin are left out; so is the operating system's reuse of process ids.

### ExternalJobs, ProcessManager

`caller`, `worker` and `stopper` are the program counters of the three threads that
meet on a job; `future`, `outcome`, `cancel` and `adapter` are the future, what it
returns, the cancellation event and the forked process.  The callback `_finish_external`
is `FinishCheck` and `FinishWrite`, and the worker's locked section `WorkerCheck` and
`WorkerStart`, because `stop_control` takes no lock and can write between the test and
the assignment of either.  An adapter process is an ordinary fork: it survives the
death of the service.  It is `live` while it is at its operation and `answered` when its
payload was sent; the worker waits one second for an answered one to exit and then
returns without a further look (`processes.py:850`), so that `WorkerCollect` asks for the
answer and not for the end.

In `ProcessManager` terminal steps leave the upstream variables alone and conversely; the
end of the process and its restart are joint (`ManagerExit`, `ManagerRestart`).  Two facts about the composition are worth knowing.
`RefusedLeavesNothing` does not carry over: `stop_control` persists without `_lock`, and
can write the row of a job that `start()` is about to withdraw, so the document keeps a
row for it until the next `_persist`.  And the limit is not one limit: `start()` counts
running jobs, `submit_external` running and queued ones, so that together they admit
`2 * MaxJobs + 1` (`ActiveBound`).

### ExperimentCoordinator, ExperimentSharing

`disk` is `state.json`.  A coordinator loads it into `local[p]`, changes the copy and
saves it; loads and saves (under `state.lock`) are single steps and anything may come
between.  `Merged` is what `_save` keeps of the document.  `owner` holds
`coordinator.lock`; a process that does not get it leaves for good (`Acquire`).  A turn
is `[state, step]`, and every change of a copy is an operator named for what it does
(`Mark`, `Hold`, `Become`, `FollowUp`...); the pair of its number and `tool_step` stands for the idempotency
key, by which Fabric deduplicates.  `fabric` is the state of every work, `late` that the
deadline has passed, `leased` whether the model is really resident, `residency` what the
document says about it.  `afterStop` is a history variable: the works first accepted
after a stop call had saved its request.  Faults are switched by constants:
`SubmitFaults` (`"refused"`, `"lost"` answers), `RuntimeFaults` (`"call"`: any call of a
turn or the creation of the runtime raises; `"prepare"`: a preparation fails, before the
model was leased or after it; `"teardown"`), `Answers` (what a
work may end with).  A crash of any process at any step is always possible.  Errors of
the local file system are not modelled for this component, nor is
`release_models_on_end: false`.

`ExperimentSharing` leaves the turns out and has what experiments share.  `doc[e]` is
the document of experiment `e`, `copy[e]` what its coordinator will save; `resident` the
models that are really loaded, `Warm` those that nobody's experiment loaded.  A lease on
record is `managed` when the preparation found no other reason for the model to be
loaded.  A publication record is the sequence of the reference sets of its revisions:
what its digest and those of its predecessors determine.  `delivered` is what Commons
took, whether or not the receipt was kept.

### Replication

`doc[r]` is the document of an attempt, `thread[r]` the coordinator between the effect of
a stage and its save, `bundle` the staged directory and `inputs` the owner's files, which
may be replaced at any time.  `executed` is Fabric's, `forge` and `commons` those
systems' records.  Both the caller of `start()` and the coordinator can be cut off by a
crash at every step.

### StorageReclaim

`tree`, `head`, `ready` and `use` are the world, which changes between any two looks of
the service (`StartUse`, `EndUse`, `Build`, `Edit`); a use is `plain` (a process seen in
the tree) or `hidden` (an observer cannot tell).  `plan` is discovery, snapshot and one
assessment per output; `reclaim` is lookup, snapshot, validation of all, and for each
output a last look, the deletion and its verification.

### EnvironmentEndpoint, RequestLedger

`at[c]` is the program counter of the thread that serves connection `c`; two connections
may carry one request (a retry).  `active`, `records` and `recorded` are
`_active_requests` and `_request_records` with its bound; `condition`, `selection` and
`lock` are the holders of `_request_condition`, of each grant's `selection_lock` and of
each session's lock wherever they are held across steps; `fenced` and `repository` are
the fences of a recovery.  `live` are the grants in `_grants`; `lapsed` those that have
expired (`Expire`; they stay in the table until the next `issue_grant` sweeps them out) or
were revoked with their job (`RevokeGrant`).  Both may happen at any moment, under no lock
of the request that runs under them; a grant proves itself (`Proved`) when a connection
arrives and again when its request is admitted.  A recovery is `ReadClaims`, `Fence`, `LockOwner`,
`Validate`, `InspectBefore`, `RevokeOwner`, `InspectGrants`, `InspectAfter`, `Publish`,
`ReleaseOwner`, `Unfence`, in the order of `_perform_claim_recovery`.  The Environment's
own commands run in `Run`, whose outcome is unknown; a claim carries a version, which
`Publish` compares.

`RequestLedger` knows only runs, kept answers and what each client was told.
`KeepsTheLedger` is the refinement, with `told` as the answers of the connections that
are over and the ledger's other variables as they are.  "Once" is relative to the kept
answer: eviction and a restart forget it, in both specifications.  An `"ambiguous"`
answer is an answer: it is kept and told to the retries like any other
(`environment_rpc.py:4999`).

### LocalBridge, HostInventory, EnvironmentService

The bridge serves one call after another for one directory: it issues a grant, selects a
session through a continuation, sends the operation, and starts again with a new grant
and a new request identity when it was denied.  `ran` counts what the endpoint executed
for the current call.

A scan lists the pids, reads parents one by one, takes the requester's execution (root,
agent, launcher, descendants) out of consideration, adds the audit rows and looks at each
remaining process.  Processes start, exit and reuse pids in between.  `member` and
`launched` are the truth that the exclusions approximate: to whose executions a process
belongs, and whose it launched (the one-shot shell).  Ancestors and descendants are least
closed sets (`Upward`, `Tree`).  `Wellformed` says what a host is like at first: a parent
runs, its children belong to the executions it belongs to, and the agents, wrappers and
one-shot shells above a client are those of its own execution.  That the exclusions are
right under these conditions, and stay right while the host moves, is what
`LastingWorkIsSeen` is about.

In `EnvironmentService` a recovering thread may conclude an inspection well only when its
scan was quiet; jobs remain an unknown of the inspection, since `TerminalJobs` has them
(`QuietWhileAttested`).

### ProjectCheckout, CampaignContinuation

`ProjectCheckout` is a set of pure operators: a directory is its path below the
workspace, a `site` what the filesystem and the Environment's verifier say at the moment
of a question.  `CampaignContinuation` puts them under the questions of one grant.  The
store moves on between two questions (`Enter`, `Change`), and belongs to two principals.
A question is answered from what the store is at that time: the lookup (`Lookup`:
`environment_sessions.py`) yields capsules, the selection (`SelectCampaign`,
`SelectContext`, `SelectRow`: `environment_rpc.py`) one row of them.  Where the answer
depends on the order in which the store lists sessions, or on worktrees that are
unregistered while rows are checked, it is a set of possible answers (`AnswerSets`).
`asked` is a history variable that keeps the question just asked, a refused one too.
The store is read at one moment of a question, where the code reads list, snapshots,
claims and contexts one after the other (`environment_sessions.py:1085`-`1233`, `:2014`):
an entry, a handoff or a claim of anybody during one question is not examined.

## 3. Runs

| Run | Instance | Shows |
|---|---|---|
| `terminal` | 2 jobs, limit 1, both fenced, one carries the recovery request, `_persist` may raise | limit, durable record, unwinding, grant ownership, the fence; final rows stay, jobs settle, monitored grants are revoked |
| `external` | 2 jobs, 1 worker, `_persist` may raise | adapters supervised while at their operation and stopped, statuses truthful, active rows settle, settled rows only become detached |
| `manager_safety` | 1 terminal and 1 upstream job, `_persist` may raise | what each kind relies on survives the other |
| `experiment_recovery` | 2 processes, 2 turns, 1 tool step, failing teardowns | no orphaned work, append-only history, the experiment ends and its lease is released |
| `experiment_stop` | 2 processes, 1 stop call, 1 turn, 1 tool step, refused and lost submissions, failing calls, preparations and teardowns, symmetry | stop is kept, at most one work after it, RELEASED is true |
| `replication` | 2 attempts, 2 callers at once, 2 versions of the files, every fault | one execution, PASS of what was verified, no more attempts than overlapping calls until a failure, stages forward, an end |
| `service` | seven crowds of connections, see below; one grant may expire and one may be revoked at any time | refinement of `RequestLedger`; requests run under their grants and are answered; bridge calls are exact; lasting work is seen |
| `storage` | 2 outputs, 1 plan, 2 reclaims, 2 changes of the world, 1 restart | stale plans delete nothing, trees in use are kept |
| `sharing` | 2 experiments, 2 models, 1 of them warm, 1 reference, 2 publishers, 1 crash, every fault | warm models stay, revisions are linked, evidence is kept |
| `continuation` | 3 sessions, 2 principals, 2 campaigns, 2 contexts, root, worktree and 3 more directories, 7 states of the filesystem, 14 snapshots, symmetry | what is bound is authorized, exclusive, never a guess |
| `endpoint_deadlock` | 2 acquisitions' worth of locks: a recovery and a repeated artifact-read under one grant | finding: nothing is answered any more |
| `experiment_stop_race` | 1 process, 1 stop call, 2 turns | finding: a settled turn is reverted |

Every property of a passing run was also run against a slip in the code's model
(`mutants` in `PROJECT.json`) and found violated.

### Bounds

Jobs, processes, stop calls, turns, tool steps, attempts, connections and calls are each
used once, so most modules need no artificial counter; the named bounds are `MaxChanges`
and `MaxRestarts` (storage), `MaxCrashes` (sharing), `MaxRestarts` (endpoint) and
`MaxStarts` (processes per pid).

Two jobs on one slot are the least that let one wait, be withdrawn or be counted while
the other runs; for terminal jobs the proofs remove the bound.  Two Control processes
suffice for takeover, since a third can only do what a restarted one does; two turns and
one tool step give a settled turn before the current one, a key with a successor, and a
step at the bound.  Two attempts let a failed one be followed by another.  Two outputs
let one be validated, the other deleted first; two changes let an output go and come
back, or be rebuilt and used.  One kept answer (`MaxRecords = 1`) makes every second
answer evict one.

The service run starts from one of seven crowds: two executions that want each other's
claims while a third reads an artifact; the first of them, the reader and its retry; the
second of them, next to a request of the session that it recovers; a bridge alone with three connections; a bridge with two grants and two connections under
each; the same with fewer connections against an acquisition; and an acquisition on a
host of four pids.  Each asks a question the others do not, and all of them together do
not finish.  One grant may expire and one may be revoked with its job, as long as a
connection under it is not over; the first is the bridge's, which answers with
a new one, the second that of an execution which recovers and is recovered from.  A pid gets at most two processes, so that it is reused once.

In the continuation run a session goes through 14 snapshots, chosen so that every guard
of lookup and selection is decided both ways: claims on the checkout, elsewhere, on
everything, too many to show; scope grants; duplicates with and without checkpoints; two
contexts; foreign sessions of each kind; completed and handed-off ones.  `MaxRows` and
`MaxClaims` are 2 and 1 instead of 16 and 8, so that three sessions and two claims exceed
them.

`CHECK_DEADLOCK` is off where the system may really come to rest: the endpoint when all
its connections are answered, storage when all calls are over, sharing when the
experiments are.

### Fairness

`TerminalJobs`, `ExternalJobs`: threads that can go on do (weak fairness of each step of
a thread), deadlines and grace periods pass, and systemd restarts the service
(`Restart=always`, `deploy/systemd/mncs-control-tunnel.service:17`).  Nothing is asked of
clients, of a child process (which may ignore SIGTERM) or of the service's own
stability.  `ExperimentCoordinator`: weak fairness of the coordinator thread, of restarts
and of the deadline; strong fairness of `PollTimeout`, since wall-clock time passes while
the thread polls again and again; and the service does not crash for ever
(`<>[][~Crash]`): no coordinator can end an experiment if its process always dies first.
`Replication`: the same of its threads, restarts and crashes.  Fabric owes nothing: a
work may stay active for ever.  `EnvironmentEndpoint`: some thread that can go on does;
this is weaker than fairness of each thread, and it suffices because a connection carries
one request.  Clients, timers and host processes owe nothing.

## 4. Findings

Two runs expect a violation; `PROJECT.json` quotes the lines.

1. `endpoint_deadlock`: `dispatch` repeats the answer to an artifact-read with
   `_request_condition` held and takes the grant's `selection_lock` inside
   (`environment_rpc.py:4883`); an acquisition under that grant holds the selection lock
   and takes the condition when its recovery counts active requests (`:4716`).
2. `experiment_stop_race`: `stop()` saves a whole copy; a turn settled in between goes
   back to RUNNING (by the same path a COMPLETED experiment can go back to RUNNING).

Other behaviours shaped the properties and instances of passing runs.  Each is what the
code does; no run is kept for them.

- A `_persist` that raises in `_monitor` (`processes.py:460`) ends the thread before it
  revokes the grant, which stays usable until cleanup: `MonitoredGrantIsRevoked` excepts
  it.  One that raises in `submit_external` (`:793`) leaves a row without a callback:
  `ActiveSettles` excepts it.
- `stop_control` overwrites the status of a job that completed after it looked (`:939`):
  `SettledOnlyDetached` allows just that.
- An adapter that has sent its payload and hangs in its exit is not watched any more: its
  worker joins it for one second (`processes.py:850`) and settles the job, and neither the
  deadline nor a stop reaches the process.  `AdapterSupervised` speaks of adapters that
  have not answered.
- A preparation that fails keeps no lease on record (`experiments.py:934`), neither one
  that an earlier process obtained nor one of its own whose answer was lost; the teardown
  of the experiment, which fails or was asked to stop, then records RELEASED of a model that
  is still leased.  `ReleasedIsTrue` excepts just these experiments, and TLC refutes it
  without the exception.  `LeaseIsReleased` is checked without failing preparations.
- A grant can expire, be swept out or be revoked with its job while a request runs under it
  (`environment_rpc.py:1178`, `:427`, `:561`); the request goes on.  `RunsUnderItsGrant`
  therefore speaks of the selection and of recoveries, and says of a grant that is gone only
  how it went.
- A work that completes with neither text nor tools makes `_complete` raise until the
  deadline, and giving up there marks the experiment FAILED without a teardown
  (`experiments.py:1371`): `LeaseIsReleased` excepts it.
- A teardown that still raises after the deadline rewrites COMPLETED or STOPPED to FAILED
  (same lines): `Ends` asks only that the experiment stays in some terminal state.
- Between the residency lock and the save of the lease (`experiments.py:931`) another
  experiment's teardown can release a model that this one has just been granted: the
  model is warm for nobody, so `WarmModelIsKept` does not speak of it.
- Two publishers can deliver two different records of one revision (`:1279`);
  `RevisionsAreLinked` asks that each is linked to a delivered one.
- Two calls of `experiment_replicate` at the same time can each create an attempt
  (`replication.py:357`), with two bundles that Fabric may both execute: `AttemptsOverlap`
  allows as many as there are overlapping calls.  Once one has failed, a call looks at the
  first by name only, and may create another next to one that goes on.  The branch that
  dispatches again after a timeout (`:593`) asks for an error that the adapter does not
  raise.  An attempt can be FAILED with the outcome PASS on record, when Forge or Commons
  fails after the comparison.  `PassIsVerified` needs that two versions of the files do
  not realize one definition (`OneDefinition = FALSE`): the code compares definitions.
- A tree that is rebuilt, but not used at the last look, between the validation and its
  deletion is deleted (`storage.py:500`).
- What a recovery attests as "active owner grants" can be older than the attestation.
- The host scan passes over processes that hide their environment and show nothing else,
  by design; and over a lineage that forks after the listing and whose listed parent
  exits before it is looked at.  The audit row of a request is written after the request
  left the active set (`environment_rpc.py:1125`).
- A bridge whose caller named no session selects again after a denial, and may select
  another one.
- The comment at `environment_sessions.py:814` says that a scope grant is consulted within
  the definition of the question; the loop over a task's sessions assigns that definition
  (`:1225`), so that later sessions are read with an earlier one's.
  `ForeignWorkIsRefused` therefore excepts a task asked for with neither campaign nor
  definition.  It speaks of the bound session's campaign always, and of claims on the
  checkout when the question names neither campaign nor session, as the code does.
- A question from the repository root goes on in the worktree on record for its campaign
  (`environment_sessions.py:992`), and among that worktree's sessions the one with a claim
  on the root is preferred.  A session that was admitted by its grant alone gives way to
  one with a claim.  `NeverGuesses` counts both as reasons, and asks that nothing else
  than a reason on record decides between sessions.  It is about questions from a checkout
  that name no task: a task is answered with what it is bound to, and from no checkout
  nothing but campaign and definition narrows the choice.

## 5. Proofs

Every theorem holds for every value of the constants that satisfies the assumptions of
the modules: finite disjoint sets of jobs and a positive limit; positive bounds; finitely many callers; names
that stand for nothing (`None`, `Free`, `Nobody`, `Nowhere`) that are none of the things
named; for the bridge, that a request which is no lookup names its session
(`local_environment_mcp.py:159`); for the host, that it is `Wellformed` at first; for the continuation, finitely many sessions and a
repository root that is no worktree.  Hypotheses beyond those are named below, with the
reason.  TLC evaluates the assumptions in every run.

None of the invariants is inductive as it stands.  Each module of proofs strengthens them
to what its header describes, shows the strengthening to be kept action by action, and
derives the properties.

| Module | Properties proved | What carries the induction |
|---|---|---|
| `TerminalJobs_proofs` | `TypeOK`, `LiveBound`, `LiveIsRecorded`, `RefusedLeavesNothing`, `GrantHasOwner`, `QuietWhileAttested`, `DurableFinalIsTrue`, `DurableFinalIsStable` | each job's rows, process, grant and lock by the phase of its thread (`JobInv`); no fenced candidate on its way during a quiet recovery (`FenceInv`); the jobs that occupy a slot, counted or not, are at most the limit (`BoundInv`) |
| `ProcessManager_proofs` | `AdapterSupervised`, `StatusTellsOwnership`, `SettledOnlyDetached` of `ExternalJobs`; `SharedTable`, `ActiveBound` of both kinds together | what the three program counters of an upstream job say of its future, adapter, row and callback (`JobInv`); for the shared table `SharedInv`, see below |
| `ExperimentCoordinator_proofs` | `StopIsKept`, `AtMostOneAfterStop`, `ReleasedIsTrue`, `SettledTurnsAreKept`, `NoOrphanedWork` | `Typed` (who holds the lock, which threads have a copy); `StopInv`, `AfterInv`, `ReleaseInv`; how a copy may differ from the document (`TurnsInv`); where each work may be pending (`AtWork`) |
| `ExperimentSharing_proofs` | `WarmModelIsKept`, `RevisionsAreLinked`, `EvidenceIsKept` | no document and no copy calls a warm model managed; every receipt that can still be saved is of a delivered record |
| `Replication_proofs` | `AtMostOneExecution`, `PassIsVerified`, `AttemptsOverlap`, `StagesMoveForward` | document, thread, bundle and Fabric's executions of an attempt by its stage |
| `StorageReclaim_proofs` | `StalePlanDeletesNothing`, `BusyTreeIsKept` | a write makes a version that never was, so an output that left its planned version does not come back to it (`VersionInv`) |
| `EnvironmentService_proofs` | `RunsUnderItsGrant`, `KeepsTheLedger` (the refinement of `RequestLedger`), `CallIsExact`, `LastingWorkIsSeen` | a thread holds exactly the locks of its place (`LockInv`); a request is in one thread's hands, which has not run it before it has an answer (`ServingInv`), and the order of the kept answers (`RecordsInv`); the bridge waits for one connection at a time (`BInv`); what a scan has read of the processes that last stays true (`ScanInv`), see below |
| `CampaignContinuation_proofs` | `BoundIsAuthorized`, `ForeignWorkIsRefused`, `NeverGuesses` | nothing but the question just answered; the work is in the lemmas that follow an answer back through selection, capsules and lookup to the directory |

`ProcessManager`.  What `TerminalJobs_proofs` says of a job's rows does not survive the
composition: `stop_control` writes the whole table without `_lock`, between the launch of
a terminal job and the first save of its row, or after its withdrawal.  `RowKept` is the
part of it that does survive, and suffices for `SharedTable`.  `ActiveBound` says that
both kinds together have at most `2 * MaxJobs + 1` active rows: at most `MaxJobs` running
terminal ones, and at most `MaxJobs + 1` upstream ones, counting a job whose worker has
seen it queued and is about to start it whatever `stop_control` writes meanwhile.

`ExperimentCoordinator`.  `ReleasedIsTrue` is proved for every choice of faults.
Its invariant follows the lease through each copy: a copy or the document that has lost
the record of a lease that may exist belongs to an experiment that failed or was asked to
stop, or to a thread that can only make it so (`Honest`, `Excused`, `Steady`).
`SettledTurnsAreKept` needs that nobody calls `stop()`: that is
the finding `experiment_stop_race`.  `NoOrphanedWork` needs in addition that calls of the
runtime do not raise and submissions are answered: a work whose answer is lost is not on
record.  The run `experiment_recovery` has these values.

`Replication`.  `PassIsVerified` assumes that versions have different definitions; section 4
gives the reason.  `AttemptsOverlap` counts, for any finite number of callers, those that
have looked and not yet written.

`EnvironmentService`.  `CallIsExact` is proved of `BridgedSpec`, in which the endpoint
serves the bridge and anybody else; `ThmServiceIsBridged` shows that the service on its
host implements it.  For `LastingWorkIsSeen` a process *lasts* when it still is the one
that was listed.  Of lasting processes a parent that was read is the parent (a process
changes its parent only when that one ends); so the tree below a root that is a member
has members only, and so has what is above the client in the roles of its execution.  A
quiet scan has therefore excluded no lasting stranger, has found none on record and none
that shows anything.  From the scan to the publication, work that was not overlooked does
not become so.  Pids may be given to other processes meanwhile, excluded ones
too; it is assumed that none on the list of a scan that is still reading parents is, nor
that of a client whose request is not yet registered.

Only model-checked.  Liveness (`RunningSettles`, `MonitoredGrantIsRevoked`,
`ActiveSettles`, `StopEndsAdapter`, `Ends`, `LeaseIsReleased`, `ReplicationEnds`,
`EveryRequestAnswered`): the prover has no fairness and no ENABLED.  Every safety property
of a passing run is proved.

## 6. Plan

1. `JobStateStore`: primary file and fallback, mtimes, the 100-row cap, as a refinement of
   the document of `JobTable`.
2. The typed `acquire_claim` and operator-approved recoveries of the endpoint.
3. Audit rotation, journal paging, the launcher's assembly.

## 7. Not modelled

Within modelled components: log buffers, stdin and the request-process registry of the job
manager; the typed `acquire_claim` (`environment_rpc.py:5244`), which recovers without
`dispatch`'s registration and locks; operator-approved recoveries with the exemption of a
managed Codex daemon (`:3547`); tracked terminal roots and launcher ancestry in the host
scan, and of the search for the launching shell its bound of eight processes (a shell whose
command is not that of the process below it is a plain process of the model); the error
for a request identity that is used for another operation (`:4876`), and what
`_authorize_session` looks at before a kept answer is repeated (`:4891`; it may deny); projections, updates and reports of sessions; the case of project names and the
parsing of manifests (a `site` says which projects are `named`); the fields of a handoff
record (its acceptance is one condition).  Assumed of the environment: a listed pid is not
given to another process while the scan that listed it reads parents, nor that of a client
before its request is registered; `lsof`, where storage uses it, reports what is open.

Other parts: those that translate or validate without state (configuration, policy, path
resolution, tool registration, report builders), those that call other programs (git,
GitHub, bubblewrap arguments, installation, probes), prompts and digests, and the campaign
launcher, which assembles a workspace in one sequence of steps, keeps no state of its own
and is not resumed.
