# A TLA+ model of the cloud agent sandbox orchestrator

The orchestrator gives every agent session a sandbox: a Kubernetes pod with a
workspace volume and a CA secret. It creates sandboxes on first contact, hands
out pre-warmed ones, stops idle ones, resumes them on their retained workspace
and purges them. This directory holds TLA+ modules that model that code, the TLC
configurations that check them on small instances, and proofs, checked by TLAPS,
of theorems that hold for every instance.

Paths below are relative to `src/`; `manager.go` is `internal/manager/manager.go`
and `kubernetes.go` is `internal/runtime/kubernetes.go`.

## 1. Inventory

| Part | State it keeps | Operations | Talks to |
|---|---|---|---|
| session store (`internal/session`) | map id -> `Session`, under a mutex; hands out clones | Create, Get, Update, Delete, List, ListByState, Touch; `NewID`, `CanonicalID` | called by manager and reaper |
| session manager (`internal/manager`) | per-id locks `keyed`, activity counts `active` | Create, EnsureSession, Clear, Stop, Resume, Delete, SweepOrphans, Begin/EndActivity | store, runtime, pool, proxy assigner and scaler |
| sandbox runtime (`internal/runtime`) | none; pods, claims and secrets live in Kubernetes | Create, WaitReady, Stop, Resume, Purge, Get, ListSandboxes, ListWorkspaces | Kubernetes API |
| warm pool (`internal/pool`) | queue `idle`, counter `warming`, `started` | Start, Acquire, Stats, background `run` | runtime |
| reaper (`internal/reaper`) | none | `reapOnce` on a ticker | manager (Stop, Delete, SweepOrphans), store |
| exec (`internal/exec`) | job table, under a mutex; the job, its log and its exit code are in the pod | Run, StartJob, PollJob, StopJob, ReadFile, WriteFile, ListDir | pod exec streams |
| MCP server (`internal/mcp`) | `eagerOnce` set | tools; `withIdentity` starts a sandbox eagerly | manager, exec |
| edit tool (`internal/mcp/edit.go`) | none | replaceUnique, insertAfterLine, ... | - |
| REST API (`internal/api`) | none | session CRUD | manager |
| proxy autoscaler, assigner, CA (`internal/proxy`) | replicas of a Deployment | reconcile, EnsureReady, Assign | Kubernetes API |
| proxy addon (`proxy/addons/inject.py`) | token cache | request hooks | GitHub |
| network policy verifier (`internal/netpolicy`) | none | Verify at startup | Kubernetes API |
| configuration, client setup, `cmd/orchestrator` | - | wiring, shutdown | all |

What makes the code hard is that every operation of the manager is a sequence of
store calls and slow API requests with nothing held in between, except that
EnsureSession and Clear hold a per-id lock. Stop, Resume and Delete - called by
the REST API and the reaper - do not take it and write back a clone they read
before their API requests. On top of that, requests fail or lose their answers,
contexts are cancelled in the middle, deleted pods and claims linger, and the
store forgets everything at a restart.

What makes each part correct:

* manager: no two requests provision the same id; no two sessions share a
  sandbox; a workspace has one live pod; `running` means ready; a session never
  stays in `creating`, which counts against `MaxRunning`; nothing leaks; every
  request returns; the cap is missed by few; the documented lifecycle holds.
* warm pool: bounded, loses nothing, hands out each sandbox once, refills.
* reaper and sweep: idle sessions stop and no busy one does; everything a crash
  leaves behind is purged and nothing in use is.
* exec: a finished job is reported finished, with its own exit code, and stays
  finished; a result is kept long enough to be fetched; a wait ends.
* autoscaler: a sandbox that starts finds a proxy; scaling settles.
* editor: an edit changes what it was asked to change and nothing else; what
  view numbers is what insert counts.
* buffers, `desiredReplicas`: functional correctness.

The hazards behind these, each at its line, are listed in `PROJECT.json`.

## 2. Modules

| Module | Models |
|---|---|
| `Cluster` | the Kubernetes objects of a sandbox, the effect of each API request of `kubernetes.go`, and the steps of the cluster's controllers |
| `SandboxLifecycle` | the manager's session operations over the store, `Cluster` and the stock of warm sandboxes (extends `Cluster`); implements `SessionContract` where only the MCP surface is served |
| `SessionContract` | what the manager promises to the MCP server |
| `PoolContract` | what `manager.Pool` promises to Create |
| `WarmPool` | `internal/pool` in full, over `Cluster`; implements `PoolContract` |
| `Reaper` | `internal/reaper`, SweepOrphans and the activity counts beside MCP calls, time and restarts (extends `Cluster`) |
| `ShellJobs` | background jobs: the job table of `kubeexec.go`, the processes in the pod and the steps of the shell_async, shell_poll, shell_wait and shell_stop tools |
| `TextEdit` | the text algorithms of `edit.go` and the two bounded buffers of `kubeexec.go`, as operators |
| `SandboxTools` | the tools of one sandbox together: `ShellJobs`, the synchronous shell, and the editor on a shared file (extends `ShellJobs` and `TextEdit`) |
| `ProxyScaling` | `autoscaler.go` in full, beside Manager.Create, other sandbox pods and the controller of the proxy's Deployment |
| `MCSandboxLifecycle`, `MCWarmPool`, `MCReaper`, `MCSandboxTools`, `MCProxyScaling` | instances for TLC |
| `SandboxLifecycleProofs` | proofs about the manager: types and the collision of creations |
| `SandboxOwnershipProofs` | proofs about the manager: which session owns a sandbox, which pod mounts a workspace (extends `SandboxLifecycleProofs`) |
| `SandboxServiceProofs` | proofs about the manager: what it guarantees as long as nothing fails, its contract, the cap (extends `SandboxOwnershipProofs`) |
| `WarmPoolProofs`, `ProxyScalingProofs` | proofs about the pool and the autoscaler |
| `ReaperProofs` | proofs about the reaper beside MCP calls |
| `TextEditProofs` | lemmas about the algorithms of `TextEdit`, for every text |
| `SandboxToolsProofs` | proofs about jobs and edits (extends `TextEditProofs`) |

### Cluster

A sandbox provisioned under SessionID k owns the pod `sbx-k`, the claim `pvc-k`
and the secret `ca-k`, so objects are indexed by k. A pod is none, starting,
ready or terminating and records the claim it mounts (a resumed session that came
from the pool mounts a claim of another key). A claim is none, bound or
terminating. Deletion is asynchronous: the object keeps its name until the
cluster removes it, and a claim stays while a pod mounts it. A pod gets ready
only if its claim is bound and its secret exists. The controllers are external;
they are modelled from how `kubernetes.go` relies on them.

### SandboxLifecycle

State and code:

| Variable | Code |
|---|---|
| `store` | `MemoryStore.sessions`: state, image, PodName, PVCName; the empty string is `None` |
| `lock` | the mutexes of `Manager.keyed` |
| `idle` | what `WarmPool.Acquire` can hand out |
| `th[t]` | a goroutine serving one request: its kind, id, requested image, label, the clone `sess` it works on, the running count it read, where a called `Runtime.Purge` or `Runtime.Stop` returns to, and whether its context is cancelled |
| `faults` | remaining faults (a bound, not code) |

Requests are ensure (an MCP tool call), clear (clear_session), and create, stop,
resume and delete (REST; the reaper issues stop and delete). A request is a
sequence of actions, one per store call or API request, because those are the
points where other goroutines run:

* ensure: LockSession, EnsureGet, then return, Resume, or purge + Forget + Create;
* create: CountRunning, CountCreating, Provision (a warm sandbox through Acquire,
  or ClaimWait, ClaimCreate, SecretCreate, PodCreate with their rollbacks),
  Persist, WaitReady, MarkRunning; cleanupFailedCreate is a purge + MarkDead;
* stop: StopGet, StopPod, StopSecret, MarkStopped;
* resume: ResumeGet, ResumeSecret, ResumePod, MarkCreating, ResumeWait,
  MarkResumed; cleanupFailedResume is StopPod, StopSecret, RestoreStopped;
* delete: DeleteGet, PurgePod, PurgeSecret, PurgeClaim, MarkDeleted.

`Request` is one API request: it takes effect, or fails for a cancelled context,
or fails at the cost of a fault, and then it may nevertheless have taken effect.
A request the API refuses for its state (the name is taken) fails without a
fault. `UpdateAndFinish` is `MemoryStore.Update`, which refuses an id without a
record and otherwise writes the clone over whatever is there. WaitReady may time
out at any moment until the pod is ready. `Fresh` says that `NewID` never returns
an id in use.

Data left out: timestamps, labels, owner ids, proxy ids, runtime classes. The
proxy's Assign and EnsureReady appear as an error that may end Create.

### SessionContract

What EnsureSession and Clear promise, without locks, goroutines, clones and API
requests: a session is granted under a free id, with a warm sandbox or one of its
own name, and with an image; it is settled once, as running or dead; it is
dismissed. `Contract` in `SandboxLifecycle` maps `session` to the store, `spare` to
the stock and `drawn` to the warm sandboxes that goroutines at Persist hold
(`Drawn`). Persist is Grant, or Drop where the record is refused; MarkRunning and
MarkDead are Settle; Forget is Dismiss; Provision with a warm sandbox is Draw;
PoolRefills is Refill; everything else stutters. Stop, Resume and Delete do not keep this contract: they
write to a session without the lock.

### WarmPool and PoolContract

`idle`, `warming` and `started` are the fields of the Go struct; `pc` and
`handle` belong to the goroutine Start launches. Each critical section of the
mutex is one action. Runtime.Create of a warm sandbox is one action per API
request (CreateWarmClaim, CreateWarmSecret, CreateWarmPod, and the rollback on a
background context), although nobody else knows its key: the requests go out on
the server's context, and a shutdown may cancel it between any two of them, or
while one is under way, whose effect may have taken place (`Cancelled`).
Runtime.Purge of one, whose context nothing cancels, is one action with all its
outcomes (`PurgeFails` lists what a failure leaves behind). The module follows one
process while it lives: main waits for the HTTP server only, so after a shutdown
the goroutine may stop for good at any step, and what it leaves then is a matter
of `Reaper`, whose Restart loses everything kept in memory. `PoolContract` has two
steps, Offer and Take, with `stock` mapped to the set of queued handles.

### Reaper

| Variable | Code |
|---|---|
| `store` | `MemoryStore.sessions`, with three limits instead of timestamps: `idle` (LastActivityAt), `overdue` (CreatedAt), `expired` (StoppedAt) |
| `oldPods`, `oldClaims` | objects whose creation timestamps are past MaxLifetime and StoppedTTL |
| `active` | `Manager.active` |
| `call[c]` | a goroutine in requireSession or in the tool behind it |
| `rp` | the goroutine of `Reaper.Run`: its label, what it has listed, the sandbox it handles |
| `stock` | the warm sandboxes; their pods and claims keep the pool label |
| `restarts`, `faults` | remaining restarts and failing requests of the reaper (bounds) |

A pass is StartPass, ListPods, SweepPods, ListClaims, SweepClaims (each sandbox
through PurgePod, PurgeSecret, PurgeClaim), ListRunning, StopNext (StopPod,
StopSecret, MarkStopped), ListStopped, DeleteNext (the three purge steps and
MarkDead). StopNext is runningExpired, which reads the activity count, together
with the Get of Manager.Stop. A call is EnsureGet (lock and look), Create,
PodCreate, Persist, WaitReady, or Resume and ResumeWait, then BeginActivity and
EndActivity. Where SandboxLifecycle has one action per API request, Create and
Resume are cut here only where the reaper can tell the difference.

Time is abstract. Every comparison of a pass uses a clock read at its beginning,
so what is past a limit is settled for the pass; SomeTimePasses lets one limit
pass between passes, MuchTimePasses all of them. Limits are hours and the
provisioning of a sandbox is minutes at most, so no limit of a sandbox passes
while a call provisions it (`Quiet`): without that assumption the grace periods
of the sweep protect nothing. The configuration requires all limits to be
positive (`config.go:308`).

Restart empties the store, the stock, the counts, the calls and the reaper, and
leaves the cluster as it is. Clear, Delete over REST and image changes are left to
SandboxLifecycle. Pods die only when somebody deletes them: evictions, which
nothing in the code looks for, are not modelled in any module.

### ShellJobs, TextEdit and SandboxTools

| Variable | Code |
|---|---|
| `jobs` | `KubeExecutor.jobs`; the PID and the file names derive from the id |
| `process[j]` | in the pod: the wrapper shell of job j, the command in its subshell, the code the command ended with, and the sentinel file |
| `pod`, `foreign` | the session's pod; the jobs whose PID belongs to another process in a pod that replaced theirs |
| `call[c]` | the goroutine of a job tool: its label, job, the pod the session had when it began, and PollJob's clone |
| `editing[c]`, `file` | the goroutine of shell or of the editor, with the text it will write; the file, on the workspace volume |
| `spent` | how often the bounded events have happened: calls, edits, mishaps, ticks |
| `settled`, `stops`, `over`, `late`, `seen`, `alone` | history for the properties |

A poll is LookupJob (under the mutex), ReadExitCode, CheckProcess, and StoreClone,
which reads the log and writes the clone back under the mutex. shell_wait goes
round that loop. Each remote request may find the pod gone (PodUnreachable), may
run into its own timeout - then Run returns no error, exit code 0 and no output,
so a sentinel looks missing, a process alive and a kill done - or may be ended by
the context of the call. In the middle of a poll an ended context always ends it
before the write-back: the log is read without Run's tolerance of timeouts.

`kill -TERM` ends the wrapper shell only. The command runs in the subshell the
wrapper waits for and goes on until it ends by itself, and no sentinel is written;
Terminate says that. A wrapper that exits stays a zombie under `sleep infinity`,
which never reaps, so its PID is not used again while the pod lives; a new pod may
use it (`foreign`). StopJob without a job id sends SIGINT to children of PID 1;
shells started with `&` ignore it, so it changes nothing here.

An edit is ReadForEdit, TruncateFile and WriteFile: no lock spans the requests,
`cat > path` empties the file when the shell opens it, and writes from offset 0,
over whatever others have written since (Overlay). A stream that breaks leaves a
beginning of the text (WriteFails).

Texts are sequences of characters, one of which is the newline. CountMatches is
`strings.Count`, which skips overlapping matches. InsertAfterLine, DisplayLines
and NumberedLines are defined by the positions of newlines where the code loops
or splits.

### ProxyScaling

`scaler` is the goroutine of `Autoscaler.Run` between its three requests (count,
get, patch); `creator[c]` a goroutine in Manager.Create with the same three of
EnsureReady, its wait, and what follows; `desired` is what each has computed.
`sandboxes` counts the pods that are not terminating; `replicas`, `pods` and
`ready` are the Deployment. `config` is chosen at the beginning among the
configurations that `Valid` accepts, as Config.Validate does at startup. The
controller of the Deployment is external: it adds and removes pods until there
are as many as replicas, those that are not ready first. The rest of Create is one
step, which may add a pod or not (a warm sandbox was counted before).

## 3. Runs

| Run | Instance | Result |
|---|---|---|
| `lifecycle_races` | 1 session, 1 warm sandbox, 2 goroutines, all six requests | TypeOK, PersistNeverCollides, WorkspaceExclusive, CreatingIsAttended hold |
| `lifecycle_faults` | 1 session, 2 goroutines, ensure/clear/stop, 1 fault or cancellation | PersistNeverCollides and RequestsReturn hold |
| `lifecycle_mcp` | 3 sessions, 1 warm sandbox, 2 goroutines, ensure/clear, 2 images, MaxRunning 1 | NoSharedSandbox, RunningMeansReady, NoLeakWhenQuiet, OvershootIsBounded, ImplementsContract hold |
| `lifecycle_resumable` | 1 session, 1 goroutine, ensure/stop/resume, no faults | StoppedIsResumable violated |
| `warm_pool` | target 2 (MinIdleReady 3 capped by MaxRunning 2), 5 uuids, 2 callers of Start, 1 Acquire, 1 fault, 1 timeout, shutdown at any time | TypeOK, PoolBound, FinishNeverDrops, NoLostSandbox, ImplementsContract, PoolFills hold |
| `reaper` | 1 session, 1 warm sandbox, 1 goroutine for calls, 1 restart, 1 failing request of the reaper | TypeOK, SweepSparesSandboxes, DesertedSandboxesEnd hold |
| `reaper_busy` | 1 session, 1 goroutine, no restart, no fault | NeverIdleMidCall violated |
| `reaper_purge` | the same | StoppedSandboxesArePurged violated |
| `reaper_orphans` | 1 session, 1 warm sandbox, 1 goroutine for calls, 1 restart, no fault | RestartsLeakNoOrphans violated |
| `sandbox_tools` | 2 goroutines, 2 jobs, 2 pod names, exit codes 0 and 1; 4 job calls, or 3 with a mishap or with 2 ticks, or 3 edits with a mishap, or 1 of each; texts of a, b and newline up to 4 characters read | TypeOK, ReportsAreTrue, SettledStays, RetentionKept, WaitsEnd, SoleEditIsExact, InsertMatchesView, ReplacesTheOnlyOne, BuffersKeepEnds hold |
| `job_exit_code` | 2 goroutines, 1 job, 2 calls, no mishap | ExitCodeIsReal violated |
| `proxy_scaling` | every valid configuration of perProxy 1 or 2, minReplicas 0 or 2, maxReplicas none or 1; 2 creators, 3 sandboxes, 3 starts, 1 fault | TypeOK, DesiredIsLeast, ProxyBeforeTraffic, ReplicasSettle, SandboxesAreServed, EnsureReadyFindsProxy hold |

Why the bounds are enough. The races of the manager are between two goroutines
on one session: one holds a stale clone while the other runs. A goroutine serves
any number of requests one after the other, so sequences are unbounded; two
goroutines and six request kinds give every pairwise interleaving. Sharing needs
two sessions and one warm sandbox, which `lifecycle_mcp` has; its `MaxRunning` of 1
can be missed by one with two goroutines, and with a third session it could be
missed by two. One fault is enough to reach each error path at each point; runs about
correctness without faults say so. The pool needs as many uuids as sandboxes that
can be created: target, plus one acquired, one failed and one late. The reaper treats
sessions one after the other and per id, and its races are with one call on the
session it handles; one restart makes every object an orphan at any point of a
call or of a pass, and passes and calls repeat without bound.

The tools have four bounded events, and `Budgets` lists how many of each may come
together. Four job calls are what it takes for a job to be started, polled by a
slow poll, settled by a second call and asked for once more; a mishap (a request
timeout or the deletion of the pod) and the ticks that let entries expire
(Retention 0 and HardTTL 1, so that an age of one is past the first limit and not
past the second) come with three. Jobs and editor calls do not touch each other's
state, so their combinations are small. Three edits are one that makes the file
and two that race. With two sandboxes per proxy and up to four counted, every
rounding and clamp of `desiredReplicas` occurs; two creators and the timer are all
the writers of the replicas that can differ.

Deadlock is not checked (except for ProxyScaling, whose timer never stops), because a deployment nobody calls, or a pool after its
shutdown, rightly stands still; that requests do not wait for each other for ever
is RequestsReturn.

Properties that need an explanation:

* `CreatingIsAttended` is checked without faults. With a cancelled context at
  the last update of Resume the code leaves the record in creating; the next
  ensure call purges it.
* `RunningMeansReady` and `NoLeakWhenQuiet` are promises of the MCP surface, and
  are checked where only ensure and clear run. Stop, Resume and Delete do not
  take the lock and break both.
* `ImplementsContract` of the manager is checked there as well. It does not need
  the absence of faults; the proof does without.
* `OvershootIsBounded` says how far `MaxRunning` is missed, which `config.go` (line
  98) calls "the hard cap on simultaneously running sandboxes": Create compares two
  lists, read one after the other, before it spends seconds provisioning, so two
  creations may pass with room for one. The bound counts goroutines that serve requests at the same time. It
  is for deployments in which nothing is stopped and resumed, since Resume
  compares nothing with the cap, and it holds with faults too.
* `NoLostSandbox` holds until an API request fails by itself; Purge errors are
  ignored. Before the shutdown the living process loses nothing. The shutdown may
  cost it the one sandbox in creation: a context cancelled after the claim was
  created makes the request for the CA secret fail, which Create does not roll
  back, and a pod created by a request whose answer the cancellation cut off is
  not deleted by the rollback. It costs no more than that one, although the select
  of `run` may choose the ticker again and again: with a cancelled context no
  later creation gets as far as its claim. What the end of the process itself cuts
  off is not in this property but in RestartsLeakNoOrphans.
* `PoolFills` is for servers that are not shut down.
* `SweepSparesSandboxes` leaves out the claim that is purged after an orphan pod.
  That request goes by name, and when the orphan was a resumed warm sandbox, or
  had lost its claim to a racing Delete, a session created under the same id in
  the meantime loses the claim it has just created. It takes a restart as well.
* `SettledStays` is for runs without mishaps: after a timeout PollJob takes a dead
  process for alive, and in a new pod of the same name another process for the
  job's. `ReportsAreTrue` holds with mishaps too. It excepts jobs somebody stopped,
  because a stop whose kill timed out marks a running job, and the exit code 0,
  which is the finding below.
* `InsertMatchesView` excepts an insert after a last line without a newline, whose
  text continues that line. `ReplacesTheOnlyOne` is about texts that do not overlap
  a copy of themselves: `strings.Count` finds "aa" once in "aaa", and the tool
  replaces the first of the two places.
* `SoleEditIsExact` is about an edit during which nobody else writes the file. Two
  edits at a time, or an edit beside a command, lose or mix text; the code has no
  lock against it.
* `ProxyBeforeTraffic` and `EnsureReadyFindsProxy` except what the timer does: a
  sandbox that is being created is not counted until its pod exists, so with
  minReplicas 0, the default, and no other sandbox, a tick between EnsureReady's
  patch and the pod scales the proxy to zero. If the proxy was not ready yet,
  nobody scales it up again and the creation fails at its deadline; if it was, the
  sandbox starts without a proxy until a later tick (`SandboxesAreServed`).
* `DesertedSandboxesEnd` is about every name, those of warm sandboxes included, but
  says what may remain: the stock of the pool, and what is out of the reaper's
  sight. For objects named after a session these are three states (`OutOfSight`): a stopped session without a pod name, a dead session whose
  sandbox was resumed while Delete purged it (the sweep skips known ids), and a
  dead session that ran on a warm sandbox while older objects named after its id
  survive from before a restart. Objects named after a warm sandbox remain
  (`WarmOutOfSight`) when a stopped session without a pod name has their claim, or
  when a restart has come and no record refers to them: the sweep skips their
  label. Requests of the reaper may fail in this run; those of calls do not.

### What the violations show

* **Stopped is not always resumable.** `architecture.md` calls a stopped session
  resumable. A resume issued while the stopped pod is still terminating creates
  the CA secret, then fails on the pod's name and leaves the secret; every later
  resume fails on the secret.
* **Idle is decided too early.** The reaper reads the activity count, then stops
  the session by id in several requests. A call that begins in between, or whose
  EnsureSession has returned but not yet counted, loses its pod, although
  `manager.go` says that "an idle-timeout never fires mid-call".
* **A failed resume is never purged.** cleanupFailedResume clears the pod name,
  and the purge of an empty name is refused on every pass; `config.go` says that
  stopped sandboxes are purged after StoppedTTL.
* **A restart leaks the warm sandboxes.** The repository's README says that "a
  self-healing sweep reconciles against Kubernetes so restarts never leak orphans".
  The sweep skips every pod and workspace with the pool label, whichever process
  made it, and a new pool does not look for the stock of the old one: warm
  sandboxes, and those of sessions that took one, stay for ever.
* **A failed job may look successful.** A poll that looks for the exit code just
  before the job ends, and for the process just after, finds neither, and returns
  the job as finished with exit code 0. `kubeexec.go` calls the code it reports
  real. A later poll corrects it; shell_wait and its caller have gone by then.

## 4. Fairness

The manager: weak fairness of every goroutine's progress (the Go scheduler runs
runnable goroutines) and strong fairness of LockSession (a `sync.Mutex` hands
itself to a waiter that has starved for a millisecond). Nothing is assumed of
clients, the pool or the cluster: every wait in the code has a timeout, so a
request returns even if no pod ever gets ready. The pool: weak fairness of the
goroutine, whose ticker keeps firing, of Start, which main calls, and of the
cluster, without which no warm pod gets ready. The reaper: weak fairness of its
goroutine, whose ticker keeps firing, of every call, and of the cluster; strong
fairness of MuchTimePasses, because time passes between passes whatever they do.
Nothing is assumed of clients: DesertedSandboxesEnd speaks of those that stay away.
The tools: weak fairness of every call's next step and of the processes, so that
commands end; contexts, deadlines and time may stand still, so WaitsEnd does not
live on a deadline. The autoscaler: weak fairness of the timer's goroutine, of
every creator except its deadline, and of the Deployment's controller, whose pods
get ready.

## 5. Proofs

All theorems assume the named assumptions of `Cluster`, `SandboxLifecycle`,
`WarmPool`, `Reaper`, `ShellJobs`, `TextEdit`, `SandboxTools` and `ProxyScaling`: the key of
a warm sandbox is no session id, `None` is no name, sets, limits and
configurations have their types, edits are those the tool's schema describes
(`EditArguments`). TLC evaluates these assumptions on every run. The theorems
of `SandboxServiceProofs` have a hypothesis more, which is what their runs
instantiate: CreatingIsNeverAbandoned that nothing fails (`MaxFaults = 0`),
RunningIsReady and NothingLeaks that in addition only EnsureSession and Clear are
served (`Calm`). MCPImplementsContract assumes only the latter (`OverMCP`), and
CapIsMissedByFew that nothing is stopped or resumed (`NothingStops`) and that the
goroutines are finitely many, and at least one: whatever fails.

| Theorem | States |
|---|---|
| `SandboxLifecycleProofs!TypeCorrect` | `Spec => []TypeOK` |
| `SandboxLifecycleProofs!NoCollision` | `Spec => []PersistNeverCollides` |
| `SandboxLifecycleProofs!OneProvisioner` | two goroutines never provision the same id |
| `SandboxOwnershipProofs!SandboxesAreOwned` | `Spec => []NoSharedSandbox` |
| `SandboxOwnershipProofs!WorkspacesAreExclusive` | `Spec => []WorkspaceExclusive` |
| `SandboxServiceProofs!CreatingIsNeverAbandoned` | `Spec => []CreatingIsAttended`, without faults |
| `SandboxServiceProofs!RunningIsReady`, `NothingLeaks` | `RunningMeansReady`, `NoLeakWhenQuiet`, if `Calm` |
| `SandboxServiceProofs!MCPImplementsContract` | `Spec => ImplementsContract`, if `OverMCP` |
| `SandboxServiceProofs!CapIsMissedByFew` | `Spec => []OvershootIsBounded`, if `NothingStops` |
| `WarmPoolProofs!TypeCorrect`, `NeverOvershoots`, `FinishHasRoom` | `TypeOK`, `PoolBound`, `FinishNeverDrops` |
| `WarmPoolProofs!PoolImplementsContract` | `Spec => Contract!Spec` |
| `WarmPoolProofs!NothingIsLost` | `Spec => []NoLostSandbox`, for any number of faults, timeouts and uuids |
| `ReaperProofs!TypeCorrect`, `SweepIsSafe` | `TypeOK`, `SweepSparesSandboxes` |
| `SandboxToolsProofs!TypeCorrect` | `Spec => []TypeOK` |
| `SandboxToolsProofs!PollsAreTrue`, `SettledForGood` | `ReportsAreTrue`, `SettledStays` |
| `SandboxToolsProofs!EvictedInTime`, `SoleEditsAreExact` | the action properties `RetentionKept`, `SoleEditIsExact` |
| `SandboxToolsProofs!OnlyOneIsReplaced`, `InsertsAreViewed` | `ReplacesTheOnlyOne`, `InsertMatchesView` |
| `SandboxToolsProofs!BuffersAlwaysKeepEnds` | `BuffersKeepEnds` |
| `ProxyScalingProofs!TypeCorrect` | `Spec => []TypeOK` |
| `ProxyScalingProofs!DesiredIsAlwaysLeast` | `Spec => []DesiredIsLeast` |
| `ProxyScalingProofs!ReadyBeforeTraffic` | `Spec => []ProxyBeforeTraffic` |

*Type correctness of the manager* is not inductive alone: whether a step writes
a well-formed record depends on what the goroutine carries at its label.
`IInv` adds, for every goroutine, what fits its label (a thread at a create label
has a create or ensure request, its clone has a pod name, and so on).

*NoCollision* needs to know why nobody persists an id between a request's check
and its own Persist. `Exclusive` says: an ensure or clear request past LockSession
holds the lock of its id (HoldsLock); from the point where it is going to create,
its id has no record (Unclaimed); and the id of a REST create is known to nobody
else until it is persisted (Private). The key fact about the unlocked Stop,
Resume and Delete is that `MemoryStore.Update` never adds a record.

*SandboxesAreOwned* strengthens the claim from records to everything that can
still write one: `Owned` says that the keys a session refers to - in its record
or in the clone of any goroutine working on it, old incarnations included - are
its own id or warm sandboxes no other session refers to, and that none is in
stock.

*WorkspacesAreExclusive* asks who mounts a claim. A session that runs on a warm
sandbox mounts the claim of another key only after its warm pod was deleted, when
Resume puts a pod of the session's own name on it. `Retired` says that a record, or a
clone, that is stopped, names different keys for pod and claim, or belongs to a
goroutine past the deletion of the pod, has no live warm pod on its claim; it is
kept because a warm pod is never created again under the same name. `Mounts` says
that a live pod mounts its own claim or that of such a sandbox, which nobody but
the pod's session refers to.

*CreatingIsNeverAbandoned* strengthens "a goroutine of the id is busy" to `Attended`:
it is at a label from which every way out takes the record out of creating. A
goroutine that leaves these labels writes another state, and a stale clone that
says creating is written back only by one that stays at them.

*RunningIsReady* and *NothingLeaks* have one invariant, `Service`. `Phase` says for each label
what the goroutine knows of the pod, the claim and the secret it works on, and that
its clone is the record in the store; the keyed lock keeps it so, since every other
goroutine of the id waits at LockSession, and `Owned` keeps the goroutines of other
ids away from the objects. `Accounted` says that every object nobody has deleted is
in stock, belongs to a running record, or is held by a goroutine that is building
or purging it.

*MCPImplementsContract*: whatever a step writes to a record is a clone that was read
or made some steps before, so the refinement needs to know how the clone of a
goroutine stands to the record it will write. `Suits` says it: until Persist the
clone is a session in creating, with a warm sandbox only if it has the default image;
from then to MarkRunning or MarkDead the record is still in creating and has the
clone's sandbox, workspace and image. It is kept because the lock of the id is held
from LockSession to Return, also after a failure or a cancellation (`Exclusive`). That no
sandbox is granted twice follows from `Owned`.

*CapIsMissedByFew* is an argument with a potential. A goroutine that has counted
fewer than MaxRunning running sandboxes, and has not finished its Create, is
`Aiming`; `Capped` says that the running sandboxes and the Aiming together are fewer
than MaxRunning plus the goroutines. When a goroutine begins to aim, its count is
current, so at most MaxRunning - 1 are running, and no more than all goroutines
aim. Afterwards a sandbox gets running only where its goroutine ceases to aim.

*The pool*: `IInv` says that one goroutine replenishes, that `warming` is one
exactly while it holds a slot, that stock and slot together stay in bounds, and
that the queue, the handle and the taken sandboxes are disjoint and used. The
refinement maps FinishWarming to Offer, Acquire to Take, and the rest to stutter.
*NothingIsLost*: a step either leaves a key in the hands it was in, or deletes its
objects, or uses up a fault, or is a request of Runtime.Create that the shutdown
cancels. For the last case `LossIsBounded` says that, until a fault, nothing is rolled
back or lost before the shutdown, and that once a sandbox is lost none is in
creation; the claim of a later one is refused by the cancelled context before it
has an effect.

*TypeCorrect of the reaper* has one clause that is not about shapes: an activity
count never exceeds the number of goroutines that serve calls. EndActivity alone
would not keep it; `Counted` says that `active[i]` is the cardinality of the set of
calls in flight on i, which a call enters and leaves once.

*SweepIsSafe*: what is deleted was decided on lists that are old by then. The
invariant says what may be relied on in between. While the sweep lists, a session
that was unknown when the pass began and has come meanwhile is a `Newcomer`: not
stopped or being resumed, and its pod and claim are either young or a warm
sandbox's. An object of an unknown name that is past its limit is therefore a
`StrayPod` or `StrayClaim`, one that neither a record nor a creation refers to; and
it remains one while it exists, since Create fails on a name that is taken and only
a session that names the object itself could put it to use. That a record or a clone
refers to no names but its session's own and warm ones (`OwnRefs`) excludes the
other sessions. A claim that is deleted after its orphan pod is not covered, by the
property either: between the two requests the name may be taken anew (a listed
hazard). The theorem rests on the model of time of section 2: an object that is
young when a pass begins is young for the whole pass.

*The jobs*: `JobsInv` says of an entry of the table, and of the clone of any poll
in flight, what `TrueEntry` says: if it is finished, the job was stopped or its
command ended or was lost; a code other than 0 is the command's; a finishing time is
not before the job was over. Clones grow old while they wait to be written back, so
the proof needs that truth about a job stays true: `SameOrLater` and `GoesOn` say
that a dead process stays dead, that codes, stops and ends are never taken back,
and `EntryStaysTrue` concludes. *SettledForGood* adds that a call that begins after a
report (`late`) finds the process dead; *EvictedInTime* follows from the finishing
times.

*The edits*: `EditsInv` says that the text a goroutine is about to write is what
`EditedText` makes of the text it read, and *SoleEditsAreExact* that, while nobody
else writes, truncating and writing from offset 0 leaves that text.
*OnlyOneIsReplaced*, *InsertsAreViewed* and *BuffersAlwaysKeepEnds* are about all texts. `TextEdit`
counts matches and splits lines with recursive functions over positions; what they
compute is proved by induction on a set of numbers (`NumberInduction`, from the
well-foundedness of < on the naturals): if the set of lengths for which a
statement holds lacked a number, it would lack a least one. `CountIsPlaces` says that the
count of a text that does not overlap itself is the number of its places. For the lines,
`NewLineIsOnly` says that the k-th newline is the only position with k newlines up to
it, so that the lines of two texts put together, the first of which ends its last line,
are the lines of the first and then those of the second (`ConcatLines`). An insert cuts
the file behind a line (`CutBetweenLines`), hence the old file is two such texts and
the new one three.

*The proxies*: `RoundedUp` and `MoreServeMore` are the arithmetic of the rounded-up
quotient; `DesiredServes` adds the limits and gives *DesiredIsAlwaysLeast* for every
configuration that Validate accepts. *ReadyBeforeTraffic* is not inductive alone:
the creator that has just seen a ready proxy could lose it to another creator
patching an older count. `Kept` says why not: what a creator is about to patch is
at least one (EnsureReady counts its own sandbox), so, unless the timer clears or a proxy
fails, the replicas stay at one or more from its patch on, and the controller
removes unready proxies first.

Only model-checked: the liveness properties RequestsReturn, PoolFills,
DesertedSandboxesEnd, WaitsEnd, ReplicasSettle, SandboxesAreServed and
EnsureReadyFindsProxy, because liveness under fairness is beyond the prover. Every
other property of a passing run has a theorem.

## 6. Not modelled, and the plan

Not modelled:

* When withIdentity starts its eager creation (`eagerOnce`): it is one more ensure
  request, which SandboxLifecycle interleaves with any other, and every tool call
  ensures the session itself.
* `CanonicalID` (one hash, without state), the network policy verifier (two lists
  read once and a decision), the proxy assigner (a constant) and the creation of
  the CA (one call at startup).
* The proxy addon, a second program. Its rules are configuration and its token
  provider calls GitHub under a lock; the hazard is listed.
* ListDir, which no tool calls, and quoting of shell words.

Out of scope: JSON, HTTP and MCP framing, authentication headers, logging, pod
hardening, manifests and images, which are configuration without behaviour of
their own; SPDY streams, which are a library.
