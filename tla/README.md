# A TLA+ specification of SFOS

This directory specifies, model-checks and partly proves the core of SFOS: the Serein Kernel's
one-shot conversation road and what it rests on - a durable replay store, a pending queue, an
Operations heartbeat, a private audit log - and the transactions that put a Kernel or an Outpost on a
machine and take a failed one back. All paths below are relative to `src/sfos/`; *payload* is
`kernel/payload`, *stage1* is `kernel/payload/serein_stage1`.

## 1. The system

SFOS installs three layers on a Debian machine: a **Base** (`base/`), a **Kernel** (`kernel/`) that owns
one conversation model and everything that may be asked of it, and an **Outpost** (`outpost/`) that
watches the machine and witnesses what the Kernel does. No layer trusts another's word: each re-reads
signed evidence from disk at the point of use and denies when anything differs.

### 1.1 Components

| component | code | state | operations |
|---|---|---|---|
| Durable replay store | payload/runtime/persistent_replay_store.py, replay_store.py | one SQLite file: a chain of signed receipts UNUSED, RESERVED, CONSUMED per request, one dispatch row with its outcome; in memory the attempts this owner may consume | open, initialize, reserve_request, cas, consume_request, recover, request_receipts, dispatch_evidence, end_conversation_attempt, close |
| Replay keys | payload/runtime/replay_store.py, `VersionedKeyLifecycle` | keys, active version, revoked versions | rotate, sign, verify, revoke, rollback |
| Installed conversation road | stage1/kernel.py, kernel_operations.py, conversation_runtime.py, serein_https_gateway_adapter.py | one exchange at a time in the gateway, one inference at a time in the runtime | match, reserve, forward, answer, consume, audit, reply |
| Pending queue, generic dispatch | stage1/kernel_operations.py: `OperationsQueue`, `dispatch_once`, `dispatch_pending_once` | a second SQLite file of queued task metadata in order of position | enqueue, snapshot, complete_head; evaluate, reserve, forward, consume |
| Operations heartbeat | stage1/kernel_operations.py: `serve`, `observe`, `atomic_write`, `verify_installed_conversation_boundary`; kernel_branch_api.py; supervision.py | the last observation, one published file | sample, compare, record, publish; read, wait, pass |
| Audit service | stage1/audit.py | an append-only JSON-lines file | accept, append, sync, acknowledge; read_recent_terminal |
| Scheduler metrics | stage1/kernel_operations.py, `SchedulerMetrics` | last snapshot, window of on-time snapshots | observe, remeasure |
| Authority contract, boot | stage1/authority_contract.py, authority_boot.py | signed policies and evidence on disk | match, evaluate |
| Companion provider, GPU control, domain identity | stage1/companion_provider.py, gpu_control.py, domain_identity.py | none of their own | infer, observe, sign |
| Branch API | stage1/kernel_branch_api.py | none | read-only projections |
| Kernel file transaction | kernel/install/kernel_first_install.py | the installed files, a write-ahead journal, held links to prior inodes, an ACL | install, apply_runtime_access, rollback_transaction |
| Model runtime transactions | kernel/install/offline_ollama_transaction.py | ollama.service, its drop-in, its program and model, a receipt per transaction | native: install, verify, roll back; bundle: install, roll back |
| Kernel first-install runner | outpost/install/kernel_first_install_runner.py | canonical inputs, units of four groups, the manager's definitions, the install witness | quiesce, install, publish inputs, start, observe, finalize; compensate, recover, retire |
| Generation lock | outpost/install/public_generation_transaction.py: `public_generation_lock` | one file that names its creator and boot | create, take over, release |
| Outpost generations | outpost/install/public_generation_transaction.py, public_installer_cli.py, generation_launcher.py | generation directories, image files, the `current` selector, a journal per installation | prepare, recheck, promote, contain, restore, launch |
| Outpost witnesses | outpost/outpost/*.py; copies in stage1/outpost_evidence | vitality state of host, edge and services | collect, aggregate, judge, present |
| Base | base/installer | none | verify source road and media |

### 1.2 Interactions

* Processes share *files*. The gateway and the heartbeat both hold the replay database open and take
  turns with `BEGIN IMMEDIATE`; the queue is another database, never locked together with the first; the
  heartbeat's output is one file, replaced atomically and read by the gateway.
* Processes talk over *Unix sockets*, one connection per exchange, each service serving one connection
  at a time: client to gateway, gateway to runtime, everybody to audit. systemd owns the listeners and
  restarts the services, so a connection may wait in a backlog while its server is dead.
* Installers are one-shot root processes. They share one *lock file*, drive *systemd* by synchronous
  calls whose jobs may outlive them, and leave *journals* for whoever comes later. systemd acts beside
  them: timers fire, services restart, a reboot starts whatever the selector names.
* Everything the gateway believes about the world (installed policy, boot, host facts, heartbeat) is read
  again before the reservation, after it, after the answer and inside the store: each of these may have
  changed in between.

### 1.3 What is hard

Owners racing over one database; owners dying inside a transaction; a capability that lives in memory
beside a reservation that lives on disk; wall clocks sampled before a lock is granted; retries of what was
already inferred; lost acknowledgements; facts that were checked minutes ago; two stores presented as one
snapshot; torn appends; waits without a deadline. In the installers: a kill, a cancellation or a power loss
between any two of dozens of effects on files, units and selectors; a compensation that itself fails;
somebody else's files at the targets; jobs of failed systemctl calls that take effect later; a journal or an
outcome that claims more than is true of the machine. `PROJECT.json` lists each with its line.

### 1.4 What makes each component correct

* **Store**: whatever owners do, the database stays one its own checks accept (otherwise *nobody* can open
  it); every request is one attempt; an attempt has one live owner; a route is not overfilled; recovery
  goes forward.
* **Conversation road**: one inference per request; an answer only with its consumption and its audit; an
  audited denial is true and stays true; consumption under the policy of the reservation, as the store
  last saw it.
* **Queue**: one forward per request; only consumed work leaves; lost work holds the queue.
* **Heartbeat**: what is published was recorded, was one real snapshot and continues the last publication;
  health claims are honest; a conversation passes only on the running sampler's evidence.
* **Audit**: RECORDED means durable; DENIED means absent; no event twice; no ambiguous terminal event.
* **Metrics**: counts ignore order and repetition; pressure is eligible exactly after a full window.
* **Generation lock**: one complete installation at a time, also after kills and across boots.
* **Outpost generations**: the selector moves last; complete means installed; contained means stopped; the
  observers that are started belong together.
* **Kernel files**: nobody else's file is touched, the predecessor's inode keeps a name, and a complete
  rollback is the prestate again.
* **Canonical inputs**: both objects of every input keep a name, whatever is interrupted.
* **Model runtime**: no rollback removes or restores over what somebody else put there; the native one stops
  only the process its receipt binds.
* **The whole attempt**: nothing starts on a mixture of two installations, short of finding 3; a visible witness is never left
  over compensated material; what an ended call says is true.

## 2. Modules

| module | models | checked with | proved in |
|---|---|---|---|
| `AttemptLedger` | the promise of the store: one-shot attempts (abstract) | - | - |
| `ReplayStore` | the store, its owners, transactions, crashes | `MCReplayStore` | `ReplayStoreProofs` |
| `InstalledDispatch` | gateway, runtime and audit of a conversation, over `AttemptLedger` | `MCInstalledDispatch` | `InstalledDispatchProofs` |
| `PendingDispatch` | queue and generic dispatch with racing workers, over `AttemptLedger` | `MCPendingDispatch` | `PendingDispatchProofs` |
| `OperationsHeartbeat` | sampler, published file, boundary | `MCOperationsHeartbeat` | `OperationsHeartbeatProofs` |
| `AuditLog` | audit service, its file, kills and power losses | `MCAuditLog` | `AuditLogProofs` |
| `SchedulerMetrics` | the pressure window | `MCSchedulerMetrics` | `SchedulerMetricsProofs` |
| `GenerationLock` | the lock of every complete installation | through `PublicGeneration` | `PublicGenerationProofs` |
| `PublicGeneration` | installation and restoration of an Outpost generation, systemd and reboots, over `GenerationLock` | `MCPublicGeneration` | `PublicGenerationProofs` |
| `KernelFirstInstall` | the Kernel's file transaction and its rollback | through `FirstInstall` | `FirstInstallProofs` |
| `SuccessorInputs` | the transition of the Kernel's canonical inputs | through `FirstInstall` | `FirstInstallProofs` |
| `OfflineOllama` | the two transactions of the local model runtime, their rollbacks | through `FirstInstall` | `FirstInstallProofs` |
| `FirstInstall` | one attempt of the runner over `KernelFirstInstall`, `SuccessorInputs` and `OfflineOllama`, with units, definitions and witness | `MCFirstInstall` | `FirstInstallProofs` |

`ReplayStore` is shown to implement `AttemptLedger` (`LedgerImplemented`, with `attempt <- state` and
`result <- outcome`). `InstalledDispatch` and `PendingDispatch` EXTEND `AttemptLedger` and use the store
only through its actions, which is proved of every step of theirs (`RoadUsesLedger`, `QueueUsesLedger`), so what is
shown of one inference and one forward rests on what the store was proved to promise. `PublicGeneration` and
`FirstInstall` EXTEND the modules they are composed of and take every step on their variables by one of
their actions; that the composition implements them is proved too (`InstallationsUnderLock`,
`AttemptImplements`). A definition named in a comment as *Mutation* is a plausible bug kept beside the
definition it would replace; no specification uses it.

### 2.1 ReplayStore

*State.* `db`, `lock`, `journal` are the SQLite file; `state`, `observed`, `expires`, `bound`, `outcome`
its committed rows; `conn`, `context`, `capability`, `call` what each process holds in memory; `installed`
is the closure on disk now; `recovered` what recover() last returned.

*Steps.* An operation is split where the code can be interrupted: `Begin...` samples the caller's clock and
checks the inputs (`_stable`), `Stage`/`Refuse`/`Busy` are what `BEGIN IMMEDIATE` and the checks decide,
`Recheck` is the second `_stable`, `Commit` the COMMIT, `Return` the assignment of the capability after it.
`Crash` takes any process at any of these points; inside a transaction it leaves a hot journal, which
`_no_recovery_artifacts` makes every later `Open` refuse until an owner that is still open rolls it back.

*Abstractions.* A receipt is its state and time: there is one per state and chain, so the hash the CAS
compares is its state. Signatures, canonical bytes, custody checks of the files and the 1 MiB byte limit
are left out (the row limit is kept). `RouteCapacity` stands for `capacity - external_active_count` of a
binding. A tick is the microsecond by which `reserve_request` backdates its witness.

### 2.2 InstalledDispatch

One record `gateway` walks `Phases`, the order of calls in `dispatch_installed_conversation`; each phase
may fail (`Fail`), and `Preserve` computes what the `except`/`finally` clauses and
`handle_installed_companion` make of the failure. `Change` may replace the installed closure or the host
facts, or degrade the heartbeat, between any two steps. The runtime works on a `backlog`, so it may infer
for a gateway that is already dead; its answer is then dropped with the connection. The audit exchange is
one step with the three outcomes its client can see. The consumption is two: `CheckStore` is the store's last
check of the closure, `ConsumeAttempt` its COMMIT, as `Recheck` and `Commit` are in `ReplayStore`; the closure may
be replaced between them and the code does not notice, so `ConsumedUnderOnePolicy` speaks of the closure at the
check. HTTP requests need a second, correlating event before
their answer is public. Requests are identified by the *internal* request_id: the HTTP gateway draws a
fresh one per attempt, so the one-inference promise is not made for external retries.

### 2.3 PendingDispatch

A worker's call is one step per transaction or read; `Fail` ends it anywhere without undoing anything.
`sequence` is SQLite's AUTOINCREMENT, which keeps a re-queued task from looking like the head a worker
remembers.

### 2.4 OperationsHeartbeat

`sampler` follows one iteration of `serve()`: selection, queue, replay history and clock, queue again,
recover, selection, audit, selection and recover, publish. `Recover` and `Record` may give a sample up
(`Discard`), after which the next one still follows the last *published* observation. The reader keeps one
prior sample, as the boundary does. A tick is half a second, so `Floor = 2` is the code's floor of 60 a
minute; `Floor = 1` only shortens the clock.

### 2.5 AuditLog

The file is a sequence of pieces, two per event; `synced` and `named` are what fsync of the file and of its
directory made durable. `PowerLoss` keeps any beginning of the file that contains the durable part.
`LineEnds`, `Decodes` and `Terminal` are the reader.

### 2.6 SchedulerMetrics

`SchedulerMetrics` takes arbitrary calls; the history `calls` lets `EligibleExactly` say, independently of
the incremental window, which calls justify eligibility. The loops of `_population` are recursive functions (`MemberTotals`,
`SlotTotals`: what the first *n* rows add up to).

### 2.7 GenerationLock, PublicGeneration

*Lock.* A file is identified by its creator, its inode, and carries its creator's boot once its payload is
written. A plan is signed for a lock that was observed earlier (`packet`), so installers arrive with stale
observations. An ordinary installer creates the file exclusively and unlinks it however its body ends; a
successor opens, flocks and compares the retained file, and unlinks it only behind a complete journal. A
kill drops the flock and never the file.

*Installation.* `run[i].pc` walks the order of effects of `install_request`, `restore_install_request` and
`_complete_bootstrap_promotion`; an effect and the journal row after it are one step, because nobody reads a
row before COMPLETE. Image files, the selector and running units hold the *generation* their bytes come
from. `Fail` takes the promotion into its containment at any step, `EvidenceUnproven` out of it, `Kill` and
`Reboot` end anything anywhere. `stale` says that a unit's file is newer than what systemd has loaded
(`NeedDaemonReload`), from the first unit's file placed to `Reload`: every read of a unit is denied meanwhile. A
COMPLETE row may be visible although the call that wrote it raises (`Commit`); what follows is the containment,
whose own last row is then refused, because it would replace a row this body did not write. Beside it systemd fires the collector's timer, restarts a service through
the launcher (which runs what the selector names at that moment) or loses it; `StoppedWith` is the closure
of `Requires=` and `PartOf=` in the unit files. A stop that fails, or that returns with the unit still there,
costs one of `MaxUpsets`.

### 2.8 KernelFirstInstall, SuccessorInputs

*Files.* A target is what it is to the transaction: absent, the prior inode, this transaction's inode, or
anybody else's. Each check and the rename it guards are one step, so a foreign write in the instants between
them is not in the model. Each placement is stage, intent (the inode is recorded), place, row; `Raise` and
`Interrupt` leave it anywhere, with the difference the code makes between an exception, which rolls back,
and a KeyboardInterrupt, which does not. The rollback works from the journal alone, so it can be begun
again by a later process. `Foreign` writes or removes targets at any time.

*Inputs.* Each of the three inputs has four places and two objects; a rename onto an object destroys it.
The owner keeps its phase in memory and refuses everything after an uncertain failure; a later process
resumes from the names it finds, or, before any intent, from the retained record of the preparation.

### 2.9 OfflineOllama

*State.* `service` is the process of ollama.service: who started it and the settings it got; `loaded` what the
manager last read; `dropin` the directory and file that hold the one setting the native allocation adds;
`piece` what the bundle places; `receipt` what is durable; `call` the step an installation or a rollback
stands at. `Meddle` is somebody else, or systemd by itself: the service dies or is started again, a drop-in is
edited or removed, a piece is changed.

*Steps.* `Native...` is `install_native_allocation`, `Undo...` its rollback; `Bundle...` and `Back...` are
`install` and `rollback` of a bundle. A check and the effect it guards are one step, a durable record is
another, and `...Raise` may come between any two. The failing installation calls its own rollback;
`RollbackCalled` is the cleanup of the runner, for an installation that returned. `OwnedProcess`, `Owned` and
`Bound` are the ownership checks in the order the code makes them. `RuntimeOwned` has no clause for the stop of a
bundle's rollback, because the code has none: it stops whatever runs (1907). `Meddle` may change the service under
an open bundle, too.

*What the model shows of the failures.* All are refused rather than misreported, so they are properties of the
code and no findings: an exception between the record of the drop-in's inode and its link leaves an intent
that `_native_owned_configuration` accepts in the phase CONFIG_REQUESTED only (line 1481), so the second check of
the same rollback, behind RESTORE_REQUESTED, raises with the service stopped; so does one between the mkdir and
its record; the rollback of a bundle raises for an object that was to be new and is not placed yet (1931),
where the same loop over files passes over it (1912). `RestorationObserved` is then false for good, and the
runner never reports a compensation (`OutcomeTruthful`) nor starts a predecessor (`StartsOnWholeMaterial`).

### 2.10 FirstInstall

`run.pc` walks `run`: quiesce the predecessor's four groups, install the files, publish the inputs, reload
the definitions, set the ACL, start the groups in order with the transaction of the runtime between
them if the request has one, publish the witness. A successor or a transition replaces at least one target: the
runner plans the predecessor's policy evidence as one
(`kernel_first_install_runner.py:2108`), so the files of before and those of the candidate are never the same
state.
The handlers follow as in the code: `Abort` is `_KernelLifecycleOwnership`, `Caught` to `Reread` the handler
of `run`, `Recoveries` the predecessor's owner after its yield, `Later` a following process
(`_failed_construction`, the retirement). `Mutate` and `Unmutate` take the steps of `OfflineOllama` under the
boundary of the attempt; the compensation needs `RestorationObserved` again at every one of its own effects.

*Jobs.* A systemctl call that fails may leave its job with the manager; `Settle` finishes it or gives it up, at any
later time. The runner reads the states of units and not their jobs: `Inactive`, the condition of every boundary,
compares labels, and a unit with a queued start is inactive by its label. Only a retirement asks for the jobs
(`Settled`, in `RetireInputs`). The one command whose failure is waited for is the start of the predecessor
(`Await`). Hence what the properties except: the late job of a failed *start* whose cleanup failed too may start a unit
while the attempt's files are taken back (finding 3), and one of a failed *stop* may halt a predecessor that was
restarted. Without a failed cleanup the stop of the cleanup has replaced the job of the start.

## 3. Runs

Each run is a `.cfg`; `tlc -config X.cfg MCModule`.

| run | question | result |
|---|---|---|
| ReplayStoreMixed | two owners, three requests of two kinds, one route, crashes: is the database always valid, are attempts one-shot and singly owned, is capacity kept, do the dead stay dead, is the ledger implemented? | yes |
| ReplayStoreHistory | recover() races transactions while the installed closure changes under open owners: is valid work ever refused, do counts go back, is anything consumed elsewhere than it was reserved? | no |
| InstalledDispatch | facts change and processes crash at any step, requests are retried: are denials true, is there one inference, are answers backed, is consumption under one policy, does the gateway keep a connection only while it waits for others? | yes, the last under fairness |
| PendingDispatch | two workers, four tasks of two requests: one forward, outcomes of the right request, ordered removal? | yes |
| HeartbeatSnapshot | concurrent stores, deaths, lost acknowledgements, gaps, reboots, a reader: recorded, coherent, contiguous, honest cadence, current evidence? | yes |
| HeartbeatSkipped | do two healthy samples follow the last degraded one? | **no** (finding 1) |
| AuditLog | kills and power losses: durable answers, no repetition, unambiguous terminal event, is every peer answered? | yes, the last under fairness |
| AuditTorn | is every acknowledged event in the window readable? | **no** (finding 2) |
| SchedulerMetrics | are counts independent of order and repetition, is pressure eligible exactly after a full window? | yes |
| PublicGeneration | three installers, kills, failures, a reboot, systemd: one owner, selector last, truthful containment and completion, whole observers? | yes |
| FirstInstall | an attempt of any kind, with either runtime transaction or none, that fails anywhere, foreign writes, a foreign hand on the runtime, late jobs, compensation, recovery, a later process: nothing on a mixture, nobody's file or setting touched, nothing lost, no false claim? | yes, but for finding 3 |
| FirstInstallLateJob | is every unit quiesced where the compensation begins? | **no** (finding 3) |

### 3.1 Bounds

* **ReplayStore** - two owners are enough for every race of the lock (a third only waits); two or three
  requests with `RouteCapacity = 1` make two reservations compete; `MaxTime` 3-4 from a start of 2 leaves
  room for a reservation, a consumption and an expiry; `MaxRows = 7` makes the row limit bite after two
  full chains. Owners are symmetric.
* **InstalledDispatch** - `MaxExchanges = 2` gives a retry behind a left-over inference; `MaxChanges = 1`
  puts a change of the closure, the host or the heartbeat on either side of any gate (a closure that is
  replaced and put back is left to `ReplayStoreHistory`, where it changes without a bound). One result is
  enough: no property compares two.
* **PendingDispatch** - `QueueLimit = 2` is reached; `MaxPosition = 3` lets a finished task come back.
* **OperationsHeartbeat** - `MaxTime = 2` ticks at `Floor = 1` hold a healthy gap, a degraded one, a
  restart and a reboot, after which the clock starts again (`MaxTime = 7` half-seconds at the code's
  floor where a reader has to skip a publication); two commits and two queue changes give the queue time
  to return to a content it had before.
* **AuditLog** - three peers, two of one request; `Window = 4` pieces: the third event pushes the first out of
  the window; two faults let a torn append be followed by another.
* **SchedulerMetrics** - a window of two is filled, kept full and broken in four calls; lanes are
  symmetric.
* **PublicGeneration** - two image files, the launcher and a unit's, so an image is half placed and a unit's file
  newer than what is loaded (4 million states); three installers, so a stale
  observer of the lock meets a second owner and a third creator; one reboot makes a lock retained; one
  upset of systemd at a time (the budget is spent by a boot too).
* **FirstInstall** - three targets, one of them replaced, so something is before and after the replacement;
  two targets touched by somebody else, or one act on the runtime, but not both in one behaviour (3.2 million
  states). The bundle has a piece of each kind: a directory, a new object, a link and a file that were
  there. Plans are made of an active ollama.service, as the native prestate demands. The four groups of
  units are the code's.

`CHECK_DEADLOCK FALSE` appears where the system may stop: bounded clocks and numbers of calls, a queue
held by lost work, a database nobody can open again after a crash, and installers that have ended.

### 3.2 Fairness

* `InstalledDispatch!FairSpec`: weak fairness of `OwnStep` alone, the gateway's own next step where it is not in one of
  its waits without a deadline (`Waits`): a degraded heartbeat (the boundary polls it for as long as it lasts), an
  inference (`settimeout(None)`), the host facts over HTTPS (`timeout=None`, `kernel_operations.py:392-393`) and the
  acknowledgement of the audit service (`kernel.py:516-520`). Nothing is assumed of the runtime, Operations, Outpost,
  the audit service, clients, restarts or changes: that any of these waits ends is theirs to guarantee, and commits at
  the sampling rate may keep the heartbeat degraded. `ExchangeEnds` therefore says that a connection is released or
  the gateway is found in such a wait again and again.
* `AuditLog!FairSpec`: the service runs and is restarted (`Restart=always`). `PeersAnswered` would fail
  without `EXCHANGE_TIMEOUT_SECONDS`, which `RefuseFrame` models: a silent peer is refused.

### 3.3 Findings

1. **A degraded observation can be skipped** (`HeartbeatSkipped`). The boundary polls a file. If a
   degraded and then a healthy observation are published between two polls, it compares two healthy ones
   and passes if their *mean* gap is at most a second (`kernel_operations.py:600`), although its
   docstring asks for two healthy samples after the last degraded one.
2. **An acknowledged audit event can be unreadable** (`AuditTorn`). An append interrupted by a kill leaves a
   line without an end. The reader ignores it while it is last (`audit.py:257`), but the writer appends
   the next event to the same line; that event was acknowledged, and every read of the window fails
   until the line has left it.
3. **A compensation may begin with a start still queued** (`FirstInstallLateJob`). The handler of `run` takes the ACL
   and the files back because "Lifecycle cleanup has quiesced all owned units"
   (`kernel_first_install_runner.py:6798`), and checks that by the labels of the units (6252-6262). A failed start can
   leave its job with the manager, as the runner says itself (3402), and the stop that would cancel it can fail: the
   cleanup then raises (3295-3301) and the handler goes on by labels, under which a queued unit is inactive. In the
   trace the job starts a unit of the candidate while the handler takes its files back. `RetireInputs` shows the
   remedy the code has elsewhere: a retirement reads `Job` as well (3164-3168).

## 4. Proofs

Every safety property of the passing runs is proved for all values of the constants, from the
assumption each module states about them. None is inductive as it stands; each subsection names the
invariant that is, and what it adds.

**`ReplayStoreProofs`** (for every set of owners, requests, kinds, routes and every bound):

* `Inductive` - `Spec => []IInv`;
* `TypeCorrect`, `HistoryAlwaysAuthentic`, `CapabilityAlwaysSound`, `RouteCapacityAlwaysKept`,
  `RecoveryAlwaysServed` - the invariants of the runs;
* `AlwaysConsumedInContext`, `ReplayAlwaysProgresses`, `DeadForever` - the action properties;
* `StoreImplementsLedger` - every step of the store is a step of `AttemptLedger` or stutters.

`HistoryAuthentic` speaks of committed rows, but a commit is only right if what was checked when it was
staged is still true. `IInv` therefore adds: `CallsOK` (what a call in flight carries), `LockHeld` (exactly the
staged and checked calls hold the lock, so nobody else commits in between), `StagedValid` (what was checked
before staging still holds of the rows that are still the same) and `HoldersSound` (attempts, and commits on
their way to becoming attempts, have one owner). There is one lemma per conjunct, with one step per action;
`OnlyCommitWrites` reduces all but `Commit` to unchanged rows, and `ChainCommitted` and `RowsCommitted` say what
a commit does to one chain and to the table. `RouteCapacityAlwaysKept` uses the same: capacity was counted
under the lock the commit still holds. That recovery goes forward rests on `ReportBehind` (a report counts no
more than what is committed when it is made); that the dead stay dead on the three ways a call can still be
under way for a reservation (`Flying`): no step opens one of them again.

What a death does to the files is proved as well, and checked by no run: a store nobody has open can be created or
opened unless an owner died inside its creation or its write transaction (`AlwaysOpenableOrStranded`), and what such a
death strands with no owner left is never opened again (`StrandedForever`). `FilesOK` says who may have the file
open in each of its states, and that the journal is open exactly while somebody holds the lock.

**`InstalledDispatchProofs`**: `InferredOnce`, `AnswersAlwaysBacked`, `DenialsStayTrue`, `OnePolicyThroughout`
and `RoadUsesLedger`. What a client reads and what the audit log says are about steps long past. `RoadInv`
follows the request instead: `SentOnce` (its copy is at the runtime's socket once, then inferred once, and only
after the reservation), `Exchange` (what the gateway knows in each phase: `Reserved`, `Sending`, `Receiving`,
`Telling`), `Settled` (the runtime is done with a consumed attempt) and `DenialsKept` (the gateway never again
works on a request whose denial is recorded). That the closure stood at the last check needs only the policy the
exchange has carried since its match.

**`PendingDispatchProofs`**: `ForwardedOnce`, `OutcomeAlwaysReturned`, `ConsumedLeaves` and `QueueUsesLedger`. The
step that forwards relies on what a transaction found several steps earlier. `QueueInv` says what stays true in
between: from its reservation to its consumption one worker owns a request (`OwnedOnce`), the attempt is still
reserved and was forwarded exactly if that worker did it (`Owned`).

**`OperationsHeartbeatProofs`**: `PublishedAlwaysRecorded`, `PublishedAlwaysCoherent`, `PublicationsAdvance`,
`CadenceAlwaysHonest` and `PassedOnlyOnCurrent`. `HeartbeatInv` says what a sample means in each step before it is
published: how it continues the published one (`FollowsPublished`, `Sampled`), which comparison it has passed
(`Coherent`) and that it is in the log (`Acknowledged`). That two stores never locked together were once as the
sample says rests on the receipts only growing: a history that grew before the comparison is still
longer at the next check.

**`AuditLogProofs`**: `AnswersTruthful`, `AppendedAtMostOnce`, `TerminalAlwaysSole`, `UnreadableOnlyWhenTorn`. In `AuditInv`, the pieces of a
peer lie together (`Compact`), those of the peer that is served are the end of the file (`Serving`), so one fsync
covers all of them, and a power loss keeps a beginning that contains the durable part.
`UnreadableOnlyWhenTorn` bounds finding 2 from the other side: in every reachable state, an acknowledged event that
is alone of its request in the window is read, unless an interrupted append in that window (`Torn`) took another
event onto its line, and without a fault always. It adds `LinesInv`: the end of a line follows the beginning of the
same event.

**`SchedulerMetricsProofs`**: `CountsAlwaysDistinct` and `EligibleAlwaysExact`, for lists of any length, any window
and any order of calls. Both rest on an induction over the rows. The library's induction theorems take an operator
as a parameter, so the module derives its own from sets: a set of numbers that is not empty has a least one
(`LeastNat`, from the well-foundedness of `<`), hence a set that has 0 and each successor has every number
(`CountUp`). By it the loops end and are what their definitions say (`MemberLoop`, `SlotLoop`), and the total of a
list is valid exactly when its *set* of rows has no contradiction, and then counts that set (`MembersCounted`,
`SlotsCounted`). So a population depends neither on the order of the rows nor on their repetition, and two lists of
one digest count alike (`SamePopulation`). `MetricsInv` says what the window stands for: `Remembers` (what is kept is
the snapshot of the last call, or nothing after a refusal) and `WindowCounts` (the length of the window is that of
the longest streak of on-time, valid, high-pressure calls that ends the history). A call extends every streak by
one or ends all of them (`StreakGrows`), and the code's comparison of digests decides which just as the calls
themselves do (`OnTimeExactly`). That all calls of a full window have the last one's population is a second
induction (`OnePopulation`).

**`PublicGenerationProofs`**: of the lock, `OneOwnerCorrect` for any installers and boots. `LockInv` says what a
stage means for the file: an ordinary owner's file is its own inode and written; a successor past flock is the
only one with that inode; a file of a creator that may still write is of this boot, so no plan can name it.
Installations, systemd and reboots take only steps of the lock (`InstallationsUnderLock`), so
`InstallationsExclude` follows. So does `InstallationsBlocked`: a file whose creator
died in this boot, or before it wrote its payload, is named by no plan (`PacketWritten`), so it keeps everybody out. Of the installations, `SelectorAlwaysLast`, `CompleteAlwaysInstalled`,
`ContainmentAlwaysTruthful` and `ObserversAlwaysWhole`. `HostInv` gives every installer a `Body`: it holds the
lock while it acts (`Staged`); the image is the candidate's up to its index and the selector moved after all of
it (`Placing`); of the units only those it has not yet stopped still run, and the observers only where the start-up
material is unchanged (`Halting`); what a containment has seen of the observers is still so (`Observing`); and
what a closed journal claims is true until the next installation (`Claimed`).

**`FirstInstallProofs`** has the three constituents and the attempt over them.

* *Files.* `PriorSurvivesCorrect` and `ForeignKeptCorrect` for any plan of targets: every replaced target is
  linked before the first placement (`LinkedInOrder`, `LinkedBefore`) and a link goes only when the target is the
  prior inode again; only absent targets, prior inodes and recorded inodes are ever written over.
  `RollbackAlwaysRestores` says that a sealed rollback has every target that nobody else took back as it was, and
  has left no link and no staged inode. Its invariant `RollbackInv` relates the two lists of the journal to the
  targets (`CountsAt`, `PlacedInOrder`) and says how much a rollback has reversed, also one begun again by a
  later process (`ReversedSoFar`, `UnstagedSoFar`).
* *Inputs.* `InputsAlwaysRecoverable`. In `InputsInv` the owner stands at one pair, those before it are done and
  those after it untouched (`OwnerPlaces`), and every pair is in one of five layouts a later owner can restore
  (`NamesKept`).
* *Runtime.* `RuntimeInvariant` and `RuntimeOwnedCorrect`, from the one assumption about the order of a bundle's
  pieces. A rollback's stop must never be reached with a process the receipt does not name: without a recorded
  start the check accepts the predecessor, and the predecessor runs only while nothing but its stop was
  requested (`PlannedEarly`), where the rollback returns without an effect (`UndoNothing`); hence `HaltBound`.
* *The attempt.* `AttemptImplements`: the attempt, its handlers, its recoveries and later processes take steps of
  the three constituents only, so their properties hold of the whole (`AttemptKeepsPrior`, `AttemptKeepsForeign`,
  `AttemptInputsRecoverable`, `AttemptKeepsRuntime`). Beyond them `StartsAlwaysWhole` (no group of units is ever
  started over a mixture, not even by a job that comes late), `WitnessAlwaysComplete` and `OutcomesTruthful`.
  `AttemptInv` is the three invariants, `Quiet` (the runtime's settings are those of before until its process is
  stopped, so a readback that finds a restoration has seen the runtime of before) and `RunnerInv`, which says
  where the four stand at each step of the runner: the files (`FilesAt`), the runtime (`RuntimeAt`), definitions and
  inputs on the way in and back (`Delivered`, `Returned`), a visible witness (`Witnessed`) and an ended call (`Claims`),
  and `JobsInv`, which says where a job the runner cannot see may be pending (`LateJobs`: of a start only while the
  failed step is cleaned up or waited for, unless the cleanup failed; `StopsAt`: none behind the stops
  of a later process) and what units run meanwhile (`UnitsAt`). There is one lemma per action of the
  runner (`...Run`), in which the invariants of the constituents are used only through what a step of theirs keeps.

TLC finds every one of these invariants true on the instances of the runs as well.

*Only model-checked.* `ExchangeEnds` and `PeersAnswered`: liveness under fairness is outside this prover's reach.

## 5. Not modelled

Signatures, hashes, canonical JSON, file custody (owners, modes, inodes) and schemas: they decide guards,
and the models keep the guard. The evaluation of a policy or contract (`authority_contract.py`): the
dispatch modules keep whether it still gives the same answer. The generic governed companion, health
probes and tool-round mapping of `kernel.py`; the other projections of the branch API; the inference
itself.

Of the installers: packet and plan construction and their validation; the host-time steps and the
first-boot enablement of an Outpost; the older staged `transaction.py`; in `FirstInstall` a kill inside
the composite (the lock then excludes every later attempt until the next boot; kills of the file
transaction and of the input transition are in their own specifications), the retirement of payload and
links after the inputs, and the v1 run that is not complete. Of the model runtime: the classification of a
bundle and its archive, the staging tree inside the selector (nobody else reads it), the observation of GPU and
material, the v1 receipt without incarnations, and the later call of a rollback that is already complete, which
only reads.

`VersionedKeyLifecycle`: a map and a number in one object of one thread, which its unit tests reach.

The Outpost's witnesses, vitality rules, presentation and registry, Base and the preflight: judgements over
one reading, or pure I/O.

## 6. Plan

Done, in order of importance: the store and its ledger; the conversation road; the queue; the heartbeat; the
audit log; metrics; the generation lock; Outpost generations; the Kernel's file transaction; the input
transition, the runtime transactions and the whole attempt of the runner. All with proofs.

Next:

1. `HostVitality`, `VitalsEdge`, `VitalsAggregation`, `Watchdog` - the Outpost's judgements over missing, late,
   repeated and contradictory observations.
2. `AuthorityContract` - match and evaluate against changing evidence.

Proofs worth adding: the journal invariants of a later process that is itself killed, once kills enter
the composite; whatever the two modules above state.
