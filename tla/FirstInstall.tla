----------------------------- MODULE FirstInstall -----------------------------
(***************************************************************************)
(* run of outpost/install/kernel_first_install_runner: one attempt to install *)
(* the Kernel as one transaction over its files (KernelFirstInstall), its     *)
(* canonical inputs (SuccessorInputs), systemd's units and definitions, the   *)
(* local model runtime (OfflineOllama) and the witness, and what undoes a       *)
(* failed attempt: the handlers of the attempt itself, _failed_construction and *)
(* the retirement of an input transition.                                    *)
(*                                                                         *)
(* The four groups of units are OLD (the predecessor's), NEW or STOPPED.  A    *)
(* systemctl call that fails may leave its job to the manager, which finishes  *)
(* it later.  The runner reads the states of units and not their jobs, but for  *)
(* a retirement.  A step here is a check with the effect it guards; an exception,   *)
(* a cancellation among them, may come before any.  The whole attempt holds    *)
(* the lock of GenerationLock, and a killed one never goes on (its lock stays). *)
(***************************************************************************)
EXTENDS KernelFirstInstall, SuccessorInputs, OfflineOllama

VARIABLES
    unit,       \* what each group of units runs
    job,        \* per group, the manager's job left by a failed call, or that
                \* it did it since
    manager,    \* the definitions the manager has loaded
    witness,    \* kernel-install-witness.json
    inbox,      \* the canonical source and receipt of an in-place successor
    run         \* the attempt

hostvars == <<unit, job, manager, runtimevars, witness, inbox>>
vars == <<filevars, inputvars, hostvars, run>>

Groups == <<"AUTHORITY", "OPERATIONS", "INTERFACE", "RESIDENCY">>
Lifecycle == <<"AUTHORITY", "OPERATIONS", "INTERFACE", "RUNTIME", "RESIDENCY">>
GroupNames == {Groups[n] : n \in 1..4}

\* FRESH has no predecessor; SUCCESSOR reads the candidate from the canonical
\* paths; TRANSITION reads it elsewhere and owns the canonical inputs.
Attempts ==
    [mode : {"FRESH", "SUCCESSOR", "TRANSITION"}, restart : BOOLEAN,
     replace : {"NONE", "NATIVE", "BUNDLE"},
     pc : {"QUIESCE"}, n : {4}, stopped : {FALSE}, reload : {FALSE}, attempted : {FALSE},
     restored : {FALSE}, published : {FALSE}, failure : {FALSE}, outcome : {"NONE"}]

Init ==
    /\ FilesInit /\ InputsInit /\ RuntimeInit
    /\ \E a \in Attempts :
        /\ a.restart => a.mode = "SUCCESSOR"
        \* A successor replaces at least the policy evidence of its predecessor.
        /\ a.mode # "FRESH" => Replaced # {}
        /\ run = [a EXCEPT !.pc = CASE a.mode = "FRESH" -> "INSTALL"
                                    [] a.mode = "SUCCESSOR" -> "QUIESCE"
                                    [] OTHER -> "PREPARE"]
        /\ unit = [g \in GroupNames |-> IF a.mode = "FRESH" THEN "STOPPED" ELSE "OLD"]
        /\ inbox = IF a.mode = "SUCCESSOR" THEN [source |-> "NEW", receipt |-> "NEW"]
                   ELSE [source |-> "OLD", receipt |-> "OLD"]
    /\ job = [g \in GroupNames |-> "NONE"]
    /\ manager = "BEFORE" /\ witness = "BEFORE"

At(pc) == run.pc = pc
Go(pc, n) == run' = [run EXCEPT !.pc = pc, !.n = n]
End(outcome) == run' = [run EXCEPT !.pc = "END", !.outcome = outcome]

\* An exception leaves run: through the predecessor's owner if it stopped any.
Escape == IF run.stopped THEN Go("RECOVER", 1) ELSE End("FAILED")

\* inactive_kernel_units, and what a retirement requires besides.
Inactive == \A g \in GroupNames : unit[g] = "STOPPED"
Pending(g) == job[g] \in {"START", "STOP"}
Settled == \A g \in GroupNames : ~Pending(g)
Untouched == Targets \ touched

\* The process of a native runtime is the one expected, unless it is being changed.
RuntimeExpected ==
    run.replace = "NATIVE" =>
        CASE ~run.attempted -> service = Planned
          [] run.restored -> service = receipt.back
          [] run.pc \in {"REOPEN", "START", "WITNESS"} -> service = receipt.start
          [] OTHER -> TRUE

\* material_boundary, boundary and compensation_boundary.
Material == (owner.pc = "NONE" \/ VerifyLive) /\ RuntimeExpected
Boundary == Material /\ Inactive
CompensationBoundary == Boundary /\ (run.attempted => run.restored /\ RestorationObserved)

\* systemctl start and stop, which may fail before, during or after the effect.
Started(g, as) == unit' = [unit EXCEPT ![g] = as] /\ job' = [job EXCEPT ![g] = "NONE"]
Stopped(g) == Started(g, "STOPPED")
Failed(g, left) ==
    /\ \E j \in {job[g], left} : job' = [job EXCEPT ![g] = j]
    /\ UNCHANGED unit

\* The manager does a job, a start with the definitions it has by then, or gives
\* it up.
Settle(g) ==
    /\ \/ Pending(g) /\ job' = [job EXCEPT ![g] = "NONE"] /\ UNCHANGED unit
       \/ /\ job[g] = "STOP" /\ job' = [job EXCEPT ![g] = "HALTED"]
          /\ unit' = [unit EXCEPT ![g] = "STOPPED"]
       \/ /\ job[g] = "START" /\ job' = [job EXCEPT ![g] = "STARTED"]
          /\ run.mode = "FRESH" => manager = "AFTER"
          /\ unit' = [unit EXCEPT ![g] = IF manager = "AFTER" THEN "NEW" ELSE "OLD"]
    /\ UNCHANGED <<filevars, inputvars, manager, runtimevars, witness, inbox, run>>

-----------------------------------------------------------------------------
(***************************************************************************)
(* The way forward.                                                        *)
(***************************************************************************)

\* input_owner.prepare: before the first unit is stopped.
Prepare ==
    /\ At("PREPARE") /\ PrepareInputs /\ Go("QUIESCE", 4)
    /\ UNCHANGED <<filevars, hostvars>>

\* _quiesce_installed_kernel: dependants first.
Quiesce ==
    LET g == Groups[run.n] IN
    /\ At("QUIESCE") /\ Material
    /\ \/ /\ Stopped(g)
          /\ run' = [run EXCEPT !.stopped = TRUE, !.n = run.n - 1,
                                !.pc = IF run.n > 1 THEN "QUIESCE" ELSE "INSTALL"]
       \/ /\ Failed(g, "STOP")
          /\ run' = [run EXCEPT !.stopped = TRUE, !.pc = "RECOVER"]
    /\ UNCHANGED <<filevars, inputvars, manager, runtimevars, witness, inbox>>

\* Mutation: the construction goes on without publishing the inputs.
InstallUnpublished ==
    /\ At("INSTALL") /\ Boundary /\ InstallStep
    /\ IF tx'.pc # "RETURNED" THEN UNCHANGED run ELSE Go("REFRESH", 1)
    /\ UNCHANGED <<inputvars, hostvars>>

\* install, with the boundary of run before each of its effects.
Install ==
    /\ At("INSTALL") /\ Boundary /\ InstallStep
    /\ IF tx'.pc # "RETURNED" THEN UNCHANGED run
       ELSE Go(IF run.mode = "TRANSITION" THEN "PUBLISH" ELSE "REFRESH", 1)
    /\ UNCHANGED <<inputvars, hostvars>>

InstallFails ==
    /\ At("INSTALL")
    /\ Raise \/ Interrupt \/ Undo \/ (Boundary /\ RollbackStep) \/ RaiseAgain
    /\ UNCHANGED <<inputvars, hostvars, run>>

\* The call of install is outside the handler that compensates.
InstallLeft ==
    /\ At("INSTALL") /\ tx.pc \in {"IDLE", "RAISED", "INTERRUPTED", "COMPENSATED"}
    /\ Escape
    /\ UNCHANGED <<filevars, inputvars, hostvars>>

Publish ==
    /\ At("PUBLISH") /\ Inactive /\ PublishInputs
    /\ IF owner'.pc = "PUBLISHED" THEN Go("REFRESH", 1) ELSE UNCHANGED run
    /\ UNCHANGED <<filevars, hostvars>>

\* WitnessPublicationUncertain: nothing is compensated after it.  The first state
\* row fails before that.
PublishLost ==
    /\ At("PUBLISH") /\ LoseInputs
    /\ IF OwnerIn("STATE") THEN Go("CAUGHT", 0)
       ELSE run' = [run EXCEPT !.pc = "END", !.outcome = "UNCERTAIN", !.published = TRUE]
    /\ UNCHANGED <<filevars, hostvars>>

\* refresh_definitions.
Refresh ==
    /\ At("REFRESH") /\ Boundary
    /\ \/ manager' = "AFTER" /\ run' = [run EXCEPT !.reload = TRUE, !.pc = "ACCESS"]
       \/ manager' \in {manager, "AFTER"} /\ run' = [run EXCEPT !.reload = TRUE, !.pc = "CAUGHT"]
    /\ UNCHANGED <<filevars, inputvars, unit, job, runtimevars, witness, inbox>>

Access ==
    /\ At("ACCESS") /\ Boundary /\ ApplyAccess /\ Go("START", 1)
    /\ UNCHANGED <<inputvars, hostvars>>

\* construction_boundary, with the definitions the phase started from.
Constructed ==
    /\ Material /\ access = "OBSERVER" /\ manager = "AFTER"
    /\ \A m \in 1..(run.n - 1) : Lifecycle[m] # "RUNTIME" => unit[Lifecycle[m]] = "NEW"

After(n) == CASE n = 5 -> "WITNESS" [] OTHER -> "START"
Following(n) == IF n = 3 /\ run.replace = "NONE" THEN 5 ELSE IF n = 5 THEN 5 ELSE n + 1

\* _authority_, _operations_, _interface_ and _companion_residency_lifecycle.
Start ==
    LET g == Lifecycle[run.n] IN
    /\ At("START") /\ g # "RUNTIME" /\ Constructed /\ unit[g] = "STOPPED"
    /\ \/ Started(g, "NEW") /\ Go(After(run.n), Following(run.n))
       \/ Failed(g, "START") /\ Go("ABORT", run.n)
    /\ UNCHANGED <<filevars, inputvars, manager, runtimevars, witness, inbox>>

\* _offline_companion_lifecycle: its consumers first ...
Consumers ==
    /\ At("START") /\ Lifecycle[run.n] = "RUNTIME" /\ Constructed
    /\ \/ /\ Stopped("INTERFACE")
          /\ \/ run' = [run EXCEPT !.pc = "MUTATE", !.attempted = TRUE]
             \/ Go("ABORT", run.n)
       \/ Failed("INTERFACE", "STOP") /\ Go("ABORT", run.n)
    /\ UNCHANGED <<filevars, inputvars, manager, runtimevars, witness, inbox>>

\* ... then its own transaction, which compensates its own failure, with the
\* boundary of this one at each of its effects ...
Mutate ==
    /\ At("MUTATE") /\ Material /\ unit["INTERFACE"] = "STOPPED"
    /\ \/ NativeOpen /\ run.replace = "NATIVE"
       \/ BundleOpen /\ run.replace = "BUNDLE"
       \/ NativeStep \/ UndoStep \/ BundleStep \/ BackStep
    /\ UNCHANGED <<filevars, inputvars, unit, job, manager, witness, inbox, run>>

MutateFails ==
    /\ At("MUTATE")
    /\ NativeRaise \/ UndoRaise \/ BundleRaise \/ BackRaise
    /\ UNCHANGED <<filevars, inputvars, unit, job, manager, witness, inbox, run>>

RuntimeInstalled == run.replace = "NATIVE" => NativeInstalled

\* ... which is read back or has failed ...
Mutated ==
    /\ At("MUTATE")
    /\ \/ Calling("RETURNED") /\ Material /\ RuntimeInstalled /\ Go("REOPEN", run.n)
       \/ call.pc \in {"IDLE", "RETURNED", "LEFT", "RESTORED"} /\ Go("ABORT", run.n)
    /\ UNCHANGED <<filevars, inputvars, hostvars>>

\* ... and the consumers again.
Reopen ==
    /\ At("REOPEN") /\ Material
    /\ \/ Started("INTERFACE", "NEW") /\ Go("START", 5)
       \/ Failed("INTERFACE", "START") /\ Go("ABORT", 4)
    /\ UNCHANGED <<filevars, inputvars, manager, runtimevars, witness, inbox>>

\* owner.verify and finalize: bytes and custody of every target, as verify_install
\* reads them.
Finalize ==
    /\ At("WITNESS") /\ Constructed /\ unit["RESIDENCY"] = "NEW"
    /\ run.replace # "NONE" => RuntimeInstalled
    /\ \A t \in Targets : file[t] \in {"OURS", "FOREIGN"}
    /\ witness' = "NEW"
    /\ \/ run' = [run EXCEPT !.pc = "END", !.outcome = "INSTALLED", !.published = TRUE]
       \/ run' = [run EXCEPT !.pc = "ABORT", !.published = TRUE]
    /\ UNCHANGED <<filevars, inputvars, unit, job, manager, runtimevars, inbox>>

Forward ==
    Prepare \/ Quiesce \/ Install \/ InstallFails \/ InstallLeft \/ Publish \/ PublishLost
        \/ Refresh \/ Access \/ Start \/ Consumers \/ Mutate
        \/ MutateFails \/ Mutated \/ Reopen \/ Finalize

-----------------------------------------------------------------------------
(***************************************************************************)
(* The way back.                                                           *)
(***************************************************************************)

\* An exception before any effect of the step it stands at.
InHandler == {"REFRESH", "ACCESS"}
InLifecycle == {"START", "REOPEN", "WITNESS"}
Compensation == {"REVOKE", "ROLLBACK", "REVERT", "REREAD"}
Recovery == {"RECOVER", "INPUTS", "RESTART", "AWAIT", "CHECK"}

\* publish, before the source pair is moved, or cancelled inside it.
PublishPlainly ==
    \/ owner.pc \in {"PREPARED", "STAGING", "INTENT"}
    \/ owner.pc \in {"ASIDE", "INTO"} /\ owner.index = 1

Fail ==
    /\ \/ At("PREPARE") /\ End("DENIED")
       \/ At("QUIESCE") /\ (IF run.stopped THEN Go("RECOVER", 1) ELSE End("DENIED"))
       \/ At("PUBLISH") /\ PublishPlainly /\ Go("CAUGHT", 0)
       \/ run.pc \in InHandler /\ Go("CAUGHT", 0)
       \/ run.pc \in InLifecycle /\ Go("ABORT", run.n)
       \/ run.pc \in Compensation /\ tx.pc \notin Compensating /\ Escape
       \/ run.pc \in Recovery /\ End("UNPROVEN")
    /\ UNCHANGED <<filevars, inputvars, hostvars>>

Aborted(n) == Go(IF n > 0 THEN "ABORT" ELSE "CAUGHT", n)
AbortFails == run' = [run EXCEPT !.pc = "CAUGHT", !.n = 0, !.failure = TRUE]

\* _KernelLifecycleOwnership.abort: the last started first, and nothing under a
\* cleanup that failed.
Abort ==
    LET g == Lifecycle[run.n] IN
    /\ At("ABORT") /\ run.n > 0 /\ (g = "RUNTIME" => ~run.attempted)
    /\ IF g = "RUNTIME" THEN UNCHANGED <<unit, job>> /\ Aborted(run.n - 1)
       ELSE \/ Stopped(g) /\ Aborted(run.n - 1)
            \/ Failed(g, "STOP") /\ AbortFails
    /\ UNCHANGED <<filevars, inputvars, manager, runtimevars, witness, inbox>>

\* The cleanup of the runtime: its consumers, the rollback, its readback.
AbortRuntime ==
    /\ At("ABORT") /\ Lifecycle[run.n] = "RUNTIME" /\ run.attempted
    /\ \/ Stopped("INTERFACE") /\ Go("UNMUTATE", run.n)
       \/ Failed("INTERFACE", "STOP") /\ AbortFails
    /\ UNCHANGED <<filevars, inputvars, manager, runtimevars, witness, inbox>>

\* Only an installation that returned is rolled back here; of one that did not,
\* what it compensated itself is read.
Unmutate ==
    /\ At("UNMUTATE") /\ Material /\ unit["INTERFACE"] = "STOPPED"
    /\ RollbackCalled \/ UndoStep \/ BackStep
    /\ UNCHANGED <<filevars, inputvars, unit, job, manager, witness, inbox, run>>

Unmutated ==
    /\ At("UNMUTATE") /\ Material /\ call.pc \in {"LEFT", "RESTORED"} /\ RestorationObserved
    /\ run' = [run EXCEPT !.pc = "ABORT", !.n = run.n - 1, !.restored = TRUE]
    /\ UNCHANGED <<filevars, inputvars, hostvars>>

CleanupFails ==
    /\ run.pc \in {"ABORT", "UNMUTATE"} /\ AbortFails
    /\ UNCHANGED <<filevars, inputvars, hostvars>>

\* Mutation: an uncertain publication is compensated like a failure before it.
CaughtAnyway ==
    /\ At("CAUGHT")
    /\ IF CompensationBoundary THEN Go("REVOKE", 1) ELSE Escape
    /\ UNCHANGED <<filevars, inputvars, hostvars>>

\* The handler of run.
Caught ==
    /\ At("CAUGHT")
    /\ IF run.published THEN End("UNCERTAIN")
       ELSE IF CompensationBoundary THEN Go("REVOKE", 1) ELSE Escape
    /\ UNCHANGED <<filevars, inputvars, hostvars>>

Revoke ==
    /\ At("REVOKE") /\ CompensationBoundary /\ RevokeAccess /\ Go("ROLLBACK", 1)
    /\ UNCHANGED <<inputvars, hostvars>>

Rollback ==
    /\ At("ROLLBACK") /\ CompensationBoundary
    /\ (In("RETURNED") /\ OpenRollback) \/ RollbackStep
    /\ IF tx'.pc # "COMPENSATED" THEN UNCHANGED run
       ELSE Go(IF run.mode = "TRANSITION" THEN "REVERT" ELSE "REREAD", 1)
    /\ UNCHANGED <<inputvars, hostvars>>

RollbackFails ==
    /\ At("ROLLBACK") /\ RaiseAgain /\ Escape
    /\ UNCHANGED <<inputvars, hostvars>>

Revert ==
    /\ At("REVERT") /\ Inactive
    /\ RestoreInputs
    /\ IF owner'.restored THEN Go("REREAD", 1) ELSE UNCHANGED run
    /\ UNCHANGED <<filevars, hostvars>>

RevertLost ==
    /\ At("REVERT") /\ LoseInputs /\ Escape
    /\ UNCHANGED <<filevars, hostvars>>

\* Mutation: the manager keeps the definitions of the candidate.
RereadSkipped ==
    /\ At("REREAD") /\ CompensationBoundary
    /\ IF run.stopped THEN Go("RECOVER", 1) ELSE End("COMPENSATED")
    /\ UNCHANGED <<filevars, inputvars, hostvars>>

\* The restored definitions are loaded, if the new ones may have been.
Reread ==
    /\ At("REREAD") /\ CompensationBoundary
    /\ manager' = IF run.reload THEN "BEFORE" ELSE manager
    /\ IF run.stopped THEN Go("RECOVER", 1) ELSE End("COMPENSATED")
    /\ UNCHANGED <<filevars, inputvars, unit, job, runtimevars, witness, inbox>>

Backward ==
    Fail \/ Abort \/ AbortRuntime \/ Unmutate \/ Unmutated \/ CleanupFails \/ Caught \/ Revoke
        \/ Rollback \/ RollbackFails \/ Revert \/ RevertLost \/ Reread

-----------------------------------------------------------------------------
(***************************************************************************)
(* The owner of the predecessor: _quiesce_installed_kernel after its yield.   *)
(***************************************************************************)

\* verify_predecessor.
Predecessor == \A t \in Targets : file[t] = Before(t)

\* restore() of the inputs is not taken up in its middle.
Recover ==
    /\ At("RECOVER") /\ Material /\ Predecessor
    /\ owner.pc \notin {"OUT", "BACK", "BACK_PHASE"}
    /\ Go("INPUTS", 1)
    /\ UNCHANGED <<filevars, inputvars, hostvars>>

\* verify_restored of a transition.
RecoverInputs ==
    /\ At("INPUTS") /\ run.mode = "TRANSITION" /\ ~owner.restored
    /\ RestoreInputs
    /\ UNCHANGED <<filevars, hostvars, run>>

RecoveryLost ==
    /\ At("INPUTS") /\ LoseInputs /\ End("UNPROVEN")
    /\ UNCHANGED <<filevars, hostvars>>

\* _restore_kernel_source_inputs: the candidate is parked, the old source named,
\* and the old receipt last.
RestoreInbox ==
    /\ At("INPUTS") /\ run.mode = "SUCCESSOR" /\ inbox.receipt = "NEW"
    /\ inbox' = CASE inbox.source = "NEW" -> [inbox EXCEPT !.source = "NONE"]
                  [] inbox.source = "NONE" -> [inbox EXCEPT !.source = "OLD"]
                  [] OTHER -> [inbox EXCEPT !.receipt = "OLD"]
    /\ UNCHANGED <<filevars, inputvars, unit, job, manager, runtimevars, witness, run>>

InputsRestored ==
    /\ At("INPUTS")
    /\ IF run.mode = "TRANSITION" THEN owner.restored /\ Material ELSE inbox.receipt = "OLD"
    /\ manager = "BEFORE"
    /\ Go(IF run.restart THEN "RESTART" ELSE "CHECK", 1)
    /\ UNCHANGED <<filevars, inputvars, hostvars>>

\* The next group, or the last check.
NextGroup(n) == IF n < 4 THEN Go("RESTART", n + 1) ELSE Go("CHECK", 1)

\* A group that runs is not started, and one that failed to start is started no
\* second time ...
Restart ==
    LET g == Groups[run.n] IN
    /\ At("RESTART")
    /\ \/ unit[g] # "STOPPED" /\ NextGroup(run.n) /\ UNCHANGED <<unit, job>>
       \/ unit[g] = "STOPPED" /\ Started(g, "OLD") /\ NextGroup(run.n)
       \/ unit[g] = "STOPPED" /\ Failed(g, "START") /\ Go("AWAIT", run.n)
    /\ UNCHANGED <<filevars, inputvars, manager, runtimevars, witness, inbox>>

\* ... but waited for.
Await ==
    /\ At("AWAIT") /\ unit[Groups[run.n]] # "STOPPED" /\ NextGroup(run.n)
    /\ UNCHANGED <<filevars, inputvars, hostvars>>

Recovered ==
    /\ At("CHECK") /\ Predecessor
    /\ \A g \in GroupNames : unit[g] = "STOPPED" <=> ~run.restart
    /\ End("COMPENSATED")
    /\ UNCHANGED <<filevars, inputvars, hostvars>>

Recoveries ==
    Recover \/ RecoverInputs \/ RecoveryLost \/ RestoreInbox \/ InputsRestored \/ Restart
        \/ Await \/ Recovered

-----------------------------------------------------------------------------
(***************************************************************************)
(* A later process, on the same boot.                                       *)
(***************************************************************************)

ProcessEnds ==
    /\ At("END") /\ owner.pc \notin {"NONE", "ENDED"} /\ EndOwner
    /\ UNCHANGED <<filevars, hostvars, run>>

\* installed_boundary of _failed_construction.
CompletelyPlaced ==
    /\ file = [t \in Targets |-> "OURS"] /\ witness = "BEFORE"
    /\ Readable /\ journal.owned = Len(Order) /\ journal.completed = Len(Order)

\* _failed_construction: a request without a replacement of the runtime.
FailedConstruction ==
    /\ At("END") /\ run.outcome \in {"FAILED", "UNPROVEN"}
    /\ run.mode # "TRANSITION" /\ run.replace = "NONE" /\ CompletelyPlaced
    /\ run' = [run EXCEPT !.pc = "STOP", !.n = 4, !.outcome = "NONE"]
    /\ UNCHANGED <<filevars, inputvars, hostvars>>

StopAttempt ==
    LET g == Groups[run.n] IN
    /\ At("STOP") /\ CompletelyPlaced
    /\ \A m \in (run.n + 1)..4 : unit[Groups[m]] = "STOPPED"
    /\ \/ Stopped(g) /\ Go(IF run.n > 1 THEN "STOP" ELSE "COMPENSATE", IF run.n > 1 THEN run.n - 1 ELSE 1)
       \/ Failed(g, "STOP") /\ End("UNPROVEN")
    /\ UNCHANGED <<filevars, inputvars, manager, runtimevars, witness, inbox>>

Compensate ==
    /\ At("COMPENSATE") /\ Inactive
    /\ \/ tx.pc \notin Compensating /\ CompletelyPlaced /\ OpenRollback
       \/ RollbackStep
    /\ IF tx'.pc = "COMPENSATED" THEN Go("RELOAD", 1) ELSE UNCHANGED run
    /\ UNCHANGED <<inputvars, hostvars>>

CompensateFails ==
    /\ At("COMPENSATE") /\ RaiseAgain /\ End("UNPROVEN")
    /\ UNCHANGED <<inputvars, hostvars>>

Reload ==
    /\ At("RELOAD") /\ manager' = "BEFORE"
    /\ IF Inactive /\ Predecessor /\ access = "BEFORE" THEN End("RECOVERED") ELSE End("UNPROVEN")
    /\ UNCHANGED <<filevars, inputvars, unit, job, runtimevars, witness, inbox>>

\* prepare_kernel_retirement, of an interrupted transition.
Retire ==
    /\ At("END") /\ run.outcome \in {"FAILED", "UNPROVEN", "UNCERTAIN"}
    /\ run.mode = "TRANSITION" /\ witness = "BEFORE" /\ Readable
    /\ OwnerIn("ENDED") /\ Resume
    /\ run' = [run EXCEPT !.pc = "RETIRE", !.n = 1, !.outcome = "NONE"]
    /\ UNCHANGED <<filevars, hostvars>>

\* quiesce_kernel_retirement: what is not stopped ends it.
StopAll ==
    /\ At("RETIRE") /\ run.n = 1
    /\ \E left \in SUBSET GroupNames :
        /\ unit' = [g \in GroupNames |-> IF g \in left THEN unit[g] ELSE "STOPPED"]
        /\ job' = [g \in GroupNames |-> IF g \in left THEN job[g] ELSE "NONE"]
        /\ IF left = {} THEN Go("RETIRE", 2) ELSE End("UNPROVEN")
    /\ UNCHANGED <<filevars, inputvars, manager, runtimevars, witness, inbox>>

\* retire_kernel_in_generation, until its inputs are restored.
RetireInputs ==
    /\ At("RETIRE") /\ run.n = 2 /\ Inactive /\ Settled /\ RestoreFound
    /\ IF owner'.restored THEN End("RETIRED") ELSE UNCHANGED run
    /\ UNCHANGED <<filevars, hostvars>>

RetireFails ==
    /\ run.pc \in {"STOP", "RELOAD", "RETIRE"} /\ End("UNPROVEN")
    /\ UNCHANGED <<filevars, inputvars, hostvars>>

Later ==
    ProcessEnds \/ FailedConstruction \/ StopAttempt \/ Compensate \/ CompensateFails \/ Reload
        \/ Retire \/ StopAll \/ RetireInputs \/ RetireFails

-----------------------------------------------------------------------------
Somebody ==
    \/ /\ ~meddled /\ \E t \in Targets : Foreign(t)
       /\ UNCHANGED <<inputvars, hostvars, run>>
    \/ /\ touched = {} /\ Meddle
       /\ UNCHANGED <<filevars, inputvars, unit, job, manager, witness, inbox, run>>

Next ==
    Forward \/ Backward \/ Recoveries \/ Later \/ Somebody \/ \E g \in GroupNames : Settle(g)

Spec == Init /\ [][Next]_vars

-----------------------------------------------------------------------------
RunTypeOK ==
    /\ FilesTypeOK /\ InputsTypeOK /\ RuntimeTypeOK
    /\ unit \in [GroupNames -> {"OLD", "NEW", "STOPPED"}]
    /\ job \in [GroupNames -> {"NONE", "START", "STOP", "STARTED", "HALTED"}]
    /\ manager \in {"BEFORE", "AFTER"}
    /\ witness \in {"BEFORE", "NEW"}
    /\ inbox.source \in {"OLD", "NEW", "NONE"} /\ inbox.receipt \in {"OLD", "NEW"}
    /\ run.n \in 0..5
    /\ run.outcome \in {"NONE", "DENIED", "INSTALLED", "FAILED", "UNCERTAIN", "COMPENSATED",
                        "UNPROVEN", "RECOVERED", "RETIRED"}

NewInputs ==
    CASE run.mode = "TRANSITION" -> \A k \in Kinds : place[k]["canonical"] = "NEW"
      [] run.mode = "SUCCESSOR" -> inbox = [source |-> "NEW", receipt |-> "NEW"]
      [] OTHER -> TRUE
OldInputs ==
    /\ \A k \in Kinds : place[k]["canonical"] = "OLD"
    /\ run.mode = "SUCCESSOR" => inbox = [source |-> "OLD", receipt |-> "OLD"]

\* No unit ever starts, however late its job is done, on a mixture: the new
\* generation only with all its files, inputs, ACL and definitions in place and
\* no transaction of the runtime open, the predecessor only with all of its own
\* back, the runtime too.  Excepted is the job of a failed start that a cleanup
\* failed to cancel: see LifecycleQuiesced.
StartsOnWholeMaterial ==
    [][\A g \in GroupNames : ~(run.failure /\ job[g] = "START" /\ run' = run) =>
        /\ unit[g] # "NEW" /\ unit'[g] = "NEW" =>
            /\ \A t \in Untouched : file[t] = "OURS"
            /\ access = "OBSERVER" /\ manager = "AFTER" /\ NewInputs
            /\ call.pc \in {"IDLE", "RETURNED"}
        /\ unit[g] # "OLD" /\ unit'[g] = "OLD" =>
            /\ \A t \in Untouched : file[t] = Before(t)
            /\ access = "BEFORE" /\ manager = "BEFORE" /\ OldInputs /\ RuntimeBefore]_vars

\* "Lifecycle cleanup has quiesced all owned units" where run begins to take the
\* ACL and the files back: nothing of the attempt runs or starts from there on.
LifecycleQuiesced == run.pc \in {"ROLLBACK", "REVERT", "REREAD"} => Inactive

\* A visible witness of this attempt is never left over compensated material.
WitnessMeansComplete ==
    witness = "NEW" => NewInputs /\ access = "OBSERVER" /\ \A t \in Untouched : file[t] = "OURS"

\* What a call that ends says of the host is true: a sealed rollback restored its
\* files, an attempt whose own exception comes out left the predecessor as it
\* found it and the runtime with the settings it had, a recovered one is undone.
\* Units may differ by a job the manager did: that of a failed stop of the
\* predecessor it restarts, or of a failed start a cleanup failed to cancel.
OutcomeTruthful ==
    /\ RollbackRestores
    /\ run.outcome \in {"COMPENSATED", "RECOVERED"} =>
        /\ \A t \in Untouched : file[t] = Before(t)
        /\ access = "BEFORE" /\ manager = "BEFORE" /\ RuntimeBefore /\ witness = "BEFORE"
    /\ run.outcome = "COMPENSATED" =>
        /\ OldInputs
        /\ \A g \in GroupNames :
            \/ unit[g] = IF run.restart THEN "OLD" ELSE "STOPPED"
            \/ run.restart /\ job[g] = "HALTED"
            \/ run.failure /\ job[g] = "STARTED"
    /\ run.outcome = "RECOVERED" => Inactive /\ Settled
==============================================================================
