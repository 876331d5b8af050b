--------------------------- MODULE PublicGeneration ---------------------------
(***************************************************************************)
(* The complete Outpost installation: install_request and                   *)
(* restore_install_request of outpost/install/public_installer_cli, and       *)
(* _complete_bootstrap_promotion of public_generation_transaction, under the  *)
(* lock of GenerationLock, against the systemd units of the Outpost.          *)
(*                                                                         *)
(* A generation is named by the installer that carries it, the one the host   *)
(* was delivered with by Base.  An image file or a running unit is the        *)
(* generation its bytes come from.  An installer is killed between any two     *)
(* steps; an effect and the journal row that follows it are one step, since   *)
(* no process reads a row before COMPLETE: a row that is written and whose     *)
(* write still raises differs from a later failure there only.  What systemd   *)
(* does to the units, starting the collector on its timer, restarting or       *)
(* losing a service, goes on beside the installer.                           *)
(***************************************************************************)
EXTENDS GenerationLock, Sequences, FiniteSets

CONSTANTS
    Base,           \* the generation the host was delivered with
    Rows,           \* IMAGE_FILES, in their order 1..Rows
    Changed,        \* the image files a candidate changes, by installer
    Candidate,      \* the generation an installer selects: its own, or Base
    Stopped,        \* a unit that does not run
    NoEvidence,
    MaxUpsets       \* bound of the model: what systemd does on its own account

ASSUME GenerationAssumption ==
    /\ Rows \in Nat \ {0} /\ MaxUpsets \in Nat
    /\ Base \notin Installers /\ Stopped \notin Installers \cup {Base}
    /\ Changed \in [Installers -> SUBSET (1..Rows)]
    /\ \A i \in Installers : Candidate[i] \in {i, Base}

VARIABLES
    tree,       \* candidate.json and the generation directory, by installer
    image,      \* the generation whose bytes each image file has
    stale,      \* NeedDaemonReload: a unit file is newer than what systemd loaded
    current,    \* generation-state/current.json
    running,    \* the generation each unit runs
    journal,    \* phase of forward-state.json, by installer
    run,        \* the body of an installer
    last,       \* history: the last installer that recorded a prestate, and its boot
    upsets

hostvars == <<image, stale, current, running, upsets>>
filevars == <<journal, tree>>
vars == <<lockvars, hostvars, filevars, run, last>>

\* IMAGE_UNITS in the order a promotion stops them.
StopOrder == <<"target", "edge", "presentation", "core", "timer", "witness">>
Units == {StopOrder[n] : n \in 1..Len(StopOrder)}
Vitals == {"presentation", "edge"}
Services == {"core", "presentation", "edge"}

\* IMAGE_FILES names the launcher first; the rest are the units' own files.
UnitFiles == 2..Rows

\* Units that go with a unit that is stopped: Requires= and PartOf=.
StoppedWith(u) ==
    CASE u = "presentation" -> {"presentation", "edge", "target", "timer"}
      [] u \in {"core", "edge"} -> {u, "target", "timer"}
      [] u = "target" -> {"target", "timer"}
      [] OTHER -> {u}

\* Whatever systemd does unasked, or does not do when asked, is bounded.
Unsettled == upsets + boot < MaxUpsets /\ upsets' = upsets + 1

Active == {u \in Units : running[u] # Stopped}

\* The bytes of an image file in a generation.
Material(g) == [r \in 1..Rows |-> IF g \in Installers /\ r \in Changed[g] THEN g ELSE Base]

NoRun == [pc |-> "NONE", index |-> 1, pre |-> NoEvidence, prior |-> NoEvidence, cutover |-> FALSE,
          safe |-> FALSE, keep |-> FALSE, contained |-> TRUE]

\* Only the signed prestate outlives a body.
AfterBody(r) == [NoRun EXCEPT !.pc = "END",
                              !.prior = IF r.pre = NoEvidence THEN r.prior ELSE r.pre.current]
Ended(i) == run' = [run EXCEPT ![i] = AfterBody(@)]

Init ==
    /\ LockInit
    /\ image = Material(Base) /\ stale = FALSE /\ current = Base
    /\ running = [u \in Units |-> IF u = "witness" THEN Stopped ELSE Base]
    /\ journal = [i \in Installers |-> "NONE"]
    /\ tree = [i \in Installers |-> "NONE"]
    /\ run = [i \in Installers |-> NoRun]
    /\ last = <<Base, 0>> /\ upsets = 0

-----------------------------------------------------------------------------
(***************************************************************************)
(* systemd.                                                                *)
(***************************************************************************)

Stop(u) == [v \in Units |-> IF v \in StoppedWith(u) THEN Stopped ELSE running[v]]

\* The launcher runs what the current selector names, whoever starts it.
Started(us) == [v \in Units |-> IF v \in us /\ running[v] = Stopped THEN current ELSE running[v]]

\* OnUnitInactiveSec: the timer starts the collector, which ends by itself.
TimerFires ==
    /\ Unsettled /\ running["timer"] # Stopped /\ running["witness"] = Stopped
    /\ running' = Started({"witness"})
    /\ UNCHANGED <<lockvars, image, stale, current, filevars, run, last>>

WitnessEnds ==
    /\ running["witness"] # Stopped
    /\ running' = [running EXCEPT !["witness"] = Stopped]
    /\ UNCHANGED <<lockvars, image, stale, current, upsets, filevars, run, last>>

\* Restart=on-failure: a service that fails comes back through the launcher, or
\* is lost when the restarts are exhausted.
Upset(u) ==
    /\ Unsettled /\ u \in Services /\ running[u] # Stopped
    /\ \/ running' = [running EXCEPT ![u] = current]
       \/ running' = Stop(u)
    /\ UNCHANGED <<lockvars, image, stale, current, filevars, run, last>>

\* The target is enabled: a boot loads the unit files and starts every unit of
\* the selected generation.
Reboot ==
    /\ RebootLock /\ stale' = FALSE
    /\ running' = [u \in Units |-> IF u = "witness" THEN Stopped ELSE current]
    /\ run' = [i \in Installers |-> IF stage[i] \in Live THEN AfterBody(run[i]) ELSE run[i]]
    /\ UNCHANGED <<image, current, upsets, filevars, last>>

-----------------------------------------------------------------------------
(***************************************************************************)
(* Preparation: evidence before the lock, the same evidence under it.        *)
(***************************************************************************)

\* preflight_target: the selector, the image and the units of a settled host.
Observed == [image |-> image, current |-> current, active |-> Active]

\* _checked_unit_state denies a unit whose file is newer than what is loaded.
Settled == running["witness"] = Stopped /\ ~stale

\* A restoration names the retained predecessor of the selected generation.
RetainedPredecessor(i) ==
    Candidate[i] = i
    \/ /\ packet'[i] = NoPacket
       /\ \E j \in Installers : journal[j] # "NONE" /\ run[j].prior = Candidate[i]

Prepare(i) ==
    /\ PlanFor(i) /\ Settled /\ RetainedPredecessor(i)
    /\ run' = [run EXCEPT ![i].pc = "EVIDENCE", ![i].pre = Observed]
    /\ UNCHANGED <<hostvars, filevars, last>>

\* The invariants a body repeats before every effect.  A restoration's do not
\* look at the lock again.
Verified(i) == stage[i] = "OWNER" /\ (Candidate[i] = i => Owns(i))

At(i, pc) == stage[i] = "OWNER" /\ run[i].pc = pc
Goto(i, pc) == run' = [run EXCEPT ![i].pc = pc, ![i].index = 1]
Again(i) == run' = [run EXCEPT ![i].index = run[i].index + 1]

Preparing == {"EVIDENCE", "RECEIPT", "JOURNAL", "CANDIDATE", "TREE", "FILL", "AWAIT"}

\* The body raises before it promotes: nothing is to be contained.
Refuse(i) ==
    /\ run[i].pc \in Preparing /\ stage[i] = "OWNER"
    /\ Ended(i)
    /\ UNCHANGED <<lockvars, hostvars, filevars, last>>

SameEvidence(i) == Settled /\ Observed = run[i].pre

\* recheck_prepared_target, before each record of an installation.
Rechecked(i, pc) == At(i, pc) /\ Verified(i) /\ SameEvidence(i)

\* The first recheck under the lock, and what is captured of the predecessor.
Recheck(i) ==
    /\ Rechecked(i, "EVIDENCE")
    /\ Goto(i, "RECEIPT")
    /\ UNCHANGED <<lockvars, hostvars, filevars, last>>

\* The signed prestate, in the rollback directory of this transaction.
Receipt(i) ==
    /\ Rechecked(i, "RECEIPT")
    /\ journal' = [journal EXCEPT ![i] = "RECEIPT"]
    /\ last' = <<i, boot>>
    /\ Goto(i, "JOURNAL")
    /\ UNCHANGED <<lockvars, tree, hostvars>>

\* forward-state.json; a restoration looks at the target no more.
Journal(i) ==
    /\ At(i, "JOURNAL") /\ Verified(i) /\ (Candidate[i] = i => SameEvidence(i))
    /\ journal' = [journal EXCEPT ![i] = "PREPARED"]
    /\ Goto(i, IF Candidate[i] = i THEN "CANDIDATE" ELSE "AWAIT")
    /\ UNCHANGED <<lockvars, tree, hostvars, last>>

CandidateRow(i) ==
    /\ Rechecked(i, "CANDIDATE")
    /\ tree' = [tree EXCEPT ![i] = "RECORDED"]
    /\ Goto(i, "TREE")
    /\ UNCHANGED <<lockvars, journal, hostvars, last>>

\* The directory of the generation exists before all of its files do.
PlaceTree(i) ==
    /\ Rechecked(i, "TREE")
    /\ tree' = [tree EXCEPT ![i] = "OPEN"]
    /\ Goto(i, "FILL")
    /\ UNCHANGED <<lockvars, journal, hostvars, last>>

FillTree(i) ==
    /\ At(i, "FILL")
    /\ tree' = [tree EXCEPT ![i] = "PLACED"]
    /\ Goto(i, "AWAIT")
    /\ UNCHANGED <<lockvars, journal, hostvars, last>>

\* No image row changes when the candidate keeps the launcher and the units.
StartupUnchanged(i) == run[i].pre.image = Material(Candidate[i])

\* _await_promotion_unit_prestate waits for the collector and nothing else.
UnitsAwaited(i) == Settled /\ Active = run[i].pre.active

\* The compare of every image file and selector.
FilesUnchanged(i) == image = run[i].pre.image /\ current = run[i].pre.current

\* The preconditions of _complete_bootstrap_promotion.
Await(i) ==
    /\ At(i, "AWAIT") /\ Verified(i)
    /\ UnitsAwaited(i) /\ FilesUnchanged(i) /\ "target" \in run[i].pre.active
    /\ run' = [run EXCEPT ![i].pc = "STOP", ![i].cutover = ~StartupUnchanged(i)]
    /\ UNCHANGED <<lockvars, hostvars, filevars, last>>

-----------------------------------------------------------------------------
(***************************************************************************)
(* _complete_bootstrap_promotion.                                          *)
(***************************************************************************)

\* Mutation: the selector moves before the image is written.
StopThenSelect(i) ==
    LET u == StopOrder[run[i].index] IN
    /\ At(i, "STOP") /\ Verified(i)
    /\ running' = IF u \in run[i].pre.active /\ ~(StartupUnchanged(i) /\ u \in Vitals)
                  THEN Stop(u) ELSE running
    /\ IF run[i].index < Len(StopOrder) THEN Again(i) /\ UNCHANGED current
       ELSE Goto(i, "IMAGE") /\ current' = Candidate[i]
    /\ UNCHANGED <<lockvars, image, stale, upsets, filevars, last>>

\* The units of the prestate stop, target first; the observers keep running
\* while nothing they are started from changes.
StopUnit(i) ==
    LET u == StopOrder[run[i].index] IN
    /\ At(i, "STOP") /\ Verified(i)
    /\ running' = IF u \in run[i].pre.active /\ ~(StartupUnchanged(i) /\ u \in Vitals)
                  THEN Stop(u) ELSE running
    /\ IF run[i].index < Len(StopOrder) THEN Again(i) ELSE Goto(i, "IMAGE")
    /\ UNCHANGED <<lockvars, image, stale, current, upsets, filevars, last>>

\* _GenerationFileIO.replace: the captured bytes are exchanged in one rename, or
\* nothing is.
Replace(i, r) ==
    /\ image[r] = run[i].pre.image[r]
    /\ image' = [image EXCEPT ![r] = Material(Candidate[i])[r]]

\* One image file after the other; those that keep their bytes are not touched.
PlaceImage(i) ==
    LET r == run[i].index IN
    /\ At(i, "IMAGE") /\ Verified(i) /\ Replace(i, r)
    /\ stale' = (stale \/ (r \in UnitFiles /\ image'[r] # image[r]))
    /\ journal' = [journal EXCEPT ![i] = "IMAGE"]
    /\ IF r < Rows THEN Again(i) ELSE Goto(i, "RELOAD")
    /\ UNCHANGED <<lockvars, tree, current, running, upsets, last>>

\* daemon-reload, once every image file is placed.
Reload(i) ==
    /\ At(i, "RELOAD") /\ Verified(i)
    /\ stale' = FALSE
    /\ journal' = [journal EXCEPT ![i] = "DAEMON_RELOAD"]
    /\ Goto(i, "SELECT")
    /\ UNCHANGED <<lockvars, tree, image, current, running, upsets, last>>

\* Only current moves, after every image file; lkg.json never does.
Select(i) ==
    /\ At(i, "SELECT") /\ Verified(i) /\ current = run[i].pre.current
    /\ current' = Candidate[i]
    /\ journal' = [journal EXCEPT ![i] = "SELECTORS"]
    /\ Goto(i, IF run[i].cutover THEN "START" ELSE "CUTOVER")
    /\ UNCHANGED <<lockvars, tree, image, stale, running, upsets, last>>

\* Mutation: the observers that kept running are not stopped.
CutoverSkipped(i) ==
    /\ At(i, "CUTOVER") /\ Verified(i)
    /\ run' = [run EXCEPT ![i].pc = "START", ![i].cutover = TRUE]
    /\ UNCHANGED <<lockvars, hostvars, filevars, last>>

\* Both kept observers stop before anything of the candidate starts.
Cutover(i) ==
    /\ At(i, "CUTOVER") /\ Verified(i)
    /\ IF run[i].index = 1
       THEN running' = Stop("edge") /\ Again(i)
       ELSE /\ running' = Stop("presentation")
            /\ run' = [run EXCEPT ![i].pc = "START", ![i].index = 1, ![i].cutover = TRUE]
    /\ UNCHANGED <<lockvars, image, stale, current, upsets, filevars, last>>

\* TARGET_ENABLED, start of the target with what it requires and wants.
StartTarget(i) ==
    /\ At(i, "START") /\ Verified(i)
    /\ running' = Started(Units \ {"witness"})
    /\ journal' = [journal EXCEPT ![i] = "TARGET_STARTED"]
    /\ Goto(i, "CHECK")
    /\ UNCHANGED <<lockvars, tree, image, stale, current, upsets, last>>

CheckActive(i) ==
    /\ At(i, "CHECK") /\ Verified(i) /\ ~stale
    /\ Services \cup {"target", "timer"} \subseteq Active
    /\ Goto(i, "ACCEPT")
    /\ UNCHANGED <<lockvars, hostvars, filevars, last>>

\* read_postpromotion_witness and read_vitals_witness: the coordinator's own
\* witness of the selected generation, read through both observers.
CoreWitness(i) == running["core"] = Candidate[i]
VitalsWitness == Vitals \subseteq Active

\* accept() waits without a deadline while the witness is pending.
Accept(i) ==
    /\ At(i, "ACCEPT") /\ Verified(i) /\ CoreWitness(i) /\ VitalsWitness
    /\ Goto(i, "TERMINAL")
    /\ UNCHANGED <<lockvars, hostvars, filevars, last>>

\* Image and selectors are read back, the receipt written, the journal closed.
Terminal(i) ==
    /\ At(i, "TERMINAL") /\ Verified(i)
    /\ image = Material(Candidate[i]) /\ current = Candidate[i]
    /\ journal' = [journal EXCEPT ![i] = "TERMINAL_ACCEPTED"]
    /\ Goto(i, "COMMIT")
    /\ UNCHANGED <<lockvars, tree, hostvars, last>>

\* The journal is closed by a rename; what follows the rename, the fsync of the
\* directory and the readback, may still raise, into the containment.
Commit(i) ==
    /\ At(i, "COMMIT") /\ Verified(i)
    /\ journal' = [journal EXCEPT ![i] = "COMPLETE"]
    /\ Ended(i) \/ Goto(i, "CONTAIN")
    /\ UNCHANGED <<lockvars, tree, hostvars, last>>

-----------------------------------------------------------------------------
(***************************************************************************)
(* Containment of a failed promotion.                                       *)
(***************************************************************************)

Promoting == {"STOP", "IMAGE", "RELOAD", "SELECT", "CUTOVER", "START", "CHECK", "ACCEPT", "TERMINAL", "COMMIT"}

\* Any effect, check or read of the promotion raises.
Fail(i) ==
    /\ stage[i] = "OWNER" /\ run[i].pc \in Promoting
    /\ Goto(i, "CONTAIN")
    /\ UNCHANGED <<lockvars, hostvars, filevars, last>>

\* The candidate is selected and its image fully placed.
ObserverSafe(i) == current = Candidate[i] /\ image = Material(Candidate[i])

\* Nothing moved yet: the observers of the predecessor are left alone.
RetainedObserver(i) == StartupUnchanged(i) /\ current = run[i].pre.current

\* The failure is recorded for the observers; without the record none is kept.
Contain(i) ==
    /\ At(i, "CONTAIN") /\ Verified(i)
    /\ \E written \in BOOLEAN :
           run' = [run EXCEPT ![i].pc = "STOPALL", ![i].index = 1,
                              ![i].safe = ObserverSafe(i) /\ written,
                              ![i].keep = RetainedObserver(i)]
    /\ UNCHANGED <<lockvars, hostvars, filevars, last>>

Kept(i, u) ==
    u \in Vitals /\ (run[i].safe \/ (run[i].keep /\ u \in run[i].pre.active))

\* Every unit that is not kept is stopped; a stop that fails is remembered and
\* does not keep the rest from stopping, nor is one that returned believed.
StopAll(i) ==
    LET u == StopOrder[run[i].index]
        next == IF run[i].index < Len(StopOrder) THEN "STOPALL" ELSE "READBACK"
        then == IF run[i].index < Len(StopOrder) THEN run[i].index + 1 ELSE 1
    IN
    /\ At(i, "STOPALL") /\ Verified(i)
    /\ \/ /\ Kept(i, u)
          /\ run' = [run EXCEPT ![i].pc = next, ![i].index = then]
          /\ UNCHANGED <<running, upsets>>
       \/ /\ ~Kept(i, u)
          /\ running' = Stop(u)
          /\ run' = [run EXCEPT ![i].pc = next, ![i].index = then]
          /\ UNCHANGED upsets
       \/ /\ ~Kept(i, u) /\ Unsettled
          /\ running' \in {Stop(u), running}
          /\ \E returned \in BOOLEAN :
                 run' = [run EXCEPT ![i].pc = next, ![i].index = then,
                                    ![i].contained = @ /\ returned]
    /\ UNCHANGED <<lockvars, image, stale, current, filevars, last>>

\* Mutation: a stop that returned is proof enough.
ReadBackTrusted(i) == TRUE

\* The states of the stopped units are read after all of them; a read is denied
\* while a unit's file is newer than what is loaded.
ReadBack(i) == ~stale /\ \A u \in Active : Kept(i, u)

Confirm(i) ==
    /\ At(i, "READBACK") /\ Verified(i)
    /\ run' = [run EXCEPT ![i].contained = @ /\ ReadBack(i), ![i].index = 1,
                          ![i].pc = IF ~run[i].safe THEN "RETAIN"
                                    ELSE IF run[i].cutover THEN "OBSERVE" ELSE "RECUT"]
    /\ UNCHANGED <<lockvars, hostvars, filevars, last>>

\* Mutation: one old observer that stopped is enough.
RecutEdgeOnly(i) ==
    /\ At(i, "RECUT") /\ Verified(i)
    /\ running' = Stop("edge") /\ Goto(i, "OBSERVE")
    /\ UNCHANGED <<lockvars, image, stale, current, upsets, filevars, last>>

\* Both old observers stop before either is started from the candidate; a stop
\* that fails does not keep the other from being stopped.
Recut(i) ==
    LET u == IF run[i].index = 1 THEN "edge" ELSE "presentation" IN
    /\ At(i, "RECUT") /\ Verified(i)
    /\ running' \in {Stop(u), running}
    /\ IF run[i].index = 1 THEN Again(i)
       ELSE \E raised \in BOOLEAN :
                Goto(i, IF raised \/ \E v \in Vitals : running'[v] # Stopped THEN "RETAIN"
                        ELSE "OBSERVE")
    /\ UNCHANGED <<lockvars, image, stale, current, upsets, filevars, last>>

\* The presentation first, the edge only beside it, of the selected candidate.
Observe(i) ==
    LET u == IF run[i].index = 1 THEN "presentation" ELSE "edge" IN
    /\ At(i, "OBSERVE") /\ Verified(i) /\ current = Candidate[i]
    /\ \/ /\ running' = Started({u})
          /\ IF run[i].index = 1 THEN Again(i) ELSE Goto(i, "RETAIN")
       \/ Goto(i, "RETAIN") /\ UNCHANGED running
    /\ UNCHANGED <<lockvars, image, stale, current, upsets, filevars, last>>

\* The last row replaces the one this body wrote before: a COMPLETE whose write
\* raised is not that row, and stays.
Retain(i) ==
    /\ At(i, "RETAIN") /\ Verified(i) /\ journal[i] # "COMPLETE"
    /\ journal' = [journal EXCEPT ![i] = IF run[i].contained THEN "FAILED_INSTALL_RETAINED"
                                         ELSE "FAILED_INSTALL_CONTAINMENT_UNPROVEN"]
    /\ Ended(i)
    /\ UNCHANGED <<lockvars, tree, hostvars, last>>

Containing == {"CONTAIN", "STOPALL", "READBACK", "RECUT", "OBSERVE", "RETAIN"}

\* PUBLIC_INSTALL_FAILED_EVIDENCE_UNPROVEN: the journal keeps its last phase.
EvidenceUnproven(i) ==
    /\ stage[i] = "OWNER" /\ run[i].pc \in Containing
    /\ run' = [run EXCEPT ![i] = [AfterBody(@) EXCEPT !.contained = FALSE]]
    /\ UNCHANGED <<lockvars, hostvars, filevars, last>>

-----------------------------------------------------------------------------
\* The lock is released when the body has ended; a body that raised is not
\* complete, whatever its journal says.
Leave(i) ==
    /\ run[i].pc = "END"
    /\ ReleaseLock(i, journal[i] = "COMPLETE" /\ run[i].contained)
    /\ UNCHANGED <<hostvars, filevars, run, last>>

Enter(i) ==
    /\ CreateLock(i) \/ WriteLock(i) \/ OpenLock(i) \/ FlockLock(i) \/ EnterRetained(i)
    /\ UNCHANGED <<hostvars, filevars, run, last>>

Kill(i) == KillInstaller(i) /\ Ended(i) /\ UNCHANGED <<hostvars, filevars, last>>

Promotion(i) ==
    \/ Recheck(i) \/ Receipt(i) \/ Journal(i) \/ CandidateRow(i) \/ PlaceTree(i) \/ FillTree(i)
    \/ Await(i) \/ StopUnit(i) \/ PlaceImage(i) \/ Reload(i) \/ Select(i)
    \/ Cutover(i) \/ StartTarget(i) \/ CheckActive(i) \/ Accept(i) \/ Terminal(i) \/ Commit(i)

Containment(i) ==
    Contain(i) \/ StopAll(i) \/ Confirm(i) \/ Recut(i) \/ Observe(i) \/ Retain(i)

Systemd == TimerFires \/ WitnessEnds \/ \E u \in Services : Upset(u)

Next ==
    \/ Systemd \/ Reboot
    \/ \E i \in Installers :
        \/ Prepare(i) \/ Enter(i) \/ Promotion(i) \/ Refuse(i) \/ Fail(i)
        \/ Containment(i) \/ EvidenceUnproven(i) \/ Leave(i) \/ Kill(i)

Spec == Init /\ [][Next]_vars

-----------------------------------------------------------------------------
Generations == Installers \cup {Base}
HostTypeOK ==
    /\ LockTypeOK
    /\ tree \in [Installers -> {"NONE", "RECORDED", "OPEN", "PLACED"}]
    /\ image \in [1..Rows -> Generations] /\ stale \in BOOLEAN /\ current \in Generations
    /\ running \in [Units -> Generations \cup {Stopped}]
    /\ journal \in [Installers -> {"NONE", "RECEIPT", "PREPARED", "IMAGE", "DAEMON_RELOAD",
                                  "SELECTORS", "TARGET_STARTED", "TERMINAL_ACCEPTED", "COMPLETE",
                                  "FAILED_INSTALL_RETAINED", "FAILED_INSTALL_CONTAINMENT_UNPROVEN"}]
    /\ \A i \in Installers :
        /\ run[i].pc \in {"NONE", "END"} \cup Preparing \cup Promoting \cup Containing
        /\ run[i].index \in 1..Len(StopOrder) \cup 1..Rows
        /\ run[i].prior \in Generations \cup {NoEvidence}
    /\ last \in (Installers \cup {Base}) \X (0..MaxBoot) /\ upsets \in 0..MaxUpsets

\* The selector moves only onto a candidate whose image is complete, and only
\* with the coordinator and the collector's timer stopped: no reader of the
\* selector starts a generation from another one's unit files.
SelectorLast ==
    [][current' # current =>
        /\ image = Material(current') /\ (current' \in Installers => tree[current'] = "PLACED")
        /\ {"core", "timer", "target"} \cap Active = {}]_vars

\* A journal that says the failed generation is contained is true of the host:
\* nothing that mutates runs, whatever the stops returned, until the next boot.
ContainmentTruthful ==
    \A i \in Installers :
        journal[i] = "FAILED_INSTALL_RETAINED" /\ last = <<i, boot>>
            => Active \subseteq Vitals

\* An installer never starts an observer of one generation beside the observer
\* of another, in a promotion or in the containment of a failed one.
ObserversWhole ==
    [][\A u \in Vitals :
        /\ run' # run /\ running[u] = Stopped /\ running'[u] # Stopped
        => \A v \in Vitals : running'[v] \in {Stopped, running'[u]}]_vars

\* A journal closed as complete is true of the host until another installation
\* or boot: the image, the selector and every unit are the candidate's (but a
\* run of the collector, which the timer may have started before it stopped).
CompleteMeansInstalled ==
    \A i \in Installers :
        journal[i] = "COMPLETE" /\ last[1] = i =>
            /\ current = Candidate[i] /\ image = Material(Candidate[i])
            /\ \A u \in Units \ {"witness"} : running[u] \in {Stopped, Candidate[i]}
==============================================================================
