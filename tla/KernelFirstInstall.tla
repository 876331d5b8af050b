-------------------------- MODULE KernelFirstInstall --------------------------
(***************************************************************************)
(* install and rollback_transaction of kernel/install/kernel_first_install:  *)
(* the placement of the Kernel's files, each behind a write-ahead record of   *)
(* the inode about to be published, and its compensation from that record.   *)
(*                                                                         *)
(* A target is what it is to the transaction: absent, the inode the plan      *)
(* found, the inode this transaction made, or anybody else's, whatever its    *)
(* bytes.  The receipt, the plan, the preimages and the directories, which do  *)
(* not change once written, are left out.  A check and the system call that   *)
(* follows it directly are one step; between any other two the call may raise, *)
(* be interrupted or end with its process.                                  *)
(***************************************************************************)
EXTENDS Naturals, Sequences, FiniteSets

CONSTANTS
    Order,          \* the targets the plan places, branch by branch
    Replaced,       \* PRESENT_REPLACE; the other targets are ABSENT before
    MaxForeign      \* bound of the model: targets somebody else touches

Targets == {Order[n] : n \in 1..Len(Order)}

ASSUME TargetAssumption ==
    /\ Len(Order) \in Nat \ {0} /\ MaxForeign \in Nat
    /\ \A m, n \in 1..Len(Order) : Order[m] = Order[n] => m = n
    /\ Replaced \subseteq Targets

VARIABLES
    file,       \* the inode each target names
    temp,       \* the staged inode beside a target is still named
    held,       \* the hard link to the prior inode in the rollback directory
    journal,    \* phase-journal.json: its state, and how far its two lists go
    access,     \* the ACL of the runtime directory
    tx,         \* the call of install or rollback in progress
    touched     \* history: targets somebody else wrote or removed

filevars == <<file, temp, held, journal, access, tx, touched>>

Before(t) == IF t \in Replaced THEN "PRIOR" ELSE "NONE"
Rank(t) == CHOOSE n \in 1..Len(Order) : Order[n] = t

NoJournal == [state |-> "NONE", owned |-> 0, completed |-> 0]

FilesInit ==
    /\ file = [t \in Targets |-> Before(t)]
    /\ temp = [t \in Targets |-> FALSE]
    /\ held = [t \in Targets |-> FALSE]
    /\ journal = NoJournal /\ access = "BEFORE"
    /\ tx = [pc |-> "IDLE", index |-> 1] /\ touched = {}

In(pc) == tx.pc = pc
To(pc, n) == tx' = [pc |-> pc, index |-> n]
This == Order[tx.index]

\* Somebody else writes or removes a target.
Foreign(t) ==
    /\ t \notin touched /\ Cardinality(touched) < MaxForeign
    /\ touched' = touched \cup {t}
    /\ \E other \in {"FOREIGN", "NONE"} : file' = [file EXCEPT ![t] = other]
    /\ UNCHANGED <<temp, held, journal, access, tx>>

-----------------------------------------------------------------------------
(***************************************************************************)
(* install.                                                                *)
(***************************************************************************)

\* preserved_unchanged: a replaced target is the prior inode until it is
\* written, and the recorded one after.
Unchanged ==
    \A t \in Replaced : file[t] = IF Rank(t) <= journal.completed THEN "OURS" ELSE "PRIOR"

\* The rollback directory with the key, the receipt and the plan in it.
OpenInstall ==
    /\ In("IDLE") /\ journal.state = "NONE"
    /\ \A t \in Targets : file[t] = Before(t)
    /\ journal' = [journal EXCEPT !.state = "UNWRITTEN"]
    /\ To("JOURNAL", 1)
    /\ UNCHANGED <<file, temp, held, access, touched>>

WriteJournal ==
    /\ In("JOURNAL")
    /\ journal' = [journal EXCEPT !.state = "INSTALLING"]
    /\ To("RETAIN", 1)
    /\ UNCHANGED <<file, temp, held, access, touched>>

\* The prior inode of every replaced target is linked before any placement.
Retain ==
    /\ In("RETAIN") /\ Unchanged
    /\ held' = IF This \in Replaced THEN [held EXCEPT ![This] = TRUE] ELSE held
    /\ IF tx.index < Len(Order) THEN To("RETAIN", tx.index + 1) ELSE To("STAGE", 1)
    /\ UNCHANGED <<file, temp, journal, access, touched>>

\* atomic(): the bytes are durable under a temporary name ...
Stage ==
    /\ In("STAGE") /\ Unchanged
    /\ temp' = [temp EXCEPT ![This] = TRUE]
    /\ To("INTENT", tx.index)
    /\ UNCHANGED <<file, held, journal, access, touched>>

\* ... the inode is recorded before it gets the target's name ...
Intent ==
    /\ In("INTENT")
    /\ journal' = [journal EXCEPT !.owned = tx.index]
    /\ To("PLACE", tx.index)
    /\ UNCHANGED <<file, temp, held, access, touched>>

\* Mutation: os.replace for every target.
PlaceOver ==
    /\ In("PLACE") /\ Unchanged
    /\ file' = [file EXCEPT ![This] = "OURS"]
    /\ temp' = [temp EXCEPT ![This] = FALSE]
    /\ To("ROW", tx.index)
    /\ UNCHANGED <<held, journal, access, touched>>

\* ... and it replaces the prior inode, or is linked where nothing is.
Place ==
    /\ In("PLACE") /\ Unchanged
    /\ This \in Replaced \/ file[This] = "NONE"
    /\ file' = [file EXCEPT ![This] = "OURS"]
    /\ temp' = [temp EXCEPT ![This] = This \notin Replaced]
    /\ To("ROW", tx.index)
    /\ UNCHANGED <<held, journal, access, touched>>

Row ==
    /\ In("ROW")
    /\ temp' = [temp EXCEPT ![This] = FALSE]
    /\ journal' = [journal EXCEPT !.completed = tx.index]
    /\ IF tx.index < Len(Order) THEN To("STAGE", tx.index + 1) ELSE To("COMPLETE", 1)
    /\ UNCHANGED <<file, held, access, touched>>

\* exact: the bytes and the custody of a created target, whoever made it.
Complete ==
    /\ In("COMPLETE") /\ Unchanged
    /\ \A t \in Targets \ Replaced : file[t] \in {"OURS", "FOREIGN"}
    /\ journal' = [journal EXCEPT !.state = "INSTALLED_INACTIVE"]
    /\ To("CHECK", 1)
    /\ UNCHANGED <<file, temp, held, access, touched>>

Return ==
    /\ In("CHECK") /\ Unchanged
    /\ To("RETURNED", 1)
    /\ UNCHANGED <<file, temp, held, journal, access, touched>>

Retaining == {"JOURNAL", "RETAIN"}
Placing == {"STAGE", "INTENT", "PLACE", "ROW", "COMPLETE", "CHECK"}

\* The finally of atomic() unlinks the temporary name, however it is left.
Unlinked == [t \in Targets |-> temp[t] /\ ~(tx.pc \in Placing /\ t = This)]

\* An exception: retention is undone, a placement is rolled back.
Raise ==
    /\ \/ tx.pc \in Retaining /\ To("UNDO", 1)
       \/ tx.pc \in Placing /\ To("ACCESS", 1)
    /\ temp' = Unlinked
    /\ UNCHANGED <<file, held, journal, access, touched>>

\* The held links, then the journal and the rest of the directory.
Undo ==
    /\ In("UNDO")
    /\ held[This] => file[This] = "PRIOR"
    /\ held' = [held EXCEPT ![This] = FALSE]
    /\ IF tx.index < Len(Order) THEN To("UNDO", tx.index + 1) /\ UNCHANGED journal
       ELSE To("RAISED", 1) /\ journal' = NoJournal
    /\ UNCHANGED <<file, temp, access, touched>>

\* A KeyboardInterrupt while placing passes the handler of install by.
Interrupt ==
    /\ tx.pc \in Placing
    /\ temp' = Unlinked /\ To("INTERRUPTED", 1)
    /\ UNCHANGED <<file, held, journal, access, touched>>

InstallStep ==
    OpenInstall \/ WriteJournal \/ Retain \/ Stage \/ Intent \/ Place \/ Row \/ Complete \/ Return

-----------------------------------------------------------------------------
(***************************************************************************)
(* apply_runtime_access, and rollback_transaction.                          *)
(***************************************************************************)

ApplyAccess ==
    /\ In("RETURNED") /\ access = "BEFORE" /\ access' = "OBSERVER"
    /\ UNCHANGED <<file, temp, held, journal, tx, touched>>

\* restore_runtime_access, from the signed prestate.
RestoreAccess == access' = "BEFORE" /\ UNCHANGED <<file, temp, held, journal, touched>>

\* The runner restores the ACL before it asks for the rollback.
RevokeAccess == In("RETURNED") /\ RestoreAccess /\ UNCHANGED tx

Readable == journal.state \notin {"NONE", "UNWRITTEN"}

OpenRollback ==
    /\ tx.pc \in {"IDLE", "RETURNED", "COMPENSATED", "RAISED", "INTERRUPTED"} /\ Readable
    /\ To("ACCESS", 1)
    /\ UNCHANGED <<file, temp, held, journal, access, touched>>

CompensateAccess == In("ACCESS") /\ RestoreAccess /\ To("BEGIN", 1)

\* Mutation: the rollback starts from the completed targets.
BeginCompleted ==
    /\ In("BEGIN")
    /\ journal' = [journal EXCEPT !.state = "ROLLING_BACK", !.completed = 0]
    /\ IF journal.completed > 0 THEN To("REVERSE", journal.completed) ELSE To("RELEASE", 1)
    /\ UNCHANGED <<file, temp, held, access, touched>>

\* At most one recorded inode is not completed; a rollback that was begun goes
\* on with its own list.
Begin ==
    /\ In("BEGIN")
    /\ IF journal.state \in {"INSTALLING", "INSTALLED_INACTIVE"}
       THEN /\ journal.owned <= journal.completed + 1
            /\ journal' = [state |-> "ROLLING_BACK", owned |-> journal.owned, completed |-> 0]
       ELSE journal' = [journal EXCEPT !.state = "ROLLING_BACK"]
    /\ IF journal.owned > 0 THEN To("REVERSE", journal.owned) ELSE To("RELEASE", 1)
    /\ UNCHANGED <<file, temp, held, access, touched>>

\* Mutation: a replaced target is reversed like a created one.
ReverseAsCreated ==
    /\ In("REVERSE")
    /\ file' = [file EXCEPT ![This] = IF @ = "OURS" THEN "NONE" ELSE @]
    /\ held' = [held EXCEPT ![This] = FALSE]
    /\ To("PROGRESS", tx.index)
    /\ UNCHANGED <<temp, journal, access, touched>>

\* Only the recorded inode is removed from a created target; a replaced one
\* gets its prior inode back in one rename.
Reverse ==
    /\ In("REVERSE")
    /\ IF This \in Replaced
       THEN /\ file[This] = "PRIOR" \/ (file[This] = "OURS" /\ held[This])
            /\ file' = [file EXCEPT ![This] = "PRIOR"]
            /\ held' = [held EXCEPT ![This] = FALSE]
       ELSE /\ file' = [file EXCEPT ![This] = IF @ = "OURS" THEN "NONE" ELSE @]
            /\ UNCHANGED held
    /\ To("PROGRESS", tx.index)
    /\ UNCHANGED <<temp, journal, access, touched>>

Progress ==
    LET done == journal.owned + 1 - tx.index IN
    /\ In("PROGRESS")
    /\ temp' = [temp EXCEPT ![This] = FALSE]
    /\ journal' = [journal EXCEPT !.completed = IF done > @ THEN done ELSE @]
    /\ IF tx.index > 1 THEN To("REVERSE", tx.index - 1) ELSE To("RELEASE", 1)
    /\ UNCHANGED <<file, held, access, touched>>

\* Links of targets that were never recorded, after the residue check.
Release ==
    /\ In("RELEASE")
    /\ This \in Replaced => file[This] = "PRIOR"
    /\ held' = [held EXCEPT ![This] = FALSE]
    /\ IF tx.index < Len(Order) THEN To("RELEASE", tx.index + 1) ELSE To("SEAL", 1)
    /\ UNCHANGED <<file, temp, journal, access, touched>>

Seal ==
    /\ In("SEAL")
    /\ journal' = [journal EXCEPT !.state = "ROLLBACK_COMPLETE"]
    /\ To("COMPENSATED", 1)
    /\ UNCHANGED <<file, temp, held, access, touched>>

RollbackStep == CompensateAccess \/ Begin \/ Reverse \/ Progress \/ Release \/ Seal

Compensating == {"UNDO", "ACCESS", "BEGIN", "REVERSE", "PROGRESS", "RELEASE", "SEAL"}

\* A compensation that raises leaves everything where it is.
RaiseAgain ==
    /\ tx.pc \in Compensating
    /\ To("RAISED", 1)
    /\ UNCHANGED <<file, temp, held, journal, access, touched>>

\* The process ends.
KillCall ==
    /\ tx.pc \notin {"IDLE", "DEAD"}
    /\ To("DEAD", 1)
    /\ UNCHANGED <<file, temp, held, journal, access, touched>>

\* A later process has only what is on disk.
LaterProcess ==
    /\ In("DEAD") /\ Readable
    /\ To("ACCESS", 1)
    /\ UNCHANGED <<file, temp, held, journal, access, touched>>

FilesNext ==
    \/ \E t \in Targets : Foreign(t)
    \/ InstallStep \/ Undo \/ Raise \/ Interrupt \/ ApplyAccess \/ RevokeAccess
    \/ OpenRollback \/ RollbackStep \/ RaiseAgain \/ KillCall \/ LaterProcess

FilesSpec == FilesInit /\ [][FilesNext]_filevars

-----------------------------------------------------------------------------
FilesTypeOK ==
    /\ file \in [Targets -> {"NONE", "PRIOR", "OURS", "FOREIGN"}]
    /\ temp \in [Targets -> BOOLEAN] /\ held \in [Targets -> BOOLEAN]
    /\ journal \in [state : {"NONE", "UNWRITTEN", "INSTALLING", "INSTALLED_INACTIVE",
                             "ROLLING_BACK", "ROLLBACK_COMPLETE"},
                    owned : 0..Len(Order), completed : 0..Len(Order)]
    /\ access \in {"BEFORE", "OBSERVER"}
    /\ tx \in [pc : {"IDLE", "JOURNAL", "RETURNED", "RAISED", "INTERRUPTED", "COMPENSATED", "DEAD"}
                    \cup Retaining \cup Placing \cup Compensating,
               index : 1..Len(Order)]
    /\ touched \subseteq Targets

\* A file of anybody else at a target survives every step of this transaction,
\* whether it came before, between or after the placements.
ForeignKept == [][\A t \in Targets : file[t] = "FOREIGN" => file'[t] = "FOREIGN"]_filevars

\* The inode the predecessor runs from is never lost: it has the target's name
\* or the held link's, whatever is interrupted.
PriorSurvives == \A t \in Replaced \ touched : file[t] = "PRIOR" \/ held[t]

\* ROLLBACK_COMPLETE is true of the host after any interruption: every target
\* is the prestate again, no recorded inode has a name left, the ACL is back.
RollbackRestores ==
    journal.state = "ROLLBACK_COMPLETE" =>
        /\ \A t \in Targets \ touched : file[t] = Before(t) /\ ~held[t]
        /\ \A t \in Targets : temp[t] => Rank(t) > journal.owned
        /\ In("COMPENSATED") => access = "BEFORE"
==============================================================================
