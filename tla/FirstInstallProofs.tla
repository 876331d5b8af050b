--------------------------- MODULE FirstInstallProofs ---------------------------
(***************************************************************************)
(* What is proved of the first installation: of the transaction over the      *)
(* Kernel's files, of the ones over the canonical inputs and the model        *)
(* runtime, and of the runner that drives the three.                        *)
(***************************************************************************)
EXTENDS FirstInstall, FiniteSetTheorems, TLAPS

(***************************************************************************)
(* Whatever fails, is interrupted or ends with its process, the transaction   *)
(* over the Kernel's files never loses the predecessor's inode and never       *)
(* writes over anybody else's file: for any targets, any of them replaced, and *)
(* any number of foreign writes.                                            *)
(***************************************************************************)
\* The links made so far, and all of them before the first placement.
LinkedInOrder ==
    tx.pc = "RETAIN" => \A m \in 1..(tx.index - 1) : Order[m] \in Replaced => held[Order[m]]
LinkedBefore == tx.pc \in Placing => \A t \in Replaced : held[t]

ForeignTouched == \A t \in Targets : file[t] = "FOREIGN" => t \in touched

FilesInv == FilesTypeOK /\ LinkedInOrder /\ LinkedBefore /\ ForeignTouched /\ PriorSurvives

\* The target of an index is one of the plan's.
LEMMA ThisTarget == FilesTypeOK => This \in Targets
BY TargetAssumption DEF FilesTypeOK, This, Targets

LEMMA FilesInvInit == FilesInit => FilesInv
<1> SUFFICES ASSUME FilesInit PROVE FilesInv
  OBVIOUS
<1>1. FilesTypeOK
  BY TargetAssumption DEF FilesInit, FilesTypeOK, NoJournal, Before
<1>2. LinkedInOrder /\ LinkedBefore
  BY DEF FilesInit, LinkedInOrder, LinkedBefore, Placing
<1>3. ForeignTouched /\ PriorSurvives
  BY TargetAssumption DEF FilesInit, ForeignTouched, PriorSurvives, Before
<1> QED
  BY <1>1, <1>2, <1>3 DEF FilesInv

\* The types survive every step.
LEMMA FilesTypeStep == FilesTypeOK /\ [FilesNext]_filevars => FilesTypeOK'
<1> SUFFICES ASSUME FilesTypeOK, [FilesNext]_filevars PROVE FilesTypeOK'
  OBVIOUS
<1>t. Len(Order) \in Nat \ {0} /\ This \in Targets
  BY TargetAssumption, ThisTarget
<1> USE <1>t DEF FilesTypeOK, In, To, Retaining, Placing, Compensating
<1>1. ASSUME NEW t \in Targets, Foreign(t) PROVE FilesTypeOK'
  BY <1>1 DEF Foreign
<1>2. CASE OpenInstall
  BY <1>2 DEF OpenInstall
<1>3. CASE WriteJournal
  BY <1>3 DEF WriteJournal
<1>4. CASE Retain
  BY <1>4 DEF Retain
<1>5. CASE Stage
  BY <1>5 DEF Stage
<1>6. CASE Intent
  BY <1>6 DEF Intent
<1>7. CASE Place
  BY <1>7 DEF Place
<1>8. CASE Row
  BY <1>8 DEF Row
<1>9. CASE Complete
  BY <1>9 DEF Complete
<1>10. CASE Return
  BY <1>10 DEF Return
<1>11. CASE Undo
  BY <1>11 DEF Undo, NoJournal
<1>12. CASE Raise
  BY <1>12 DEF Raise, Unlinked
<1>13. CASE Interrupt
  BY <1>13 DEF Interrupt, Unlinked
<1>14. CASE ApplyAccess
  BY <1>14 DEF ApplyAccess
<1>15. CASE RevokeAccess
  BY <1>15 DEF RevokeAccess, RestoreAccess
<1>16. CASE OpenRollback
  BY <1>16 DEF OpenRollback
<1>17. CASE CompensateAccess
  BY <1>17 DEF CompensateAccess, RestoreAccess
<1>18. CASE Begin
  <2>1. tx' \in [pc : {"REVERSE", "RELEASE"}, index : 1..Len(Order)]
    BY <1>18 DEF Begin
  <2>2. journal' \in [state : {"ROLLING_BACK"}, owned : 0..Len(Order), completed : 0..Len(Order)]
    BY <1>18 DEF Begin
  <2> QED
    BY <1>18, <2>1, <2>2 DEF Begin
<1>19. CASE Reverse
  BY <1>19 DEF Reverse
<1>20. CASE Progress
  <2> DEFINE done == journal.owned + 1 - tx.index
             reached == IF done > journal.completed THEN done ELSE journal.completed
  <2>1. reached \in 0..Len(Order)
    OBVIOUS
  <2>2. journal' = [journal EXCEPT !.completed = reached]
    BY <1>20 DEF Progress
  <2>3. tx' \in [pc : {"REVERSE", "RELEASE"}, index : 1..Len(Order)]
    BY <1>20 DEF Progress
  <2>4. temp' \in [Targets -> BOOLEAN] /\ UNCHANGED <<file, held, access, touched>>
    BY <1>20 DEF Progress
  <2> HIDE DEF reached
  <2> QED
    BY <2>1, <2>2, <2>3, <2>4
<1>21. CASE Release
  BY <1>21 DEF Release
<1>22. CASE Seal
  BY <1>22 DEF Seal
<1>23. CASE RaiseAgain
  BY <1>23 DEF RaiseAgain
<1>24. CASE KillCall
  BY <1>24 DEF KillCall
<1>25. CASE LaterProcess
  BY <1>25 DEF LaterProcess
<1>26. CASE UNCHANGED filevars
  BY <1>26 DEF filevars
<1> QED
  BY <1>1, <1>2, <1>3, <1>4, <1>5, <1>6, <1>7, <1>8, <1>9, <1>10, <1>11, <1>12, <1>13, <1>14, <1>15, <1>16, <1>17, <1>18, <1>19, <1>20, <1>21, <1>22, <1>23, <1>24, <1>25, <1>26 DEF FilesNext, InstallStep, RollbackStep

\* A foreign file is left alone by every step of the transaction itself.
LEMMA ForeignStep ==
    FilesInv /\ [FilesNext]_filevars =>
        \A t \in Targets : file[t] = "FOREIGN" => file'[t] = "FOREIGN"
<1> SUFFICES ASSUME FilesInv, [FilesNext]_filevars, NEW t \in Targets, file[t] = "FOREIGN"
             PROVE  file'[t] = "FOREIGN"
  OBVIOUS
<1>t. FilesTypeOK /\ t \in touched /\ This \in Targets
  BY ThisTarget DEF FilesInv, ForeignTouched
<1>1. ASSUME NEW u \in Targets, Foreign(u) PROVE file'[t] = "FOREIGN"
  BY <1>1, <1>t DEF Foreign, FilesTypeOK
<1>2. CASE Place
  <2>1. This \in Replaced => file[This] # "FOREIGN"
    BY <1>2 DEF Place, Unchanged
  <2> QED
    BY <1>2, <1>t, <2>1 DEF Place, FilesTypeOK
<1>3. CASE Reverse
  BY <1>3, <1>t DEF Reverse, FilesTypeOK
<1>4. CASE UNCHANGED file
  BY <1>4
<1> QED
  BY <1>1, <1>2, <1>3, <1>4 DEF FilesNext, InstallStep, RollbackStep, OpenInstall, WriteJournal,
     Retain, Stage, Intent, Row, Complete, Return, Undo, Raise, Interrupt, ApplyAccess,
     RevokeAccess, RestoreAccess, CompensateAccess, OpenRollback, Begin, Progress, Release, Seal,
     RaiseAgain, KillCall, LaterProcess, filevars

\* The links are all made before the first placement.
LEMMA LinkedStep ==
    FilesInv /\ [FilesNext]_filevars => LinkedInOrder' /\ LinkedBefore'
<1> SUFFICES ASSUME FilesInv, [FilesNext]_filevars PROVE LinkedInOrder' /\ LinkedBefore'
  OBVIOUS
<1>t. FilesTypeOK /\ LinkedInOrder /\ LinkedBefore /\ Len(Order) \in Nat \ {0} /\ This \in Targets
  BY TargetAssumption, ThisTarget DEF FilesInv
<1>1. CASE WriteJournal
  BY <1>1 DEF WriteJournal, To, LinkedInOrder, LinkedBefore, Placing
<1>2. CASE Retain
  <2>1. \A m \in 1..tx.index : Order[m] \in Replaced => held'[Order[m]]
    <3> SUFFICES ASSUME NEW m \in 1..tx.index, Order[m] \in Replaced PROVE held'[Order[m]]
      OBVIOUS
    <3>1. Order[m] \in Targets
      BY <1>t DEF FilesTypeOK, Targets
    <3>2. m < tx.index => held[Order[m]]
      BY <1>2, <1>t DEF Retain, In, LinkedInOrder, FilesTypeOK
    <3> QED
      BY <1>2, <1>t, <3>1, <3>2 DEF Retain, This, FilesTypeOK
  <2>2. CASE tx.index < Len(Order)
    BY <1>2, <1>t, <2>1, <2>2 DEF Retain, To, LinkedInOrder, LinkedBefore, Placing, FilesTypeOK
  <2>3. CASE ~(tx.index < Len(Order))
    <3>1. tx.index = Len(Order)
      BY <1>t, <2>3 DEF FilesTypeOK
    <3>2. \A t \in Replaced : held'[t]
      BY <2>1, <3>1, TargetAssumption DEF Targets
    <3> QED
      BY <1>2, <2>3, <3>2 DEF Retain, To, LinkedInOrder, LinkedBefore
  <2> QED
    BY <2>2, <2>3
<1>3. CASE UNCHANGED held /\ (tx'.pc \in Placing => tx.pc \in Placing) /\ tx'.pc # "RETAIN"
  BY <1>t, <1>3 DEF LinkedInOrder, LinkedBefore
<1>4. CASE tx'.pc \notin Placing \cup Retaining
  BY <1>4 DEF LinkedInOrder, LinkedBefore, Retaining
<1>5. CASE UNCHANGED <<held, tx>>
  BY <1>t, <1>5 DEF LinkedInOrder, LinkedBefore
<1>6. ASSUME OpenInstall \/ Stage \/ Intent \/ Place \/ Row \/ Complete \/ Return
      PROVE  UNCHANGED held /\ (tx'.pc \in Placing => tx.pc \in Placing) /\ tx'.pc # "RETAIN"
  BY <1>6 DEF OpenInstall, Stage, Intent, Place, Row, Complete, Return, In, To, Placing
<1>7. ASSUME Undo \/ Raise \/ Interrupt \/ CompensateAccess \/ Begin \/ Reverse \/ Progress
             \/ Release \/ Seal \/ RaiseAgain \/ KillCall \/ LaterProcess \/ OpenRollback
      PROVE  tx'.pc \notin Placing \cup Retaining
  BY <1>7 DEF Undo, Raise, Interrupt, CompensateAccess, Begin, Reverse, Progress, Release, Seal,
     RaiseAgain, KillCall, LaterProcess, OpenRollback, To, Placing, Retaining
<1>8. ASSUME (\E t \in Targets : Foreign(t)) \/ ApplyAccess \/ RevokeAccess \/ UNCHANGED filevars
      PROVE  UNCHANGED <<held, tx>>
  BY <1>8 DEF Foreign, ApplyAccess, RevokeAccess, RestoreAccess, filevars
<1> QED
  BY <1>1, <1>2, <1>3, <1>4, <1>5, <1>6, <1>7, <1>8 DEF FilesNext, InstallStep, RollbackStep

\* No step takes the last name of a prior inode away.
LEMMA PriorStep == FilesInv /\ [FilesNext]_filevars => PriorSurvives'
<1> SUFFICES ASSUME FilesInv, [FilesNext]_filevars, NEW t \in Replaced \ touched', t \notin touched
             PROVE  (file[t] = "PRIOR" \/ held[t])'
  <2>1. ASSUME \E u \in Targets : Foreign(u) PROVE touched \subseteq touched'
    BY <2>1 DEF Foreign
  <2>2. ASSUME InstallStep PROVE UNCHANGED touched
    BY <2>2 DEF InstallStep, OpenInstall, WriteJournal, Retain, Stage, Intent, Place, Row,
       Complete, Return
  <2>3. ASSUME RollbackStep PROVE UNCHANGED touched
    BY <2>3 DEF RollbackStep, CompensateAccess, RestoreAccess, Begin, Reverse, Progress, Release,
       Seal
  <2>4. ASSUME Undo \/ Raise \/ Interrupt \/ ApplyAccess \/ RevokeAccess \/ OpenRollback
               \/ RaiseAgain \/ KillCall \/ LaterProcess \/ UNCHANGED filevars
        PROVE  UNCHANGED touched
    BY <2>4 DEF Undo, Raise, Interrupt, ApplyAccess, RevokeAccess, RestoreAccess, OpenRollback,
       RaiseAgain, KillCall, LaterProcess, filevars
  <2> QED
    BY <2>1, <2>2, <2>3, <2>4 DEF FilesNext, PriorSurvives
<1>t. FilesTypeOK /\ LinkedBefore /\ t \in Targets /\ This \in Targets
      /\ (file[t] = "PRIOR" \/ held[t])
  BY TargetAssumption, ThisTarget DEF FilesInv, PriorSurvives
<1>1. ASSUME NEW u \in Targets, Foreign(u) PROVE (file[t] = "PRIOR" \/ held[t])'
  BY <1>1, <1>t DEF Foreign, FilesTypeOK
<1>2. CASE Retain
  BY <1>2, <1>t DEF Retain, FilesTypeOK
<1>3. CASE Place
  BY <1>3, <1>t DEF Place, In, LinkedBefore, Placing
<1>4. CASE Undo
  BY <1>4, <1>t DEF Undo, FilesTypeOK
<1>5. CASE Reverse
  BY <1>5, <1>t DEF Reverse, FilesTypeOK
<1>6. CASE Release
  BY <1>6, <1>t DEF Release, FilesTypeOK
<1>7. CASE UNCHANGED <<file, held>>
  BY <1>7, <1>t
<1> QED
  BY <1>1, <1>2, <1>3, <1>4, <1>5, <1>6, <1>7 DEF FilesNext, InstallStep, RollbackStep,
     OpenInstall, WriteJournal, Stage, Intent, Row, Complete, Return, Raise, Interrupt,
     ApplyAccess, RevokeAccess, RestoreAccess, CompensateAccess, OpenRollback, Begin, Progress,
     Seal, RaiseAgain, KillCall, LaterProcess, filevars

LEMMA FilesInvStep == FilesInv /\ [FilesNext]_filevars => FilesInv'
<1> SUFFICES ASSUME FilesInv, [FilesNext]_filevars PROVE FilesInv'
  OBVIOUS
<1>1. FilesTypeOK'
  BY FilesTypeStep DEF FilesInv
<1>2. LinkedInOrder' /\ LinkedBefore' /\ PriorSurvives'
  BY LinkedStep, PriorStep
<1>3. ForeignTouched'
  <2> SUFFICES ASSUME NEW t \in Targets, file'[t] = "FOREIGN" PROVE t \in touched'
    BY DEF ForeignTouched
  <2>t. FilesTypeOK /\ (file[t] = "FOREIGN" => t \in touched) /\ This \in Targets
    BY ThisTarget DEF FilesInv, ForeignTouched
  <2>1. ASSUME NEW u \in Targets, Foreign(u) PROVE t \in touched'
    BY <2>1, <2>t DEF Foreign, FilesTypeOK
  <2>2. CASE Place
    BY <2>2, <2>t DEF Place, FilesTypeOK
  <2>3. CASE Reverse
    BY <2>3, <2>t DEF Reverse, FilesTypeOK
  <2>4. CASE UNCHANGED <<file, touched>>
    BY <2>4, <2>t
  <2> QED
    BY <2>1, <2>2, <2>3, <2>4 DEF FilesNext, InstallStep, RollbackStep, OpenInstall,
       WriteJournal, Retain, Stage, Intent, Row, Complete, Return, Undo, Raise, Interrupt,
       ApplyAccess, RevokeAccess, RestoreAccess, CompensateAccess, OpenRollback, Begin, Progress,
       Release, Seal, RaiseAgain, KillCall, LaterProcess, filevars
<1> QED
  BY <1>1, <1>2, <1>3 DEF FilesInv

\* Every state of the file transaction, alone, keeps the inductive invariant.
LEMMA FilesInvCorrect == FilesSpec => []FilesInv
<1>1. FilesInit => FilesInv
  BY FilesInvInit
<1>2. FilesInv /\ [FilesNext]_filevars => FilesInv'
  BY FilesInvStep
<1> QED
  BY <1>1, <1>2, PTL DEF FilesSpec

\* The predecessor's inode keeps a name, at its target or in the rollback
\* directory, however install and rollback are interrupted (install,
\* rollback_transaction).
THEOREM PriorSurvivesCorrect == FilesSpec => []PriorSurvives
<1>1. FilesInv => PriorSurvives
  BY DEF FilesInv
<1> QED
  BY <1>1, FilesInvCorrect, PTL

\* Neither a placement nor its compensation writes over or removes a file that
\* somebody else put at a target (install_new, rollback_transaction).
THEOREM ForeignKeptCorrect == FilesSpec => ForeignKept
<1>1. FilesInv /\ [FilesNext]_filevars =>
        [\A t \in Targets : file[t] = "FOREIGN" => file'[t] = "FOREIGN"]_filevars
  BY ForeignStep
<1> QED
  BY <1>1, FilesInvCorrect, PTL DEF FilesSpec, ForeignKept

-----------------------------------------------------------------------------
(***************************************************************************)
(* That the transactions of the model runtime have power over their own only,  *)
(* for every bundle.  A process is stopped by a rollback after two checks: that  *)
(* it is the receipt's start if the receipt has one, and, when it has none, that *)
(* it is the predecessor's.  What has to be shown is that the second case never   *)
(* gets to the stop: the predecessor runs only while nothing was requested but    *)
(* its stop, and then the rollback has nothing to undo.                       *)
(***************************************************************************)
\* The phase that is durable while a call stands at a step.
Unstopped == {"PREPARED", "STOP_REQUESTED"}
Requested == {"CONFIG_REQUESTED", "START_REQUESTED", "DEPENDENCY_OBSERVED"}
PhaseAt ==
    /\ call.pc \in {"IDLE", "RECEIPT"} => receipt.phase = "NONE"
    /\ call.pc = "OBSERVE" => receipt.phase = "PREPARED"
    /\ call.pc \in {"STOP", "CONFIG"} => receipt.phase = "STOP_REQUESTED"
    /\ call.pc \in {"MKDIR", "DIRECTORY", "INTENT", "LINK", "RELOAD", "REQUEST"} =>
        receipt.phase = "CONFIG_REQUESTED"
    /\ call.pc \in {"START", "BIND", "WAIT", "ACCEPT"} => receipt.phase = "START_REQUESTED"
    /\ call.pc = "RETURN" => receipt.phase = "DEPENDENCY_OBSERVED"
    /\ call.pc = "RETURNED" => receipt.phase \in {"DEPENDENCY_OBSERVED", "OPEN"}
    /\ call.pc = "UNDO" => receipt.phase \in Unstopped \cup Requested
    /\ call.pc \in {"MAKE", "PLACE", "ADMIT"} => receipt.phase = "OPEN"

\* The drop-ins are none, in the directory of the transaction, or all foreign.
DropinShape ==
    /\ dropin.dir = "NONE" => dropin.conf = "NONE"
    /\ dropin.dir = "OTHER" => dropin.conf = "OTHER"

\* The predecessor runs while nothing was requested, or by a bundle's leave.
PlannedEarly == service = Planned => receipt.phase \in Unstopped \cup {"NONE", "OPEN", "RESTORED"}
DirectoryLate == receipt.dir => receipt.phase \notin Unstopped \cup {"NONE"}
AfterStarted == receipt.after => receipt.start # Down
HaltBound == call.pc = "HALT" => receipt.start # Down

ReceiptInv == PhaseAt /\ PlannedEarly /\ DirectoryLate /\ AfterStarted /\ HaltBound
RuntimeInv == RuntimeTypeOK /\ DropinShape /\ ReceiptInv

-----------------------------------------------------------------------------
(***************************************************************************)
(* Types.                                                                  *)
(***************************************************************************)
LEMMA ProcessFacts ==
    /\ Down \in Processes /\ Planned \in Processes
    /\ \A by \in {"INSTALL", "ROLLBACK", "OTHER"}, env \in Settings : [by |-> by, env |-> env] \in Processes
    /\ "BEFORE" \in Settings /\ "AFTER" \in Settings /\ "OTHER" \in Settings
BY DEF Down, Planned, Processes, Settings

LEMMA ReceiptFacts ==
    ASSUME NEW r \in Receipts
    PROVE  /\ \A p \in ReceiptPhases : [r EXCEPT !.phase = p] \in Receipts
           /\ \A p \in ReceiptPhases, q \in Processes : [r EXCEPT !.phase = p, !.back = q] \in Receipts
           /\ \A q \in Processes : [r EXCEPT !.start = q] \in Receipts /\ [r EXCEPT !.back = q] \in Receipts
           /\ [r EXCEPT !.dir = TRUE] \in Receipts /\ [r EXCEPT !.conf = TRUE] \in Receipts
           /\ [r EXCEPT !.after = TRUE] \in Receipts
BY DEF Receipts

\* The names a call and its receipt go through.
LEMMA StepNames ==
    /\ "IDLE" \in CallSteps /\ "OBSERVE" \in CallSteps /\ "STOP" \in CallSteps /\ "CONFIG" \in CallSteps
    /\ "MKDIR" \in CallSteps /\ "DIRECTORY" \in CallSteps /\ "INTENT" \in CallSteps /\ "LINK" \in CallSteps
    /\ "RELOAD" \in CallSteps /\ "REQUEST" \in CallSteps /\ "START" \in CallSteps /\ "BIND" \in CallSteps
    /\ "WAIT" \in CallSteps /\ "ACCEPT" \in CallSteps /\ "RETURN" \in CallSteps /\ "RETURNED" \in CallSteps
    /\ "LEFT" \in CallSteps /\ "RESTORED" \in CallSteps /\ "RECEIPT" \in CallSteps /\ "MAKE" \in CallSteps
    /\ "PLACE" \in CallSteps /\ "ADMIT" \in CallSteps /\ "BACK" \in CallSteps /\ "TAKE" \in CallSteps
    /\ "CLEAR" \in CallSteps /\ "UNDO" \in CallSteps /\ "HALT" \in CallSteps /\ "UNLINK" \in CallSteps
    /\ "RMDIR" \in CallSteps /\ "UNLOAD" \in CallSteps /\ "REVIVE" \in CallSteps /\ "REBIND" \in CallSteps
    /\ "REWARM" \in CallSteps
BY DEF CallSteps, Undoing

LEMMA PhaseNames ==
    /\ "NONE" \in ReceiptPhases /\ "PREPARED" \in ReceiptPhases /\ "STOP_REQUESTED" \in ReceiptPhases
    /\ "CONFIG_REQUESTED" \in ReceiptPhases /\ "START_REQUESTED" \in ReceiptPhases
    /\ "DEPENDENCY_OBSERVED" \in ReceiptPhases /\ "RESTORE_REQUESTED" \in ReceiptPhases
    /\ "RESTORED" \in ReceiptPhases /\ "OPEN" \in ReceiptPhases
BY DEF ReceiptPhases

LEMMA RecordedTypes ==
    ASSUME RuntimeTypeOK, NEW r \in Receipts, NEW pc \in CallSteps, Recorded(r, pc)
    PROVE  RuntimeTypeOK'
BY PieceAssumption DEF RuntimeTypeOK, Recorded, CallTo

LEMMA InitInv == RuntimeInit => RuntimeInv
<1> SUFFICES ASSUME RuntimeInit PROVE RuntimeInv
  OBVIOUS
<1>1. receipt \in Receipts
  BY ProcessFacts DEF RuntimeInit, Receipts, ReceiptPhases
<1>2. call \in [pc : CallSteps, n : 0..(Len(Pieces) + 1)]
  BY PieceAssumption DEF RuntimeInit, CallSteps
<1>3. RuntimeTypeOK
  BY <1>1, <1>2, ProcessFacts DEF RuntimeInit, RuntimeTypeOK
<1>4. DropinShape /\ ReceiptInv
  BY DEF RuntimeInit, ReceiptInv, PhaseAt, DropinShape, PlannedEarly, DirectoryLate, AfterStarted,
    HaltBound, Planned, Down, Unstopped, Requested
<1> QED
  BY <1>3, <1>4 DEF RuntimeInv

\* install_native_allocation.
LEMMA NativeTypes == ASSUME RuntimeTypeOK, NativeOpen \/ NativeStep \/ NativeRaise PROVE RuntimeTypeOK'
<1>0. receipt \in Receipts /\ service \in Processes
  BY DEF RuntimeTypeOK
<1>1. CASE NativeOpen
  BY <1>1, <1>0, RecordedTypes, ReceiptFacts, StepNames, PhaseNames DEF NativeOpen
<1>2. CASE NativeObserve
  BY <1>2, <1>0, RecordedTypes, ReceiptFacts, StepNames, PhaseNames DEF NativeObserve
<1>3. CASE NativeStop
  BY <1>3, PieceAssumption, ProcessFacts, StepNames
  DEF NativeStop, RuntimeTypeOK, Begun, Loads, Kind, Calling, CallTo
<1>4. CASE NativeConfig
  BY <1>4, <1>0, RecordedTypes, ReceiptFacts, StepNames, PhaseNames DEF NativeConfig
<1>5. CASE NativeDirectory
  <2>1. dropin' \in [dir : {"NONE", "OURS", "OTHER"}, conf : {"NONE", "OURS", "OTHER"}]
    BY <1>5 DEF NativeDirectory, RuntimeTypeOK
  <2>2. call' \in [pc : CallSteps, n : 0..(Len(Pieces) + 1)]
    BY <1>5, PieceAssumption DEF NativeDirectory, CallTo, CallSteps
  <2> QED
    BY <1>5, <2>1, <2>2 DEF NativeDirectory, RuntimeTypeOK
<1>6. CASE NativeOwnDirectory
  BY <1>6, <1>0, RecordedTypes, ReceiptFacts, StepNames, PhaseNames DEF NativeOwnDirectory
<1>7. CASE NativeIntent
  BY <1>7, <1>0, RecordedTypes, ReceiptFacts, StepNames, PhaseNames DEF NativeIntent
<1>8. CASE NativeLink
  <2>1. dropin' \in [dir : {"NONE", "OURS", "OTHER"}, conf : {"NONE", "OURS", "OTHER"}]
    BY <1>8 DEF NativeLink, RuntimeTypeOK
  <2>2. call' \in [pc : CallSteps, n : 0..(Len(Pieces) + 1)]
    BY <1>8, PieceAssumption DEF NativeLink, CallTo, CallSteps
  <2> QED
    BY <1>8, <2>1, <2>2 DEF NativeLink, RuntimeTypeOK
<1>9. CASE NativeReload
  BY <1>9, PieceAssumption, ProcessFacts, StepNames
  DEF NativeReload, RuntimeTypeOK, Begun, Loads, Kind, Calling, CallTo
<1>10. CASE NativeRequest
  BY <1>10, <1>0, RecordedTypes, ReceiptFacts, StepNames, PhaseNames DEF NativeRequest
<1>11. CASE NativeStart
  BY <1>11, PieceAssumption, ProcessFacts, StepNames
  DEF NativeStart, RuntimeTypeOK, Begun, Loads, Kind, Calling, CallTo
<1>12. CASE NativeBind
  BY <1>12, <1>0, RecordedTypes, ReceiptFacts, StepNames, PhaseNames DEF NativeBind
<1>13. CASE NativeWait
  BY <1>13, <1>0, RecordedTypes, ReceiptFacts, StepNames, PhaseNames DEF NativeWait
<1>14. CASE NativeAccept
  BY <1>14, <1>0, RecordedTypes, ReceiptFacts, StepNames, PhaseNames DEF NativeAccept
<1>15. CASE NativeReturn
  BY <1>15, <1>0, RecordedTypes, ReceiptFacts, StepNames, PhaseNames DEF NativeReturn
<1>16. CASE NativeRaise
  BY <1>16, <1>0, RecordedTypes, ReceiptFacts, StepNames, PhaseNames DEF NativeRaise
<1> QED
  BY <1>1, <1>2, <1>3, <1>4, <1>5, <1>6, <1>7, <1>8, <1>9, <1>10, <1>11, <1>12, <1>13, <1>14, <1>15, <1>16 DEF NativeStep

\* rollback_native_allocation.
LEMMA UndoTypes == ASSUME RuntimeTypeOK, UndoStep \/ UndoRaise PROVE RuntimeTypeOK'
<1>0. receipt \in Receipts /\ service \in Processes
  BY DEF RuntimeTypeOK
<1>1. CASE UndoNothing
  BY <1>1, <1>0, RecordedTypes, ReceiptFacts, StepNames, PhaseNames DEF UndoNothing
<1>2. CASE UndoRequest
  BY <1>2, <1>0, RecordedTypes, ReceiptFacts, StepNames, PhaseNames DEF UndoRequest
<1>3. CASE UndoStop
  BY <1>3, PieceAssumption, ProcessFacts, StepNames
  DEF UndoStop, RuntimeTypeOK, Begun, Loads, Kind, Calling, CallTo
<1>4. CASE UndoLink
  BY <1>4, PieceAssumption, ProcessFacts, StepNames
  DEF UndoLink, RuntimeTypeOK, Begun, Loads, Kind, Calling, CallTo
<1>5. CASE UndoDirectory
  BY <1>5, PieceAssumption, ProcessFacts, StepNames
  DEF UndoDirectory, RuntimeTypeOK, Begun, Loads, Kind, Calling, CallTo
<1>6. CASE UndoReload
  BY <1>6, PieceAssumption, ProcessFacts, StepNames
  DEF UndoReload, RuntimeTypeOK, Begun, Loads, Kind, Calling, CallTo
<1>7. CASE UndoStart
  BY <1>7, PieceAssumption, ProcessFacts, StepNames
  DEF UndoStart, RuntimeTypeOK, Begun, Loads, Kind, Calling, CallTo
<1>8. CASE UndoBind
  BY <1>8, <1>0, RecordedTypes, ReceiptFacts, StepNames, PhaseNames DEF UndoBind
<1>9. CASE UndoDone
  BY <1>9, <1>0, RecordedTypes, ReceiptFacts, StepNames, PhaseNames DEF UndoDone
<1>10. CASE UndoRaise
  BY <1>10, <1>0, RecordedTypes, ReceiptFacts, StepNames, PhaseNames DEF UndoRaise
<1> QED
  BY <1>1, <1>2, <1>3, <1>4, <1>5, <1>6, <1>7, <1>8, <1>9, <1>10 DEF UndoStep

\* install of a bundle.
LEMMA BundleTypes == ASSUME RuntimeTypeOK, BundleOpen \/ BundleStep \/ BundleRaise PROVE RuntimeTypeOK'
<1>0. receipt \in Receipts /\ service \in Processes
  BY DEF RuntimeTypeOK
<1>1. CASE BundleOpen
  BY <1>1, <1>0, RecordedTypes, ReceiptFacts, StepNames, PhaseNames DEF BundleOpen
<1>2. CASE BundleReceipt
  <2>1. receipt' \in Receipts
    BY <1>0, <1>2, ReceiptFacts, PhaseNames DEF BundleReceipt
  <2>2. Len(Pieces) \in Nat
    BY PieceAssumption
  <2>3. call' \in [pc : CallSteps, n : 0..(Len(Pieces) + 1)]
    BY <1>2, <2>2 DEF BundleReceipt, CallTo, CallSteps
  <2> QED
    BY <1>2, <2>1, <2>3 DEF BundleReceipt, RuntimeTypeOK
<1>3. CASE BundleDirectory
  BY <1>3, PieceAssumption, ProcessFacts, StepNames
  DEF BundleDirectory, RuntimeTypeOK, Begun, Loads, Kind, Calling, CallTo
<1>4. CASE BundleStop
  BY <1>4, PieceAssumption, ProcessFacts, StepNames
  DEF BundleStop, RuntimeTypeOK, Begun, Loads, Kind, Calling, CallTo
<1>5. CASE BundleUnlink
  BY <1>5, PieceAssumption, ProcessFacts, StepNames
  DEF BundleUnlink, RuntimeTypeOK, Begun, Loads, Kind, Calling, CallTo
<1>6. CASE BundlePlace
  BY <1>6, PieceAssumption, ProcessFacts, StepNames
  DEF BundlePlace, RuntimeTypeOK, Begun, Loads, Kind, Calling, CallTo
<1>7. CASE BundleStart
  BY <1>7, PieceAssumption, ProcessFacts, StepNames
  DEF BundleStart, RuntimeTypeOK, Begun, Loads, Kind, Calling, CallTo
<1>8. CASE BundleAccept
  BY <1>8, <1>0, RecordedTypes, ReceiptFacts, StepNames, PhaseNames DEF BundleAccept
<1>9. CASE BundleRaise
  BY <1>9, <1>0, RecordedTypes, ReceiptFacts, StepNames, PhaseNames DEF BundleRaise
<1> QED
  BY <1>1, <1>2, <1>3, <1>4, <1>5, <1>6, <1>7, <1>8, <1>9 DEF BundleStep

\* rollback of a bundle, the call of either rollback, and somebody else.
LEMMA BackTypes == ASSUME RuntimeTypeOK, BackStep \/ BackRaise \/ RollbackCalled \/ Meddle PROVE RuntimeTypeOK'
<1>0. receipt \in Receipts /\ service \in Processes
  BY DEF RuntimeTypeOK
<1>1. CASE BackStop
  BY <1>1, PieceAssumption, ProcessFacts, StepNames
  DEF BackStop, RuntimeTypeOK, Begun, Loads, Kind, Calling, CallTo
<1>2. CASE BackTake
  BY <1>2, PieceAssumption, ProcessFacts, StepNames
  DEF BackTake, RuntimeTypeOK, Begun, Loads, Kind, Calling, CallTo
<1>3. CASE BackStart
  BY <1>3, PieceAssumption, ProcessFacts, StepNames
  DEF BackStart, RuntimeTypeOK, Begun, Loads, Kind, Calling, CallTo
<1>4. CASE BackClear
  <2>1. call.n \in 0..(Len(Pieces) + 1) /\ Len(Pieces) \in Nat
    BY PieceAssumption DEF RuntimeTypeOK
  <2>2. call.n - 1 \in 0..(Len(Pieces) + 1)
    BY <1>4, <2>1 DEF BackClear
  <2>3. call' \in [pc : CallSteps, n : 0..(Len(Pieces) + 1)]
    BY <1>4, <2>2 DEF BackClear, CallTo, CallSteps
  <2>4. piece' \in [1..Len(Pieces) -> {"BEFORE", "NEW", "NONE", "OTHER"}]
    BY <1>4 DEF BackClear, RuntimeTypeOK
  <2> QED
    BY <1>4, <2>3, <2>4 DEF BackClear, RuntimeTypeOK
<1>5. CASE BackDone
  BY <1>5, <1>0, RecordedTypes, ReceiptFacts, StepNames, PhaseNames DEF BackDone
<1>6. CASE BackRaise
  BY <1>6, <1>0, RecordedTypes, ReceiptFacts, StepNames, PhaseNames DEF BackRaise
<1>7. CASE RollbackCalled
  BY <1>7, <1>0, RecordedTypes, ReceiptFacts, StepNames, PhaseNames DEF RollbackCalled
<1>8. CASE Meddle
  <2>1. service' \in Processes
    BY <1>8, ProcessFacts DEF Meddle, RuntimeTypeOK
  <2>2. dropin' \in [dir : {"NONE", "OURS", "OTHER"}, conf : {"NONE", "OURS", "OTHER"}]
    BY <1>8 DEF Meddle, RuntimeTypeOK
  <2>3. piece' \in [1..Len(Pieces) -> {"BEFORE", "NEW", "NONE", "OTHER"}]
    BY <1>8 DEF Meddle, RuntimeTypeOK
  <2> QED
    BY <1>8, <2>1, <2>2, <2>3 DEF Meddle, RuntimeTypeOK
<1> QED
  BY <1>1, <1>2, <1>3, <1>4, <1>5, <1>6, <1>7, <1>8 DEF BackStep

-----------------------------------------------------------------------------
(***************************************************************************)
(* Where a call stands.                                                    *)
(***************************************************************************)
\* install_native_allocation.
LEMMA NativeControl == ASSUME RuntimeInv, NativeOpen \/ NativeStep \/ NativeRaise PROVE (DropinShape /\ ReceiptInv)'
<1> USE DEF RuntimeInv, RuntimeTypeOK, Receipts, ReceiptInv, PhaseAt, DropinShape, PlannedEarly, DirectoryLate,
            AfterStarted, HaltBound, Recorded, Calling, CallTo, Unstopped, Requested
<1>1. CASE NativeOpen
  BY <1>1 DEF NativeOpen, Begun, Up, Down, Planned
<1>2. CASE NativeObserve
  BY <1>2 DEF NativeObserve, Begun, Up, Down, Planned
<1>3. CASE NativeStop
  BY <1>3 DEF NativeStop, Begun, Up, Down, Planned
<1>4. CASE NativeConfig
  BY <1>4 DEF NativeConfig, Begun, Up, Down, Planned
<1>5. CASE NativeDirectory
  BY <1>5 DEF NativeDirectory, Begun, Up, Down, Planned
<1>6. CASE NativeOwnDirectory
  BY <1>6 DEF NativeOwnDirectory, Begun, Up, Down, Planned
<1>7. CASE NativeIntent
  BY <1>7 DEF NativeIntent, Begun, Up, Down, Planned
<1>8. CASE NativeLink
  <2>1. DropinShape'
    BY <1>8 DEF NativeLink
  <2>2. ReceiptInv'
    BY <1>8 DEF NativeLink
  <2> QED
    BY <2>1, <2>2
<1>9. CASE NativeReload
  BY <1>9 DEF NativeReload, Begun, Up, Down, Planned
<1>10. CASE NativeRequest
  BY <1>10 DEF NativeRequest, Begun, Up, Down, Planned
<1>11. CASE NativeStart
  BY <1>11 DEF NativeStart, Begun, Up, Down, Planned
<1>12. CASE NativeBind
  BY <1>12 DEF NativeBind, Begun, Up, Down, Planned
<1>13. CASE NativeWait
  BY <1>13 DEF NativeWait, Begun, Up, Down, Planned
<1>14. CASE NativeAccept
  BY <1>14 DEF NativeAccept, Begun, Up, Down, Planned
<1>15. CASE NativeReturn
  BY <1>15 DEF NativeReturn, Begun, Up, Down, Planned
<1>16. CASE NativeRaise
  BY <1>16 DEF NativeRaise, Begun, Up, Down, Planned
<1> QED
  BY <1>1, <1>2, <1>3, <1>4, <1>5, <1>6, <1>7, <1>8, <1>9, <1>10, <1>11, <1>12, <1>13, <1>14, <1>15, <1>16 DEF NativeStep

\* rollback_native_allocation.
LEMMA UndoControl == ASSUME RuntimeInv, UndoStep \/ UndoRaise PROVE (DropinShape /\ ReceiptInv)'
<1> USE DEF RuntimeInv, RuntimeTypeOK, Receipts, ReceiptInv, PhaseAt, DropinShape, PlannedEarly, DirectoryLate,
            AfterStarted, HaltBound, Recorded, Calling, CallTo, Unstopped, Requested
<1>1. CASE UndoNothing
  BY <1>1 DEF UndoNothing, Begun, Up, Down, Planned
<1>2. CASE UndoRequest
  <2>1. receipt'.phase = "RESTORE_REQUESTED" /\ receipt'.start = receipt.start
        /\ receipt'.dir = receipt.dir /\ receipt'.after = receipt.after
    BY <1>2 DEF UndoRequest
  <2>2. ~(Up /\ service = Planned)
    BY <1>2 DEF UndoRequest, Untaken
  <2>3. Up => receipt.start # Down
    BY <1>2, <2>2 DEF UndoRequest, OwnedProcess
  <2>4. HaltBound'
    BY <1>2, <2>1, <2>3 DEF UndoRequest
  <2>5. PlannedEarly'
    BY <1>2, <2>2 DEF UndoRequest, Up, Down, Planned
  <2>6. PhaseAt' /\ DirectoryLate' /\ AfterStarted'
    BY <1>2, <2>1 DEF UndoRequest
  <2>7. DropinShape'
    BY <1>2 DEF UndoRequest
  <2> QED
    BY <2>4, <2>5, <2>6, <2>7
<1>3. CASE UndoStop
  BY <1>3 DEF UndoStop, Begun, Up, Down, Planned
<1>4. CASE UndoLink
  <2>1. DropinShape'
    BY <1>4 DEF UndoLink, Undoable, Owned
  <2>2. ReceiptInv'
    BY <1>4 DEF UndoLink
  <2> QED
    BY <2>1, <2>2
<1>5. CASE UndoDirectory
  BY <1>5 DEF UndoDirectory, Begun, Up, Down, Planned
<1>6. CASE UndoReload
  BY <1>6 DEF UndoReload, Begun, Up, Down, Planned
<1>7. CASE UndoStart
  BY <1>7 DEF UndoStart, Begun, Up, Down, Planned
<1>8. CASE UndoBind
  BY <1>8 DEF UndoBind, Begun, Up, Down, Planned
<1>9. CASE UndoDone
  BY <1>9 DEF UndoDone, Begun, Up, Down, Planned
<1>10. CASE UndoRaise
  BY <1>10 DEF UndoRaise, Begun, Up, Down, Planned
<1> QED
  BY <1>1, <1>2, <1>3, <1>4, <1>5, <1>6, <1>7, <1>8, <1>9, <1>10 DEF UndoStep

\* install of a bundle.
LEMMA BundleControl == ASSUME RuntimeInv, BundleOpen \/ BundleStep \/ BundleRaise PROVE (DropinShape /\ ReceiptInv)'
<1> USE DEF RuntimeInv, RuntimeTypeOK, Receipts, ReceiptInv, PhaseAt, DropinShape, PlannedEarly, DirectoryLate,
            AfterStarted, HaltBound, Recorded, Calling, CallTo, Unstopped, Requested
<1>1. CASE BundleOpen
  BY <1>1 DEF BundleOpen, Begun, Up, Down, Planned
<1>2. CASE BundleReceipt
  BY <1>2 DEF BundleReceipt, Begun, Up, Down, Planned
<1>3. CASE BundleDirectory
  BY <1>3 DEF BundleDirectory, Begun, Up, Down, Planned
<1>4. CASE BundleStop
  BY <1>4 DEF BundleStop, Begun, Up, Down, Planned
<1>5. CASE BundleUnlink
  BY <1>5 DEF BundleUnlink, Begun, Up, Down, Planned
<1>6. CASE BundlePlace
  BY <1>6 DEF BundlePlace, Begun, Up, Down, Planned
<1>7. CASE BundleStart
  BY <1>7 DEF BundleStart, Begun, Up, Down, Planned
<1>8. CASE BundleAccept
  BY <1>8 DEF BundleAccept, Begun, Up, Down, Planned
<1>9. CASE BundleRaise
  BY <1>9 DEF BundleRaise, Begun, Up, Down, Planned
<1> QED
  BY <1>1, <1>2, <1>3, <1>4, <1>5, <1>6, <1>7, <1>8, <1>9 DEF BundleStep

\* rollback of a bundle, the call of either rollback, and somebody else.
LEMMA BackControl == ASSUME RuntimeInv, BackStep \/ BackRaise \/ RollbackCalled \/ Meddle PROVE (DropinShape /\ ReceiptInv)'
<1> USE DEF RuntimeInv, RuntimeTypeOK, Receipts, ReceiptInv, PhaseAt, DropinShape, PlannedEarly, DirectoryLate,
            AfterStarted, HaltBound, Recorded, Calling, CallTo, Unstopped, Requested
<1>1. CASE BackStop
  BY <1>1 DEF BackStop, Begun, Up, Down, Planned
<1>2. CASE BackTake
  BY <1>2 DEF BackTake, Begun, Up, Down, Planned
<1>3. CASE BackStart
  BY <1>3 DEF BackStart, Begun, Up, Down, Planned
<1>4. CASE BackClear
  BY <1>4 DEF BackClear, Begun, Up, Down, Planned
<1>5. CASE BackDone
  BY <1>5 DEF BackDone, Begun, Up, Down, Planned
<1>6. CASE BackRaise
  BY <1>6 DEF BackRaise, Begun, Up, Down, Planned
<1>7. CASE RollbackCalled
  BY <1>7 DEF RollbackCalled, Begun, Up, Down, Planned
<1>8. CASE Meddle
  BY <1>8 DEF Meddle, Begun, Up, Down, Planned
<1> QED
  BY <1>1, <1>2, <1>3, <1>4, <1>5, <1>6, <1>7, <1>8 DEF BackStep

-----------------------------------------------------------------------------
LEMMA NextInv == RuntimeInv /\ [RuntimeNext]_runtimevars => RuntimeInv'
<1> SUFFICES ASSUME RuntimeInv, [RuntimeNext]_runtimevars PROVE RuntimeInv'
  OBVIOUS
<1>1. CASE UNCHANGED runtimevars
  BY <1>1 DEF runtimevars, RuntimeInv, RuntimeTypeOK, DropinShape, ReceiptInv, PhaseAt, PlannedEarly,
    DirectoryLate, AfterStarted, HaltBound
<1>2. CASE RuntimeNext
  <2>1. RuntimeTypeOK'
    BY <1>2, NativeTypes, UndoTypes, BundleTypes, BackTypes DEF RuntimeNext, RuntimeInv
  <2>2. (DropinShape /\ ReceiptInv)'
    BY <1>2, NativeControl, UndoControl, BundleControl, BackControl DEF RuntimeNext
  <2> QED
    BY <2>1, <2>2 DEF RuntimeInv
<1> QED
  BY <1>1, <1>2

\* The types of the model, and the invariant of its two transactions.
THEOREM RuntimeInvariant == RuntimeSpec => []RuntimeInv
BY InitInv, NextInv, PTL DEF RuntimeSpec

\* The three parts of RuntimeOwned, at one step.
OwnEffects ==
    meddled' = meddled =>
        /\ "OTHER" \in {dropin.dir, dropin.conf} => dropin' = dropin
        /\ call.pc \in {"TAKE", "CLEAR"} =>
            \A n \in DOMAIN piece : piece[n] = "OTHER" => piece'[n] = "OTHER"
        /\ call.pc \in Undoing /\ Up /\ service' = Down => service = receipt.start

LEMMA DropinsKept ==
    ASSUME RuntimeInv, RuntimeNext, meddled' = meddled, "OTHER" \in {dropin.dir, dropin.conf}
    PROVE  dropin' = dropin
<1> USE DEF RuntimeInv, RuntimeTypeOK, DropinShape
<1>1. CASE NativeOpen \/ NativeStep \/ NativeRaise
  BY <1>1 DEF NativeOpen, NativeStep, NativeRaise, NativeObserve, NativeStop, NativeConfig,
    NativeDirectory, NativeOwnDirectory, NativeIntent, NativeLink, NativeReload, NativeRequest,
    NativeStart, NativeBind, NativeWait, NativeAccept, NativeReturn, Recorded
<1>2. CASE UndoStep \/ UndoRaise
  BY <1>2 DEF UndoStep, UndoRaise, UndoNothing, UndoRequest, UndoStop, UndoLink, UndoDirectory,
    UndoReload, UndoStart, UndoBind, UndoDone, Undoable, Owned, Recorded
<1>3. CASE BundleOpen \/ BundleStep \/ BundleRaise
  BY <1>3 DEF BundleOpen, BundleStep, BundleRaise, BundleReceipt, BundleDirectory, BundleStop,
    BundleUnlink, BundlePlace, BundleStart, BundleAccept, Recorded
<1>4. CASE BackStep \/ BackRaise \/ RollbackCalled \/ Meddle
  BY <1>4 DEF BackStep, BackRaise, RollbackCalled, Meddle, BackStop, BackTake, BackStart, BackClear,
    BackDone, Recorded
<1> QED
  BY <1>1, <1>2, <1>3, <1>4 DEF RuntimeNext

LEMMA PiecesKept ==
    ASSUME RuntimeInv, RuntimeNext, meddled' = meddled, call.pc \in {"TAKE", "CLEAR"},
           NEW n \in DOMAIN piece, piece[n] = "OTHER"
    PROVE  piece'[n] = "OTHER"
<1>1. CASE UNCHANGED piece
  BY <1>1
<1>2. CASE BackTake
  BY <1>2 DEF BackTake, Takable, RuntimeInv, RuntimeTypeOK
<1>3. CASE BackClear
  BY <1>3 DEF BackClear, RuntimeInv, RuntimeTypeOK
<1>4. UNCHANGED piece \/ BackTake \/ BackClear
  <2>1. CASE NativeOpen \/ NativeStep \/ NativeRaise
    BY <2>1 DEF NativeOpen, NativeStep, NativeRaise, NativeObserve, NativeStop, NativeConfig,
      NativeDirectory, NativeOwnDirectory, NativeIntent, NativeLink, NativeReload, NativeRequest,
      NativeStart, NativeBind, NativeWait, NativeAccept, NativeReturn, Recorded
  <2>2. CASE UndoStep \/ UndoRaise
    BY <2>2 DEF UndoStep, UndoRaise, UndoNothing, UndoRequest, UndoStop, UndoLink, UndoDirectory,
      UndoReload, UndoStart, UndoBind, UndoDone, Recorded
  <2>3. CASE BundleOpen \/ BundleStep \/ BundleRaise
    BY <2>3 DEF BundleOpen, BundleStep, BundleRaise, BundleReceipt, BundleDirectory, BundleStop,
      BundleUnlink, BundlePlace, BundleStart, BundleAccept, Recorded, Calling
  <2>4. CASE BackStep \/ BackRaise \/ RollbackCalled \/ Meddle
    BY <2>4 DEF BackStep, BackRaise, RollbackCalled, Meddle, BackStop, BackStart, BackDone, Recorded,
      RuntimeInv, RuntimeTypeOK
  <2> QED
    BY <2>1, <2>2, <2>3, <2>4 DEF RuntimeNext
<1> QED
  BY <1>1, <1>2, <1>3, <1>4

LEMMA OnlyBoundStops ==
    ASSUME RuntimeInv, RuntimeNext, meddled' = meddled, call.pc \in Undoing, Up, service' = Down
    PROVE  service = receipt.start
<1> USE DEF Undoing, Up, Calling
<1>1. CASE NativeOpen \/ NativeStep \/ NativeRaise
  BY <1>1 DEF NativeOpen, NativeStep, NativeRaise, NativeObserve, NativeStop, NativeConfig,
    NativeDirectory, NativeOwnDirectory, NativeIntent, NativeLink, NativeReload, NativeRequest,
    NativeStart, NativeBind, NativeWait, NativeAccept, NativeReturn, Recorded
<1>2. CASE UndoStop
  BY <1>2 DEF UndoStop, Bound, RuntimeInv, ReceiptInv, HaltBound
<1>3. CASE UndoRaise \/ UndoNothing \/ UndoRequest \/ UndoLink \/ UndoDirectory
    \/ UndoReload \/ UndoStart \/ UndoBind \/ UndoDone
  BY <1>3 DEF UndoRaise, UndoNothing, UndoRequest, UndoLink, UndoDirectory, UndoReload, UndoStart,
    UndoBind, UndoDone, Begun, Recorded
<1>4. CASE BundleOpen \/ BundleStep \/ BundleRaise
  BY <1>4 DEF BundleOpen, BundleStep, BundleRaise, BundleReceipt, BundleDirectory, BundleStop,
    BundleUnlink, BundlePlace, BundleStart, BundleAccept, Recorded
<1>5. CASE BackStep \/ BackRaise \/ RollbackCalled
  BY <1>5 DEF BackStep, BackRaise, RollbackCalled, BackStop, BackTake, BackStart, BackClear,
    BackDone, Recorded
<1>6. CASE Meddle
  BY <1>6 DEF Meddle, RuntimeInv, RuntimeTypeOK
<1> QED
  BY <1>1, <1>2, <1>3, <1>4, <1>5, <1>6 DEF RuntimeNext, UndoStep

\* Whatever the bundle, whoever meddles and whenever a call raises: neither
\* rollback of the model runtime removes or restores over what is not its own, and
\* the native one stops only the start its receipt binds.  The bundle's binds no
\* start: it stops whatever runs.
THEOREM RuntimeOwnedCorrect == RuntimeSpec => RuntimeOwned
<1>1. RuntimeInv /\ [RuntimeNext]_runtimevars => [OwnEffects]_runtimevars
  <2> SUFFICES ASSUME RuntimeInv, RuntimeNext PROVE OwnEffects
    OBVIOUS
  <2> QED
    BY DropinsKept, PiecesKept, OnlyBoundStops DEF OwnEffects
<1>2. RuntimeOwned <=> [][OwnEffects]_runtimevars
  BY DEF RuntimeOwned, OwnEffects
<1> QED
  BY <1>1, <1>2, RuntimeInvariant, PTL DEF RuntimeSpec

-----------------------------------------------------------------------------
(***************************************************************************)
(* The attempt of the runner, its handlers and its recoveries take only steps  *)
(* of the file transaction on the Kernel's files, of the input transition on    *)
(* the canonical inputs, and of the runtime's own transaction on the model      *)
(* runtime.  So what is proved of each alone holds under everything the runner  *)
(* does with it.                                                            *)
(***************************************************************************)
\* A step of the runner, as each of its three constituents sees it.
ConstituentSteps ==
    [FilesNext]_filevars /\ [InputsNext]_inputvars /\ [RuntimeNext]_runtimevars

\* Forward.
LEMMA ForwardSteps == Forward => ConstituentSteps
<1> SUFFICES ASSUME Forward PROVE ConstituentSteps
  OBVIOUS
<1> USE DEF ConstituentSteps, hostvars
<1>1. CASE Install \/ InstallFails \/ Access
  BY <1>1 DEF Install, InstallFails, Access, FilesNext
<1>2. CASE Prepare \/ Publish \/ PublishLost
  BY <1>2 DEF Prepare, Publish, PublishLost, InputsNext
<1>3. CASE Mutate \/ MutateFails
  BY <1>3 DEF Mutate, MutateFails, RuntimeNext
<1>4. CASE Quiesce \/ InstallLeft \/ Refresh \/ Start \/ Consumers \/ Mutated \/ Reopen \/ Finalize
  BY <1>4 DEF Quiesce, InstallLeft, Refresh, Start, Consumers, Mutated, Reopen, Finalize
<1> QED
  BY <1>1, <1>2, <1>3, <1>4 DEF Forward

\* Backward: the handlers of run.
LEMMA BackwardSteps == Backward => ConstituentSteps
<1> SUFFICES ASSUME Backward PROVE ConstituentSteps
  OBVIOUS
<1> USE DEF ConstituentSteps, hostvars
<1>1. CASE Revoke \/ Rollback \/ RollbackFails
  BY <1>1 DEF Revoke, Rollback, RollbackFails, FilesNext
<1>2. CASE Revert \/ RevertLost
  BY <1>2 DEF Revert, RevertLost, InputsNext
<1>3. CASE Unmutate
  BY <1>3 DEF Unmutate, RuntimeNext
<1>4. CASE Fail \/ Abort \/ AbortRuntime \/ Unmutated \/ CleanupFails \/ Caught \/ Reread
  BY <1>4 DEF Fail, Abort, AbortRuntime, Unmutated, CleanupFails, Caught, Reread
<1> QED
  BY <1>1, <1>2, <1>3, <1>4 DEF Backward

\* The owner of the predecessor.
LEMMA RecoverySteps == Recoveries => ConstituentSteps
<1> SUFFICES ASSUME Recoveries PROVE ConstituentSteps
  OBVIOUS
<1> USE DEF ConstituentSteps, hostvars
<1>1. CASE RecoverInputs \/ RecoveryLost
  BY <1>1 DEF RecoverInputs, RecoveryLost, InputsNext
<1>2. CASE Recover \/ RestoreInbox \/ InputsRestored \/ Restart \/ Await \/ Recovered
  BY <1>2 DEF Recover, RestoreInbox, InputsRestored, Restart, Await, Recovered
<1> QED
  BY <1>1, <1>2 DEF Recoveries

\* A later process: the undoing of a placed attempt, the retirement.
LEMMA LaterSteps == Later => ConstituentSteps
<1> SUFFICES ASSUME Later PROVE ConstituentSteps
  OBVIOUS
<1> USE DEF ConstituentSteps, hostvars
<1>1. CASE Compensate \/ CompensateFails
  BY <1>1 DEF Compensate, CompensateFails, FilesNext
<1>2. CASE ProcessEnds \/ Retire \/ RetireInputs
  BY <1>2 DEF ProcessEnds, Retire, RetireInputs, InputsNext
<1>3. CASE FailedConstruction \/ StopAttempt \/ Reload \/ StopAll \/ RetireFails
  BY <1>3 DEF FailedConstruction, StopAttempt, Reload, StopAll, RetireFails
<1> QED
  BY <1>1, <1>2, <1>3 DEF Later

LEMMA AttemptSteps == [Next]_vars => ConstituentSteps
<1> SUFFICES ASSUME [Next]_vars PROVE ConstituentSteps
  OBVIOUS
<1> USE DEF ConstituentSteps, hostvars
<1>1. CASE Somebody
  BY <1>1 DEF Somebody, FilesNext, RuntimeNext
<1>2. ASSUME NEW g \in GroupNames, Settle(g) PROVE ConstituentSteps
  BY <1>2 DEF Settle
<1>3. CASE UNCHANGED vars
  BY <1>3 DEF vars
<1> QED
  BY <1>1, <1>2, <1>3, ForwardSteps, BackwardSteps, RecoverySteps, LaterSteps DEF Next

\* Every behaviour of the runner is one of the file transaction, one of the input
\* transition and one of the runtime's transaction: no handler, recovery or
\* retirement of run changes a file, a canonical input or the runtime in a way
\* the three do not allow.
THEOREM AttemptImplements == Spec => FilesSpec /\ InputsSpec /\ RuntimeSpec
<1>1. Init => FilesInit /\ InputsInit /\ RuntimeInit
  BY DEF Init
<1>2. [Next]_vars => [FilesNext]_filevars /\ [InputsNext]_inputvars /\ [RuntimeNext]_runtimevars
  BY AttemptSteps DEF ConstituentSteps
<1> QED
  BY <1>1, <1>2, PTL DEF Spec, FilesSpec, InputsSpec, RuntimeSpec

\* Through a whole attempt, its compensation, its predecessor's recovery and a
\* later process, the predecessor's inode keeps a name.
THEOREM AttemptKeepsPrior == Spec => []PriorSurvives
BY AttemptImplements, PriorSurvivesCorrect, PTL

\* And no file that somebody else put at a target is written over.
THEOREM AttemptKeepsForeign == Spec => ForeignKept
BY AttemptImplements, ForeignKeptCorrect

\* And the runner, whenever it calls either rollback of the runtime, has it remove
\* and restore over only what the runtime's transaction owns, and has the native
\* one stop only the start its receipt binds.
THEOREM AttemptKeepsRuntime == Spec => RuntimeOwned
BY AttemptImplements, RuntimeOwnedCorrect

-----------------------------------------------------------------------------
(***************************************************************************)
(* What a rollback gives back.  The journal records an inode before its name*)
(* changes, so the two lists say, at every step, which targets may differ from*)
(* the predecessor; RollbackInv adds to FilesInv what the two loops of the *)
(* rollback have done so far.                                              *)
(***************************************************************************)
\* What the journal says while a call stands at a step.
JournalAt ==
    /\ In("IDLE") => journal.state = "NONE"
    /\ In("JOURNAL") => journal.state = "UNWRITTEN"
    /\ tx.pc \in {"RETAIN", "STAGE", "INTENT", "PLACE", "ROW", "COMPLETE"} => journal.state = "INSTALLING"
    /\ tx.pc \in {"CHECK", "RETURNED"} => journal.state = "INSTALLED_INACTIVE"
    /\ In("UNDO") => journal.state \in {"UNWRITTEN", "INSTALLING"}
    /\ tx.pc \in {"ACCESS", "BEGIN"} => Readable
    /\ tx.pc \in {"REVERSE", "PROGRESS", "RELEASE", "SEAL"} => journal.state = "ROLLING_BACK"
    /\ In("COMPENSATED") => journal.state = "ROLLBACK_COMPLETE"
    /\ journal.state = "ROLLBACK_COMPLETE" =>
        tx.pc \in {"COMPENSATED", "ACCESS", "BEGIN", "RAISED", "DEAD"}

\* How far its two lists go.
CountsAt ==
    /\ journal.state \in {"NONE", "UNWRITTEN"} \/ tx.pc \in {"RETAIN", "UNDO"} =>
        journal.owned = 0 /\ journal.completed = 0
    /\ tx.pc \in {"STAGE", "INTENT"} => journal.owned = tx.index - 1 /\ journal.completed = tx.index - 1
    /\ tx.pc \in {"PLACE", "ROW"} => journal.owned = tx.index /\ journal.completed = tx.index - 1
    /\ In("COMPLETE") \/ journal.state = "INSTALLED_INACTIVE" =>
        journal.owned = Len(Order) /\ journal.completed = Len(Order)
    /\ journal.state = "INSTALLING" => journal.owned <= journal.completed + 1
    /\ tx.pc \in {"REVERSE", "PROGRESS"} => tx.index <= journal.owned

Mine(n) == Order[n] \notin touched

\* A target is changed only once its inode is recorded.
PlacedInOrder ==
    \A n \in 1..Len(Order) : Mine(n) =>
        /\ file[Order[n]] \in {Before(Order[n]), "OURS"}
        /\ n > journal.owned => file[Order[n]] = Before(Order[n])
        /\ journal.state \in {"INSTALLING", "INSTALLED_INACTIVE"} /\ n <= journal.completed =>
            file[Order[n]] = "OURS"
        /\ In("ROW") /\ n = tx.index => file[Order[n]] = "OURS"

HeldReplaced == \A t \in Targets : held[t] => t \in Replaced

\* What a rollback has reversed.
Back(n) == file[Order[n]] = Before(Order[n]) /\ ~held[Order[n]]
ReversedFrom(m) == \A n \in m..journal.owned : Mine(n) => Back(n)
ReversedSoFar ==
    /\ In("REVERSE") => ReversedFrom(tx.index + 1)
    /\ In("PROGRESS") => ReversedFrom(tx.index)
    /\ In("RELEASE") =>
        /\ ReversedFrom(1)
        /\ \A n \in 1..(tx.index - 1) : Mine(n) => ~held[Order[n]]
    /\ In("SEAL") \/ journal.state = "ROLLBACK_COMPLETE" => \A n \in 1..Len(Order) : Mine(n) => Back(n)

\* And what it has unlinked of the staged inodes.
UnstagedFrom(m) == \A n \in m..journal.owned : ~temp[Order[n]]
UnstagedSoFar ==
    /\ tx.pc \in {"REVERSE", "PROGRESS"} => UnstagedFrom(tx.index + 1)
    /\ tx.pc \in {"RELEASE", "SEAL"} \/ journal.state = "ROLLBACK_COMPLETE" => UnstagedFrom(1)

AccessAt ==
    /\ tx.pc \in {"BEGIN", "REVERSE", "PROGRESS", "RELEASE", "SEAL", "COMPENSATED"} => access = "BEFORE"
    /\ access = "OBSERVER" => journal.state = "INSTALLED_INACTIVE"

\* What somebody else took of the predecessor does not come back.
TouchedGone == \A t \in Replaced \cap touched : file[t] \notin {"PRIOR", "OURS"}

RollbackInv ==
    /\ FilesInv /\ JournalAt /\ CountsAt /\ PlacedInOrder /\ HeldReplaced /\ ReversedSoFar
    /\ UnstagedSoFar /\ AccessAt /\ TouchedGone

LEMMA OrderOf ==
    /\ Len(Order) \in Nat \ {0}
    /\ \A n \in 1..Len(Order) : Order[n] \in Targets /\ Rank(Order[n]) = n
    /\ \A t \in Targets : Rank(t) \in 1..Len(Order) /\ Order[Rank(t)] = t
    /\ \A m, n \in 1..Len(Order) : Order[m] = Order[n] => m = n
BY TargetAssumption DEF Targets, Rank

\* Nothing is placed yet.
LEMMA RollbackInvInit == FilesInit => RollbackInv
<1> SUFFICES ASSUME FilesInit PROVE RollbackInv
  OBVIOUS
<1>1. FilesInv
  BY FilesInvInit
<1>2. In("IDLE") /\ tx.pc = "IDLE" /\ journal = NoJournal /\ access = "BEFORE" /\ touched = {}
      /\ file = [t \in Targets |-> Before(t)] /\ held = [t \in Targets |-> FALSE]
      /\ temp = [t \in Targets |-> FALSE]
  BY DEF FilesInit, In
<1>3. JournalAt /\ CountsAt /\ AccessAt
  BY <1>2 DEF JournalAt, CountsAt, AccessAt, In, NoJournal, Readable
<1>4. PlacedInOrder /\ HeldReplaced /\ TouchedGone
  BY <1>2, OrderOf DEF PlacedInOrder, HeldReplaced, TouchedGone, NoJournal, In
<1>5. ReversedSoFar /\ UnstagedSoFar
  BY <1>2 DEF ReversedSoFar, UnstagedSoFar, NoJournal, In
<1> QED
  BY <1>1, <1>3, <1>4, <1>5 DEF RollbackInv

\* The journal, the lists in it and the ACL, at every step of a call.
LEMMA JournalStep ==
    ASSUME RollbackInv, FilesNext PROVE (JournalAt /\ CountsAt /\ AccessAt)'
<1>1. /\ tx.pc \in {"IDLE", "JOURNAL", "RETURNED", "RAISED", "INTERRUPTED", "COMPENSATED", "DEAD"}
                    \cup Retaining \cup Placing \cup Compensating
      /\ tx.index \in 1..Len(Order) /\ Len(Order) \in Nat \ {0}
      /\ journal \in [state : {"NONE", "UNWRITTEN", "INSTALLING", "INSTALLED_INACTIVE",
                             "ROLLING_BACK", "ROLLBACK_COMPLETE"},
                    owned : 0..Len(Order), completed : 0..Len(Order)]
      /\ access \in {"BEFORE", "OBSERVER"}
      /\ JournalAt /\ CountsAt /\ AccessAt
  BY TargetAssumption DEF RollbackInv, FilesInv, FilesTypeOK
<1> USE <1>1 DEF JournalAt, CountsAt, AccessAt, In, To, Readable
<1>2. CASE \E t \in Targets : Foreign(t)
  BY <1>2 DEF Foreign
<1>3. CASE OpenInstall
  BY <1>3 DEF OpenInstall
<1>4. CASE WriteJournal
  BY <1>4 DEF WriteJournal
<1>5. CASE Retain
  BY <1>5 DEF Retain
<1>6. CASE Stage
  BY <1>6 DEF Stage
<1>7. CASE Intent
  BY <1>7 DEF Intent
<1>8. CASE Place
  BY <1>8 DEF Place
<1>9. CASE Row
  BY <1>9 DEF Row
<1>10. CASE Complete
  BY <1>10 DEF Complete
<1>11. CASE Return
  BY <1>11 DEF Return
<1>12. CASE Undo
  BY <1>12 DEF Undo, NoJournal
<1>13. CASE Raise
  BY <1>13 DEF Raise, Retaining, Placing
<1>14. CASE Interrupt
  BY <1>14 DEF Interrupt, Placing
<1>15. CASE ApplyAccess \/ RevokeAccess
  BY <1>15 DEF ApplyAccess, RevokeAccess, RestoreAccess
<1>16. CASE OpenRollback
  BY <1>16 DEF OpenRollback
<1>17. CASE CompensateAccess
  BY <1>17 DEF CompensateAccess, RestoreAccess
<1>18. CASE Begin
  <2>1. /\ tx' \in [pc : {"REVERSE", "RELEASE"}, index : 1..Len(Order)]
        /\ tx'.pc = "REVERSE" => tx'.index = journal.owned
    BY <1>18 DEF Begin
  <2>2. /\ journal' \in [state : {"ROLLING_BACK"}, owned : {journal.owned}, completed : 0..Len(Order)]
        /\ UNCHANGED access /\ access = "BEFORE"
    BY <1>18 DEF Begin
  <2> QED
    BY <2>1, <2>2
<1>19. CASE Reverse
  BY <1>19 DEF Reverse
<1>20. CASE Progress
  <2>1. /\ tx' \in [pc : {"REVERSE", "RELEASE"}, index : 1..Len(Order)]
        /\ tx'.pc = "REVERSE" => tx'.index = tx.index - 1
    BY <1>20 DEF Progress
  <2>2. /\ journal'.state = journal.state /\ journal'.owned = journal.owned
        /\ UNCHANGED access /\ access = "BEFORE"
    BY <1>20 DEF Progress
  <2> QED
    BY <1>20, <2>1, <2>2 DEF Progress
<1>21. CASE Release
  BY <1>21 DEF Release
<1>22. CASE Seal
  BY <1>22 DEF Seal
<1>23. CASE RaiseAgain
  BY <1>23 DEF RaiseAgain, Compensating
<1>24. CASE KillCall
  BY <1>24 DEF KillCall
<1>25. CASE LaterProcess
  BY <1>25 DEF LaterProcess
<1> QED
  BY <1>2, <1>3, <1>4, <1>5, <1>6, <1>7, <1>8, <1>9, <1>10, <1>11, <1>12, <1>13, <1>14, <1>15, <1>16, <1>17, <1>18, <1>19, <1>20, <1>21, <1>22, <1>23, <1>24, <1>25 DEF FilesNext, InstallStep, RollbackStep

\* The history only grows, by somebody else's hand.
LEMMA TouchedGrows ==
    ASSUME FilesNext
    PROVE  \/ UNCHANGED touched
           \/ \E t \in Targets : Foreign(t)
BY DEF FilesNext, InstallStep, RollbackStep, OpenInstall, WriteJournal, Retain, Stage, Intent, Place,
   Row, Complete, Return, Undo, Raise, Interrupt, ApplyAccess, RevokeAccess, RestoreAccess, OpenRollback,
   CompensateAccess, Begin, Reverse, Progress, Release, Seal, RaiseAgain, KillCall, LaterProcess

\* Only these steps change a target's name, a held link or a staged one.
LEMMA OnlyNames ==
    ASSUME FilesNext
    PROVE  /\ UNCHANGED file \/ Place \/ Reverse \/ \E t \in Targets : Foreign(t)
           /\ UNCHANGED held \/ Retain \/ Undo \/ Reverse \/ Release
           /\ UNCHANGED temp \/ Stage \/ Place \/ Row \/ Raise \/ Interrupt \/ Progress
BY DEF FilesNext, InstallStep, RollbackStep, OpenInstall, WriteJournal, Retain, Stage, Intent, Place,
   Row, Complete, Return, Undo, Raise, Interrupt, ApplyAccess, RevokeAccess, RestoreAccess, OpenRollback,
   CompensateAccess, Begin, Reverse, Progress, Release, Seal, RaiseAgain, KillCall, LaterProcess, Foreign

TxTypes ==
    /\ tx.pc \in {"IDLE", "JOURNAL", "RETURNED", "RAISED", "INTERRUPTED", "COMPENSATED", "DEAD"}
                    \cup Retaining \cup Placing \cup Compensating
    /\ tx.index \in 1..Len(Order) /\ Len(Order) \in Nat \ {0}
    /\ journal \in [state : {"NONE", "UNWRITTEN", "INSTALLING", "INSTALLED_INACTIVE",
                             "ROLLING_BACK", "ROLLBACK_COMPLETE"},
                    owned : 0..Len(Order), completed : 0..Len(Order)]
LEMMA TxTyped == ASSUME RollbackInv PROVE TxTypes /\ JournalAt /\ CountsAt /\ AccessAt
BY TargetAssumption DEF RollbackInv, FilesInv, FilesTypeOK, TxTypes

\* What the step at n of the list makes of the target at n.
PlacedAt(n) ==
        /\ file[Order[n]] \in {Before(Order[n]), "OURS"}
        /\ n > journal.owned => file[Order[n]] = Before(Order[n])
        /\ journal.state \in {"INSTALLING", "INSTALLED_INACTIVE"} /\ n <= journal.completed =>
            file[Order[n]] = "OURS"
        /\ In("ROW") /\ n = tx.index => file[Order[n]] = "OURS"

\* Each name, at every step that may change it.
LEMMA PlacedStep == ASSUME RollbackInv, FilesNext PROVE PlacedInOrder'
<1> SUFFICES ASSUME NEW n \in 1..Len(Order), Mine(n)' PROVE PlacedAt(n)'
  BY DEF PlacedInOrder, PlacedAt
<1>1. TxTypes /\ JournalAt /\ CountsAt /\ Order[n] \in Targets /\ file \in [Targets -> {"NONE", "PRIOR", "OURS", "FOREIGN"}]
      /\ This = Order[tx.index] /\ This \in Targets /\ (This = Order[n] => n = tx.index)
  BY TxTyped, OrderOf DEF RollbackInv, FilesInv, FilesTypeOK, This, TxTypes
<1>2. Mine(n) /\ PlacedAt(n)
  <2>1. Mine(n)
    BY TouchedGrows DEF Mine, Foreign
  <2> QED
    BY <2>1 DEF RollbackInv, PlacedInOrder, PlacedAt
<1>3. CASE UNCHANGED file
  <2> USE <1>1, <1>2, <1>3 DEF PlacedAt, TxTypes, JournalAt, CountsAt, In, To, Readable
  <2>1. CASE \E t \in Targets : Foreign(t)
    BY <2>1 DEF Foreign
  <2>2. CASE OpenInstall
    BY <2>2 DEF OpenInstall
  <2>3. CASE WriteJournal
    BY <2>3 DEF WriteJournal
  <2>4. CASE Retain \/ Stage \/ Return
    BY <2>4 DEF Retain, Stage, Return
  <2>5. CASE Intent
    BY <2>5 DEF Intent
  <2>6. CASE Row
    BY <2>6 DEF Row
  <2>7. CASE Complete
    BY <2>7 DEF Complete
  <2>8. CASE Undo
    BY <2>8 DEF Undo, NoJournal
  <2>9. CASE Raise \/ Interrupt \/ ApplyAccess \/ RevokeAccess \/ OpenRollback \/ CompensateAccess
             \/ RaiseAgain \/ KillCall \/ LaterProcess \/ Release
    BY <2>9 DEF Raise, Interrupt, ApplyAccess, RevokeAccess, RestoreAccess, OpenRollback, CompensateAccess,
       RaiseAgain, KillCall, LaterProcess, Release
  <2>10. CASE Begin
    <3>1. journal'.state = "ROLLING_BACK" /\ journal'.owned = journal.owned /\ tx'.pc # "ROW"
      BY <2>10 DEF Begin
    <3> QED
      BY <3>1
  <2>11. CASE Progress
    <3>1. journal'.state = "ROLLING_BACK" /\ journal'.owned = journal.owned /\ tx'.pc # "ROW"
      BY <2>11 DEF Progress
    <3> QED
      BY <3>1
  <2>12. CASE Seal
    BY <2>12 DEF Seal
  <2>13. ASSUME Place \/ Reverse PROVE PlacedAt(n)'
    <3>1. CASE Place
      <4>1. file' = [file EXCEPT ![This] = "OURS"] /\ tx' = [pc |-> "ROW", index |-> tx.index] /\ UNCHANGED journal
        BY <3>1 DEF Place
      <4>2. n = tx.index => file[Order[n]] = "OURS"
        BY <4>1
      <4> QED
        BY <4>1, <4>2
    <3>2. CASE Reverse
      BY <3>2 DEF Reverse
    <3> QED
      BY <2>13, <3>1, <3>2
  <2> QED
    BY <2>1, <2>2, <2>3, <2>4, <2>5, <2>6, <2>7, <2>8, <2>9, <2>10, <2>11, <2>12, <2>13 DEF FilesNext, InstallStep, RollbackStep
<1>4. CASE Place
  <2>1. /\ tx.pc = "PLACE" /\ tx' = [pc |-> "ROW", index |-> tx.index] /\ UNCHANGED journal
        /\ file' = [file EXCEPT ![This] = "OURS"]
    BY <1>4 DEF Place, In, To
  <2>2. journal.owned = tx.index /\ journal.completed = tx.index - 1
    BY <1>1, <2>1 DEF CountsAt
  <2>3. file'[Order[n]] = IF n = tx.index THEN "OURS" ELSE file[Order[n]]
    BY <1>1, <2>1
  <2> QED
    BY <1>1, <1>2, <2>1, <2>2, <2>3 DEF PlacedAt, TxTypes, In
<1>5. CASE Reverse
  <2>1. /\ tx' = [pc |-> "PROGRESS", index |-> tx.index] /\ UNCHANGED journal /\ journal.state = "ROLLING_BACK"
    BY <1>1, <1>5 DEF Reverse, In, To, JournalAt
  <2>2. file'[Order[n]] \in {file[Order[n]], Before(Order[n])}
    BY <1>1, <1>5 DEF Reverse, Before
  <2> QED
    BY <1>2, <2>1, <2>2 DEF PlacedAt, In
<1>6. ASSUME NEW t \in Targets, Foreign(t) PROVE PlacedAt(n)'
  <2>1. t # Order[n] /\ UNCHANGED <<journal, tx>>
    BY <1>6 DEF Foreign, Mine
  <2>2. file'[Order[n]] = file[Order[n]]
    BY <1>1, <1>6, <2>1 DEF Foreign
  <2> QED
    BY <1>2, <2>1, <2>2 DEF PlacedAt, In
<1> QED
  BY <1>3, <1>4, <1>5, <1>6, OnlyNames

\* Only a replaced target has its predecessor held.
LEMMA HeldStep == ASSUME RollbackInv, FilesNext PROVE HeldReplaced'
<1> SUFFICES ASSUME NEW t \in Targets, held'[t] PROVE t \in Replaced
  BY DEF HeldReplaced
<1>1. HeldReplaced /\ held \in [Targets -> BOOLEAN] /\ This \in Targets
  BY ThisTarget DEF RollbackInv, FilesInv, FilesTypeOK
<1>2. CASE Retain
  BY <1>1, <1>2 DEF Retain, HeldReplaced
<1>3. CASE Undo \/ Release
  BY <1>1, <1>3 DEF Undo, Release, HeldReplaced
<1>4. CASE Reverse
  BY <1>1, <1>4 DEF Reverse, HeldReplaced
<1>5. CASE UNCHANGED held
  BY <1>1, <1>5 DEF HeldReplaced
<1> QED
  BY <1>2, <1>3, <1>4, <1>5, OnlyNames

LEMMA TouchedStep == ASSUME RollbackInv, FilesNext PROVE TouchedGone'
<1> SUFFICES ASSUME NEW t \in Replaced, t \in touched' PROVE file'[t] \notin {"PRIOR", "OURS"}
  BY DEF TouchedGone
<1>1. /\ t \in touched => file[t] \notin {"PRIOR", "OURS"}
      /\ t \in Targets /\ This \in Targets /\ file \in [Targets -> {"NONE", "PRIOR", "OURS", "FOREIGN"}]
  BY ThisTarget, TargetAssumption DEF RollbackInv, TouchedGone, FilesInv, FilesTypeOK
<1>2. ASSUME NEW u \in Targets, Foreign(u) PROVE file'[t] \notin {"PRIOR", "OURS"}
  BY <1>1, <1>2 DEF Foreign
<1>3. CASE Place
  <2>1. file[t] \in {"PRIOR", "OURS"}
    BY <1>3 DEF Place, Unchanged
  <2> QED
    BY <1>1, <1>3, <2>1 DEF Place
<1>4. CASE Reverse
  BY <1>1, <1>4, TouchedGrows DEF Reverse, Foreign
<1>5. CASE UNCHANGED <<file, touched>>
  BY <1>1, <1>5
<1>6. UNCHANGED touched \/ \E u \in Targets : Foreign(u)
  BY TouchedGrows
<1> QED
  BY <1>2, <1>3, <1>4, <1>5, <1>6, OnlyNames

\* What a rollback has made of the target at n.
ReversedAt(n) ==
    /\ In("REVERSE") /\ tx.index < n /\ n <= journal.owned => Back(n)
    /\ In("PROGRESS") /\ tx.index <= n /\ n <= journal.owned => Back(n)
    /\ In("RELEASE") => (n <= journal.owned => Back(n)) /\ (n < tx.index => ~held[Order[n]])
    /\ In("SEAL") \/ journal.state = "ROLLBACK_COMPLETE" => Back(n)

LEMMA ReversedEach ==
    ASSUME TxTypes
    PROVE  ReversedSoFar <=> \A n \in 1..Len(Order) : Mine(n) => ReversedAt(n)
BY DEF ReversedSoFar, ReversedFrom, ReversedAt, TxTypes, In

\* Where a rollback begins.
LEMMA BeginTo ==
    ASSUME Begin, journal.owned \in Nat
    PROVE  \/ tx'.pc = "REVERSE" /\ tx'.index = journal.owned
           \/ tx'.pc = "RELEASE" /\ tx'.index = 1 /\ journal.owned = 0
<1>1. CASE journal.owned > 0
  BY <1>1 DEF Begin, To
<1>2. CASE ~(journal.owned > 0)
  <2>1. To("RELEASE", 1)
    BY <1>2 DEF Begin
  <2>2. journal.owned = 0
    BY <1>2
  <2> QED
    BY <2>1, <2>2 DEF To
<1> QED
  BY <1>1, <1>2

LEMMA ReversedStep == ASSUME RollbackInv, FilesNext, TxTypes' PROVE ReversedSoFar'
<1> SUFFICES ASSUME NEW n \in 1..Len(Order), Mine(n)' PROVE ReversedAt(n)'
  BY DEF ReversedSoFar, ReversedFrom, ReversedAt, TxTypes, In
<1>1. /\ TxTypes /\ JournalAt /\ Order[n] \in Targets /\ This = Order[tx.index] /\ This \in Targets
      /\ (This = Order[n] <=> n = tx.index)
      /\ file \in [Targets -> {"NONE", "PRIOR", "OURS", "FOREIGN"}] /\ held \in [Targets -> BOOLEAN]
  BY TxTyped, OrderOf DEF RollbackInv, FilesInv, FilesTypeOK, This, TxTypes
<1>0. journal.owned \in Nat /\ tx.index \in Nat /\ n \in Nat /\ Len(Order) \in Nat /\ n <= Len(Order)
      /\ tx.index <= Len(Order) /\ tx.index >= 1 /\ n >= 1
  BY <1>1 DEF TxTypes
<1>2. Mine(n) /\ PlacedAt(n) /\ ReversedAt(n) /\ (held[Order[n]] => Order[n] \in Replaced)
  <2>1. Mine(n)
    BY TouchedGrows DEF Mine, Foreign
  <2> QED
    BY <1>1, <2>1, ReversedEach DEF RollbackInv, PlacedInOrder, PlacedAt, HeldReplaced
<1>3. CASE UNCHANGED <<file, held>>
  <2> USE <1>1, <1>2, <1>3 DEF ReversedAt, TxTypes, JournalAt, In, To, Readable
  <2>0. Back(n)' <=> Back(n)
    BY DEF Back
  <2>1. CASE (\E t \in Targets : Foreign(t)) \/ ApplyAccess \/ RevokeAccess
    BY <2>0, <2>1 DEF Foreign, ApplyAccess, RevokeAccess, RestoreAccess
  <2>2. CASE OpenInstall \/ WriteJournal \/ Stage \/ Intent \/ Row \/ Complete \/ Return
    <3>1. tx'.pc \notin {"REVERSE", "PROGRESS", "RELEASE", "SEAL"} /\ journal'.state # "ROLLBACK_COMPLETE"
      BY <2>2 DEF OpenInstall, WriteJournal, Stage, Intent, Row, Complete, Return
    <3> QED
      BY <3>1
  <2>3. CASE Retain \/ Place
    BY <2>3 DEF Retain, Place
  <2>4. CASE Undo
    BY <2>4 DEF Undo, NoJournal
  <2>5. CASE Raise \/ Interrupt
    BY <2>0, <2>5 DEF Raise, Interrupt
  <2>6. CASE OpenRollback \/ CompensateAccess \/ RaiseAgain \/ KillCall \/ LaterProcess
    BY <2>0, <2>6 DEF OpenRollback, CompensateAccess, RestoreAccess, RaiseAgain, KillCall, LaterProcess
  <2>7. CASE Begin
    <3>1. /\ journal'.state = "ROLLING_BACK" /\ journal'.owned = journal.owned
      BY <2>7 DEF Begin
    <3>2. \/ tx'.pc = "REVERSE" /\ tx'.index = journal.owned
          \/ tx'.pc = "RELEASE" /\ tx'.index = 1 /\ journal.owned = 0
      BY <1>0, <2>7, BeginTo
    <3> QED
      BY <1>0, <2>0, <3>1, <3>2
  <2>8. CASE Progress
    <3>1. /\ journal'.state = "ROLLING_BACK" /\ journal'.owned = journal.owned
          /\ IF tx.index > 1 THEN tx' = [pc |-> "REVERSE", index |-> tx.index - 1]
             ELSE tx' = [pc |-> "RELEASE", index |-> 1]
      BY <2>8 DEF Progress
    <3>2. \/ tx'.pc = "REVERSE" /\ tx'.index = tx.index - 1
          \/ tx'.pc = "RELEASE" /\ tx'.index = 1 /\ tx.index = 1
      BY <3>1
    <3>3. tx.index <= n /\ n <= journal.owned => Back(n)
      BY <2>8 DEF Progress
    <3> QED
      BY <2>0, <3>1, <3>2, <3>3
  <2>9. CASE Seal
    BY <2>0, <2>9 DEF Seal
  <2>10. CASE Reverse \/ Release
    BY <2>10, <2>0 DEF Reverse, Release, PlacedAt, Back
  <2> QED
    BY <2>1, <2>2, <2>3, <2>4, <2>5, <2>6, <2>7, <2>8, <2>9, <2>10 DEF FilesNext, InstallStep, RollbackStep
<1>4. CASE Place \/ Retain \/ Undo
  <2>1. /\ journal.state \in {"UNWRITTEN", "INSTALLING"} /\ journal'.state # "ROLLBACK_COMPLETE"
        /\ tx'.pc \notin {"REVERSE", "PROGRESS", "RELEASE", "SEAL"}
    BY <1>1, <1>4 DEF Place, Retain, Undo, NoJournal, In, To, JournalAt, TxTypes
  <2> QED
    BY <2>1 DEF ReversedAt, In
<1>5. CASE Reverse
  <2>1. /\ tx.pc = "REVERSE" /\ tx'.pc = "PROGRESS" /\ tx'.index = tx.index /\ UNCHANGED journal
        /\ journal.state = "ROLLING_BACK"
    BY <1>1, <1>5 DEF Reverse, In, To, JournalAt
  <2>2. n = tx.index => Back(n)'
    BY <1>1, <1>2, <1>5 DEF Reverse, Back, PlacedAt, Before
  <2>3. n # tx.index /\ Back(n) => Back(n)'
    BY <1>1, <1>5 DEF Reverse, Back
  <2> QED
    BY <1>1, <1>2, <2>1, <2>2, <2>3 DEF ReversedAt, In, TxTypes
<1>6. CASE Release
  <2>1. /\ tx.pc = "RELEASE" /\ UNCHANGED <<journal, file>> /\ journal.state = "ROLLING_BACK"
        /\ (held'[Order[n]] => held[Order[n]] /\ n # tx.index)
        /\ \/ tx'.pc = "RELEASE" /\ tx'.index = tx.index + 1
           \/ tx'.pc = "SEAL" /\ tx.index = Len(Order)
    <3>1. tx.pc = "RELEASE" /\ UNCHANGED <<journal, file>> /\ held' = [held EXCEPT ![This] = FALSE]
      BY <1>6 DEF Release, In
    <3>2. journal.state = "ROLLING_BACK"
      BY <1>1, <3>1 DEF JournalAt
    <3>3. held'[Order[n]] => held[Order[n]] /\ n # tx.index
      BY <1>1, <3>1
    <3>4. \/ tx'.pc = "RELEASE" /\ tx'.index = tx.index + 1
          \/ tx'.pc = "SEAL" /\ ~(tx.index < Len(Order))
      BY <1>6 DEF Release, To
    <3> QED
      BY <1>0, <3>1, <3>2, <3>3, <3>4
  <2>2. Back(n) => Back(n)'
    BY <2>1 DEF Back
  <2>3. n <= tx.index => ~held'[Order[n]]
    <3>1. n < tx.index => ~held[Order[n]]
      BY <1>2, <2>1 DEF ReversedAt, In
    <3> QED
      BY <1>0, <2>1, <3>1
  <2>4. n > journal.owned => file'[Order[n]] = Before(Order[n])
    BY <1>2, <2>1 DEF PlacedAt
  <2> QED
    BY <1>0, <1>2, <2>1, <2>2, <2>3, <2>4 DEF ReversedAt, Back, In
<1>7. ASSUME NEW t \in Targets, Foreign(t) PROVE ReversedAt(n)'
  <2>1. t # Order[n] /\ UNCHANGED <<journal, tx, held>> /\ file'[Order[n]] = file[Order[n]]
    BY <1>1, <1>7 DEF Foreign, Mine
  <2> QED
    BY <1>2, <2>1 DEF ReversedAt, Back, In
<1> QED
  BY <1>3, <1>4, <1>5, <1>6, <1>7, OnlyNames

\* What is still staged at n.
UnstagedAt(n) ==
    /\ tx.pc \in {"REVERSE", "PROGRESS"} /\ tx.index < n /\ n <= journal.owned => ~temp[Order[n]]
    /\ (tx.pc \in {"RELEASE", "SEAL"} \/ journal.state = "ROLLBACK_COMPLETE") /\ n <= journal.owned =>
        ~temp[Order[n]]

LEMMA UnstagedEach ==
    ASSUME TxTypes
    PROVE  UnstagedSoFar <=> \A n \in 1..Len(Order) : UnstagedAt(n)
BY DEF UnstagedSoFar, UnstagedFrom, UnstagedAt, TxTypes

LEMMA UnstagedStep == ASSUME RollbackInv, FilesNext, TxTypes' PROVE UnstagedSoFar'
<1> SUFFICES ASSUME NEW n \in 1..Len(Order) PROVE UnstagedAt(n)'
  BY DEF UnstagedSoFar, UnstagedFrom, UnstagedAt, TxTypes
<1>1. /\ TxTypes /\ JournalAt /\ Order[n] \in Targets /\ This = Order[tx.index] /\ This \in Targets
      /\ (This = Order[n] <=> n = tx.index) /\ temp \in [Targets -> BOOLEAN] /\ UnstagedAt(n)
  BY TxTyped, OrderOf, UnstagedEach DEF RollbackInv, FilesInv, FilesTypeOK, This, TxTypes
<1>0. journal.owned \in Nat /\ tx.index \in Nat /\ n \in Nat /\ tx.index >= 1 /\ n >= 1
  BY <1>1 DEF TxTypes
<1> USE <1>0, <1>1 DEF UnstagedAt, TxTypes, JournalAt, In, To, Readable
<1>2. CASE \E t \in Targets : Foreign(t)
  BY <1>2 DEF Foreign
<1>3. CASE InstallStep
  <2>1. tx'.pc \notin {"REVERSE", "PROGRESS", "RELEASE", "SEAL"} /\ journal'.state # "ROLLBACK_COMPLETE"
    BY <1>3 DEF InstallStep, OpenInstall, WriteJournal, Retain, Stage, Intent, Place, Row, Complete, Return
  <2> QED
    BY <2>1
<1>4. CASE Undo
  BY <1>4 DEF Undo, NoJournal
<1>5. CASE Raise \/ Interrupt
  BY <1>5 DEF Raise, Interrupt, Retaining, Placing
<1>6. CASE ApplyAccess \/ RevokeAccess \/ OpenRollback \/ CompensateAccess \/ RaiseAgain \/ KillCall \/ LaterProcess
  BY <1>6 DEF ApplyAccess, RevokeAccess, RestoreAccess, OpenRollback, CompensateAccess, RaiseAgain, KillCall, LaterProcess
<1>7. CASE Begin
  <2>1. journal'.state = "ROLLING_BACK" /\ journal'.owned = journal.owned /\ UNCHANGED temp
    BY <1>7 DEF Begin
  <2>2. \/ tx'.pc = "REVERSE" /\ tx'.index = journal.owned
        \/ tx'.pc = "RELEASE" /\ journal.owned = 0
    BY <1>7, <1>0, BeginTo
  <2> QED
    BY <2>1, <2>2
<1>8. CASE Reverse
  BY <1>8 DEF Reverse
<1>9. CASE Progress
  <2>1. journal'.state = "ROLLING_BACK" /\ journal'.owned = journal.owned
        /\ (temp'[Order[n]] => temp[Order[n]] /\ n # tx.index)
    BY <1>9 DEF Progress
  <2>2. \/ tx'.pc = "REVERSE" /\ tx'.index = tx.index - 1
        \/ tx'.pc = "RELEASE" /\ tx.index = 1
    BY <1>9 DEF Progress
  <2>3. tx.index < n /\ n <= journal.owned => ~temp[Order[n]]
    BY <1>9 DEF Progress
  <2> QED
    BY <2>1, <2>2, <2>3
<1>10. CASE Release \/ Seal
  BY <1>10 DEF Release, Seal
<1> QED
  BY <1>2, <1>3, <1>4, <1>5, <1>6, <1>7, <1>8, <1>9, <1>10 DEF FilesNext, RollbackStep

\* Together.
LEMMA RollbackInvStep == RollbackInv /\ [FilesNext]_filevars => RollbackInv'
<1> SUFFICES ASSUME RollbackInv, [FilesNext]_filevars PROVE RollbackInv'
  OBVIOUS
<1>1. FilesInv'
  BY FilesInvStep DEF RollbackInv
<1>2. TxTypes'
  BY <1>1, TargetAssumption DEF FilesInv, FilesTypeOK, TxTypes
<1>3. CASE FilesNext
  BY <1>1, <1>2, <1>3, JournalStep, PlacedStep, HeldStep, ReversedStep, UnstagedStep, TouchedStep DEF RollbackInv
<1>4. CASE UNCHANGED filevars
  <2>1. UNCHANGED <<file, temp, held, journal, access, tx, touched>>
    BY <1>4 DEF filevars
  <2>2. (JournalAt /\ CountsAt /\ AccessAt /\ HeldReplaced /\ TouchedGone /\ UnstagedSoFar)'
    BY <2>1 DEF RollbackInv, JournalAt, CountsAt, AccessAt, HeldReplaced, TouchedGone, UnstagedSoFar,
       UnstagedFrom, In, Readable
  <2>3. (PlacedInOrder /\ ReversedSoFar)'
    BY <2>1 DEF RollbackInv, PlacedInOrder, ReversedSoFar, ReversedFrom, Back, Mine, In
  <2> QED
    BY <1>1, <2>2, <2>3 DEF RollbackInv
<1> QED
  BY <1>3, <1>4

LEMMA RollbackInvRestores == RollbackInv => RollbackRestores
<1> SUFFICES ASSUME RollbackInv, journal.state = "ROLLBACK_COMPLETE"
             PROVE  /\ \A t \in Targets \ touched : file[t] = Before(t) /\ ~held[t]
                    /\ \A t \in Targets : temp[t] => Rank(t) > journal.owned
                    /\ In("COMPENSATED") => access = "BEFORE"
  BY DEF RollbackRestores
<1>1. ReversedSoFar /\ UnstagedSoFar /\ AccessAt /\ TxTypes
  BY TxTyped DEF RollbackInv
<1>2. ASSUME NEW t \in Targets \ touched PROVE file[t] = Before(t) /\ ~held[t]
  <2>1. Rank(t) \in 1..Len(Order) /\ Order[Rank(t)] = t
    BY OrderOf
  <2> QED
    BY <1>1, <2>1 DEF ReversedSoFar, Mine, Back
<1>3. ASSUME NEW t \in Targets, temp[t] PROVE Rank(t) > journal.owned
  <2>1. Rank(t) \in 1..Len(Order) /\ Order[Rank(t)] = t
    BY OrderOf
  <2> QED
    BY <1>1, <1>3, <2>1 DEF UnstagedSoFar, UnstagedFrom, TxTypes
<1> QED
  BY <1>1, <1>2, <1>3 DEF AccessAt, In

\* A sealed rollback is true of the host: ROLLBACK_COMPLETE is written by
\* rollback_kernel_first_install only over targets that are all back, with no
\* held or staged inode left, whatever failed or was interrupted before.
THEOREM RollbackAlwaysRestores == FilesSpec => []RollbackRestores
<1>1. FilesInit => RollbackInv
  BY RollbackInvInit
<1>2. RollbackInv /\ [FilesNext]_filevars => RollbackInv'
  BY RollbackInvStep
<1>3. RollbackInv => RollbackRestores
  BY RollbackInvRestores
<1> QED
  BY <1>1, <1>2, <1>3, PTL DEF FilesSpec

-----------------------------------------------------------------------------
(***************************************************************************)
(* The canonical inputs.  The owner stands at one pair at a time; before its*)
(* index the pairs are done, after it they are not begun.  A later process, which*)
(* has no index, finds each pair in one of five layouts and no other.      *)
(***************************************************************************)
Parted == [q \in Places |-> CASE q = "old" -> "OLD" [] q = "stage" -> "NEW" [] OTHER -> "NONE"]
Vacated == [q \in Places |-> CASE q = "old" -> "OLD" [] q = "candidate" -> "NEW" [] OTHER -> "NONE"]
Whole == {Staged, Parted, Published, Vacated, Restored}
OwnerSteps ==
    {"NONE", "PREPARED", "STAGING", "INTENT", "STATE", "ASIDE", "INTO", "PHASE", "PUBLISHED", "OUT", "BACK",
     "BACK_PHASE", "RESTORED", "KEPT", "UNCERTAIN", "ENDED", "FOUND", "NEW_AWAY", "OLD_HOME", "RESTORED_ROW"}
Pairs(order, done, half, todo) ==
    \A m \in 1..3 : place[order[m]] =
        IF m < owner.index THEN done ELSE IF m = owner.index THEN half ELSE todo
Every(layout) == \A k \in Kinds : place[k] = layout

OwnerTypes == owner \in [pc : OwnerSteps, index : 1..3, phase : Phases \cup {"NONE"}, restored : BOOLEAN]
NamesKept ==
    /\ record # "SELECTOR" => ~intent /\ Every(Captured)
    /\ intent => \A k \in Kinds : place[k] \in Whole
    /\ ~intent => \A k \in Kinds : place[k] \in {Captured, Staged}
OwnerIntent ==
    /\ owner.pc \in {"NONE", "PREPARED"} => record # "SELECTOR"
    /\ owner.pc \in {"STAGING", "INTENT", "FOUND", "KEPT"} => ~intent
    /\ owner.pc \in {"STAGING", "INTENT"} => record = "SELECTOR"
    /\ owner.pc \in {"FOUND", "KEPT"} => record # "NONE"
    /\ owner.pc \in {"STATE", "ASIDE", "INTO", "PHASE", "PUBLISHED", "OUT", "BACK", "BACK_PHASE", "RESTORED",
                     "NEW_AWAY", "OLD_HOME", "RESTORED_ROW"} => intent
OwnerPlaces ==
    /\ OwnerIn("STAGING") => \A m \in 1..(owner.index - 1) : place[PublishOrder[m]] = Staged
    /\ owner.pc \in {"INTENT", "STATE"} => Every(Staged)
    /\ OwnerIn("ASIDE") => Pairs(PublishOrder, Published, Staged, Staged)
    /\ OwnerIn("INTO") => Pairs(PublishOrder, Published, Parted, Staged)
    /\ OwnerIn("PHASE") => Pairs(PublishOrder, Published, Published, Staged)
    /\ OwnerIn("PUBLISHED") => Every(Published)
    /\ OwnerIn("OUT") => Pairs(RestoreOrder, Restored, Published, Published)
    /\ OwnerIn("BACK") => Pairs(RestoreOrder, Restored, Vacated, Published)
    /\ OwnerIn("BACK_PHASE") => Pairs(RestoreOrder, Restored, Restored, Published)
    /\ owner.pc \in {"RESTORED", "RESTORED_ROW"} => Every(Restored)
    /\ owner.pc \in {"NEW_AWAY", "OLD_HOME"} =>
        \A m \in 1..(owner.index - 1) : place[RestoreOrder[m]] = Restored
    /\ OwnerIn("OLD_HOME") => place[RestoreOrder[owner.index]] \in {Vacated, Restored}
InputsInv == InputsTypeOK /\ OwnerTypes /\ NamesKept /\ OwnerIntent /\ OwnerPlaces

Names == {"NONE", "OLD", "NEW"}

\* What each layout has at each place.
LEMMA LayoutValues ==
    /\ {Captured, Staged, Parted, Published, Vacated, Restored} \subseteq [Places -> Names]
    /\ Captured["canonical"] = "OLD" /\ Captured["old"] = "NONE" /\ Captured["stage"] = "NONE" /\ Captured["candidate"] = "NONE"
    /\ Staged["canonical"] = "OLD" /\ Staged["old"] = "NONE" /\ Staged["stage"] = "NEW" /\ Staged["candidate"] = "NONE"
    /\ Parted["canonical"] = "NONE" /\ Parted["old"] = "OLD" /\ Parted["stage"] = "NEW" /\ Parted["candidate"] = "NONE"
    /\ Published["canonical"] = "NEW" /\ Published["old"] = "OLD" /\ Published["stage"] = "NONE" /\ Published["candidate"] = "NONE"
    /\ Vacated["canonical"] = "NONE" /\ Vacated["old"] = "OLD" /\ Vacated["stage"] = "NONE" /\ Vacated["candidate"] = "NEW"
    /\ Restored["canonical"] = "OLD" /\ Restored["old"] = "NONE" /\ Restored["stage"] = "NONE" /\ Restored["candidate"] = "NEW"
BY DEF Captured, Staged, Parted, Published, Vacated, Restored, Places, Names

Renamed(f, from, to) == [f EXCEPT ![to] = f[from], ![from] = "NONE"]

\* What the renames of a transition make of a layout.
LEMMA Renames ==
    /\ Renamed(Staged, "canonical", "old") = Parted
    /\ Renamed(Parted, "stage", "canonical") = Published
    /\ Renamed(Published, "canonical", "candidate") = Vacated
    /\ Renamed(Vacated, "old", "canonical") = Restored
    /\ Renamed(Staged, "stage", "candidate") = Restored
    /\ Renamed(Parted, "stage", "candidate") = Vacated
<1> USE DEF Renamed, Places, Captured, Staged, Parted, Published, Vacated, Restored
<1>a. Renamed(Staged, "canonical", "old") = Parted
  OBVIOUS
<1>b. Renamed(Parted, "stage", "canonical") = Published
  OBVIOUS
<1>c. Renamed(Published, "canonical", "candidate") = Vacated
  OBVIOUS
<1>d. Renamed(Vacated, "old", "canonical") = Restored
  OBVIOUS
<1>e. Renamed(Staged, "stage", "candidate") = Restored
  OBVIOUS
<1>f. Renamed(Parted, "stage", "candidate") = Vacated
  OBVIOUS
<1> QED
  BY <1>a, <1>b, <1>c, <1>d, <1>e, <1>f

\* A rename changes one input.
LEMMA MovedOne ==
    ASSUME place \in [Kinds -> [Places -> Names]], NEW k \in Kinds, NEW from \in Places, NEW to \in Places
    PROVE  Moved(k, from, to) = [place EXCEPT ![k] = Renamed(place[k], from, to)]
BY DEF Moved, Renamed

\* In a whole layout both objects have exactly one name.
LEMMA WholeLocated ==
    ASSUME NEW k \in Kinds, place[k] \in Whole
    PROVE  /\ Located(k)
           /\ place[k] \in {Staged, Parted} => Where(k, "NEW") = "stage"
           /\ place[k] = Published => Where(k, "NEW") = "canonical"
           /\ place[k] = Vacated => Where(k, "OLD") = "old"
<1> DEFINE At1(which) == {q \in Places : place[k][q] = which}
<1>1. At1("OLD") = {"canonical"} \/ At1("OLD") = {"old"}
  BY LayoutValues DEF Whole, Places
<1>2. At1("NEW") = {"stage"} \/ At1("NEW") = {"canonical"} \/ At1("NEW") = {"candidate"}
  BY LayoutValues DEF Whole, Places
<1>3. Cardinality(At1("OLD")) = 1 /\ Cardinality(At1("NEW")) = 1
  BY <1>1, <1>2, FS_Singleton
<1>4. \A which : Where(k, which) = CHOOSE q \in Places : place[k][q] = which
  BY DEF Where
<1>5. place[k] \in {Staged, Parted} => Where(k, "NEW") = "stage"
  BY LayoutValues, <1>4 DEF Places
<1>6. place[k] = Published => Where(k, "NEW") = "canonical"
  BY LayoutValues, <1>4 DEF Places
<1>7. place[k] = Vacated => Where(k, "OLD") = "old"
  BY LayoutValues, <1>4 DEF Places
<1> QED
  BY <1>3, <1>5, <1>6, <1>7 DEF Located

LEMMA OrderFacts ==
    /\ \A n \in 1..3 : PublishOrder[n] \in Kinds /\ RestoreOrder[n] \in Kinds
    /\ \A m, n \in 1..3 : (PublishOrder[m] = PublishOrder[n] => m = n) /\ (RestoreOrder[m] = RestoreOrder[n] => m = n)
    /\ \A k \in Kinds : (\E n \in 1..3 : PublishOrder[n] = k) /\ (\E n \in 1..3 : RestoreOrder[n] = k)
    /\ \A n \in 1..3 : PublishPhase[n] \in Phases /\ RestorePhase[n] \in Phases
BY DEF PublishOrder, RestoreOrder, Kinds, PublishPhase, RestorePhase, Phases

Layouts == {Captured} \cup Whole

LEMMA LayoutTyped == Layouts \subseteq [Places -> Names] /\ Captured \notin Whole
BY LayoutValues DEF Layouts, Whole

LEMMA InputsInvInit == InputsInit => InputsInv
<1> SUFFICES ASSUME InputsInit PROVE InputsInv
  OBVIOUS
<1>1. InputsTypeOK
  BY LayoutValues DEF InputsInit, InputsTypeOK, Names
<1>3. OwnerTypes
  BY DEF InputsInit, OwnerTypes, NoOwner, OwnerSteps
<1>2. NamesKept /\ OwnerIntent /\ OwnerPlaces
  BY DEF InputsInit, NamesKept, OwnerIntent, OwnerPlaces, NoOwner, Every, OwnerIn
<1> QED
  BY <1>1, <1>2, <1>3 DEF InputsInv

\* The owner goes to a step.
LEMMA OwnerGoes ==
    ASSUME OwnerTypes, NEW pc \in OwnerSteps, NEW n \in 1..3, OwnerTo(pc, n)
    PROVE  OwnerTypes' /\ owner'.pc = pc /\ owner'.index = n /\ owner'.phase = owner.phase
           /\ owner'.restored = owner.restored
BY DEF OwnerTypes, OwnerTo

\* Every input is in one of the layouts.
LEMMA InLayout == ASSUME InputsInv, NEW k \in Kinds PROVE place[k] \in Layouts
BY DEF InputsInv, NamesKept, Layouts, Whole

LEMMA PlaceTyped ==
    ASSUME place' \in [Kinds -> Layouts]
    PROVE  place' \in [Kinds -> [Places -> {"NONE", "OLD", "NEW"}]]
BY LayoutTyped DEF Names

\* Preparing.
LEMMA PrepareStep ==
    ASSUME InputsInv, PrepareInputs \/ RecordPreparation \/ StageInput \/ WriteIntent \/ WriteState
    PROVE  InputsInv'
<1> USE DEF OwnerIn, OwnerTo, InputsInv, InputsTypeOK, OwnerTypes, NamesKept, OwnerIntent, OwnerPlaces
<1>1. CASE PrepareInputs
  <2>1. owner' = [pc |-> "PREPARED", index |-> 1, phase |-> "NONE", restored |-> FALSE]
    BY <1>1 DEF PrepareInputs, NoOwner
  <2>2. OwnerTypes' /\ owner'.pc = "PREPARED"
    BY <2>1 DEF OwnerSteps
  <2>3. record = "NONE" /\ record' = "EXTERNAL" /\ UNCHANGED <<place, intent, phase, retained>>
    BY <1>1 DEF PrepareInputs
  <2> QED
    BY <2>2, <2>3 DEF Every
<1>2. CASE RecordPreparation
  <2>1. owner' \in [pc : {"STAGING"}, index : {1}, phase : Phases \cup {"NONE"}, restored : BOOLEAN]
    BY <1>2 DEF RecordPreparation, OwnerSteps
  <2>2. Every(Captured) /\ ~intent /\ record' = "SELECTOR" /\ UNCHANGED <<place, intent, phase, retained>>
    BY <1>2 DEF RecordPreparation
  <2> QED
    BY <2>1, <2>2 DEF OwnerSteps, Every
<1>3. CASE StageInput
  <2> DEFINE n == owner.index
             k == PublishOrder[n]
  <2>1. n \in 1..3 /\ k \in Kinds /\ ~intent /\ record = "SELECTOR"
    BY <1>3, OrderFacts DEF StageInput
  <2>2. place' = [place EXCEPT ![k] = Staged] /\ UNCHANGED <<record, intent, phase, retained>>
    BY <1>3 DEF StageInput
  <2>3. place' \in [Kinds -> {Captured, Staged}]
    BY <2>1, <2>2
  <2>4. InputsTypeOK'
    BY <2>2, <2>3, PlaceTyped DEF Layouts, Whole
  <2>5. \A m \in 1..n : place'[PublishOrder[m]] = Staged
    BY <2>1, <2>2, OrderFacts, <1>3 DEF StageInput
  <2>6. CASE n < 3
    <3>1. OwnerTo("STAGING", n + 1) /\ n + 1 \in 1..3 /\ "STAGING" \in OwnerSteps
      BY <1>3, <2>1, <2>6 DEF StageInput, OwnerSteps
    <3>2. owner'.pc = "STAGING" /\ owner'.index = n + 1 /\ OwnerTypes'
      BY <3>1, OwnerGoes
    <3> QED
      BY <2>1, <2>2, <2>3, <2>4, <2>5, <3>2
  <2>7. CASE ~(n < 3)
    <3>1. OwnerTo("INTENT", 1) /\ 1 \in 1..3 /\ "INTENT" \in OwnerSteps
      BY <1>3, <2>7 DEF StageInput, OwnerSteps
    <3>2. owner'.pc = "INTENT" /\ OwnerTypes'
      BY <3>1, OwnerGoes
    <3>3. \A q \in Kinds : place'[q] = Staged
      BY <2>1, <2>5, <2>7, OrderFacts
    <3> QED
      BY <2>1, <2>2, <2>3, <2>4, <3>2, <3>3 DEF Every
  <2> QED
    BY <2>6, <2>7
<1>4. CASE WriteIntent
  <2>1. owner' \in [pc : {"STATE"}, index : 1..3, phase : Phases \cup {"NONE"}, restored : BOOLEAN]
    BY <1>4 DEF WriteIntent, Phases
  <2>2. Every(Staged) /\ intent' = TRUE /\ record = "SELECTOR" /\ UNCHANGED <<place, record, phase, retained>>
    BY <1>4 DEF WriteIntent
  <2> QED
    BY <2>1, <2>2 DEF OwnerSteps, Every, Whole
<1>5. CASE WriteState
  <2>1. owner' \in [pc : {"ASIDE"}, index : {1}, phase : Phases \cup {"NONE"}, restored : BOOLEAN]
    BY <1>5 DEF WriteState
  <2>2. Every(Staged) /\ phase' \in Phases /\ UNCHANGED <<place, record, intent, retained>>
    BY <1>5 DEF WriteState, Phases
  <2>3. Pairs(PublishOrder, Published, Staged, Staged)'
    BY <2>1, <2>2, OrderFacts DEF Pairs, Every
  <2> QED
    BY <2>1, <2>2, <2>3, <1>5 DEF OwnerSteps, WriteState
<1> QED
  BY <1>1, <1>2, <1>3, <1>4, <1>5

\* A pair of an order in progress: the input at the owner's place is renamed.
LEMMA PairsMoved ==
    ASSUME InputsInv, intent, NEW order \in {PublishOrder, RestoreOrder},
           NEW done, NEW half, NEW todo, Pairs(order, done, half, todo),
           NEW next \in Whole, place' = [place EXCEPT ![order[owner.index]] = next]
    PROVE  /\ place' \in [Kinds -> Whole]
           /\ \A m \in 1..3 : place'[order[m]] =
                IF m < owner.index THEN done ELSE IF m = owner.index THEN next ELSE todo
<1>1. owner.index \in 1..3 /\ order[owner.index] \in Kinds /\ place \in [Kinds -> Whole]
  BY OrderFacts DEF InputsInv, OwnerTypes, InputsTypeOK, NamesKept
<1> QED
  BY <1>1, OrderFacts DEF Pairs

\* Publishing: one pair of renames per input.
LEMMA PublishStep ==
    ASSUME InputsInv, PublishAside \/ PublishInto \/ PublishPhaseRow
    PROVE  InputsInv'
<1> USE DEF OwnerIn, OwnerTo
<1>1. owner \in [pc : OwnerSteps, index : 1..3, phase : Phases \cup {"NONE"}, restored : BOOLEAN]
      /\ intent /\ record = "SELECTOR" /\ place \in [Kinds -> Whole] /\ InputsTypeOK
  BY DEF PublishAside, PublishInto, PublishPhaseRow, InputsInv, OwnerTypes, OwnerIntent, InputsTypeOK,
     NamesKept
<1>2. PublishOrder[owner.index] \in Kinds /\ place \in [Kinds -> [Places -> Names]]
  BY <1>1, OrderFacts, LayoutTyped DEF Layouts
<1>3. ASSUME place' \in [Kinds -> Whole], UNCHANGED <<record, intent>>, phase' \in Phases \cup {"NONE"},
             UNCHANGED retained
      PROVE  InputsTypeOK' /\ NamesKept'
  BY <1>1, <1>3, PlaceTyped DEF InputsTypeOK, NamesKept, Layouts
<1>4. CASE PublishAside
  <2>1. Pairs(PublishOrder, Published, Staged, Staged) /\ UNCHANGED <<record, intent, phase, retained>>
    BY <1>4 DEF PublishAside, InputsInv, OwnerPlaces
  <2>2. place[PublishOrder[owner.index]] = Staged
    BY <1>1, <2>1 DEF Pairs
  <2>3. place' = [place EXCEPT ![PublishOrder[owner.index]] = Parted]
    BY <1>2, <1>4, <2>2, MovedOne, Renames DEF PublishAside, Places
  <2>4. place' \in [Kinds -> Whole] /\ \A m \in 1..3 : place'[PublishOrder[m]] =
          IF m < owner.index THEN Published ELSE IF m = owner.index THEN Parted ELSE Staged
    BY <1>1, <2>1, <2>3, PairsMoved DEF Whole
  <2>5. OwnerTypes' /\ owner'.pc = "INTO" /\ owner'.index = owner.index
    BY <1>1, <1>4 DEF PublishAside, OwnerTypes, OwnerSteps
  <2>6. InputsTypeOK' /\ NamesKept'
    BY <1>1, <1>3, <2>1, <2>4 DEF InputsTypeOK
  <2> QED
    BY <1>1, <2>1, <2>4, <2>5, <2>6 DEF InputsInv, OwnerIntent, OwnerPlaces, Pairs
<1>5. CASE PublishInto
  <2>1. Pairs(PublishOrder, Published, Parted, Staged) /\ UNCHANGED <<record, intent, phase, retained>>
    BY <1>5 DEF PublishInto, InputsInv, OwnerPlaces
  <2>2. place[PublishOrder[owner.index]] = Parted
    BY <1>1, <2>1 DEF Pairs
  <2>3. place' = [place EXCEPT ![PublishOrder[owner.index]] = Published]
    BY <1>2, <1>5, <2>2, MovedOne, Renames DEF PublishInto, Places
  <2>4. place' \in [Kinds -> Whole] /\ \A m \in 1..3 : place'[PublishOrder[m]] =
          IF m < owner.index THEN Published ELSE IF m = owner.index THEN Published ELSE Staged
    BY <1>1, <2>1, <2>3, PairsMoved DEF Whole
  <2>5. OwnerTypes' /\ owner'.pc = "PHASE" /\ owner'.index = owner.index
    BY <1>1, <1>5, OrderFacts DEF PublishInto, OwnerTypes, OwnerSteps
  <2>6. InputsTypeOK' /\ NamesKept'
    BY <1>1, <1>3, <2>1, <2>4 DEF InputsTypeOK
  <2> QED
    BY <1>1, <2>1, <2>4, <2>5, <2>6 DEF InputsInv, OwnerIntent, OwnerPlaces, Pairs
<1>6. CASE PublishPhaseRow
  <2>1. Pairs(PublishOrder, Published, Published, Staged) /\ UNCHANGED <<place, record, intent, retained>>
    BY <1>6 DEF PublishPhaseRow, InputsInv, OwnerPlaces
  <2>2. InputsTypeOK' /\ NamesKept'
    BY <1>1, <1>3, <1>6, <2>1 DEF PublishPhaseRow
  <2>3. CASE owner.index < 3
    <3>0. OwnerTo("ASIDE", owner.index + 1) /\ owner.index + 1 \in 1..3 /\ "ASIDE" \in OwnerSteps
      BY <1>1, <1>6, <2>3 DEF PublishPhaseRow, OwnerSteps
    <3>1. OwnerTypes' /\ owner'.pc = "ASIDE" /\ owner'.index = owner.index + 1
      BY <1>1, <3>0, OwnerGoes DEF OwnerTypes
    <3>2. Pairs(PublishOrder, Published, Staged, Staged)'
      BY <1>1, <2>1, <3>1 DEF Pairs
    <3> QED
      BY <1>1, <2>1, <2>2, <3>1, <3>2 DEF InputsInv, OwnerIntent, OwnerPlaces
  <2>4. CASE ~(owner.index < 3)
    <3>0. OwnerTo("PUBLISHED", 1) /\ 1 \in 1..3 /\ "PUBLISHED" \in OwnerSteps
      BY <1>6, <2>4 DEF PublishPhaseRow, OwnerSteps
    <3>1. OwnerTypes' /\ owner'.pc = "PUBLISHED"
      BY <1>1, <3>0, OwnerGoes DEF OwnerTypes
    <3>2. Every(Published)'
      BY <1>1, <2>1, <2>4, OrderFacts DEF Pairs, Every
    <3> QED
      BY <1>1, <2>1, <2>2, <3>1, <3>2 DEF InputsInv, OwnerIntent, OwnerPlaces
  <2> QED
    BY <2>3, <2>4
<1> QED
  BY <1>4, <1>5, <1>6

\* Restoring, by the owner that published.
LEMMA RestoreStep ==
    ASSUME InputsInv, RestoreNothing \/ RetainPreparation \/ OpenRestore \/ RestoreOut \/ RestoreBack
           \/ RestorePhaseRow
    PROVE  InputsInv'
<1> USE DEF OwnerIn
<1>1. owner \in [pc : OwnerSteps, index : 1..3, phase : Phases \cup {"NONE"}, restored : BOOLEAN]
      /\ OwnerTypes /\ InputsTypeOK /\ place \in [Kinds -> [Places -> Names]]
      /\ RestoreOrder[owner.index] \in Kinds
  BY OrderFacts DEF InputsInv, OwnerTypes, InputsTypeOK, Names
<1>2. ASSUME place' \in [Kinds -> Whole], UNCHANGED <<record, intent>>, phase' \in Phases \cup {"NONE"},
             UNCHANGED retained, intent, record = "SELECTOR"
      PROVE  InputsTypeOK' /\ NamesKept'
  BY <1>1, <1>2, PlaceTyped DEF InputsTypeOK, NamesKept, Layouts
<1>3. CASE RestoreNothing
  <2>1. owner' \in [pc : {"PREPARED"}, index : 1..3, phase : Phases \cup {"NONE"}, restored : BOOLEAN]
    BY <1>1, <1>3 DEF RestoreNothing
  <2>2. UNCHANGED <<place, record, intent, phase, retained>> /\ record # "SELECTOR"
    BY <1>3 DEF RestoreNothing, InputsInv, OwnerIntent
  <2> QED
    BY <1>1, <2>1, <2>2 DEF InputsInv, InputsTypeOK, OwnerTypes, OwnerSteps, NamesKept, OwnerIntent, OwnerPlaces,
       Every
<1>4. CASE RetainPreparation
  <2>1. owner' \in [pc : {"KEPT"}, index : 1..3, phase : Phases \cup {"NONE"}, restored : BOOLEAN]
    BY <1>1, <1>4 DEF RetainPreparation
  <2>2. UNCHANGED <<place, record, intent, phase>> /\ record # "NONE" /\ ~intent /\ retained' \in BOOLEAN
    BY <1>4 DEF RetainPreparation
  <2> QED
    BY <1>1, <2>1, <2>2 DEF InputsInv, InputsTypeOK, OwnerTypes, OwnerSteps, NamesKept, OwnerIntent, OwnerPlaces,
       Every
<1>5. CASE OpenRestore
  <2>1. OwnerTypes' /\ owner'.pc = "OUT" /\ owner'.index = 1
    BY <1>1, <1>5, OwnerGoes DEF OpenRestore, OwnerSteps
  <2>2. UNCHANGED <<place, record, intent, phase, retained>> /\ record = "SELECTOR" /\ intent /\ Every(Published)
    BY <1>5 DEF OpenRestore, InputsInv, OwnerIntent, OwnerPlaces, NamesKept
  <2>3. Pairs(RestoreOrder, Restored, Published, Published)'
    BY <2>1, <2>2, OrderFacts DEF Every, Pairs
  <2> QED
    BY <1>1, <2>1, <2>2, <2>3 DEF InputsInv, InputsTypeOK, NamesKept, OwnerIntent, OwnerPlaces, Every
<1>6. ASSUME RestoreOut \/ RestoreBack \/ RestorePhaseRow
      PROVE  intent /\ record = "SELECTOR" /\ place \in [Kinds -> Whole]
  BY <1>1, <1>6 DEF RestoreOut, RestoreBack, RestorePhaseRow, InputsInv, OwnerIntent, NamesKept
<1>7. CASE RestoreOut
  <2>1. Pairs(RestoreOrder, Restored, Published, Published) /\ UNCHANGED <<record, intent, phase, retained>>
    BY <1>7 DEF RestoreOut, InputsInv, OwnerPlaces
  <2>2. place[RestoreOrder[owner.index]] = Published
    BY <1>1, <2>1 DEF Pairs
  <2>3. place' = [place EXCEPT ![RestoreOrder[owner.index]] = Vacated]
    <3>1. place' = Moved(RestoreOrder[owner.index], "canonical", "candidate")
      BY <1>7 DEF RestoreOut
    <3>2. "canonical" \in Places /\ "candidate" \in Places
      BY DEF Places
    <3>3. place' = [place EXCEPT ![RestoreOrder[owner.index]] =
                      Renamed(place[RestoreOrder[owner.index]], "canonical", "candidate")]
      BY <1>1, <3>1, <3>2, MovedOne
    <3> QED
      BY <2>2, <3>3, Renames
  <2>4. place' \in [Kinds -> Whole] /\ \A m \in 1..3 : place'[RestoreOrder[m]] =
          IF m < owner.index THEN Restored ELSE IF m = owner.index THEN Vacated ELSE Published
    BY <1>6, <1>7, <2>1, <2>3, PairsMoved DEF Whole
  <2>5. OwnerTypes' /\ owner'.pc = "BACK" /\ owner'.index = owner.index
    BY <1>1, <1>7, OwnerGoes DEF RestoreOut, OwnerSteps
  <2>6. InputsTypeOK' /\ NamesKept'
    BY <1>1, <1>2, <1>6, <1>7, <2>1, <2>4 DEF InputsTypeOK
  <2> QED
    BY <1>6, <1>7, <2>1, <2>4, <2>5, <2>6 DEF InputsInv, OwnerIntent, OwnerPlaces, Pairs
<1>8. CASE RestoreBack
  <2>1. Pairs(RestoreOrder, Restored, Vacated, Published) /\ UNCHANGED <<record, intent, phase, retained>>
    BY <1>8 DEF RestoreBack, InputsInv, OwnerPlaces
  <2>2. place[RestoreOrder[owner.index]] = Vacated
    BY <1>1, <2>1 DEF Pairs
  <2>3. place' = [place EXCEPT ![RestoreOrder[owner.index]] = Restored]
    <3>1. place' = Moved(RestoreOrder[owner.index], "old", "canonical")
      BY <1>8 DEF RestoreBack
    <3>2. "old" \in Places /\ "canonical" \in Places
      BY DEF Places
    <3>3. place' = [place EXCEPT ![RestoreOrder[owner.index]] =
                      Renamed(place[RestoreOrder[owner.index]], "old", "canonical")]
      BY <1>1, <3>1, <3>2, MovedOne
    <3> QED
      BY <2>2, <3>3, Renames
  <2>4. place' \in [Kinds -> Whole] /\ \A m \in 1..3 : place'[RestoreOrder[m]] =
          IF m < owner.index THEN Restored ELSE IF m = owner.index THEN Restored ELSE Published
    BY <1>6, <1>8, <2>1, <2>3, PairsMoved DEF Whole
  <2>5. OwnerTypes' /\ owner'.pc = "BACK_PHASE" /\ owner'.index = owner.index
    BY <1>1, <1>8, OrderFacts DEF RestoreBack, OwnerTypes, OwnerSteps
  <2>6. InputsTypeOK' /\ NamesKept'
    BY <1>1, <1>2, <1>6, <1>8, <2>1, <2>4 DEF InputsTypeOK
  <2> QED
    BY <1>6, <1>8, <2>1, <2>4, <2>5, <2>6 DEF InputsInv, OwnerIntent, OwnerPlaces, Pairs
<1>9. CASE RestorePhaseRow
  <2>1. Pairs(RestoreOrder, Restored, Restored, Published) /\ UNCHANGED <<place, record, intent, retained>>
    BY <1>9 DEF RestorePhaseRow, InputsInv, OwnerPlaces
  <2>2. InputsTypeOK' /\ NamesKept'
    BY <1>1, <1>2, <1>6, <1>9, <2>1 DEF RestorePhaseRow
  <2>3. CASE owner.index < 3
    <3>0. OwnerTo("OUT", owner.index + 1) /\ owner.index + 1 \in 1..3 /\ "OUT" \in OwnerSteps
      BY <1>1, <1>9, <2>3 DEF RestorePhaseRow, OwnerSteps
    <3>1. OwnerTypes' /\ owner'.pc = "OUT" /\ owner'.index = owner.index + 1
      BY <1>1, <3>0, OwnerGoes
    <3>2. Pairs(RestoreOrder, Restored, Published, Published)'
      BY <1>1, <2>1, <3>1 DEF Pairs
    <3> QED
      BY <1>6, <1>9, <2>1, <2>2, <3>1, <3>2 DEF InputsInv, OwnerIntent, OwnerPlaces
  <2>4. CASE ~(owner.index < 3)
    <3>1. owner' \in [pc : {"RESTORED"}, index : 1..3, phase : Phases \cup {"NONE"}, restored : BOOLEAN]
      BY <1>1, <1>9, <2>4 DEF RestorePhaseRow
    <3>2. Every(Restored)'
      BY <1>1, <2>1, <2>4, OrderFacts DEF Pairs, Every
    <3>3. OwnerTypes' /\ owner'.pc = "RESTORED"
      BY <3>1 DEF OwnerTypes, OwnerSteps
    <3> QED
      BY <1>6, <1>9, <2>1, <2>2, <3>2, <3>3 DEF InputsInv, OwnerIntent, OwnerPlaces
  <2> QED
    BY <2>3, <2>4
<1> QED
  BY <1>3, <1>4, <1>5, <1>7, <1>8, <1>9

\* Restoring, by a later owner: from whatever layout it finds.
LEMMA FoundStep ==
    ASSUME InputsInv, NewAway \/ OldHome \/ RestoredRow
    PROVE  InputsInv'
<1> USE DEF OwnerIn
<1> DEFINE n == owner.index
           k == RestoreOrder[n]
<1>1. owner \in [pc : OwnerSteps, index : 1..3, phase : Phases \cup {"NONE"}, restored : BOOLEAN]
      /\ OwnerTypes /\ InputsTypeOK /\ place \in [Kinds -> [Places -> Names]] /\ k \in Kinds /\ n \in 1..3
  BY OrderFacts DEF InputsInv, OwnerTypes, InputsTypeOK, Names
<1>2. intent /\ record = "SELECTOR" /\ place \in [Kinds -> Whole]
  BY <1>1 DEF NewAway, OldHome, RestoredRow, InputsInv, OwnerIntent, NamesKept
<1>3. ASSUME place' \in [Kinds -> Whole], UNCHANGED <<record, intent>>, phase' \in Phases \cup {"NONE"},
             UNCHANGED retained
      PROVE  InputsTypeOK' /\ NamesKept'
  BY <1>1, <1>2, <1>3, PlaceTyped DEF InputsTypeOK, NamesKept, Layouts
<1>4. place[k] \in Whole
  BY <1>1, <1>2
<1>5. CASE NewAway
  <2>1. /\ \A m \in 1..(n - 1) : place[RestoreOrder[m]] = Restored
        /\ UNCHANGED <<record, intent, phase, retained>>
    BY <1>5 DEF NewAway, InputsInv, OwnerPlaces
  <2>2. PICK next \in {Vacated, Restored} : place' = [place EXCEPT ![k] = next]
    <3>1. CASE place[k]["candidate"] = "NEW"
      <4>1. place[k] \in {Vacated, Restored}
        BY <1>4, <3>1, LayoutValues DEF Whole
      <4>2. place' = place
        BY <1>5, <3>1 DEF NewAway
      <4> QED
        BY <1>1, <4>1, <4>2
    <3>2. CASE place[k]["candidate"] # "NEW"
      <4>1. place' = Moved(k, Where(k, "NEW"), "candidate")
        BY <1>5, <3>2 DEF NewAway
      <4>2. place[k] \in {Staged, Parted, Published}
        BY <1>4, <3>2, LayoutValues DEF Whole
      <4>3. Where(k, "NEW") = IF place[k] = Published THEN "canonical" ELSE "stage"
        BY <1>1, <1>4, <4>2, WholeLocated, LayoutValues
      <4>4. place' = [place EXCEPT ![k] = Renamed(place[k], Where(k, "NEW"), "candidate")]
        BY <1>1, <4>1, <4>3, MovedOne DEF Places
      <4>5. Renamed(place[k], Where(k, "NEW"), "candidate") \in {Vacated, Restored}
        BY <4>2, <4>3, Renames, LayoutValues
      <4> QED
        BY <4>4, <4>5
    <3> QED
      BY <3>1, <3>2
  <2>3. place' \in [Kinds -> Whole] /\ place'[k] \in {Vacated, Restored}
        /\ \A m \in 1..(n - 1) : place'[RestoreOrder[m]] = Restored
    BY <1>1, <1>2, <2>1, <2>2, OrderFacts DEF Whole
  <2>4. OwnerTypes' /\ owner'.pc = "OLD_HOME" /\ owner'.index = n
    BY <1>1, <1>5, OwnerGoes DEF NewAway, OwnerSteps
  <2>5. InputsTypeOK' /\ NamesKept'
    BY <1>1, <1>3, <2>1, <2>3 DEF InputsTypeOK
  <2> QED
    BY <1>2, <2>1, <2>3, <2>4, <2>5 DEF InputsInv, OwnerIntent, OwnerPlaces
<1>6. CASE OldHome
  <2>1. /\ \A m \in 1..(n - 1) : place[RestoreOrder[m]] = Restored
        /\ place[k] \in {Vacated, Restored}
        /\ UNCHANGED <<record, intent, phase, retained>>
    BY <1>6 DEF OldHome, InputsInv, OwnerPlaces
  <2>2. place' = [place EXCEPT ![k] = Restored]
    <3>1. CASE place[k] = Restored
      <4>1. place' = place
        BY <1>6, <3>1, LayoutValues DEF OldHome
      <4> QED
        BY <1>1, <3>1, <4>1
    <3>2. CASE place[k] = Vacated
      <4>1. place' = Moved(k, "old", "canonical")
        BY <1>1, <1>4, <1>6, <3>2, LayoutValues, WholeLocated DEF OldHome
      <4>2. "old" \in Places /\ "canonical" \in Places
        BY DEF Places
      <4>3. place' = [place EXCEPT ![k] = Renamed(place[k], "old", "canonical")]
        BY <1>1, <4>1, <4>2, MovedOne
      <4> QED
        BY <3>2, <4>3, Renames
    <3> QED
      BY <2>1, <3>1, <3>2
  <2>3. place' \in [Kinds -> Whole] /\ \A m \in 1..n : place'[RestoreOrder[m]] = Restored
    BY <1>1, <1>2, <2>1, <2>2, OrderFacts DEF Whole
  <2>4. InputsTypeOK' /\ NamesKept'
    BY <1>1, <1>3, <2>1, <2>3 DEF InputsTypeOK
  <2>5. CASE n < 3
    <3>1. OwnerTo("NEW_AWAY", n + 1) /\ n + 1 \in 1..3 /\ "NEW_AWAY" \in OwnerSteps
      BY <1>1, <1>6, <2>5 DEF OldHome, OwnerSteps
    <3>2. OwnerTypes' /\ owner'.pc = "NEW_AWAY" /\ owner'.index = n + 1
      BY <1>1, <3>1, OwnerGoes
    <3> QED
      BY <1>1, <1>2, <2>1, <2>3, <2>4, <3>2 DEF InputsInv, OwnerIntent, OwnerPlaces
  <2>6. CASE ~(n < 3)
    <3>1. OwnerTo("RESTORED_ROW", 1) /\ 1 \in 1..3 /\ "RESTORED_ROW" \in OwnerSteps
      BY <1>6, <2>6 DEF OldHome, OwnerSteps
    <3>2. OwnerTypes' /\ owner'.pc = "RESTORED_ROW"
      BY <1>1, <3>1, OwnerGoes
    <3>3. Every(Restored)'
      BY <1>1, <2>3, <2>6, OrderFacts DEF Every
    <3> QED
      BY <1>2, <2>1, <2>4, <3>2, <3>3 DEF InputsInv, OwnerIntent, OwnerPlaces
  <2> QED
    BY <2>5, <2>6
<1>7. CASE RestoredRow
  <2>1. Every(Restored) /\ phase' = "RESTORED" /\ UNCHANGED <<place, record, intent, retained>>
    BY <1>7 DEF RestoredRow, InputsInv, OwnerPlaces
  <2>2. "RESTORED" \in Phases
    BY OrderFacts DEF RestorePhase
  <2>3. owner' \in [pc : {"RESTORED"}, index : 1..3, phase : Phases \cup {"NONE"}, restored : BOOLEAN]
    BY <1>1, <1>7, <2>2 DEF RestoredRow
  <2>4. OwnerTypes' /\ owner'.pc = "RESTORED"
    BY <2>3 DEF OwnerTypes, OwnerSteps
  <2>5. InputsTypeOK' /\ NamesKept'
    BY <1>1, <1>2, <1>3, <2>1, <2>2
  <2> QED
    BY <1>2, <2>1, <2>4, <2>5 DEF InputsInv, OwnerIntent, OwnerPlaces, Every
<1> QED
  BY <1>5, <1>6, <1>7

\* Owners that go, and a later one that finds what is on disk.
LEMMA OwnerStep ==
    ASSUME InputsInv, LoseInputs \/ EndOwner \/ (OwnerIn("ENDED") /\ Resume)
    PROVE  InputsInv'
<1>1. OwnerTypes /\ InputsTypeOK
  BY DEF InputsInv
<1>2. CASE LoseInputs
  <2>1. OwnerTypes' /\ owner'.pc = "UNCERTAIN"
    BY <1>1, <1>2, OwnerGoes DEF LoseInputs, OwnerSteps
  <2>2. UNCHANGED <<place, record, intent, phase, retained>>
    BY <1>2 DEF LoseInputs
  <2> QED
    BY <2>1, <2>2 DEF InputsInv, InputsTypeOK, NamesKept, OwnerIntent, OwnerPlaces, OwnerIn, Every
<1>3. CASE EndOwner
  <2>1. OwnerTypes' /\ owner'.pc = "ENDED"
    BY <1>1, <1>3, OwnerGoes DEF EndOwner, OwnerSteps
  <2>2. UNCHANGED <<place, record, intent, phase, retained>>
    BY <1>3 DEF EndOwner
  <2> QED
    BY <2>1, <2>2 DEF InputsInv, InputsTypeOK, NamesKept, OwnerIntent, OwnerPlaces, OwnerIn, Every
<1>4. CASE Resume
  <2>1. UNCHANGED <<place, record, intent, phase, retained>> /\ record # "NONE"
    BY <1>4 DEF Resume
  <2>2. owner' = [pc |-> IF intent THEN "NEW_AWAY" ELSE "FOUND", index |-> 1, phase |-> phase, restored |-> FALSE]
    BY <1>4 DEF Resume, NoOwner
  <2>3. OwnerTypes' /\ owner'.pc = (IF intent THEN "NEW_AWAY" ELSE "FOUND") /\ owner'.index = 1
    BY <1>1, <2>2 DEF OwnerTypes, OwnerSteps, InputsTypeOK
  <2> QED
    BY <2>1, <2>3 DEF InputsInv, InputsTypeOK, NamesKept, OwnerIntent, OwnerPlaces, OwnerIn, Every
<1> QED
  BY <1>2, <1>3, <1>4

\* Together, one step of any owner keeps every pair where its index says.
LEMMA InputsInvStep == InputsInv /\ [InputsNext]_inputvars => InputsInv'
<1> SUFFICES ASSUME InputsInv, [InputsNext]_inputvars PROVE InputsInv'
  OBVIOUS
<1>1. CASE UNCHANGED inputvars
  BY <1>1 DEF inputvars, InputsInv, InputsTypeOK, OwnerTypes, NamesKept, OwnerIntent, OwnerPlaces, OwnerIn, Every,
     Pairs
<1> QED
  BY <1>1, PrepareStep, PublishStep, RestoreStep, FoundStep, OwnerStep DEF InputsNext, PublishInputs, RestoreInputs,
     RestoreFound

LEMMA InputsInvImplies == InputsInv => InputsRecoverable
BY WholeLocated DEF InputsInv, NamesKept, InputsRecoverable

\* Whatever rename of kernel_successor_inputs fails, is lost or is the last one
\* of its process, every later process finds each pair in a layout from which
\* both its objects can be told apart and the old one named again.
THEOREM InputsAlwaysRecoverable == InputsSpec => []InputsRecoverable
BY InputsInvInit, InputsInvStep, InputsInvImplies, PTL DEF InputsSpec

-----------------------------------------------------------------------------
(***************************************************************************)
(* What the runtime keeps until its process is stopped.                    *)
(***************************************************************************)
Quiet ==
    /\ receipt.phase \in {"NONE", "OPEN"} => loaded = "BEFORE" /\ service.env \in {"NONE", "BEFORE"}
    /\ call.pc \in {"HALT", "UNLINK", "RMDIR", "UNLOAD", "REVIVE", "REBIND", "REWARM"} =>
        receipt.phase = "RESTORE_REQUESTED"
    /\ call.pc \in {"BACK", "TAKE", "CLEAR"} => receipt.phase = "OPEN"
    /\ receipt.phase \in Unstopped \cup {"NONE"} => ~receipt.after
    /\ receipt.phase = "RESTORED" => receipt.back.env = "BEFORE"

Pristine ==
    /\ call = [pc |-> "IDLE", n |-> 0] /\ receipt.phase = "NONE" /\ service = Planned /\ loaded = "BEFORE"
    /\ dropin = [dir |-> "NONE", conf |-> "NONE"] /\ \A n \in DOMAIN piece : piece[n] = "BEFORE"

\* The settings are those of before until a process of theirs is stopped.
LEMMA QuietInit == RuntimeInit => Quiet
BY DEF RuntimeInit, Quiet, Planned, Down, Unstopped

LEMMA NativeQuiet == ASSUME RuntimeInv, Quiet, NativeOpen \/ NativeStep \/ NativeRaise PROVE Quiet'
<1> USE DEF RuntimeInv, RuntimeTypeOK, Receipts, ReceiptInv, PhaseAt, Quiet, Recorded, Calling, CallTo, Unstopped
<1>1. CASE NativeOpen
  BY <1>1 DEF NativeOpen, Begun, Up, Down, Planned, Processes
<1>2. CASE NativeObserve
  BY <1>2 DEF NativeObserve, Begun, Up, Down, Planned, Processes
<1>3. CASE NativeStop
  BY <1>3 DEF NativeStop, Begun, Up, Down, Planned, Processes
<1>4. CASE NativeConfig
  BY <1>4 DEF NativeConfig, Begun, Up, Down, Planned, Processes
<1>5. CASE NativeDirectory
  BY <1>5 DEF NativeDirectory, Begun, Up, Down, Planned, Processes
<1>6. CASE NativeOwnDirectory
  BY <1>6 DEF NativeOwnDirectory, Begun, Up, Down, Planned, Processes
<1>7. CASE NativeIntent
  BY <1>7 DEF NativeIntent, Begun, Up, Down, Planned, Processes
<1>8. CASE NativeLink
  BY <1>8 DEF NativeLink, Begun, Up, Down, Planned, Processes
<1>9. CASE NativeReload
  BY <1>9 DEF NativeReload, Begun, Up, Down, Planned, Processes
<1>10. CASE NativeRequest
  BY <1>10 DEF NativeRequest, Begun, Up, Down, Planned, Processes
<1>11. CASE NativeStart
  BY <1>11 DEF NativeStart, Begun, Up, Down, Planned, Processes
<1>12. CASE NativeBind
  BY <1>12 DEF NativeBind, Begun, Up, Down, Planned, Processes
<1>13. CASE NativeWait
  BY <1>13 DEF NativeWait, Begun, Up, Down, Planned, Processes
<1>14. CASE NativeAccept
  BY <1>14 DEF NativeAccept, Begun, Up, Down, Planned, Processes
<1>15. CASE NativeReturn
  BY <1>15 DEF NativeReturn, Begun, Up, Down, Planned, Processes
<1>16. CASE NativeRaise
  BY <1>16 DEF NativeRaise, Begun, Up, Down, Planned, Processes
<1> QED
  BY <1>1, <1>2, <1>3, <1>4, <1>5, <1>6, <1>7, <1>8, <1>9, <1>10, <1>11, <1>12, <1>13, <1>14, <1>15, <1>16 DEF NativeStep

LEMMA UndoQuiet == ASSUME RuntimeInv, Quiet, UndoStep \/ UndoRaise PROVE Quiet'
<1> USE DEF RuntimeInv, RuntimeTypeOK, Receipts, ReceiptInv, PhaseAt, Quiet, Recorded, Calling, CallTo, Unstopped
<1>1. CASE UndoNothing
  <2>1. service.env = "BEFORE"
    BY <1>1 DEF UndoNothing, Untaken, OwnedProcess, Planned
  <2>2. receipt' = [receipt EXCEPT !.phase = "RESTORED", !.back = service] /\ call'.pc = "RESTORED"
    BY <1>1 DEF UndoNothing
  <2>3. receipt'.phase = "RESTORED" /\ receipt'.back = service
    BY <2>2
  <2> QED
    BY <2>1, <2>2, <2>3
<1>2. CASE UndoRequest
  BY <1>2 DEF UndoRequest, Begun, Up, Down, Planned, Processes
<1>3. CASE UndoStop
  BY <1>3 DEF UndoStop, Begun, Up, Down, Planned, Processes
<1>4. CASE UndoLink
  BY <1>4 DEF UndoLink, Begun, Up, Down, Planned, Processes
<1>5. CASE UndoDirectory
  BY <1>5 DEF UndoDirectory, Begun, Up, Down, Planned, Processes
<1>6. CASE UndoReload
  BY <1>6 DEF UndoReload, Begun, Up, Down, Planned, Processes
<1>7. CASE UndoStart
  BY <1>7 DEF UndoStart, Begun, Up, Down, Planned, Processes
<1>8. CASE UndoBind
  BY <1>8 DEF UndoBind, Begun, Up, Down, Planned, Processes
<1>9. CASE UndoDone
  BY <1>9 DEF UndoDone, Begun, Up, Down, Planned, Processes
<1>10. CASE UndoRaise
  BY <1>10 DEF UndoRaise, Begun, Up, Down, Planned, Processes
<1> QED
  BY <1>1, <1>2, <1>3, <1>4, <1>5, <1>6, <1>7, <1>8, <1>9, <1>10 DEF UndoStep

LEMMA BundleQuiet == ASSUME RuntimeInv, Quiet, BundleOpen \/ BundleStep \/ BundleRaise PROVE Quiet'
<1> USE DEF RuntimeInv, RuntimeTypeOK, Receipts, ReceiptInv, PhaseAt, Quiet, Recorded, Calling, CallTo, Unstopped
<1>1. CASE BundleOpen
  BY <1>1 DEF BundleOpen, Begun, Up, Down, Planned, Processes
<1>2. CASE BundleReceipt
  BY <1>2 DEF BundleReceipt, Begun, Up, Down, Planned, Processes
<1>3. CASE BundleDirectory
  BY <1>3 DEF BundleDirectory, Begun, Up, Down, Planned, Processes
<1>4. CASE BundleStop
  BY <1>4 DEF BundleStop, Begun, Up, Down, Planned, Processes
<1>5. CASE BundleUnlink
  BY <1>5 DEF BundleUnlink, Begun, Up, Down, Planned, Processes
<1>6. CASE BundlePlace
  BY <1>6 DEF BundlePlace, Begun, Up, Down, Planned, Processes
<1>7. CASE BundleStart
  BY <1>7 DEF BundleStart, Begun, Up, Down, Planned, Processes
<1>8. CASE BundleAccept
  BY <1>8 DEF BundleAccept, Begun, Up, Down, Planned, Processes
<1>9. CASE BundleRaise
  BY <1>9 DEF BundleRaise, Begun, Up, Down, Planned, Processes
<1> QED
  BY <1>1, <1>2, <1>3, <1>4, <1>5, <1>6, <1>7, <1>8, <1>9 DEF BundleStep

LEMMA BackQuiet == ASSUME RuntimeInv, Quiet, BackStep \/ BackRaise \/ RollbackCalled \/ Meddle PROVE Quiet'
<1> USE DEF RuntimeInv, RuntimeTypeOK, Receipts, ReceiptInv, PhaseAt, Quiet, Recorded, Calling, CallTo, Unstopped
<1>1. CASE BackStop
  BY <1>1 DEF BackStop, Begun, Up, Down, Planned, Processes
<1>2. CASE BackTake
  BY <1>2 DEF BackTake, Begun, Up, Down, Planned, Processes
<1>3. CASE BackStart
  BY <1>3 DEF BackStart, Begun, Up, Down, Planned, Processes
<1>4. CASE BackClear
  BY <1>4 DEF BackClear, Begun, Up, Down, Planned, Processes
<1>5. CASE BackDone
  <2>1. service.env = "BEFORE"
    BY <1>5 DEF BackDone, Up, Down, Processes, Settings
  <2>2. receipt' = [receipt EXCEPT !.phase = "RESTORED", !.back = service] /\ call'.pc = "RESTORED"
    BY <1>5 DEF BackDone
  <2>3. receipt'.phase = "RESTORED" /\ receipt'.back = service
    BY <2>2
  <2> QED
    BY <2>1, <2>2, <2>3
<1>6. CASE BackRaise
  BY <1>6 DEF BackRaise, Begun, Up, Down, Planned, Processes
<1>7. CASE RollbackCalled
  BY <1>7 DEF RollbackCalled, Begun, Up, Down, Planned, Processes
<1>8. CASE Meddle
  BY <1>8 DEF Meddle, Begun, Up, Down, Planned, Processes
<1> QED
  BY <1>1, <1>2, <1>3, <1>4, <1>5, <1>6, <1>7, <1>8 DEF BackStep

LEMMA QuietStep == RuntimeInv /\ Quiet /\ [RuntimeNext]_runtimevars => Quiet'
<1> SUFFICES ASSUME RuntimeInv, Quiet, [RuntimeNext]_runtimevars PROVE Quiet'
  OBVIOUS
<1>1. CASE UNCHANGED runtimevars
  BY <1>1 DEF runtimevars, Quiet
<1>2. CASE RuntimeNext
  BY <1>2, NativeQuiet, UndoQuiet, BundleQuiet, BackQuiet DEF RuntimeNext
<1> QED
  BY <1>1, <1>2

\* What the readback of a restoration has seen is the runtime of before.
LEMMA ObservedBefore == RuntimeInv /\ Quiet /\ RestorationObserved => RuntimeBefore
BY DEF RuntimeInv, RuntimeTypeOK, DropinShape, Quiet, RestorationObserved, RuntimeBefore, Prestate

LEMMA PristineBefore == Pristine => RuntimeBefore
BY DEF Pristine, RuntimeBefore, Up, Planned, Down

-----------------------------------------------------------------------------
(***************************************************************************)
(* The attempt.  What its control says of the files, inputs, runtime, manager*)
(* and jobs: the properties of the runner speak of several of them at once, and*)
(* none is inductive without where the others stand at each step.          *)
(***************************************************************************)
RunSteps ==
    {"PREPARE", "QUIESCE", "INSTALL", "PUBLISH", "REFRESH", "ACCESS", "START", "MUTATE", "REOPEN",
     "WITNESS", "ABORT", "UNMUTATE", "CAUGHT", "REVOKE", "ROLLBACK", "REVERT", "REREAD", "RECOVER",
     "INPUTS", "RESTART", "AWAIT", "CHECK", "END", "STOP", "COMPENSATE", "RELOAD", "RETIRE"}
Outcomes == {"NONE", "DENIED", "INSTALLED", "FAILED", "UNCERTAIN", "COMPENSATED", "UNPROVEN",
             "RECOVERED", "RETIRED"}
HostTypes ==
    /\ unit \in [GroupNames -> {"OLD", "NEW", "STOPPED"}]
    /\ job \in [GroupNames -> {"NONE", "START", "STOP", "STARTED", "HALTED"}]
    /\ manager \in {"BEFORE", "AFTER"} /\ witness \in {"BEFORE", "NEW"}
    /\ inbox \in [source : {"OLD", "NEW", "NONE"}, receipt : {"OLD", "NEW"}]
    /\ run \in [mode : {"FRESH", "SUCCESSOR", "TRANSITION"}, restart : BOOLEAN,
                replace : {"NONE", "NATIVE", "BUNDLE"}, pc : RunSteps, n : 0..5, stopped : BOOLEAN,
                reload : BOOLEAN, attempted : BOOLEAN, restored : BOOLEAN, published : BOOLEAN,
                failure : BOOLEAN, outcome : Outcomes]

Built == journal.state = "INSTALLED_INACTIVE"
FilesBack == \A t \in Untouched : file[t] = Before(t)

\* How far an attempt that counts its groups or phases counts.
Counted ==
    /\ run.pc \in {"QUIESCE", "RESTART", "AWAIT", "STOP"} => run.n \in 1..4
    /\ run.pc \in {"START", "MUTATE", "REOPEN", "WITNESS", "ABORT"} => run.n \in 1..5
    /\ At("UNMUTATE") => run.n = 4

\* What the mode of an attempt decides of its course.
Course ==
    /\ run.restart => run.mode = "SUCCESSOR"
    /\ run.mode # "FRESH" => Replaced # {}
    /\ run.mode # "TRANSITION" => OwnerIn("NONE") /\ run.pc \notin {"PREPARE", "PUBLISH", "REVERT", "RETIRE"}
    /\ run.mode = "FRESH" => ~run.stopped /\ run.pc \notin {"PREPARE", "QUIESCE"} \cup Recovery
    /\ ~run.stopped => run.mode = "FRESH" \/ run.pc \in {"PREPARE", "QUIESCE"}
                       \/ (run.pc = "END" /\ run.outcome = "DENIED")
    /\ run.pc \in {"RESTART", "AWAIT"} => run.restart
    /\ run.failure => run.pc \notin {"PREPARE", "QUIESCE"}
    /\ run.outcome # "NONE" <=> run.pc = "END"
    /\ run.pc \in {"STOP", "COMPENSATE", "RELOAD"} =>
        run.replace = "NONE" /\ run.mode # "TRANSITION" /\ witness = "BEFORE"

\* Where the file transaction is.
FilesAt ==
    /\ run.pc \in {"PREPARE", "QUIESCE"} => In("IDLE")
    /\ run.pc \in {"PUBLISH", "REFRESH", "ACCESS", "START", "MUTATE", "REOPEN", "WITNESS", "ABORT",
                   "UNMUTATE", "CAUGHT", "REVOKE"} => In("RETURNED")
    /\ run.pc \in {"REVERT", "REREAD", "RELOAD"} => In("COMPENSATED")
    /\ run.pc \in {"INPUTS", "RESTART", "AWAIT", "CHECK"} => ~Built /\ FilesBack

\* Where the runtime's is.
RuntimeAt ==
    /\ ~run.attempted => Pristine
    /\ run.attempted => run.replace # "NONE"
    /\ run.attempted /\ ~Built => RestorationObserved
    /\ run.pc \in {"PREPARE", "QUIESCE", "INSTALL", "PUBLISH", "REFRESH", "ACCESS"} => ~run.attempted
    /\ run.pc \in {"MUTATE", "REOPEN", "UNMUTATE"} => run.attempted
    /\ At("START") /\ run.n < 5 => ~run.attempted
    /\ At("START") /\ run.n = 4 => run.replace # "NONE"
    /\ At("START") \/ At("REOPEN") \/ At("WITNESS") => (run.attempted => Calling("RETURNED"))

\* Where the definitions and inputs of the candidate are.
Delivered ==
    /\ ~run.reload => manager = "BEFORE"
    /\ run.pc \in {"ACCESS", "START", "MUTATE", "REOPEN", "WITNESS"} => manager = "AFTER"
    /\ run.pc \in {"START", "MUTATE", "REOPEN", "WITNESS"} => access = "OBSERVER"
    /\ run.pc \in {"REFRESH", "ACCESS", "START", "MUTATE", "REOPEN", "WITNESS"} =>
        (run.mode = "TRANSITION" => OwnerIn("PUBLISHED"))
    /\ run.mode = "SUCCESSOR" =>
        (run.pc \in {"QUIESCE", "INSTALL", "REFRESH", "ACCESS", "START", "MUTATE", "REOPEN", "WITNESS"} =>
            inbox = [source |-> "NEW", receipt |-> "NEW"])

\* ... and those of the predecessor.
Returned ==
    /\ run.mode = "SUCCESSOR" /\ inbox.receipt = "OLD" => inbox.source = "OLD"
    /\ run.pc \in {"PREPARE", "QUIESCE", "INSTALL", "PUBLISH"} => ~owner.restored
    /\ owner.restored => owner.pc \in {"PREPARED", "KEPT", "RESTORED", "ENDED"}
    /\ run.pc \in {"RESTART", "AWAIT", "CHECK"} => manager = "BEFORE" /\ OldInputs

Witnessed ==
    witness = "NEW" =>
        /\ run.published /\ Built /\ access = "OBSERVER" /\ NewInputs
        /\ run.pc \in {"ABORT", "UNMUTATE", "CAUGHT", "END"}
        /\ run.outcome \in {"NONE", "INSTALLED", "UNCERTAIN"}

Claims ==
    /\ run.outcome \in {"COMPENSATED", "RECOVERED"} => FilesBack /\ ~Built /\ manager = "BEFORE"
    /\ run.outcome = "COMPENSATED" => OldInputs

RunnerInv ==
    /\ HostTypes /\ Counted /\ Course /\ FilesAt /\ RuntimeAt /\ Delivered /\ Returned
    /\ Witnessed /\ Claims

\* What the job of a failed start that is still to come finds, whenever it comes:
\* no step of the attempt stands between the call and the cleanup that cancels it,
\* or it starts the predecessor.  Of one whose cleanup failed nothing is known,
\* but that what it started is not there by any other way.
Startable == Built /\ access = "OBSERVER" /\ manager = "AFTER" /\ NewInputs /\ call.pc \in {"IDLE", "RETURNED"}
Restartable == ~Built /\ FilesBack /\ manager = "BEFORE" /\ OldInputs
Late(g) == job[g] = "START" /\ ~run.failure
Cancelled == IF run.n = 4 THEN "INTERFACE" ELSE Lifecycle[run.n]
Restarting == {"RESTART", "AWAIT", "CHECK", "END"}
Afterwards == {"STOP", "COMPENSATE", "RELOAD", "RETIRE", "END"}
LateJobs ==
    \A g \in GroupNames : Late(g) =>
        \/ At("ABORT") /\ g = Cancelled /\ (run.n = 4 => run.attempted) /\ Startable
        \/ run.pc \in Restarting /\ run.restart /\ Restartable
StopsAt ==
    /\ At("STOP") => \A m \in (run.n + 1)..4 : ~Pending(Groups[m])
    /\ run.pc \in {"COMPENSATE", "RELOAD"} => Settled
UnitsAt ==
    /\ ~Built => \A g \in GroupNames : unit[g] = "NEW" =>
        run.failure /\ (job[g] = "STARTED" \/ run.pc \in Afterwards)
    /\ run.outcome = "COMPENSATED" =>
        \A g \in GroupNames :
            \/ unit[g] = IF run.restart THEN "OLD" ELSE "STOPPED"
            \/ run.restart /\ job[g] = "HALTED"
            \/ run.failure /\ job[g] = "STARTED"
    /\ run.outcome = "RECOVERED" => Inactive /\ Settled
JobsInv == LateJobs /\ StopsAt /\ UnitsAt

AttemptInv == RollbackInv /\ InputsInv /\ RuntimeInv /\ Quiet /\ RunnerInv /\ JobsInv

Runs == [mode : {"FRESH", "SUCCESSOR", "TRANSITION"}, restart : BOOLEAN,
         replace : {"NONE", "NATIVE", "BUNDLE"}, pc : RunSteps, n : 0..5, stopped : BOOLEAN,
         reload : BOOLEAN, attempted : BOOLEAN, restored : BOOLEAN, published : BOOLEAN,
         failure : BOOLEAN, outcome : Outcomes]

\* What an attempt was asked for never changes.
Kept == run'.mode = run.mode /\ run'.restart = run.restart /\ run'.replace = run.replace
History ==
    /\ run'.stopped = run.stopped /\ run'.reload = run.reload /\ run'.attempted = run.attempted
    /\ run'.restored = run.restored /\ run'.published = run.published /\ run'.failure = run.failure

\* The ways run is written.
LEMMA GoFields ==
    ASSUME HostTypes, NEW pc \in RunSteps, NEW n \in 0..5, Go(pc, n)
    PROVE  run' \in Runs /\ run'.pc = pc /\ run'.n = n /\ run'.outcome = run.outcome /\ Kept /\ History
BY DEF HostTypes, Runs, Go, Kept, History

LEMMA EndFields ==
    ASSUME HostTypes, NEW o \in Outcomes, End(o)
    PROVE  run' \in Runs /\ run'.pc = "END" /\ run'.n = run.n /\ run'.outcome = o /\ Kept /\ History
BY DEF HostTypes, Runs, End, Kept, History, RunSteps

LEMMA SameFields ==
    ASSUME HostTypes, UNCHANGED run
    PROVE  run' \in Runs /\ run'.pc = run.pc /\ run'.n = run.n /\ run'.outcome = run.outcome /\ Kept /\ History
BY DEF HostTypes, Runs, Kept, History
\* The other ways run is written.
LEMMA ResetFields ==
    ASSUME NEW r \in Runs, NEW pc \in RunSteps, NEW n \in 0..5, NEW o \in Outcomes
    PROVE  [r EXCEPT !.pc = pc, !.n = n, !.outcome = o] \in Runs
BY DEF Runs

LEMMA FlagFields ==
    ASSUME NEW r \in Runs, NEW pc \in RunSteps, NEW b \in BOOLEAN
    PROVE  /\ [r EXCEPT !.stopped = b, !.pc = pc] \in Runs
           /\ [r EXCEPT !.reload = b, !.pc = pc] \in Runs
           /\ [r EXCEPT !.pc = pc, !.attempted = b] \in Runs
           /\ [r EXCEPT !.pc = pc, !.published = b] \in Runs
           /\ \A n \in 0..5 : /\ [r EXCEPT !.pc = pc, !.n = n, !.restored = b] \in Runs
                             /\ [r EXCEPT !.stopped = b, !.n = n, !.pc = pc] \in Runs
BY DEF Runs

LEMMA OverFields ==
    ASSUME NEW r \in Runs, NEW pc \in RunSteps, NEW o \in Outcomes, NEW b \in BOOLEAN
    PROVE  [r EXCEPT !.pc = pc, !.outcome = o, !.published = b] \in Runs
BY DEF Runs

LEMMA FailsFields ==
    ASSUME HostTypes, AbortFails
    PROVE  /\ run' \in Runs /\ run'.pc = "CAUGHT" /\ run'.n = 0 /\ run'.outcome = run.outcome /\ Kept
           /\ run'.stopped = run.stopped /\ run'.reload = run.reload /\ run'.attempted = run.attempted
           /\ run'.restored = run.restored /\ run'.published = run.published /\ run'.failure
<1>1. "CAUGHT" \in RunSteps /\ 0 \in 0..5
  BY DEF RunSteps
<1> QED
  BY <1>1 DEF HostTypes, Runs, AbortFails, Kept

LEMMA RunTyped == HostTypes => run \in Runs
BY DEF HostTypes, Runs

\* What the parts of the invariant read of a component that does not move.
LEMMA FilesStill ==
    ASSUME UNCHANGED filevars
    PROVE  /\ Built' = Built /\ FilesBack' = FilesBack /\ UNCHANGED <<access, tx, journal, file, touched>>
           /\ \A pc : In(pc)' = In(pc)
BY DEF filevars, Built, FilesBack, Untouched, In

LEMMA RuntimeStill ==
    ASSUME UNCHANGED runtimevars
    PROVE  /\ Pristine' = Pristine /\ RestorationObserved' = RestorationObserved /\ UNCHANGED <<call, receipt>>
           /\ \A pc : Calling(pc)' = Calling(pc)
BY DEF runtimevars, Pristine, RestorationObserved, Prestate, Up, Calling

LEMMA InputsStill ==
    ASSUME UNCHANGED <<inputvars, inbox>>, Kept
    PROVE  /\ NewInputs' = NewInputs /\ OldInputs' = OldInputs /\ UNCHANGED owner
           /\ \A pc : OwnerIn(pc)' = OwnerIn(pc)
BY DEF inputvars, Kept, NewInputs, OldInputs, OwnerIn

\* The four groups, and the runtime among the five phases.
LEMMA GroupFacts ==
    /\ GroupNames = {"AUTHORITY", "OPERATIONS", "INTERFACE", "RESIDENCY"}
    /\ \A n \in 1..4 : Groups[n] \in GroupNames
    /\ \A n \in 1..5 : Lifecycle[n] \in GroupNames \cup {"RUNTIME"} /\ (Lifecycle[n] = "RUNTIME" <=> n = 4)
    /\ \A n \in 1..4, m \in 1..4 : Groups[n] = Groups[m] => n = m
<1>1. GroupNames = {"AUTHORITY", "OPERATIONS", "INTERFACE", "RESIDENCY"}
  <2>1. 1..4 = {1, 2, 3, 4}
    OBVIOUS
  <2> QED
    BY <2>1 DEF GroupNames, Groups
<1>2. \A n \in 1..4 : n = 1 \/ n = 2 \/ n = 3 \/ n = 4
  OBVIOUS
<1>3. \A n \in 1..5 : n = 1 \/ n = 2 \/ n = 3 \/ n = 4 \/ n = 5
  OBVIOUS
<1> QED
  BY <1>1, <1>2, <1>3 DEF Groups, Lifecycle

\* A step of the runner's control alone.
Still == UNCHANGED <<filevars, inputvars, hostvars>>
LEMMA StillFacts ==
    ASSUME Still, HostTypes, run' \in Runs, Kept
    PROVE  /\ HostTypes'
           /\ UNCHANGED <<unit, job, manager, witness, inbox, access, tx, journal, file, touched, call, receipt, owner>>
           /\ Built' = Built /\ FilesBack' = FilesBack /\ Pristine' = Pristine
           /\ RestorationObserved' = RestorationObserved /\ NewInputs' = NewInputs /\ OldInputs' = OldInputs
           /\ Startable' = Startable /\ Restartable' = Restartable
<1>1. UNCHANGED <<filevars, inputvars, unit, job, manager, runtimevars, witness, inbox>>
  BY DEF Still, hostvars
<1>2. HostTypes'
  BY <1>1 DEF HostTypes, Runs
<1>3. /\ UNCHANGED <<unit, job, manager, witness, inbox, access, tx, journal, file, touched, call, receipt, owner>>
      /\ Built' = Built /\ FilesBack' = FilesBack /\ Pristine' = Pristine
      /\ RestorationObserved' = RestorationObserved /\ NewInputs' = NewInputs /\ OldInputs' = OldInputs
  BY <1>1, FilesStill, RuntimeStill, InputsStill
<1>4. Startable' = Startable /\ Restartable' = Restartable
  BY <1>3 DEF Startable, Restartable
<1> QED
  BY <1>2, <1>3, <1>4

\* The predecessor's files cannot all be there while all are recorded as placed.
LEMMA BuiltNotBefore ==
    ASSUME RollbackInv, Replaced # {}
    PROVE  /\ Predecessor => ~Built
           /\ file = [t \in Targets |-> "OURS"] => ~FilesBack
<1>1. PICK t \in Replaced : TRUE
  OBVIOUS
<1>2. t \in Targets /\ Rank(t) \in 1..Len(Order) /\ Order[Rank(t)] = t /\ Before(t) = "PRIOR"
  BY OrderOf, TargetAssumption DEF Before
<1>3. CASE t \in touched
  BY <1>1, <1>2, <1>3 DEF RollbackInv, TouchedGone, Predecessor
<1>4. CASE t \notin touched
  <2>1. Built => file[t] = "OURS"
    <3> SUFFICES ASSUME Built PROVE file[t] = "OURS"
      OBVIOUS
    <3>1. journal.state = "INSTALLED_INACTIVE" /\ journal.completed = Len(Order) /\ Len(Order) \in Nat
      BY TargetAssumption DEF RollbackInv, CountsAt, Built
    <3> QED
      BY <1>2, <1>4, <3>1 DEF RollbackInv, PlacedInOrder, Mine
  <2> QED
    BY <1>1, <1>2, <1>4, <2>1 DEF Predecessor, FilesBack, Untouched
<1> QED
  BY <1>3, <1>4

\* An owner that has restored names the predecessor's inputs; so does none.
LEMMA RestoredInputs ==
    ASSUME InputsInv, owner.pc \in {"NONE", "PREPARED", "KEPT", "RESTORED"}
    PROVE  \A k \in Kinds : place[k]["canonical"] = "OLD"
BY DEF InputsInv, NamesKept, OwnerIntent, OwnerPlaces, Every, Captured, Staged, Restored, Places, OwnerIn

\* What units of the candidate may be started on.
LEMMA Deliverable ==
    ASSUME RollbackInv, InputsInv, RunnerInv, run.pc \in {"START", "REOPEN", "WITNESS"}
    PROVE  Startable
<1>1. Built
  BY DEF RunnerInv, FilesAt, RollbackInv, JournalAt, Built, In
<1>2. access = "OBSERVER" /\ manager = "AFTER"
  BY DEF RunnerInv, Delivered
<1>3. call.pc \in {"IDLE", "RETURNED"}
  BY DEF RunnerInv, RuntimeAt, At, Calling, Pristine
<1>4. NewInputs
  BY DEF RunnerInv, HostTypes, Delivered, NewInputs, InputsInv, OwnerPlaces, OwnerIn, Every, Published, Places
<1> QED
  BY <1>1, <1>2, <1>3, <1>4 DEF Startable

\* One lemma per action of the runner: it keeps RunnerInv.  First those that
\* change its control alone.
LEMMA FailRun == ASSUME RunnerInv, Fail PROVE RunnerInv'
<1>0. HostTypes /\ Still
  BY DEF RunnerInv, Fail, Still
<1> USE DEF RunnerInv, Counted, Course, FilesAt, RuntimeAt, Delivered, Returned, Witnessed, Claims, In, At, OwnerIn, Calling, Recovery
<1>1. CASE At("PREPARE") /\ End("DENIED")
  <2>1. run' \in Runs /\ run'.pc = "END" /\ run'.n = run.n /\ run'.outcome = "DENIED" /\ Kept /\ History
    BY <1>0, <1>1, EndFields DEF Outcomes
  <2> QED
    BY <1>0, <1>1, <2>1, StillFacts DEF Kept, History
<1>2. CASE At("QUIESCE") /\ run.stopped /\ Go("RECOVER", 1)
  <2>1. run' \in Runs /\ run'.pc = "RECOVER" /\ run'.n = 1 /\ run'.outcome = run.outcome /\ Kept /\ History
    BY <1>0, <1>2, GoFields DEF RunSteps
  <2> QED
    BY <1>0, <1>2, <2>1, StillFacts DEF Kept, History
<1>3. CASE At("QUIESCE") /\ ~run.stopped /\ End("DENIED")
  <2>1. run' \in Runs /\ run'.pc = "END" /\ run'.n = run.n /\ run'.outcome = "DENIED" /\ Kept /\ History
    BY <1>0, <1>3, EndFields DEF Outcomes
  <2> QED
    BY <1>0, <1>3, <2>1, StillFacts DEF Kept, History
<1>4. CASE At("PUBLISH") /\ Go("CAUGHT", 0)
  <2>1. run' \in Runs /\ run'.pc = "CAUGHT" /\ run'.n = 0 /\ run'.outcome = run.outcome /\ Kept /\ History
    BY <1>0, <1>4, GoFields DEF RunSteps
  <2> QED
    BY <1>0, <1>4, <2>1, StillFacts DEF Kept, History
<1>5. CASE run.pc \in InHandler /\ Go("CAUGHT", 0)
  <2>1. run' \in Runs /\ run'.pc = "CAUGHT" /\ run'.n = 0 /\ run'.outcome = run.outcome /\ Kept /\ History
    BY <1>0, <1>5, GoFields DEF RunSteps
  <2> QED
    BY <1>0, <1>5, <2>1, StillFacts DEF Kept, History, InHandler
<1>6. CASE run.pc \in InLifecycle /\ Go("ABORT", run.n)
  <2>1. run' \in Runs /\ run'.pc = "ABORT" /\ run'.n = run.n /\ run'.outcome = run.outcome /\ Kept /\ History
    BY <1>0, <1>6, GoFields DEF RunSteps, HostTypes
  <2> QED
    BY <1>0, <1>6, <2>1, StillFacts DEF Kept, History, InLifecycle
<1>7. CASE run.pc \in Compensation /\ run.stopped /\ Go("RECOVER", 1)
  <2>1. run' \in Runs /\ run'.pc = "RECOVER" /\ run'.n = 1 /\ run'.outcome = run.outcome /\ Kept /\ History
    BY <1>0, <1>7, GoFields DEF RunSteps
  <2> QED
    BY <1>0, <1>7, <2>1, StillFacts DEF Kept, History, Compensation
<1>8. CASE run.pc \in Compensation /\ ~run.stopped /\ End("FAILED")
  <2>1. run' \in Runs /\ run'.pc = "END" /\ run'.n = run.n /\ run'.outcome = "FAILED" /\ Kept /\ History
    BY <1>0, <1>8, EndFields DEF Outcomes
  <2> QED
    BY <1>0, <1>8, <2>1, StillFacts DEF Kept, History, Compensation
<1>9. CASE run.pc \in Recovery /\ End("UNPROVEN")
  <2>1. run' \in Runs /\ run'.pc = "END" /\ run'.n = run.n /\ run'.outcome = "UNPROVEN" /\ Kept /\ History
    BY <1>0, <1>9, EndFields DEF Outcomes
  <2> QED
    BY <1>0, <1>9, <2>1, StillFacts DEF Kept, History
<1> QED
  BY <1>1, <1>2, <1>3, <1>4, <1>5, <1>6, <1>7, <1>8, <1>9 DEF Fail, Escape

LEMMA LeftRun == ASSUME RunnerInv, InstallLeft PROVE RunnerInv'
<1>0. HostTypes /\ Still
  BY DEF RunnerInv, InstallLeft, Still
<1> USE DEF RunnerInv, Counted, Course, FilesAt, RuntimeAt, Delivered, Returned, Witnessed, Claims, In, At, OwnerIn, Calling, Recovery
<1>1. CASE At("INSTALL") /\ run.stopped /\ Go("RECOVER", 1)
  <2>1. run' \in Runs /\ run'.pc = "RECOVER" /\ run'.n = 1 /\ run'.outcome = run.outcome /\ Kept /\ History
    BY <1>0, <1>1, GoFields DEF RunSteps
  <2> QED
    BY <1>0, <1>1, <2>1, StillFacts DEF Kept, History
<1>2. CASE At("INSTALL") /\ ~run.stopped /\ End("FAILED")
  <2>1. run' \in Runs /\ run'.pc = "END" /\ run'.n = run.n /\ run'.outcome = "FAILED" /\ Kept /\ History
    BY <1>0, <1>2, EndFields DEF Outcomes
  <2> QED
    BY <1>0, <1>2, <2>1, StillFacts DEF Kept, History
<1> QED
  BY <1>1, <1>2 DEF InstallLeft, Escape

LEMMA MutatedRun == ASSUME RunnerInv, Mutated PROVE RunnerInv'
<1>0. HostTypes /\ Still
  BY DEF RunnerInv, Mutated, Still
<1> USE DEF RunnerInv, Counted, Course, FilesAt, RuntimeAt, Delivered, Returned, Witnessed, Claims, In, At, OwnerIn, Calling, Recovery
<1>1. CASE At("MUTATE") /\ Calling("RETURNED") /\ Go("REOPEN", run.n)
  <2>1. run' \in Runs /\ run'.pc = "REOPEN" /\ run'.n = run.n /\ run'.outcome = run.outcome /\ Kept /\ History
    BY <1>0, <1>1, GoFields DEF RunSteps, HostTypes
  <2> QED
    BY <1>0, <1>1, <2>1, StillFacts DEF Kept, History
<1>2. CASE At("MUTATE") /\ Go("ABORT", run.n)
  <2>1. run' \in Runs /\ run'.pc = "ABORT" /\ run'.n = run.n /\ run'.outcome = run.outcome /\ Kept /\ History
    BY <1>0, <1>2, GoFields DEF RunSteps, HostTypes
  <2> QED
    BY <1>0, <1>2, <2>1, StillFacts DEF Kept, History
<1> QED
  BY <1>1, <1>2 DEF Mutated

LEMMA CleanupRun == ASSUME RunnerInv, CleanupFails PROVE RunnerInv'
<1>0. HostTypes /\ Still /\ run.pc \in {"ABORT", "UNMUTATE"}
  BY DEF RunnerInv, CleanupFails, Still
<1>1. /\ run' \in Runs /\ run'.pc = "CAUGHT" /\ run'.n = 0 /\ run'.outcome = run.outcome /\ Kept
      /\ run'.stopped = run.stopped /\ run'.reload = run.reload /\ run'.attempted = run.attempted
      /\ run'.restored = run.restored /\ run'.published = run.published /\ run'.failure
  BY <1>0, FailsFields DEF CleanupFails
<1> QED
  BY <1>0, <1>1, StillFacts
  DEF RunnerInv, Counted, Course, FilesAt, RuntimeAt, Delivered, Returned, Witnessed, Claims, In, At, OwnerIn, Calling,
      Recovery, Kept

LEMMA CaughtRun == ASSUME RunnerInv, Caught PROVE RunnerInv'
<1>0. HostTypes /\ Still
  BY DEF RunnerInv, Caught, Still
<1> USE DEF RunnerInv, Counted, Course, FilesAt, RuntimeAt, Delivered, Returned, Witnessed, Claims, In, At, OwnerIn, Calling, Recovery
<1>1. CASE At("CAUGHT") /\ run.published /\ End("UNCERTAIN")
  <2>1. run' \in Runs /\ run'.pc = "END" /\ run'.n = run.n /\ run'.outcome = "UNCERTAIN" /\ Kept /\ History
    BY <1>0, <1>1, EndFields DEF Outcomes
  <2> QED
    BY <1>0, <1>1, <2>1, StillFacts DEF Kept, History
<1>2. CASE At("CAUGHT") /\ ~run.published /\ CompensationBoundary /\ Go("REVOKE", 1)
  <2>1. run' \in Runs /\ run'.pc = "REVOKE" /\ run'.n = 1 /\ run'.outcome = run.outcome /\ Kept /\ History
    BY <1>0, <1>2, GoFields DEF RunSteps
  <2> QED
    BY <1>0, <1>2, <2>1, StillFacts DEF Kept, History, CompensationBoundary, Boundary
<1>3. CASE At("CAUGHT") /\ ~run.published /\ run.stopped /\ Go("RECOVER", 1)
  <2>1. run' \in Runs /\ run'.pc = "RECOVER" /\ run'.n = 1 /\ run'.outcome = run.outcome /\ Kept /\ History
    BY <1>0, <1>3, GoFields DEF RunSteps
  <2> QED
    BY <1>0, <1>3, <2>1, StillFacts DEF Kept, History
<1>4. CASE At("CAUGHT") /\ ~run.published /\ ~run.stopped /\ End("FAILED")
  <2>1. run' \in Runs /\ run'.pc = "END" /\ run'.n = run.n /\ run'.outcome = "FAILED" /\ Kept /\ History
    BY <1>0, <1>4, EndFields DEF Outcomes
  <2> QED
    BY <1>0, <1>4, <2>1, StillFacts DEF Kept, History
<1> QED
  BY <1>1, <1>2, <1>3, <1>4 DEF Caught, Escape

LEMMA RetireFailsRun == ASSUME RunnerInv, RetireFails PROVE RunnerInv'
<1>0. HostTypes /\ Still
  BY DEF RunnerInv, RetireFails, Still
<1> USE DEF RunnerInv, Counted, Course, FilesAt, RuntimeAt, Delivered, Returned, Witnessed, Claims, In, At, OwnerIn, Calling, Recovery
<1>1. CASE run.pc \in {"STOP", "RELOAD", "RETIRE"} /\ End("UNPROVEN")
  <2>1. run' \in Runs /\ run'.pc = "END" /\ run'.n = run.n /\ run'.outcome = "UNPROVEN" /\ Kept /\ History
    BY <1>0, <1>1, EndFields DEF Outcomes
  <2> QED
    BY <1>0, <1>1, <2>1, StillFacts DEF Kept, History
<1> QED
  BY <1>1 DEF RetireFails

LEMMA UnmutatedRun == ASSUME RunnerInv, Unmutated PROVE RunnerInv'
<1>0. HostTypes /\ Still /\ At("UNMUTATE") /\ run.n = 4
  BY DEF RunnerInv, Unmutated, Still, Counted
<1> USE DEF RunnerInv, Counted, Course, FilesAt, RuntimeAt, Delivered, Returned, Witnessed, Claims, In, At, OwnerIn, Calling, Recovery
<1>1. /\ run' \in Runs /\ run'.pc = "ABORT" /\ run'.n = 3 /\ run'.outcome = run.outcome /\ Kept
      /\ run'.stopped = run.stopped /\ run'.reload = run.reload /\ run'.attempted = run.attempted
      /\ run'.published = run.published /\ run'.failure = run.failure
  <2>1. run' = [run EXCEPT !.pc = "ABORT", !.n = 3, !.restored = TRUE] /\ run \in Runs
    BY <1>0 DEF Unmutated, HostTypes, Runs
  <2>2. run' \in Runs
    <3>1. "ABORT" \in RunSteps /\ 3 \in 0..5 /\ TRUE \in BOOLEAN
      BY DEF RunSteps
    <3> QED
      BY <2>1, <3>1, FlagFields
  <2> QED
    BY <2>1, <2>2 DEF Runs, Kept
<1> QED
  BY <1>0, <1>1, StillFacts DEF Kept, History

LEMMA RecoverRun == ASSUME RollbackInv, RunnerInv, Recover PROVE RunnerInv'
<1>0. HostTypes /\ Still /\ At("RECOVER") /\ Predecessor /\ Go("INPUTS", 1)
  BY DEF RunnerInv, Recover, Still
<1> USE DEF RunnerInv, Counted, Course, FilesAt, RuntimeAt, Delivered, Returned, Witnessed, Claims, In, At, OwnerIn, Calling, Recovery
<1>1. run' \in Runs /\ run'.pc = "INPUTS" /\ run'.n = 1 /\ run'.outcome = run.outcome /\ Kept /\ History
  BY <1>0, GoFields DEF RunSteps
<1>2. FilesBack
  BY <1>0 DEF Predecessor, FilesBack, Untouched
<1>3. ~Built
  BY <1>0, BuiltNotBefore
<1> QED
  BY <1>0, <1>1, <1>2, <1>3, StillFacts DEF Kept, History

LEMMA InputsRestoredRun == ASSUME InputsInv, RunnerInv, InputsRestored PROVE RunnerInv'
<1>0. HostTypes /\ Still /\ At("INPUTS") /\ manager = "BEFORE"
  BY DEF RunnerInv, InputsRestored, Still
<1> USE DEF RunnerInv, Counted, Course, FilesAt, RuntimeAt, Delivered, Returned, Witnessed, Claims, In, At, OwnerIn, Calling, Recovery
<1>1. /\ run' \in Runs /\ run'.pc = (IF run.restart THEN "RESTART" ELSE "CHECK") /\ run'.n = 1
      /\ run'.outcome = run.outcome /\ Kept /\ History
  BY <1>0, GoFields DEF InputsRestored, RunSteps
<1>2. OldInputs
  <2>1. CASE run.mode = "TRANSITION"
    <3>1. owner.restored /\ (owner.pc = "NONE" \/ VerifyLive)
      BY <2>1 DEF InputsRestored, Material
    <3>2. owner.pc \in {"PREPARED", "KEPT", "RESTORED"}
      BY <3>1 DEF VerifyLive
    <3> QED
      BY <2>1, <3>2, RestoredInputs DEF OldInputs
  <2>2. CASE run.mode = "SUCCESSOR"
    <3>1. inbox = [source |-> "OLD", receipt |-> "OLD"]
      BY <2>2 DEF InputsRestored, HostTypes
    <3> QED
      BY <2>2, <3>1, RestoredInputs DEF OldInputs
  <2> QED
    BY <1>0, <2>1, <2>2 DEF HostTypes
<1> QED
  BY <1>0, <1>1, <1>2, StillFacts DEF Kept, History

LEMMA RecoveredRun == ASSUME RunnerInv, Recovered PROVE RunnerInv'
<1>0. HostTypes /\ Still /\ At("CHECK") /\ End("COMPENSATED")
  BY DEF RunnerInv, Recovered, Still
<1> USE DEF RunnerInv, Counted, Course, FilesAt, RuntimeAt, Delivered, Returned, Witnessed, Claims, In, At, OwnerIn, Calling, Recovery
<1>1. run' \in Runs /\ run'.pc = "END" /\ run'.n = run.n /\ run'.outcome = "COMPENSATED" /\ Kept /\ History
  BY <1>0, EndFields DEF Outcomes
<1> QED
  BY <1>0, <1>1, StillFacts DEF Kept, History

LEMMA FailedConstructionRun == ASSUME RollbackInv, RunnerInv, FailedConstruction PROVE RunnerInv'
<1>0. /\ HostTypes /\ Still /\ At("END") /\ run.outcome \in {"FAILED", "UNPROVEN"}
      /\ run.mode # "TRANSITION" /\ run.replace = "NONE" /\ witness = "BEFORE"
  BY DEF RunnerInv, FailedConstruction, CompletelyPlaced, Still
<1> USE DEF RunnerInv, Counted, Course, FilesAt, RuntimeAt, Delivered, Returned, Witnessed, Claims, In, At, OwnerIn, Calling, Recovery
<1>1. /\ run' \in Runs /\ run'.pc = "STOP" /\ run'.n = 4 /\ run'.outcome = "NONE" /\ Kept /\ History
  <2>1. run' = [run EXCEPT !.pc = "STOP", !.n = 4, !.outcome = "NONE"] /\ run \in Runs
    BY DEF FailedConstruction, HostTypes, Runs
  <2>2. run' \in Runs
    <3>1. "STOP" \in RunSteps /\ 4 \in 0..5 /\ "NONE" \in Outcomes
      BY DEF RunSteps, Outcomes
    <3> QED
      BY <2>1, <3>1, ResetFields
  <2> QED
    BY <2>1, <2>2 DEF Runs, Kept, History
<1> QED
  BY <1>0, <1>1, StillFacts DEF Kept, History

UnitStates == {"OLD", "NEW", "STOPPED"}
JobStates == {"NONE", "START", "STOP", "STARTED", "HALTED"}

\* Then those that start or stop a group of units.
LEMMA StartedFacts ==
    ASSUME HostTypes, NEW g \in GroupNames, NEW as \in UnitStates, Started(g, as)
    PROVE  /\ unit' \in [GroupNames -> UnitStates] /\ job' \in [GroupNames -> JobStates]
           /\ \A h \in GroupNames : h # g => unit'[h] = unit[h] /\ job'[h] = job[h]
           /\ unit'[g] = as /\ job'[g] = "NONE"
BY DEF HostTypes, Started, UnitStates, JobStates

LEMMA StoppedFacts ==
    ASSUME HostTypes, NEW g \in GroupNames, Stopped(g)
    PROVE  /\ unit' \in [GroupNames -> UnitStates] /\ job' \in [GroupNames -> JobStates]
           /\ \A h \in GroupNames : h # g => unit'[h] = unit[h] /\ job'[h] = job[h]
           /\ unit'[g] = "STOPPED" /\ job'[g] = "NONE"
BY DEF HostTypes, Started, Stopped, UnitStates, JobStates

LEMMA FailedFacts ==
    ASSUME HostTypes, NEW g \in GroupNames, NEW left \in JobStates, Failed(g, left)
    PROVE  /\ unit' = unit /\ job' \in [GroupNames -> JobStates]
           /\ \A h \in GroupNames : h # g => job'[h] = job[h]
           /\ job'[g] \in {job[g], left}
BY DEF HostTypes, Failed, JobStates

\* A step of systemd, its definitions or the witness.
LEMMA HostFacts ==
    ASSUME UNCHANGED <<filevars, inputvars, runtimevars, inbox>>, Kept
    PROVE  /\ UNCHANGED <<access, tx, journal, file, touched, call, receipt, owner>>
           /\ Built' = Built /\ FilesBack' = FilesBack /\ Pristine' = Pristine
           /\ RestorationObserved' = RestorationObserved /\ NewInputs' = NewInputs /\ OldInputs' = OldInputs
           /\ UNCHANGED manager => Startable' = Startable /\ Restartable' = Restartable
<1>1. /\ UNCHANGED <<access, tx, journal, file, touched, call, receipt, owner>>
      /\ Built' = Built /\ FilesBack' = FilesBack /\ Pristine' = Pristine
      /\ RestorationObserved' = RestorationObserved /\ NewInputs' = NewInputs /\ OldInputs' = OldInputs
  BY FilesStill, RuntimeStill, InputsStill
<1> QED
  BY <1>1 DEF Startable, Restartable

LEMMA HostTyped ==
    ASSUME HostTypes, unit' \in [GroupNames -> UnitStates], job' \in [GroupNames -> JobStates],
           UNCHANGED <<manager, witness, inbox>>, run' \in Runs
    PROVE  HostTypes'
BY DEF HostTypes, Runs, UnitStates, JobStates

LEMMA UnitTyped ==
    HostTypes => unit \in [GroupNames -> UnitStates] /\ job \in [GroupNames -> JobStates]
BY DEF HostTypes, UnitStates, JobStates

LEMMA QuiesceRun == ASSUME RunnerInv, Quiesce PROVE RunnerInv'
<1> DEFINE g == Groups[run.n]
<1>0. /\ HostTypes /\ UNCHANGED <<filevars, inputvars, runtimevars, inbox, manager, witness>>
      /\ At("QUIESCE") /\ g \in GroupNames /\ run.n \in 1..4 /\ run \in Runs
  <2>1. run.n \in 1..4
    BY DEF RunnerInv, Quiesce, Counted, At
  <2> QED
    BY <2>1, GroupFacts, RunTyped DEF RunnerInv, Quiesce
<1>1. CASE /\ Stopped(g)
           /\ run' = [run EXCEPT !.stopped = TRUE, !.n = run.n - 1,
                                 !.pc = IF run.n > 1 THEN "QUIESCE" ELSE "INSTALL"]
  <2>1. run' \in Runs
    <3>1. TRUE \in BOOLEAN /\ run.n - 1 \in 0..5 /\ (IF run.n > 1 THEN "QUIESCE" ELSE "INSTALL") \in RunSteps
      BY <1>0 DEF RunSteps
    <3> QED
      BY <1>0, <1>1, <3>1, FlagFields
  <2>2. /\ run'.stopped /\ run'.n = run.n - 1 /\ run'.pc = (IF run.n > 1 THEN "QUIESCE" ELSE "INSTALL")
        /\ run'.outcome = run.outcome /\ Kept /\ run'.reload = run.reload /\ run'.attempted = run.attempted
        /\ run'.restored = run.restored /\ run'.published = run.published /\ run'.failure = run.failure
    BY <1>0, <1>1 DEF Runs, Kept
  <2>3. HostTypes'
    BY <1>0, <1>1, <2>1, StoppedFacts, HostTyped
  <2> QED
    BY <1>0, <2>2, <2>3, HostFacts
    DEF RunnerInv, Counted, Course, FilesAt, RuntimeAt, Delivered, Returned, Witnessed, Claims, In, At, OwnerIn,
        Calling, Recovery, Kept
<1>2. CASE Failed(g, "STOP") /\ run' = [run EXCEPT !.stopped = TRUE, !.pc = "RECOVER"]
  <2>1. run' \in Runs
    <3>1. TRUE \in BOOLEAN /\ "RECOVER" \in RunSteps
      BY DEF RunSteps
    <3> QED
      BY <1>0, <1>2, <3>1, FlagFields
  <2>2. /\ run'.stopped /\ run'.n = run.n /\ run'.pc = "RECOVER"
        /\ run'.outcome = run.outcome /\ Kept /\ run'.reload = run.reload /\ run'.attempted = run.attempted
        /\ run'.restored = run.restored /\ run'.published = run.published /\ run'.failure = run.failure
    BY <1>0, <1>2 DEF Runs, Kept
  <2>3. HostTypes'
    BY <1>0, <1>2, <2>1, FailedFacts, HostTyped, UnitTyped DEF JobStates
  <2> QED
    BY <1>0, <2>2, <2>3, HostFacts
    DEF RunnerInv, Counted, Course, FilesAt, RuntimeAt, Delivered, Returned, Witnessed, Claims, In, At, OwnerIn,
        Calling, Recovery, Kept
<1> QED
  BY <1>1, <1>2 DEF Quiesce

LEMMA StartRun == ASSUME RollbackInv, InputsInv, RunnerInv, Start PROVE RunnerInv'
<1> DEFINE g == Lifecycle[run.n]
<1>0. /\ HostTypes /\ UNCHANGED <<filevars, inputvars, runtimevars, inbox, manager, witness>>
      /\ At("START") /\ g \in GroupNames /\ run.n \in {1, 2, 3, 5} /\ run \in Runs /\ Startable
  <2>1. run.n \in 1..5 /\ At("START")
    BY DEF RunnerInv, Start, Counted, At
  <2>2. g # "RUNTIME"
    BY DEF Start
  <2> QED
    BY <2>1, <2>2, GroupFacts, RunTyped, Deliverable DEF RunnerInv, Start, Constructed, At
<1>1. CASE Started(g, "NEW") /\ Go(After(run.n), Following(run.n))
  <2>1. /\ run' \in Runs /\ run'.outcome = run.outcome /\ Kept /\ History
        /\ run.n = 5 => run'.pc = "WITNESS" /\ run'.n = 5
        /\ run.n # 5 => run'.pc = "START" /\ run'.n \in {2, 3, 4, 5} /\ (run'.n = 4 => run.replace # "NONE")
    <3>1. After(run.n) \in RunSteps /\ Following(run.n) \in 0..5
      BY <1>0 DEF After, Following, RunSteps
    <3>2. run' \in Runs /\ run'.outcome = run.outcome /\ Kept /\ History /\ run'.pc = After(run.n) /\ run'.n = Following(run.n)
      BY <1>0, <1>1, <3>1, GoFields
    <3> QED
      BY <1>0, <3>2 DEF After, Following
  <2>2. HostTypes'
    BY <1>0, <1>1, <2>1, StartedFacts, HostTyped, UnitTyped DEF JobStates, UnitStates
  <2> QED
    BY <1>0, <1>1, <2>1, <2>2, HostFacts
    DEF RunnerInv, Counted, Course, FilesAt, RuntimeAt, Delivered, Returned, Witnessed, Claims, In, At, OwnerIn,
        Calling, Recovery, Kept, History
<1>2. CASE Failed(g, "START") /\ Go("ABORT", run.n)
  <2>1. run' \in Runs /\ run'.pc = "ABORT" /\ run'.n = run.n /\ run'.outcome = run.outcome /\ Kept /\ History
    BY <1>0, <1>2, GoFields DEF RunSteps
  <2>2. HostTypes'
    BY <1>0, <1>2, <2>1, FailedFacts, HostTyped, UnitTyped DEF JobStates
  <2> QED
    BY <1>0, <1>2, <2>1, <2>2, HostFacts
    DEF RunnerInv, Counted, Course, FilesAt, RuntimeAt, Delivered, Returned, Witnessed, Claims, In, At, OwnerIn,
        Calling, Recovery, Kept, History
<1> QED
  BY <1>1, <1>2 DEF Start

LEMMA ConsumersRun == ASSUME RollbackInv, RunnerInv, Consumers PROVE RunnerInv'
<1>0. /\ HostTypes /\ UNCHANGED <<filevars, inputvars, runtimevars, inbox, manager, witness>>
      /\ At("START") /\ "INTERFACE" \in GroupNames /\ run.n = 4 /\ run \in Runs /\ Built
  <2>1. run.n \in 1..5 /\ At("START") /\ Lifecycle[run.n] = "RUNTIME"
    BY DEF RunnerInv, Consumers, Counted, At
  <2>2. Built
    BY <2>1 DEF RunnerInv, FilesAt, RollbackInv, JournalAt, Built, In, At
  <2> QED
    BY <2>1, <2>2, GroupFacts, RunTyped DEF RunnerInv, Consumers, Constructed
<1>1. CASE Stopped("INTERFACE") /\ run' = [run EXCEPT !.pc = "MUTATE", !.attempted = TRUE]
  <2>1. /\ run' \in Runs /\ run'.pc = "MUTATE" /\ run'.n = 4 /\ run'.outcome = run.outcome /\ Kept
        /\ run'.stopped = run.stopped /\ run'.reload = run.reload /\ run'.attempted
        /\ run'.restored = run.restored /\ run'.published = run.published /\ run'.failure = run.failure
    <3>1. TRUE \in BOOLEAN /\ "MUTATE" \in RunSteps
      BY DEF RunSteps
    <3>2. run' \in Runs
      BY <1>0, <1>1, <3>1, FlagFields
    <3> QED
      BY <1>0, <1>1, <3>2 DEF Runs, Kept
  <2>2. HostTypes'
    BY <1>0, <1>1, <2>1, StoppedFacts, HostTyped, UnitTyped DEF JobStates
  <2> QED
    BY <1>0, <1>1, <2>1, <2>2, HostFacts
    DEF RunnerInv, Counted, Course, FilesAt, RuntimeAt, Delivered, Returned, Witnessed, Claims, In, At, OwnerIn,
        Calling, Recovery, Kept, History
<1>2. CASE Stopped("INTERFACE") /\ Go("ABORT", run.n)
  <2>1. run' \in Runs /\ run'.pc = "ABORT" /\ run'.n = run.n /\ run'.outcome = run.outcome /\ Kept /\ History
    BY <1>0, <1>2, GoFields DEF RunSteps
  <2>2. HostTypes'
    BY <1>0, <1>2, <2>1, StoppedFacts, HostTyped, UnitTyped DEF JobStates
  <2> QED
    BY <1>0, <1>2, <2>1, <2>2, HostFacts
    DEF RunnerInv, Counted, Course, FilesAt, RuntimeAt, Delivered, Returned, Witnessed, Claims, In, At, OwnerIn,
        Calling, Recovery, Kept, History
<1>3. CASE Failed("INTERFACE", "STOP") /\ Go("ABORT", run.n)
  <2>1. run' \in Runs /\ run'.pc = "ABORT" /\ run'.n = run.n /\ run'.outcome = run.outcome /\ Kept /\ History
    BY <1>0, <1>3, GoFields DEF RunSteps
  <2>2. HostTypes'
    BY <1>0, <1>3, <2>1, FailedFacts, HostTyped, UnitTyped DEF JobStates
  <2> QED
    BY <1>0, <1>3, <2>1, <2>2, HostFacts
    DEF RunnerInv, Counted, Course, FilesAt, RuntimeAt, Delivered, Returned, Witnessed, Claims, In, At, OwnerIn,
        Calling, Recovery, Kept, History
<1> QED
  BY <1>1, <1>2, <1>3 DEF Consumers

LEMMA ReopenRun == ASSUME RollbackInv, InputsInv, RunnerInv, Reopen PROVE RunnerInv'
<1>0. /\ HostTypes /\ UNCHANGED <<filevars, inputvars, runtimevars, inbox, manager, witness>>
      /\ At("REOPEN") /\ "INTERFACE" \in GroupNames /\ run \in Runs /\ Startable
  BY GroupFacts, RunTyped, Deliverable DEF RunnerInv, Reopen, At
<1>1. CASE Started("INTERFACE", "NEW") /\ Go("START", 5)
  <2>1. run' \in Runs /\ run'.pc = "START" /\ run'.n = 5 /\ run'.outcome = run.outcome /\ Kept /\ History
    BY <1>0, <1>1, GoFields DEF RunSteps
  <2>2. HostTypes'
    BY <1>0, <1>1, <2>1, StartedFacts, HostTyped, UnitTyped DEF JobStates, UnitStates
  <2> QED
    BY <1>0, <1>1, <2>1, <2>2, HostFacts
    DEF RunnerInv, Counted, Course, FilesAt, RuntimeAt, Delivered, Returned, Witnessed, Claims, In, At, OwnerIn,
        Calling, Recovery, Kept, History
<1>2. CASE Failed("INTERFACE", "START") /\ Go("ABORT", 4)
  <2>1. run' \in Runs /\ run'.pc = "ABORT" /\ run'.n = 4 /\ run'.outcome = run.outcome /\ Kept /\ History
    BY <1>0, <1>2, GoFields DEF RunSteps
  <2>2. HostTypes'
    BY <1>0, <1>2, <2>1, FailedFacts, HostTyped, UnitTyped DEF JobStates
  <2> QED
    BY <1>0, <1>2, <2>1, <2>2, HostFacts
    DEF RunnerInv, Counted, Course, FilesAt, RuntimeAt, Delivered, Returned, Witnessed, Claims, In, At, OwnerIn,
        Calling, Recovery, Kept, History
<1> QED
  BY <1>1, <1>2 DEF Reopen

LEMMA AbortRun == ASSUME RunnerInv, Abort PROVE RunnerInv'
<1> DEFINE g == Lifecycle[run.n]
<1>0. /\ HostTypes /\ UNCHANGED <<filevars, inputvars, runtimevars, inbox, manager, witness>>
      /\ At("ABORT") /\ run.n \in 1..5 /\ run \in Runs /\ g \in GroupNames \cup {"RUNTIME"}
  <2>1. run.n \in 1..5
    BY DEF RunnerInv, Abort, Counted, At
  <2> QED
    BY <2>1, GroupFacts, RunTyped DEF RunnerInv, Abort
<1>1. CASE g = "RUNTIME" /\ UNCHANGED <<unit, job>> /\ Aborted(run.n - 1)
  <2>1. /\ run' \in Runs /\ run'.outcome = run.outcome /\ Kept /\ History
        /\ run'.pc = (IF run.n > 1 THEN "ABORT" ELSE "CAUGHT") /\ run'.n = run.n - 1
    <3>1. (IF run.n - 1 > 0 THEN "ABORT" ELSE "CAUGHT") \in RunSteps /\ run.n - 1 \in 0..5
          /\ (run.n > 1 <=> run.n - 1 > 0)
      BY <1>0 DEF RunSteps
    <3> QED
      BY <1>0, <1>1, <3>1, GoFields DEF Aborted
  <2>2. HostTypes'
    BY <1>0, <1>1, <2>1, HostTyped, UnitTyped DEF JobStates
  <2> QED
    BY <1>0, <1>1, <2>1, <2>2, HostFacts
    DEF RunnerInv, Counted, Course, FilesAt, RuntimeAt, Delivered, Returned, Witnessed, Claims, In, At, OwnerIn,
        Calling, Recovery, Kept, History
<1>2. CASE g # "RUNTIME" /\ Stopped(g) /\ Aborted(run.n - 1)
  <2>1. /\ run' \in Runs /\ run'.outcome = run.outcome /\ Kept /\ History
        /\ run'.pc = (IF run.n > 1 THEN "ABORT" ELSE "CAUGHT") /\ run'.n = run.n - 1
    <3>1. (IF run.n - 1 > 0 THEN "ABORT" ELSE "CAUGHT") \in RunSteps /\ run.n - 1 \in 0..5
          /\ (run.n > 1 <=> run.n - 1 > 0)
      BY <1>0 DEF RunSteps
    <3> QED
      BY <1>0, <1>2, <3>1, GoFields DEF Aborted
  <2>2. HostTypes'
    BY <1>0, <1>2, <2>1, StoppedFacts, HostTyped, UnitTyped DEF JobStates
  <2> QED
    BY <1>0, <1>2, <2>1, <2>2, HostFacts
    DEF RunnerInv, Counted, Course, FilesAt, RuntimeAt, Delivered, Returned, Witnessed, Claims, In, At, OwnerIn,
        Calling, Recovery, Kept, History
<1>3. CASE g # "RUNTIME" /\ Failed(g, "STOP") /\ AbortFails
  <2>1. /\ run' \in Runs /\ run'.pc = "CAUGHT" /\ run'.n = 0 /\ run'.outcome = run.outcome /\ Kept
        /\ run'.stopped = run.stopped /\ run'.reload = run.reload /\ run'.attempted = run.attempted
        /\ run'.restored = run.restored /\ run'.published = run.published /\ run'.failure
    BY <1>0, <1>3, FailsFields
  <2>2. HostTypes'
    BY <1>0, <1>3, <2>1, FailedFacts, HostTyped, UnitTyped DEF JobStates
  <2> QED
    BY <1>0, <1>3, <2>1, <2>2, HostFacts
    DEF RunnerInv, Counted, Course, FilesAt, RuntimeAt, Delivered, Returned, Witnessed, Claims, In, At, OwnerIn,
        Calling, Recovery, Kept, History
<1> QED
  BY <1>1, <1>2, <1>3 DEF Abort

LEMMA AbortRuntimeRun == ASSUME RunnerInv, AbortRuntime PROVE RunnerInv'
<1>0. /\ HostTypes /\ UNCHANGED <<filevars, inputvars, runtimevars, inbox, manager, witness>>
      /\ At("ABORT") /\ run.attempted /\ "INTERFACE" \in GroupNames /\ run.n = 4 /\ run \in Runs
  <2>1. run.n \in 1..5
    BY DEF RunnerInv, AbortRuntime, Counted, At
  <2> QED
    BY <2>1, GroupFacts, RunTyped DEF RunnerInv, AbortRuntime
<1>1. CASE Stopped("INTERFACE") /\ Go("UNMUTATE", run.n)
  <2>1. run' \in Runs /\ run'.pc = "UNMUTATE" /\ run'.n = run.n /\ run'.outcome = run.outcome /\ Kept /\ History
    BY <1>0, <1>1, GoFields DEF RunSteps
  <2>2. HostTypes'
    BY <1>0, <1>1, <2>1, StoppedFacts, HostTyped, UnitTyped DEF JobStates
  <2> QED
    BY <1>0, <1>1, <2>1, <2>2, HostFacts
    DEF RunnerInv, Counted, Course, FilesAt, RuntimeAt, Delivered, Returned, Witnessed, Claims, In, At, OwnerIn,
        Calling, Recovery, Kept, History
<1>2. CASE Failed("INTERFACE", "STOP") /\ AbortFails
  <2>1. /\ run' \in Runs /\ run'.pc = "CAUGHT" /\ run'.n = 0 /\ run'.outcome = run.outcome /\ Kept
        /\ run'.stopped = run.stopped /\ run'.reload = run.reload /\ run'.attempted = run.attempted
        /\ run'.restored = run.restored /\ run'.published = run.published /\ run'.failure
    BY <1>0, <1>2, FailsFields
  <2>2. HostTypes'
    BY <1>0, <1>2, <2>1, FailedFacts, HostTyped, UnitTyped DEF JobStates
  <2> QED
    BY <1>0, <1>2, <2>1, <2>2, HostFacts
    DEF RunnerInv, Counted, Course, FilesAt, RuntimeAt, Delivered, Returned, Witnessed, Claims, In, At, OwnerIn,
        Calling, Recovery, Kept, History
<1> QED
  BY <1>1, <1>2 DEF AbortRuntime

LEMMA HostSame ==
    ASSUME HostTypes, UNCHANGED <<unit, job>>, manager' \in {"BEFORE", "AFTER"}, witness' \in {"BEFORE", "NEW"},
           UNCHANGED inbox, run' \in Runs
    PROVE  HostTypes'
BY DEF HostTypes, Runs

LEMMA RefreshRun == ASSUME RunnerInv, Refresh PROVE RunnerInv'
<1>0. /\ HostTypes /\ UNCHANGED <<filevars, inputvars, runtimevars, inbox, unit, job, witness>>
      /\ At("REFRESH") /\ run \in Runs /\ manager' \in {"BEFORE", "AFTER"}
  BY RunTyped DEF RunnerInv, Refresh, Boundary, Inactive, HostTypes
<1>1. CASE manager' = "AFTER" /\ run' = [run EXCEPT !.reload = TRUE, !.pc = "ACCESS"]
  <2>1. run' \in Runs
    <3>1. TRUE \in BOOLEAN /\ "ACCESS" \in RunSteps
      BY DEF RunSteps
    <3> QED
      BY <1>0, <1>1, <3>1, FlagFields
  <2>2. /\ run'.pc = "ACCESS" /\ run'.n = run.n /\ run'.outcome = run.outcome /\ Kept
        /\ run'.stopped = run.stopped /\ run'.reload /\ run'.attempted = run.attempted
        /\ run'.restored = run.restored /\ run'.published = run.published /\ run'.failure = run.failure
    BY <1>0, <1>1 DEF Runs, Kept
  <2>3. HostTypes'
    BY <1>0, <2>1, HostSame DEF HostTypes
  <2> QED
    BY <1>0, <1>1, <2>2, <2>3, HostFacts
    DEF RunnerInv, Counted, Course, FilesAt, RuntimeAt, Delivered, Returned, Witnessed, Claims, In, At, OwnerIn,
        Calling, Recovery, Kept, History
<1>2. CASE run' = [run EXCEPT !.reload = TRUE, !.pc = "CAUGHT"]
  <2>1. run' \in Runs
    <3>1. TRUE \in BOOLEAN /\ "CAUGHT" \in RunSteps
      BY DEF RunSteps
    <3> QED
      BY <1>0, <1>2, <3>1, FlagFields
  <2>2. /\ run'.pc = "CAUGHT" /\ run'.n = run.n /\ run'.outcome = run.outcome /\ Kept
        /\ run'.stopped = run.stopped /\ run'.reload /\ run'.attempted = run.attempted
        /\ run'.restored = run.restored /\ run'.published = run.published /\ run'.failure = run.failure
    BY <1>0, <1>2 DEF Runs, Kept
  <2>3. HostTypes'
    BY <1>0, <2>1, HostSame DEF HostTypes
  <2> QED
    BY <1>0, <1>2, <2>2, <2>3, HostFacts
    DEF RunnerInv, Counted, Course, FilesAt, RuntimeAt, Delivered, Returned, Witnessed, Claims, In, At, OwnerIn,
        Calling, Recovery, Kept, History
<1> QED
  BY <1>1, <1>2 DEF Refresh

LEMMA FinalizeRun == ASSUME RollbackInv, InputsInv, RunnerInv, Finalize PROVE RunnerInv'
<1>0. /\ HostTypes /\ UNCHANGED <<filevars, inputvars, runtimevars, inbox, unit, job, manager>>
      /\ At("WITNESS") /\ run \in Runs /\ witness' = "NEW" /\ Startable
      /\ run.n \in 1..5
  BY RunTyped, Deliverable DEF RunnerInv, Finalize, At, Counted
<1>1. CASE run' = [run EXCEPT !.pc = "END", !.outcome = "INSTALLED", !.published = TRUE]
  <2>1. run' \in Runs
    <3>1. TRUE \in BOOLEAN /\ "END" \in RunSteps /\ "INSTALLED" \in Outcomes
      BY DEF RunSteps, Outcomes
    <3> QED
      BY <1>0, <1>1, <3>1, OverFields
  <2>2. /\ run'.pc = "END" /\ run'.n = run.n /\ run'.outcome = "INSTALLED" /\ Kept
        /\ run'.stopped = run.stopped /\ run'.reload = run.reload /\ run'.attempted = run.attempted
        /\ run'.restored = run.restored /\ run'.published /\ run'.failure = run.failure
    BY <1>0, <1>1 DEF Runs, Kept
  <2>3. HostTypes'
    BY <1>0, <2>1, HostSame DEF HostTypes
  <2> QED
    BY <1>0, <1>1, <2>2, <2>3, HostFacts
    DEF RunnerInv, Counted, Course, FilesAt, RuntimeAt, Delivered, Returned, Witnessed, Claims, In, At, OwnerIn,
        Calling, Recovery, Kept, History, Startable
<1>2. CASE run' = [run EXCEPT !.pc = "ABORT", !.published = TRUE]
  <2>1. run' \in Runs
    <3>1. TRUE \in BOOLEAN /\ "ABORT" \in RunSteps
      BY DEF RunSteps, Outcomes
    <3> QED
      BY <1>0, <1>2, <3>1, FlagFields
  <2>2. /\ run'.pc = "ABORT" /\ run'.n = run.n /\ run'.outcome = run.outcome /\ Kept
        /\ run'.stopped = run.stopped /\ run'.reload = run.reload /\ run'.attempted = run.attempted
        /\ run'.restored = run.restored /\ run'.published /\ run'.failure = run.failure
    BY <1>0, <1>2 DEF Runs, Kept
  <2>3. HostTypes'
    BY <1>0, <2>1, HostSame DEF HostTypes
  <2> QED
    BY <1>0, <1>2, <2>2, <2>3, HostFacts
    DEF RunnerInv, Counted, Course, FilesAt, RuntimeAt, Delivered, Returned, Witnessed, Claims, In, At, OwnerIn,
        Calling, Recovery, Kept, History, Startable
<1> QED
  BY <1>1, <1>2 DEF Finalize

LEMMA RereadRun == ASSUME RollbackInv, InputsInv, RunnerInv, Reread PROVE RunnerInv'
<1>0. /\ HostTypes /\ UNCHANGED <<filevars, inputvars, runtimevars, inbox, unit, job, witness>>
      /\ At("REREAD") /\ run \in Runs /\ manager' = "BEFORE"
      /\ \A g \in GroupNames : unit[g] = "STOPPED"
  BY RunTyped DEF RunnerInv, Reread, CompensationBoundary, Boundary, Inactive, HostTypes, Delivered
<1>1. ~Built /\ FilesBack
  <2>1. In("COMPENSATED")
    BY <1>0 DEF RunnerInv, FilesAt, At
  <2>2. journal.state = "ROLLBACK_COMPLETE"
    BY <2>1 DEF RollbackInv, JournalAt
  <2> QED
    BY <2>2, RollbackInvRestores DEF RollbackRestores, Built, FilesBack, Untouched
<1>2. CASE run.stopped /\ Go("RECOVER", 1)
  <2>1. run' \in Runs /\ run'.pc = "RECOVER" /\ run'.n = 1 /\ run'.outcome = run.outcome /\ Kept /\ History
    BY <1>0, <1>2, GoFields DEF RunSteps
  <2>2. HostTypes'
    BY <1>0, <1>2, <2>1, HostSame DEF HostTypes
  <2> QED
    BY <1>0, <1>2, <2>1, <2>2, HostFacts
    DEF RunnerInv, Counted, Course, FilesAt, RuntimeAt, Delivered, Returned, Witnessed, Claims, In, At, OwnerIn,
        Calling, Recovery, Kept, History
<1>3. CASE ~run.stopped /\ End("COMPENSATED")
  <2>1. run' \in Runs /\ run'.pc = "END" /\ run'.n = run.n /\ run'.outcome = "COMPENSATED" /\ Kept /\ History
    BY <1>0, <1>3, EndFields DEF Outcomes
  <2>3. OldInputs
    <3>1. run.mode = "FRESH" /\ owner.pc = "NONE"
      BY <1>0, <1>3 DEF RunnerInv, Course, At, OwnerIn
    <3> QED
      BY <3>1, RestoredInputs DEF OldInputs
  <2>2. HostTypes'
    BY <1>0, <1>3, <2>1, HostSame DEF HostTypes
  <2> QED
    BY <1>0, <1>3, <2>1, <2>2, HostFacts, <1>1, <2>3
    DEF RunnerInv, Counted, Course, FilesAt, RuntimeAt, Delivered, Returned, Witnessed, Claims, In, At, OwnerIn,
        Calling, Recovery, Kept, History
<1> QED
  BY <1>2, <1>3 DEF Reread

LEMMA ReloadRun == ASSUME RollbackInv, RunnerInv, Reload PROVE RunnerInv'
<1>0. /\ HostTypes /\ UNCHANGED <<filevars, inputvars, runtimevars, inbox, unit, job, witness>>
      /\ At("RELOAD") /\ run \in Runs /\ manager' = "BEFORE"
  BY RunTyped DEF RunnerInv, Reload
<1>1. ~Built /\ FilesBack
  <2>1. In("COMPENSATED")
    BY <1>0 DEF RunnerInv, FilesAt, At
  <2>2. journal.state = "ROLLBACK_COMPLETE"
    BY <2>1 DEF RollbackInv, JournalAt
  <2> QED
    BY <2>2, RollbackInvRestores DEF RollbackRestores, Built, FilesBack, Untouched
<1>2. CASE Inactive /\ End("RECOVERED")
  <2>1. run' \in Runs /\ run'.pc = "END" /\ run'.n = run.n /\ run'.outcome = "RECOVERED" /\ Kept /\ History
    BY <1>0, <1>2, EndFields DEF Outcomes
  <2>2. HostTypes'
    BY <1>0, <1>2, <2>1, HostSame DEF HostTypes
  <2> QED
    BY <1>0, <1>2, <2>1, <2>2, HostFacts, <1>1
    DEF RunnerInv, Counted, Course, FilesAt, RuntimeAt, Delivered, Returned, Witnessed, Claims, In, At, OwnerIn,
        Calling, Recovery, Kept, History
<1>3. CASE End("UNPROVEN")
  <2>1. run' \in Runs /\ run'.pc = "END" /\ run'.n = run.n /\ run'.outcome = "UNPROVEN" /\ Kept /\ History
    BY <1>0, <1>3, EndFields DEF Outcomes
  <2>2. HostTypes'
    BY <1>0, <1>3, <2>1, HostSame DEF HostTypes
  <2> QED
    BY <1>0, <1>3, <2>1, <2>2, HostFacts
    DEF RunnerInv, Counted, Course, FilesAt, RuntimeAt, Delivered, Returned, Witnessed, Claims, In, At, OwnerIn,
        Calling, Recovery, Kept, History
<1> QED
  BY <1>2, <1>3 DEF Reload

LEMMA RestoreInboxRun == ASSUME RunnerInv, RestoreInbox PROVE RunnerInv'
<1>0. /\ HostTypes /\ UNCHANGED <<filevars, inputvars, runtimevars, unit, job, manager, witness, run>>
      /\ At("INPUTS") /\ run.mode = "SUCCESSOR" /\ inbox.receipt = "NEW"
  BY DEF RunnerInv, RestoreInbox
<1>1. /\ UNCHANGED <<access, tx, journal, file, touched, call, receipt, owner>>
      /\ Built' = Built /\ FilesBack' = FilesBack /\ Pristine' = Pristine
      /\ RestorationObserved' = RestorationObserved
  BY <1>0, FilesStill, RuntimeStill DEF inputvars
<1>2. HostTypes' /\ (inbox'.receipt = "OLD" => inbox'.source = "OLD")
  <2>1. inbox' \in [source : {"OLD", "NEW", "NONE"}, receipt : {"OLD", "NEW"}] /\ (inbox'.receipt = "OLD" => inbox'.source = "OLD")
    <3>1. inbox \in [source : {"OLD", "NEW", "NONE"}, receipt : {"OLD", "NEW"}]
      BY <1>0 DEF HostTypes
    <3>2. \/ inbox.source = "NEW" /\ inbox' = [inbox EXCEPT !.source = "NONE"]
          \/ inbox.source = "NONE" /\ inbox' = [inbox EXCEPT !.source = "OLD"]
          \/ inbox.source = "OLD" /\ inbox' = [inbox EXCEPT !.receipt = "OLD"]
      BY <3>1 DEF RestoreInbox
    <3> QED
      BY <1>0, <3>1, <3>2
  <2> QED
    BY <1>0, <2>1 DEF HostTypes
<1> QED
  BY <1>0, <1>1, <1>2
  DEF RunnerInv, Counted, Course, FilesAt, RuntimeAt, Delivered, Returned, Witnessed, Claims, In, At, OwnerIn,
        Calling, Recovery, Kept, History

LEMMA RestartRun == ASSUME RunnerInv, Restart PROVE RunnerInv'
<1> DEFINE g == Groups[run.n]
           pc == IF run.n < 4 THEN "RESTART" ELSE "CHECK"
           n == IF run.n < 4 THEN run.n + 1 ELSE 1
<1>0. /\ HostTypes /\ UNCHANGED <<filevars, inputvars, runtimevars, inbox, manager, witness>>
      /\ At("RESTART") /\ run.restart /\ run.n \in 1..4 /\ run \in Runs /\ g \in GroupNames /\ Restartable
  <2>1. run.n \in 1..4 /\ run.restart
    BY DEF RunnerInv, Restart, Counted, Course, At
  <2>2. Restartable
    BY DEF RunnerInv, Restart, FilesAt, Returned, Restartable, At
  <2> QED
    BY <2>1, <2>2, GroupFacts, RunTyped DEF RunnerInv, Restart
<1>p. pc \in RunSteps /\ n \in 0..5 /\ pc \in {"RESTART", "CHECK"} /\ (pc = "RESTART" => n \in 1..4)
  BY <1>0 DEF RunSteps
<1> HIDE DEF pc, n
<1>1. CASE Go(pc, n) /\ UNCHANGED <<unit, job>>
  <2>1. run' \in Runs /\ run'.pc = pc /\ run'.n = n /\ run'.outcome = run.outcome /\ Kept /\ History
    BY <1>0, <1>p, <1>1, GoFields
  <2>2. HostTypes'
    BY <1>0, <1>1, <2>1, HostSame DEF HostTypes
  <2> QED
    BY <1>0, <1>1, <2>1, <2>2, HostFacts, <1>p
    DEF RunnerInv, Counted, Course, FilesAt, RuntimeAt, Delivered, Returned, Witnessed, Claims, In, At, OwnerIn,
        Calling, Recovery, Kept, History
<1>2. CASE Started(g, "OLD") /\ Go(pc, n)
  <2>1. run' \in Runs /\ run'.pc = pc /\ run'.n = n /\ run'.outcome = run.outcome /\ Kept /\ History
    BY <1>0, <1>p, <1>2, GoFields
  <2>2. HostTypes'
    BY <1>0, <1>2, <2>1, StartedFacts, HostTyped, UnitTyped DEF JobStates, UnitStates
  <2> QED
    BY <1>0, <1>2, <2>1, <2>2, HostFacts, <1>p
    DEF RunnerInv, Counted, Course, FilesAt, RuntimeAt, Delivered, Returned, Witnessed, Claims, In, At, OwnerIn,
        Calling, Recovery, Kept, History
<1>3. CASE Failed(g, "START") /\ Go("AWAIT", run.n)
  <2>1. run' \in Runs /\ run'.pc = "AWAIT" /\ run'.n = run.n /\ run'.outcome = run.outcome /\ Kept /\ History
    BY <1>0, <1>3, GoFields DEF RunSteps
  <2>2. HostTypes'
    BY <1>0, <1>3, <2>1, FailedFacts, HostTyped, UnitTyped DEF JobStates
  <2> QED
    BY <1>0, <1>3, <2>1, <2>2, HostFacts
    DEF RunnerInv, Counted, Course, FilesAt, RuntimeAt, Delivered, Returned, Witnessed, Claims, In, At, OwnerIn,
        Calling, Recovery, Kept, History
<1> QED
  BY <1>0, <1>1, <1>2, <1>3 DEF Restart, NextGroup, pc, n

LEMMA AwaitRun == ASSUME RunnerInv, Await PROVE RunnerInv'
<1> DEFINE pc == IF run.n < 4 THEN "RESTART" ELSE "CHECK"
           n == IF run.n < 4 THEN run.n + 1 ELSE 1
<1>0. HostTypes /\ Still /\ At("AWAIT") /\ run.n \in 1..4 /\ Go(pc, n)
  BY DEF RunnerInv, Await, Still, Counted, At, NextGroup
<1>p. pc \in RunSteps /\ n \in 0..5 /\ pc \in {"RESTART", "CHECK"} /\ (pc = "RESTART" => n \in 1..4)
  BY <1>0 DEF RunSteps
<1> HIDE DEF pc, n
<1>1. run' \in Runs /\ run'.pc = pc /\ run'.n = n /\ run'.outcome = run.outcome /\ Kept /\ History
  BY <1>0, <1>p, GoFields
<1> QED
  BY <1>0, <1>p, <1>1, StillFacts
  DEF RunnerInv, Counted, Course, FilesAt, RuntimeAt, Delivered, Returned, Witnessed, Claims, In, At, OwnerIn, Calling,
      Recovery, Kept, History

LEMMA StopAttemptRun == ASSUME RunnerInv, StopAttempt PROVE RunnerInv'
<1> DEFINE g == Groups[run.n]
           pc == IF run.n > 1 THEN "STOP" ELSE "COMPENSATE"
           n == IF run.n > 1 THEN run.n - 1 ELSE 1
<1>0. /\ HostTypes /\ UNCHANGED <<filevars, inputvars, runtimevars, inbox, manager, witness>>
      /\ At("STOP") /\ run.n \in 1..4 /\ run \in Runs /\ g \in GroupNames
  <2>1. run.n \in 1..4
    BY DEF RunnerInv, StopAttempt, Counted, At
  <2> QED
    BY <2>1, GroupFacts, RunTyped DEF RunnerInv, StopAttempt
<1>p. pc \in RunSteps /\ n \in 0..5 /\ pc \in {"STOP", "COMPENSATE"} /\ (pc = "STOP" => n \in 1..4)
      /\ (pc = "COMPENSATE" => run.n = 1)
  BY <1>0 DEF RunSteps
<1> HIDE DEF pc, n
<1>3. CASE Stopped(g) /\ Go(pc, n)
  <2>1. run' \in Runs /\ run'.pc = pc /\ run'.n = n /\ run'.outcome = run.outcome /\ Kept /\ History
    BY <1>0, <1>p, <1>3, GoFields
  <2>2. HostTypes'
    BY <1>0, <1>3, <2>1, StoppedFacts, HostTyped, UnitTyped DEF JobStates
  <2> QED
    BY <1>0, <1>p, <1>3, <2>1, <2>2, HostFacts
    DEF RunnerInv, Counted, Course, FilesAt, RuntimeAt, Delivered, Returned, Witnessed, Claims, In, At, OwnerIn,
        Calling, Recovery, Kept, History
<1>4. CASE Failed(g, "STOP") /\ End("UNPROVEN")
  <2>1. run' \in Runs /\ run'.pc = "END" /\ run'.n = run.n /\ run'.outcome = "UNPROVEN" /\ Kept /\ History
    BY <1>0, <1>4, EndFields DEF Outcomes
  <2>2. HostTypes'
    BY <1>0, <1>4, <2>1, FailedFacts, HostTyped, UnitTyped DEF JobStates
  <2> QED
    BY <1>0, <1>4, <2>1, <2>2, HostFacts
    DEF RunnerInv, Counted, Course, FilesAt, RuntimeAt, Delivered, Returned, Witnessed, Claims, In, At, OwnerIn,
        Calling, Recovery, Kept, History
<1> QED
  BY <1>3, <1>4 DEF StopAttempt, pc, n

LEMMA StopAllRun == ASSUME RunnerInv, StopAll PROVE RunnerInv'
<1>0. /\ HostTypes /\ UNCHANGED <<filevars, inputvars, runtimevars, inbox, manager, witness>>
      /\ At("RETIRE") /\ run \in Runs
  BY RunTyped DEF RunnerInv, StopAll
<1> PICK left \in SUBSET GroupNames :
        /\ unit' = [g \in GroupNames |-> IF g \in left THEN unit[g] ELSE "STOPPED"]
        /\ job' = [g \in GroupNames |-> IF g \in left THEN job[g] ELSE "NONE"]
        /\ IF left = {} THEN Go("RETIRE", 2) ELSE End("UNPROVEN")
  BY DEF StopAll
<1>t. /\ unit' \in [GroupNames -> UnitStates] /\ job' \in [GroupNames -> JobStates]
  BY <1>0, UnitTyped DEF UnitStates, JobStates
<1>1. CASE left = {} /\ Go("RETIRE", 2)
  <2>1. run' \in Runs /\ run'.pc = "RETIRE" /\ run'.n = 2 /\ run'.outcome = run.outcome /\ Kept /\ History
    BY <1>0, <1>1, GoFields DEF RunSteps
  <2>2. HostTypes'
    BY <1>0, <1>1, <2>1, <1>t, HostTyped
  <2> QED
    BY <1>0, <1>1, <2>1, <2>2, HostFacts
    DEF RunnerInv, Counted, Course, FilesAt, RuntimeAt, Delivered, Returned, Witnessed, Claims, In, At, OwnerIn,
        Calling, Recovery, Kept, History
<1>2. CASE left # {} /\ End("UNPROVEN")
  <2>1. run' \in Runs /\ run'.pc = "END" /\ run'.n = run.n /\ run'.outcome = "UNPROVEN" /\ Kept /\ History
    BY <1>0, <1>2, EndFields DEF Outcomes
  <2>2. HostTypes'
    BY <1>0, <1>2, <2>1, <1>t, HostTyped
  <2> QED
    BY <1>0, <1>2, <2>1, <2>2, HostFacts
    DEF RunnerInv, Counted, Course, FilesAt, RuntimeAt, Delivered, Returned, Witnessed, Claims, In, At, OwnerIn,
        Calling, Recovery, Kept, History
<1> QED
  BY <1>1, <1>2

LEMMA SettleRun == ASSUME RunnerInv, NEW g \in GroupNames, Settle(g) PROVE RunnerInv'
<1>0. HostTypes /\ UNCHANGED <<filevars, inputvars, runtimevars, inbox, manager, witness, run>>
  BY DEF RunnerInv, Settle
<1>1. run' \in Runs /\ run'.pc = run.pc /\ run'.n = run.n /\ run'.outcome = run.outcome /\ Kept /\ History
  BY <1>0, SameFields
<1>2. HostTypes'
  <2>1. unit' \in [GroupNames -> UnitStates] /\ job' \in [GroupNames -> JobStates]
    BY <1>0, UnitTyped DEF Settle, UnitStates, JobStates
  <2> QED
    BY <1>0, <1>1, <2>1, HostTyped
<1> QED
  BY <1>0, <1>1, <1>2, HostFacts
  DEF RunnerInv, Counted, Course, FilesAt, RuntimeAt, Delivered, Returned, Witnessed, Claims, In, At, OwnerIn,
        Calling, Recovery, Kept, History

\* A step of the transaction over the files.
LEMMA FilesMove ==
    ASSUME UNCHANGED <<inputvars, hostvars>>, HostTypes, run' \in Runs, Kept
    PROVE  /\ HostTypes' /\ UNCHANGED <<unit, job, manager, witness, inbox, call, receipt, owner>>
           /\ Pristine' = Pristine /\ RestorationObserved' = RestorationObserved
           /\ NewInputs' = NewInputs /\ OldInputs' = OldInputs
<1>1. UNCHANGED <<inputvars, unit, job, manager, runtimevars, witness, inbox>>
  BY DEF hostvars
<1> QED
  BY <1>1, RuntimeStill, InputsStill DEF HostTypes, Runs

LEMMA InstallRun == ASSUME RunnerInv, Install PROVE RunnerInv'
<1>0. /\ HostTypes /\ UNCHANGED <<inputvars, hostvars>> /\ At("INSTALL")
  BY DEF RunnerInv, Install, Boundary
<1>1. CASE UNCHANGED run
  <2>1. run' \in Runs /\ run'.pc = run.pc /\ run'.n = run.n /\ run'.outcome = run.outcome /\ Kept /\ History
    BY <1>0, <1>1, SameFields
  <2> QED
    BY <1>0, <1>1, <2>1, FilesMove
    DEF RunnerInv, Counted, Course, FilesAt, RuntimeAt, Delivered, Returned, Witnessed, Claims, In, At, OwnerIn,
        Calling, Recovery, Kept, History
<1>2. CASE tx'.pc = "RETURNED" /\ run.mode = "TRANSITION" /\ Go("PUBLISH", 1)
  <2>1. run' \in Runs /\ run'.pc = "PUBLISH" /\ run'.n = 1 /\ run'.outcome = run.outcome /\ Kept /\ History
    BY <1>0, <1>2, GoFields DEF RunSteps
  <2> QED
    BY <1>0, <1>2, <2>1, FilesMove
    DEF RunnerInv, Counted, Course, FilesAt, RuntimeAt, Delivered, Returned, Witnessed, Claims, In, At, OwnerIn,
        Calling, Recovery, Kept, History
<1>3. CASE tx'.pc = "RETURNED" /\ run.mode # "TRANSITION" /\ Go("REFRESH", 1)
  <2>1. run' \in Runs /\ run'.pc = "REFRESH" /\ run'.n = 1 /\ run'.outcome = run.outcome /\ Kept /\ History
    BY <1>0, <1>3, GoFields DEF RunSteps
  <2> QED
    BY <1>0, <1>3, <2>1, FilesMove
    DEF RunnerInv, Counted, Course, FilesAt, RuntimeAt, Delivered, Returned, Witnessed, Claims, In, At, OwnerIn,
        Calling, Recovery, Kept, History
<1> QED
  BY <1>1, <1>2, <1>3 DEF Install

LEMMA InstallFailsRun == ASSUME RunnerInv, InstallFails PROVE RunnerInv'
<1>0. /\ HostTypes /\ UNCHANGED <<inputvars, hostvars>> /\ At("INSTALL")
  BY DEF RunnerInv, InstallFails
<1>1. CASE UNCHANGED run
  <2>1. run' \in Runs /\ run'.pc = run.pc /\ run'.n = run.n /\ run'.outcome = run.outcome /\ Kept /\ History
    BY <1>0, <1>1, SameFields
  <2> QED
    BY <1>0, <1>1, <2>1, FilesMove
    DEF RunnerInv, Counted, Course, FilesAt, RuntimeAt, Delivered, Returned, Witnessed, Claims, In, At, OwnerIn,
        Calling, Recovery, Kept, History
<1> QED
  BY <1>1 DEF InstallFails

LEMMA AccessRun == ASSUME RunnerInv, Access PROVE RunnerInv'
<1>0. /\ HostTypes /\ UNCHANGED <<inputvars, hostvars>> /\ At("ACCESS") /\ UNCHANGED tx /\ access' = "OBSERVER"
  BY DEF RunnerInv, Access, Boundary, Inactive, ApplyAccess
<1>1. CASE Go("START", 1)
  <2>1. run' \in Runs /\ run'.pc = "START" /\ run'.n = 1 /\ run'.outcome = run.outcome /\ Kept /\ History
    BY <1>0, <1>1, GoFields DEF RunSteps
  <2> QED
    BY <1>0, <1>1, <2>1, FilesMove
    DEF RunnerInv, Counted, Course, FilesAt, RuntimeAt, Delivered, Returned, Witnessed, Claims, In, At, OwnerIn,
        Calling, Recovery, Kept, History
<1> QED
  BY <1>1 DEF Access

LEMMA RevokeRun == ASSUME RunnerInv, Revoke PROVE RunnerInv'
<1>0. /\ HostTypes /\ UNCHANGED <<inputvars, hostvars>> /\ At("REVOKE") /\ UNCHANGED <<tx, journal, file, touched>>
  BY DEF RunnerInv, Revoke, CompensationBoundary, Boundary, Inactive, RevokeAccess, RestoreAccess
<1>b. Built' = Built
  BY <1>0 DEF Built
<1>1. CASE Go("ROLLBACK", 1)
  <2>1. run' \in Runs /\ run'.pc = "ROLLBACK" /\ run'.n = 1 /\ run'.outcome = run.outcome /\ Kept /\ History
    BY <1>0, <1>1, GoFields DEF RunSteps
  <2> QED
    BY <1>0, <1>1, <2>1, FilesMove, <1>b
    DEF RunnerInv, Counted, Course, FilesAt, RuntimeAt, Delivered, Returned, Witnessed, Claims, In, At, OwnerIn,
        Calling, Recovery, Kept, History
<1> QED
  BY <1>1 DEF Revoke

LEMMA RollbackRun == ASSUME RunnerInv, Rollback PROVE RunnerInv'
<1>0. /\ HostTypes /\ UNCHANGED <<inputvars, hostvars>> /\ At("ROLLBACK")
      /\ (run.attempted => RestorationObserved)
  BY DEF RunnerInv, Rollback, CompensationBoundary, Boundary
<1>1. CASE UNCHANGED run
  <2>1. run' \in Runs /\ run'.pc = run.pc /\ run'.n = run.n /\ run'.outcome = run.outcome /\ Kept /\ History
    BY <1>0, <1>1, SameFields
  <2> QED
    BY <1>0, <1>1, <2>1, FilesMove
    DEF RunnerInv, Counted, Course, FilesAt, RuntimeAt, Delivered, Returned, Witnessed, Claims, In, At, OwnerIn,
        Calling, Recovery, Kept, History
<1>2. CASE tx'.pc = "COMPENSATED" /\ run.mode = "TRANSITION" /\ Go("REVERT", 1)
  <2>1. run' \in Runs /\ run'.pc = "REVERT" /\ run'.n = 1 /\ run'.outcome = run.outcome /\ Kept /\ History
    BY <1>0, <1>2, GoFields DEF RunSteps
  <2> QED
    BY <1>0, <1>2, <2>1, FilesMove
    DEF RunnerInv, Counted, Course, FilesAt, RuntimeAt, Delivered, Returned, Witnessed, Claims, In, At, OwnerIn,
        Calling, Recovery, Kept, History
<1>3. CASE tx'.pc = "COMPENSATED" /\ run.mode # "TRANSITION" /\ Go("REREAD", 1)
  <2>1. run' \in Runs /\ run'.pc = "REREAD" /\ run'.n = 1 /\ run'.outcome = run.outcome /\ Kept /\ History
    BY <1>0, <1>3, GoFields DEF RunSteps
  <2> QED
    BY <1>0, <1>3, <2>1, FilesMove
    DEF RunnerInv, Counted, Course, FilesAt, RuntimeAt, Delivered, Returned, Witnessed, Claims, In, At, OwnerIn,
        Calling, Recovery, Kept, History
<1> QED
  BY <1>1, <1>2, <1>3 DEF Rollback

LEMMA RollbackFailsRun == ASSUME RunnerInv, RollbackFails PROVE RunnerInv'
<1>0. /\ HostTypes /\ UNCHANGED <<inputvars, hostvars>> /\ At("ROLLBACK")
      /\ UNCHANGED <<access, journal, file, touched>>
  BY DEF RunnerInv, RollbackFails, RaiseAgain
<1>b. Built' = Built
  BY <1>0 DEF Built
<1>1. CASE run.stopped /\ Go("RECOVER", 1)
  <2>1. run' \in Runs /\ run'.pc = "RECOVER" /\ run'.n = 1 /\ run'.outcome = run.outcome /\ Kept /\ History
    BY <1>0, <1>1, GoFields DEF RunSteps
  <2> QED
    BY <1>0, <1>1, <2>1, FilesMove, <1>b
    DEF RunnerInv, Counted, Course, FilesAt, RuntimeAt, Delivered, Returned, Witnessed, Claims, In, At, OwnerIn,
        Calling, Recovery, Kept, History
<1>2. CASE ~run.stopped /\ End("FAILED")
  <2>1. run' \in Runs /\ run'.pc = "END" /\ run'.n = run.n /\ run'.outcome = "FAILED" /\ Kept /\ History
    BY <1>0, <1>2, EndFields DEF Outcomes
  <2> QED
    BY <1>0, <1>2, <2>1, FilesMove, <1>b
    DEF RunnerInv, Counted, Course, FilesAt, RuntimeAt, Delivered, Returned, Witnessed, Claims, In, At, OwnerIn,
        Calling, Recovery, Kept, History
<1> QED
  BY <1>1, <1>2 DEF RollbackFails, Escape

LEMMA CompensateRun == ASSUME RunnerInv, Compensate PROVE RunnerInv'
<1>0. /\ HostTypes /\ UNCHANGED <<inputvars, hostvars>> /\ At("COMPENSATE")
  BY DEF RunnerInv, Compensate
<1>1. CASE UNCHANGED run
  <2>1. run' \in Runs /\ run'.pc = run.pc /\ run'.n = run.n /\ run'.outcome = run.outcome /\ Kept /\ History
    BY <1>0, <1>1, SameFields
  <2> QED
    BY <1>0, <1>1, <2>1, FilesMove
    DEF RunnerInv, Counted, Course, FilesAt, RuntimeAt, Delivered, Returned, Witnessed, Claims, In, At, OwnerIn,
        Calling, Recovery, Kept, History
<1>2. CASE tx'.pc = "COMPENSATED" /\ Go("RELOAD", 1)
  <2>1. run' \in Runs /\ run'.pc = "RELOAD" /\ run'.n = 1 /\ run'.outcome = run.outcome /\ Kept /\ History
    BY <1>0, <1>2, GoFields DEF RunSteps
  <2> QED
    BY <1>0, <1>2, <2>1, FilesMove
    DEF RunnerInv, Counted, Course, FilesAt, RuntimeAt, Delivered, Returned, Witnessed, Claims, In, At, OwnerIn,
        Calling, Recovery, Kept, History
<1> QED
  BY <1>1, <1>2 DEF Compensate

LEMMA CompensateFailsRun == ASSUME RunnerInv, CompensateFails PROVE RunnerInv'
<1>0. /\ HostTypes /\ UNCHANGED <<inputvars, hostvars>> /\ At("COMPENSATE")
      /\ UNCHANGED <<access, journal, file, touched>>
  BY DEF RunnerInv, CompensateFails, RaiseAgain
<1>b. Built' = Built
  BY <1>0 DEF Built
<1>1. CASE End("UNPROVEN")
  <2>1. run' \in Runs /\ run'.pc = "END" /\ run'.n = run.n /\ run'.outcome = "UNPROVEN" /\ Kept /\ History
    BY <1>0, <1>1, EndFields DEF Outcomes
  <2> QED
    BY <1>0, <1>1, <2>1, FilesMove, <1>b
    DEF RunnerInv, Counted, Course, FilesAt, RuntimeAt, Delivered, Returned, Witnessed, Claims, In, At, OwnerIn,
        Calling, Recovery, Kept, History
<1> QED
  BY <1>1 DEF CompensateFails

LEMMA ForeignRun ==
    ASSUME RunnerInv, FilesTypeOK, NEW t \in Targets, Foreign(t), UNCHANGED <<inputvars, hostvars, run>>
    PROVE  RunnerInv'
<1>0. /\ HostTypes /\ UNCHANGED <<inputvars, hostvars, run>> /\ UNCHANGED <<access, journal, tx>>
  BY DEF RunnerInv, Foreign
<1>b. Built' = Built /\ (FilesBack => FilesBack')
  <2>1. \A u \in Untouched' : u \in Untouched /\ u # t
    BY DEF Foreign, Untouched
  <2>2. FilesBack => FilesBack'
    BY <2>1 DEF Foreign, FilesBack, Untouched, FilesTypeOK
  <2> QED
    BY <1>0, <2>2 DEF Built
<1>1. CASE UNCHANGED run
  <2>1. run' \in Runs /\ run'.pc = run.pc /\ run'.n = run.n /\ run'.outcome = run.outcome /\ Kept /\ History
    BY <1>0, <1>1, SameFields
  <2> QED
    BY <1>0, <1>1, <2>1, FilesMove, <1>b
    DEF RunnerInv, Counted, Course, FilesAt, RuntimeAt, Delivered, Returned, Witnessed, Claims, In, At, OwnerIn,
        Calling, Recovery, Kept, History, Startable, Restartable
<1> QED
  BY <1>0, <1>1

\* A step of the transition of the canonical inputs.
LEMMA InputsMove ==
    ASSUME UNCHANGED <<filevars, hostvars>>, HostTypes, run' \in Runs, Kept
    PROVE  /\ HostTypes' /\ UNCHANGED <<unit, job, manager, witness, inbox, access, tx, journal, file, touched, call, receipt>>
           /\ Pristine' = Pristine /\ RestorationObserved' = RestorationObserved
           /\ Built' = Built /\ FilesBack' = FilesBack
           /\ UNCHANGED place => NewInputs' = NewInputs /\ OldInputs' = OldInputs
<1>1. UNCHANGED <<filevars, unit, job, manager, runtimevars, witness, inbox>>
  BY DEF hostvars
<1>2. UNCHANGED place => NewInputs' = NewInputs /\ OldInputs' = OldInputs
  BY <1>1 DEF NewInputs, OldInputs, Kept
<1> QED
  BY <1>1, <1>2, RuntimeStill, FilesStill DEF HostTypes, Runs

Settling == {"PREPARED", "KEPT", "RESTORED", "ENDED"}
LEMMA PublishOwner ==
    ASSUME OwnerTypes, PublishInputs
    PROVE  owner'.restored = owner.restored
BY DEF OwnerTypes, PublishInputs, RecordPreparation, StageInput, WriteIntent, WriteState, PublishAside, PublishInto,
   PublishPhaseRow, OwnerTo

LEMMA LoseOwner ==
    ASSUME OwnerTypes, LoseInputs
    PROVE  /\ owner'.restored = owner.restored /\ owner'.pc = "UNCERTAIN" /\ UNCHANGED place
           /\ owner.pc \in {"STATE", "ASIDE", "INTO", "PHASE", "OUT", "BACK", "BACK_PHASE"}
BY DEF OwnerTypes, LoseInputs, OwnerTo

LEMMA RestoreOwner ==
    ASSUME OwnerTypes, RestoreInputs \/ RestoreFound, owner.restored => owner.pc \in Settling
    PROVE  (owner'.restored => owner'.pc \in Settling) /\ owner.pc # "NONE"
<1> USE DEF OwnerTypes, Settling, OwnerTo, OwnerIn
<1>1. CASE RestoreNothing
  BY <1>1 DEF RestoreNothing
<1>2. CASE RetainPreparation
  BY <1>2 DEF RetainPreparation
<1>3. CASE OpenRestore
  BY <1>3 DEF OpenRestore
<1>4. CASE RestoreOut
  BY <1>4 DEF RestoreOut
<1>5. CASE RestoreBack
  BY <1>5 DEF RestoreBack
<1>6. CASE RestorePhaseRow
  BY <1>6 DEF RestorePhaseRow
<1>7. CASE NewAway
  BY <1>7 DEF NewAway
<1>8. CASE OldHome
  BY <1>8 DEF OldHome
<1>9. CASE RestoredRow
  BY <1>9 DEF RestoredRow
<1> QED
  BY <1>1, <1>2, <1>3, <1>4, <1>5, <1>6, <1>7, <1>8, <1>9 DEF RestoreInputs, RestoreFound

LEMMA RestoredHow == RunnerInv => (owner.restored => owner.pc \in Settling)
BY DEF RunnerInv, Returned, Settling

LEMMA PrepareRun == ASSUME RollbackInv, RunnerInv, Prepare PROVE RunnerInv'
<1>0. /\ HostTypes /\ UNCHANGED <<filevars, hostvars>> /\ At("PREPARE") /\ owner' = [NoOwner EXCEPT !.pc = "PREPARED"] /\ ~Built
  <2>1. At("PREPARE")
    BY DEF Prepare
  <2>2. ~Built
    BY <2>1 DEF RollbackInv, JournalAt, RunnerInv, FilesAt, Built, In, At
  <2> QED
    BY <2>2 DEF RunnerInv, Prepare, PrepareInputs
<1>1. CASE Go("QUIESCE", 4)
  <2>1. run' \in Runs /\ run'.pc = "QUIESCE" /\ run'.n = 4 /\ run'.outcome = run.outcome /\ Kept /\ History
    BY <1>0, <1>1, GoFields DEF RunSteps
  <2> QED
    BY <1>0, <1>1, <2>1, InputsMove
    DEF RunnerInv, Counted, Course, FilesAt, RuntimeAt, Delivered, Returned, Witnessed, Claims, In, At, OwnerIn,
        Calling, Recovery, Kept, History, NoOwner, Startable
<1> QED
  BY <1>1 DEF Prepare

LEMMA PublishRun == ASSUME InputsInv, RunnerInv, Publish PROVE RunnerInv'
<1>0. /\ HostTypes /\ UNCHANGED <<filevars, hostvars>> /\ At("PUBLISH") /\ ~owner'.restored
  BY PublishOwner DEF RunnerInv, Publish, Inactive, Returned, InputsInv, At
<1>m. run.mode = "TRANSITION"
  BY <1>0 DEF RunnerInv, Course, At
<1>1. CASE owner'.pc = "PUBLISHED" /\ Go("REFRESH", 1)
  <2>1. run' \in Runs /\ run'.pc = "REFRESH" /\ run'.n = 1 /\ run'.outcome = run.outcome /\ Kept /\ History
    BY <1>0, <1>1, GoFields DEF RunSteps
  <2> QED
    BY <1>0, <1>1, <2>1, InputsMove, <1>m
    DEF RunnerInv, Counted, Course, FilesAt, RuntimeAt, Delivered, Returned, Witnessed, Claims, In, At, OwnerIn,
        Calling, Recovery, Kept, History
<1>2. CASE UNCHANGED run
  <2>1. run' \in Runs /\ run'.pc = run.pc /\ run'.n = run.n /\ run'.outcome = run.outcome /\ Kept /\ History
    BY <1>0, <1>2, SameFields
  <2> QED
    BY <1>0, <1>2, <2>1, InputsMove, <1>m
    DEF RunnerInv, Counted, Course, FilesAt, RuntimeAt, Delivered, Returned, Witnessed, Claims, In, At, OwnerIn,
        Calling, Recovery, Kept, History
<1> QED
  BY <1>1, <1>2 DEF Publish

LEMMA PublishLostRun == ASSUME InputsInv, RunnerInv, PublishLost PROVE RunnerInv'
<1>0. /\ HostTypes /\ UNCHANGED <<filevars, hostvars>> /\ At("PUBLISH") /\ ~owner'.restored /\ UNCHANGED place /\ run \in Runs
  BY LoseOwner, RunTyped DEF RunnerInv, PublishLost, Returned, InputsInv, At
<1>m. run.mode = "TRANSITION"
  BY <1>0 DEF RunnerInv, Course, At
<1>1. CASE Go("CAUGHT", 0)
  <2>1. run' \in Runs /\ run'.pc = "CAUGHT" /\ run'.n = 0 /\ run'.outcome = run.outcome /\ Kept /\ History
    BY <1>0, <1>1, GoFields DEF RunSteps
  <2> QED
    BY <1>0, <1>1, <2>1, InputsMove, <1>m
    DEF RunnerInv, Counted, Course, FilesAt, RuntimeAt, Delivered, Returned, Witnessed, Claims, In, At, OwnerIn,
        Calling, Recovery, Kept, History, Startable, Restartable
<1>2. CASE run' = [run EXCEPT !.pc = "END", !.outcome = "UNCERTAIN", !.published = TRUE]
  <2>1. /\ run' \in Runs /\ run'.pc = "END" /\ run'.n = run.n /\ run'.outcome = "UNCERTAIN" /\ Kept
        /\ run'.stopped = run.stopped /\ run'.reload = run.reload /\ run'.attempted = run.attempted
        /\ run'.restored = run.restored /\ run'.published /\ run'.failure = run.failure
    <3>1. TRUE \in BOOLEAN /\ "END" \in RunSteps /\ "UNCERTAIN" \in Outcomes
      BY DEF RunSteps, Outcomes
    <3>2. run' \in Runs
      BY <1>0, <1>2, <3>1, OverFields
    <3> QED
      BY <1>0, <1>2, <3>2 DEF Runs, Kept
  <2> QED
    BY <1>0, <1>2, <2>1, InputsMove, <1>m
    DEF RunnerInv, Counted, Course, FilesAt, RuntimeAt, Delivered, Returned, Witnessed, Claims, In, At, OwnerIn,
        Calling, Recovery, Kept, History, Startable, Restartable
<1> QED
  BY <1>1, <1>2 DEF PublishLost

LEMMA RevertRun == ASSUME InputsInv, RunnerInv, Revert PROVE RunnerInv'
<1>0. /\ HostTypes /\ UNCHANGED <<filevars, hostvars>> /\ At("REVERT")
      /\ (owner'.restored => owner'.pc \in Settling)
  BY RestoreOwner, RestoredHow DEF RunnerInv, Revert, InputsInv
<1>m. run.mode = "TRANSITION"
  BY <1>0 DEF RunnerInv, Course, At
<1>1. CASE Go("REREAD", 1)
  <2>1. run' \in Runs /\ run'.pc = "REREAD" /\ run'.n = 1 /\ run'.outcome = run.outcome /\ Kept /\ History
    BY <1>0, <1>1, GoFields DEF RunSteps
  <2> QED
    BY <1>0, <1>1, <2>1, InputsMove, <1>m
    DEF RunnerInv, Counted, Course, FilesAt, RuntimeAt, Delivered, Returned, Witnessed, Claims, In, At, OwnerIn,
        Calling, Recovery, Kept, History, Settling
<1>2. CASE UNCHANGED run
  <2>1. run' \in Runs /\ run'.pc = run.pc /\ run'.n = run.n /\ run'.outcome = run.outcome /\ Kept /\ History
    BY <1>0, <1>2, SameFields
  <2> QED
    BY <1>0, <1>2, <2>1, InputsMove, <1>m
    DEF RunnerInv, Counted, Course, FilesAt, RuntimeAt, Delivered, Returned, Witnessed, Claims, In, At, OwnerIn,
        Calling, Recovery, Kept, History, Settling
<1> QED
  BY <1>1, <1>2 DEF Revert

LEMMA RevertLostRun == ASSUME InputsInv, RunnerInv, RevertLost PROVE RunnerInv'
<1>0. /\ HostTypes /\ UNCHANGED <<filevars, hostvars>> /\ At("REVERT") /\ UNCHANGED place /\ ~owner'.restored
  BY LoseOwner, RestoredHow DEF RunnerInv, RevertLost, InputsInv, Settling
<1>m. run.mode = "TRANSITION"
  BY <1>0 DEF RunnerInv, Course, At
<1>1. CASE run.stopped /\ Go("RECOVER", 1)
  <2>1. run' \in Runs /\ run'.pc = "RECOVER" /\ run'.n = 1 /\ run'.outcome = run.outcome /\ Kept /\ History
    BY <1>0, <1>1, GoFields DEF RunSteps
  <2> QED
    BY <1>0, <1>1, <2>1, InputsMove, <1>m
    DEF RunnerInv, Counted, Course, FilesAt, RuntimeAt, Delivered, Returned, Witnessed, Claims, In, At, OwnerIn,
        Calling, Recovery, Kept, History, Startable, Restartable
<1>2. CASE ~run.stopped /\ End("FAILED")
  <2>1. run' \in Runs /\ run'.pc = "END" /\ run'.n = run.n /\ run'.outcome = "FAILED" /\ Kept /\ History
    BY <1>0, <1>2, EndFields DEF Outcomes
  <2> QED
    BY <1>0, <1>2, <2>1, InputsMove, <1>m
    DEF RunnerInv, Counted, Course, FilesAt, RuntimeAt, Delivered, Returned, Witnessed, Claims, In, At, OwnerIn,
        Calling, Recovery, Kept, History, Startable, Restartable
<1> QED
  BY <1>1, <1>2 DEF RevertLost, Escape

LEMMA RecoverInputsRun == ASSUME InputsInv, RunnerInv, RecoverInputs PROVE RunnerInv'
<1>0. /\ HostTypes /\ UNCHANGED <<filevars, hostvars>> /\ At("INPUTS") /\ run.mode = "TRANSITION"
      /\ (owner'.restored => owner'.pc \in Settling)
  BY RestoreOwner, RestoredHow DEF RunnerInv, RecoverInputs, InputsInv
<1>1. run' \in Runs /\ UNCHANGED run /\ Kept
  BY <1>0, SameFields DEF RecoverInputs
<1>2. /\ HostTypes' /\ UNCHANGED <<unit, job, manager, witness, inbox, access, tx, journal, file, touched, call, receipt>>
      /\ Pristine' = Pristine /\ RestorationObserved' = RestorationObserved /\ Built' = Built /\ FilesBack' = FilesBack
  BY <1>0, <1>1, InputsMove
<1>3. Counted' /\ Course' /\ FilesAt' /\ RuntimeAt' /\ Claims'
  BY <1>0, <1>1, <1>2 DEF RunnerInv, Counted, Course, FilesAt, RuntimeAt, Claims, In, At, OwnerIn, Calling, Recovery
<1>4. Delivered' /\ Returned' /\ Witnessed'
  BY <1>0, <1>1, <1>2 DEF RunnerInv, Delivered, Returned, Witnessed, At, Settling, Course
<1> QED
  BY <1>2, <1>3, <1>4 DEF RunnerInv

LEMMA RecoveryLostRun == ASSUME InputsInv, RunnerInv, RecoveryLost PROVE RunnerInv'
<1>0. /\ HostTypes /\ UNCHANGED <<filevars, hostvars>> /\ At("INPUTS") /\ UNCHANGED place /\ ~owner'.restored
      /\ owner.pc # "NONE" /\ owner'.pc # "NONE"
  BY LoseOwner, RestoredHow DEF RunnerInv, RecoveryLost, InputsInv, Settling
<1>1. CASE End("UNPROVEN")
  <2>1. run' \in Runs /\ run'.pc = "END" /\ run'.n = run.n /\ run'.outcome = "UNPROVEN" /\ Kept /\ History
    BY <1>0, <1>1, EndFields DEF Outcomes
  <2> QED
    BY <1>0, <1>1, <2>1, InputsMove
    DEF RunnerInv, Counted, Course, FilesAt, RuntimeAt, Delivered, Returned, Witnessed, Claims, In, At, OwnerIn,
        Calling, Recovery, Kept, History, Startable, Restartable
<1> QED
  BY <1>1 DEF RecoveryLost

LEMMA ProcessEndsRun == ASSUME InputsInv, RunnerInv, ProcessEnds PROVE RunnerInv'
<1>0. /\ HostTypes /\ UNCHANGED <<filevars, hostvars>> /\ At("END") /\ UNCHANGED place
      /\ owner'.pc = "ENDED" /\ owner'.restored = owner.restored /\ owner.pc # "NONE"
  BY DEF RunnerInv, ProcessEnds, EndOwner, OwnerTo, InputsInv, OwnerTypes
<1>1. CASE UNCHANGED run
  <2>1. run' \in Runs /\ run'.pc = run.pc /\ run'.n = run.n /\ run'.outcome = run.outcome /\ Kept /\ History
    BY <1>0, <1>1, SameFields
  <2> QED
    BY <1>0, <1>1, <2>1, InputsMove
    DEF RunnerInv, Counted, Course, FilesAt, RuntimeAt, Delivered, Returned, Witnessed, Claims, In, At, OwnerIn,
        Calling, Recovery, Kept, History, Startable, Restartable
<1> QED
  BY <1>1 DEF ProcessEnds

LEMMA RetireRun == ASSUME InputsInv, RunnerInv, Retire PROVE RunnerInv'
<1>0. /\ HostTypes /\ UNCHANGED <<filevars, hostvars>> /\ At("END") /\ UNCHANGED place /\ run.mode = "TRANSITION"
      /\ ~owner'.restored /\ witness = "BEFORE" /\ run \in Runs /\ run.outcome \in {"FAILED", "UNPROVEN", "UNCERTAIN"}
  BY RunTyped DEF RunnerInv, Retire, Resume, NoOwner
<1>1. run' \in Runs /\ run'.pc = "RETIRE" /\ run'.n = 1 /\ run'.outcome = "NONE" /\ Kept /\ History
  <2>1. "RETIRE" \in RunSteps /\ 1 \in 0..5 /\ "NONE" \in Outcomes
    BY DEF RunSteps, Outcomes
  <2>2. run' = [run EXCEPT !.pc = "RETIRE", !.n = 1, !.outcome = "NONE"]
    BY DEF Retire
  <2>3. run' \in Runs
    BY <1>0, <2>1, <2>2, ResetFields
  <2> QED
    BY <1>0, <2>2, <2>3 DEF Runs, Kept, History
<1> QED
  BY <1>0, <1>1, InputsMove
  DEF RunnerInv, Counted, Course, FilesAt, RuntimeAt, Delivered, Returned, Witnessed, Claims, In, At, OwnerIn,
        Calling, Recovery, Kept, History, Startable, Restartable

LEMMA RetireInputsRun == ASSUME InputsInv, RunnerInv, RetireInputs PROVE RunnerInv'
<1>0. /\ HostTypes /\ UNCHANGED <<filevars, hostvars>> /\ At("RETIRE")
      /\ (owner'.restored => owner'.pc \in Settling)
  BY RestoreOwner, RestoredHow DEF RunnerInv, RetireInputs, InputsInv
<1>m. run.mode = "TRANSITION"
  BY <1>0 DEF RunnerInv, Course, At
<1>1. CASE End("RETIRED")
  <2>1. run' \in Runs /\ run'.pc = "END" /\ run'.n = run.n /\ run'.outcome = "RETIRED" /\ Kept /\ History
    BY <1>0, <1>1, EndFields DEF Outcomes
  <2> QED
    BY <1>0, <1>1, <2>1, InputsMove, <1>m
    DEF RunnerInv, Counted, Course, FilesAt, RuntimeAt, Delivered, Returned, Witnessed, Claims, In, At, OwnerIn,
        Calling, Recovery, Kept, History, Settling
<1>2. CASE UNCHANGED run
  <2>1. run' \in Runs /\ run'.pc = run.pc /\ run'.n = run.n /\ run'.outcome = run.outcome /\ Kept /\ History
    BY <1>0, <1>2, SameFields
  <2> QED
    BY <1>0, <1>2, <2>1, InputsMove, <1>m
    DEF RunnerInv, Counted, Course, FilesAt, RuntimeAt, Delivered, Returned, Witnessed, Claims, In, At, OwnerIn,
        Calling, Recovery, Kept, History, Settling
<1> QED
  BY <1>1, <1>2 DEF RetireInputs

-----------------------------------------------------------------------------
\* A step of the transaction over the runtime.
LEMMA RuntimeMove ==
    ASSUME UNCHANGED <<filevars, inputvars, unit, job, manager, witness, inbox>>, HostTypes, run' \in Runs, Kept
    PROVE  /\ HostTypes' /\ UNCHANGED <<access, tx, journal, file, touched, owner>>
           /\ Built' = Built /\ FilesBack' = FilesBack /\ NewInputs' = NewInputs /\ OldInputs' = OldInputs
BY FilesStill, InputsStill DEF HostTypes, Runs

LEMMA MutateRun ==
    ASSUME RollbackInv, RunnerInv, Mutate \/ MutateFails \/ Unmutate PROVE RunnerInv'
<1>0. /\ HostTypes /\ UNCHANGED <<filevars, inputvars, unit, job, manager, witness, inbox>>
      /\ run.pc \in {"MUTATE", "UNMUTATE"} /\ run.attempted /\ Built
  <2>1. run.pc \in {"MUTATE", "UNMUTATE"}
    BY DEF Mutate, MutateFails, Unmutate, At
  <2>2. Built
    BY <2>1 DEF RollbackInv, JournalAt, RunnerInv, FilesAt, Built, In, At
  <2> QED
    BY <2>1, <2>2 DEF RunnerInv, Mutate, MutateFails, Unmutate, At, RuntimeAt
<1>1. CASE UNCHANGED run
  <2>1. run' \in Runs /\ run'.pc = run.pc /\ run'.n = run.n /\ run'.outcome = run.outcome /\ Kept /\ History
    BY <1>0, <1>1, SameFields
  <2> QED
    BY <1>0, <1>1, <2>1, RuntimeMove
    DEF RunnerInv, Counted, Course, FilesAt, RuntimeAt, Delivered, Returned, Witnessed, Claims, In, At, OwnerIn,
        Calling, Recovery, Kept, History
<1> QED
  BY <1>1 DEF Mutate, MutateFails, Unmutate

LEMMA MeddleRun ==
    ASSUME RunnerInv, Meddle, UNCHANGED <<filevars, inputvars, unit, job, manager, witness, inbox, run>>
    PROVE  RunnerInv'
<1>0. /\ HostTypes /\ UNCHANGED <<filevars, inputvars, unit, job, manager, witness, inbox, run>>
      /\ UNCHANGED call /\ ~Pristine /\ ~RestorationObserved
  BY DEF RunnerInv, Meddle, Pristine, RestorationObserved
<1>1. CASE UNCHANGED run
  <2>1. run' \in Runs /\ run'.pc = run.pc /\ run'.n = run.n /\ run'.outcome = run.outcome /\ Kept /\ History
    BY <1>0, <1>1, SameFields
  <2> QED
    BY <1>0, <1>1, <2>1, RuntimeMove
    DEF RunnerInv, Counted, Course, FilesAt, RuntimeAt, Delivered, Returned, Witnessed, Claims, In, At, OwnerIn,
        Calling, Recovery, Kept, History, Startable, Restartable
<1> QED
  BY <1>0, <1>1

\* An attempt that has not begun.
LEMMA RunnerInit == Init => RunnerInv
<1> SUFFICES ASSUME Init PROVE RunnerInv
  OBVIOUS
<1>1. PICK a \in Attempts :
        /\ a.restart => a.mode = "SUCCESSOR"
        /\ a.mode # "FRESH" => Replaced # {}
        /\ run = [a EXCEPT !.pc = CASE a.mode = "FRESH" -> "INSTALL"
                                    [] a.mode = "SUCCESSOR" -> "QUIESCE"
                                    [] OTHER -> "PREPARE"]
        /\ unit = [g \in GroupNames |-> IF a.mode = "FRESH" THEN "STOPPED" ELSE "OLD"]
        /\ inbox = IF a.mode = "SUCCESSOR" THEN [source |-> "NEW", receipt |-> "NEW"]
                   ELSE [source |-> "OLD", receipt |-> "OLD"]
  BY DEF Init
<1>2. /\ run.mode \in {"FRESH", "SUCCESSOR", "TRANSITION"} /\ run.restart \in BOOLEAN
      /\ run.replace \in {"NONE", "NATIVE", "BUNDLE"} /\ run.n = 4 /\ ~run.stopped /\ ~run.reload
      /\ ~run.attempted /\ ~run.restored /\ ~run.published /\ ~run.failure /\ run.outcome = "NONE"
      /\ run.pc = CASE run.mode = "FRESH" -> "INSTALL" [] run.mode = "SUCCESSOR" -> "QUIESCE" [] OTHER -> "PREPARE"
      /\ run.restart => run.mode = "SUCCESSOR"
      /\ run.mode # "FRESH" => Replaced # {}
      /\ inbox = IF run.mode = "SUCCESSOR" THEN [source |-> "NEW", receipt |-> "NEW"]
                 ELSE [source |-> "OLD", receipt |-> "OLD"]
  BY <1>1 DEF Attempts
<1>3. /\ job = [g \in GroupNames |-> "NONE"] /\ manager = "BEFORE" /\ witness = "BEFORE"
      /\ owner.pc = "NONE" /\ ~owner.restored /\ tx.pc = "IDLE"
  BY DEF Init, InputsInit, NoOwner, FilesInit
<1>4. Pristine
  BY DEF Init, RuntimeInit, Pristine
<1>5. HostTypes
  <2>1. run \in Runs
    <3>1. a \in Runs
      <4>1. "QUIESCE" \in RunSteps /\ "NONE" \in Outcomes
        BY DEF RunSteps, Outcomes
      <4>2. a.pc = "QUIESCE" /\ a.n = 4 /\ a.outcome = "NONE"
        BY DEF Attempts
      <4>3. {FALSE} \subseteq BOOLEAN /\ 4 \in 0..5
        OBVIOUS
      <4>4. a \in [mode : {"FRESH", "SUCCESSOR", "TRANSITION"}, restart : BOOLEAN, replace : {"NONE", "NATIVE", "BUNDLE"},
                   pc : {"QUIESCE"}, n : {4}, stopped : BOOLEAN, reload : BOOLEAN, attempted : BOOLEAN,
                   restored : BOOLEAN, published : BOOLEAN, failure : BOOLEAN, outcome : {"NONE"}]
        BY <4>3, Zenon DEF Attempts
      <4> QED
        BY <4>1, <4>2, <4>3, <4>4 DEF Runs
    <3>2. PICK pc \in RunSteps : run = [a EXCEPT !.pc = pc]
      BY <1>1 DEF RunSteps
    <3> QED
      BY <3>1, <3>2 DEF Runs
  <2>2. unit \in [GroupNames -> {"OLD", "NEW", "STOPPED"}]
    BY <1>1
  <2> QED
    BY <1>2, <1>3, <2>1, <2>2 DEF HostTypes, Runs
<1>6. Counted /\ Course /\ FilesAt /\ Claims
  BY <1>2, <1>3 DEF Counted, Course, FilesAt, Claims, In, At, OwnerIn, Recovery
<1>7. RuntimeAt /\ Delivered /\ Returned /\ Witnessed
  BY <1>2, <1>3, <1>4 DEF RuntimeAt, Delivered, Returned, Witnessed, At
<1> QED
  BY <1>5, <1>6, <1>7 DEF RunnerInv

\* The runner keeps RunnerInv: forward,
LEMMA ForwardRun == ASSUME RollbackInv, InputsInv, RunnerInv, Forward PROVE RunnerInv'
<1>1. CASE Prepare
  BY <1>1, PrepareRun
<1>2. CASE Quiesce
  BY <1>2, QuiesceRun
<1>3. CASE Install \/ InstallFails \/ InstallLeft
  BY <1>3, InstallRun, InstallFailsRun, LeftRun
<1>4. CASE Publish \/ PublishLost
  BY <1>4, PublishRun, PublishLostRun
<1>5. CASE Refresh \/ Access
  BY <1>5, RefreshRun, AccessRun
<1>6. CASE Start \/ Consumers
  BY <1>6, StartRun, ConsumersRun
<1>7. CASE Mutate \/ MutateFails \/ Mutated
  BY <1>7, MutateRun, MutatedRun
<1>8. CASE Reopen \/ Finalize
  BY <1>8, ReopenRun, FinalizeRun
<1> QED
  BY <1>1, <1>2, <1>3, <1>4, <1>5, <1>6, <1>7, <1>8 DEF Forward

\* in its handlers,
LEMMA BackwardRun == ASSUME RollbackInv, InputsInv, RunnerInv, Backward PROVE RunnerInv'
<1>1. CASE Fail \/ Abort \/ AbortRuntime
  BY <1>1, FailRun, AbortRun, AbortRuntimeRun
<1>2. CASE Unmutate \/ Unmutated \/ CleanupFails \/ Caught
  BY <1>2, MutateRun, UnmutatedRun, CleanupRun, CaughtRun
<1>3. CASE Revoke \/ Rollback \/ RollbackFails
  BY <1>3, RevokeRun, RollbackRun, RollbackFailsRun
<1>4. CASE Revert \/ RevertLost \/ Reread
  BY <1>4, RevertRun, RevertLostRun, RereadRun
<1> QED
  BY <1>1, <1>2, <1>3, <1>4 DEF Backward

\* as the owner of the predecessor,
LEMMA RecoveriesRun == ASSUME RollbackInv, InputsInv, RunnerInv, Recoveries PROVE RunnerInv'
<1>1. CASE Recover \/ RecoverInputs \/ RecoveryLost
  BY <1>1, RecoverRun, RecoverInputsRun, RecoveryLostRun
<1>2. CASE RestoreInbox \/ InputsRestored
  BY <1>2, RestoreInboxRun, InputsRestoredRun
<1>3. CASE Restart \/ Await \/ Recovered
  BY <1>3, RestartRun, AwaitRun, RecoveredRun
<1> QED
  BY <1>1, <1>2, <1>3 DEF Recoveries

\* and as a later process.
LEMMA LaterRun == ASSUME RollbackInv, InputsInv, RunnerInv, Later PROVE RunnerInv'
<1>1. CASE ProcessEnds \/ FailedConstruction \/ StopAttempt
  BY <1>1, ProcessEndsRun, FailedConstructionRun, StopAttemptRun
<1>2. CASE Compensate \/ CompensateFails \/ Reload
  BY <1>2, CompensateRun, CompensateFailsRun, ReloadRun
<1>3. CASE Retire \/ StopAll \/ RetireInputs \/ RetireFails
  BY <1>3, RetireRun, StopAllRun, RetireInputsRun, RetireFailsRun
<1> QED
  BY <1>1, <1>2, <1>3 DEF Later

\* So does whoever else writes to the host.
LEMMA SomebodyRun == ASSUME RollbackInv, RunnerInv, Somebody PROVE RunnerInv'
<1>1. ASSUME NEW t \in Targets, Foreign(t), UNCHANGED <<inputvars, hostvars, run>> PROVE RunnerInv'
  BY <1>1, ForeignRun DEF RollbackInv, FilesInv
<1>2. CASE Meddle /\ UNCHANGED <<filevars, inputvars, unit, job, manager, witness, inbox, run>>
  BY <1>2, MeddleRun
<1> QED
  BY <1>1, <1>2 DEF Somebody

LEMMA NothingRun == ASSUME RunnerInv, UNCHANGED vars PROVE RunnerInv'
<1>1. Still /\ UNCHANGED run /\ HostTypes /\ run' \in Runs /\ Kept
  BY SameFields DEF vars, Still, RunnerInv
<1>2. /\ HostTypes'
      /\ UNCHANGED <<unit, job, manager, witness, inbox, access, tx, journal, file, touched, call, receipt, owner>>
      /\ Built' = Built /\ FilesBack' = FilesBack /\ Pristine' = Pristine
      /\ RestorationObserved' = RestorationObserved /\ NewInputs' = NewInputs /\ OldInputs' = OldInputs
  BY <1>1, StillFacts
<1>3. Counted' /\ Course' /\ FilesAt' /\ RuntimeAt' /\ Claims'
  BY <1>1, <1>2 DEF RunnerInv, Counted, Course, FilesAt, RuntimeAt, Claims, In, At, OwnerIn, Calling
<1>4. Delivered' /\ Returned' /\ Witnessed'
  BY <1>1, <1>2 DEF RunnerInv, Delivered, Returned, Witnessed, At, OwnerIn
<1> QED
  BY <1>2, <1>3, <1>4 DEF RunnerInv

LEMMA RunnerStep == ASSUME RollbackInv, InputsInv, RunnerInv, [Next]_vars PROVE RunnerInv'
<1>1. ASSUME NEW g \in GroupNames, Settle(g) PROVE RunnerInv'
  BY <1>1, SettleRun
<1>2. CASE UNCHANGED vars
  BY <1>2, NothingRun
<1> QED
  BY <1>1, <1>2, ForwardRun, BackwardRun, RecoveriesRun, LaterRun, SomebodyRun DEF Next

-----------------------------------------------------------------------------
\* Jobs.  What JobsInv reads of units and jobs that do not move.
LEMMA JobFacts ==
    ASSUME UNCHANGED <<unit, job>>
    PROVE  /\ Settled' = Settled /\ Inactive' = Inactive
           /\ \A g \in GroupNames : Pending(g)' = Pending(g)
           /\ run'.failure = run.failure => \A g \in GroupNames : Late(g)' = Late(g)
BY DEF Settled, Inactive, Pending, Late

\* No failed start is waited for outside these steps.
LEMMA NoneLate ==
    ASSUME LateJobs, run.pc \notin {"ABORT"} \cup Restarting
    PROVE  \A g \in GroupNames : ~Late(g)
BY DEF LateJobs, At

\* Steps that leave the units alone: where nothing is late,
LEMMA ElsewhereJobs ==
    ASSUME JobsInv, UNCHANGED <<unit, job>>, run.pc \notin {"ABORT"} \cup Restarting \cup Afterwards,
           run'.pc \notin {"STOP", "COMPENSATE", "RELOAD"}, run'.outcome \notin {"COMPENSATED", "RECOVERED"},
           run'.failure = run.failure, Built => Built' \/ Inactive
    PROVE  JobsInv'
<1>1. \A g \in GroupNames : ~Late(g)'
  BY NoneLate, JobFacts DEF JobsInv
<1>2. UnitsAt'
  BY DEF JobsInv, UnitsAt, Inactive, Afterwards
<1> QED
  BY <1>1, <1>2 DEF JobsInv, LateJobs, StopsAt, At

\* while the predecessor is started again,
LEMMA RestartingJobs ==
    ASSUME JobsInv, UNCHANGED <<unit, job>>, run.pc \in Restarting, run'.pc \in Restarting,
           run.pc = "END" => run'.pc = "END",
           run'.outcome \in {"COMPENSATED", "RECOVERED"} => run'.outcome = run.outcome,
           run'.failure = run.failure, run'.restart = run.restart, Built' = Built, Restartable => Restartable'
    PROVE  JobsInv'
<1>1. LateJobs'
  BY JobFacts DEF JobsInv, LateJobs, Restarting, At
<1>2. UnitsAt'
  BY JobFacts DEF JobsInv, UnitsAt, Afterwards, Restarting
<1> QED
  BY <1>1, <1>2 DEF JobsInv, StopsAt, Restarting, At

\* at the end of what a later process does,
LEMMA AfterwardsJobs ==
    ASSUME JobsInv, UNCHANGED <<unit, job>>, run.pc \in Afterwards \ {"END"}, run'.pc \in {"END", "RETIRE"},
           run'.outcome \notin {"COMPENSATED", "RECOVERED"}, run'.failure = run.failure, Built' = Built
    PROVE  JobsInv'
<1>1. \A g \in GroupNames : ~Late(g)'
  BY NoneLate, JobFacts DEF JobsInv, Afterwards, Restarting
<1>2. UnitsAt'
  BY DEF JobsInv, UnitsAt, Afterwards
<1> QED
  BY <1>1, <1>2 DEF JobsInv, LateJobs, StopsAt, At

\* and outside the runner.
LEMMA OutsideJobs ==
    ASSUME RunnerInv, JobsInv, UNCHANGED <<unit, job, run>>, Built' = Built, Startable => Startable', Restartable => Restartable'
    PROVE  JobsInv'
<1>1. LateJobs'
  BY JobFacts DEF JobsInv, LateJobs, At, Cancelled
<1>2. UnitsAt'
  BY JobFacts DEF JobsInv, UnitsAt
<1>3. \A m \in 1..4 : Pending(Groups[m])' = Pending(Groups[m])
  BY GroupFacts, JobFacts
<1>4. Counted
  BY DEF RunnerInv
<1>5. StopsAt'
  <2>1. CASE At("STOP")
    <3>1. run.n \in 1..4
      BY <1>4, <2>1 DEF Counted, At
    <3>2. \A m \in (run.n + 1)..4 : m \in 1..4
      BY <3>1
    <3> QED
      BY <1>3, <2>1, <3>1, <3>2 DEF JobsInv, StopsAt, At
  <2>2. CASE ~At("STOP")
    BY <2>2, JobFacts DEF JobsInv, StopsAt, At
  <2> QED
    BY <2>1, <2>2
<1> QED
  BY <1>1, <1>2, <1>5 DEF JobsInv

\* What the transaction of the files does to a completed generation, where no
\* unit needs to have stopped.
LEMMA StillBuilt ==
    ASSUME RollbackInv, InstallStep \/ Raise \/ Interrupt \/ Undo \/ RaiseAgain
    PROVE  Built => Built'
<1> USE DEF RollbackInv, JournalAt, Built, In
<1>1. CASE InstallStep
  BY <1>1 DEF InstallStep, OpenInstall, WriteJournal, Retain, Stage, Intent, Place, Row, Complete, Return
<1>2. CASE Raise \/ Interrupt \/ Undo \/ RaiseAgain
  BY <1>2 DEF Raise, Interrupt, Undo, RaiseAgain
<1> QED
  BY <1>1, <1>2

\* The steps, from their state, its next one, and what each does to the units.
LEMMA ForwardJobs == ASSUME RollbackInv, InputsInv, RunnerInv, JobsInv, Forward PROVE JobsInv'
<1>0. HostTypes /\ run \in Runs /\ (run.pc # "END" => run.outcome = "NONE")
  BY RunTyped DEF RunnerInv, Course
<1>b. run.pc \in {"START", "REOPEN"} => Built
  BY DEF RunnerInv, FilesAt, RollbackInv, JournalAt, Built, In, At
<1>c. Built' = Built \/ (Install \/ InstallFails)
  BY DEF Forward, Prepare, Quiesce, InstallLeft, Publish, PublishLost, Refresh, Access, Start, Consumers, Mutate,
     MutateFails, Mutated, Reopen, Finalize, filevars, Built, ApplyAccess
<1> USE DEF Runs, At, Restarting, Afterwards
<1>1. CASE Prepare \/ Install \/ InstallFails \/ InstallLeft
  <2>1. /\ UNCHANGED <<unit, job>> /\ run.pc \in {"PREPARE", "INSTALL"}
        /\ run'.pc \in {"QUIESCE", "INSTALL", "PUBLISH", "REFRESH", "RECOVER", "END"}
        /\ run'.outcome \in {"NONE", "FAILED"} /\ run'.failure = run.failure
    BY <1>0, <1>1 DEF Prepare, Install, InstallFails, InstallLeft, Escape, Go, End, hostvars
  <2>2. Built => Built' \/ Inactive
    BY <1>1, <1>c, StillBuilt DEF Install, InstallFails, Boundary
  <2> QED
    BY <2>1, <2>2, ElsewhereJobs
<1>2. CASE Publish \/ PublishLost \/ Refresh \/ Access
  <2>1. /\ UNCHANGED <<unit, job>> /\ run.pc \in {"PUBLISH", "REFRESH", "ACCESS"} /\ Built' = Built
        /\ run'.pc \in {"PUBLISH", "CAUGHT", "REFRESH", "ACCESS", "START", "END"}
        /\ run'.outcome \in {"NONE", "UNCERTAIN"} /\ run'.failure = run.failure
    BY <1>0, <1>2 DEF Publish, PublishLost, Refresh, Access, Go, hostvars, filevars, ApplyAccess, Built
  <2> QED
    BY <2>1, ElsewhereJobs
<1>3. CASE Mutate \/ MutateFails \/ Mutated \/ Finalize
  <2>1. /\ UNCHANGED <<unit, job>> /\ run.pc \in {"MUTATE", "WITNESS"} /\ Built' = Built
        /\ run'.pc \in {"MUTATE", "REOPEN", "ABORT", "END"}
        /\ run'.outcome \in {"NONE", "INSTALLED"} /\ run'.failure = run.failure
    BY <1>0, <1>3 DEF Mutate, MutateFails, Mutated, Finalize, Go, hostvars, filevars, Built
  <2> QED
    BY <2>1, ElsewhereJobs
<1>4. CASE Quiesce
  <2> DEFINE g == Groups[run.n]
  <2>1. g \in GroupNames /\ At("QUIESCE") /\ ~run.failure /\ Built' = Built
    BY <1>4, <1>c, GroupFacts DEF RunnerInv, Counted, Course, Quiesce, Install, InstallFails
  <2>2. /\ run'.pc \in {"QUIESCE", "INSTALL", "RECOVER"} /\ run'.outcome = "NONE" /\ ~run'.failure
    BY <1>0, <1>4, <2>1 DEF Quiesce
  <2>3. \A h \in GroupNames : job'[h] \in {job[h], "NONE", "STOP"} /\ (unit'[h] = "NEW" => unit[h] = "NEW")
    BY <1>0, <1>4, <2>1, StoppedFacts, FailedFacts DEF Quiesce, JobStates
  <2>4. \A h \in GroupNames : ~Late(h)'
    BY <2>1, <2>2, <2>3, NoneLate DEF JobsInv, Late
  <2> QED
    BY <2>1, <2>2, <2>3, <2>4 DEF JobsInv, LateJobs, StopsAt, UnitsAt
<1>5. CASE Consumers
  <2>1. At("START") /\ Built' /\ "INTERFACE" \in GroupNames
    BY <1>5, <1>b, <1>c, GroupFacts DEF Consumers, Install, InstallFails
  <2>2. run'.pc \in {"MUTATE", "ABORT"} /\ run'.outcome = "NONE" /\ run'.failure = run.failure
    BY <1>0, <1>5 DEF Consumers, Go
  <2>3. \A h \in GroupNames : job'[h] \in {job[h], "NONE", "STOP"}
    BY <1>0, <1>5, <2>1, StoppedFacts, FailedFacts DEF Consumers, JobStates
  <2>4. \A h \in GroupNames : ~Late(h)'
    BY <2>1, <2>2, <2>3, NoneLate DEF JobsInv, Late
  <2> QED
    BY <2>1, <2>2, <2>4 DEF JobsInv, LateJobs, StopsAt, UnitsAt
<1>6. CASE Start
  <2> DEFINE g == Lifecycle[run.n]
  <2>1. At("START") /\ Built' /\ g \in GroupNames /\ run.n \in {1, 2, 3, 5} /\ Startable'
    <3>1. run.n \in 1..5 /\ At("START") /\ g # "RUNTIME"
      BY <1>6 DEF RunnerInv, Start, Counted
    <3>2. Startable /\ UNCHANGED <<filevars, inputvars, runtimevars, inbox, manager>> /\ Kept
      BY <1>0, <1>6, <3>1, Deliverable DEF Start, Go, Kept
    <3> QED
      BY <3>1, <3>2, GroupFacts, HostFacts DEF Startable
  <2>2. CASE Started(g, "NEW") /\ Go(After(run.n), Following(run.n))
    <3>1. run'.pc \in {"START", "WITNESS"} /\ run'.outcome = "NONE" /\ run'.failure = run.failure
      BY <1>0, <2>1, <2>2 DEF Go, After
    <3>2. \A h \in GroupNames : job'[h] \in {job[h], "NONE"}
      BY <1>0, <2>1, <2>2, StartedFacts DEF UnitStates
    <3>3. \A h \in GroupNames : ~Late(h)'
      BY <2>1, <3>1, <3>2, NoneLate DEF JobsInv, Late
    <3> QED
      BY <2>1, <3>1, <3>3 DEF JobsInv, LateJobs, StopsAt, UnitsAt
  <2>3. CASE Failed(g, "START") /\ Go("ABORT", run.n)
    <3>1. run'.pc = "ABORT" /\ run'.n = run.n /\ run'.outcome = "NONE" /\ run'.failure = run.failure
      BY <1>0, <2>1, <2>3 DEF Go
    <3>2. \A h \in GroupNames : h # g => job'[h] = job[h]
      BY <1>0, <2>1, <2>3, FailedFacts DEF JobStates
    <3>3. \A h \in GroupNames : Late(h)' => h = Cancelled'
      BY <2>1, <3>1, <3>2, NoneLate DEF JobsInv, Late, Cancelled
    <3> QED
      BY <2>1, <3>1, <3>3 DEF JobsInv, LateJobs, StopsAt, UnitsAt
  <2> QED
    BY <1>6, <2>2, <2>3 DEF Start
<1>7. CASE Reopen
  <2>1. At("REOPEN") /\ Built' /\ "INTERFACE" \in GroupNames /\ run.attempted /\ Startable'
    <3>1. Startable /\ UNCHANGED <<filevars, inputvars, runtimevars, inbox, manager>> /\ Kept
      BY <1>0, <1>7, Deliverable DEF Reopen, Go, Kept
    <3> QED
      BY <1>7, <3>1, GroupFacts, HostFacts DEF Startable, Reopen, RunnerInv, RuntimeAt
  <2>2. CASE Started("INTERFACE", "NEW") /\ Go("START", 5)
    <3>1. run'.pc = "START" /\ run'.outcome = "NONE" /\ run'.failure = run.failure
      BY <1>0, <2>1, <2>2 DEF Go
    <3>2. \A h \in GroupNames : job'[h] \in {job[h], "NONE"}
      BY <1>0, <2>1, <2>2, StartedFacts DEF UnitStates
    <3>3. \A h \in GroupNames : ~Late(h)'
      BY <2>1, <3>1, <3>2, NoneLate DEF JobsInv, Late
    <3> QED
      BY <2>1, <3>1, <3>3 DEF JobsInv, LateJobs, StopsAt, UnitsAt
  <2>3. CASE Failed("INTERFACE", "START") /\ Go("ABORT", 4)
    <3>1. run'.pc = "ABORT" /\ run'.n = 4 /\ run'.outcome = "NONE" /\ run'.failure = run.failure /\ run'.attempted
      BY <1>0, <2>1, <2>3 DEF Go
    <3>2. \A h \in GroupNames : h # "INTERFACE" => job'[h] = job[h]
      BY <1>0, <2>1, <2>3, FailedFacts DEF JobStates
    <3>3. \A h \in GroupNames : Late(h)' => h = Cancelled'
      BY <2>1, <3>1, <3>2, NoneLate DEF JobsInv, Late, Cancelled
    <3> QED
      BY <2>1, <3>1, <3>3 DEF JobsInv, LateJobs, StopsAt, UnitsAt
  <2> QED
    BY <1>7, <2>2, <2>3 DEF Reopen
<1> QED
  BY <1>1, <1>2, <1>3, <1>4, <1>5, <1>6, <1>7 DEF Forward

LEMMA BackwardJobs == ASSUME RollbackInv, RunnerInv, JobsInv, Backward PROVE JobsInv'
<1>0. HostTypes /\ run \in Runs /\ (run.pc # "END" => run.outcome = "NONE")
  BY RunTyped DEF RunnerInv, Course
<1>b. run.pc \in {"ABORT", "UNMUTATE"} => Built
  BY DEF RunnerInv, FilesAt, RollbackInv, JournalAt, Built, In, At
<1>c. Built' = Built \/ Rollback \/ RollbackFails
  BY DEF Backward, Fail, Abort, AbortRuntime, Unmutate, Unmutated, CleanupFails, Caught, Revoke, Revert, RevertLost,
     Reread, filevars, Built, RevokeAccess, RestoreAccess
<1> USE DEF Runs, At, Afterwards
<1>1. CASE Fail
  <2>1. UNCHANGED <<unit, job>> /\ Built' = Built /\ Still
    BY <1>1 DEF Fail, hostvars, filevars, Built, Still
  <2>2. CASE run.pc \in {"RESTART", "AWAIT", "CHECK"}
    <3>1. run'.pc = "END" /\ run'.outcome = "UNPROVEN" /\ run'.failure = run.failure /\ Kept
      BY <1>0, <1>1, <2>2 DEF Fail, End, InHandler, InLifecycle, Compensation, Kept
    <3>2. Restartable' = Restartable
      BY <1>0, <2>1, <3>1, FilesStill, InputsStill DEF Restartable, Still, hostvars
    <3> QED
      BY <2>1, <2>2, <3>1, <3>2, RestartingJobs DEF Restarting, Kept
  <2>3. CASE run.pc \notin {"RESTART", "AWAIT", "CHECK"}
    <3>1. /\ run.pc \in {"PREPARE", "QUIESCE", "PUBLISH", "RECOVER", "INPUTS"} \cup InHandler \cup InLifecycle \cup Compensation
          /\ run'.pc \in {"RECOVER", "CAUGHT", "ABORT", "END"} /\ run'.failure = run.failure
          /\ run'.outcome \in {"NONE", "DENIED", "FAILED", "UNPROVEN"}
      BY <1>0, <1>1, <2>3 DEF Fail, End, Go, Escape, Recovery, InHandler, InLifecycle, Compensation
    <3> QED
      BY <2>1, <3>1, ElsewhereJobs DEF InHandler, InLifecycle, Compensation, Restarting
  <2> QED
    BY <2>2, <2>3
<1>2. CASE Unmutate \/ Unmutated \/ Caught \/ Revoke \/ Revert \/ RevertLost
  <2>1. /\ UNCHANGED <<unit, job>> /\ run.pc \in {"UNMUTATE", "CAUGHT", "REVOKE", "REVERT"} /\ Built' = Built
        /\ run'.pc \in {"UNMUTATE", "ABORT", "REVOKE", "ROLLBACK", "REVERT", "REREAD", "RECOVER", "END"}
        /\ run'.outcome \in {"NONE", "UNCERTAIN", "FAILED"} /\ run'.failure = run.failure
    <3>1. CASE Unmutate \/ Unmutated \/ Caught
      BY <1>0, <3>1 DEF Unmutate, Unmutated, Caught, Escape, Go, End, hostvars, filevars, Built
    <3>2. CASE Revoke \/ Revert \/ RevertLost
      BY <1>0, <3>2 DEF Revoke, Revert, RevertLost, Escape, Go, End, hostvars, filevars, RevokeAccess, RestoreAccess,
         Built
    <3> QED
      BY <1>2, <3>1, <3>2
  <2> QED
    BY <2>1, ElsewhereJobs DEF Restarting
<1>3. CASE Rollback \/ RollbackFails
  <2>1. /\ UNCHANGED <<unit, job>> /\ run.pc = "ROLLBACK"
        /\ run'.pc \in {"ROLLBACK", "REVERT", "REREAD", "RECOVER", "END"}
        /\ run'.outcome \in {"NONE", "FAILED"} /\ run'.failure = run.failure
    BY <1>0, <1>3 DEF Rollback, RollbackFails, Escape, Go, End, hostvars
  <2>2. Built => Built' \/ Inactive
    BY <1>3, StillBuilt DEF Rollback, RollbackFails, CompensationBoundary, Boundary
  <2> QED
    BY <2>1, <2>2, ElsewhereJobs DEF Restarting
<1>4. CASE CleanupFails
  <2>1. run.pc \in {"ABORT", "UNMUTATE"} /\ run'.pc = "CAUGHT" /\ run'.failure /\ run'.outcome = "NONE" /\ Built'
    BY <1>0, <1>4, <1>b, FailsFields DEF CleanupFails, filevars, Built
  <2> QED
    BY <2>1 DEF JobsInv, LateJobs, StopsAt, UnitsAt, Late
<1>5. CASE Abort
  <2> DEFINE g == Lifecycle[run.n]
  <2>1. /\ At("ABORT") /\ run.n \in 1..5 /\ Built' /\ g \in GroupNames \cup {"RUNTIME"} /\ (g = "RUNTIME" <=> run.n = 4)
        /\ (g = "RUNTIME" => ~run.attempted)
    BY <1>5, <1>b, GroupFacts DEF Abort, RunnerInv, Counted, filevars, Built
  <2>2. \A h \in GroupNames : Late(h) => h = g /\ g # "RUNTIME"
    BY <2>1 DEF JobsInv, LateJobs, Cancelled, Restarting
  <2>3. \A h \in GroupNames : ~Late(h)'
    <3>1. CASE g = "RUNTIME" /\ UNCHANGED <<unit, job>> /\ Aborted(run.n - 1)
      BY <1>0, <2>2, <3>1 DEF Aborted, Go, Late
    <3>2. CASE g # "RUNTIME" /\ Stopped(g) /\ Aborted(run.n - 1)
      <4>1. run'.failure = run.failure
        BY <1>0, <3>2 DEF Aborted, Go
      <4> QED
        BY <1>0, <2>1, <2>2, <3>2, <4>1, StoppedFacts DEF Late
    <3>3. CASE AbortFails
      BY <1>0, <3>3, FailsFields DEF Late
    <3> QED
      BY <1>5, <3>1, <3>2, <3>3 DEF Abort
  <2>4. run'.pc \in {"ABORT", "CAUGHT"} /\ run'.outcome = "NONE"
    BY <1>0, <1>5, <2>1 DEF Abort, Aborted, AbortFails, Go
  <2> QED
    BY <2>1, <2>3, <2>4 DEF JobsInv, LateJobs, StopsAt, UnitsAt
<1>6. CASE AbortRuntime
  <2>1. At("ABORT") /\ run.n = 4 /\ Built' /\ "INTERFACE" \in GroupNames
    <3>1. run.n \in 1..5 /\ At("ABORT")
      BY <1>6 DEF AbortRuntime, RunnerInv, Counted
    <3> QED
      BY <1>6, <1>b, <3>1, GroupFacts DEF AbortRuntime, filevars, Built
  <2>2. \A h \in GroupNames : Late(h) => h = "INTERFACE"
    BY <2>1 DEF JobsInv, LateJobs, Cancelled, Restarting
  <2>3. \A h \in GroupNames : ~Late(h)'
    <3>1. CASE Stopped("INTERFACE") /\ Go("UNMUTATE", run.n)
      <4>1. run'.failure = run.failure
        BY <1>0, <3>1 DEF Go
      <4> QED
        BY <1>0, <2>1, <2>2, <3>1, <4>1, StoppedFacts DEF Late
    <3>2. CASE AbortFails
      BY <1>0, <3>2, FailsFields DEF Late
    <3> QED
      BY <1>6, <3>1, <3>2 DEF AbortRuntime
  <2>4. run'.pc \in {"UNMUTATE", "CAUGHT"} /\ run'.outcome = "NONE"
    BY <1>0, <1>6, <2>1 DEF AbortRuntime, AbortFails, Go
  <2> QED
    BY <2>1, <2>3, <2>4 DEF JobsInv, LateJobs, StopsAt, UnitsAt
<1>7. CASE Reread
  <2>1. UNCHANGED <<unit, job>> /\ run.pc = "REREAD" /\ Built' = Built /\ Inactive
    BY <1>7 DEF Reread, filevars, Built, CompensationBoundary, Boundary
  <2>2. CASE run.stopped
    <3>1. run'.pc = "RECOVER" /\ run'.outcome = "NONE" /\ run'.failure = run.failure
      BY <1>0, <1>7, <2>2 DEF Reread, Go
    <3> QED
      BY <2>1, <3>1, ElsewhereJobs DEF Restarting
  <2>3. CASE ~run.stopped
    <3>1. run'.pc = "END" /\ run'.outcome = "COMPENSATED" /\ run'.failure = run.failure /\ ~run'.restart
      BY <1>0, <1>7, <2>3 DEF Reread, End, RunnerInv, Course
    <3>2. \A h \in GroupNames : ~Late(h)'
      BY <2>1, <3>1, NoneLate, JobFacts DEF JobsInv, Restarting
    <3> QED
      BY <2>1, <3>1, <3>2 DEF JobsInv, LateJobs, StopsAt, UnitsAt, Inactive
  <2> QED
    BY <2>2, <2>3
<1> QED
  BY <1>1, <1>2, <1>3, <1>4, <1>5, <1>6, <1>7 DEF Backward

LEMMA RecoveriesJobs == ASSUME RunnerInv, RunnerInv', JobsInv, Recoveries PROVE JobsInv'
<1>0. HostTypes /\ run \in Runs /\ (run.pc # "END" => run.outcome = "NONE")
  BY RunTyped DEF RunnerInv, Course
<1>b. Built' = Built /\ UNCHANGED <<filevars, runtimevars, manager>>
  BY DEF Recoveries, Recover, RecoverInputs, RecoveryLost, RestoreInbox, InputsRestored, Restart, Await, Recovered,
     hostvars, filevars, Built
<1>r. run.pc \in {"RESTART", "AWAIT", "CHECK"} => Restartable
  BY DEF RunnerInv, FilesAt, Returned, Restartable
<1> USE DEF Runs, At, Afterwards, Restarting
<1>1. CASE Recover \/ RecoverInputs \/ RecoveryLost \/ RestoreInbox
  <2>1. /\ UNCHANGED <<unit, job>> /\ run.pc \in {"RECOVER", "INPUTS"} /\ run'.pc \in {"INPUTS", "END"}
        /\ run'.outcome \in {"NONE", "UNPROVEN"} /\ run'.failure = run.failure
    BY <1>0, <1>1 DEF Recover, RecoverInputs, RecoveryLost, RestoreInbox, Go, End, hostvars
  <2> QED
    BY <1>b, <2>1, ElsewhereJobs
<1>2. CASE InputsRestored
  <2>1. /\ UNCHANGED <<unit, job>> /\ run.pc = "INPUTS" /\ run'.pc \in {"RESTART", "CHECK"}
        /\ run'.outcome = "NONE" /\ run'.failure = run.failure
    BY <1>0, <1>2 DEF InputsRestored, Go, hostvars
  <2> QED
    BY <1>b, <2>1, ElsewhereJobs
<1>3. CASE Await
  <2>1. /\ UNCHANGED <<unit, job, inputvars, inbox>> /\ run.pc = "AWAIT" /\ run'.pc \in {"RESTART", "CHECK"}
        /\ run'.outcome = "NONE" /\ run'.failure = run.failure /\ Kept
    BY <1>0, <1>3 DEF Await, NextGroup, Go, hostvars, Kept
  <2>2. Restartable' = Restartable
    BY <1>b, <2>1, FilesStill, InputsStill DEF Restartable
  <2> QED
    BY <1>b, <2>1, <2>2, RestartingJobs DEF Kept
<1>4. CASE Restart
  <2> DEFINE g == Groups[run.n]
  <2>1. At("RESTART") /\ g \in GroupNames /\ run.restart /\ ~Built' /\ UNCHANGED <<inputvars, inbox>>
    BY <1>4, <1>b, <1>r, GroupFacts DEF Restart, RunnerInv, Counted, Course, Restartable
  <2>2. /\ run'.pc \in {"RESTART", "AWAIT", "CHECK"} /\ run'.outcome = "NONE" /\ run'.failure = run.failure /\ Kept
    BY <1>0, <1>4 DEF Restart, NextGroup, Go, Kept
  <2>3. Restartable'
    BY <1>b, <1>r, <2>1, <2>2, FilesStill, InputsStill DEF Restartable
  <2>4. \A h \in GroupNames : unit'[h] = "NEW" => unit[h] = "NEW" /\ job'[h] = job[h]
    <3>1. CASE UNCHANGED <<unit, job>>
      BY <3>1
    <3>2. CASE Started(g, "OLD")
      BY <1>0, <2>1, <3>2, StartedFacts DEF UnitStates
    <3>3. CASE unit[g] = "STOPPED" /\ Failed(g, "START")
      BY <1>0, <2>1, <3>3, FailedFacts DEF JobStates
    <3> QED
      BY <1>4, <3>1, <3>2, <3>3 DEF Restart
  <2>5. LateJobs'
    BY <2>1, <2>2, <2>3 DEF LateJobs, Kept
  <2>6. ~Built
    BY <1>b, <2>1
  <2>7. UnitsAt'
    BY <2>1, <2>2, <2>4, <2>6 DEF JobsInv, UnitsAt
  <2> QED
    BY <2>2, <2>5, <2>7 DEF JobsInv, StopsAt
<1>5. CASE Recovered
  <2>1. /\ UNCHANGED <<unit, job, inputvars, inbox>> /\ run.pc = "CHECK" /\ run'.pc = "END" /\ ~Built
        /\ run'.outcome = "COMPENSATED" /\ run'.failure = run.failure /\ Kept
        /\ \A h \in GroupNames : unit[h] = "STOPPED" <=> ~run.restart
    BY <1>0, <1>5, <1>r DEF Recovered, End, hostvars, Kept, Restartable
  <2>2. Restartable'
    BY <1>b, <1>r, <2>1, FilesStill, InputsStill DEF Restartable
  <2>3. LateJobs'
    BY <2>1, <2>2, JobFacts DEF JobsInv, LateJobs, Kept
  <2>4. \A h \in GroupNames : unit[h] \in {"OLD", "NEW", "STOPPED"} /\ (unit[h] = "NEW" => run.failure /\ job[h] = "STARTED")
    BY <1>0, <2>1 DEF JobsInv, UnitsAt, HostTypes
  <2>5. UnitsAt'
    BY <2>1, <2>4 DEF JobsInv, UnitsAt, Kept
  <2> QED
    BY <2>1, <2>3, <2>5 DEF JobsInv, StopsAt
<1> QED
  BY <1>1, <1>2, <1>3, <1>4, <1>5 DEF Recoveries

LEMMA LaterJobs == ASSUME RollbackInv, RunnerInv, JobsInv, Later PROVE JobsInv'
<1>0. HostTypes /\ run \in Runs /\ (run.pc # "END" => run.outcome = "NONE") /\ (run.restart => run.mode = "SUCCESSOR")
      /\ (run.mode # "FRESH" => Replaced # {})
  BY RunTyped DEF RunnerInv, Course
<1> USE DEF Runs, At, Afterwards, Restarting
<1>1. CASE ProcessEnds
  <2>1. UNCHANGED <<unit, job, run>> /\ Built' = Built /\ Kept
    BY <1>1 DEF ProcessEnds, hostvars, filevars, Built, Kept
  <2>2. NewInputs' = NewInputs /\ OldInputs' = OldInputs
    BY <1>1, <2>1 DEF ProcessEnds, EndOwner, hostvars, NewInputs, OldInputs
  <2>3. Startable' = Startable /\ Restartable' = Restartable
    BY <1>1, <2>1, <2>2, FilesStill, RuntimeStill DEF ProcessEnds, hostvars, Startable, Restartable
  <2> QED
    BY <2>1, <2>3, OutsideJobs
<1>2. CASE FailedConstruction
  <2>1. /\ UNCHANGED <<unit, job>> /\ Built' = Built /\ run.pc = "END" /\ run'.pc = "STOP" /\ run'.n = 4
        /\ run'.outcome = "NONE" /\ run'.failure = run.failure
    BY <1>0, <1>2 DEF FailedConstruction, hostvars, filevars, Built
  <2>2. run.mode # "FRESH" => ~FilesBack
    BY <1>0, <1>2, BuiltNotBefore DEF FailedConstruction, CompletelyPlaced
  <2>3. \A h \in GroupNames : ~Late(h)'
    BY <1>0, <2>1, <2>2, JobFacts DEF JobsInv, LateJobs, Restartable
  <2> QED
    BY <2>1, <2>3 DEF JobsInv, LateJobs, StopsAt, UnitsAt
<1>3. CASE StopAttempt
  <2> DEFINE g == Groups[run.n]
  <2>1. At("STOP") /\ run.n \in 1..4 /\ g \in GroupNames /\ Built' = Built
    BY <1>3, GroupFacts DEF StopAttempt, RunnerInv, Counted, filevars, Built
  <2>2. \A h \in GroupNames : ~Late(h)
    BY <2>1, NoneLate DEF JobsInv
  <2>3. CASE Stopped(g) /\ Go(IF run.n > 1 THEN "STOP" ELSE "COMPENSATE", IF run.n > 1 THEN run.n - 1 ELSE 1)
    <3>1. /\ run'.outcome = "NONE" /\ run'.failure = run.failure
          /\ run.n > 1 => run'.pc = "STOP" /\ run'.n = run.n - 1
          /\ run.n = 1 => run'.pc = "COMPENSATE"
      BY <1>0, <2>1, <2>3 DEF Go
    <3>2. /\ \A h \in GroupNames : h # g => unit'[h] = unit[h] /\ job'[h] = job[h]
          /\ unit'[g] = "STOPPED" /\ job'[g] = "NONE"
      BY <1>0, <2>1, <2>3, StoppedFacts
    <3>3. \A h \in GroupNames : ~Late(h)'
      BY <2>2, <3>1, <3>2 DEF Late
    <3>4. \A m \in run.n..4 : ~Pending(Groups[m])'
      <4> SUFFICES ASSUME NEW m \in run.n..4 PROVE ~Pending(Groups[m])'
        OBVIOUS
      <4>1. Groups[m] \in GroupNames /\ (m = run.n \/ m \in (run.n + 1)..4)
        BY <2>1, GroupFacts
      <4> QED
        BY <2>1, <3>2, <4>1 DEF JobsInv, StopsAt, Pending
    <3>5. StopsAt'
      <4>1. CASE run.n > 1
        <5>1. run'.n + 1 = run.n
          BY <2>1, <3>1, <4>1
        <5> QED
          BY <2>1, <3>1, <3>4, <4>1, <5>1 DEF StopsAt
      <4>2. CASE run.n = 1
        <5>1. \A h \in GroupNames : ~Pending(h)'
          BY <3>4, <4>2 DEF GroupNames
        <5> QED
          BY <3>1, <4>2, <5>1 DEF StopsAt, Settled
      <4> QED
        BY <2>1, <4>1, <4>2
    <3> QED
      BY <2>1, <3>1, <3>2, <3>3, <3>5 DEF JobsInv, LateJobs, UnitsAt
  <2>4. CASE Failed(g, "STOP") /\ End("UNPROVEN")
    <3>1. run'.pc = "END" /\ run'.outcome = "UNPROVEN" /\ run'.failure = run.failure
      BY <1>0, <2>4 DEF End
    <3>2. unit' = unit /\ \A h \in GroupNames : job'[h] \in {job[h], "STOP"}
      BY <1>0, <2>1, <2>4, FailedFacts DEF JobStates
    <3>3. \A h \in GroupNames : ~Late(h)'
      BY <2>2, <3>1, <3>2 DEF Late
    <3> QED
      BY <2>1, <3>1, <3>2, <3>3 DEF JobsInv, LateJobs, StopsAt, UnitsAt
  <2> QED
    BY <1>3, <2>3, <2>4 DEF StopAttempt
<1>4. CASE Compensate
  <2>1. /\ UNCHANGED <<unit, job>> /\ run.pc = "COMPENSATE" /\ run'.pc \in {"COMPENSATE", "RELOAD"} /\ Inactive
        /\ run'.outcome = "NONE" /\ run'.failure = run.failure
    BY <1>0, <1>4 DEF Compensate, Go, hostvars
  <2>2. \A h \in GroupNames : ~Late(h)'
    BY <2>1, NoneLate, JobFacts DEF JobsInv
  <2> QED
    BY <2>1, <2>2, JobFacts DEF JobsInv, LateJobs, StopsAt, UnitsAt, Inactive
<1>5. CASE CompensateFails \/ StopAll \/ RetireInputs \/ RetireFails
  <2>1. /\ run.pc \in {"COMPENSATE", "STOP", "RELOAD", "RETIRE"} /\ run'.pc \in {"END", "RETIRE"} /\ Built' = Built
        /\ run'.outcome \in {"NONE", "UNPROVEN", "RETIRED"} /\ run'.failure = run.failure
    BY <1>0, <1>5 DEF CompensateFails, StopAll, RetireInputs, RetireFails, Go, End, filevars, Built, RaiseAgain
  <2>2. CASE UNCHANGED <<unit, job>>
    BY <2>1, <2>2, AfterwardsJobs
  <2>3. CASE StopAll
    <3>1. \A h \in GroupNames : unit'[h] \in {unit[h], "STOPPED"} /\ job'[h] \in {job[h], "NONE"}
      BY <2>3 DEF StopAll
    <3>2. \A h \in GroupNames : ~Late(h)'
      BY <2>1, <3>1, NoneLate DEF JobsInv, Late
    <3> QED
      BY <2>1, <3>1, <3>2 DEF JobsInv, LateJobs, StopsAt, UnitsAt
  <2> QED
    BY <1>5, <2>2, <2>3 DEF CompensateFails, RetireInputs, RetireFails, hostvars
<1>6. CASE Reload
  <2>1. UNCHANGED <<unit, job>> /\ run.pc = "RELOAD" /\ Built' = Built
    BY <1>6 DEF Reload, filevars, Built
  <2>2. CASE Inactive /\ End("RECOVERED")
    <3>1. run'.pc = "END" /\ run'.outcome = "RECOVERED" /\ run'.failure = run.failure
      BY <1>0, <2>2 DEF End
    <3>2. \A h \in GroupNames : ~Late(h)'
      BY <2>1, <3>1, NoneLate, JobFacts DEF JobsInv
    <3>3. Inactive' /\ Settled'
      BY <2>1, <2>2, JobFacts DEF JobsInv, StopsAt
    <3> QED
      BY <2>1, <3>1, <3>2, <3>3 DEF JobsInv, LateJobs, StopsAt, UnitsAt
  <2>3. CASE End("UNPROVEN")
    <3>1. run'.pc = "END" /\ run'.outcome = "UNPROVEN" /\ run'.failure = run.failure
      BY <1>0, <2>3 DEF End
    <3> QED
      BY <2>1, <3>1, AfterwardsJobs
  <2> QED
    BY <1>6, <2>2, <2>3 DEF Reload
<1>7. CASE Retire
  <2>1. /\ UNCHANGED <<unit, job>> /\ Built' = Built /\ run.pc = "END" /\ run'.pc = "RETIRE" /\ ~run.restart
        /\ run'.outcome = "NONE" /\ run'.failure = run.failure
    BY <1>0, <1>7 DEF Retire, hostvars, filevars, Built
  <2>2. \A h \in GroupNames : ~Late(h)'
    BY <2>1, JobFacts DEF JobsInv, LateJobs
  <2> QED
    BY <2>1, <2>2 DEF JobsInv, LateJobs, StopsAt, UnitsAt
<1> QED
  BY <1>1, <1>2, <1>3, <1>4, <1>5, <1>6, <1>7 DEF Later

LEMMA SomebodyJobs == ASSUME RollbackInv, RunnerInv, JobsInv, Somebody PROVE JobsInv'
<1>1. ASSUME NEW t \in Targets, Foreign(t), UNCHANGED <<inputvars, hostvars, run>> PROVE JobsInv'
  <2>1. UNCHANGED <<unit, job, run, access, journal, manager, call>> /\ NewInputs' = NewInputs /\ OldInputs' = OldInputs
    BY <1>1, InputsStill DEF Foreign, hostvars, runtimevars, Kept
  <2>2. Built' = Built /\ (FilesBack => FilesBack')
    <3>1. \A u \in Untouched' : u \in Untouched /\ u # t
      BY <1>1 DEF Foreign, Untouched
    <3> QED
      BY <1>1, <2>1, <3>1 DEF Foreign, FilesBack, Untouched, FilesTypeOK, RollbackInv, FilesInv, Built
  <2> QED
    BY <2>1, <2>2, OutsideJobs DEF Startable, Restartable
<1>2. CASE Meddle /\ UNCHANGED <<filevars, inputvars, unit, job, manager, witness, inbox, run>>
  <2>1. call' = call /\ Built' = Built /\ FilesBack' = FilesBack /\ NewInputs' = NewInputs /\ OldInputs' = OldInputs
        /\ access' = access
    BY <1>2, FilesStill, InputsStill DEF Meddle, Kept
  <2> QED
    BY <1>2, <2>1, OutsideJobs DEF Startable, Restartable
<1> QED
  BY <1>1, <1>2 DEF Somebody

\* The manager's own step: what it starts late finds what LateJobs says.
LEMMA SettleJobs == ASSUME RunnerInv, JobsInv, NEW g \in GroupNames, Settle(g) PROVE JobsInv'
<1>0. /\ HostTypes /\ UNCHANGED <<filevars, inputvars, runtimevars, inbox, manager, run>> /\ Pending(g)
      /\ Built' = Built /\ Startable' = Startable /\ Restartable' = Restartable /\ Cancelled' = Cancelled
  <2>1. HostTypes /\ UNCHANGED <<filevars, inputvars, runtimevars, inbox, manager, run>> /\ Pending(g) /\ Kept
    BY DEF RunnerInv, Settle, Kept, Pending
  <2> QED
    BY <2>1, HostFacts DEF Cancelled
<1>1. /\ \A h \in GroupNames : h # g => job'[h] = job[h] /\ unit'[h] = unit[h]
      /\ job'[g] \in {"NONE", "HALTED", "STARTED"}
      /\ job'[g] = "NONE" => unit'[g] = unit[g]
      /\ job'[g] = "HALTED" => unit'[g] = "STOPPED"
      /\ job'[g] = "STARTED" => job[g] = "START" /\ unit'[g] = IF manager = "AFTER" THEN "NEW" ELSE "OLD"
  BY <1>0 DEF Settle, HostTypes, Pending
<1>2. LateJobs'
  BY <1>0, <1>1 DEF JobsInv, LateJobs, Late, At
<1>3. \A h \in GroupNames : Pending(h)' => Pending(h)
  BY <1>0, <1>1 DEF Pending
<1>4. StopsAt'
  <2>1. CASE At("STOP")
    <3>1. run.n \in 1..4
      BY <2>1 DEF RunnerInv, Counted, At
    <3>2. \A m \in (run.n + 1)..4 : Groups[m] \in GroupNames
      BY <3>1, GroupFacts
    <3> QED
      BY <1>0, <1>3, <2>1, <3>1, <3>2 DEF JobsInv, StopsAt, At
  <2>2. CASE ~At("STOP")
    BY <1>0, <1>3, <2>2 DEF JobsInv, StopsAt, Settled, At
  <2> QED
    BY <2>1, <2>2
<1>5. ~run.failure /\ job'[g] = "STARTED" => unit'[g] = IF Built THEN "NEW" ELSE "OLD"
  BY <1>0, <1>1 DEF JobsInv, LateJobs, Late, Startable, Restartable
<1>6. (~Built => \A h \in GroupNames : unit[h] = "NEW" => run.failure /\ (job[h] = "STARTED" \/ run.pc \in Afterwards))'
  BY <1>0, <1>1, <1>5 DEF JobsInv, UnitsAt, Pending
<1>7. ASSUME run.outcome = "COMPENSATED", NEW h \in GroupNames
      PROVE  (\/ unit[h] = IF run.restart THEN "OLD" ELSE "STOPPED"
              \/ run.restart /\ job[h] = "HALTED"
              \/ run.failure /\ job[h] = "STARTED")'
  <2>1. \/ unit[h] = IF run.restart THEN "OLD" ELSE "STOPPED"
        \/ run.restart /\ job[h] = "HALTED"
        \/ run.failure /\ job[h] = "STARTED"
    BY <1>7 DEF JobsInv, UnitsAt
  <2>2. run.pc = "END" /\ ~Built
    BY <1>7 DEF RunnerInv, Course, Claims
  <2>3. Late(g) => run.restart
    BY <2>2 DEF JobsInv, LateJobs, At
  <2> QED
    BY <1>0, <1>1, <1>5, <2>1, <2>2, <2>3 DEF Pending, Late
<1>8. run.outcome # "RECOVERED"
  BY <1>0 DEF JobsInv, UnitsAt, Settled
<1> QED
  BY <1>0, <1>2, <1>4, <1>6, <1>7, <1>8 DEF JobsInv, UnitsAt

LEMMA JobsStep == ASSUME RollbackInv, InputsInv, RunnerInv, RunnerInv', JobsInv, [Next]_vars PROVE JobsInv'
<1>1. ASSUME NEW g \in GroupNames, Settle(g) PROVE JobsInv'
  BY <1>1, SettleJobs
<1>2. CASE UNCHANGED vars
  <2>1. UNCHANGED <<filevars, inputvars, unit, job, manager, runtimevars, inbox, run>> /\ Kept
    BY <1>2 DEF vars, hostvars, Kept
  <2> QED
    BY <2>1, OutsideJobs, HostFacts
<1> QED
  BY <1>1, <1>2, ForwardJobs, BackwardJobs, RecoveriesJobs, LaterJobs, SomebodyJobs DEF Next

\* The whole invariant: its three parts of the constituents from their own
\* steps, what the runner adds from the lemmas above.
LEMMA AttemptStep == AttemptInv /\ [Next]_vars => AttemptInv'
<1> SUFFICES ASSUME AttemptInv, [Next]_vars PROVE AttemptInv'
  OBVIOUS
<1>1. ConstituentSteps
  BY AttemptSteps
<1>2. RollbackInv' /\ InputsInv'
  BY <1>1, RollbackInvStep, InputsInvStep DEF AttemptInv, ConstituentSteps
<1>3. RuntimeInv' /\ Quiet'
  BY <1>1, NextInv, QuietStep DEF AttemptInv, ConstituentSteps
<1>4. RunnerInv'
  BY RunnerStep DEF AttemptInv
<1>5. JobsInv'
  BY <1>4, JobsStep DEF AttemptInv
<1> QED
  BY <1>2, <1>3, <1>4, <1>5 DEF AttemptInv

LEMMA AttemptInit == Init => AttemptInv
<1> SUFFICES ASSUME Init PROVE AttemptInv
  OBVIOUS
<1>1. FilesInit /\ InputsInit /\ RuntimeInit
  BY DEF Init
<1>2. JobsInv
  <2>1. job = [g \in GroupNames |-> "NONE"] /\ run.outcome = "NONE" /\ run.pc \in {"INSTALL", "QUIESCE", "PREPARE"}
    BY DEF Init, Attempts
  <2>2. \A g \in GroupNames : unit[g] # "NEW"
    BY DEF Init
  <2> QED
    BY <2>1, <2>2 DEF JobsInv, LateJobs, StopsAt, UnitsAt, Late, At
<1> QED
  BY <1>1, <1>2, RollbackInvInit, InputsInvInit, InitInv, QuietInit, RunnerInit DEF AttemptInv

\* Every state of an attempt, its compensation, its recovery and a later process
\* satisfies the invariant.
THEOREM AttemptInductive == Spec => []AttemptInv
BY AttemptInit, AttemptStep, PTL DEF Spec

\* Which steps set a group of units going.
LEMMA StartWhole == AttemptInv /\ [Next]_vars =>
    \A g \in GroupNames : ~(run.failure /\ job[g] = "START" /\ run' = run) =>
        /\ unit[g] # "NEW" /\ unit'[g] = "NEW" => Startable
        /\ unit[g] # "OLD" /\ unit'[g] = "OLD" => Restartable
<1> SUFFICES ASSUME AttemptInv, [Next]_vars, NEW g \in GroupNames, ~(run.failure /\ job[g] = "START" /\ run' = run)
             PROVE  /\ unit[g] # "NEW" /\ unit'[g] = "NEW" => Startable
                    /\ unit[g] # "OLD" /\ unit'[g] = "OLD" => Restartable
  OBVIOUS
<1> DEFINE Goal == /\ unit[g] # "NEW" /\ unit'[g] = "NEW" => Startable
                   /\ unit[g] # "OLD" /\ unit'[g] = "OLD" => Restartable
<1>0. HostTypes
  BY DEF AttemptInv, RunnerInv
<1>s. ASSUME NEW h \in GroupNames, Stopped(h) PROVE Goal
  BY <1>0, <1>s DEF Stopped, Started, HostTypes
<1>f. ASSUME UNCHANGED unit PROVE Goal
  BY <1>f
<1>1. CASE Start
  <2>1. Startable
    BY <1>1, Deliverable DEF AttemptInv, Start, At
  <2>2. run.n \in 1..5
    BY <1>1 DEF AttemptInv, RunnerInv, Counted, Start, At
  <2>3. Lifecycle[run.n] \in GroupNames
    BY <1>1, <2>2, GroupFacts DEF Start
  <2>4. unit'[g] \in {unit[g], "NEW"}
    BY <1>0, <1>1, <2>3 DEF Start, Started, Failed, HostTypes
  <2> QED
    BY <2>1, <2>4
<1>2. CASE Reopen
  <2>1. Startable
    BY <1>2, Deliverable DEF AttemptInv, Reopen, At
  <2>2. unit'[g] \in {unit[g], "NEW"}
    BY <1>0, <1>2, GroupFacts DEF Reopen, Started, Failed, HostTypes
  <2> QED
    BY <2>1, <2>2
<1>3. CASE Restart
  <2>1. ~Built /\ FilesBack /\ manager = "BEFORE" /\ OldInputs
    BY <1>3 DEF AttemptInv, RunnerInv, FilesAt, Returned, Restart, At
  <2>2. unit'[g] \in {unit[g], "OLD"}
    BY <1>0, <1>3, GroupFacts DEF AttemptInv, RunnerInv, Counted, Restart, At, Started, Failed, HostTypes
  <2> QED
    BY <2>1, <2>2 DEF Restartable
<1>4. ASSUME NEW h \in GroupNames, Settle(h) PROVE Goal
  <2>1. run' = run /\ (unit'[g] # unit[g] => g = h)
        /\ (unit'[h] # unit[h] => unit'[h] = "STOPPED"
             \/ (job[h] = "START" /\ unit'[h] = IF manager = "AFTER" THEN "NEW" ELSE "OLD"))
    BY <1>0, <1>4 DEF Settle, HostTypes
  <2>2. CASE g = h /\ job[h] = "START" /\ unit'[h] = IF manager = "AFTER" THEN "NEW" ELSE "OLD"
    <3>1. Late(h)
      BY <2>1, <2>2 DEF Late
    <3>2. Startable \/ Restartable
      BY <3>1 DEF AttemptInv, JobsInv, LateJobs
    <3> QED
      BY <2>2, <3>2 DEF Startable, Restartable
  <2> QED
    BY <2>1, <2>2
<1>5. CASE Forward
  <2>1. CASE Quiesce
    <3>1. Groups[run.n] \in GroupNames
      BY <2>1, GroupFacts DEF AttemptInv, RunnerInv, Counted, Quiesce, At
    <3> QED
      BY <1>s, <1>f, <2>1, <3>1 DEF Quiesce, Failed
  <2>2. CASE Consumers
    BY <1>s, <1>f, <2>2, GroupFacts DEF Consumers, Failed
  <2>3. CASE Prepare \/ Install \/ InstallFails \/ InstallLeft \/ Publish \/ PublishLost \/ Refresh \/ Access
    BY <1>f, <2>3 DEF Prepare, Install, InstallFails, InstallLeft, Publish, PublishLost, Refresh, Access, hostvars
  <2>4. CASE Mutate \/ MutateFails \/ Mutated \/ Finalize
    BY <1>f, <2>4 DEF Mutate, MutateFails, Mutated, Finalize, hostvars
  <2> QED
    BY <1>1, <1>2, <1>5, <2>1, <2>2, <2>3, <2>4 DEF Forward
<1>6. CASE Backward
  <2>1. CASE Abort
    <3>1. run.n \in 1..5
      BY <2>1 DEF AttemptInv, RunnerInv, Counted, Abort, At
    <3>2. Lifecycle[run.n] \in GroupNames \cup {"RUNTIME"}
      BY <3>1, GroupFacts
    <3> QED
      BY <1>s, <1>f, <2>1, <3>2 DEF Abort, Failed
  <2>2. CASE AbortRuntime
    BY <1>s, <1>f, <2>2, GroupFacts DEF AbortRuntime, Failed
  <2>3. CASE Fail \/ Unmutate \/ Unmutated \/ CleanupFails \/ Caught \/ Revoke
    BY <1>f, <2>3 DEF Fail, Unmutate, Unmutated, CleanupFails, Caught, Revoke, hostvars
  <2>4. CASE Rollback \/ RollbackFails \/ Revert \/ RevertLost \/ Reread
    BY <1>f, <2>4 DEF Rollback, RollbackFails, Revert, RevertLost, Reread, hostvars
  <2> QED
    BY <1>6, <2>1, <2>2, <2>3, <2>4 DEF Backward
<1>7. CASE Recoveries
  <2>1. CASE Recover \/ RecoverInputs \/ RecoveryLost \/ RestoreInbox \/ InputsRestored \/ Await \/ Recovered
    BY <1>f, <2>1 DEF Recover, RecoverInputs, RecoveryLost, RestoreInbox, InputsRestored, Await, Recovered, hostvars
  <2> QED
    BY <1>3, <1>7, <2>1 DEF Recoveries
<1>8. CASE Later
  <2>1. CASE StopAttempt
    <3>1. Groups[run.n] \in GroupNames
      BY <2>1, GroupFacts DEF AttemptInv, RunnerInv, Counted, StopAttempt, At
    <3> QED
      BY <1>s, <1>f, <2>1, <3>1 DEF StopAttempt, Failed
  <2>2. CASE StopAll
    BY <1>0, <2>2 DEF StopAll
  <2>3. CASE ProcessEnds \/ FailedConstruction \/ Compensate \/ CompensateFails \/ Reload \/ Retire \/ RetireInputs
             \/ RetireFails
    BY <1>f, <2>3 DEF ProcessEnds, FailedConstruction, Compensate, CompensateFails, Reload, Retire, RetireInputs,
       RetireFails, hostvars
  <2> QED
    BY <1>8, <2>1, <2>2, <2>3 DEF Later
<1>9. CASE Somebody \/ UNCHANGED vars
  BY <1>f, <1>9 DEF Somebody, vars, hostvars
<1> QED
  BY <1>4, <1>5, <1>6, <1>7, <1>8, <1>9 DEF Next

\* All of the candidate's files that nobody else took are at their targets.
LEMMA BuiltPlaced == RollbackInv /\ Built => \A t \in Untouched : file[t] = "OURS"
<1> SUFFICES ASSUME RollbackInv, Built, NEW t \in Untouched PROVE file[t] = "OURS"
  OBVIOUS
<1>1. t \in Targets /\ t \notin touched /\ Rank(t) \in 1..Len(Order) /\ Order[Rank(t)] = t
  BY OrderOf, TargetAssumption DEF Untouched
<1>2. journal.state = "INSTALLED_INACTIVE" /\ journal.completed = Len(Order) /\ Len(Order) \in Nat
  BY TargetAssumption DEF RollbackInv, CountsAt, Built
<1> QED
  BY <1>1, <1>2 DEF RollbackInv, PlacedInOrder, Mine

\* Without a completed generation, its observer has no access and the runtime
\* has the settings of before.
LEMMA UnbuiltBefore == AttemptInv /\ ~Built => access = "BEFORE" /\ RuntimeBefore
<1> SUFFICES ASSUME AttemptInv, ~Built PROVE access = "BEFORE" /\ RuntimeBefore
  OBVIOUS
<1>1. access = "BEFORE"
  BY DEF AttemptInv, RollbackInv, FilesInv, FilesTypeOK, AccessAt, Built
<1>2. RuntimeBefore
  BY ObservedBefore, PristineBefore DEF AttemptInv, RunnerInv, RuntimeAt
<1> QED
  BY <1>1, <1>2

\* And what they find.
LEMMA StartsWhole == AttemptInv /\ [Next]_vars =>
    \A g \in GroupNames : ~(run.failure /\ job[g] = "START" /\ run' = run) =>
        /\ unit[g] # "NEW" /\ unit'[g] = "NEW" =>
            /\ \A t \in Untouched : file[t] = "OURS"
            /\ access = "OBSERVER" /\ manager = "AFTER" /\ NewInputs
            /\ call.pc \in {"IDLE", "RETURNED"}
        /\ unit[g] # "OLD" /\ unit'[g] = "OLD" =>
            /\ \A t \in Untouched : file[t] = Before(t)
            /\ access = "BEFORE" /\ manager = "BEFORE" /\ OldInputs /\ RuntimeBefore
<1>1. AttemptInv /\ Startable => \A t \in Untouched : file[t] = "OURS"
  BY BuiltPlaced DEF AttemptInv, Startable
<1>2. AttemptInv /\ Restartable => access = "BEFORE" /\ RuntimeBefore
  BY UnbuiltBefore DEF Restartable
<1> QED
  BY <1>1, <1>2, StartWhole DEF Startable, Restartable, FilesBack

\* No unit starts on a mixture of two generations, however late a job that a
\* failed systemctl call left is done: the lifecycles of run, the restart of the
\* predecessor and the manager itself start what they start on whole material,
\* unless the cleanup of the failed call failed as well, which the code does not
\* notice on labels and of which nothing is promised.
THEOREM StartsAlwaysWhole == Spec => StartsOnWholeMaterial
<1>1. AttemptInv /\ [Next]_vars =>
        [\A g \in GroupNames : ~(run.failure /\ job[g] = "START" /\ run' = run) =>
          /\ unit[g] # "NEW" /\ unit'[g] = "NEW" =>
              /\ \A t \in Untouched : file[t] = "OURS"
              /\ access = "OBSERVER" /\ manager = "AFTER" /\ NewInputs
              /\ call.pc \in {"IDLE", "RETURNED"}
          /\ unit[g] # "OLD" /\ unit'[g] = "OLD" =>
              /\ \A t \in Untouched : file[t] = Before(t)
              /\ access = "BEFORE" /\ manager = "BEFORE" /\ OldInputs /\ RuntimeBefore]_vars
  BY StartsWhole
<1> QED
  BY <1>1, AttemptInductive, PTL DEF Spec, StartsOnWholeMaterial

LEMMA WitnessComplete == AttemptInv => WitnessMeansComplete
BY BuiltPlaced DEF AttemptInv, RunnerInv, Witnessed, WitnessMeansComplete

\* The witness that finalize publishes is never left over compensated material.
THEOREM WitnessAlwaysComplete == Spec => []WitnessMeansComplete
BY AttemptInductive, WitnessComplete, PTL

LEMMA OutcomeTrue == AttemptInv => OutcomeTruthful
<1> SUFFICES ASSUME AttemptInv PROVE OutcomeTruthful
  OBVIOUS
<1>1. RollbackRestores
  BY RollbackInvRestores DEF AttemptInv
<1>2. ASSUME run.outcome \in {"COMPENSATED", "RECOVERED"}
      PROVE  /\ \A t \in Untouched : file[t] = Before(t)
             /\ access = "BEFORE" /\ manager = "BEFORE" /\ RuntimeBefore /\ witness = "BEFORE"
  <2>1. FilesBack /\ ~Built /\ manager = "BEFORE"
    BY <1>2 DEF AttemptInv, RunnerInv, Claims
  <2>2. witness = "BEFORE"
    BY <1>2 DEF AttemptInv, RunnerInv, Witnessed, HostTypes
  <2> QED
    BY <2>1, <2>2, UnbuiltBefore DEF FilesBack
<1>3. run.outcome = "COMPENSATED" => OldInputs
  BY DEF AttemptInv, RunnerInv, Claims
<1>4. /\ run.outcome = "COMPENSATED" => \A g \in GroupNames :
          \/ unit[g] = IF run.restart THEN "OLD" ELSE "STOPPED"
          \/ run.restart /\ job[g] = "HALTED"
          \/ run.failure /\ job[g] = "STARTED"
      /\ run.outcome = "RECOVERED" => Inactive /\ Settled
  BY DEF AttemptInv, JobsInv, UnitsAt
<1> QED
  BY <1>1, <1>2, <1>3, <1>4 DEF OutcomeTruthful

\* What a call of run, the owner of the predecessor, or _failed_construction ends
\* with is true of the files, the ACL, the definitions, the runtime, the inputs
\* and the units, over any number of targets.
THEOREM OutcomesTruthful == Spec => []OutcomeTruthful
BY AttemptInductive, OutcomeTrue, PTL

\* Nor does the runner, its recovery or a retirement take the canonical inputs
\* anywhere their owner does not.
THEOREM AttemptInputsRecoverable == Spec => []InputsRecoverable
BY AttemptImplements, InputsAlwaysRecoverable, PTL
==============================================================================
