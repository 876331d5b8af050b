--------------------------- MODULE SuccessorInputs ---------------------------
(***************************************************************************)
(* KernelSuccessorInputs of outpost/install/kernel_first_install_runner: the  *)
(* replacement of the Kernel's three canonical inputs (the source tree, its   *)
(* receipt and the request) by a successor's, one pair of renames each, and    *)
(* its restoration, by the owner that made it or by a later one that finds     *)
(* only what is on disk.                                                    *)
(*                                                                         *)
(* The predecessor's and the candidate's object of an input are OLD and NEW,   *)
(* wherever they are; a rename onto an object destroys it.  The directories    *)
(* are root's and private: nobody else writes there.  The copies kept as       *)
(* evidence, the signatures and the comparisons with the external delivery     *)
(* are left out.                                                            *)
(***************************************************************************)
EXTENDS Naturals, Sequences, FiniteSets

VARIABLES
    place,      \* what each place of each input names
    record,     \* where the signed preparation is
    intent,     \* canonical-input-transition-intent.json is written
    phase,      \* canonical-input-transition-state.json
    retained,   \* the preparation is retained unpublished
    owner       \* the object that performs the transition, in memory

inputvars == <<place, record, intent, phase, retained, owner>>

PublishOrder == <<"source", "receipt", "request">>
RestoreOrder == <<"request", "receipt", "source">>
PublishPhase == <<"SOURCE_PUBLISHED", "RECEIPT_PUBLISHED", "PUBLISHED">>
RestorePhase == <<"RESTORE_REQUEST", "RESTORE_RECEIPT", "RESTORED">>
Kinds == {"source", "receipt", "request"}
Places == {"canonical", "old", "stage", "candidate"}
Phases == {"INTENT"} \cup {PublishPhase[n] : n \in 1..3} \cup {RestorePhase[n] : n \in 1..3}

NoOwner == [pc |-> "NONE", index |-> 1, phase |-> "NONE", restored |-> FALSE]

\* The places of an input before it is published, published, and restored.
Captured == [q \in Places |-> IF q = "canonical" THEN "OLD" ELSE "NONE"]
Staged == [Captured EXCEPT !["stage"] = "NEW"]
Published == [q \in Places |-> CASE q = "canonical" -> "NEW" [] q = "old" -> "OLD" [] OTHER -> "NONE"]
Restored == [Captured EXCEPT !["candidate"] = "NEW"]

InputsInit ==
    /\ place = [k \in Kinds |-> Captured]
    /\ record = "NONE" /\ intent = FALSE /\ phase = "NONE" /\ retained = FALSE
    /\ owner = NoOwner

OwnerIn(pc) == owner.pc = pc
OwnerTo(pc, n) == owner' = [owner EXCEPT !.pc = pc, !.index = n]

\* os.rename.
Moved(k, from, to) == [place EXCEPT ![k][to] = place[k][from], ![k][from] = "NONE"]

-----------------------------------------------------------------------------
\* _canonical_old, _canonical_new and _archives_unchanged: the layout the phase
\* in memory stands for.
Index(s, v) == CHOOSE n \in 1..Len(s) : s[n] = v
Layout(p) ==
    [k \in Kinds |->
        CASE p = "NONE" -> Captured
          [] p = "INTENT" -> Staged
          [] \E n \in 1..3 : PublishPhase[n] = p ->
                IF Index(PublishOrder, k) <= Index(PublishPhase, p) THEN Published ELSE Staged
          [] OTHER ->
                IF Index(RestoreOrder, k) <= Index(RestorePhase, p) THEN Restored ELSE Published]

\* verify() of the owner that made the transition.
VerifyLive ==
    /\ owner.pc \notin {"NONE", "UNCERTAIN", "ENDED"}
    /\ IF record = "SELECTOR" /\ ~intent THEN \A k \in Kinds : place[k]["canonical"] = "OLD"
       ELSE place = Layout(owner.phase)

\* __init__ and prepare: the external delivery is bound before any effect.
PrepareInputs ==
    /\ OwnerIn("NONE") /\ record = "NONE"
    /\ record' = "EXTERNAL"
    /\ owner' = [NoOwner EXCEPT !.pc = "PREPARED"]
    /\ UNCHANGED <<place, intent, phase, retained>>

\* publish: the preparation record, the archives and staged copies ...
RecordPreparation ==
    /\ OwnerIn("PREPARED") /\ VerifyLive
    /\ record' = "SELECTOR" /\ OwnerTo("STAGING", 1)
    /\ UNCHANGED <<place, intent, phase, retained>>

StageInput ==
    LET k == PublishOrder[owner.index] IN
    /\ OwnerIn("STAGING") /\ VerifyLive
    /\ place' = [place EXCEPT ![k] = Staged]
    /\ IF owner.index < 3 THEN OwnerTo("STAGING", owner.index + 1) ELSE OwnerTo("INTENT", 1)
    /\ UNCHANGED <<record, intent, phase, retained>>

\* ... the intent and its state ...
WriteIntent ==
    /\ OwnerIn("INTENT") /\ VerifyLive
    /\ intent' = TRUE /\ owner' = [owner EXCEPT !.pc = "STATE", !.phase = "INTENT"]
    /\ UNCHANGED <<place, record, phase, retained>>

WriteState ==
    /\ OwnerIn("STATE") /\ phase' = "INTENT" /\ OwnerTo("ASIDE", 1)
    /\ UNCHANGED <<place, record, intent, retained>>

\* ... and one pair of renames per input, each with its phase.
PublishAside ==
    /\ OwnerIn("ASIDE") /\ VerifyLive
    /\ place' = Moved(PublishOrder[owner.index], "canonical", "old")
    /\ OwnerTo("INTO", owner.index)
    /\ UNCHANGED <<record, intent, phase, retained>>

PublishInto ==
    /\ OwnerIn("INTO")
    /\ place' = Moved(PublishOrder[owner.index], "stage", "canonical")
    /\ owner' = [owner EXCEPT !.pc = "PHASE", !.phase = PublishPhase[owner.index]]
    /\ UNCHANGED <<record, intent, phase, retained>>

PublishPhaseRow ==
    /\ OwnerIn("PHASE") /\ VerifyLive
    /\ phase' = owner.phase
    /\ IF owner.index < 3 THEN OwnerTo("ASIDE", owner.index + 1) ELSE OwnerTo("PUBLISHED", 1)
    /\ UNCHANGED <<place, record, intent, retained>>

PublishInputs ==
    RecordPreparation \/ StageInput \/ WriteIntent \/ WriteState \/ PublishAside \/ PublishInto
        \/ PublishPhaseRow

-----------------------------------------------------------------------------
\* restore() before anything was prepared in the selector: nothing to undo.
RestoreNothing ==
    /\ OwnerIn("PREPARED") /\ VerifyLive
    /\ owner' = [owner EXCEPT !.restored = TRUE]
    /\ UNCHANGED <<place, record, intent, phase, retained>>

\* restore() of a preparation without an intent.
RetainPreparation ==
    /\ owner.pc \in {"STAGING", "INTENT", "FOUND"} /\ record # "NONE" /\ ~intent
    /\ \A k \in Kinds : place[k]["canonical"] = "OLD"
    /\ retained' = TRUE /\ owner' = [owner EXCEPT !.pc = "KEPT", !.restored = TRUE]
    /\ UNCHANGED <<place, record, intent, phase>>

\* restore() of a complete publication: the pairs in the other order.
OpenRestore ==
    /\ OwnerIn("PUBLISHED") /\ VerifyLive
    /\ OwnerTo("OUT", 1)
    /\ UNCHANGED <<place, record, intent, phase, retained>>

RestoreOut ==
    /\ OwnerIn("OUT")
    /\ place' = Moved(RestoreOrder[owner.index], "canonical", "candidate")
    /\ OwnerTo("BACK", owner.index)
    /\ UNCHANGED <<record, intent, phase, retained>>

RestoreBack ==
    /\ OwnerIn("BACK")
    /\ place' = Moved(RestoreOrder[owner.index], "old", "canonical")
    /\ owner' = [owner EXCEPT !.pc = "BACK_PHASE", !.phase = RestorePhase[owner.index]]
    /\ UNCHANGED <<record, intent, phase, retained>>

RestorePhaseRow ==
    /\ OwnerIn("BACK_PHASE") /\ VerifyLive
    /\ phase' = owner.phase
    /\ IF owner.index < 3 THEN OwnerTo("OUT", owner.index + 1)
       ELSE owner' = [owner EXCEPT !.pc = "RESTORED", !.restored = TRUE]
    /\ UNCHANGED <<place, record, intent, retained>>

-----------------------------------------------------------------------------
(***************************************************************************)
(* A later owner (resume), inside a retirement.                              *)
(***************************************************************************)

\* _recovery_location: two objects, each at exactly one place.
Located(k) ==
    /\ Cardinality({q \in Places : place[k][q] = "OLD"}) = 1
    /\ Cardinality({q \in Places : place[k][q] = "NEW"}) = 1
Where(k, which) == CHOOSE q \in Places : place[k][q] = which

\* resume, from the preparation in the selector or the external one alone.  A
\* RESTORED state is read like any other.
Resume ==
    /\ record # "NONE"
    /\ IF intent THEN \A k \in Kinds : Located(k)
       ELSE \A k \in Kinds : place[k]["canonical"] = "OLD"
    /\ owner' = [NoOwner EXCEPT !.pc = IF intent THEN "NEW_AWAY" ELSE "FOUND", !.phase = phase]
    /\ UNCHANGED <<place, record, intent, phase, retained>>

\* Mutation: the old object goes back over a published new one.
RestoreOver ==
    LET k == RestoreOrder[owner.index] IN
    /\ OwnerIn("NEW_AWAY") /\ Located(k)
    /\ place' = CASE place[k]["candidate"] = "NEW" -> place
                  [] place[k]["canonical"] = "NEW" -> Moved(k, Where(k, "OLD"), "canonical")
                  [] OTHER -> Moved(k, Where(k, "NEW"), "candidate")
    /\ OwnerTo("OLD_HOME", owner.index)
    /\ UNCHANGED <<record, intent, phase, retained>>

\* restore_pair: the new object first, onto nothing ...
NewAway ==
    LET k == RestoreOrder[owner.index] IN
    /\ OwnerIn("NEW_AWAY") /\ Located(k)
    /\ IF place[k]["candidate"] = "NEW" THEN UNCHANGED place
       ELSE place[k]["candidate"] = "NONE" /\ place' = Moved(k, Where(k, "NEW"), "candidate")
    /\ OwnerTo("OLD_HOME", owner.index)
    /\ UNCHANGED <<record, intent, phase, retained>>

\* ... then the old one, onto nothing.
OldHome ==
    LET k == RestoreOrder[owner.index] IN
    /\ OwnerIn("OLD_HOME")
    /\ IF place[k]["canonical"] = "OLD" THEN UNCHANGED place
       ELSE place[k]["canonical"] = "NONE" /\ place' = Moved(k, Where(k, "OLD"), "canonical")
    /\ IF owner.index < 3 THEN OwnerTo("NEW_AWAY", owner.index + 1) ELSE OwnerTo("RESTORED_ROW", 1)
    /\ UNCHANGED <<record, intent, phase, retained>>

RestoredRow ==
    /\ OwnerIn("RESTORED_ROW") /\ \A k \in Kinds : Located(k)
    /\ phase' = "RESTORED"
    /\ owner' = [owner EXCEPT !.pc = "RESTORED", !.phase = "RESTORED", !.restored = TRUE]
    /\ UNCHANGED <<place, record, intent, retained>>

RestoreInputs ==
    \/ RestoreNothing \/ RetainPreparation \/ OpenRestore \/ RestoreOut \/ RestoreBack
    \/ RestorePhaseRow
RestoreFound == RetainPreparation \/ NewAway \/ OldHome \/ RestoredRow

\* A failure from the first state row of publish on, or once restore has begun,
\* makes the owner refuse everything after.
LoseInputs ==
    /\ owner.pc \in {"STATE", "ASIDE", "INTO", "PHASE", "OUT", "BACK", "BACK_PHASE"}
    /\ OwnerTo("UNCERTAIN", 1)
    /\ UNCHANGED <<place, record, intent, phase, retained>>

\* The owner goes with its process.
EndOwner ==
    /\ owner.pc # "NONE" /\ OwnerTo("ENDED", 1)
    /\ UNCHANGED <<place, record, intent, phase, retained>>

InputsNext ==
    \/ PrepareInputs \/ PublishInputs \/ RestoreInputs \/ LoseInputs \/ EndOwner
    \/ OwnerIn("ENDED") /\ Resume
    \/ RestoreFound

InputsSpec == InputsInit /\ [][InputsNext]_inputvars

-----------------------------------------------------------------------------
InputsTypeOK ==
    /\ place \in [Kinds -> [Places -> {"NONE", "OLD", "NEW"}]]
    /\ record \in {"NONE", "EXTERNAL", "SELECTOR"} /\ phase \in Phases \cup {"NONE"}
    /\ intent \in BOOLEAN /\ retained \in BOOLEAN

\* Whatever fails or ends between two renames, both objects of every input
\* still have a name, so that a later owner can put the predecessor's back.
InputsRecoverable == intent => \A k \in Kinds : Located(k)
==============================================================================
