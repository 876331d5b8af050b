---------------------------- MODULE OfflineOllama ----------------------------
(***************************************************************************)
(* The two transactions of kernel/install/offline_ollama_transaction that     *)
(* change the local model runtime under a Kernel that is being installed: the  *)
(* native allocation, which restarts ollama.service with one more setting from *)
(* a drop-in of its own, and the bundle, which replaces its program and model. *)
(* Each compensates its own failure, or is rolled back by its caller later.     *)
(*                                                                         *)
(* A process is who started it and the settings it got.  The receipt is what is *)
(* durable of it; identities in it are those of this transaction.  A step is a  *)
(* check with the effect it guards, or one durable record; an exception may      *)
(* come before any.  Digests, signatures, backups and the GPU recipe are left    *)
(* out: they only add ways to raise.                                         *)
(***************************************************************************)
EXTENDS Naturals, Sequences

CONSTANT
    Pieces      \* what the bundle places, in its order: directories, then the
                \* objects of the runtime, then the files of the model

PieceKinds == <<"DIRECTORY", "OBJECT", "FILE">>
PieceRank(p) == CHOOSE k \in 1..3 : PieceKinds[k] = p.kind

ASSUME PieceAssumption ==
    /\ Pieces \in Seq([kind : {"DIRECTORY", "OBJECT", "FILE"}, before : BOOLEAN,
                       type : {"REGULAR", "LINK", "DIRECTORY"}])
    /\ \A m, n \in 1..Len(Pieces) : m < n => PieceRank(Pieces[m]) <= PieceRank(Pieces[n])
    \* Only directories that are introduced are in the list.
    /\ \A n \in 1..Len(Pieces) : Pieces[n].kind = "DIRECTORY" => ~Pieces[n].before

VARIABLES
    service,    \* the process of ollama.service
    loaded,     \* the settings of the manager for it
    dropin,     \* the directory of its drop-ins, and what is in it
    piece,      \* what each piece of the bundle is on disk
    receipt,    \* receipt.json of the transaction
    call,       \* the call of install or rollback in progress
    meddled     \* history: somebody else touched the runtime meanwhile

runtimevars == <<service, loaded, dropin, piece, receipt, call, meddled>>

Down == [by |-> "NOBODY", env |-> "NONE"]
Planned == [by |-> "PLAN", env |-> "BEFORE"]
Up == service # Down

RuntimeInit ==
    /\ service = Planned /\ loaded = "BEFORE"
    /\ dropin = [dir |-> "NONE", conf |-> "NONE"]
    /\ piece = [n \in 1..Len(Pieces) |-> "BEFORE"]
    /\ receipt = [phase |-> "NONE", dir |-> FALSE, conf |-> FALSE, after |-> FALSE,
                  start |-> Down, back |-> Down]
    /\ call = [pc |-> "IDLE", n |-> 0] /\ meddled = FALSE

Calling(pc) == call.pc = pc
CallTo(pc, n) == call' = [pc |-> pc, n |-> n]

\* A durable record, and nothing else.
Recorded(r, pc) ==
    /\ receipt' = r /\ CallTo(pc, 0)
    /\ UNCHANGED <<service, loaded, dropin, piece, meddled>>

\* systemctl start does nothing to a unit that runs.
Begun(by) == service' = IF Up THEN service ELSE [by |-> by, env |-> loaded]

\* systemctl daemon-reload.
Loads == loaded' = CASE dropin.conf = "NONE" -> "BEFORE" [] dropin.conf = "OURS" -> "AFTER"
                     [] OTHER -> "OTHER"

-----------------------------------------------------------------------------
(***************************************************************************)
(* install_native_allocation.                                               *)
(***************************************************************************)

\* native_allocation_prestate.
Prestate == loaded = "BEFORE" /\ dropin.dir = "NONE" /\ Up

\* _native_allocation_unit_guard: the definition of before or the one of after.
UnitGuard == loaded \in {"BEFORE", "AFTER"}

\* _native_owned_configuration.
Owned ==
    /\ dropin.dir = IF receipt.dir THEN "OURS" ELSE "NONE"
    /\ \/ dropin.conf = "OURS" /\ receipt.conf
       \/ dropin.conf = "NONE" /\ (receipt.conf => receipt.phase = "CONFIG_REQUESTED")

NativeOpen ==
    /\ Calling("IDLE") /\ Prestate /\ service = Planned
    /\ Recorded([receipt EXCEPT !.phase = "PREPARED"], "OBSERVE")

NativeObserve ==
    /\ Calling("OBSERVE") /\ UnitGuard /\ service = Planned
    /\ Recorded([receipt EXCEPT !.phase = "STOP_REQUESTED"], "STOP")

NativeStop ==
    /\ Calling("STOP") /\ service' = Down /\ CallTo("CONFIG", 0)
    /\ UNCHANGED <<loaded, dropin, piece, receipt, meddled>>

NativeConfig ==
    /\ Calling("CONFIG") /\ UnitGuard /\ ~Up /\ dropin.dir = "NONE"
    /\ Recorded([receipt EXCEPT !.phase = "CONFIG_REQUESTED"], "MKDIR")

NativeDirectory ==
    /\ Calling("MKDIR") /\ dropin.dir = "NONE"
    /\ dropin' = [dropin EXCEPT !.dir = "OURS"] /\ CallTo("DIRECTORY", 0)
    /\ UNCHANGED <<service, loaded, piece, receipt, meddled>>

NativeOwnDirectory ==
    /\ Calling("DIRECTORY")
    /\ Recorded([receipt EXCEPT !.dir = TRUE], "INTENT")

\* _native_create_configuration: the inode is recorded before it is linked.
NativeIntent ==
    /\ Calling("INTENT") /\ UnitGuard /\ dropin.dir = "OURS"
    /\ Recorded([receipt EXCEPT !.conf = TRUE], "LINK")

NativeLink ==
    /\ Calling("LINK") /\ UnitGuard /\ dropin = [dir |-> "OURS", conf |-> "NONE"]
    /\ dropin' = [dropin EXCEPT !.conf = "OURS"] /\ CallTo("RELOAD", 0)
    /\ UNCHANGED <<service, loaded, piece, receipt, meddled>>

NativeReload ==
    /\ Calling("RELOAD") /\ UnitGuard /\ Loads /\ CallTo("REQUEST", 0)
    /\ UNCHANGED <<service, dropin, piece, receipt, meddled>>

NativeRequest ==
    /\ Calling("REQUEST") /\ UnitGuard
    /\ Recorded([receipt EXCEPT !.phase = "START_REQUESTED"], "START")

NativeStart ==
    /\ Calling("START") /\ Begun("INSTALL") /\ CallTo("BIND", 0)
    /\ UNCHANGED <<loaded, dropin, piece, receipt, meddled>>

\* observe_native_incarnation: whoever runs now.
NativeBind ==
    /\ Calling("BIND") /\ Up
    /\ Recorded([receipt EXCEPT !.start = service], "WAIT")

\* wait_native_allocation, and the transition of the plan.
NativeWait ==
    /\ Calling("WAIT") /\ service = receipt.start /\ service.env = "AFTER"
    /\ Recorded([receipt EXCEPT !.after = TRUE], "ACCEPT")

\* verify_installed_native_allocation reads the same again.
NativeInstalled == service = receipt.start /\ loaded = "AFTER" /\ Owned

NativeAccept ==
    /\ Calling("ACCEPT") /\ NativeInstalled
    /\ Recorded([receipt EXCEPT !.phase = "DEPENDENCY_OBSERVED"], "RETURN")

NativeReturn ==
    /\ Calling("RETURN") /\ UnitGuard /\ Owned
    /\ Recorded(receipt, "RETURNED")

NativeStep ==
    NativeObserve \/ NativeStop \/ NativeConfig \/ NativeDirectory \/ NativeOwnDirectory
        \/ NativeIntent \/ NativeLink \/ NativeReload \/ NativeRequest \/ NativeStart
        \/ NativeBind \/ NativeWait \/ NativeAccept \/ NativeReturn

\* Before its first request it owns no effect and undoes none; the phase in
\* memory is already the next one when its record fails.
NativeRaise ==
    /\ call.pc \in {"OBSERVE", "STOP", "CONFIG", "MKDIR", "DIRECTORY", "INTENT", "LINK", "RELOAD",
                    "REQUEST", "START", "BIND", "WAIT", "ACCEPT", "RETURN"}
    /\ \/ Calling("OBSERVE") /\ Recorded(receipt, "LEFT")
       \/ Recorded(receipt, "UNDO")

-----------------------------------------------------------------------------
(***************************************************************************)
(* rollback_native_allocation.                                              *)
(***************************************************************************)

\* A process that the receipt binds is that process.
Bound == receipt.start # Down => service = receipt.start

\* What runs is the transaction's own start, ready or not, or the predecessor.
OwnedProcess ==
    /\ Bound
    /\ IF receipt.phase = "START_REQUESTED" /\ ~receipt.after /\ receipt.start # Down
       THEN loaded = "AFTER"
       ELSE service = IF receipt.after THEN receipt.start ELSE Planned

Undoable == UnitGuard /\ Owned

\* Nothing was stopped yet.
Untaken == Up /\ receipt.phase \in {"PREPARED", "STOP_REQUESTED"} /\ ~receipt.dir

UndoNothing ==
    /\ Calling("UNDO") /\ Undoable /\ Untaken /\ OwnedProcess /\ Prestate
    /\ Recorded([receipt EXCEPT !.phase = "RESTORED", !.back = service], "RESTORED")

UndoRequest ==
    /\ Calling("UNDO") /\ Undoable /\ ~Untaken
    /\ IF Up THEN OwnedProcess ELSE receipt.phase # "PREPARED"
    /\ Recorded([receipt EXCEPT !.phase = "RESTORE_REQUESTED"], IF Up THEN "HALT" ELSE "UNLINK")

\* Mutation: the process is not read again before it is stopped.
UndoStopAny ==
    /\ Calling("HALT") /\ service' = Down /\ CallTo("UNLINK", 0)
    /\ UNCHANGED <<loaded, dropin, piece, receipt, meddled>>

UndoStop ==
    /\ Calling("HALT") /\ Bound /\ service' = Down /\ CallTo("UNLINK", 0)
    /\ UNCHANGED <<loaded, dropin, piece, receipt, meddled>>

UndoLink ==
    /\ Calling("UNLINK") /\ ~Up /\ Undoable
    /\ dropin' = [dropin EXCEPT !.conf = "NONE"] /\ CallTo("RMDIR", 0)
    /\ UNCHANGED <<service, loaded, piece, receipt, meddled>>

\* rmdir: of its own directory, with nothing in it.
UndoDirectory ==
    /\ Calling("RMDIR") /\ dropin.dir # "OTHER" /\ dropin.conf = "NONE"
    /\ dropin' = [dropin EXCEPT !.dir = "NONE"] /\ CallTo("UNLOAD", 0)
    /\ UNCHANGED <<service, loaded, piece, receipt, meddled>>

UndoReload ==
    /\ Calling("UNLOAD") /\ Loads /\ CallTo("REVIVE", 0)
    /\ UNCHANGED <<service, dropin, piece, receipt, meddled>>

UndoStart ==
    /\ Calling("REVIVE") /\ UnitGuard /\ Begun("ROLLBACK") /\ CallTo("REBIND", 0)
    /\ UNCHANGED <<loaded, dropin, piece, receipt, meddled>>

UndoBind ==
    /\ Calling("REBIND") /\ Up
    /\ Recorded([receipt EXCEPT !.back = service], "REWARM")

\* The last guard, after the record, may still raise.
UndoDone ==
    /\ Calling("REWARM") /\ service = receipt.back /\ service.env = "BEFORE" /\ Prestate
    /\ \E pc \in {"RESTORED", "LEFT"} : Recorded([receipt EXCEPT !.phase = "RESTORED"], pc)

UndoStep ==
    UndoNothing \/ UndoRequest \/ UndoStop \/ UndoLink \/ UndoDirectory \/ UndoReload
        \/ UndoStart \/ UndoBind \/ UndoDone

Undoing == {"UNDO", "HALT", "UNLINK", "RMDIR", "UNLOAD", "REVIVE", "REBIND", "REWARM"}

UndoRaise == call.pc \in Undoing /\ Recorded(receipt, "LEFT")

-----------------------------------------------------------------------------
(***************************************************************************)
(* install of a bundle.                                                     *)
(***************************************************************************)
Piece == Pieces[call.n]
Kind(n) == IF n \in 1..Len(Pieces) THEN Pieces[n].kind ELSE "NONE"
There(n) == piece[n] \in {"NEW", "OTHER"} \/ (piece[n] = "BEFORE" /\ Pieces[n].before)

\* The selector and the backups.
BundleOpen ==
    /\ Calling("IDLE") /\ service = Planned /\ \A n \in DOMAIN piece : piece[n] = "BEFORE"
    /\ Recorded(receipt, "RECEIPT")

BundleReceipt ==
    /\ Calling("RECEIPT")
    /\ receipt' = [receipt EXCEPT !.phase = "OPEN"] /\ CallTo("MAKE", 1)
    /\ UNCHANGED <<service, loaded, dropin, piece, meddled>>

BundleDirectory ==
    /\ Calling("MAKE") /\ Kind(call.n) = "DIRECTORY" /\ ~There(call.n)
    /\ piece' = [piece EXCEPT ![call.n] = "NEW"] /\ CallTo("MAKE", call.n + 1)
    /\ UNCHANGED <<service, loaded, dropin, receipt, meddled>>

BundleStop ==
    /\ Calling("MAKE") /\ Kind(call.n) # "DIRECTORY"
    /\ service' = Down /\ CallTo("PLACE", call.n)
    /\ UNCHANGED <<loaded, dropin, piece, receipt, meddled>>

\* A link is removed before its successor is made; a file is replaced.
BundleUnlink ==
    /\ Calling("PLACE") /\ Kind(call.n) # "NONE" /\ Piece.type = "LINK" /\ There(call.n)
    /\ piece' = [piece EXCEPT ![call.n] = "NONE"]
    /\ UNCHANGED <<service, loaded, dropin, receipt, call, meddled>>

\* A directory that is there is passed over, whoever made it.
BundlePlace ==
    /\ Calling("PLACE") /\ Kind(call.n) # "NONE" /\ ~(Piece.type = "LINK" /\ There(call.n))
    /\ piece' = IF Piece.type = "DIRECTORY" /\ There(call.n) THEN piece
                ELSE [piece EXCEPT ![call.n] = "NEW"]
    /\ CallTo("PLACE", call.n + 1)
    /\ UNCHANGED <<service, loaded, dropin, receipt, meddled>>

\* _verify_runtime_objects, and the start.
BundleStart ==
    /\ Calling("PLACE") /\ Kind(call.n) = "NONE"
    /\ \A n \in DOMAIN piece : Kind(n) = "OBJECT" =>
        piece[n] = "NEW" \/ (Pieces[n].type = "DIRECTORY" /\ There(n))
    /\ Begun("INSTALL") /\ CallTo("ADMIT", 0)
    /\ UNCHANGED <<loaded, dropin, piece, receipt, meddled>>

BundleAccept == Calling("ADMIT") /\ Up /\ Recorded(receipt, "RETURNED")

BundleStep ==
    BundleReceipt \/ BundleDirectory \/ BundleStop \/ BundleUnlink \/ BundlePlace
        \/ BundleStart \/ BundleAccept

\* With no receipt only the selector is removed.  An exception that is none of
\* Exception passes its handler by.
BundleRaise ==
    \/ Calling("RECEIPT") /\ Recorded(receipt, "LEFT")
    \/ call.pc \in {"MAKE", "PLACE", "ADMIT"} /\ \E pc \in {"BACK", "LEFT"} : Recorded(receipt, pc)

-----------------------------------------------------------------------------
(***************************************************************************)
(* rollback of a bundle.                                                    *)
(***************************************************************************)
BackStop ==
    /\ Calling("BACK") /\ service' = Down /\ CallTo("TAKE", Len(Pieces))
    /\ UNCHANGED <<loaded, dropin, piece, receipt, meddled>>

\* A piece of the prestate is passed over; an object that was to be new and is
\* not there yet is drift, though a file in the same place is not.
Takable(n) ==
    \/ piece[n] = "NEW"
    \/ piece[n] = "BEFORE" /\ (Pieces[n].before \/ Kind(n) = "FILE")

BackTake ==
    /\ Calling("TAKE") /\ Kind(call.n) \in {"OBJECT", "FILE"} /\ Takable(call.n)
    /\ piece' = [piece EXCEPT ![call.n] = "BEFORE"] /\ CallTo("TAKE", call.n - 1)
    /\ UNCHANGED <<service, loaded, dropin, receipt, meddled>>

\* restore_unit.
BackStart ==
    /\ Calling("TAKE") /\ Kind(call.n) \notin {"OBJECT", "FILE"}
    /\ Begun("ROLLBACK") /\ CallTo("CLEAR", call.n)
    /\ UNCHANGED <<loaded, dropin, piece, receipt, meddled>>

\* A directory with somebody's file in it is not removed.
BackClear ==
    /\ Calling("CLEAR") /\ call.n > 0 /\ piece[call.n] # "OTHER"
    /\ piece' = [piece EXCEPT ![call.n] = "BEFORE"] /\ CallTo("CLEAR", call.n - 1)
    /\ UNCHANGED <<service, loaded, dropin, receipt, meddled>>

BackDone ==
    /\ Calling("CLEAR") /\ call.n = 0 /\ Up
    /\ Recorded([receipt EXCEPT !.phase = "RESTORED", !.back = service], "RESTORED")

BackStep == BackStop \/ BackTake \/ BackStart \/ BackClear \/ BackDone

BackRaise == call.pc \in {"BACK", "TAKE", "CLEAR"} /\ Recorded(receipt, "LEFT")

-----------------------------------------------------------------------------
\* The caller's rollback of an installation that returned.
RollbackCalled ==
    /\ Calling("RETURNED")
    /\ Recorded(receipt, IF receipt.phase = "OPEN" THEN "BACK" ELSE "UNDO")

\* verify_completed_native_allocation_rollback and verify_completed_rollback.
RestorationObserved ==
    /\ receipt.phase = "RESTORED" /\ service = receipt.back /\ Prestate
    /\ \A n \in DOMAIN piece : piece[n] = "BEFORE"

\* Somebody else, or the manager on its own, while the transaction is open: the
\* service dies or is started, its drop-ins are edited, a piece is changed.
Meddle ==
    /\ ~meddled /\ meddled' = TRUE
    /\ \/ /\ receipt.phase \notin {"NONE", "RESTORED"}
          /\ service' \in {Down, [by |-> "OTHER", env |-> loaded]}
          /\ UNCHANGED <<dropin, piece>>
       \/ /\ receipt.phase \notin {"NONE", "OPEN", "RESTORED"}
          /\ \/ dropin.dir = "NONE" /\ dropin' = [dir |-> "OTHER", conf |-> "OTHER"]
             \/ dropin.dir = "OURS" /\ \E c \in {"OTHER", "NONE"} : dropin' = [dropin EXCEPT !.conf = c]
          /\ UNCHANGED <<service, piece>>
       \/ /\ receipt.phase = "OPEN"
          /\ \E n \in DOMAIN piece : piece' = [piece EXCEPT ![n] = "OTHER"]
          /\ UNCHANGED <<service, dropin>>
    /\ UNCHANGED <<loaded, receipt, call>>

RuntimeNext ==
    NativeOpen \/ NativeStep \/ NativeRaise \/ UndoStep \/ UndoRaise
        \/ BundleOpen \/ BundleStep \/ BundleRaise \/ BackStep \/ BackRaise
        \/ RollbackCalled \/ Meddle

RuntimeSpec == RuntimeInit /\ [][RuntimeNext]_runtimevars

-----------------------------------------------------------------------------
Settings == {"BEFORE", "AFTER", "OTHER"}
Processes == [by : {"PLAN", "INSTALL", "ROLLBACK", "OTHER"}, env : Settings] \cup {Down}
ReceiptPhases == {"NONE", "PREPARED", "STOP_REQUESTED", "CONFIG_REQUESTED", "START_REQUESTED",
                  "DEPENDENCY_OBSERVED", "RESTORE_REQUESTED", "RESTORED", "OPEN"}
Receipts == [phase : ReceiptPhases, dir : BOOLEAN, conf : BOOLEAN, after : BOOLEAN,
             start : Processes, back : Processes]
CallSteps == {"IDLE", "OBSERVE", "STOP", "CONFIG", "MKDIR", "DIRECTORY", "INTENT", "LINK", "RELOAD",
              "REQUEST", "START", "BIND", "WAIT", "ACCEPT", "RETURN", "RETURNED", "LEFT", "RESTORED",
              "RECEIPT", "MAKE", "PLACE", "ADMIT", "BACK", "TAKE", "CLEAR"} \cup Undoing

RuntimeTypeOK ==
    /\ service \in Processes /\ loaded \in Settings
    /\ dropin \in [dir : {"NONE", "OURS", "OTHER"}, conf : {"NONE", "OURS", "OTHER"}]
    /\ piece \in [1..Len(Pieces) -> {"BEFORE", "NEW", "NONE", "OTHER"}]
    /\ receipt \in Receipts
    /\ call \in [pc : CallSteps, n : 0..(Len(Pieces) + 1)]
    /\ meddled \in BOOLEAN

\* The runtime the transaction found, whichever process it is.
RuntimeBefore ==
    /\ Up /\ service.env = "BEFORE" /\ loaded = "BEFORE"
    /\ dropin = [dir |-> "NONE", conf |-> "NONE"]
    /\ \A n \in DOMAIN piece : piece[n] = "BEFORE"

\* Somebody else's drop-in or its directory is left alone by both transactions, a
\* piece that is not what was placed is not taken back, and the rollback of the
\* native allocation stops no process that its receipt does not bind.  (That of a
\* bundle binds none and stops whatever runs.)
RuntimeOwned ==
    [][meddled' = meddled =>
        /\ "OTHER" \in {dropin.dir, dropin.conf} => dropin' = dropin
        /\ call.pc \in {"TAKE", "CLEAR"} =>
            \A n \in DOMAIN piece : piece[n] = "OTHER" => piece'[n] = "OTHER"
        /\ call.pc \in Undoing /\ Up /\ service' = Down => service = receipt.start]_runtimevars
==============================================================================
