------------------------ MODULE PublicGenerationProofs ------------------------
(***************************************************************************)
(* For every value of the constants: the generation lock excludes, for any     *)
(* number of installers and of boots; the complete installations run under it; *)
(* and what an installation claims of image, selector and units is true.        *)
(***************************************************************************)
EXTENDS PublicGeneration, TLAPS

(***************************************************************************)
(* The generation lock excludes for any number of installers and of boots:    *)
(* OneOwner of GenerationLock, for every value of its constants.              *)
(*                                                                         *)
(* OneOwner is not inductive.  What keeps a creator and a successor apart is  *)
(* the boot the file carries: a creator's file is of this boot and a signed    *)
(* packet never is (PacketOld), so the file one of them owns is never the     *)
(* other's.  What keeps two successors apart is the flock of the inode both    *)
(* descriptors hold (FlockOnce), as far as the name still is that inode.      *)
(***************************************************************************)
\* A creator's file is in place, its own, and of this boot.
CreatorHolds ==
    \A i \in Installers :
        stage[i] \in {"CREATED", "OWNER"} /\ Ordinary(i)
            => lock # NoLock /\ lock.inode = i /\ lock.boot = boot

\* The file a live successor's plan names is of an earlier boot.
PacketOld ==
    \A i \in Installers :
        stage[i] \in Live /\ ~Ordinary(i) => packet[i] \in Files /\ packet[i].boot # boot

\* A successor that owns holds the file that has the name.
SuccessorHolds ==
    \A i \in Installers :
        stage[i] = "OWNER" /\ ~Ordinary(i) => lock = packet[i] /\ opened[i] = packet[i]

\* One descriptor at a time has the flock of an inode.
FlockOnce ==
    \A i, j \in Installers :
        HoldsFlock(i) /\ HoldsFlock(j) /\ opened[i].inode = opened[j].inode => i = j

\* The two ways into the lock do not mix.
WayIn ==
    \A i \in Installers :
        /\ stage[i] = "CREATED" => Ordinary(i)
        /\ stage[i] \in {"OPENED", "FLOCKED"} => ~Ordinary(i)

LockInv == LockTypeOK /\ CreatorHolds /\ PacketOld /\ SuccessorHolds /\ FlockOnce /\ WayIn

-----------------------------------------------------------------------------
\* Every step of the context manager keeps its state well typed.
LEMMA LockTypeStep ==
    ASSUME LockTypeOK, [LockNext]_lockvars
    PROVE  LockTypeOK'
<1> USE LockAssumption DEF LockTypeOK, Files, Stages, Moves
<1>1. CASE RebootLock
  BY <1>1 DEF RebootLock, Live
<1>2. ASSUME NEW i \in Installers, LockStep(i)
      PROVE  LockTypeOK'
  <2>1. CASE PlanFor(i)
    BY <2>1 DEF PlanFor
  <2>2. CASE CreateLock(i)
    <3>1. [inode |-> i, boot |-> boot, written |-> FALSE] \in Files
      OBVIOUS
    <3>2. lock' \in Files \cup {NoLock}
      BY <2>2, <3>1 DEF CreateLock, Create
    <3>3. stage' \in [Installers -> Stages]
      BY <2>2 DEF CreateLock, Create
    <3> QED
      BY <2>2, <3>2, <3>3 DEF CreateLock
  <2>3. CASE WriteLock(i)
    <3>1. lock \in Files
      BY <2>3 DEF WriteLock
    <3>2. lock' \in Files
      BY <2>3, <3>1 DEF WriteLock
    <3> QED
      BY <2>3, <3>2 DEF WriteLock
  <2>4. CASE OpenLock(i)
    BY <2>4 DEF OpenLock
  <2>5. CASE FlockLock(i)
    BY <2>5 DEF FlockLock
  <2>6. CASE EnterRetained(i)
    BY <2>6 DEF EnterRetained
  <2>7. CASE KillInstaller(i)
    BY <2>7 DEF KillInstaller
  <2>8. CASE \E complete \in BOOLEAN : ReleaseLock(i, complete)
    BY <2>8 DEF ReleaseLock
  <2> QED
    BY <1>2, <2>1, <2>2, <2>3, <2>4, <2>5, <2>6, <2>7, <2>8 DEF LockStep
<1>3. CASE UNCHANGED lockvars
  BY <1>3 DEF lockvars
<1> QED
  BY <1>1, <1>2, <1>3 DEF LockNext

\* The invariant separates two owners: by inode, by boot, or by flock.
LEMMA LockInvSeparates ==
    ASSUME LockInv
    PROVE  OneOwner
<1> SUFFICES ASSUME NEW i \in Installers, NEW j \in Installers,
                    stage[i] = "OWNER", stage[j] = "OWNER"
             PROVE  i = j
  BY DEF OneOwner
<1>1. CASE Ordinary(i) /\ Ordinary(j)
  BY <1>1 DEF LockInv, CreatorHolds
<1>2. ASSUME NEW a \in Installers, NEW b \in Installers, stage[a] = "OWNER",
             stage[b] = "OWNER", Ordinary(a), ~Ordinary(b)
      PROVE  FALSE
  BY <1>2 DEF LockInv, CreatorHolds, PacketOld, SuccessorHolds, Live
<1>3. CASE ~Ordinary(i) /\ ~Ordinary(j)
  BY <1>3 DEF LockInv, SuccessorHolds, FlockOnce, HoldsFlock
<1> QED
  BY <1>1, <1>2, <1>3

-----------------------------------------------------------------------------
\* An owner that unlinks the file leaves no other creator or owner behind it.
LEMMA LastHolder ==
    ASSUME LockInv, NEW i \in Installers, Owns(i), NEW j \in Installers,
           \/ stage[j] \in {"CREATED", "OWNER"} /\ Ordinary(j)
           \/ stage[j] = "OWNER" /\ ~Ordinary(j)
    PROVE  i = j
<1>1. stage[i] = "OWNER"
  BY DEF Owns
<1>2. CASE stage[j] = "OWNER"
  BY <1>1, <1>2, LockInvSeparates DEF OneOwner
<1>3. CASE stage[j] = "CREATED" /\ Ordinary(j) /\ Ordinary(i)
  BY <1>1, <1>3 DEF LockInv, CreatorHolds
<1>4. CASE stage[j] = "CREATED" /\ Ordinary(j) /\ ~Ordinary(i)
  BY <1>1, <1>4 DEF LockInv, CreatorHolds, PacketOld, SuccessorHolds, Live
<1> QED
  BY <1>2, <1>3, <1>4

\* Every step keeps the invariant.
LEMMA LockInvStep ==
    ASSUME LockInv, [LockNext]_lockvars
    PROVE  LockInv'
<1>1. LockTypeOK'
  BY LockTypeStep DEF LockInv
<1>2. CASE UNCHANGED lockvars
  BY <1>1, <1>2 DEF lockvars, LockInv, CreatorHolds, PacketOld, SuccessorHolds, FlockOnce,
     WayIn, HoldsFlock, Ordinary
<1>3. CASE RebootLock
  <2>1. \A i \in Installers : stage'[i] \notin Live
    BY <1>3 DEF RebootLock, Live, LockInv, LockTypeOK
  <2> QED
    BY <1>1, <2>1 DEF LockInv, Live, CreatorHolds, PacketOld, SuccessorHolds, FlockOnce,
       WayIn, HoldsFlock
<1>4. ASSUME NEW i \in Installers, LockStep(i)
      PROVE  LockInv'
  <2> USE DEF Ordinary, HoldsFlock, Live, Moves
  <2>t. stage \in [Installers -> Stages] /\ packet \in [Installers -> Files \cup {NoPacket}]
        /\ opened \in [Installers -> Files \cup {NoLock}] /\ lock \in Files \cup {NoLock}
        /\ NoPacket \notin Files /\ NoLock \notin Files
    BY LockAssumption DEF LockInv, LockTypeOK, Files
  <2>1. CASE PlanFor(i)
    <3>1. stage'[i] = "PLANNED" /\ stage[i] = "IDLE" /\ boot' = boot /\ lock' = lock /\ opened' = opened
          /\ \A j \in Installers \ {i} : stage'[j] = stage[j] /\ packet'[j] = packet[j]
      BY <2>1, <2>t DEF PlanFor
    <3>2. packet'[i] = NoPacket \/ (packet'[i] \in Files /\ packet'[i].boot # boot)
      BY <2>1, <2>t DEF PlanFor, RetainedBinding
    <3> QED
      BY <1>1, <3>1, <3>2 DEF LockInv, CreatorHolds, PacketOld, SuccessorHolds, FlockOnce, WayIn
  <2>2. CASE CreateLock(i)
    <3>1. stage[i] = "PLANNED" /\ packet[i] = NoPacket
          /\ boot' = boot /\ packet' = packet /\ opened' = opened
          /\ \A j \in Installers \ {i} : stage'[j] = stage[j]
      BY <2>2, <2>t DEF CreateLock, Create
    <3>2. CASE lock = NoLock
      <4>1. stage'[i] = "CREATED" /\ lock' = [inode |-> i, boot |-> boot, written |-> FALSE]
        BY <2>2, <2>t, <3>2 DEF CreateLock, Create
      <4>f. [inode |-> i, boot |-> boot, written |-> FALSE] \in Files
        BY DEF Files, LockInv, LockTypeOK
      <4>2. lock' # NoLock /\ lock'.inode = i /\ lock'.boot = boot
        BY <2>t, <4>1, <4>f
      <4>3. \A j \in Installers : ~(stage[j] \in {"CREATED", "OWNER"} /\ packet[j] = NoPacket)
                                  /\ ~(stage[j] = "OWNER" /\ packet[j] # NoPacket)
        BY <3>2, <2>t DEF LockInv, CreatorHolds, SuccessorHolds
      <4> QED
        BY <1>1, <3>1, <4>1, <4>2, <4>3 DEF LockInv, CreatorHolds, PacketOld, SuccessorHolds,
           FlockOnce, WayIn
    <3>3. CASE lock # NoLock
      <4>1. stage'[i] = "DENIED" /\ lock' = lock
        BY <2>2, <2>t, <3>3 DEF CreateLock, Create
      <4> QED
        BY <1>1, <3>1, <4>1 DEF LockInv, CreatorHolds, PacketOld, SuccessorHolds, FlockOnce, WayIn
    <3> QED
      BY <3>2, <3>3
  <2>3. CASE WriteLock(i)
    <3>1. /\ stage[i] = "CREATED" /\ stage'[i] = "OWNER" /\ packet[i] = NoPacket
          /\ boot' = boot /\ packet' = packet /\ opened' = opened
          /\ \A j \in Installers \ {i} : stage'[j] = stage[j]
      BY <2>3, <2>t DEF WriteLock, LockInv, WayIn
    <3>2. lock \in Files /\ lock.inode = i /\ lock.boot = boot
      BY <3>1, <2>t DEF LockInv, CreatorHolds
    <3>3. lock' \in Files /\ lock'.inode = i /\ lock'.boot = boot
      BY <2>3, <3>2 DEF WriteLock, Files
    <3>4. \A j \in Installers \ {i} : ~(stage[j] \in {"CREATED", "OWNER"} /\ packet[j] = NoPacket)
      BY <3>2 DEF LockInv, CreatorHolds
    <3>5. \A j \in Installers : ~(stage[j] = "OWNER" /\ packet[j] # NoPacket)
      BY <3>2 DEF LockInv, SuccessorHolds, PacketOld
    <3> QED
      BY <1>1, <2>t, <3>1, <3>3, <3>4, <3>5 DEF LockInv, CreatorHolds, PacketOld, SuccessorHolds,
         FlockOnce, WayIn
  <2>4. CASE OpenLock(i)
    <3>1. /\ stage[i] = "PLANNED" /\ packet[i] # NoPacket /\ stage'[i] \in {"DENIED", "OPENED"}
          /\ boot' = boot /\ packet' = packet /\ lock' = lock
          /\ \A j \in Installers \ {i} : stage'[j] = stage[j] /\ opened'[j] = opened[j]
      BY <2>4, <2>t DEF OpenLock
    <3> QED
      BY <1>1, <3>1 DEF LockInv, CreatorHolds, PacketOld, SuccessorHolds, FlockOnce, WayIn
  <2>5. CASE FlockLock(i)
    <3>1. /\ stage[i] = "OPENED" /\ stage'[i] \in {"DENIED", "FLOCKED"}
          /\ stage'[i] = "FLOCKED" => Lockable(i)
          /\ boot' = boot /\ packet' = packet /\ lock' = lock /\ opened' = opened
          /\ \A j \in Installers \ {i} : stage'[j] = stage[j]
      BY <2>5, <2>t DEF FlockLock
    <3>2. FlockOnce'
      BY <3>1 DEF LockInv, FlockOnce, Lockable
    <3> QED
      BY <1>1, <3>1, <3>2 DEF LockInv, CreatorHolds, PacketOld, SuccessorHolds, WayIn
  <2>6. CASE EnterRetained(i)
    <3>1. /\ stage[i] = "FLOCKED" /\ stage'[i] \in {"DENIED", "OWNER"}
          /\ stage'[i] = "OWNER" => Boundary(i)
          /\ boot' = boot /\ packet' = packet /\ lock' = lock /\ opened' = opened
          /\ \A j \in Installers \ {i} : stage'[j] = stage[j]
      BY <2>6, <2>t DEF EnterRetained
    <3>2. packet[i] # NoPacket
      BY <3>1 DEF LockInv, WayIn
    <3>3. FlockOnce'
      BY <3>1 DEF LockInv, FlockOnce
    <3> QED
      BY <1>1, <3>1, <3>2, <3>3 DEF LockInv, CreatorHolds, PacketOld, SuccessorHolds, WayIn, Boundary
  <2>7. CASE KillInstaller(i)
    <3>1. /\ stage'[i] = "DEAD"
          /\ boot' = boot /\ packet' = packet /\ lock' = lock /\ opened' = opened
          /\ \A j \in Installers \ {i} : stage'[j] = stage[j]
      BY <2>7, <2>t DEF KillInstaller
    <3> QED
      BY <1>1, <3>1 DEF LockInv, CreatorHolds, PacketOld, SuccessorHolds, FlockOnce, WayIn
  <2>8. CASE \E complete \in BOOLEAN : ReleaseLock(i, complete)
    <3>1. /\ Owns(i) /\ stage'[i] \in {"RELEASED", "RETAINED"}
          /\ boot' = boot /\ packet' = packet /\ opened' = opened
          /\ \A j \in Installers \ {i} : stage'[j] = stage[j]
      BY <2>8, <2>t DEF ReleaseLock
    <3>2. \A j \in Installers \ {i} : /\ ~(stage[j] \in {"CREATED", "OWNER"} /\ packet[j] = NoPacket)
                                      /\ ~(stage[j] = "OWNER" /\ packet[j] # NoPacket)
      BY <3>1, LastHolder
    <3> QED
      BY <1>1, <3>1, <3>2 DEF LockInv, CreatorHolds, PacketOld, SuccessorHolds, FlockOnce, WayIn
  <2> QED
    BY <1>4, <2>1, <2>2, <2>3, <2>4, <2>5, <2>6, <2>7, <2>8 DEF LockStep
<1> QED
  BY <1>2, <1>3, <1>4 DEF LockNext

\* No file, no plan and no descriptor at first.
LEMMA LockInvInit ==
    ASSUME LockInit
    PROVE  LockInv
<1>1. LockTypeOK
  BY LockAssumption DEF LockInit, LockTypeOK, Stages
<1>2. \A i \in Installers : stage[i] = "IDLE"
  BY DEF LockInit
<1> QED
  BY <1>1, <1>2 DEF LockInv, CreatorHolds, PacketOld, SuccessorHolds, FlockOnce, WayIn,
     HoldsFlock, Live

\* Every reachable state of the lock satisfies the invariant.
LEMMA LockInvariant == LockSpec => []LockInv
<1>1. LockInit => LockInv
  BY LockInvInit
<1>2. LockInv /\ [LockNext]_lockvars => LockInv'
  BY LockInvStep
<1> QED
  BY <1>1, <1>2, PTL DEF LockSpec

-----------------------------------------------------------------------------
\* The state of the lock is always well typed (public_generation_lock).
THEOREM LockTypeCorrect == LockSpec => []LockTypeOK
<1>1. LockInv => LockTypeOK
  BY DEF LockInv
<1> QED
  BY <1>1, LockInvariant, PTL

\* At most one complete installation runs, for any number of installers,
\* crashes and boots (public_generation_lock, _retained_generation_ownership).
THEOREM OneOwnerCorrect == LockSpec => []OneOwner
<1>1. LockInv => OneOwner
  BY LockInvSeparates
<1> QED
  BY <1>1, LockInvariant, PTL

-----------------------------------------------------------------------------
(***************************************************************************)
(* What a death leaves of the lock.                                        *)
(***************************************************************************)

\* The file of a dead creator, of this boot or not even written: no plan names it.
Blocked ==
    /\ lock # NoLock /\ (lock.boot = boot \/ ~lock.written)
    /\ \A i \in Installers : stage[i] \notin {"CREATED", "OWNER"}

\* A kill of the owner excludes every installation until the next boot, and for
\* ever when it fell between the creation of the file and its payload: nobody
\* owns the lock, creates the file again or removes it
\* (_retained_transaction_binding refuses such a file).
BlockedStays ==
    [][Blocked => /\ lock' = lock
                  /\ \A i \in Installers : stage'[i] # "OWNER"
                  /\ Blocked' \/ (boot' # boot /\ lock.written)]_lockvars

\* A plan names written files only.
PacketWritten == \A i \in Installers : packet[i] # NoPacket => packet[i].written

LEMMA PacketWrittenStep ==
    ASSUME LockInv, PacketWritten, [LockNext]_lockvars
    PROVE  PacketWritten'
<1>1. CASE UNCHANGED packet
  BY <1>1 DEF PacketWritten
<1>2. ASSUME NEW i \in Installers, PlanFor(i) PROVE PacketWritten'
  <2>1. packet \in [Installers -> Files \cup {NoPacket}]
    BY DEF LockInv, LockTypeOK
  <2> QED
    BY <1>2, <2>1 DEF PlanFor, RetainedBinding, PacketWritten
<1> QED
  BY <1>1, <1>2 DEF LockNext, LockStep, RebootLock, CreateLock, WriteLock, OpenLock, FlockLock, EnterRetained,
                    KillInstaller, ReleaseLock, lockvars

\* No successor may enter over a blocked lock: its plan names a written file of an
\* earlier boot.
LEMMA BlockedStep ==
    ASSUME LockInv, PacketWritten, Blocked, [LockNext]_lockvars
    PROVE  /\ lock' = lock
           /\ \A i \in Installers : stage'[i] # "OWNER"
           /\ Blocked' \/ (boot' # boot /\ lock.written)
<1>0. stage \in [Installers -> Stages] /\ \A i \in Installers : stage[i] \notin {"CREATED", "OWNER"}
  BY DEF LockInv, LockTypeOK, Blocked
<1>1. CASE UNCHANGED lockvars
  BY <1>1 DEF lockvars, Blocked
<1>2. CASE RebootLock
  BY <1>0, <1>2 DEF RebootLock, Blocked
<1>3. ASSUME NEW i \in Installers, LockStep(i)
      PROVE  lock' = lock /\ boot' = boot /\ \A j \in Installers : stage'[j] \notin {"CREATED", "OWNER"}
  <2> USE DEF Moves
  <2>1. CASE PlanFor(i) \/ OpenLock(i) \/ FlockLock(i) \/ KillInstaller(i)
    BY <1>0, <2>1 DEF PlanFor, OpenLock, FlockLock, KillInstaller
  <2>2. CASE CreateLock(i)
    BY <1>0, <2>2 DEF CreateLock, Create, Blocked
  <2>3. CASE WriteLock(i) \/ \E complete \in BOOLEAN : ReleaseLock(i, complete)
    BY <1>0, <2>3 DEF WriteLock, ReleaseLock, Owns
  <2>4. CASE EnterRetained(i)
    <3>1. ~Boundary(i)
      <4>1. packet[i] \in Files /\ packet[i].boot # boot /\ packet[i].written
        BY <2>4, LockAssumption DEF EnterRetained, LockInv, PacketOld, WayIn, Live, PacketWritten, Ordinary
      <4> QED
        BY <4>1 DEF Boundary, Blocked
    <3> QED
      BY <1>0, <2>4, <3>1 DEF EnterRetained
  <2> QED
    BY <1>3, <2>1, <2>2, <2>3, <2>4 DEF LockStep
<1> QED
  BY <1>1, <1>2, <1>3 DEF LockNext, Blocked

\* For any installers and boots: a lock whose owner died in this boot, or before its
\* payload was written, is never taken over (_retained_transaction_binding).
THEOREM DeadOwnerBlocks == LockSpec => BlockedStays
<1>1. LockInit => PacketWritten
  BY DEF LockInit, PacketWritten
<1>2. LockInv /\ PacketWritten /\ [LockNext]_lockvars => PacketWritten'
  BY PacketWrittenStep
<1>3. LockInv /\ PacketWritten /\ [LockNext]_lockvars =>
        [Blocked => /\ lock' = lock
                    /\ \A i \in Installers : stage'[i] # "OWNER"
                    /\ Blocked' \/ (boot' # boot /\ lock.written)]_lockvars
  BY BlockedStep
<1> QED
  BY <1>1, <1>2, <1>3, LockInvariant, PTL DEF LockSpec, BlockedStays

-----------------------------------------------------------------------------
(***************************************************************************)
(* The complete installation runs under the generation lock: whatever an      *)
(* installation, systemd or a reboot does is a step of GenerationLock or       *)
(* leaves the lock alone, for every value of the constants.  What is proved   *)
(* of the lock therefore holds of the installations.                         *)
(***************************************************************************)
\* What the body of an installation does leaves the lock alone.
LEMMA BodyKeepsLock ==
    ASSUME NEW i \in Installers,
           \/ Promotion(i) \/ Refuse(i) \/ Fail(i) \/ Containment(i) \/ EvidenceUnproven(i)
    PROVE  UNCHANGED lockvars
<1>1. CASE Promotion(i)
  BY <1>1 DEF Promotion, Recheck, Receipt, Journal, CandidateRow, PlaceTree,
     FillTree, Await, StopUnit, PlaceImage, Reload, Select, Cutover, StartTarget, CheckActive, Accept, Terminal, Commit
<1>2. CASE Containment(i)
  BY <1>2 DEF Containment, Contain, StopAll, Confirm, Recut, Observe, Retain
<1> QED
  BY <1>1, <1>2 DEF Refuse, Fail, EvidenceUnproven

\* Every other step is one of the lock's, or systemd's.
LEMMA StepOfLock ==
    ASSUME [Next]_vars
    PROVE  [LockNext]_lockvars
<1>1. CASE UNCHANGED vars
  BY <1>1 DEF vars, lockvars
<1>2. CASE Systemd
  BY <1>2 DEF Systemd, TimerFires, WitnessEnds, Upset
<1>3. CASE Reboot
  BY <1>3 DEF Reboot, LockNext
<1>4. ASSUME NEW i \in Installers,
             Prepare(i) \/ Enter(i) \/ Leave(i) \/ Kill(i)
      PROVE  LockNext
  BY <1>4 DEF Prepare, Enter, Leave, Kill, LockNext, LockStep
<1>5. ASSUME NEW i \in Installers,
             Promotion(i) \/ Refuse(i) \/ Fail(i) \/ Containment(i) \/ EvidenceUnproven(i)
      PROVE  UNCHANGED lockvars
  BY <1>5, BodyKeepsLock
<1> QED
  BY <1>1, <1>2, <1>3, <1>4, <1>5 DEF Next

-----------------------------------------------------------------------------
\* The installations implement the lock (install_request and
\* restore_install_request enter, hold and leave public_generation_lock).
THEOREM InstallationsUnderLock == Spec => LockSpec
<1>1. Init => LockInit
  BY DEF Init
<1>2. [Next]_vars => [LockNext]_lockvars
  BY StepOfLock
<1> QED
  BY <1>1, <1>2, PTL DEF Spec, LockSpec

\* Two complete installations never run at once (public_generation_lock).
THEOREM InstallationsExclude == Spec => []OneOwner
BY InstallationsUnderLock, OneOwnerCorrect, PTL

\* A killed installation excludes every other one until the next boot, and one
\* killed before it wrote its lock excludes them all.
THEOREM InstallationsBlocked == Spec => BlockedStays
BY InstallationsUnderLock, DeadOwnerBlocks, PTL

-----------------------------------------------------------------------------
(***************************************************************************)
(* What an installation says of the host.                                  *)
(*                                                                         *)
(* The lock makes the owner's body the only one that moves the image, the     *)
(* selector and the journals, but systemd moves the units beside it.  What is  *)
(* invariant is therefore which units cannot come back: nothing that is        *)
(* stopped starts again while the timer is stopped, and what restarts starts   *)
(* from the selector.  The invariant follows a body from the stops (Halting)   *)
(* over the image (Placing) to what runs afterwards, and a failed one to what   *)
(* its journal may claim (Observing).                                       *)
(***************************************************************************)
Daemons == Units \ {"witness"}
Idling == {"NONE", "EVIDENCE", "END"}
Selected == {"CUTOVER", "START", "CHECK", "ACCEPT", "TERMINAL", "COMMIT"}
Running == {"CHECK", "ACCEPT", "TERMINAL", "COMMIT"}
Evidence == [image : [1..Rows -> Generations], current : Generations, active : SUBSET Units]
Runs == [pc : {"NONE", "END"} \cup Preparing \cup Promoting \cup Containing,
         index : 1..Len(StopOrder) \cup 1..Rows, pre : Evidence \cup {NoEvidence},
         prior : Generations \cup {NoEvidence},
         cutover : BOOLEAN, safe : BOOLEAN, keep : BOOLEAN, contained : BOOLEAN]

\* Where a body may be: one call of the installer, under the lock, past the
\* evidence it still holds.
Staged(i) ==
    /\ stage[i] = "IDLE" => run[i].pc = "NONE" /\ journal[i] = "NONE"
    /\ run[i].pc \notin Idling => stage[i] = "OWNER"
    /\ run[i].pc \notin {"NONE", "END"} => run[i].pre \in Evidence
    /\ run[i].pc \notin Idling \cup {"RECEIPT"} => last = <<i, boot>>
    /\ journal[i] = "FAILED_INSTALL_RETAINED" => run[i].pc = "END"
    /\ journal[i] = "COMPLETE" => run[i].pc \in {"END"} \cup Containing
    /\ run[i].pc = "AWAIT" => run[i].index = 1
    /\ run[i].pc \in {"STOP", "STOPALL"} => run[i].index \in 1..Len(StopOrder)
    /\ run[i].pc = "IMAGE" => run[i].index \in 1..Rows
    /\ run[i].pc \in {"CUTOVER", "RECUT", "OBSERVE"} => run[i].index \in {1, 2}

\* How far the image and the selector have moved.
Placing(i) ==
    /\ run[i].pc \in {"AWAIT", "STOP", "IMAGE", "RELOAD", "SELECT"} /\ Candidate[i] = i => tree[i] = "PLACED"
    /\ run[i].pc \in {"STOP", "IMAGE", "RELOAD", "SELECT"} => (run[i].cutover <=> ~StartupUnchanged(i))
    /\ run[i].pc = "STOP" => image = run[i].pre.image
    /\ run[i].pc = "IMAGE" =>
          \A r \in 1..Rows : image[r] = IF r < run[i].index THEN Material(Candidate[i])[r]
                                        ELSE run[i].pre.image[r]
    /\ run[i].pc \in {"RELOAD", "SELECT"} \cup Selected => image = Material(Candidate[i])
    /\ run[i].pc \in Selected => current = Candidate[i]
    /\ run[i].pc = "CUTOVER" => ~run[i].cutover
    /\ run[i].pc \in {"START"} \cup Running => run[i].cutover

\* Which units may still run while a promotion stops and starts them.
Halting(i) ==
    /\ run[i].pc = "STOP" =>
          \A u \in Daemons : running[u] # Stopped =>
              /\ u \in run[i].pre.active
              /\ \A n \in 1..run[i].index - 1 : StopOrder[n] = u => StartupUnchanged(i) /\ u \in Vitals
    /\ run[i].pc \in {"IMAGE", "RELOAD", "SELECT"} =>
          \A u \in Daemons : running[u] # Stopped => ~run[i].cutover /\ u \in Vitals
    /\ run[i].pc = "CUTOVER" =>
          \A u \in Daemons : running[u] # Stopped =>
              u \in Vitals /\ (run[i].index = 2 => u = "presentation")
    /\ run[i].pc = "START" => \A u \in Daemons : running[u] = Stopped
    /\ run[i].pc \in Running => \A u \in Daemons : running[u] \in {Stopped, current}

VitalsSelected == \A v \in Vitals : running[v] \in {Stopped, current}

\* What a containment knows of the observers and of the rest.
Observing(i) ==
    /\ run[i].pc \in Containing /\ run[i].cutover /\ ObserverSafe(i) => VitalsSelected
    /\ run[i].pc \in Containing \ {"CONTAIN"} /\ run[i].safe => ObserverSafe(i)
    /\ run[i].pc \in {"RECUT", "OBSERVE", "RETAIN"} /\ run[i].contained => Active \subseteq Vitals
    /\ run[i].pc = "OBSERVE" => VitalsSelected

\* What the closed journal of an installer claims.
Claimed(i) ==
    /\ journal[i] = "FAILED_INSTALL_RETAINED" /\ last = <<i, boot>> => Active \subseteq Vitals
    /\ journal[i] = "COMPLETE" /\ last[1] = i =>
          /\ current = Candidate[i] /\ image = Material(Candidate[i])
          /\ \A u \in Daemons : running[u] \in {Stopped, Candidate[i]}

Body(i) == Staged(i) /\ Placing(i) /\ Halting(i) /\ Observing(i) /\ Claimed(i)

HostInv ==
    /\ HostTypeOK /\ last[2] <= boot /\ run \in [Installers -> Runs]
    /\ \A i \in Installers : Body(i)

-----------------------------------------------------------------------------
(***************************************************************************)
(* Units and bodies.                                                       *)
(***************************************************************************)

LEMMA UnitNames ==
    /\ Len(StopOrder) = 6 /\ StopOrder[1] = "target" /\ StopOrder[2] = "edge"
    /\ StopOrder[3] = "presentation" /\ StopOrder[4] = "core" /\ StopOrder[5] = "timer"
    /\ StopOrder[6] = "witness"
    /\ Units = {"target", "edge", "presentation", "core", "timer", "witness"}
    /\ Daemons = {"target", "edge", "presentation", "core", "timer"}
<1>1. /\ Len(StopOrder) = 6 /\ StopOrder[1] = "target" /\ StopOrder[2] = "edge"
      /\ StopOrder[3] = "presentation" /\ StopOrder[4] = "core" /\ StopOrder[5] = "timer"
      /\ StopOrder[6] = "witness"
    BY DEF StopOrder
<1>2. Units = {"target", "edge", "presentation", "core", "timer", "witness"}
  <2>1. 1..6 = {1, 2, 3, 4, 5, 6}
      OBVIOUS
  <2> QED
      BY <1>1, <2>1 DEF Units
<1> QED
    BY <1>1, <1>2 DEF Daemons

\* A stop takes units away and starts none.
LEMMA StopStops ==
    ASSUME NEW u \in Units, running \in [Units -> Generations \cup {Stopped}], running' = Stop(u)
    PROVE  /\ running' \in [Units -> Generations \cup {Stopped}] /\ running'[u] = Stopped
           /\ \A v \in Units : running'[v] \in {Stopped, running[v]}
           /\ u = "target" => running'["timer"] = Stopped
           /\ u = "presentation" => running'["edge"] = Stopped
<1>1. u \in StoppedWith(u)
    BY UnitNames DEF StoppedWith
<1>2. \A v \in Units : running'[v] = IF v \in StoppedWith(u) THEN Stopped ELSE running[v]
    BY DEF Stop
<1>3. "timer" \in Units /\ "edge" \in Units
    BY UnitNames
<1>4. u = "target" => "timer" \in StoppedWith(u)
    BY DEF StoppedWith
<1>5. u = "presentation" => "edge" \in StoppedWith(u)
    BY DEF StoppedWith
<1>6. running' \in [Units -> Generations \cup {Stopped}]
    BY DEF Stop
<1> QED
    BY <1>1, <1>2, <1>3, <1>4, <1>5, <1>6

LEMMA StartedTyped ==
    ASSUME running \in [Units -> Generations \cup {Stopped}], current \in Generations, NEW us,
           running' = Started(us)
    PROVE  /\ running' \in [Units -> Generations \cup {Stopped}]
           /\ \A v \in Units : running'[v] = IF v \in us /\ running[v] = Stopped THEN current
                                             ELSE running[v]
BY DEF Started

LEMMA StoppedApart ==
    Stopped \notin Generations
BY GenerationAssumption DEF Generations

LEMMA MaterialTyped ==
    \A g : Material(g) \in [1..Rows -> Generations]
BY DEF Material, Generations

LEMMA CandidateTyped ==
    ASSUME NEW i \in Installers
    PROVE  Candidate[i] \in Generations /\ (Candidate[i] \in Installers => Candidate[i] = i)
BY GenerationAssumption DEF Generations

LEMMA BodyEnds ==
    ASSUME NEW r \in Runs
    PROVE  AfterBody(r) \in Runs /\ AfterBody(r).pc = "END"
<1> DEFINE p == IF r.pre = NoEvidence THEN r.prior ELSE r.pre.current
<1>1. p \in Generations \cup {NoEvidence}
    BY DEF Runs, Evidence
<1>2. NoRun \in Runs
  <2>1. 1 \in 1..Len(StopOrder)
      BY UnitNames
  <2> QED
      BY <2>1 DEF NoRun, Runs
<1>3. AfterBody(r) = [NoRun EXCEPT !.pc = "END", !.prior = p]
    BY DEF AfterBody
<1> HIDE DEF p
<1> QED
    BY <1>1, <1>2, <1>3 DEF Runs

Pcs == {"NONE", "END"} \cup Preparing \cup Promoting \cup Containing

LEMMA RunMoves ==
    ASSUME run \in [Installers -> Runs], NEW i \in Installers, NEW pc \in Pcs, Goto(i, pc)
    PROVE  /\ run' \in [Installers -> Runs] /\ run'[i].pc = pc /\ run'[i].index = 1
           /\ run'[i].pre = run[i].pre /\ run'[i].cutover = run[i].cutover
           /\ run'[i].safe = run[i].safe /\ run'[i].contained = run[i].contained
           /\ \A j \in Installers \ {i} : run'[j] = run[j]
<1>1. run[i] \in Runs
    OBVIOUS
<1>2. 1 \in 1..Len(StopOrder)
    BY UnitNames
<1>3. run'[i] = [run[i] EXCEPT !.pc = pc, !.index = 1]
    BY DEF Goto
<1>4. /\ run'[i] \in Runs /\ run'[i].pc = pc /\ run'[i].index = 1
      /\ run'[i].pre = run[i].pre /\ run'[i].cutover = run[i].cutover
      /\ run'[i].safe = run[i].safe /\ run'[i].contained = run[i].contained
    BY <1>1, <1>2, <1>3 DEF Runs, Pcs
<1>5. \A j \in Installers \ {i} : run'[j] = run[j]
    BY DEF Goto
<1>6. run' \in [Installers -> Runs]
  <2>1. run' = [run EXCEPT ![i] = run'[i]]
      BY DEF Goto
  <2> QED
      BY <1>4, <2>1
<1> QED
    BY <1>4, <1>5, <1>6

LEMMA RunRepeats ==
    ASSUME run \in [Installers -> Runs], NEW i \in Installers, Again(i),
           run[i].index + 1 \in 1..Len(StopOrder) \cup 1..Rows
    PROVE  /\ run' \in [Installers -> Runs] /\ run'[i].pc = run[i].pc
           /\ run'[i].index = run[i].index + 1
           /\ run'[i].pre = run[i].pre /\ run'[i].cutover = run[i].cutover
           /\ run'[i].safe = run[i].safe /\ run'[i].contained = run[i].contained
           /\ \A j \in Installers \ {i} : run'[j] = run[j]
<1>1. run[i] \in Runs
    OBVIOUS
<1>3. run'[i] = [run[i] EXCEPT !.index = run[i].index + 1]
    BY DEF Again
<1>4. /\ run'[i] \in Runs /\ run'[i].pc = run[i].pc /\ run'[i].index = run[i].index + 1
      /\ run'[i].pre = run[i].pre /\ run'[i].cutover = run[i].cutover
      /\ run'[i].safe = run[i].safe /\ run'[i].contained = run[i].contained
    BY <1>1, <1>3 DEF Runs
<1>5. \A j \in Installers \ {i} : run'[j] = run[j]
    BY DEF Again
<1>6. run' \in [Installers -> Runs]
  <2>1. run' = [run EXCEPT ![i] = run'[i]]
      BY DEF Again
  <2> QED
      BY <1>4, <2>1
<1> QED
    BY <1>4, <1>5, <1>6

LEMMA RunEnds ==
    ASSUME run \in [Installers -> Runs], NEW i \in Installers, Ended(i)
    PROVE  /\ run' \in [Installers -> Runs] /\ run'[i].pc = "END"
           /\ \A j \in Installers \ {i} : run'[j] = run[j]
BY BodyEnds DEF Ended

LEMMA RunRaises ==
    ASSUME run \in [Installers -> Runs], NEW i \in Installers,
           run' = [run EXCEPT ![i] = [AfterBody(@) EXCEPT !.contained = FALSE]]
    PROVE  /\ run' \in [Installers -> Runs] /\ run'[i].pc = "END"
           /\ \A j \in Installers \ {i} : run'[j] = run[j]
<1>1. AfterBody(run[i]) \in Runs /\ AfterBody(run[i]).pc = "END"
    BY BodyEnds
<1>2. run'[i] = [AfterBody(run[i]) EXCEPT !.contained = FALSE]
    OBVIOUS
<1>3. run'[i] \in Runs /\ run'[i].pc = "END"
    BY <1>1, <1>2 DEF Runs
<1> QED
    BY <1>3

-----------------------------------------------------------------------------
(***************************************************************************)
(* Systemd moves the units alone, and only from the selector.               *)
(***************************************************************************)

\* What systemd can do to the units on its own account.
LEMMA SystemdMoves ==
    ASSUME HostInv, Systemd
    PROVE  /\ UNCHANGED <<boot, lock, packet, opened, stage, image, stale, current, journal, tree, run, last>>
           /\ running' \in [Units -> Generations \cup {Stopped}] /\ upsets' \in 0..MaxUpsets
           /\ \A v \in Daemons : \/ running'[v] \in {Stopped, running[v]}
                                 \/ running[v] # Stopped /\ running'[v] = current
           /\ running'["witness"] # Stopped => running["witness"] # Stopped \/ running["timer"] # Stopped
<1>1. /\ running \in [Units -> Generations \cup {Stopped}] /\ current \in Generations
      /\ upsets \in 0..MaxUpsets /\ boot \in Nat /\ MaxUpsets \in Nat
    BY LockAssumption, GenerationAssumption DEF HostInv, HostTypeOK, LockTypeOK
<1>2. Unsettled => upsets' \in 0..MaxUpsets
    BY <1>1 DEF Unsettled
<1>3. /\ UNCHANGED <<boot, lock, packet, opened, stage, image, stale, current, journal, tree, run, last>>
      /\ upsets' \in 0..MaxUpsets
    BY <1>1, <1>2 DEF Systemd, TimerFires, WitnessEnds, Upset, lockvars, filevars
<1>4. CASE TimerFires
  <2>1. /\ running["timer"] # Stopped
        /\ running' \in [Units -> Generations \cup {Stopped}]
        /\ \A v \in Units : running'[v] = IF v \in {"witness"} /\ running[v] = Stopped
                                          THEN current ELSE running[v]
      BY <1>1, <1>4, StartedTyped DEF TimerFires
  <2> QED
      BY <1>3, <2>1, UnitNames
<1>5. CASE WitnessEnds
    BY <1>1, <1>3, <1>5, UnitNames DEF WitnessEnds
<1>6. ASSUME NEW u \in Services, Upset(u)
      PROVE  /\ running' \in [Units -> Generations \cup {Stopped}]
             /\ \A v \in Daemons : \/ running'[v] \in {Stopped, running[v]}
                                   \/ running[v] # Stopped /\ running'[v] = current
             /\ running'["witness"] \in {Stopped, running["witness"]}
  <2>1. u \in Units /\ u # "witness" /\ "witness" \in Units /\ Daemons \subseteq Units
      BY UnitNames DEF Services
  <2>2. CASE running' = [running EXCEPT ![u] = current]
      BY <1>1, <1>6, <2>1, <2>2 DEF Upset
  <2>3. CASE running' = Stop(u)
      BY <1>1, <2>1, <2>3, StopStops
  <2> QED
      BY <1>6, <2>2, <2>3 DEF Upset
<1> QED
    BY <1>3, <1>4, <1>5, <1>6, StoppedApart DEF Systemd

LEMMA SystemdKeeps ==
    ASSUME HostInv, Systemd
    PROVE  HostInv'
<1>1. /\ UNCHANGED <<boot, lock, packet, opened, stage, image, stale, current, journal, tree, run, last>>
      /\ running' \in [Units -> Generations \cup {Stopped}] /\ upsets' \in 0..MaxUpsets
      /\ \A v \in Daemons : \/ running'[v] \in {Stopped, running[v]}
                            \/ running[v] # Stopped /\ running'[v] = current
      /\ running'["witness"] # Stopped => running["witness"] # Stopped \/ running["timer"] # Stopped
    BY SystemdMoves
<1>2. HostTypeOK' /\ last'[2] <= boot' /\ run' \in [Installers -> Runs]
    BY <1>1 DEF HostInv, HostTypeOK, LockTypeOK
<1>3. Vitals \subseteq Daemons /\ Daemons = Units \ {"witness"}
    BY UnitNames DEF Vitals, Daemons
<1>4. Active \subseteq Vitals => Active' \subseteq Vitals
  <2>1. ASSUME Active \subseteq Vitals, NEW v \in Units, running'[v] # Stopped PROVE v \in Vitals
    <3>1. "timer" \in Units /\ "timer" \notin Vitals /\ "witness" \in Units /\ "witness" \notin Vitals
        BY UnitNames DEF Vitals
    <3>2. running["timer"] = Stopped /\ running["witness"] = Stopped
        BY <2>1, <3>1 DEF Active
    <3>3. v \in Daemons /\ running[v] # Stopped
        BY <1>1, <1>3, <2>1, <3>2
    <3> QED
        BY <2>1, <3>3 DEF Active
  <2> QED
      BY <2>1 DEF Active
<1>5. VitalsSelected => VitalsSelected'
    BY <1>1, <1>3 DEF VitalsSelected
<1>6. ASSUME NEW i \in Installers PROVE Body(i)'
  <2>1. Body(i)
      BY DEF HostInv
  <2>2. Staged(i)' /\ Placing(i)'
      BY <1>1, <2>1 DEF Body, Staged, Placing, StartupUnchanged
  <2>3. Halting(i)'
      BY <1>1, <2>1 DEF Body, Halting, StartupUnchanged
  <2>4. Observing(i)'
      BY <1>1, <1>4, <1>5, <2>1 DEF Body, Observing, ObserverSafe
  <2>5. Claimed(i)'
      BY <1>1, <1>4, <2>1 DEF Body, Claimed
  <2> QED
      BY <2>2, <2>3, <2>4, <2>5 DEF Body
<1> QED
    BY <1>2, <1>6 DEF HostInv

-----------------------------------------------------------------------------
(***************************************************************************)
(* Steps of one installer.                                                 *)
(***************************************************************************)

\* Where nobody's body is, nothing is claimed of the host.
LEMMA IdleBody ==
    ASSUME NEW i \in Installers, run[i].pc \in Idling
    PROVE  Placing(i) /\ Halting(i) /\ Observing(i)
BY DEF Idling, Placing, Halting, Observing, Selected, Running, Containing

\* A step of the body under the lock leaves every other installer's body valid:
\* no other one is past its evidence, and what its journal claims of the host
\* is claimed only as long as nobody has recorded a prestate since.
LEMMA OwnerKeepsOthers ==
    ASSUME HostInv, OneOwner, NEW i \in Installers, stage[i] = "OWNER", UNCHANGED lockvars,
           \A j \in Installers \ {i} : /\ run'[j] = run[j] /\ journal'[j] = journal[j]
                                       /\ tree'[j] = tree[j],
           last' = <<i, boot>> \/ UNCHANGED <<image, current, running, last>>,
           NEW j \in Installers \ {i}
    PROVE  Body(j)'
<1>1. Body(j)
    BY DEF HostInv
<1>2. run[j].pc \in Idling
    BY <1>1 DEF OneOwner, Body, Staged
<1>3. UNCHANGED <<boot, stage>> /\ run'[j] = run[j] /\ journal'[j] = journal[j]
    BY DEF lockvars
<1>4. Placing(j)' /\ Halting(j)' /\ Observing(j)'
    BY <1>2, <1>3 DEF Idling, Placing, Halting, Observing, Selected, Running, Containing
<1>5. Staged(j)'
    BY <1>1, <1>2, <1>3 DEF Body, Staged, Idling
<1>6. Claimed(j)'
  <2>1. CASE last' = <<i, boot>>
      BY <1>3, <2>1 DEF Claimed
  <2>2. CASE UNCHANGED <<image, current, running, last>>
      BY <1>1, <1>3, <2>2 DEF Body, Claimed, Active
  <2> QED
      BY <2>1, <2>2
<1> QED
    BY <1>4, <1>5, <1>6 DEF Body

LEMMA OwnerKeeps ==
    ASSUME HostInv, OneOwner, NEW i \in Installers, stage[i] = "OWNER", UNCHANGED lockvars,
           \A j \in Installers \ {i} : /\ run'[j] = run[j] /\ journal'[j] = journal[j]
                                       /\ tree'[j] = tree[j],
           last' = <<i, boot>> \/ UNCHANGED <<image, current, running, last>>,
           HostTypeOK', run' \in [Installers -> Runs], Body(i)'
    PROVE  HostInv'
<1>1. last'[2] <= boot'
  <2>1. boot' = boot /\ boot \in Nat
      BY LockAssumption DEF lockvars, HostInv, HostTypeOK, LockTypeOK
  <2> QED
      BY <2>1 DEF HostInv
<1>2. \A j \in Installers \ {i} : Body(j)'
    BY OwnerKeepsOthers
<1> QED
    BY <1>1, <1>2 DEF HostInv

\* A step that moves the installer in the lock or ends its body, and not the host.
LEMMA QuietKeeps ==
    ASSUME HostInv, NEW i \in Installers, LockTypeOK', boot' = boot,
           UNCHANGED <<image, stale, current, running, upsets, journal, tree, last>>,
           \A j \in Installers \ {i} : run'[j] = run[j] /\ stage'[j] = stage[j],
           run' \in [Installers -> Runs], Staged(i)',
           run'[i] = run[i] \/ run'[i].pc \in Idling
    PROVE  HostInv'
<1>1. HostTypeOK' /\ last'[2] <= boot'
  <2>1. \A j \in Installers : /\ run'[j].pc \in {"NONE", "END"} \cup Preparing \cup Promoting \cup Containing
                              /\ run'[j].index \in 1..Len(StopOrder) \cup 1..Rows
                              /\ run'[j].prior \in Generations \cup {NoEvidence}
      BY DEF Runs
  <2> QED
      BY <2>1 DEF HostInv, HostTypeOK
<1>2. ASSUME NEW j \in Installers PROVE Body(j)'
  <2>1. Body(j)
      BY DEF HostInv
  <2>2. Claimed(j)'
      BY <2>1 DEF Body, Claimed, Active
  <2>3. CASE run'[j] = run[j]
    <3>1. Placing(j)' /\ Halting(j)'
        BY <2>1, <2>3 DEF Body, Placing, Halting, StartupUnchanged
    <3>2. Observing(j)'
        BY <2>1, <2>3 DEF Body, Observing, ObserverSafe, VitalsSelected, Active
    <3>3. Staged(j)'
        BY <2>1, <2>3 DEF Body, Staged
    <3> QED
        BY <2>2, <3>1, <3>2, <3>3 DEF Body
  <2>4. CASE j = i /\ run'[i].pc \in Idling
    <3>1. Placing(j)' /\ Halting(j)' /\ Observing(j)'
        BY <2>4 DEF Idling, Placing, Halting, Observing, Selected, Running, Containing
    <3> QED
        BY <2>2, <2>4, <3>1 DEF Body
  <2> QED
      BY <2>3, <2>4
<1> QED
    BY <1>1, <1>2 DEF HostInv

-----------------------------------------------------------------------------
(***************************************************************************)
(* The way into the lock, out of it, a kill and a boot.                     *)
(***************************************************************************)

LEMMA OutsideKeeps ==
    ASSUME HostInv, LockTypeOK', NEW i \in Installers, Prepare(i) \/ Enter(i) \/ Leave(i) \/ Kill(i)
    PROVE  HostInv'
<1>1. Body(i) /\ run \in [Installers -> Runs] /\ stage \in [Installers -> Stages] /\ run[i] \in Runs
    BY DEF HostInv, HostTypeOK, LockTypeOK
<1>2. CASE Prepare(i)
  <2>1. /\ stage[i] = "IDLE" /\ stage' = [stage EXCEPT ![i] = "PLANNED"] /\ boot' = boot
        /\ UNCHANGED <<image, stale, current, running, upsets, journal, tree, last>>
        /\ run' = [run EXCEPT ![i].pc = "EVIDENCE", ![i].pre = Observed]
      BY <1>2 DEF Prepare, PlanFor, Moves, hostvars, filevars
  <2>2. Observed \in Evidence
    <3>1. image \in [1..Rows -> Generations] /\ current \in Generations /\ Active \in SUBSET Units
        BY DEF HostInv, HostTypeOK, Active
    <3> QED
        BY <3>1 DEF Observed, Evidence
  <2>3. run'[i] = [run[i] EXCEPT !.pc = "EVIDENCE", !.pre = Observed]
      BY <1>1, <2>1
  <2>4. run'[i] \in Runs /\ run'[i].pc = "EVIDENCE" /\ run'[i].pre \in Evidence
    <3> PICK o \in Evidence : o = Observed
        BY <2>2
    <3>1. run'[i] = [run[i] EXCEPT !.pc = "EVIDENCE", !.pre = o]
        BY <2>3
    <3> QED
        BY <1>1, <3>1 DEF Runs, Preparing
  <2>5. run' = [run EXCEPT ![i] = run'[i]]
      BY <1>1, <2>1
  <2>6. run' \in [Installers -> Runs] /\ \A j \in Installers \ {i} : run'[j] = run[j] /\ stage'[j] = stage[j]
      BY <1>1, <2>1, <2>4, <2>5
  <2>7. Staged(i)'
      BY <1>1, <2>1, <2>4 DEF Staged, Body, Idling
  <2> QED
      BY <2>1, <2>4, <2>6, <2>7, QuietKeeps DEF Idling
<1>3. CASE Enter(i)
  <2>1. /\ stage[i] \in {"PLANNED", "CREATED", "OPENED", "FLOCKED"} /\ stage'[i] # "IDLE"
        /\ \A j \in Installers \ {i} : stage'[j] = stage[j]
        /\ boot' = boot
    BY <1>1, <1>3 DEF Enter, CreateLock, Create, WriteLock, OpenLock, FlockLock, EnterRetained, Moves
  <2>2. UNCHANGED <<image, stale, current, running, upsets, journal, tree, run, last>>
      BY <1>3 DEF Enter, hostvars, filevars
  <2>3. Staged(i)'
      BY <1>1, <2>1, <2>2 DEF Body, Staged
  <2> QED
      BY <1>1, <2>1, <2>2, <2>3, QuietKeeps
<1>4. CASE Leave(i)
  <2>1. /\ stage[i] = "OWNER" /\ stage'[i] # "IDLE" /\ run[i].pc = "END"
        /\ \A j \in Installers \ {i} : stage'[j] = stage[j]
        /\ boot' = boot
    BY <1>1, <1>4 DEF Leave, ReleaseLock, Owns, Moves
  <2>2. UNCHANGED <<image, stale, current, running, upsets, journal, tree, run, last>>
      BY <1>4 DEF Leave, hostvars, filevars
  <2>3. Staged(i)'
      BY <1>1, <2>1, <2>2 DEF Body, Staged, Idling
  <2> QED
      BY <1>1, <2>1, <2>2, <2>3, QuietKeeps
<1>5. CASE Kill(i)
  <2>1. /\ stage'[i] = "DEAD" /\ boot' = boot
        /\ \A j \in Installers \ {i} : stage'[j] = stage[j]
    BY <1>1, <1>5 DEF Kill, KillInstaller, Moves
  <2>2. UNCHANGED <<image, stale, current, running, upsets, journal, tree, last>>
      BY <1>5 DEF Kill, hostvars, filevars
  <2>3. run' \in [Installers -> Runs] /\ run'[i].pc = "END" /\ \A j \in Installers \ {i} : run'[j] = run[j]
      BY <1>1, <1>5, RunEnds DEF Kill
  <2>4. Staged(i)'
      BY <2>1, <2>3 DEF Staged, Idling
  <2> QED
      BY <2>1, <2>2, <2>3, <2>4, QuietKeeps DEF Idling
<1> QED
    BY <1>2, <1>3, <1>4, <1>5

\* A boot ends every body and starts the selected generation.
LEMMA RebootKeeps ==
    ASSUME HostInv, LockTypeOK', Reboot
    PROVE  HostInv'
<1>1. /\ UNCHANGED <<image, current, upsets, journal, tree, last>> /\ boot' = boot + 1
      /\ stale' = FALSE
      /\ running' = [u \in Units |-> IF u = "witness" THEN Stopped ELSE current]
      /\ run' = [i \in Installers |-> IF stage[i] \in Live THEN AfterBody(run[i]) ELSE run[i]]
      /\ stage' = [i \in Installers |-> IF stage[i] \in Live THEN "DEAD" ELSE stage[i]]
    BY DEF Reboot, RebootLock, filevars
<1>2. /\ run \in [Installers -> Runs] /\ current \in Generations /\ boot \in Nat /\ last[2] <= boot
      /\ last[2] \in Nat
    BY LockAssumption DEF HostInv, HostTypeOK, LockTypeOK
<1>3. run' \in [Installers -> Runs]
    BY <1>1, <1>2, BodyEnds
<1>4. HostTypeOK'
  <2>1. \A j \in Installers : /\ run'[j].pc \in {"NONE", "END"} \cup Preparing \cup Promoting \cup Containing
                              /\ run'[j].index \in 1..Len(StopOrder) \cup 1..Rows
                              /\ run'[j].prior \in Generations \cup {NoEvidence}
      BY <1>3 DEF Runs
  <2>2. running' \in [Units -> Generations \cup {Stopped}]
      BY <1>1, <1>2
  <2> QED
      BY <1>1, <2>1, <2>2 DEF HostInv, HostTypeOK
<1>5. ASSUME NEW i \in Installers PROVE Body(i)'
  <2>1. Body(i)
      BY DEF HostInv
  <2>2. /\ run'[i].pc = "END" \/ (stage[i] \notin Live /\ run'[i] = run[i])
        /\ run'[i].pc \in Idling
      BY <1>1, <1>2, <2>1, BodyEnds DEF Body, Staged, Live, Idling
  <2>3. Placing(i)' /\ Halting(i)' /\ Observing(i)'
      BY <2>2 DEF Idling, Placing, Halting, Observing, Selected, Running, Containing
  <2>4. Staged(i)'
      BY <1>1, <2>1, <2>2 DEF Body, Staged, Idling, Live
  <2>5. Claimed(i)'
    <3>1. last' # <<i, boot'>>
        BY <1>1, <1>2
    <3>2. \A u \in Daemons : running'[u] \in {Stopped, current}
        BY <1>1, UnitNames
    <3> QED
        BY <1>1, <2>1, <3>1, <3>2 DEF Body, Claimed
  <2> QED
      BY <2>3, <2>4, <2>5 DEF Body
<1>6. last'[2] <= boot'
    BY <1>1, <1>2
<1> QED
    BY <1>3, <1>4, <1>5, <1>6 DEF HostInv

-----------------------------------------------------------------------------
(***************************************************************************)
(* The body of the owner.                                                  *)
(***************************************************************************)

\* What a step of the body has to keep of its own.
OwnKept(i) ==
    /\ run' \in [Installers -> Runs] /\ \A j \in Installers \ {i} : run'[j] = run[j]
    /\ Body(i)'

LEMMA PreparingKeeps ==
    ASSUME HostInv, NEW i \in Installers,
           \/ Recheck(i) \/ Receipt(i) \/ Journal(i) \/ CandidateRow(i) \/ PlaceTree(i) \/ FillTree(i)
    PROVE  OwnKept(i)
<1>1. /\ Body(i) /\ run \in [Installers -> Runs] /\ run[i].pc \notin {"NONE", "END"}
      /\ stage[i] = "OWNER" /\ UNCHANGED <<boot, stage>>
    BY DEF HostInv, Recheck, Receipt, Journal, CandidateRow, PlaceTree, FillTree, Rechecked, At, lockvars
<1>2. journal \in [Installers -> {"NONE", "RECEIPT", "PREPARED", "IMAGE", "DAEMON_RELOAD",
                                  "SELECTORS", "TARGET_STARTED", "TERMINAL_ACCEPTED", "COMPLETE",
                                  "FAILED_INSTALL_RETAINED", "FAILED_INSTALL_CONTAINMENT_UNPROVEN"}]
      /\ tree \in [Installers -> {"NONE", "RECORDED", "OPEN", "PLACED"}]
    BY DEF HostInv, HostTypeOK
<1> DEFINE To(pc) == /\ Goto(i, pc)
                     /\ \/ pc = "RECEIPT" \/ last' = <<i, boot>>
                        \/ last' = last /\ run[i].pc \in {"JOURNAL", "CANDIDATE", "TREE", "FILL"}
                     /\ pc = "AWAIT" => Candidate[i] # i \/ tree'[i] = "PLACED"
<1>3. PICK pc \in {"RECEIPT", "JOURNAL", "CANDIDATE", "TREE", "FILL", "AWAIT"} : To(pc)
  <2>1. CASE Recheck(i)
    <3>1. To("RECEIPT")
        BY <2>1 DEF Recheck
    <3> QED
        BY <3>1
  <2>2. CASE Receipt(i)
    <3>1. To("JOURNAL")
        BY <2>2 DEF Receipt
    <3> QED
        BY <3>1
  <2>3. CASE Journal(i)
    <3>1. Candidate[i] = i => To("CANDIDATE")
        BY <2>3 DEF Journal, At
    <3>2. Candidate[i] # i => To("AWAIT")
        BY <2>3 DEF Journal, At
    <3> QED
        BY <3>1, <3>2
  <2>4. CASE CandidateRow(i)
    <3>1. To("TREE")
        BY <2>4 DEF CandidateRow, Rechecked, At
    <3> QED
        BY <3>1
  <2>5. CASE PlaceTree(i)
    <3>1. To("FILL")
        BY <2>5 DEF PlaceTree, Rechecked, At
    <3> QED
        BY <3>1
  <2>6. CASE FillTree(i)
    <3>1. To("AWAIT")
        BY <1>2, <2>6 DEF FillTree, At
    <3> QED
        BY <3>1
  <2> QED
      BY <2>1, <2>2, <2>3, <2>4, <2>5, <2>6
<1>4. /\ run' \in [Installers -> Runs] /\ run'[i].pc = pc /\ run'[i].index = 1
      /\ run'[i].pre = run[i].pre
      /\ \A j \in Installers \ {i} : run'[j] = run[j]
  <2>1. pc \in Pcs
      BY DEF Pcs, Preparing
  <2> QED
      BY <1>1, <1>3, <2>1, RunMoves
<1>5. journal'[i] \notin {"COMPLETE", "FAILED_INSTALL_RETAINED"}
  <2>1. run[i].pc \in Preparing /\ Preparing \cap ({"END"} \cup Containing) = {}
      BY DEF Recheck, Receipt, Journal, CandidateRow, PlaceTree, FillTree, Rechecked, At, Preparing, Containing
  <2>2. journal[i] \notin {"COMPLETE", "FAILED_INSTALL_RETAINED"}
      BY <1>1, <2>1 DEF Body, Staged
  <2> QED
    BY <1>2, <2>2 DEF Recheck, Receipt, Journal, CandidateRow, PlaceTree, FillTree, filevars
<1>6. pc # "RECEIPT" => last' = <<i, boot>>
  <2>1. run[i].pc \in {"JOURNAL", "CANDIDATE", "TREE", "FILL"} => last = <<i, boot>>
      BY <1>1 DEF Body, Staged, Idling
  <2> QED
      BY <1>3, <2>1
<1>7. Staged(i)'
    BY <1>1, <1>4, <1>5, <1>6 DEF Body, Staged, Idling
<1>8. Placing(i)'
    BY <1>3, <1>4 DEF Placing, Selected, Running
<1>9. Halting(i)' /\ Observing(i)'
    BY <1>4 DEF Halting, Observing, Selected, Running, Containing
<1>10. Claimed(i)'
    BY <1>5 DEF Claimed
<1> QED
    BY <1>4, <1>7, <1>8, <1>9, <1>10 DEF OwnKept, Body

Working == {"AWAIT"} \cup Promoting \cup Containing

\* What is known of the owner once it is past its own preparation.
LEMMA WorkingKnown ==
    ASSUME HostInv, NEW i \in Installers, run[i].pc \in Working
    PROVE  /\ Body(i) /\ run \in [Installers -> Runs] /\ run[i] \in Runs /\ run[i].pre \in Evidence
           /\ last = <<i, boot>> /\ stage[i] = "OWNER" /\ i \in DOMAIN journal
           /\ journal[i] # "FAILED_INSTALL_RETAINED"
           /\ run[i].pc \notin Containing => journal[i] # "COMPLETE"
           /\ image \in [1..Rows -> Generations] /\ current \in Generations
           /\ running \in [Units -> Generations \cup {Stopped}]
<1>1. run[i].pc \notin {"NONE", "EVIDENCE", "RECEIPT", "END"}
    BY DEF Working, Promoting, Containing
<1>2. Body(i) /\ HostTypeOK /\ run \in [Installers -> Runs]
    BY DEF HostInv
<1>3. Staged(i)
    BY <1>2 DEF Body
<1> QED
    BY <1>1, <1>2, <1>3 DEF Staged, HostTypeOK, Idling

\* A body in its promotion has not closed its journal.
LEMMA PromotingKnown ==
    ASSUME HostInv, NEW i \in Installers, run[i].pc \in {"AWAIT"} \cup Promoting
    PROVE  journal[i] \notin {"COMPLETE", "FAILED_INSTALL_RETAINED"}
<1>1. run[i].pc \in Working /\ run[i].pc \notin Containing
    BY DEF Working, Promoting, Containing
<1> QED
    BY <1>1, WorkingKnown

\* The body goes on: it keeps its place in the lock and claims nothing yet.
LEMMA WorkGoesOn ==
    ASSUME HostInv, NEW i \in Installers, run[i].pc \in Working, run'[i].pc \in Working,
           UNCHANGED <<boot, stage, last>>, run'[i].pre = run[i].pre,
           journal'[i] \notin {"COMPLETE", "FAILED_INSTALL_RETAINED"},
           \/ run'[i].index = 1
           \/ run'[i].pc \in {"STOP", "STOPALL"} /\ run'[i].index \in 1..Len(StopOrder)
           \/ run'[i].pc = "IMAGE" /\ run'[i].index \in 1..Rows
           \/ run'[i].pc \in {"CUTOVER", "RECUT", "OBSERVE"} /\ run'[i].index \in {1, 2}
    PROVE  Staged(i)' /\ Claimed(i)'
<1>1. run'[i].pc \notin {"NONE", "EVIDENCE", "RECEIPT", "END"}
    BY DEF Working, Promoting, Containing
<1>2. /\ run[i].pre \in Evidence /\ last = <<i, boot>> /\ stage[i] = "OWNER"
    BY WorkingKnown
<1>3. 1 \in 1..Len(StopOrder) /\ 1 \in 1..Rows
    BY UnitNames, GenerationAssumption
<1>4. /\ run'[i].pc = "AWAIT" => run'[i].index = 1
      /\ run'[i].pc \in {"STOP", "STOPALL"} => run'[i].index \in 1..Len(StopOrder)
      /\ run'[i].pc = "IMAGE" => run'[i].index \in 1..Rows
      /\ run'[i].pc \in {"CUTOVER", "RECUT", "OBSERVE"} => run'[i].index \in {1, 2}
    BY <1>3
<1>5. Staged(i)'
    BY <1>1, <1>2, <1>4 DEF Staged, Idling
<1> QED
    BY <1>5 DEF Claimed

\* A promotion claims nothing of a containment.
LEMMA NotContaining ==
    ASSUME NEW i \in Installers, run'[i].pc \notin Containing
    PROVE  Observing(i)'
BY DEF Observing, Containing

LEMMA AwaitKeeps ==
    ASSUME HostInv, NEW i \in Installers, Await(i)
    PROVE  OwnKept(i)
<1>1. /\ run[i].pc = "AWAIT" /\ Active = run[i].pre.active
      /\ image = run[i].pre.image
      /\ UNCHANGED <<boot, stage, image, current, running, journal, tree, last>>
    BY DEF Await, At, UnitsAwaited, FilesUnchanged, lockvars, hostvars, filevars
<1>2. run[i].pc \in Working /\ "STOP" \in Working /\ "STOP" \in Pcs /\ "STOP" \notin Containing
    BY <1>1 DEF Working, Promoting, Pcs, Containing
<1>3. /\ Body(i) /\ run \in [Installers -> Runs] /\ run[i] \in Runs
      /\ journal[i] \notin {"COMPLETE", "FAILED_INSTALL_RETAINED"}
    BY <1>1, <1>2, WorkingKnown, PromotingKnown DEF Promoting, Running
<1> PICK c \in BOOLEAN : c = ~StartupUnchanged(i)
    OBVIOUS
<1>4. run' = [run EXCEPT ![i].pc = "STOP", ![i].cutover = c]
    BY DEF Await
<1>5. run'[i] = [run[i] EXCEPT !.pc = "STOP", !.cutover = c]
    BY <1>3, <1>4
<1>6. /\ run'[i] \in Runs /\ run'[i].pc = "STOP" /\ run'[i].index = run[i].index
      /\ run'[i].pre = run[i].pre /\ run'[i].cutover = c
    BY <1>2, <1>3, <1>5 DEF Runs, Pcs
<1>7. run' \in [Installers -> Runs] /\ \A j \in Installers \ {i} : run'[j] = run[j]
    BY <1>3, <1>4, <1>6
<1>8. run'[i].index = 1
    BY <1>1, <1>3, <1>6 DEF Body, Staged
<1>9. Staged(i)' /\ Claimed(i)' /\ Observing(i)'
    BY <1>1, <1>2, <1>3, <1>6, <1>8, WorkGoesOn, NotContaining
<1>10. Placing(i)'
  <2>1. StartupUnchanged(i)' <=> StartupUnchanged(i)
      BY <1>6 DEF StartupUnchanged
  <2>2. Candidate[i] = i => tree'[i] = "PLACED"
      BY <1>1, <1>3 DEF Body, Placing
  <2> QED
      BY <1>1, <1>6, <2>1, <2>2 DEF Placing, Selected, Running
<1>11. Halting(i)'
  <2>1. \A u \in Daemons : running'[u] # Stopped => u \in run'[i].pre.active
      BY <1>1, <1>6, UnitNames DEF Active
  <2>2. 1..run'[i].index - 1 = {}
      BY <1>8
  <2> QED
      BY <1>6, <2>1, <2>2 DEF Halting, Running
<1> QED
    BY <1>7, <1>9, <1>10, <1>11 DEF OwnKept, Body

\* After a unit's turn it has stopped, unless it is an observer that is kept.
LEMMA StopUnitKeeps ==
    ASSUME HostInv, NEW i \in Installers, StopUnit(i)
    PROVE  OwnKept(i)
<1> DEFINE n == run[i].index
           u == StopOrder[n]
<1>1. /\ run[i].pc = "STOP"
      /\ running' = IF u \in run[i].pre.active /\ ~(StartupUnchanged(i) /\ u \in Vitals)
                    THEN Stop(u) ELSE running
      /\ IF n < Len(StopOrder) THEN Again(i) ELSE Goto(i, "IMAGE")
      /\ UNCHANGED <<boot, stage, image, current, journal, tree, last>>
    BY DEF StopUnit, At, lockvars, filevars
<1>2. /\ run[i].pc \in Working /\ "IMAGE" \in Working /\ "IMAGE" \in Pcs
      /\ "IMAGE" \notin Containing /\ "STOP" \notin Containing
    BY <1>1 DEF Working, Promoting, Pcs, Containing
<1>3. /\ Body(i) /\ run \in [Installers -> Runs] /\ run[i] \in Runs
      /\ running \in [Units -> Generations \cup {Stopped}]
      /\ journal[i] \notin {"COMPLETE", "FAILED_INSTALL_RETAINED"}
    BY <1>1, <1>2, WorkingKnown, PromotingKnown DEF Promoting, Running
<1>4. n \in 1..6 /\ Len(StopOrder) = 6 /\ u \in Units
  <2>1. n \in 1..Len(StopOrder) /\ Len(StopOrder) = 6
      BY <1>1, <1>3, UnitNames DEF Body, Staged
  <2> QED
      BY <2>1 DEF Units
<1>5. /\ run' \in [Installers -> Runs] /\ \A j \in Installers \ {i} : run'[j] = run[j]
      /\ run'[i].pre = run[i].pre /\ run'[i].cutover = run[i].cutover
      /\ \/ n < 6 /\ run'[i].pc = "STOP" /\ run'[i].index = n + 1
         \/ n = 6 /\ run'[i].pc = "IMAGE" /\ run'[i].index = 1
  <2>1. CASE n < 6
    <3>1. n + 1 \in 1..Len(StopOrder) \cup 1..Rows
        BY <1>4, <2>1
    <3> QED
        BY <1>1, <1>3, <1>4, <2>1, <3>1, RunRepeats
  <2>2. CASE n = 6
    <3>1. Goto(i, "IMAGE")
        BY <1>1, <1>4, <2>2
    <3> QED
        BY <1>2, <1>3, <2>2, <3>1, RunMoves
  <2> QED
      BY <1>4, <2>1, <2>2
<1>6. /\ run[i].cutover <=> ~StartupUnchanged(i)
      /\ image = run[i].pre.image
      /\ Candidate[i] = i => tree[i] = "PLACED"
      /\ \A v \in Daemons : running[v] # Stopped =>
            /\ v \in run[i].pre.active
            /\ \A m \in 1..n - 1 : StopOrder[m] = v => StartupUnchanged(i) /\ v \in Vitals
    BY <1>1, <1>3 DEF Body, Placing, Halting
<1>7. StartupUnchanged(i)' <=> StartupUnchanged(i)
    BY <1>5 DEF StartupUnchanged
<1>8. \A v \in Daemons : running'[v] # Stopped => running[v] # Stopped /\ (v = u => running' = running)
  <2>1. Daemons \subseteq Units
      BY UnitNames
  <2> HIDE DEF u
  <2>2. running' = Stop(u) \/ running' = running
      BY <1>1
  <2> QED
      BY <1>3, <1>4, <2>1, <2>2, StopStops
<1>9. ASSUME NEW v \in Daemons, running'[v] # Stopped, NEW m \in 1..n, StopOrder[m] = v
      PROVE  StartupUnchanged(i) /\ v \in Vitals
  <2>1. CASE m \in 1..n - 1
      BY <1>6, <1>8, <1>9, <2>1
  <2>2. CASE m = n
    <3>1. v = u /\ running[v] # Stopped /\ running' = running
        BY <1>8, <1>9, <2>2
    <3>2. u \in run[i].pre.active
        BY <1>6, <3>1
    <3>3. CASE running' = Stop(u)
      <4>1. running'[u] = Stopped
          BY <1>3, <1>4, <3>3, StopStops
      <4> QED
          BY <1>9, <3>1, <4>1
    <3>4. CASE running' # Stop(u)
        BY <1>1, <3>1, <3>2, <3>4
    <3> QED
        BY <3>3, <3>4
  <2>3. m \in 1..n - 1 \/ m = n
      BY <1>4
  <2> QED
      BY <2>1, <2>2, <2>3
<1>10. Staged(i)' /\ Claimed(i)' /\ Observing(i)'
  <2>1. run'[i].pc \in Working /\ run'[i].pc \notin Containing
      BY <1>1, <1>2, <1>5
  <2>2. run'[i].index = 1 \/ (run'[i].pc = "STOP" /\ run'[i].index \in 1..Len(StopOrder))
      BY <1>4, <1>5
  <2> QED
      BY <1>1, <1>2, <1>3, <1>5, <2>1, <2>2, WorkGoesOn, NotContaining
<1>11. Placing(i)'
  <2>1. run'[i].pc = "IMAGE" => \A r \in 1..Rows : ~(r < run'[i].index)
      BY <1>5
  <2> QED
      BY <1>1, <1>5, <1>6, <1>7, <2>1 DEF Placing, Selected, Running
<1>12. Halting(i)'
  <2>1. CASE n < 6
    <3>1. 1..run'[i].index - 1 = 1..n
        BY <1>4, <1>5, <2>1
    <3> QED
        BY <1>4, <1>5, <1>6, <1>7, <1>8, <1>9, <2>1, <3>1 DEF Halting, Running
  <2>2. CASE n = 6
    <3>1. \A v \in Daemons : \E m \in 1..n : StopOrder[m] = v
      <4>1. 1 \in 1..6 /\ 2 \in 1..6 /\ 3 \in 1..6 /\ 4 \in 1..6 /\ 5 \in 1..6
          OBVIOUS
      <4> QED
          BY <2>2, <4>1, UnitNames
    <3>2. \A v \in Daemons : running'[v] # Stopped => StartupUnchanged(i) /\ v \in Vitals
        BY <1>9, <3>1
    <3> QED
        BY <1>4, <1>5, <1>6, <2>2, <3>2 DEF Halting, Running
  <2> QED
      BY <1>4, <2>1, <2>2
<1> QED
    BY <1>5, <1>10, <1>11, <1>12 DEF OwnKept, Body

LEMMA PlaceImageKeeps ==
    ASSUME HostInv, NEW i \in Installers, PlaceImage(i)
    PROVE  OwnKept(i)
<1> DEFINE r == run[i].index
           target == Material(Candidate[i])
<1>1. /\ run[i].pc = "IMAGE" /\ image' = [image EXCEPT ![r] = target[r]]
      /\ journal' = [journal EXCEPT ![i] = "IMAGE"]
      /\ IF r < Rows THEN Again(i) ELSE Goto(i, "RELOAD")
      /\ UNCHANGED <<boot, stage, current, running, tree, last>>
    BY DEF PlaceImage, Replace, At, lockvars
<1>2. /\ run[i].pc \in Working /\ "RELOAD" \in Working /\ "RELOAD" \in Pcs
      /\ "IMAGE" \notin Containing /\ "RELOAD" \notin Containing
    BY <1>1 DEF Working, Promoting, Pcs, Containing
<1>3. /\ Body(i) /\ run \in [Installers -> Runs] /\ run[i] \in Runs /\ i \in DOMAIN journal
      /\ image \in [1..Rows -> Generations]
    BY <1>2, WorkingKnown
<1>4. r \in 1..Rows /\ Rows \in Nat /\ target \in [1..Rows -> Generations]
    BY <1>1, <1>3, GenerationAssumption, MaterialTyped DEF Body, Staged
<1>5. /\ run' \in [Installers -> Runs] /\ \A j \in Installers \ {i} : run'[j] = run[j]
      /\ run'[i].pre = run[i].pre /\ run'[i].cutover = run[i].cutover
      /\ \/ r < Rows /\ run'[i].pc = "IMAGE" /\ run'[i].index = r + 1
         \/ r = Rows /\ run'[i].pc = "RELOAD" /\ run'[i].index = 1
  <2>1. CASE r < Rows
    <3>1. r + 1 \in 1..Len(StopOrder) \cup 1..Rows
        BY <1>4, <2>1
    <3> QED
        BY <1>1, <1>3, <2>1, <3>1, RunRepeats
  <2>2. CASE r = Rows
    <3>1. Goto(i, "RELOAD")
        BY <1>1, <1>4, <2>2
    <3> QED
        BY <1>2, <1>3, <2>2, <3>1, RunMoves
  <2> QED
      BY <1>4, <2>1, <2>2
<1>6. /\ run[i].cutover <=> ~StartupUnchanged(i)
      /\ \A q \in 1..Rows : image[q] = IF q < r THEN target[q] ELSE run[i].pre.image[q]
      /\ Candidate[i] = i => tree[i] = "PLACED"
      /\ \A u \in Daemons : running[u] # Stopped => ~run[i].cutover /\ u \in Vitals
    BY <1>1, <1>3 DEF Body, Placing, Halting
<1>7. StartupUnchanged(i)' <=> StartupUnchanged(i)
    BY <1>5 DEF StartupUnchanged
<1> HIDE DEF target
<1>8. \A q \in 1..Rows : image'[q] = IF q < r + 1 THEN target[q] ELSE run[i].pre.image[q]
    BY <1>1, <1>3, <1>4, <1>6
<1>9. r = Rows => image' = target
  <2>1. image' \in [1..Rows -> Generations]
      BY <1>1, <1>3, <1>4
  <2>2. r = Rows => \A q \in 1..Rows : image'[q] = target[q]
      BY <1>4, <1>8
  <2> QED
      BY <1>4, <2>1, <2>2
<1>10. Staged(i)' /\ Claimed(i)' /\ Observing(i)'
  <2>1. run'[i].pc \in Working /\ run'[i].pc \notin Containing
      BY <1>1, <1>2, <1>5
  <2>2. run'[i].index = 1 \/ (run'[i].pc = "IMAGE" /\ run'[i].index \in 1..Rows)
      BY <1>4, <1>5
  <2>3. journal'[i] \notin {"COMPLETE", "FAILED_INSTALL_RETAINED"}
      BY <1>1, <1>3
  <2> QED
      BY <1>1, <1>2, <1>5, <2>1, <2>2, <2>3, WorkGoesOn, NotContaining
<1>11. Placing(i)'
    BY <1>1, <1>5, <1>6, <1>7, <1>8, <1>9 DEF Placing, Selected, Running, target
<1>12. Halting(i)'
    BY <1>1, <1>5, <1>6 DEF Halting, Running
<1> QED
    BY <1>5, <1>10, <1>11, <1>12 DEF OwnKept, Body

\* systemd loads what is placed; nothing on the host moves.
LEMMA ReloadKeeps ==
    ASSUME HostInv, NEW i \in Installers, Reload(i)
    PROVE  OwnKept(i)
<1>1. /\ run[i].pc = "RELOAD" /\ Goto(i, "SELECT")
      /\ journal' = [journal EXCEPT ![i] = "DAEMON_RELOAD"]
      /\ UNCHANGED <<boot, stage, image, current, running, tree, last>>
    BY DEF Reload, At, lockvars
<1>2. /\ run[i].pc \in Working /\ "SELECT" \in Working /\ "SELECT" \in Pcs /\ "SELECT" \notin Containing
    BY <1>1 DEF Working, Promoting, Pcs, Containing
<1>3. Body(i) /\ run \in [Installers -> Runs] /\ i \in DOMAIN journal
    BY <1>2, WorkingKnown
<1>4. /\ run' \in [Installers -> Runs] /\ \A j \in Installers \ {i} : run'[j] = run[j]
      /\ run'[i].pre = run[i].pre /\ run'[i].cutover = run[i].cutover /\ run'[i].index = 1
      /\ run'[i].pc = "SELECT"
    BY <1>1, <1>2, <1>3, RunMoves
<1>5. /\ image = Material(Candidate[i]) /\ (run[i].cutover <=> ~StartupUnchanged(i))
      /\ Candidate[i] = i => tree[i] = "PLACED"
      /\ \A u \in Daemons : running[u] # Stopped => ~run[i].cutover /\ u \in Vitals
    BY <1>1, <1>3 DEF Body, Placing, Halting
<1>6. Staged(i)' /\ Claimed(i)' /\ Observing(i)'
  <2>1. journal'[i] \notin {"COMPLETE", "FAILED_INSTALL_RETAINED"}
      BY <1>1, <1>3
  <2> QED
      BY <1>1, <1>2, <1>4, <2>1, WorkGoesOn, NotContaining
<1>7. Placing(i)'
  <2>1. StartupUnchanged(i)' <=> StartupUnchanged(i)
      BY <1>4 DEF StartupUnchanged
  <2> QED
      BY <1>1, <1>4, <1>5, <2>1 DEF Placing, Selected, Running
<1>8. Halting(i)'
    BY <1>1, <1>4, <1>5 DEF Halting, Running
<1> QED
    BY <1>4, <1>6, <1>7, <1>8 DEF OwnKept, Body

\* The selector moves behind the whole image.
LEMMA SelectKeeps ==
    ASSUME HostInv, NEW i \in Installers, Select(i)
    PROVE  OwnKept(i)
<1>1. /\ run[i].pc = "SELECT" /\ current' = Candidate[i]
      /\ journal' = [journal EXCEPT ![i] = "SELECTORS"]
      /\ Goto(i, IF run[i].cutover THEN "START" ELSE "CUTOVER")
      /\ UNCHANGED <<boot, stage, image, running, tree, last>>
    BY DEF Select, At, lockvars
<1>2. /\ run[i].pc \in Working /\ {"START", "CUTOVER"} \subseteq Working
      /\ {"START", "CUTOVER"} \subseteq Pcs /\ "START" \notin Containing /\ "CUTOVER" \notin Containing
    BY <1>1 DEF Working, Promoting, Pcs, Containing
<1>3. Body(i) /\ run \in [Installers -> Runs] /\ i \in DOMAIN journal
    BY <1>2, WorkingKnown
<1>4. /\ run' \in [Installers -> Runs] /\ \A j \in Installers \ {i} : run'[j] = run[j]
      /\ run'[i].pre = run[i].pre /\ run'[i].cutover = run[i].cutover /\ run'[i].index = 1
      /\ \/ run[i].cutover /\ run'[i].pc = "START"
         \/ ~run[i].cutover /\ run'[i].pc = "CUTOVER"
  <2>1. CASE run[i].cutover
    <3>1. Goto(i, "START")
        BY <1>1, <2>1
    <3> QED
        BY <1>2, <1>3, <2>1, <3>1, RunMoves
  <2>2. CASE ~run[i].cutover
    <3>1. Goto(i, "CUTOVER")
        BY <1>1, <2>2
    <3> QED
        BY <1>2, <1>3, <2>2, <3>1, RunMoves
  <2> QED
      BY <2>1, <2>2
<1>5. /\ image = Material(Candidate[i])
      /\ \A u \in Daemons : running[u] # Stopped => ~run[i].cutover /\ u \in Vitals
    BY <1>1, <1>3 DEF Body, Placing, Halting
<1>6. Staged(i)' /\ Claimed(i)' /\ Observing(i)'
  <2>1. run'[i].pc \in Working /\ run'[i].pc \notin Containing
      BY <1>2, <1>4
  <2>2. journal'[i] \notin {"COMPLETE", "FAILED_INSTALL_RETAINED"}
      BY <1>1, <1>3
  <2> QED
      BY <1>1, <1>2, <1>4, <2>1, <2>2, WorkGoesOn, NotContaining
<1>7. Placing(i)'
    BY <1>1, <1>4, <1>5 DEF Placing, Selected, Running
<1>8. Halting(i)'
    BY <1>1, <1>4, <1>5 DEF Halting, Running
<1> QED
    BY <1>4, <1>6, <1>7, <1>8 DEF OwnKept, Body

\* Both kept observers have stopped before the candidate starts.
LEMMA CutoverKeeps ==
    ASSUME HostInv, NEW i \in Installers, Cutover(i)
    PROVE  OwnKept(i)
<1>1. /\ run[i].pc = "CUTOVER"
      /\ \/ run[i].index = 1 /\ running' = Stop("edge") /\ Again(i)
         \/ /\ run[i].index # 1 /\ running' = Stop("presentation")
            /\ run' = [run EXCEPT ![i].pc = "START", ![i].index = 1, ![i].cutover = TRUE]
      /\ UNCHANGED <<boot, stage, image, current, journal, tree, last>>
    BY DEF Cutover, At, lockvars, filevars
<1>2. /\ run[i].pc \in Working /\ "START" \in Working /\ "START" \in Pcs
      /\ "START" \notin Containing /\ "CUTOVER" \notin Containing
    BY <1>1 DEF Working, Promoting, Pcs, Containing
<1>3. /\ Body(i) /\ run \in [Installers -> Runs] /\ run[i] \in Runs
      /\ running \in [Units -> Generations \cup {Stopped}]
      /\ journal[i] \notin {"COMPLETE", "FAILED_INSTALL_RETAINED"}
    BY <1>1, <1>2, WorkingKnown, PromotingKnown DEF Promoting, Running
<1>4. run[i].index \in {1, 2}
    BY <1>1, <1>3 DEF Body, Staged
<1>5. /\ image = Material(Candidate[i]) /\ current = Candidate[i] /\ ~run[i].cutover
      /\ \A u \in Daemons : running[u] # Stopped => u \in Vitals /\ (run[i].index = 2 => u = "presentation")
    BY <1>1, <1>3 DEF Body, Placing, Halting, Selected
<1>6. Daemons \subseteq Units /\ "edge" \in Units /\ "presentation" \in Units
    BY UnitNames
<1>7. CASE run[i].index = 1
  <2>1. /\ run' \in [Installers -> Runs] /\ \A j \in Installers \ {i} : run'[j] = run[j]
        /\ run'[i].pre = run[i].pre /\ run'[i].cutover = run[i].cutover /\ run'[i].index = 2
        /\ run'[i].pc = "CUTOVER"
    <3>1. run[i].index + 1 \in 1..Len(StopOrder) \cup 1..Rows /\ run[i].index + 1 = 2
        BY <1>7, UnitNames
    <3> QED
        BY <1>1, <1>3, <1>7, <3>1, RunRepeats
  <2>2. running'["edge"] = Stopped /\ \A v \in Units : running'[v] \in {Stopped, running[v]}
      BY <1>1, <1>3, <1>6, <1>7, StopStops
  <2>3. Staged(i)' /\ Claimed(i)' /\ Observing(i)'
      BY <1>1, <1>2, <1>3, <2>1, WorkGoesOn, NotContaining
  <2>4. Placing(i)'
      BY <1>1, <1>5, <2>1 DEF Placing, Selected, Running
  <2>5. Halting(i)'
      BY <1>5, <1>6, <2>1, <2>2 DEF Halting, Running, Vitals
  <2> QED
      BY <2>1, <2>3, <2>4, <2>5 DEF OwnKept, Body
<1>8. CASE run[i].index = 2
  <2>a. /\ run' = [run EXCEPT ![i].pc = "START", ![i].index = 1, ![i].cutover = TRUE]
        /\ running' = Stop("presentation")
      BY <1>1, <1>8
  <2>1. run'[i] = [run[i] EXCEPT !.pc = "START", !.index = 1, !.cutover = TRUE]
      BY <1>3, <2>a
  <2>2. /\ run'[i] \in Runs /\ run'[i].pc = "START" /\ run'[i].index = 1
        /\ run'[i].pre = run[i].pre
    <3>1. 1 \in 1..Len(StopOrder)
        BY UnitNames
    <3> QED
        BY <1>2, <1>3, <2>1, <3>1 DEF Runs, Pcs
  <2>3. run'[i].cutover
      BY <1>3, <2>1 DEF Runs
  <2>4. run' \in [Installers -> Runs] /\ \A j \in Installers \ {i} : run'[j] = run[j]
    <3>1. run' = [run EXCEPT ![i] = run'[i]]
        BY <1>3, <2>a
    <3> QED
        BY <1>3, <2>2, <3>1
  <2>5. running'["presentation"] = Stopped /\ \A v \in Units : running'[v] \in {Stopped, running[v]}
      BY <1>3, <1>6, <2>a, StopStops
  <2>6. Staged(i)' /\ Claimed(i)' /\ Observing(i)'
      BY <1>1, <1>2, <1>3, <2>2, WorkGoesOn, NotContaining
  <2>7. Placing(i)'
      BY <1>1, <1>5, <2>2, <2>3 DEF Placing, Selected, Running
  <2>8. Halting(i)'
      BY <1>5, <1>6, <1>8, <2>2, <2>5 DEF Halting, Running
  <2> QED
      BY <2>4, <2>6, <2>7, <2>8 DEF OwnKept, Body
<1> QED
    BY <1>4, <1>7, <1>8

\* What starts starts from the selector, and the checks change nothing.
LEMMA RunningKeeps ==
    ASSUME HostInv, NEW i \in Installers,
           StartTarget(i) \/ CheckActive(i) \/ Accept(i) \/ Terminal(i)
    PROVE  OwnKept(i)
<1>1. PICK pc \in Running :
        /\ Goto(i, pc) /\ run[i].pc \in {"START"} \cup Running
        /\ \/ run[i].pc = "START" /\ running' = Started(Units \ {"witness"})
           \/ run[i].pc \in Running /\ running' = running
        /\ UNCHANGED <<boot, stage, image, current, tree, last>>
        /\ \/ journal' = journal
           \/ \E phase \in {"TARGET_STARTED", "TERMINAL_ACCEPTED"} :
                  journal' = [journal EXCEPT ![i] = phase]
  <2>1. {"CHECK", "ACCEPT", "TERMINAL", "COMMIT"} = Running
      BY DEF Running
  <2>2. CASE StartTarget(i)
      BY <2>1, <2>2 DEF StartTarget, At, lockvars
  <2>3. CASE CheckActive(i)
      BY <2>1, <2>3 DEF CheckActive, At, lockvars, hostvars, filevars
  <2>4. CASE Accept(i)
      BY <2>1, <2>4 DEF Accept, At, lockvars, hostvars, filevars
  <2>5. CASE Terminal(i)
      BY <2>1, <2>5 DEF Terminal, At, lockvars, hostvars
  <2> QED
      BY <2>2, <2>3, <2>4, <2>5
<1>2. /\ run[i].pc \in Working /\ pc \in Working /\ pc \in Pcs /\ pc \notin Containing
    BY <1>1 DEF Running, Working, Promoting, Pcs, Containing
<1>3. /\ Body(i) /\ run \in [Installers -> Runs] /\ i \in DOMAIN journal /\ current \in Generations
      /\ running \in [Units -> Generations \cup {Stopped}]
      /\ journal[i] \notin {"COMPLETE", "FAILED_INSTALL_RETAINED"}
    BY <1>1, <1>2, WorkingKnown, PromotingKnown DEF Promoting, Running
<1>4. /\ run' \in [Installers -> Runs] /\ \A j \in Installers \ {i} : run'[j] = run[j]
      /\ run'[i].pre = run[i].pre /\ run'[i].cutover = run[i].cutover /\ run'[i].index = 1
      /\ run'[i].pc = pc
    BY <1>1, <1>2, <1>3, RunMoves
<1>5. /\ image = Material(Candidate[i]) /\ current = Candidate[i] /\ run[i].cutover
      /\ run[i].pc = "START" => \A u \in Daemons : running[u] = Stopped
      /\ run[i].pc \in Running => \A u \in Daemons : running[u] \in {Stopped, current}
    BY <1>1, <1>3 DEF Body, Placing, Halting, Selected, Running
<1>6. \A u \in Daemons : running'[u] \in {Stopped, current}
  <2>1. CASE running' = Started(Units \ {"witness"}) /\ run[i].pc = "START"
      BY <1>3, <1>5, <2>1, StartedTyped DEF Daemons
  <2>2. CASE running' = running /\ run[i].pc \in Running
      BY <1>5, <2>2
  <2> QED
      BY <1>1, <2>1, <2>2
<1>7. Staged(i)' /\ Claimed(i)' /\ Observing(i)'
  <2>1. journal'[i] \notin {"COMPLETE", "FAILED_INSTALL_RETAINED"}
      BY <1>1, <1>3
  <2> QED
      BY <1>1, <1>2, <1>4, <2>1, WorkGoesOn, NotContaining
<1>8. Placing(i)'
    BY <1>1, <1>4, <1>5 DEF Placing, Running
<1>9. Halting(i)'
    BY <1>1, <1>4, <1>6 DEF Halting, Running
<1> QED
    BY <1>4, <1>7, <1>8, <1>9 DEF OwnKept, Body

\* What ends a body without a claim: a refusal or unproven evidence.
LEMMA EndKeeps ==
    ASSUME HostInv, NEW i \in Installers, stage[i] = "OWNER",
           Ended(i) \/ run' = [run EXCEPT ![i] = [AfterBody(@) EXCEPT !.contained = FALSE]],
           UNCHANGED <<boot, stage>>, Claimed(i)'
    PROVE  OwnKept(i)
<1>1. run' \in [Installers -> Runs] /\ run'[i].pc = "END" /\ \A j \in Installers \ {i} : run'[j] = run[j]
    BY RunEnds, RunRaises DEF HostInv
<1>2. Placing(i)' /\ Halting(i)' /\ Observing(i)'
    BY <1>1 DEF Placing, Halting, Observing, Selected, Running, Containing
<1>3. Staged(i)'
    BY <1>1 DEF Staged, Idling
<1> QED
    BY <1>1, <1>2, <1>3 DEF OwnKept, Body

\* A closed journal is true when it is written, also when its write then raises.
LEMMA CommitKeeps ==
    ASSUME HostInv, NEW i \in Installers, Commit(i)
    PROVE  OwnKept(i)
<1>1. /\ run[i].pc = "COMMIT" /\ stage[i] = "OWNER" /\ (Ended(i) \/ Goto(i, "CONTAIN"))
      /\ journal' = [journal EXCEPT ![i] = "COMPLETE"]
      /\ UNCHANGED <<boot, stage, image, current, running, tree, last>>
    BY DEF Commit, At, lockvars, hostvars
<1>2. run[i].pc \in Working /\ "CONTAIN" \in Pcs /\ "CONTAIN" \in Containing
    BY <1>1 DEF Working, Promoting, Pcs, Containing
<1>3. Body(i) /\ i \in DOMAIN journal /\ run \in [Installers -> Runs] /\ run[i].pre \in Evidence
      /\ last = <<i, boot>>
    BY <1>2, WorkingKnown
<1>4. /\ image = Material(Candidate[i]) /\ current = Candidate[i]
      /\ \A u \in Daemons : running[u] \in {Stopped, current}
    BY <1>1, <1>3 DEF Body, Placing, Halting, Selected, Running
<1>5. Claimed(i)'
    BY <1>1, <1>3, <1>4 DEF Claimed
<1>6. CASE Ended(i)
    BY <1>1, <1>5, <1>6, EndKeeps
<1>7. CASE Goto(i, "CONTAIN")
  <2>1. /\ run' \in [Installers -> Runs] /\ \A j \in Installers \ {i} : run'[j] = run[j]
        /\ run'[i].pre = run[i].pre /\ run'[i].index = 1 /\ run'[i].pc = "CONTAIN"
      BY <1>2, <1>3, <1>7, RunMoves
  <2>2. Staged(i)'
      BY <1>1, <1>2, <1>3, <2>1 DEF Staged, Idling
  <2>3. Placing(i)' /\ Halting(i)'
      BY <2>1 DEF Placing, Halting, Selected, Running
  <2>4. VitalsSelected'
    <3>1. Vitals \subseteq Daemons
        BY UnitNames DEF Vitals
    <3> QED
        BY <1>1, <1>4, <3>1 DEF VitalsSelected
  <2>5. Observing(i)'
      BY <2>1, <2>4 DEF Observing
  <2> QED
      BY <1>5, <2>1, <2>2, <2>3, <2>5 DEF OwnKept, Body
<1> QED
    BY <1>1, <1>6, <1>7

-----------------------------------------------------------------------------
(***************************************************************************)
(* The containment of a failed promotion.                                   *)
(***************************************************************************)

\* Whatever fails, observers that run while the candidate is selected and its
\* image placed have been stopped since, or the cutover is still to come.
LEMMA FailKeeps ==
    ASSUME HostInv, NEW i \in Installers, Fail(i)
    PROVE  OwnKept(i)
<1>1. /\ run[i].pc \in Promoting /\ Goto(i, "CONTAIN")
      /\ UNCHANGED <<boot, stage, image, current, running, journal, tree, last>>
    BY DEF Fail, lockvars, hostvars, filevars
<1>2. run[i].pc \in Working /\ "CONTAIN" \in Working /\ "CONTAIN" \in Pcs
    BY <1>1 DEF Working, Containing, Pcs
<1>3. /\ Body(i) /\ run \in [Installers -> Runs]
      /\ journal[i] \notin {"COMPLETE", "FAILED_INSTALL_RETAINED"}
    BY <1>1, <1>2, WorkingKnown, PromotingKnown DEF Promoting, Running
<1>4. /\ run' \in [Installers -> Runs] /\ \A j \in Installers \ {i} : run'[j] = run[j]
      /\ run'[i].pre = run[i].pre /\ run'[i].cutover = run[i].cutover /\ run'[i].index = 1
      /\ run'[i].pc = "CONTAIN"
    BY <1>1, <1>2, <1>3, RunMoves
<1>5. Staged(i)' /\ Claimed(i)'
    BY <1>1, <1>2, <1>3, <1>4, WorkGoesOn
<1>6. Placing(i)' /\ Halting(i)'
    BY <1>4 DEF Placing, Halting, Selected, Running
<1>7. run[i].cutover /\ ObserverSafe(i) => VitalsSelected
  <2>1. Vitals \subseteq Daemons
      BY UnitNames DEF Vitals
  <2>2. CASE run[i].pc = "STOP"
    <3>1. image = run[i].pre.image /\ (run[i].cutover <=> ~StartupUnchanged(i))
        BY <1>3, <2>2 DEF Body, Placing
    <3> QED
        BY <3>1 DEF StartupUnchanged, ObserverSafe
  <2>3. CASE run[i].pc \in {"IMAGE", "RELOAD", "SELECT"}
      BY <1>3, <2>1, <2>3 DEF Body, Halting, VitalsSelected
  <2>4. CASE run[i].pc = "CUTOVER"
      BY <1>3, <2>4 DEF Body, Placing
  <2>5. CASE run[i].pc = "START"
      BY <1>3, <2>1, <2>5 DEF Body, Halting, VitalsSelected
  <2>6. CASE run[i].pc \in Running
      BY <1>3, <2>1, <2>6 DEF Body, Halting, VitalsSelected
  <2> QED
      BY <1>1, <2>2, <2>3, <2>4, <2>5, <2>6 DEF Promoting, Running
<1>8. Observing(i)'
  <2>1. (ObserverSafe(i)' <=> ObserverSafe(i)) /\ (VitalsSelected' <=> VitalsSelected)
      BY <1>1 DEF ObserverSafe, VitalsSelected
  <2> QED
      BY <1>4, <1>7, <2>1 DEF Observing
<1> QED
    BY <1>4, <1>5, <1>6, <1>8 DEF OwnKept, Body

\* What holds of a body in its containment, and how to keep it.
LEMMA ContainingKeeps ==
    ASSUME HostInv, NEW i \in Installers, run[i].pc \in Containing, run'[i].pc \in Containing,
           run' \in [Installers -> Runs], \A j \in Installers \ {i} : run'[j] = run[j],
           UNCHANGED <<boot, stage, image, current, journal, last>>, run'[i].pre = run[i].pre,
           \/ run'[i].index = 1
           \/ run'[i].pc = "STOPALL" /\ run'[i].index \in 1..Len(StopOrder)
           \/ run'[i].pc \in {"RECUT", "OBSERVE"} /\ run'[i].index \in {1, 2},
           \A v \in Daemons : running'[v] \in {Stopped, running[v], current},
           Observing(i)'
    PROVE  OwnKept(i)
<1>1. run[i].pc \in Working /\ run'[i].pc \notin {"NONE", "EVIDENCE", "RECEIPT", "END", "AWAIT", "STOP", "IMAGE"}
    BY DEF Working, Containing
<1>2. /\ journal[i] # "FAILED_INSTALL_RETAINED" /\ stage[i] = "OWNER" /\ last = <<i, boot>>
      /\ run[i].pre \in Evidence /\ Body(i)
    BY <1>1, WorkingKnown
<1>3. Staged(i)' /\ Claimed(i)'
  <2>1. 1 \in 1..Len(StopOrder)
      BY UnitNames
  <2>2. Staged(i)'
      BY <1>1, <1>2, <2>1 DEF Staged, Idling, Containing
  <2>3. Claimed(i)'
      BY <1>2 DEF Body, Claimed
  <2> QED
      BY <2>2, <2>3
<1>4. Placing(i)' /\ Halting(i)'
    BY DEF Placing, Halting, Selected, Running, Containing
<1> QED
    BY <1>3, <1>4 DEF OwnKept, Body

LEMMA ContainKeeps ==
    ASSUME HostInv, NEW i \in Installers, Contain(i)
    PROVE  OwnKept(i)
<1>1. PICK written \in BOOLEAN :
        /\ run[i].pc = "CONTAIN"
        /\ run' = [run EXCEPT ![i].pc = "STOPALL", ![i].index = 1,
                              ![i].safe = ObserverSafe(i) /\ written, ![i].keep = RetainedObserver(i)]
        /\ UNCHANGED <<boot, stage, image, current, running, journal, tree, last>>
    BY DEF Contain, At, lockvars, hostvars, filevars
<1>2. run[i].pc \in Containing /\ "STOPALL" \in Containing /\ run[i].pc \in Working /\ "STOPALL" \in Pcs
    BY <1>1 DEF Containing, Working, Pcs
<1>3. Body(i) /\ run \in [Installers -> Runs] /\ run[i] \in Runs
    BY <1>2, WorkingKnown
<1> PICK s \in BOOLEAN : s <=> ObserverSafe(i) /\ written
    OBVIOUS
<1> PICK k \in BOOLEAN : k <=> RetainedObserver(i)
    OBVIOUS
<1>4. run' = [run EXCEPT ![i].pc = "STOPALL", ![i].index = 1, ![i].safe = s, ![i].keep = k]
  <2>1. (ObserverSafe(i) /\ written) = s /\ RetainedObserver(i) = k
      BY DEF ObserverSafe, RetainedObserver, StartupUnchanged
  <2> QED
      BY <1>1, <2>1
<1>5. run'[i] = [run[i] EXCEPT !.pc = "STOPALL", !.index = 1, !.safe = s, !.keep = k]
    BY <1>3, <1>4
<1>6. /\ run'[i] \in Runs /\ run'[i].pc = "STOPALL" /\ run'[i].index = 1
      /\ run'[i].pre = run[i].pre /\ run'[i].cutover = run[i].cutover /\ run'[i].safe = s
  <2>1. 1 \in 1..Len(StopOrder)
      BY UnitNames
  <2> QED
      BY <1>2, <1>3, <1>5, <2>1 DEF Runs, Pcs
<1>7. run' \in [Installers -> Runs] /\ \A j \in Installers \ {i} : run'[j] = run[j]
    BY <1>3, <1>4, <1>6
<1>8. Observing(i)'
  <2>1. (ObserverSafe(i)' <=> ObserverSafe(i)) /\ (VitalsSelected' <=> VitalsSelected)
      BY <1>1 DEF ObserverSafe, VitalsSelected
  <2>2. run[i].cutover /\ ObserverSafe(i) => VitalsSelected
      BY <1>2, <1>3 DEF Body, Observing
  <2>3. run'[i].safe => ObserverSafe(i)
      BY <1>6
  <2> QED
      BY <1>6, <2>1, <2>2, <2>3 DEF Observing
<1> QED
    BY <1>1, <1>2, <1>6, <1>7, <1>8, ContainingKeeps

LEMMA StopAllKeeps ==
    ASSUME HostInv, NEW i \in Installers, StopAll(i)
    PROVE  OwnKept(i)
<1> DEFINE n == run[i].index
           u == StopOrder[n]
           next == IF n < Len(StopOrder) THEN "STOPALL" ELSE "READBACK"
           then == IF n < Len(StopOrder) THEN n + 1 ELSE 1
<1>1. /\ run[i].pc = "STOPALL"
      /\ running' = Stop(u) \/ running' = running
      /\ UNCHANGED <<boot, stage, image, current, journal, tree, last>>
    BY DEF StopAll, At, lockvars, filevars
<1>2. run[i].pc \in Containing /\ run[i].pc \in Working
    BY <1>1 DEF Containing, Working
<1>3. /\ Body(i) /\ run \in [Installers -> Runs] /\ run[i] \in Runs
      /\ running \in [Units -> Generations \cup {Stopped}]
    BY <1>2, WorkingKnown
<1>4. n \in 1..6 /\ Len(StopOrder) = 6 /\ u \in Units /\ then \in 1..6
  <2>1. n \in 1..Len(StopOrder) /\ Len(StopOrder) = 6
      BY <1>1, <1>3, UnitNames DEF Body, Staged
  <2> QED
      BY <2>1 DEF Units
<1>5. PICK c \in BOOLEAN : run' = [run EXCEPT ![i].pc = next, ![i].index = then, ![i].contained = c]
  <2>1. CASE run' = [run EXCEPT ![i].pc = next, ![i].index = then]
    <3>1. run[i].contained \in BOOLEAN
        BY <1>3 DEF Runs
    <3>2. run' = [run EXCEPT ![i] = [run[i] EXCEPT !.pc = next, !.index = then]]
        BY <1>3, <2>1
    <3>3. [run[i] EXCEPT !.pc = next, !.index = then] =
              [run[i] EXCEPT !.pc = next, !.index = then, !.contained = run[i].contained]
        BY <1>3 DEF Runs
    <3>4. run' = [run EXCEPT ![i].pc = next, ![i].index = then, ![i].contained = run[i].contained]
        BY <1>3, <3>2, <3>3
    <3> QED
        BY <3>1, <3>4
  <2>2. ASSUME NEW returned \in BOOLEAN,
               run' = [run EXCEPT ![i].pc = next, ![i].index = then, ![i].contained = @ /\ returned]
        PROVE  \E c \in BOOLEAN :
                   run' = [run EXCEPT ![i].pc = next, ![i].index = then, ![i].contained = c]
    <3> PICK c \in BOOLEAN : c = (run[i].contained /\ returned)
        OBVIOUS
    <3>1. run' = [run EXCEPT ![i].pc = next, ![i].index = then, ![i].contained = c]
        BY <1>3, <2>2
    <3> QED
        BY <3>1
  <2> QED
      BY <2>1, <2>2 DEF StopAll
<1>6. next \in {"STOPALL", "READBACK"} /\ next \in Containing /\ next \in Pcs
      /\ (next = "READBACK" => then = 1)
    BY DEF Containing, Pcs
<1> HIDE DEF next, then, u
<1>7. run'[i] = [run[i] EXCEPT !.pc = next, !.index = then, !.contained = c]
    BY <1>3, <1>5
<1>8. /\ run'[i] \in Runs /\ run'[i].pc = next /\ run'[i].index = then
      /\ run'[i].pre = run[i].pre /\ run'[i].cutover = run[i].cutover /\ run'[i].safe = run[i].safe
    BY <1>3, <1>4, <1>6, <1>7 DEF Runs, Pcs
<1>9. run' \in [Installers -> Runs] /\ \A j \in Installers \ {i} : run'[j] = run[j]
    BY <1>3, <1>5, <1>8
<1>10. Observing(i)'
  <2>1. ObserverSafe(i)' <=> ObserverSafe(i)
      BY <1>1 DEF ObserverSafe
  <2>2. \A v \in Units : running'[v] \in {Stopped, running[v]}
      BY <1>1, <1>3, <1>4, StopStops
  <2>3. VitalsSelected => VitalsSelected'
    <3>1. Vitals \subseteq Units
        BY UnitNames DEF Vitals
    <3> QED
        BY <1>1, <2>2, <3>1 DEF VitalsSelected
  <2>4. /\ run[i].cutover /\ ObserverSafe(i) => VitalsSelected
        /\ run[i].safe => ObserverSafe(i)
      BY <1>1, <1>2, <1>3 DEF Body, Observing
  <2> QED
      BY <1>6, <1>8, <2>1, <2>3, <2>4 DEF Observing
<1>11. \A v \in Daemons : running'[v] \in {Stopped, running[v]}
    BY <1>1, <1>3, <1>4, StopStops, UnitNames
<1> QED
    BY <1>1, <1>2, <1>4, <1>6, <1>8, <1>9, <1>10, <1>11, ContainingKeeps

\* The states are read after all stops, so what is reported is what runs.
LEMMA ConfirmKeeps ==
    ASSUME HostInv, NEW i \in Installers, Confirm(i)
    PROVE  OwnKept(i)
<1> DEFINE next == IF ~run[i].safe THEN "RETAIN" ELSE IF run[i].cutover THEN "OBSERVE" ELSE "RECUT"
<1>1. /\ run[i].pc = "READBACK"
      /\ run' = [run EXCEPT ![i].contained = @ /\ ReadBack(i), ![i].index = 1, ![i].pc = next]
      /\ UNCHANGED <<boot, stage, image, current, running, journal, tree, last>>
    BY DEF Confirm, At, lockvars, hostvars, filevars
<1>2. run[i].pc \in Containing /\ run[i].pc \in Working
    BY <1>1 DEF Containing, Working
<1>3. Body(i) /\ run \in [Installers -> Runs] /\ run[i] \in Runs
    BY <1>2, WorkingKnown
<1> PICK c \in BOOLEAN : c = (run[i].contained /\ ReadBack(i))
    OBVIOUS
<1>4. next \in {"RETAIN", "OBSERVE", "RECUT"} /\ next \in Containing /\ next \in Pcs
      /\ (next = "OBSERVE" => run[i].safe /\ run[i].cutover)
    BY DEF Containing, Pcs
<1> HIDE DEF next
<1>5. run' = [run EXCEPT ![i].contained = c, ![i].index = 1, ![i].pc = next]
    BY <1>1, <1>3
<1>6. run'[i] = [run[i] EXCEPT !.contained = c, !.index = 1, !.pc = next]
    BY <1>3, <1>5
<1>7. /\ run'[i] \in Runs /\ run'[i].pc = next /\ run'[i].index = 1
      /\ run'[i].pre = run[i].pre /\ run'[i].cutover = run[i].cutover /\ run'[i].safe = run[i].safe
      /\ run'[i].contained = c
  <2>1. 1 \in 1..Len(StopOrder)
      BY UnitNames
  <2>2. run'[i] \in Runs
      BY <1>3, <1>4, <1>6, <2>1 DEF Runs, Pcs
  <2>3. /\ run'[i].pc = next /\ run'[i].index = 1 /\ run'[i].pre = run[i].pre
        /\ run'[i].cutover = run[i].cutover /\ run'[i].safe = run[i].safe
      BY <1>3, <1>6 DEF Runs
  <2>4. run'[i].contained = c
      BY <1>3, <1>6 DEF Runs
  <2> QED
      BY <2>2, <2>3, <2>4
<1>8. run' \in [Installers -> Runs] /\ \A j \in Installers \ {i} : run'[j] = run[j]
    BY <1>3, <1>5, <1>7
<1>9. Observing(i)'
  <2>1. /\ ObserverSafe(i)' <=> ObserverSafe(i)
        /\ VitalsSelected' <=> VitalsSelected
        /\ Active' = Active
      BY <1>1 DEF ObserverSafe, VitalsSelected, Active
  <2>2. /\ run[i].cutover /\ ObserverSafe(i) => VitalsSelected
        /\ run[i].safe => ObserverSafe(i)
      BY <1>1, <1>2, <1>3 DEF Body, Observing
  <2>3. c => Active \subseteq Vitals
      BY DEF ReadBack, Kept
  <2> QED
      BY <1>4, <1>7, <2>1, <2>2, <2>3 DEF Observing
<1> QED
    BY <1>1, <1>2, <1>4, <1>7, <1>8, <1>9, ContainingKeeps

\* Both old observers have stopped before one of the candidate starts.
LEMMA RecutKeeps ==
    ASSUME HostInv, NEW i \in Installers, Recut(i)
    PROVE  OwnKept(i)
<1>1. /\ run[i].pc = "RECUT"
      /\ running' = Stop(IF run[i].index = 1 THEN "edge" ELSE "presentation") \/ running' = running
      /\ \/ run[i].index = 1 /\ Again(i)
         \/ run[i].index # 1 /\ Goto(i, "RETAIN")
         \/ run[i].index # 1 /\ Goto(i, "OBSERVE") /\ \A v \in Vitals : running'[v] = Stopped
      /\ UNCHANGED <<boot, stage, image, current, journal, tree, last>>
  <2>1. /\ run[i].pc = "RECUT"
        /\ running' = Stop(IF run[i].index = 1 THEN "edge" ELSE "presentation") \/ running' = running
        /\ UNCHANGED <<boot, stage, image, current, journal, tree, last>>
      BY DEF Recut, At, lockvars, filevars
  <2>2. CASE run[i].index = 1
      BY <2>1, <2>2 DEF Recut
  <2>3. CASE run[i].index # 1
    <3>1. PICK raised \in BOOLEAN :
            Goto(i, IF raised \/ \E v \in Vitals : running'[v] # Stopped THEN "RETAIN" ELSE "OBSERVE")
        BY <2>3 DEF Recut
    <3>2. CASE raised \/ \E v \in Vitals : running'[v] # Stopped
        BY <2>1, <2>3, <3>1, <3>2
    <3>3. CASE ~(raised \/ \E v \in Vitals : running'[v] # Stopped)
        BY <2>1, <2>3, <3>1, <3>3
    <3> QED
        BY <3>2, <3>3
  <2> QED
      BY <2>2, <2>3
<1>2. run[i].pc \in Containing /\ run[i].pc \in Working /\ {"RETAIN", "OBSERVE", "RECUT"} \subseteq Containing
      /\ {"RETAIN", "OBSERVE"} \subseteq Pcs
    BY <1>1 DEF Containing, Working, Pcs
<1>3. /\ Body(i) /\ run \in [Installers -> Runs] /\ run[i] \in Runs
      /\ running \in [Units -> Generations \cup {Stopped}]
    BY <1>2, WorkingKnown
<1>4. run[i].index \in {1, 2}
    BY <1>1, <1>3 DEF Body, Staged
<1>5. /\ run' \in [Installers -> Runs] /\ \A j \in Installers \ {i} : run'[j] = run[j]
      /\ run'[i].pre = run[i].pre /\ run'[i].cutover = run[i].cutover /\ run'[i].safe = run[i].safe
      /\ run'[i].contained = run[i].contained
      /\ \/ run'[i].pc = "RECUT" /\ run'[i].index = 2
         \/ run'[i].pc = "RETAIN" /\ run'[i].index = 1
         \/ run'[i].pc = "OBSERVE" /\ run'[i].index = 1 /\ \A v \in Vitals : running'[v] = Stopped
  <2>1. CASE run[i].index = 1 /\ Again(i)
    <3>1. run[i].index + 1 \in 1..Len(StopOrder) \cup 1..Rows /\ run[i].index + 1 = 2
        BY <2>1, UnitNames
    <3> QED
        BY <1>1, <1>3, <2>1, <3>1, RunRepeats
  <2>2. CASE Goto(i, "RETAIN")
      BY <1>2, <1>3, <2>2, RunMoves
  <2>3. CASE Goto(i, "OBSERVE") /\ \A v \in Vitals : running'[v] = Stopped
      BY <1>2, <1>3, <2>3, RunMoves
  <2> QED
      BY <1>1, <2>1, <2>2, <2>3
<1>6. \A v \in Units : running'[v] \in {Stopped, running[v]}
  <2> PICK u \in Units : u = IF run[i].index = 1 THEN "edge" ELSE "presentation"
      BY UnitNames
  <2> QED
      BY <1>1, <1>3, StopStops
<1>7. Observing(i)'
  <2>1. ObserverSafe(i)' <=> ObserverSafe(i)
      BY <1>1 DEF ObserverSafe
  <2>2. Vitals \subseteq Units
      BY UnitNames DEF Vitals
  <2>3. VitalsSelected => VitalsSelected'
      BY <1>1, <1>6, <2>2 DEF VitalsSelected
  <2>4. Active \subseteq Vitals => Active' \subseteq Vitals
      BY <1>6 DEF Active
  <2>5. run'[i].pc = "OBSERVE" => VitalsSelected'
      BY <1>5 DEF VitalsSelected
  <2>6. /\ run[i].cutover /\ ObserverSafe(i) => VitalsSelected
        /\ run[i].safe => ObserverSafe(i)
        /\ run[i].contained => Active \subseteq Vitals
      BY <1>1, <1>2, <1>3 DEF Body, Observing
  <2> QED
      BY <1>2, <1>5, <2>1, <2>3, <2>4, <2>5, <2>6 DEF Observing
<1>8. run'[i].pc \in Containing
    BY <1>2, <1>5
<1>9. \A v \in Daemons : running'[v] \in {Stopped, running[v]}
    BY <1>6, UnitNames
<1> QED
    BY <1>1, <1>2, <1>5, <1>7, <1>8, <1>9, ContainingKeeps

LEMMA ObserveKeeps ==
    ASSUME HostInv, NEW i \in Installers, Observe(i)
    PROVE  OwnKept(i)
<1> DEFINE u == IF run[i].index = 1 THEN "presentation" ELSE "edge"
<1>1. /\ run[i].pc = "OBSERVE"
      /\ running' = Started({u}) \/ running' = running
      /\ (run[i].index = 1 /\ Again(i)) \/ Goto(i, "RETAIN")
      /\ UNCHANGED <<boot, stage, image, current, journal, tree, last>>
    BY DEF Observe, At, lockvars, filevars
<1>2. run[i].pc \in Containing /\ run[i].pc \in Working /\ "RETAIN" \in Containing /\ "RETAIN" \in Pcs
    BY <1>1 DEF Containing, Working, Pcs
<1>3. /\ Body(i) /\ run \in [Installers -> Runs] /\ run[i] \in Runs /\ current \in Generations
      /\ running \in [Units -> Generations \cup {Stopped}]
    BY <1>2, WorkingKnown
<1>4. /\ run' \in [Installers -> Runs] /\ \A j \in Installers \ {i} : run'[j] = run[j]
      /\ run'[i].pre = run[i].pre /\ run'[i].cutover = run[i].cutover /\ run'[i].safe = run[i].safe
      /\ run'[i].contained = run[i].contained
      /\ \/ run'[i].pc = "OBSERVE" /\ run'[i].index = 2
         \/ run'[i].pc = "RETAIN" /\ run'[i].index = 1
  <2>1. CASE run[i].index = 1 /\ Again(i)
    <3>1. run[i].index + 1 \in 1..Len(StopOrder) \cup 1..Rows /\ run[i].index + 1 = 2
        BY <2>1, UnitNames
    <3> QED
        BY <1>1, <1>3, <2>1, <3>1, RunRepeats
  <2>2. CASE Goto(i, "RETAIN")
      BY <1>2, <1>3, <2>2, RunMoves
  <2> QED
      BY <1>1, <2>1, <2>2
<1>5. u \in Vitals
    BY DEF Vitals
<1> HIDE DEF u
<1>6. \A v \in Units : running'[v] = running[v] \/ (v \in Vitals /\ running'[v] = current)
    BY <1>1, <1>3, <1>5, StartedTyped
<1>7. Observing(i)'
  <2>1. ObserverSafe(i)' <=> ObserverSafe(i)
      BY <1>1 DEF ObserverSafe
  <2>2. Vitals \subseteq Units
      BY UnitNames DEF Vitals
  <2>3. VitalsSelected => VitalsSelected'
      BY <1>1, <1>6, <2>2 DEF VitalsSelected
  <2>4. Active \subseteq Vitals => Active' \subseteq Vitals
      BY <1>6 DEF Active
  <2>5. /\ VitalsSelected
        /\ run[i].safe => ObserverSafe(i)
        /\ run[i].contained => Active \subseteq Vitals
      BY <1>1, <1>2, <1>3 DEF Body, Observing
  <2> QED
      BY <1>2, <1>4, <2>1, <2>3, <2>4, <2>5 DEF Observing
<1>8. run'[i].pc \in Containing
    BY <1>1, <1>2, <1>4
<1>9. \A v \in Daemons : running'[v] \in {Stopped, running[v], current}
    BY <1>6, UnitNames
<1> QED
    BY <1>1, <1>2, <1>4, <1>7, <1>8, <1>9, ContainingKeeps

LEMMA RetainKeeps ==
    ASSUME HostInv, NEW i \in Installers, Retain(i)
    PROVE  OwnKept(i)
<1>1. /\ run[i].pc = "RETAIN" /\ stage[i] = "OWNER" /\ Ended(i)
      /\ journal' = [journal EXCEPT ![i] = IF run[i].contained THEN "FAILED_INSTALL_RETAINED"
                                           ELSE "FAILED_INSTALL_CONTAINMENT_UNPROVEN"]
      /\ UNCHANGED <<boot, stage, image, current, running, tree, last>>
    BY DEF Retain, At, lockvars, hostvars
<1>2. run[i].pc \in Working
    BY <1>1 DEF Working, Containing
<1>3. Body(i) /\ i \in DOMAIN journal
    BY <1>2, WorkingKnown
<1>4. run[i].contained => Active' \subseteq Vitals
    BY <1>1, <1>3 DEF Body, Observing, Active
<1>5. Claimed(i)'
    BY <1>1, <1>3, <1>4 DEF Claimed
<1> QED
    BY <1>1, <1>5, EndKeeps

\* A body that raises before its promotion, or whose evidence stays unproven.
LEMMA RaiseKeeps ==
    ASSUME HostInv, NEW i \in Installers, Refuse(i) \/ EvidenceUnproven(i)
    PROVE  OwnKept(i)
<1>1. /\ run[i].pc # "END" /\ stage[i] = "OWNER"
      /\ Ended(i) \/ run' = [run EXCEPT ![i] = [AfterBody(@) EXCEPT !.contained = FALSE]]
      /\ UNCHANGED <<boot, stage, image, current, running, journal, tree, last>>
    BY DEF Refuse, EvidenceUnproven, Preparing, Containing, lockvars, hostvars, filevars
<1>2. Claimed(i)'
    BY <1>1 DEF HostInv, Body, Claimed, Active
<1> QED
    BY <1>1, <1>2, EndKeeps

-----------------------------------------------------------------------------
BodyStep(i) == Promotion(i) \/ Refuse(i) \/ Fail(i) \/ Containment(i) \/ EvidenceUnproven(i)

LEMMA BodyKeeps ==
    ASSUME HostInv, NEW i \in Installers, BodyStep(i)
    PROVE  OwnKept(i)
<1>1. CASE Promotion(i)
    BY <1>1, PreparingKeeps, AwaitKeeps, StopUnitKeeps, PlaceImageKeeps, ReloadKeeps, SelectKeeps, CutoverKeeps,
       RunningKeeps, CommitKeeps DEF Promotion
<1>2. CASE Containment(i)
    BY <1>2, ContainKeeps, StopAllKeeps, ConfirmKeeps, RecutKeeps, ObserveKeeps, RetainKeeps
       DEF Containment
<1> QED
    BY <1>1, <1>2, RaiseKeeps, FailKeeps DEF BodyStep

\* A body moves its own row, its own tree, and the host only as the last one
\* that recorded a prestate.
LEMMA BodyFrame ==
    ASSUME HostInv, NEW i \in Installers, BodyStep(i)
    PROVE  /\ stage[i] = "OWNER"
           /\ \A j \in Installers \ {i} : journal'[j] = journal[j] /\ tree'[j] = tree[j]
           /\ last' = <<i, boot>> \/ UNCHANGED <<image, current, running, last>>
<1>1. Body(i)
    BY DEF HostInv
<1>2. CASE Promotion(i)
  <2>1. stage[i] = "OWNER"
      BY <1>2 DEF Promotion, Recheck, Receipt, Journal, CandidateRow, PlaceTree, FillTree, Rechecked,
         Await, StopUnit, PlaceImage, Reload, Select, Cutover, StartTarget, CheckActive, Accept, Terminal, Commit, At
  <2>2. \A j \in Installers \ {i} : journal'[j] = journal[j] /\ tree'[j] = tree[j]
      BY <1>2 DEF Promotion, Recheck, Receipt, Journal, CandidateRow, PlaceTree, FillTree, HostInv,
         HostTypeOK, filevars,
         Await, StopUnit, PlaceImage, Reload, Select, Cutover, StartTarget, CheckActive, Accept, Terminal, Commit
  <2>3. \/ last' = <<i, boot>> \/ UNCHANGED <<image, current, running, last>>
        \/ last' = last /\ run[i].pc \in {"STOP", "IMAGE", "SELECT", "CUTOVER", "START"}
      BY <1>2 DEF Promotion, Recheck, Receipt, Journal, CandidateRow, PlaceTree, FillTree, hostvars, At,
         Await, StopUnit, PlaceImage, Reload, Select, Cutover, StartTarget, CheckActive, Accept, Terminal, Commit
  <2> QED
      BY <1>1, <2>1, <2>2, <2>3 DEF Body, Staged, Idling
<1>3. CASE Containment(i)
  <2>1. stage[i] = "OWNER"
      BY <1>3 DEF Containment, Contain, StopAll, Confirm, Recut, Observe, Retain, At
  <2>2. \A j \in Installers \ {i} : journal'[j] = journal[j] /\ tree'[j] = tree[j]
      BY <1>3 DEF Containment, Contain, StopAll, Confirm, Recut, Observe, Retain, filevars, HostInv,
         HostTypeOK
  <2>3. \/ UNCHANGED <<image, current, running, last>>
        \/ last' = last /\ run[i].pc \in {"STOPALL", "RECUT", "OBSERVE"}
      BY <1>3 DEF Containment, Contain, StopAll, Confirm, Recut, Observe, Retain, hostvars, At
  <2> QED
      BY <1>1, <2>1, <2>2, <2>3 DEF Body, Staged, Idling
<1>4. CASE Refuse(i) \/ Fail(i) \/ EvidenceUnproven(i)
    BY <1>4 DEF Refuse, Fail, EvidenceUnproven, hostvars, filevars
<1> QED
    BY <1>2, <1>3, <1>4 DEF BodyStep

Phases == {"NONE", "RECEIPT", "PREPARED", "IMAGE", "DAEMON_RELOAD", "SELECTORS", "TARGET_STARTED",
           "TERMINAL_ACCEPTED", "COMPLETE", "FAILED_INSTALL_RETAINED",
           "FAILED_INSTALL_CONTAINMENT_UNPROVEN"}

LEMMA BodyTyped ==
    ASSUME HostInv, NEW i \in Installers, BodyStep(i), run' \in [Installers -> Runs]
    PROVE  HostTypeOK'
<1>1. /\ LockTypeOK /\ tree \in [Installers -> {"NONE", "RECORDED", "OPEN", "PLACED"}]
      /\ image \in [1..Rows -> Generations] /\ stale \in BOOLEAN /\ current \in Generations
      /\ running \in [Units -> Generations \cup {Stopped}]
      /\ journal \in [Installers -> Phases]
      /\ last \in (Installers \cup {Base}) \X (0..MaxBoot) /\ upsets \in 0..MaxUpsets
      /\ Body(i)
    BY DEF HostInv, HostTypeOK, Phases
<1>2. LockTypeOK'
  <2>1. UNCHANGED lockvars
      BY BodyKeepsLock DEF BodyStep
  <2> QED
      BY <1>1, <2>1 DEF LockTypeOK, lockvars
<1>3. tree' \in [Installers -> {"NONE", "RECORDED", "OPEN", "PLACED"}]
  <2>1. tree' = tree \/ \E s \in {"RECORDED", "OPEN", "PLACED"} : tree' = [tree EXCEPT ![i] = s]
      BY DEF BodyStep, Promotion, Recheck, Receipt, Journal, CandidateRow, PlaceTree, FillTree, filevars,
         Await, StopUnit, PlaceImage, Reload, Select, Cutover, StartTarget, CheckActive, Accept, Terminal, Commit,
         Containment, Contain, StopAll, Confirm, Recut, Observe, Retain, Refuse, Fail, EvidenceUnproven
  <2> QED
      BY <1>1, <2>1
<1>4. journal' \in [Installers -> Phases]
  <2>1. journal' = journal \/ \E s \in Phases : journal' = [journal EXCEPT ![i] = s]
    <3>1. CASE Promotion(i)
        BY <3>1 DEF Phases, Promotion, Recheck, Receipt, Journal, CandidateRow, PlaceTree, FillTree, filevars,
           Await, StopUnit, PlaceImage, Reload, Select, Cutover, StartTarget, CheckActive, Accept, Terminal, Commit
    <3>2. CASE Containment(i)
        BY <3>2 DEF Phases, Containment, Contain, StopAll, Confirm, Recut, Observe, Retain, filevars
    <3>3. CASE Refuse(i) \/ Fail(i) \/ EvidenceUnproven(i)
        BY <3>3 DEF Refuse, Fail, EvidenceUnproven, filevars
    <3> QED
        BY <3>1, <3>2, <3>3 DEF BodyStep
  <2> QED
      BY <1>1, <2>1
<1>5. image' \in [1..Rows -> Generations] /\ current' \in Generations
  <2>1. CASE PlaceImage(i)
    <3>1. run[i].index \in 1..Rows
        BY <1>1, <2>1 DEF PlaceImage, At, Body, Staged
    <3> QED
        BY <1>1, <2>1, <3>1, MaterialTyped DEF PlaceImage, Replace
  <2>2. CASE Select(i)
      BY <1>1, <2>2, CandidateTyped DEF Select
  <2>3. CASE ~PlaceImage(i) /\ ~Select(i)
    <3>1. UNCHANGED <<image, current>>
        BY <2>3 DEF BodyStep, Promotion, Recheck, Receipt, Journal, CandidateRow, PlaceTree, FillTree, hostvars,
           Await, StopUnit, Reload, Cutover, StartTarget, CheckActive, Accept, Terminal, Commit,
           Containment, Contain, StopAll, Confirm, Recut, Observe, Retain, Refuse, Fail, EvidenceUnproven
    <3> QED
        BY <1>1, <3>1
  <2> QED
      BY <2>1, <2>2, <2>3
<1>6. running' \in [Units -> Generations \cup {Stopped}]
  <2>1. running' = running \/ (\E u : running' = Stop(u)) \/ (\E us : running' = Started(us))
    <3>1. CASE Promotion(i)
        BY <3>1 DEF Promotion, Recheck, Receipt, Journal, CandidateRow, PlaceTree, FillTree, hostvars,
           Await, StopUnit, PlaceImage, Reload, Select, Cutover, StartTarget, CheckActive, Accept, Terminal, Commit
    <3>2. CASE Containment(i)
        BY <3>2 DEF Containment, Contain, StopAll, Confirm, Recut, Observe, Retain, hostvars
    <3>3. CASE Refuse(i) \/ Fail(i) \/ EvidenceUnproven(i)
        BY <3>3 DEF Refuse, Fail, EvidenceUnproven, hostvars
    <3> QED
        BY <3>1, <3>2, <3>3 DEF BodyStep
  <2> QED
      BY <1>1, <2>1 DEF Stop, Started
<1>7. upsets' \in 0..MaxUpsets
  <2>1. upsets' = upsets \/ Unsettled
      BY DEF BodyStep, Promotion, Recheck, Receipt, Journal, CandidateRow, PlaceTree, FillTree, hostvars,
         Await, StopUnit, PlaceImage, Reload, Select, Cutover, StartTarget, CheckActive, Accept, Terminal, Commit,
         Containment, Contain, StopAll, Confirm, Recut, Observe, Retain, Refuse, Fail, EvidenceUnproven
  <2>2. boot \in Nat /\ MaxUpsets \in Nat
      BY <1>1, LockAssumption, GenerationAssumption DEF LockTypeOK
  <2> QED
      BY <1>1, <2>1, <2>2 DEF Unsettled
<1>8. last' \in (Installers \cup {Base}) \X (0..MaxBoot)
  <2>1. last' = last \/ last' = <<i, boot>>
      BY DEF BodyStep, Promotion, Recheck, Receipt, Journal, CandidateRow, PlaceTree, FillTree,
         Await, StopUnit, PlaceImage, Reload, Select, Cutover, StartTarget, CheckActive, Accept, Terminal, Commit,
         Containment, Contain, StopAll, Confirm, Recut, Observe, Retain, Refuse, Fail, EvidenceUnproven
  <2> QED
      BY <1>1, <2>1 DEF LockTypeOK
<1>9. \A j \in Installers : /\ run'[j].pc \in {"NONE", "END"} \cup Preparing \cup Promoting \cup Containing
                            /\ run'[j].index \in 1..Len(StopOrder) \cup 1..Rows
                            /\ run'[j].prior \in Generations \cup {NoEvidence}
    BY DEF Runs
<1>10. stale' \in BOOLEAN
  <2>1. CASE PlaceImage(i)
      BY <1>1, <2>1 DEF PlaceImage
  <2>2. CASE Reload(i)
      BY <2>2 DEF Reload
  <2>3. CASE ~PlaceImage(i) /\ ~Reload(i)
    <3>1. UNCHANGED stale
        BY <2>3 DEF BodyStep, Promotion, Recheck, Receipt, Journal, CandidateRow, PlaceTree, FillTree, hostvars,
           Await, StopUnit, Select, Cutover, StartTarget, CheckActive, Accept, Terminal, Commit,
           Containment, Contain, StopAll, Confirm, Recut, Observe, Retain, Refuse, Fail, EvidenceUnproven
    <3> QED
        BY <1>1, <3>1
  <2> QED
      BY <2>1, <2>2, <2>3
<1> QED
    BY <1>2, <1>3, <1>4, <1>5, <1>6, <1>7, <1>8, <1>9, <1>10 DEF HostTypeOK, Phases

LEMMA HostInvStep ==
    ASSUME HostInv, LockInv, [Next]_vars
    PROVE  HostInv'
<1>1. LockTypeOK' /\ OneOwner
  <2>1. [LockNext]_lockvars
      BY StepOfLock
  <2> QED
      BY <2>1, LockTypeStep, LockInvSeparates DEF LockInv
<1>2. CASE Systemd
    BY <1>2, SystemdKeeps
<1>3. CASE Reboot
    BY <1>1, <1>3, RebootKeeps
<1>4. ASSUME NEW i \in Installers, Prepare(i) \/ Enter(i) \/ Leave(i) \/ Kill(i) PROVE HostInv'
    BY <1>1, <1>4, OutsideKeeps
<1>5. ASSUME NEW i \in Installers, BodyStep(i) PROVE HostInv'
  <2>1. /\ run' \in [Installers -> Runs] /\ \A j \in Installers \ {i} : run'[j] = run[j]
        /\ Body(i)'
      BY <1>5, BodyKeeps DEF OwnKept
  <2>2. HostTypeOK'
      BY <1>5, <2>1, BodyTyped
  <2>3. UNCHANGED lockvars
      BY <1>5, BodyKeepsLock DEF BodyStep
  <2> QED
      BY <1>1, <1>5, <2>1, <2>2, <2>3, BodyFrame, OwnerKeeps
<1>6. CASE UNCHANGED vars
  <2>1. UNCHANGED <<boot, lock, packet, opened, stage, image, stale, current, running, upsets, journal, tree, run, last>>
      BY <1>6 DEF vars, lockvars, hostvars, filevars
  <2>2. HostTypeOK' /\ last'[2] <= boot' /\ run' \in [Installers -> Runs]
      BY <2>1 DEF HostInv, HostTypeOK, LockTypeOK
  <2>3. ASSUME NEW i \in Installers PROVE Body(i)'
    <3>1. Body(i)
        BY DEF HostInv
    <3>2. Staged(i)' /\ Placing(i)' /\ Halting(i)'
        BY <2>1, <3>1 DEF Body, Staged, Placing, Halting, StartupUnchanged
    <3>3. Observing(i)' /\ Claimed(i)'
        BY <2>1, <3>1 DEF Body, Observing, Claimed, ObserverSafe, VitalsSelected, Active
    <3> QED
        BY <3>2, <3>3 DEF Body
  <2> QED
      BY <2>2, <2>3 DEF HostInv
<1> QED
    BY <1>2, <1>3, <1>4, <1>5, <1>6 DEF Next, BodyStep

LEMMA HostInvInit ==
    ASSUME Init
    PROVE  HostInv
<1>1. /\ \A i \in Installers : run[i] = NoRun /\ journal[i] = "NONE" /\ stage[i] = "IDLE"
      /\ run = [i \in Installers |-> NoRun] /\ boot = 0 /\ last = <<Base, 0>>
    BY DEF Init, LockInit
<1>2. NoRun \in Runs /\ NoRun.pc = "NONE" /\ 1 \in 1..Len(StopOrder)
  <2>1. 1 \in 1..Len(StopOrder)
      BY UnitNames
  <2> QED
      BY <2>1 DEF NoRun, Runs
<1>3. run \in [Installers -> Runs]
    BY <1>1, <1>2
<1>4. HostTypeOK
  <2>1. LockTypeOK
      BY LockInvInit DEF Init, LockInv
  <2>2. \A i \in Installers : /\ run[i].pc \in {"NONE", "END"} \cup Preparing \cup Promoting \cup Containing
                              /\ run[i].index \in 1..Len(StopOrder) \cup 1..Rows
                              /\ run[i].prior \in Generations \cup {NoEvidence}
      BY <1>3 DEF Runs
  <2>3. /\ image \in [1..Rows -> Generations] /\ stale \in BOOLEAN /\ current \in Generations
        /\ running \in [Units -> Generations \cup {Stopped}]
      BY MaterialTyped DEF Init, Generations
  <2>4. last \in (Installers \cup {Base}) \X (0..MaxBoot) /\ upsets \in 0..MaxUpsets
      BY LockAssumption, GenerationAssumption DEF Init
  <2>5. /\ journal \in [Installers -> Phases]
        /\ tree \in [Installers -> {"NONE", "RECORDED", "OPEN", "PLACED"}]
      BY DEF Init, Phases
  <2> QED
      BY <2>1, <2>2, <2>3, <2>4, <2>5 DEF HostTypeOK, Phases
<1>5. ASSUME NEW i \in Installers PROVE Body(i)
  <2>1. run[i].pc = "NONE" /\ journal[i] = "NONE" /\ stage[i] = "IDLE"
      BY <1>1, <1>2
  <2>2. Placing(i) /\ Halting(i) /\ Observing(i)
      BY <2>1, IdleBody DEF Idling
  <2> QED
      BY <2>1, <2>2 DEF Body, Staged, Idling, Claimed
<1> QED
    BY <1>1, <1>3, <1>4, <1>5 DEF HostInv

-----------------------------------------------------------------------------
\* Where a body is and what it has moved is as the invariant says in every state,
\* whatever systemd, kills and boots do beside it.
THEOREM HostInductive == Spec => []HostInv
<1>1. Spec => []LockInv
    BY InstallationsUnderLock, LockInvariant, PTL
<1>2. Init => HostInv
    BY HostInvInit
<1>3. HostInv /\ LockInv /\ [Next]_vars => HostInv'
    BY HostInvStep
<1> QED
    BY <1>1, <1>2, <1>3, PTL DEF Spec

\* A journal that says a failed generation is contained is true of the host until
\* the next boot (PUBLIC_INSTALL_FAILED_RETAINED).
THEOREM ContainmentAlwaysTruthful == Spec => []ContainmentTruthful
<1>1. HostInv => ContainmentTruthful
    BY DEF HostInv, Body, Claimed, ContainmentTruthful
<1> QED
    BY <1>1, HostInductive, PTL

\* A journal closed as complete is true of the image, the selector and the units
\* until another installation begins (_complete_bootstrap_promotion).
THEOREM CompleteAlwaysInstalled == Spec => []CompleteMeansInstalled
<1>1. HostInv => CompleteMeansInstalled
    BY DEF HostInv, Body, Claimed, CompleteMeansInstalled, Daemons
<1> QED
    BY <1>1, HostInductive, PTL

\* The selector moves only behind a complete image and tree, and with everything
\* stopped that would start from it (_complete_bootstrap_promotion).
THEOREM SelectorAlwaysLast == Spec => SelectorLast
<1> DEFINE Behind ==
             current' # current =>
                 /\ image = Material(current') /\ (current' \in Installers => tree[current'] = "PLACED")
                 /\ {"core", "timer", "target"} \cap Active = {}
<1>1. HostInv /\ [Next]_vars => [Behind]_vars
  <2> SUFFICES ASSUME HostInv, [Next]_vars, current' # current PROVE Behind
      OBVIOUS
  <2>1. PICK i \in Installers : Select(i)
    <3>1. ~UNCHANGED vars /\ ~Systemd /\ ~Reboot
        BY DEF vars, hostvars, Systemd, TimerFires, WitnessEnds, Upset, Reboot
    <3>2. PICK i \in Installers :
            \/ Prepare(i) \/ Enter(i) \/ Promotion(i) \/ Refuse(i) \/ Fail(i)
            \/ Containment(i) \/ EvidenceUnproven(i) \/ Leave(i) \/ Kill(i)
        BY <3>1 DEF Next
    <3>3. ~Prepare(i) /\ ~Enter(i) /\ ~Refuse(i) /\ ~Fail(i) /\ ~EvidenceUnproven(i) /\ ~Leave(i) /\ ~Kill(i)
        BY DEF Prepare, Enter, Refuse, Fail, EvidenceUnproven, Leave, Kill, hostvars
    <3>4. ~Containment(i)
        BY DEF Containment, Contain, StopAll, Confirm, Recut, Observe, Retain, hostvars
    <3>5. Promotion(i) => Select(i)
        BY DEF Promotion, Recheck, Receipt, Journal, CandidateRow, PlaceTree, FillTree, hostvars,
           Await, StopUnit, PlaceImage, Reload, Cutover, StartTarget, CheckActive, Accept, Terminal, Commit
    <3> QED
        BY <3>2, <3>3, <3>4, <3>5
  <2>2. Body(i) /\ run[i].pc = "SELECT" /\ current' = Candidate[i]
      BY <2>1 DEF HostInv, Select, At
  <2>3. /\ image = Material(Candidate[i]) /\ (Candidate[i] = i => tree[i] = "PLACED")
        /\ \A u \in Daemons : running[u] # Stopped => u \in Vitals
      BY <2>2 DEF Body, Placing, Halting
  <2>4. {"core", "timer", "target"} \cap Active = {}
      BY <2>3, UnitNames DEF Active, Vitals
  <2> QED
      BY <2>2, <2>3, <2>4, CandidateTyped
<1> QED
    BY <1>1, HostInductive, PTL DEF Spec, SelectorLast

\* An installer never starts an observer beside one of another generation, in a
\* promotion or in the containment of a failed one (_contain_postpromotion_failure).
THEOREM ObserversAlwaysWhole == Spec => ObserversWhole
<1> DEFINE Whole ==
             \A u \in Vitals :
                 /\ run' # run /\ running[u] = Stopped /\ running'[u] # Stopped
                 => \A v \in Vitals : running'[v] \in {Stopped, running'[u]}
<1>1. HostInv /\ [Next]_vars => [Whole]_vars
  <2> SUFFICES ASSUME HostInv, [Next]_vars, NEW u \in Vitals, run' # run,
                      running[u] = Stopped, running'[u] # Stopped, NEW v \in Vitals
               PROVE  running'[v] \in {Stopped, running'[u]}
      OBVIOUS
  <2>1. /\ running \in [Units -> Generations \cup {Stopped}] /\ current \in Generations
        /\ Vitals \subseteq Daemons /\ Vitals \subseteq Units /\ "witness" \notin Vitals
      BY UnitNames DEF HostInv, HostTypeOK, Vitals
  <2>2. CASE Reboot
      BY <2>1, <2>2 DEF Reboot
  <2>3. ASSUME NEW i \in Installers, BodyStep(i) PROVE running'[v] \in {Stopped, running'[u]}
    <3>1. Body(i)
        BY DEF HostInv
    <3>2. ASSUME NEW w, running' = Stop(w) PROVE FALSE
        BY <2>1, <3>2 DEF Stop
    <3>3. StartTarget(i) \/ Observe(i)
      <4>1. running' # running
          OBVIOUS
      <4>2. CASE Promotion(i)
          BY <4>1, <4>2, <3>2 DEF Promotion, Recheck, Receipt, Journal, CandidateRow, PlaceTree, FillTree, hostvars,
             Await, StopUnit, PlaceImage, Reload, Select, Cutover, CheckActive, Accept, Terminal, Commit
      <4>3. CASE Containment(i)
          BY <4>1, <4>3, <3>2 DEF Containment, Contain, StopAll, Confirm, Recut, Retain, hostvars
      <4>4. CASE Refuse(i) \/ Fail(i) \/ EvidenceUnproven(i)
          BY <4>1, <4>4 DEF Refuse, Fail, EvidenceUnproven, hostvars
      <4> QED
          BY <2>3, <4>2, <4>3, <4>4 DEF BodyStep
    <3>4. CASE StartTarget(i)
      <4>1. run[i].pc = "START" /\ running' = Started(Units \ {"witness"})
          BY <3>4 DEF StartTarget, At
      <4>2. \A w \in Daemons : running[w] = Stopped
          BY <3>1, <4>1 DEF Body, Halting
      <4> QED
          BY <2>1, <4>1, <4>2, StartedTyped
    <3>5. CASE Observe(i)
      <4>1. VitalsSelected
          BY <3>1, <3>5 DEF Body, Observing, Observe, At
      <4>2. PICK us : running' = Started(us)
          BY <3>5 DEF Observe
      <4> QED
          BY <2>1, <4>1, <4>2, StartedTyped DEF VitalsSelected
    <3> QED
        BY <3>3, <3>4, <3>5
  <2>4. CASE Systemd \/ UNCHANGED vars
      BY <2>4 DEF vars, Systemd, TimerFires, WitnessEnds, Upset
  <2>5. ASSUME NEW i \in Installers, Prepare(i) \/ Enter(i) \/ Leave(i) \/ Kill(i) PROVE FALSE
      BY <2>5 DEF Prepare, Enter, Leave, Kill, hostvars
  <2> QED
      BY <2>2, <2>3, <2>4, <2>5 DEF Next, BodyStep
<1> QED
    BY <1>1, HostInductive, PTL DEF Spec, ObserversWhole
==============================================================================
