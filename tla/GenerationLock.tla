---------------------------- MODULE GenerationLock ----------------------------
(***************************************************************************)
(* public_generation_lock of outpost/install/public_generation_transaction:  *)
(* the file .outpost-public-generation.lock that every complete Outpost and   *)
(* Kernel installation holds from its first recheck to its last write.       *)
(*                                                                         *)
(* An ordinary installer creates the file exclusively and unlinks it when its *)
(* body ends, however it ends.  A process that dies leaves the file; only an  *)
(* installer of a later boot whose signed plan names that exact file may take *)
(* it over, under flock, and it unlinks the file only after a complete body.  *)
(*                                                                         *)
(* An installer is one invocation with one signed plan.  A file is identified *)
(* by its creator (its inode) and carries its creator's boot once written.   *)
(***************************************************************************)
EXTENDS Naturals

CONSTANTS
    Installers,
    NoLock,         \* no file of that name
    NoPacket,       \* a plan without retained_transaction, or whose lock is ABSENT
    MaxBoot         \* bound of the model

ASSUME LockAssumption ==
    /\ MaxBoot \in Nat
    /\ NoLock \notin [inode : Installers, boot : 0..MaxBoot, written : BOOLEAN]
    /\ NoPacket \notin [inode : Installers, boot : 0..MaxBoot, written : BOOLEAN]

VARIABLES
    boot,       \* /proc/sys/kernel/random/boot_id
    lock,       \* the file of that name
    packet,     \* retained_transaction of an installer's plan
    opened,     \* the file a successor's descriptor holds
    stage       \* where an installer is in the context manager

lockvars == <<boot, lock, packet, opened, stage>>

Files == [inode : Installers, boot : 0..MaxBoot, written : BOOLEAN]
Stages == {"IDLE", "PLANNED", "CREATED", "OPENED", "FLOCKED", "OWNER", "DENIED", "RELEASED",
           "RETAINED", "DEAD"}
Live == {"PLANNED", "CREATED", "OPENED", "FLOCKED", "OWNER"}

LockTypeOK ==
    /\ boot \in 0..MaxBoot
    /\ lock \in Files \cup {NoLock}
    /\ packet \in [Installers -> Files \cup {NoPacket}]
    /\ opened \in [Installers -> Files \cup {NoLock}]
    /\ stage \in [Installers -> Stages]

LockInit ==
    /\ boot = 0 /\ lock = NoLock
    /\ packet = [i \in Installers |-> NoPacket]
    /\ opened = [i \in Installers |-> NoLock]
    /\ stage = [i \in Installers |-> "IDLE"]

Moves(i, to) == stage' = [stage EXCEPT ![i] = to]

\* An installer that excludes by creating the file, not by taking one over.
Ordinary(i) == packet[i] = NoPacket

-----------------------------------------------------------------------------
\* Mutation: a lock of this boot may be named as retained.
RetainedOfAnyBoot(p) == p = lock /\ lock # NoLock /\ lock.written

\* _retained_transaction_binding: a retained file of an earlier boot, of which
\* the exact bytes are known.
RetainedBinding(p) == p = lock /\ lock # NoLock /\ lock.written /\ lock.boot # boot

\* A plan is verified and signed for the current boot; what it says of the lock
\* was observed before and may be stale when the installer arrives.
PlanFor(i) ==
    /\ stage[i] = "IDLE"
    /\ \E p \in Files \cup {NoPacket} :
        /\ p = NoPacket \/ RetainedBinding(p)
        /\ packet' = [packet EXCEPT ![i] = p]
    /\ Moves(i, "PLANNED")
    /\ UNCHANGED <<boot, lock, opened>>

\* O_CREAT | O_EXCL.
Create(i) ==
    IF lock = NoLock
    THEN /\ lock' = [inode |-> i, boot |-> boot, written |-> FALSE]
         /\ Moves(i, "CREATED")
    ELSE Moves(i, "DENIED") /\ UNCHANGED lock

CreateLock(i) ==
    /\ stage[i] = "PLANNED" /\ Ordinary(i)
    /\ Create(i)
    /\ UNCHANGED <<boot, packet, opened>>

\* The payload is durable before the body runs, and is its own inode's.
WriteLock(i) ==
    /\ stage[i] = "CREATED"
    /\ lock # NoLock /\ lock.inode = i
    /\ lock' = [lock EXCEPT !.written = TRUE]
    /\ Moves(i, "OWNER")
    /\ UNCHANGED <<boot, packet, opened>>

\* A successor opens whatever file has the name, and locks that inode.
OpenLock(i) ==
    /\ stage[i] = "PLANNED" /\ ~Ordinary(i)
    /\ opened' = [opened EXCEPT ![i] = lock]
    /\ Moves(i, IF lock = NoLock THEN "DENIED" ELSE "OPENED")
    /\ UNCHANGED <<boot, lock, packet>>

HoldsFlock(j) == stage[j] \in {"FLOCKED", "OWNER"} /\ ~Ordinary(j)

\* LOCK_EX | LOCK_NB on the opened inode.
Lockable(i) ==
    \A j \in Installers \ {i} : ~(HoldsFlock(j) /\ opened[j].inode = opened[i].inode)

FlockLock(i) ==
    /\ stage[i] = "OPENED"
    /\ Moves(i, IF Lockable(i) THEN "FLOCKED" ELSE "DENIED")
    /\ UNCHANGED <<boot, lock, packet, opened>>

\* boundary(): the descriptor and the name are both the signed file.
Boundary(i) == opened[i] = packet[i] /\ lock = packet[i]

EnterRetained(i) ==
    /\ stage[i] = "FLOCKED"
    /\ Moves(i, IF Boundary(i) THEN "OWNER" ELSE "DENIED")
    /\ UNCHANGED <<boot, lock, packet, opened>>

\* verify(): the continuity check the body repeats before its effects.
Owns(i) ==
    /\ stage[i] = "OWNER"
    /\ IF Ordinary(i) THEN lock = [inode |-> i, boot |-> boot, written |-> TRUE]
       ELSE Boundary(i)

\* The body ends.  An ordinary owner unlinks in its finally; a successor only
\* behind a COMPLETE journal, and keeps the file otherwise.
ReleaseLock(i, complete) ==
    /\ Owns(i)
    /\ IF Ordinary(i) \/ complete
       THEN lock' = NoLock /\ Moves(i, "RELEASED")
       ELSE Moves(i, "RETAINED") /\ UNCHANGED lock
    /\ UNCHANGED <<boot, packet, opened>>

\* A kill drops the descriptor and its flock, never the file.
KillInstaller(i) ==
    /\ stage[i] \in Live
    /\ Moves(i, "DEAD")
    /\ UNCHANGED <<boot, lock, packet, opened>>

RebootLock ==
    /\ boot < MaxBoot
    /\ boot' = boot + 1
    /\ stage' = [i \in Installers |-> IF stage[i] \in Live THEN "DEAD" ELSE stage[i]]
    /\ UNCHANGED <<lock, packet, opened>>

LockStep(i) ==
    \/ PlanFor(i) \/ CreateLock(i) \/ WriteLock(i) \/ OpenLock(i) \/ FlockLock(i)
    \/ EnterRetained(i) \/ KillInstaller(i)
    \/ \E complete \in BOOLEAN : ReleaseLock(i, complete)

LockNext == RebootLock \/ \E i \in Installers : LockStep(i)

LockSpec == LockInit /\ [][LockNext]_lockvars

-----------------------------------------------------------------------------
\* Two complete installations never run at once, whether they created the lock,
\* took over a retained one, or raced for it with a stale observation of it
\* (public_generation_lock, _retained_generation_ownership).
OneOwner == \A i, j \in Installers : stage[i] = "OWNER" /\ stage[j] = "OWNER" => i = j
==============================================================================
