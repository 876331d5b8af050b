---------------------------- MODULE PendingDispatch ----------------------------
(***************************************************************************)
(* The durable queue of pending work, OperationsQueue, drained by callers of *)
(* dispatch_pending_once and dispatch_once                                   *)
(* (serein_stage1/kernel_operations.py), over the attempts of AttemptLedger. *)
(* Several workers may drain at once; each call is a sequence of separate    *)
(* transactions on two databases, and it may fail or die between any two.    *)
(*                                                                         *)
(* A record is its task; the request and the dedupe key it carries are       *)
(* constants.  A worker that is handed another request than the head's       *)
(* returns without effect and is left out.                                  *)
(***************************************************************************)
EXTENDS AttemptLedger, Integers, Sequences, SequencesExt, FiniteSets

CONSTANTS
    Tasks,          \* task_id
    Request,        \* Request[t]: the request the record's digest names
    DedupeKey,      \* DedupeKey[t]
    Workers,
    QueueLimit,     \* 4096 in the code
    MaxPosition,    \* bound: entries ever enqueued
    MaxChanges      \* bound: changes of authority, dependencies and capacity

ASSUME PendingAssumption ==
    /\ Request \in [Tasks -> Requests]
    /\ NoResult \notin Results
    /\ QueueLimit \in Nat /\ MaxPosition \in Nat /\ MaxChanges \in Nat

VARIABLES
    queue,      \* the pending table in order of position
    sequence,   \* sqlite_sequence: the last position ever assigned
    worker,     \* worker[w]: the call w is in
    forwarded,  \* how often the destination was given r
    returned,   \* returned[r]: the digest of what the destination returned last
    current,    \* requests whose authority and dependencies are current
    capacity,   \* the route has capacity
    changes

vars == <<attempt, result, queue, sequence, worker, forwarded, returned,
          current, capacity, changes>>

Entries == [position : 1..MaxPosition, task : Tasks]
Phases == {"IDLE", "SNAPSHOT", "DECIDED", "CLEAR", "EVALUATED", "RESERVED", "FRESH",
           "FORWARDED", "RETURNED", "CONSUMED", "COMPLETING"}

\* No call; the head is meaningless.
Idle == [phase |-> "IDLE", head |-> <<>>]

Calls == {Idle} \cup [phase : Phases \ {"IDLE"}, head : Entries]

TypeOK ==
    /\ attempt \in [Requests -> AttemptStates \ {"UNUSED"}]
    /\ result \in [Requests -> Results \cup {NoResult}]
    /\ queue \in Seq(Entries) /\ Len(queue) <= QueueLimit
    /\ sequence \in 0..MaxPosition
    /\ worker \in [Workers -> Calls]
    /\ forwarded \in [Requests -> Nat]
    /\ returned \in [Requests -> Results \cup {NoResult}]
    /\ current \subseteq Requests /\ capacity \in BOOLEAN
    /\ changes \in 0..MaxChanges

Init ==
    /\ LedgerInit
    /\ queue = <<>> /\ sequence = 0
    /\ worker = [w \in Workers |-> Idle]
    /\ forwarded = [r \in Requests |-> 0]
    /\ returned = [r \in Requests |-> NoResult]
    /\ current = Requests /\ capacity = TRUE /\ changes = 0

world == <<current, capacity, changes>>
destination == <<forwarded, returned>>

-----------------------------------------------------------------------------
(***************************************************************************)
(* enqueue: one transaction.                                               *)
(***************************************************************************)

\* Rows that share an identity with the record.
Clashes(t) ==
    {e \in ToSet(queue) : e.task = t \/ DedupeKey[e.task] = DedupeKey[t]}

\* An identical record keeps its position, any other clash is refused; a new
\* record takes the next position that was never used.
Enqueue(t) ==
    /\ Clashes(t) = {} /\ Len(queue) < QueueLimit /\ sequence < MaxPosition
    /\ sequence' = sequence + 1
    /\ queue' = Append(queue, [position |-> sequence + 1, task |-> t])
    /\ UNCHANGED <<ledger, worker, destination, world>>

-----------------------------------------------------------------------------
(***************************************************************************)
(* dispatch_pending_once, one step per transaction or read.                 *)
(***************************************************************************)

At(w, phase) == worker[w].phase = phase
RequestOf(w) == Request[worker[w].head.task]

Goto(w, phase) == worker' = [worker EXCEPT ![w] = [@ EXCEPT !.phase = phase]]
Return(w) == worker' = [worker EXCEPT ![w] = Idle]

Snapshot(w) ==
    /\ At(w, "IDLE") /\ queue # <<>>
    /\ worker' = [worker EXCEPT ![w] = [phase |-> "SNAPSHOT", head |-> Head(queue)]]
    /\ UNCHANGED <<ledger, queue, sequence, destination, world>>

\* current_context: the head is unchanged, dependencies and authority current.
ContextCurrent(w) ==
    /\ queue # <<>> /\ Head(queue) = worker[w].head
    /\ RequestOf(w) \in current

Decide(w) ==
    /\ At(w, "SNAPSHOT") /\ ContextCurrent(w)
    /\ Goto(w, "DECIDED")
    /\ UNCHANGED <<ledger, queue, sequence, destination, world>>

\* authenticated_completion: no dispatch row, a reservation somebody else holds
\* or lost (RECOVERY_REQUIRED_RESERVED_PRESERVED), or a consumption.
ReadEvidence(w) ==
    /\ At(w, "DECIDED")
    /\ CASE attempt[RequestOf(w)] = "NONE" -> Goto(w, "CLEAR")
         [] attempt[RequestOf(w)] = "RESERVED" -> Return(w)
         [] OTHER -> Goto(w, "COMPLETING")
    /\ UNCHANGED <<ledger, queue, sequence, destination, world>>

\* dispatch_once: without capacity the entry stays pending.
Evaluate(w) ==
    /\ At(w, "CLEAR") /\ ContextCurrent(w)
    /\ IF capacity THEN Goto(w, "EVALUATED") ELSE Return(w)
    /\ UNCHANGED <<ledger, queue, sequence, destination, world>>

\* Mutation: an existing reservation of the request is taken over.
ReserveTakesOver(w) ==
    LET r == RequestOf(w) IN
    /\ At(w, "EVALUATED") /\ attempt[r] \in {"NONE", "RESERVED"}
    /\ attempt' = [attempt EXCEPT ![r] = "RESERVED"] /\ UNCHANGED result
    /\ Goto(w, "RESERVED")
    /\ UNCHANGED <<queue, sequence, destination, world>>

ReserveRequest(w) ==
    /\ At(w, "EVALUATED") /\ Reserve(RequestOf(w))
    /\ Goto(w, "RESERVED")
    /\ UNCHANGED <<queue, sequence, destination, world>>

\* Everything is evaluated again after the reservation.
Reevaluate(w) ==
    /\ At(w, "RESERVED") /\ ContextCurrent(w) /\ capacity
    /\ Goto(w, "FRESH")
    /\ UNCHANGED <<ledger, queue, sequence, destination, world>>

Forward(w) ==
    /\ At(w, "FRESH")
    /\ forwarded' = [forwarded EXCEPT ![RequestOf(w)] = @ + 1]
    /\ Goto(w, "FORWARDED")
    /\ UNCHANGED <<ledger, queue, sequence, returned, world>>

Returned(w) ==
    /\ At(w, "FORWARDED")
    /\ \E value \in Results : returned' = [returned EXCEPT ![RequestOf(w)] = value]
    /\ Goto(w, "RETURNED")
    /\ UNCHANGED <<ledger, queue, sequence, forwarded, world>>

\* Mutation: the outcome column stays NULL.
ConsumeUnbound(w) ==
    /\ At(w, "RETURNED") /\ Consume(RequestOf(w), NoResult)
    /\ Goto(w, "CONSUMED")
    /\ UNCHANGED <<queue, sequence, destination, world>>

ConsumeRequest(w) ==
    /\ At(w, "RETURNED") /\ Consume(RequestOf(w), returned[RequestOf(w)])
    /\ Goto(w, "CONSUMED")
    /\ UNCHANGED <<queue, sequence, destination, world>>

\* The second authenticated_completion reads the durable outcome.
Authenticate(w) ==
    /\ At(w, "CONSUMED") /\ attempt[RequestOf(w)] = "CONSUMED"
    /\ Goto(w, "COMPLETING")
    /\ UNCHANGED <<ledger, queue, sequence, destination, world>>

\* Mutation: the head is deleted without comparing it.
CompleteAnyHead(w) ==
    /\ At(w, "COMPLETING") /\ queue # <<>>
    /\ queue' = Tail(queue)
    /\ Return(w)
    /\ UNCHANGED <<ledger, sequence, destination, world>>

\* complete_head: a compare-and-delete of the head; raises if it changed.
CompleteHead(w) ==
    /\ At(w, "COMPLETING")
    /\ queue' = IF queue # <<>> /\ Head(queue) = worker[w].head THEN Tail(queue) ELSE queue
    /\ Return(w)
    /\ UNCHANGED <<ledger, sequence, destination, world>>

\* A check fails, a call raises, the lease expires or the worker dies.  Nothing
\* durable is undone.
Fail(w) ==
    /\ ~At(w, "IDLE")
    /\ Return(w)
    /\ UNCHANGED <<ledger, queue, sequence, destination, world>>

\* Authority and dependencies of a request lapse or return, capacity changes.
Change ==
    /\ changes < MaxChanges /\ changes' = changes + 1
    /\ \/ \E r \in Requests : current' \in {current \ {r}, current \cup {r}}
          /\ UNCHANGED capacity
       \/ capacity' = ~capacity /\ UNCHANGED current
    /\ UNCHANGED <<ledger, queue, sequence, worker, destination>>

WorkerStep(w) ==
    \/ Snapshot(w) \/ Decide(w) \/ ReadEvidence(w) \/ Evaluate(w) \/ ReserveRequest(w)
    \/ Reevaluate(w) \/ Forward(w) \/ Returned(w) \/ ConsumeRequest(w)
    \/ Authenticate(w) \/ CompleteHead(w) \/ Fail(w)

Next ==
    \/ \E t \in Tasks : Enqueue(t)
    \/ \E w \in Workers : WorkerStep(w)
    \/ Change

Spec == Init /\ [][Next]_vars

-----------------------------------------------------------------------------
(***************************************************************************)
(* Properties.                                                             *)
(***************************************************************************)

\* However workers race, fail and retry, and however often the request is
\* queued, its destination is given it at most once, and only under its
\* durable reservation ("it never retries", dispatch_once).
OneForward ==
    \A r \in Requests :
        forwarded[r] <= IF attempt[r] \in {"RESERVED", "CONSUMED"} THEN 1 ELSE 0

\* What a consumption binds is what the destination returned for the request.
OutcomeReturned ==
    \A r \in Requests : attempt[r] = "CONSUMED" =>
        forwarded[r] = 1 /\ result[r] = returned[r] /\ result[r] # NoResult

\* Work leaves the queue only at its head and only once its request is consumed
\* ("Authenticated consumption permits metadata cleanup").
OnlyConsumedLeaves ==
    [][Len(queue') < Len(queue) =>
          /\ attempt[Request[Head(queue).task]] = "CONSUMED"
          /\ queue' = Tail(queue)]_queue
==============================================================================
