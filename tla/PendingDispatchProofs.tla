------------------------- MODULE PendingDispatchProofs -------------------------
(***************************************************************************)
(* Proofs about PendingDispatch for any tasks, requests, workers, results    *)
(* and limits.                                                             *)
(*                                                                         *)
(* OneForward is not inductive: the step that forwards relies on what        *)
(* ReserveRequest found several transactions earlier.  Owned says what stays  *)
(* true in between: a worker between its reservation and its consumption is   *)
(* the only one there for its request, the attempt is still reserved, and the *)
(* destination has been given the request exactly when that worker gave it.  *)
(***************************************************************************)
EXTENDS PendingDispatch, TLAPS

\* From the reservation to the consumption a worker owns its request.
OwningPhases == {"RESERVED", "FRESH", "FORWARDED", "RETURNED"}
Owning(w) == worker[w].phase \in OwningPhases

\* What an owner knows of its request.
Owned ==
    \A w \in Workers : Owning(w) =>
        /\ attempt[RequestOf(w)] = "RESERVED"
        /\ forwarded[RequestOf(w)] = IF worker[w].phase \in {"RESERVED", "FRESH"} THEN 0 ELSE 1
        /\ worker[w].phase = "RETURNED" => returned[RequestOf(w)] \in Results

\* Two workers never own one request.
OwnedOnce ==
    \A v, w \in Workers : Owning(v) /\ Owning(w) /\ RequestOf(v) = RequestOf(w) => v = w

\* A worker that completes the head has seen the consumption.
Witnessed ==
    \A w \in Workers : worker[w].phase \in {"CONSUMED", "COMPLETING"} =>
        attempt[RequestOf(w)] = "CONSUMED"

QueueInv == TypeOK /\ Owned /\ OwnedOnce /\ Witnessed /\ OneForward /\ OutcomeReturned

-----------------------------------------------------------------------------
(***************************************************************************)
(* Types.                                                                  *)
(***************************************************************************)

\* A worker inside a call has a head of the queue, hence a request.
LEMMA HeadType ==
  ASSUME TypeOK, NEW w \in Workers, worker[w].phase # "IDLE"
  PROVE  worker[w].head \in Entries /\ RequestOf(w) \in Requests
<1>1. worker[w] \in Calls /\ worker[w] # Idle
  BY DEF TypeOK, Idle
<1>2. worker[w].head \in Entries
  BY <1>1 DEF Calls
<1> QED BY <1>2, PendingAssumption DEF RequestOf, Entries

\* A worker that enters a phase keeps its head; the others do not move.
LEMMA GotoType ==
  ASSUME TypeOK, NEW w \in Workers, worker[w].phase # "IDLE",
         NEW phase \in Phases \ {"IDLE"}, Goto(w, phase)
  PROVE  /\ worker' \in [Workers -> Calls]
         /\ worker'[w].phase = phase /\ worker'[w].head = worker[w].head
         /\ \A v \in Workers : v # w => worker'[v] = worker[v]
<1> DEFINE c == [worker[w] EXCEPT !.phase = phase]
<1>1. worker' = [worker EXCEPT ![w] = c] /\ worker \in [Workers -> Calls]
  BY DEF Goto, TypeOK
<1>2. worker[w] \in [phase : Phases \ {"IDLE"}, head : Entries]
  BY DEF TypeOK, Calls, Idle
<1>3. c \in Calls /\ c.phase = phase /\ c.head = worker[w].head
  BY <1>2 DEF Calls
<1> HIDE DEF c
<1> QED BY <1>1, <1>3

\* A worker that returns is idle; the others do not move.
LEMMA ReturnType ==
  ASSUME TypeOK, NEW w \in Workers, Return(w)
  PROVE  /\ worker' \in [Workers -> Calls] /\ worker'[w].phase = "IDLE"
         /\ \A v \in Workers : v # w => worker'[v] = worker[v]
BY DEF TypeOK, Return, Calls, Idle

\* Every transaction, failure and change keeps the types and the queue limit.
LEMMA TypeStep == TypeOK /\ [Next]_vars => TypeOK'
<1> SUFFICES ASSUME TypeOK, [Next]_vars PROVE TypeOK'
  OBVIOUS
<1> USE PendingAssumption DEF world, destination, ledger
<1>0. /\ queue \in Seq(Entries) /\ Len(queue) \in Nat /\ worker \in [Workers -> Calls]
      /\ sequence \in Nat
  BY DEF TypeOK
<1>1. ASSUME NEW t \in Tasks, Enqueue(t) PROVE TypeOK'
  <2> DEFINE e == [position |-> sequence + 1, task |-> t]
  <2>1. e \in Entries
    BY <1>0, <1>1 DEF Enqueue, Entries
  <2>2. /\ queue' = Append(queue, e) /\ Len(queue) < QueueLimit
        /\ sequence' = sequence + 1 /\ sequence < MaxPosition
    BY <1>1 DEF Enqueue
  <2> HIDE DEF e
  <2>3. queue' \in Seq(Entries) /\ Len(queue') <= QueueLimit
    BY <1>0, <2>1, <2>2
  <2>4. sequence' \in 0..MaxPosition
    BY <1>0, <2>2
  <2> QED BY <1>1, <2>3, <2>4 DEF Enqueue, TypeOK
<1>2. ASSUME NEW w \in Workers, WorkerStep(w) PROVE TypeOK'
  <2>1. CASE Snapshot(w)
    <3>1. Head(queue) \in Entries
      BY <1>0, <2>1 DEF Snapshot
    <3>2. [phase |-> "SNAPSHOT", head |-> Head(queue)] \in Calls
      BY <3>1 DEF Calls, Phases
    <3> QED BY <2>1, <3>2 DEF Snapshot, TypeOK
  <2>2. ASSUME ~Snapshot(w) PROVE worker' \in [Workers -> Calls]
    <3>1. worker[w].phase # "IDLE"
      BY <1>2, <2>2 DEF WorkerStep, At, Decide, ReadEvidence, Evaluate, ReserveRequest,
         Reevaluate, Forward, Returned, ConsumeRequest, Authenticate, CompleteHead, Fail
    <3>2. Return(w) \/ \E phase \in Phases \ {"IDLE"} : Goto(w, phase)
      BY <1>2, <2>2 DEF WorkerStep, Decide, ReadEvidence, Evaluate, ReserveRequest,
         Reevaluate, Forward, Returned, ConsumeRequest, Authenticate, CompleteHead, Fail, Phases
    <3> QED BY <3>1, <3>2, GotoType, ReturnType
  <2>3. CASE Decide(w) \/ ReadEvidence(w) \/ Evaluate(w) \/ Reevaluate(w) \/ Authenticate(w) \/ Fail(w)
    <3>1. ~Snapshot(w)
      BY <2>3 DEF Snapshot, At, Decide, ReadEvidence, Evaluate, Reevaluate, Authenticate, Fail
    <3> QED BY <2>2, <2>3, <3>1
            DEF Decide, ReadEvidence, Evaluate, Reevaluate, Authenticate, Fail, TypeOK
  <2>4. CASE ReserveRequest(w)
    <3>1. ~Snapshot(w) /\ worker[w].phase # "IDLE"
      BY <2>4 DEF Snapshot, At, ReserveRequest
    <3> QED BY <2>2, <2>4, <3>1, HeadType DEF ReserveRequest, Reserve, TypeOK, AttemptStates
  <2>5. CASE Forward(w)
    <3>1. ~Snapshot(w) /\ worker[w].phase # "IDLE"
      BY <2>5 DEF Snapshot, At, Forward
    <3> QED BY <2>2, <2>5, <3>1, HeadType DEF Forward, TypeOK
  <2>6. CASE Returned(w)
    <3>1. ~Snapshot(w) /\ worker[w].phase # "IDLE"
      BY <2>6 DEF Snapshot, At, Returned
    <3> QED BY <2>2, <2>6, <3>1, HeadType DEF Returned, TypeOK
  <2>7. CASE ConsumeRequest(w)
    <3>1. ~Snapshot(w) /\ worker[w].phase # "IDLE"
      BY <2>7 DEF Snapshot, At, ConsumeRequest
    <3> QED BY <2>2, <2>7, <3>1, HeadType DEF ConsumeRequest, Consume, TypeOK, AttemptStates
  <2>8. CASE CompleteHead(w)
    <3>1. ~Snapshot(w)
      BY <2>8 DEF Snapshot, At, CompleteHead
    <3>2. queue # <<>> => Tail(queue) \in Seq(Entries) /\ Len(Tail(queue)) <= Len(queue)
      BY <1>0
    <3>3. queue' \in Seq(Entries) /\ Len(queue') <= QueueLimit
      BY <1>0, <2>8, <3>2 DEF CompleteHead, TypeOK
    <3> QED BY <2>2, <2>8, <3>1, <3>3 DEF CompleteHead, TypeOK
  <2> QED BY <1>2, <2>1, <2>3, <2>4, <2>5, <2>6, <2>7, <2>8 DEF WorkerStep
<1>3. CASE Change
  <2>1. current' \subseteq Requests /\ capacity' \in BOOLEAN
    BY <1>3 DEF Change, TypeOK
  <2> QED BY <1>3, <2>1 DEF Change, TypeOK
<1>4. CASE UNCHANGED vars BY <1>4 DEF vars, TypeOK
<1> QED BY <1>1, <1>2, <1>3, <1>4 DEF Next

-----------------------------------------------------------------------------
(***************************************************************************)
(* The inductive invariant.                                                *)
(***************************************************************************)

Promise == Owned /\ OwnedOnce /\ Witnessed /\ OneForward /\ OutcomeReturned

\* A step that leaves the ledger and the destination alone keeps the promises if
\* the worker that takes it comes to own or to witness nothing.
LEMMA QuietStep ==
  ASSUME QueueInv, NEW w \in Workers, UNCHANGED <<ledger, destination>>,
         \A v \in Workers : v # w => worker'[v] = worker[v],
         Owning(w)' => /\ Owning(w) /\ RequestOf(w)' = RequestOf(w)
                       /\ \/ worker'[w].phase = worker[w].phase
                          \/ {worker[w].phase, worker'[w].phase} \subseteq {"RESERVED", "FRESH"},
         worker'[w].phase \in {"CONSUMED", "COMPLETING"} => attempt[RequestOf(w)'] = "CONSUMED"
  PROVE  Promise'
<1> USE DEF ledger, destination
<1>1. \A v \in Workers : v # w => RequestOf(v)' = RequestOf(v) /\ Owning(v)' = Owning(v)
  BY DEF RequestOf, Owning
<1>2. Owned'
  BY <1>1 DEF QueueInv, Owned, Owning, OwningPhases
<1>3. OwnedOnce'
  BY <1>1 DEF QueueInv, OwnedOnce
<1>4. Witnessed'
  BY <1>1 DEF QueueInv, Witnessed
<1>5. (OneForward /\ OutcomeReturned)'
  BY DEF QueueInv, OneForward, OutcomeReturned
<1> QED BY <1>2, <1>3, <1>4, <1>5 DEF Promise

\* The one reservation: nobody owned the request before, the worker does now.
LEMMA ReserveStep ==
  ASSUME QueueInv, NEW w \in Workers, ReserveRequest(w)
  PROVE  Promise'
<1> DEFINE r == RequestOf(w)
<1>1. worker[w].phase = "EVALUATED" /\ r \in Requests /\ TypeOK
  BY HeadType DEF ReserveRequest, At, QueueInv
<1>2. /\ worker'[w].phase = "RESERVED" /\ worker'[w].head = worker[w].head
      /\ \A v \in Workers : v # w => worker'[v] = worker[v]
  BY <1>1, GotoType DEF ReserveRequest, Phases
<1>3. \A v \in Workers : RequestOf(v)' = RequestOf(v) /\ (v # w => Owning(v)' = Owning(v))
  BY <1>2 DEF RequestOf, Owning
<1>4. /\ attempt[r] = "NONE" /\ attempt' = [attempt EXCEPT ![r] = "RESERVED"]
      /\ UNCHANGED <<result, forwarded, returned>>
  BY <1>1 DEF ReserveRequest, Reserve, destination, TypeOK
<1>5. attempt'[r] = "RESERVED" /\ \A s \in Requests : s # r => attempt'[s] = attempt[s]
  BY <1>1, <1>4 DEF TypeOK
<1>6. forwarded[r] = 0
  <2>1. forwarded[r] \in Nat
    BY <1>1 DEF TypeOK
  <2>2. forwarded[r] <= 0
    BY <1>1, <1>4 DEF QueueInv, OneForward
  <2> QED BY <2>1, <2>2
<1>7. \A v \in Workers : Owning(v) => RequestOf(v) # r /\ RequestOf(v) \in Requests
  BY <1>1, <1>4, HeadType DEF QueueInv, Owned, Owning, OwningPhases
<1>8. \A v \in Workers : worker[v].phase \in {"CONSUMED", "COMPLETING"} =>
          RequestOf(v) # r /\ RequestOf(v) \in Requests
  BY <1>1, <1>4, HeadType DEF QueueInv, Witnessed
<1> HIDE DEF r
<1>9. Owned'
  <2> SUFFICES ASSUME NEW v \in Workers, Owning(v)'
               PROVE  /\ attempt'[RequestOf(v)'] = "RESERVED"
                      /\ forwarded'[RequestOf(v)'] =
                            IF worker'[v].phase \in {"RESERVED", "FRESH"} THEN 0 ELSE 1
                      /\ worker'[v].phase = "RETURNED" => returned'[RequestOf(v)'] \in Results
    BY DEF Owned
  <2>1. CASE v = w BY <1>2, <1>3, <1>4, <1>5, <1>6, <2>1 DEF r
  <2>2. CASE v # w BY <1>2, <1>3, <1>4, <1>5, <1>7, <2>2 DEF QueueInv, Owned
  <2> QED BY <2>1, <2>2
<1>10. OwnedOnce'
  BY <1>2, <1>3, <1>7 DEF QueueInv, OwnedOnce, r
<1>11. Witnessed'
  BY <1>2, <1>3, <1>5, <1>8 DEF QueueInv, Witnessed
<1>12. OneForward'
  BY <1>4, <1>5, <1>6 DEF QueueInv, OneForward
<1>13. OutcomeReturned'
  BY <1>4, <1>5 DEF QueueInv, OutcomeReturned
<1> QED BY <1>9, <1>10, <1>11, <1>12, <1>13 DEF Promise

\* The one forward: the destination had not been given the request.
LEMMA ForwardStep ==
  ASSUME QueueInv, NEW w \in Workers, Forward(w)
  PROVE  Promise'
<1> DEFINE r == RequestOf(w)
<1>1. worker[w].phase = "FRESH" /\ r \in Requests /\ TypeOK /\ Owning(w)
  BY HeadType DEF Forward, At, QueueInv, Owning, OwningPhases
<1>2. /\ worker'[w].phase = "FORWARDED" /\ worker'[w].head = worker[w].head
      /\ \A v \in Workers : v # w => worker'[v] = worker[v]
  BY <1>1, GotoType DEF Forward, Phases
<1>3. \A v \in Workers : RequestOf(v)' = RequestOf(v) /\ (v # w => Owning(v)' = Owning(v))
  BY <1>2 DEF RequestOf, Owning
<1>4. attempt[r] = "RESERVED" /\ forwarded[r] = 0
  BY <1>1 DEF QueueInv, Owned
<1>5. /\ forwarded' = [forwarded EXCEPT ![r] = @ + 1]
      /\ UNCHANGED <<attempt, result, returned>>
  BY DEF Forward, ledger
<1>6. forwarded'[r] = 1 /\ \A s \in Requests : s # r => forwarded'[s] = forwarded[s]
  BY <1>1, <1>4, <1>5 DEF TypeOK
<1>7. \A v \in Workers : Owning(v) /\ v # w => RequestOf(v) # r /\ RequestOf(v) \in Requests
  BY <1>1, HeadType DEF QueueInv, OwnedOnce, Owning, OwningPhases
<1> HIDE DEF r
<1>8. Owned'
  <2> SUFFICES ASSUME NEW v \in Workers, Owning(v)'
               PROVE  /\ attempt'[RequestOf(v)'] = "RESERVED"
                      /\ forwarded'[RequestOf(v)'] =
                            IF worker'[v].phase \in {"RESERVED", "FRESH"} THEN 0 ELSE 1
                      /\ worker'[v].phase = "RETURNED" => returned'[RequestOf(v)'] \in Results
    BY DEF Owned
  <2>1. CASE v = w BY <1>2, <1>3, <1>4, <1>5, <1>6, <2>1 DEF r
  <2>2. CASE v # w BY <1>2, <1>3, <1>5, <1>6, <1>7, <2>2 DEF QueueInv, Owned
  <2> QED BY <2>1, <2>2
<1>9. OwnedOnce'
  BY <1>1, <1>3 DEF QueueInv, OwnedOnce
<1>10. Witnessed'
  BY <1>2, <1>3, <1>5 DEF QueueInv, Witnessed
<1>11. OneForward'
  BY <1>4, <1>5, <1>6 DEF QueueInv, OneForward
<1>12. OutcomeReturned'
  BY <1>4, <1>5, <1>6 DEF QueueInv, OutcomeReturned
<1> QED BY <1>8, <1>9, <1>10, <1>11, <1>12 DEF Promise

\* What the destination answers to the request goes to its only owner.
LEMMA ReturnedStep ==
  ASSUME QueueInv, NEW w \in Workers, Returned(w)
  PROVE  Promise'
<1> DEFINE r == RequestOf(w)
<1>1. worker[w].phase = "FORWARDED" /\ r \in Requests /\ TypeOK /\ Owning(w)
  BY HeadType DEF Returned, At, QueueInv, Owning, OwningPhases
<1>2. /\ worker'[w].phase = "RETURNED" /\ worker'[w].head = worker[w].head
      /\ \A v \in Workers : v # w => worker'[v] = worker[v]
  BY <1>1, GotoType DEF Returned, Phases
<1>3. \A v \in Workers : RequestOf(v)' = RequestOf(v) /\ (v # w => Owning(v)' = Owning(v))
  BY <1>2 DEF RequestOf, Owning
<1>4. attempt[r] = "RESERVED" /\ forwarded[r] = 1
  BY <1>1 DEF QueueInv, Owned
<1>5. UNCHANGED <<attempt, result, forwarded>>
  BY DEF Returned, ledger
<1>6. returned'[r] \in Results /\ \A s \in Requests : s # r => returned'[s] = returned[s]
  BY <1>1 DEF Returned, TypeOK
<1>7. \A v \in Workers : Owning(v) /\ v # w => RequestOf(v) # r /\ RequestOf(v) \in Requests
  BY <1>1, HeadType DEF QueueInv, OwnedOnce, Owning, OwningPhases
<1> HIDE DEF r
<1>8. Owned'
  <2> SUFFICES ASSUME NEW v \in Workers, Owning(v)'
               PROVE  /\ attempt'[RequestOf(v)'] = "RESERVED"
                      /\ forwarded'[RequestOf(v)'] =
                            IF worker'[v].phase \in {"RESERVED", "FRESH"} THEN 0 ELSE 1
                      /\ worker'[v].phase = "RETURNED" => returned'[RequestOf(v)'] \in Results
    BY DEF Owned
  <2>1. CASE v = w BY <1>2, <1>3, <1>4, <1>5, <1>6, <2>1 DEF r
  <2>2. CASE v # w BY <1>2, <1>3, <1>5, <1>6, <1>7, <2>2 DEF QueueInv, Owned
  <2> QED BY <2>1, <2>2
<1>9. OwnedOnce'
  BY <1>1, <1>3 DEF QueueInv, OwnedOnce
<1>10. Witnessed'
  BY <1>2, <1>3, <1>5 DEF QueueInv, Witnessed
<1>11. OneForward'
  BY <1>5 DEF QueueInv, OneForward
<1>12. OutcomeReturned'
  BY <1>4, <1>5, <1>6 DEF QueueInv, OutcomeReturned
<1> QED BY <1>8, <1>9, <1>10, <1>11, <1>12 DEF Promise

\* The consumption binds what the owner was answered, and ends the ownership.
LEMMA ConsumeStep ==
  ASSUME QueueInv, NEW w \in Workers, ConsumeRequest(w)
  PROVE  Promise'
<1> DEFINE r == RequestOf(w)
<1>1. worker[w].phase = "RETURNED" /\ r \in Requests /\ TypeOK /\ Owning(w)
  BY HeadType DEF ConsumeRequest, At, QueueInv, Owning, OwningPhases
<1>2. /\ worker'[w].phase = "CONSUMED" /\ worker'[w].head = worker[w].head
      /\ \A v \in Workers : v # w => worker'[v] = worker[v]
  BY <1>1, GotoType DEF ConsumeRequest, Phases
<1>3. \A v \in Workers : RequestOf(v)' = RequestOf(v) /\ (v # w => Owning(v)' = Owning(v))
  BY <1>2 DEF RequestOf, Owning
<1>4. forwarded[r] = 1 /\ returned[r] \in Results
  BY <1>1 DEF QueueInv, Owned
<1>5. UNCHANGED <<forwarded, returned>>
  BY DEF ConsumeRequest, destination
<1>6. /\ attempt'[r] = "CONSUMED" /\ result'[r] = returned[r]
      /\ \A s \in Requests : s # r => attempt'[s] = attempt[s] /\ result'[s] = result[s]
  BY <1>1 DEF ConsumeRequest, Consume, TypeOK
<1>7. \A v \in Workers : Owning(v) /\ v # w => RequestOf(v) # r /\ RequestOf(v) \in Requests
  BY <1>1, HeadType DEF QueueInv, OwnedOnce, Owning, OwningPhases
<1>8. ~Owning(w)'
  BY <1>2 DEF Owning, OwningPhases
<1>9. \A v \in Workers : worker[v].phase \in {"CONSUMED", "COMPLETING"} => RequestOf(v) \in Requests
  BY <1>1, HeadType
<1> HIDE DEF r
<1>10. Owned'
  BY <1>2, <1>3, <1>5, <1>6, <1>7, <1>8 DEF QueueInv, Owned
<1>11. OwnedOnce'
  BY <1>1, <1>3, <1>8 DEF QueueInv, OwnedOnce
<1>12. Witnessed'
  BY <1>2, <1>3, <1>6, <1>9 DEF QueueInv, Witnessed, r
<1>13. OneForward'
  BY <1>4, <1>5, <1>6 DEF QueueInv, OneForward
<1>14. OutcomeReturned'
  BY <1>4, <1>5, <1>6, PendingAssumption DEF QueueInv, OutcomeReturned
<1> QED BY <1>10, <1>11, <1>12, <1>13, <1>14 DEF Promise

\* The promises hold of an empty queue.
LEMMA InitOK == Init => QueueInv
<1> SUFFICES ASSUME Init PROVE QueueInv
  OBVIOUS
<1>1. TypeOK
  BY PendingAssumption DEF Init, LedgerInit, TypeOK, AttemptStates, Calls, Idle
<1>2. \A w \in Workers : worker[w].phase = "IDLE"
  BY DEF Init, Idle
<1>3. Owned /\ OwnedOnce /\ Witnessed
  BY <1>2 DEF Owned, OwnedOnce, Witnessed, Owning, OwningPhases
<1>4. OneForward /\ OutcomeReturned
  BY DEF Init, LedgerInit, OneForward, OutcomeReturned
<1> QED BY <1>1, <1>3, <1>4 DEF QueueInv

\* Every step of every worker keeps the promises.
LEMMA PromiseStep == QueueInv /\ [Next]_vars => Promise'
<1> SUFFICES ASSUME QueueInv, [Next]_vars PROVE Promise'
  OBVIOUS
<1>0. TypeOK
  BY DEF QueueInv
<1> USE DEF world
<1>1. CASE UNCHANGED <<ledger, worker, destination>>
  BY <1>1 DEF QueueInv, Promise, Owned, OwnedOnce, Witnessed, OneForward, OutcomeReturned, Owning,
              RequestOf, ledger, destination
<1>2. ASSUME NEW w \in Workers, WorkerStep(w) PROVE Promise'
  <2>1. CASE Snapshot(w)
    <3>1. /\ worker'[w].phase = "SNAPSHOT" /\ UNCHANGED <<ledger, destination>>
          /\ \A v \in Workers : v # w => worker'[v] = worker[v]
      BY <1>0, <2>1 DEF Snapshot, TypeOK
    <3> QED BY <3>1, QuietStep DEF Owning, OwningPhases
  <2>2. CASE Return(w) /\ UNCHANGED <<ledger, destination>>
    <3>1. worker'[w].phase = "IDLE" /\ \A v \in Workers : v # w => worker'[v] = worker[v]
      BY <1>0, <2>2, ReturnType
    <3> QED BY <2>2, <3>1, QuietStep DEF Owning, OwningPhases
  <2>3. ASSUME NEW phase \in {"DECIDED", "CLEAR", "EVALUATED"}, Goto(w, phase),
               worker[w].phase # "IDLE", UNCHANGED <<ledger, destination>>
        PROVE  Promise'
    <3>1. worker'[w].phase = phase /\ \A v \in Workers : v # w => worker'[v] = worker[v]
      BY <1>0, <2>3, GotoType DEF Phases
    <3> QED BY <2>3, <3>1, QuietStep DEF Owning, OwningPhases
  <2>4. ASSUME Goto(w, "COMPLETING"), worker[w].phase # "IDLE", UNCHANGED <<ledger, destination>>,
               attempt[RequestOf(w)] = "CONSUMED"
        PROVE  Promise'
    <3>1. /\ worker'[w].phase = "COMPLETING" /\ worker'[w].head = worker[w].head
          /\ \A v \in Workers : v # w => worker'[v] = worker[v]
      BY <1>0, <2>4, GotoType DEF Phases
    <3>2. RequestOf(w)' = RequestOf(w)
      BY <3>1 DEF RequestOf
    <3> QED BY <2>4, <3>1, <3>2, QuietStep DEF Owning, OwningPhases
  <2>5. CASE Decide(w) BY <2>3, <2>5 DEF Decide, At
  <2>6. CASE ReadEvidence(w)
    <3>1. worker[w].phase = "DECIDED" /\ RequestOf(w) \in Requests
      BY <1>0, <2>6, HeadType DEF ReadEvidence, At
    <3>2. attempt[RequestOf(w)] \in {"NONE", "RESERVED", "CONSUMED"}
      BY <1>0, <3>1 DEF TypeOK, AttemptStates
    <3> QED BY <2>2, <2>3, <2>4, <2>6, <3>1, <3>2 DEF ReadEvidence
  <2>7. CASE Evaluate(w) BY <2>2, <2>3, <2>7 DEF Evaluate, At
  <2>8. CASE ReserveRequest(w) BY <2>8, ReserveStep
  <2>9. CASE Reevaluate(w)
    <3>1. worker[w].phase = "RESERVED" /\ Goto(w, "FRESH") /\ UNCHANGED <<ledger, destination>>
      BY <2>9 DEF Reevaluate, At
    <3>2. /\ worker'[w].phase = "FRESH" /\ worker'[w].head = worker[w].head
          /\ \A v \in Workers : v # w => worker'[v] = worker[v]
      BY <1>0, <3>1, GotoType DEF Phases
    <3>3. RequestOf(w)' = RequestOf(w)
      BY <3>2 DEF RequestOf
    <3> QED BY <3>1, <3>2, <3>3, QuietStep DEF Owning, OwningPhases
  <2>10. CASE Forward(w) BY <2>10, ForwardStep
  <2>11. CASE Returned(w) BY <2>11, ReturnedStep
  <2>12. CASE ConsumeRequest(w) BY <2>12, ConsumeStep
  <2>13. CASE Authenticate(w) BY <2>4, <2>13 DEF Authenticate, At
  <2>14. CASE CompleteHead(w) BY <2>2, <2>14 DEF CompleteHead
  <2>15. CASE Fail(w) BY <2>2, <2>15 DEF Fail
  <2> QED BY <1>2, <2>1, <2>5, <2>6, <2>7, <2>8, <2>9, <2>10, <2>11, <2>12, <2>13, <2>14, <2>15
          DEF WorkerStep
<1> QED BY <1>1, <1>2 DEF Next, Enqueue, Change, vars, ledger, destination

-----------------------------------------------------------------------------
(***************************************************************************)
(* The theorems.                                                           *)
(***************************************************************************)

\* The inductive invariant holds throughout: types, ownership of requests,
\* witnessed consumptions and what the destination was given.
THEOREM QueueInductive == Spec => []QueueInv
<1>1. QueueInv /\ [Next]_vars => QueueInv'
  BY TypeStep, PromiseStep DEF QueueInv, Promise
<1> QED BY InitOK, <1>1, PTL DEF Spec

\* A destination is given a request at most once and only under its durable
\* reservation, for any number of workers that race, fail and retry (dispatch_once).
THEOREM ForwardedOnce == Spec => []OneForward
<1>1. QueueInv => OneForward
  BY DEF QueueInv
<1> QED BY QueueInductive, <1>1, PTL

\* A consumption binds what the destination returned for the request, whoever
\* dispatched it (consume_request of a dispatched request).
THEOREM OutcomeAlwaysReturned == Spec => []OutcomeReturned
<1>1. QueueInv => OutcomeReturned
  BY DEF QueueInv
<1> QED BY QueueInductive, <1>1, PTL

\* Work leaves the queue at its head and only once its request is consumed,
\* whatever snapshot the worker that removes it was working from (complete_head).
THEOREM ConsumedLeaves == Spec => OnlyConsumedLeaves
<1> DEFINE Leaves == Len(queue') < Len(queue) =>
                       /\ attempt[Request[Head(queue).task]] = "CONSUMED"
                       /\ queue' = Tail(queue)
<1>1. QueueInv /\ [Next]_vars => [Leaves]_queue
  <2> SUFFICES ASSUME QueueInv, [Next]_vars, Len(queue') < Len(queue)
               PROVE  attempt[Request[Head(queue).task]] = "CONSUMED" /\ queue' = Tail(queue)
    OBVIOUS
  <2>0. queue \in Seq(Entries) /\ Len(queue) \in Nat /\ TypeOK
    BY DEF QueueInv, TypeOK
  <2>1. ASSUME NEW t \in Tasks PROVE ~Enqueue(t)
    <3> SUFFICES ASSUME Enqueue(t) PROVE FALSE
      OBVIOUS
    <3>1. sequence + 1 \in 1..MaxPosition
      BY <2>0, PendingAssumption DEF Enqueue, TypeOK
    <3>2. [position |-> sequence + 1, task |-> t] \in Entries
      BY <3>1 DEF Entries
    <3>3. Len(queue') = Len(queue) + 1
      BY <2>0, <3>2 DEF Enqueue
    <3> QED BY <2>0, <3>3
  <2>2. queue' # queue
    BY <2>0
  <2>3. PICK w \in Workers : CompleteHead(w)
    BY <2>1, <2>2 DEF Next, Change, vars, WorkerStep, Snapshot, Decide, ReadEvidence, Evaluate,
       ReserveRequest, Reevaluate, Forward, Returned, ConsumeRequest, Authenticate, Fail
  <2>4. queue # <<>> /\ Head(queue) = worker[w].head /\ queue' = Tail(queue)
    BY <2>2, <2>3 DEF CompleteHead
  <2>5. attempt[RequestOf(w)] = "CONSUMED"
    BY <2>3 DEF CompleteHead, At, QueueInv, Witnessed
  <2> QED BY <2>4, <2>5 DEF RequestOf
<1> QED BY QueueInductive, <1>1, PTL DEF Spec, OnlyConsumedLeaves

\* The drained queue implements the ledger of one-shot attempts: its workers
\* ask the replay store for nothing the store's own callers may not.
THEOREM QueueUsesLedger == Spec => LedgerSpec
<1>1. Init => LedgerInit
  BY DEF Init
<1>2. QueueInv /\ [Next]_vars => [LedgerNext]_ledger
  <2> SUFFICES ASSUME QueueInv, [Next]_vars, ~UNCHANGED ledger PROVE LedgerNext
    OBVIOUS
  <2>1. PICK w \in Workers : ReserveRequest(w) \/ ConsumeRequest(w)
    BY DEF Next, Enqueue, Change, vars, ledger, WorkerStep, Snapshot, Decide, ReadEvidence,
       Evaluate, Reevaluate, Forward, Returned, Authenticate, CompleteHead, Fail
  <2>2. RequestOf(w) \in Requests /\ returned[RequestOf(w)] \in Results \cup {NoResult}
    BY <2>1, HeadType DEF ReserveRequest, ConsumeRequest, At, QueueInv, TypeOK
  <2> QED BY <2>1, <2>2 DEF ReserveRequest, ConsumeRequest, LedgerNext
<1> QED BY QueueInductive, <1>1, <1>2, PTL DEF Spec, LedgerSpec
==============================================================================
