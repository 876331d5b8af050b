--------------------------- MODULE ReplayStoreProofs ---------------------------
(***************************************************************************)
(* Proofs about ReplayStore for every set of requests and owners, every     *)
(* capacity, row limit and lease.                                          *)
(*                                                                         *)
(* HistoryAuthentic is not inductive: the step that commits relies on what  *)
(* the step that staged the transaction checked.  IInv therefore says what  *)
(* is true of an owner between the two: it holds the lock (LockHeld), so the *)
(* head it compared is still the head (StagedValid), and nobody else holds   *)
(* the conversation attempt it spent (HoldersSound).                         *)
(***************************************************************************)
EXTENDS ReplayStore, FiniteSetTheorems, TLAPS

InTransaction == {"STAGED", "CHECKED"}

\* What the caller of an operation guarantees until the operation returns.
Promised(c) ==
    /\ c.op \in WriteOps => 1 < c.at /\ c.at <= now
    /\ c.op = "INITIALIZE" => Kind[c.r] = "BARE" /\ c.at < c.expires
    /\ c.op = "RESERVE_REQUEST" =>
         IF Kind[c.r] = "CONVERSATION_V2" THEN c.expires = 0 ELSE c.at < c.expires
    /\ c.op = "RESERVE" => Kind[c.r] = "BARE"
    /\ c.op = "CONSUME" => (c.value # NoResult) = HasBinding(c.r)

\* An owner holds attempts and is inside an operation only while it is open.
CallOK(p) ==
    LET c == call[p] IN
    /\ c.phase = "IDLE" => c = Idle
    /\ conn[p] # "OPEN" => c = Idle /\ capability[p] = {}
    /\ conn[p] = "OPEN" => context[p] \in Contexts
    /\ c.phase \in {"STAGED", "CHECKED", "COMMITTED"} => c.op \in WriteOps
    /\ c.phase = "READING" => c.op \in ReadOps
    /\ Promised(c)

CallsOK == 2 <= now /\ \A p \in Owners : CallOK(p)

\* Exactly the owner inside a write transaction holds the lock.
LockHeld == \A p \in Owners : (call[p].phase \in InTransaction) = (lock = p)

\* The checks made under the lock still hold when the transaction commits.
StagedOK(p) ==
    LET c == call[p] IN
    /\ HeadMatches(c) /\ Timely(c) /\ RouteOpen(c)
    /\ Cardinality(Rows(AfterInsert(c))) < MaxRows
    /\ c.op = "CONSUME" /\ Kind[c.r] \in Conversation => bound[c.r] = context[p]

StagedValid == \A p \in Owners : lock = p => StagedOK(p)

\* p may consume r, or will be allowed to when the call it is in returns.
Holds(p, r) ==
    \/ r \in capability[p]
    \/ /\ call[p].phase = "COMMITTED" /\ call[p].op = "RESERVE_REQUEST"
       /\ call[p].r = r /\ Kind[r] = "CONVERSATION_V2"

\* p is consuming the current conversation r and has spent its capability.
Consuming(p, r) ==
    lock = p /\ call[p].op = "CONSUME" /\ call[p].r = r

HoldersSound ==
    \A p \in Owners, r \in Requests : Holds(p, r) =>
        /\ Kind[r] = "CONVERSATION_V2" /\ state[r] = "RESERVED"
        /\ bound[r] = context[p]
        /\ \A q \in Owners : (Holds(q, r) => q = p) /\ ~Consuming(q, r)

IInv ==
    TypeOK /\ CallsOK /\ LockHeld /\ StagedValid /\ HoldersSound /\ HistoryAuthentic

-----------------------------------------------------------------------------
(***************************************************************************)
(* Type correctness.                                                       *)
(***************************************************************************)

\* A call that is idle is a well typed call.
LEMMA IdleType ==
    Idle \in Calls
  BY DEF Idle, Calls, Phases

\* A call that ends leaves the others alone.
LEMMA EnterIdle ==
  ASSUME call \in [Owners -> Calls], NEW p \in Owners, call' = [call EXCEPT ![p] = Idle]
  PROVE  /\ call' \in [Owners -> Calls] /\ call'[p] = Idle
         /\ \A q \in Owners : q # p => call'[q] = call[q]
         /\ call'[p].op = "NONE" /\ call'[p].phase = "IDLE" /\ call'[p].r = "NONE"
  BY IdleType DEF Idle

\* Entering a phase changes nothing else of a call.
LEMMA EnterType ==
  ASSUME call \in [Owners -> Calls], NEW p \in Owners, NEW phase \in Phases, Enter(p, phase)
  PROVE  /\ call' \in [Owners -> Calls]
         /\ \A q \in Owners : q # p => call'[q] = call[q]
         /\ call'[p].phase = phase
         /\ call'[p].op = call[p].op /\ call'[p].r = call[p].r /\ call'[p].at = call[p].at
         /\ call'[p].expires = call[p].expires /\ call'[p].value = call[p].value
<1>1. ASSUME NEW c \in Calls PROVE /\ [c EXCEPT !.phase = phase] \in Calls
    /\ [c EXCEPT !.phase = phase].phase = phase
    /\ [c EXCEPT !.phase = phase].op = c.op
    /\ [c EXCEPT !.phase = phase].r = c.r
    /\ [c EXCEPT !.phase = phase].at = c.at
    /\ [c EXCEPT !.phase = phase].expires = c.expires
    /\ [c EXCEPT !.phase = phase].value = c.value
  BY DEF Calls
<1> DEFINE d == [call[p] EXCEPT !.phase = phase]
<1>2. call' = [call EXCEPT ![p] = d]
  BY DEF Enter
<1>3. call[p] \in Calls
  OBVIOUS
<1>4. d \in Calls /\ d.phase = phase /\ d.op = call[p].op /\ d.r = call[p].r
      /\ d.at = call[p].at /\ d.expires = call[p].expires /\ d.value = call[p].value
  BY <1>1, <1>3
<1> HIDE DEF d
<1> QED BY <1>2, <1>4

\* The rows a call inserts are well typed.
LEMMA AfterInsertType ==
  ASSUME TypeOK, CallsOK, NEW p \in Owners, call[p].op \in WriteOps
  PROVE  AfterInsert(call[p]) \in [Requests -> [Lifecycle -> Nat]]
<1> DEFINE c == call[p]
<1>1. c.r \in Requests /\ c.at \in Nat /\ c.at - 1 \in Nat
  BY DEF TypeOK, CallsOK, CallOK, Promised, WriteOps, Calls
<1>2. observed \in [Requests -> [Lifecycle -> Nat]]
  BY DEF TypeOK
<1>3. ASSUME NEW f \in [Lifecycle -> Nat] PROVE [observed EXCEPT ![c.r] = f] \in [Requests -> [Lifecycle -> Nat]]
  BY <1>1, <1>2
<1> HIDE DEF c
<1>4. \A s \in Lifecycle : [observed[c.r] EXCEPT ![s] = c.at] \in [Lifecycle -> Nat]
  BY <1>1, <1>2
<1>5. [observed[c.r] EXCEPT !["UNUSED"] = c.at - 1, !["RESERVED"] = c.at] \in [Lifecycle -> Nat]
  BY <1>1, <1>2 DEF Lifecycle
<1>6. AfterInsert(c) \in [Requests -> [Lifecycle -> Nat]]
  BY <1>1, <1>2, <1>3, <1>4, <1>5 DEF AfterInsert, Lifecycle
<1> QED BY <1>6 DEF c

\* The table is finite: whatever the chains, so is every set a recovery counts.
LEMMA CountsFinite ==
  ASSUME NEW st, NEW obs
  PROVE  IsFiniteSet(Rows(obs)) /\ IsFiniteSet(Chains(st)) /\ IsFiniteSet(Consumed(st))
<1>1. IsFiniteSet(Requests)
  BY ConstantsAssumption
<1>2. IsFiniteSet(Lifecycle)
  <2>1. Lifecycle = ({"UNUSED"} \cup {"RESERVED"}) \cup {"CONSUMED"}
    BY DEF Lifecycle
  <2> QED BY <2>1, FS_Singleton, FS_Union
<1>3. IsFiniteSet(Requests \X Lifecycle)
  BY <1>1, <1>2, FS_Product
<1>4. Rows(obs) \subseteq Requests \X Lifecycle
  BY DEF Rows
<1>5. Chains(st) \subseteq Requests /\ Consumed(st) \subseteq Requests
  BY DEF Chains, Consumed
<1> QED BY <1>1, <1>3, <1>4, <1>5, FS_Subset

\* The three counts of a recovery are numbers.
LEMMA CountsAreNat ==
  /\ Cardinality(Rows(observed)) \in Nat
  /\ Cardinality(Chains(state)) \in Nat /\ Cardinality(Consumed(state)) \in Nat
BY CountsFinite, FS_CardinalityType

\* Every step of every owner keeps the variables in their types.
LEMMA TypeStep == TypeOK /\ CallsOK /\ [Next]_vars => TypeOK'
<1> SUFFICES ASSUME TypeOK, CallsOK, [Next]_vars PROVE TypeOK'
  OBVIOUS
<1> USE ConstantsAssumption, IdleType DEF TypeOK, connections, durable, Phases, WriteOps, ReadOps
<1>1. ASSUME NEW p \in Owners, Lifetime(p) PROVE TypeOK'
  <2>1. CASE Create(p) BY <2>1 DEF Create
  <2>2. CASE CreateCommit(p) BY <2>2 DEF CreateCommit
  <2>3. CASE CreateAbort(p) BY <2>3 DEF CreateAbort
  <2>4. CASE Open(p) BY <2>4 DEF Open
  <2>5. CASE Close(p) BY <2>5 DEF Close
  <2>6. CASE Crash(p) BY <2>6 DEF Crash, Idle
  <2> QED BY <1>1, <2>1, <2>2, <2>3, <2>4, <2>5, <2>6 DEF Lifetime
<1>2. ASSUME NEW p \in Owners, CallStep(p) PROVE TypeOK'
  <2>1. ASSUME NEW r \in Requests, BeginInitialize(p, r) PROVE TypeOK'
    BY <2>1 DEF BeginInitialize, Begin, Calls
  <2>2. ASSUME NEW r \in Requests, BeginReserveRequest(p, r) PROVE TypeOK'
    BY <2>2 DEF BeginReserveRequest, Begin, Calls
  <2>3. ASSUME NEW r \in Requests, BeginReserve(p, r) PROVE TypeOK'
    BY <2>3 DEF BeginReserve, Begin, Calls
  <2>4. ASSUME NEW r \in Requests, BeginConsume(p, r) PROVE TypeOK'
    BY <2>4 DEF BeginConsume, Begin, Calls
  <2>5. ASSUME NEW r \in Requests, EndAttempt(p, r) PROVE TypeOK'
    BY <2>5 DEF EndAttempt
  <2>6. ASSUME NEW op \in ReadOps, BeginRead(p, op) PROVE TypeOK'
    BY <2>6 DEF BeginRead, Begin, Calls
  <2> QED BY <1>2, <2>1, <2>2, <2>3, <2>4, <2>5, <2>6 DEF CallStep
<1>3. ASSUME NEW p \in Owners, StoreStep(p) PROVE TypeOK'
  <2>1. CASE Stage(p)
    <3>1. Enter(p, "STAGED") BY <2>1 DEF Stage
    <3> QED BY <2>1, <3>1, EnterType DEF Stage, Spend
  <2>2. CASE Refuse(p) BY <2>2 DEF Refuse, Spend, Idle
  <2>3. CASE Busy(p) BY <2>3 DEF Busy, Idle
  <2>4. CASE Recheck(p)
    <3>1. Enter(p, "CHECKED") BY <2>4 DEF Recheck
    <3> QED BY <2>4, <3>1, EnterType DEF Recheck
  <2>5. CASE Commit(p)
    <3>1. call[p].op \in WriteOps /\ call[p].r \in Requests
      BY <2>5 DEF Commit, CallsOK, CallOK
    <3>2. observed' \in [Requests -> [Lifecycle -> Nat]]
      BY <2>5, <3>1, AfterInsertType DEF Commit
    <3>3. TargetState(call[p].op) \in States
      BY DEF TargetState, States
    <3>4. Enter(p, "COMMITTED") /\ call' \in [Owners -> Calls]
      BY <2>5, EnterType DEF Commit
    <3>5. \A q \in Owners : call'[q].op \in WriteOps => call'[q].r \in Requests
      BY <3>4, EnterType
    <3>6. call[p].expires \in Nat /\ call[p].value \in Results \cup {NoResult}
      BY DEF Calls
    <3> HIDE DEF WriteOps, ReadOps, Phases
    <3>7. /\ state' \in [Requests -> States] /\ expires' \in [Requests -> Nat]
          /\ bound' \in [Requests -> Contexts \cup {NoContext}]
          /\ outcome' \in [Requests -> Results \cup {NoResult}]
      BY <2>5, <3>1, <3>3, <3>6 DEF Commit
    <3> QED BY <2>5, <3>2, <3>4, <3>5, <3>7 DEF Commit
  <2>6. CASE Rollback(p) BY <2>6 DEF Rollback, Idle
  <2>7. CASE Return(p)
    <3>1. call[p].op = "RESERVE_REQUEST" => call[p].r \in Requests
      BY DEF Calls
    <3> QED BY <2>7, <3>1 DEF Return, Idle
  <2>8. CASE ReadSnapshot(p)
    <3>1. Enter(p, "READING") BY <2>8 DEF ReadSnapshot
    <3> QED BY <2>8, <3>1, EnterType DEF ReadSnapshot
  <2>9. CASE ReadFinish(p)
    <3>1. recovered' \in [chains : Nat, receipts : Nat, consumed : Nat, refused : BOOLEAN]
      <4> DEFINE chains == Cardinality(Chains(state))
                 receipts == Cardinality(Rows(observed))
                 consumed == Cardinality(Consumed(state))
      <4>1. chains \in Nat /\ receipts \in Nat /\ consumed \in Nat
        BY CountsAreNat
      <4>2. CASE recovered' = recovered
        BY <4>2
      <4>3. CASE recovered' = [recovered EXCEPT !.chains = chains, !.receipts = receipts,
                                                !.consumed = consumed]
        <5> HIDE DEF chains, receipts, consumed
        <5> QED BY <4>1, <4>3
      <4>4. CASE recovered' = [recovered EXCEPT !.refused = @ \/ InputsCurrent(p)]
        <5> DEFINE b == recovered.refused \/ InputsCurrent(p)
        <5>1. b \in BOOLEAN OBVIOUS
        <5>2. recovered' = [recovered EXCEPT !.refused = b] BY <4>4
        <5> HIDE DEF b
        <5> QED BY <5>1, <5>2
      <4> QED BY <2>9, <4>2, <4>3, <4>4 DEF ReadFinish
    <3>2. /\ call' = [call EXCEPT ![p] = Idle]
          /\ UNCHANGED <<connections, lock, journal, durable, capability, installed, now>>
      BY <2>9 DEF ReadFinish
    <3> QED BY <3>1, <3>2, EnterIdle
  <2> QED BY <1>3, <2>1, <2>2, <2>3, <2>4, <2>5, <2>6, <2>7, <2>8, <2>9 DEF StoreStep
<1>4. CASE Promote BY <1>4 DEF Promote
<1>5. CASE Tick BY <1>5 DEF Tick
<1>6. CASE UNCHANGED vars BY <1>6 DEF vars
<1> QED BY <1>1, <1>2, <1>3, <1>4, <1>5, <1>6 DEF Next

-----------------------------------------------------------------------------
(***************************************************************************)
(* The inductive invariant.                                                *)
(***************************************************************************)

\* The empty database with no owner satisfies the inductive invariant.
LEMMA InitOK == Init => IInv
<1> SUFFICES ASSUME Init PROVE IInv
  OBVIOUS
<1> USE ConstantsAssumption DEF Init
<1>1. TypeOK
  BY IdleType DEF TypeOK, States, Lifecycle, NoReceipts, Idle, WriteOps
<1>2. CallsOK
  BY DEF CallsOK, CallOK, Promised, Idle, WriteOps, ReadOps
<1>3. LockHeld /\ StagedValid /\ HoldersSound
  BY DEF LockHeld, StagedValid, HoldersSound, Holds, InTransaction, Idle
<1>4. HistoryAuthentic
  <2>1. \A r \in Requests, s \in Lifecycle : observed[r][s] = 0
    BY DEF NoReceipts
  <2>2. Rows(observed) = {}
    BY <2>1 DEF Rows
  <2>3. Cardinality(Rows(observed)) < MaxRows
    <3>1. Cardinality(Rows(observed)) = 0
      BY <2>2, FS_EmptySet
    <3> HIDE DEF Init
    <3> QED BY <3>1
  <2>4. ASSUME NEW r \in Requests PROVE ChainAuthentic(r)
    <3>1. /\ state[r] = "NONE" /\ bound[r] = NoContext /\ outcome[r] = NoResult
          /\ observed[r]["UNUSED"] = 0 /\ observed[r]["RESERVED"] = 0
          /\ observed[r]["CONSUMED"] = 0
      BY <2>1 DEF Lifecycle
    <3> QED BY <3>1 DEF ChainAuthentic, Lifecycle
  <2> QED BY <2>1, <2>3, <2>4 DEF HistoryAuthentic, NoneFuture
<1> QED BY <1>1, <1>2, <1>3, <1>4 DEF IInv

\* An owner's step concerns its own call only.
LEMMA CallsKept ==
  ASSUME CallsOK, now \in Nat, now' \in Nat, now <= now', NEW p \in Owners, CallOK(p)',
         \A q \in Owners : q # p =>
            /\ call'[q] = call[q] /\ conn'[q] = conn[q]
            /\ context'[q] = context[q] /\ capability'[q] = capability[q],
         call \in [Owners -> Calls]
  PROVE  CallsOK'
<1> SUFFICES ASSUME NEW q \in Owners, q # p PROVE CallOK(q)'
  BY DEF CallsOK
<1>1. CallOK(q) /\ call[q] \in Calls
  BY DEF CallsOK
<1> QED BY <1>1 DEF CallOK, Promised, Calls

\* Callers keep their promises.
LEMMA CallsStep == IInv /\ [Next]_vars => CallsOK'
<1> SUFFICES ASSUME TypeOK, CallsOK, [Next]_vars PROVE CallsOK'
  BY DEF IInv
<1>0. call \in [Owners -> Calls] /\ now \in Nat /\ \A p \in Owners : CallOK(p)
  BY DEF TypeOK, CallsOK
<1> USE ConstantsAssumption DEF connections, durable
<1>1. ASSUME NEW p \in Owners, Lifetime(p) PROVE CallsOK'
  <2> SUFFICES CallOK(p)'
    <3>1. now' = now BY <1>1 DEF Lifetime, Create, CreateCommit, CreateAbort, Open, Close, Crash
    <3>2. \A q \in Owners : q # p =>
            /\ call'[q] = call[q] /\ conn'[q] = conn[q]
            /\ context'[q] = context[q] /\ capability'[q] = capability[q]
      BY <1>1 DEF Lifetime, Create, CreateCommit, CreateAbort, Open, Close, Crash, TypeOK
    <3> QED BY <1>0, <3>1, <3>2, CallsKept
  <2> USE <1>0 DEF TypeOK, CallOK, Promised, WriteOps, ReadOps, Idle
  <2>1. CASE Create(p) BY <2>1 DEF Create
  <2>2. CASE CreateCommit(p) BY <2>2 DEF CreateCommit, InputsCurrent
  <2>3. CASE CreateAbort(p) BY <2>3 DEF CreateAbort
  <2>4. CASE Open(p) BY <2>4 DEF Open
  <2>5. CASE Close(p) BY <2>5 DEF Close
  <2>6. CASE Crash(p) BY <2>6 DEF Crash
  <2> QED BY <1>1, <2>1, <2>2, <2>3, <2>4, <2>5, <2>6 DEF Lifetime
<1>2. ASSUME NEW p \in Owners, CallStep(p) PROVE CallsOK'
  <2> SUFFICES CallOK(p)'
    <3>1. now' = now
      BY <1>2 DEF CallStep, BeginInitialize, BeginReserveRequest, BeginReserve, BeginConsume,
                  BeginRead, Begin, EndAttempt
    <3>2. \A q \in Owners : q # p =>
            /\ call'[q] = call[q] /\ conn'[q] = conn[q]
            /\ context'[q] = context[q] /\ capability'[q] = capability[q]
      BY <1>2 DEF CallStep, BeginInitialize, BeginReserveRequest, BeginReserve, BeginConsume,
                  BeginRead, Begin, EndAttempt, TypeOK
    <3> QED BY <1>0, <3>1, <3>2, CallsKept
  <2>0. ASSUME NEW c \in Calls, Begin(p, c), Promised(c), c.phase = "CALLED"
        PROVE  CallOK(p)'
    <3>1. call'[p] = c /\ UNCHANGED <<conn, context, now>> /\ conn[p] = "OPEN"
      BY <2>0, <1>0 DEF Begin
    <3>2. Promised(c)'
      BY <2>0, <3>1 DEF Promised, HasBinding
    <3> QED BY <1>0, <2>0, <3>1, <3>2 DEF CallOK, Promised
  <2> USE <1>0, <2>0 DEF TypeOK, WriteOps, ReadOps, Idle, Calls, Phases, Promised
  <2>1. ASSUME NEW r \in Requests, BeginInitialize(p, r) PROVE CallOK(p)'
    <3>1. Kind[r] = "BARE" BY <2>1 DEF BeginInitialize
    <3>2. PICK lease \in 1..MaxLease :
            Begin(p, [op |-> "INITIALIZE", r |-> r, at |-> now,
                      expires |-> now + lease, value |-> NoResult, phase |-> "CALLED"])
      BY <2>1 DEF BeginInitialize
    <3> DEFINE c == [op |-> "INITIALIZE", r |-> r, at |-> now,
                     expires |-> now + lease, value |-> NoResult, phase |-> "CALLED"]
    <3>3. c \in Calls /\ Promised(c) /\ c.phase = "CALLED"
      BY <3>1 DEF CallsOK
    <3> QED BY <3>2, <3>3, <2>0
  <2>2. ASSUME NEW r \in Requests, BeginReserveRequest(p, r) PROVE CallOK(p)'
    <3>1. PICK expiry \in IF Kind[r] = "CONVERSATION_V2" THEN {0}
                           ELSE {now + lease : lease \in 1..MaxLease} :
            Begin(p, [op |-> "RESERVE_REQUEST", r |-> r, at |-> now,
                      expires |-> expiry, value |-> NoResult, phase |-> "CALLED"])
      BY <2>2 DEF BeginReserveRequest
    <3> DEFINE c == [op |-> "RESERVE_REQUEST", r |-> r, at |-> now,
                     expires |-> expiry, value |-> NoResult, phase |-> "CALLED"]
    <3>2. IF Kind[r] = "CONVERSATION_V2" THEN expiry = 0 ELSE expiry \in Nat /\ now < expiry
      BY <3>1
    <3>3. c \in Calls /\ Promised(c) /\ c.phase = "CALLED"
      BY <3>2 DEF CallsOK
    <3> QED BY <3>1, <3>3, <2>0
  <2>3. ASSUME NEW r \in Requests, BeginReserve(p, r) PROVE CallOK(p)'
    <3> DEFINE c == [op |-> "RESERVE", r |-> r, at |-> now, expires |-> 0,
                     value |-> NoResult, phase |-> "CALLED"]
    <3>1. Begin(p, c) /\ c \in Calls /\ Promised(c) /\ c.phase = "CALLED"
      BY <2>3 DEF BeginReserve, CallsOK
    <3> QED BY <3>1, <2>0
  <2>4. ASSUME NEW r \in Requests, BeginConsume(p, r) PROVE CallOK(p)'
    <3>1. PICK value \in IF HasBinding(r) THEN Results ELSE {NoResult} :
            Begin(p, [op |-> "CONSUME", r |-> r, at |-> now, expires |-> 0,
                      value |-> value, phase |-> "CALLED"])
      BY <2>4 DEF BeginConsume
    <3> DEFINE c == [op |-> "CONSUME", r |-> r, at |-> now, expires |-> 0,
                     value |-> value, phase |-> "CALLED"]
    <3>2. (value # NoResult) = HasBinding(r) /\ value \in Results \cup {NoResult}
      BY <3>1 DEF HasBinding
    <3>3. c \in Calls /\ Promised(c) /\ c.phase = "CALLED"
      BY <3>2 DEF CallsOK
    <3> QED BY <3>1, <3>3, <2>0
  <2>5. ASSUME NEW r \in Requests, EndAttempt(p, r) PROVE CallOK(p)'
    BY <2>5 DEF EndAttempt, CallOK
  <2>6. ASSUME NEW op \in ReadOps, BeginRead(p, op) PROVE CallOK(p)'
    BY <2>6 DEF BeginRead, Begin, CallOK
  <2> QED BY <1>2, <2>1, <2>2, <2>3, <2>4, <2>5, <2>6 DEF CallStep
<1>3. ASSUME NEW p \in Owners, StoreStep(p) PROVE CallsOK'
  <2>1. UNCHANGED <<conn, context, now>>
    BY <1>3 DEF StoreStep, Stage, Refuse, Busy, Recheck, Commit, Rollback, Return,
                ReadSnapshot, ReadFinish
  <2>2. \A q \in Owners : q # p => call'[q] = call[q] /\ capability'[q] = capability[q]
    BY <1>3, <1>0 DEF StoreStep, Stage, Refuse, Busy, Recheck, Commit, Rollback, Return,
                ReadSnapshot, ReadFinish, Spend, TypeOK, Enter
  <2>3. call[p].phase # "IDLE"
    BY <1>3, <1>0 DEF StoreStep, Stage, Refuse, Busy, Recheck, Commit, Rollback, Return,
                ReadSnapshot, ReadFinish
  <2>4. conn[p] = "OPEN" /\ context[p] \in Contexts
    BY <1>0, <2>3 DEF CallOK, Idle
  <2>5. CASE call' = [call EXCEPT ![p] = Idle]
    <3>1. CallOK(p)'
      BY <2>1, <2>4, <2>5, EnterIdle, <1>0 DEF CallOK, Promised, Idle, WriteOps, ReadOps
    <3> QED BY <1>0, <2>1, <2>2, <3>1, CallsKept
  <2>6. ASSUME NEW phase \in Phases \ {"IDLE"}, Enter(p, phase),
               phase = "READING" => call[p].op \in ReadOps,
               phase # "READING" => call[p].op \in WriteOps
        PROVE  CallsOK'
    <3>1. call'[p] \in Calls /\ call[p] \in Calls /\ CallOK(p)
      BY <1>0, <2>6, EnterType
    <3>2. Promised(call[p])'
      BY <3>1, <1>0, <2>1, <2>6, EnterType DEF Promised, CallOK, HasBinding
    <3>3. CallOK(p)'
      BY <1>0, <2>1, <2>4, <2>6, <3>2, EnterType DEF CallOK
    <3> QED BY <1>0, <2>1, <2>2, <3>3, CallsKept
  <2>7. CASE Stage(p) BY <2>6, <2>7 DEF Stage, Phases
  <2>8. CASE Recheck(p) BY <1>0, <2>6, <2>8 DEF Recheck, Phases, CallOK
  <2>9. CASE Commit(p) BY <1>0, <2>6, <2>9 DEF Commit, Phases, CallOK
  <2>10. CASE ReadSnapshot(p) BY <2>6, <2>10 DEF ReadSnapshot, Phases
  <2> QED
    BY <1>3, <2>5, <2>7, <2>8, <2>9, <2>10
    DEF StoreStep, Refuse, Busy, Rollback, Return, ReadFinish
<1>4. CASE Promote BY <1>0, <1>4 DEF Promote, CallsOK, CallOK, Promised, HasBinding, Calls
<1>5. CASE Tick BY <1>0, <1>5 DEF Tick, CallsOK, CallOK, Promised, HasBinding, Calls
<1>6. CASE UNCHANGED vars BY <1>6 DEF vars, CallsOK, CallOK, Promised, HasBinding
<1> QED BY <1>1, <1>2, <1>3, <1>4, <1>5, <1>6 DEF Next

-----------------------------------------------------------------------------
(***************************************************************************)
(* The lock, and what was checked under it.                                *)
(***************************************************************************)

\* The operations that are not Commit leave the database alone.
LEMMA OnlyCommitWrites ==
  ASSUME NEW p \in Owners, StoreStep(p) \/ Lifetime(p) \/ CallStep(p), ~Commit(p)
  PROVE  UNCHANGED durable
  BY DEF StoreStep, Stage, Refuse, Busy, Recheck, Rollback, Return, ReadSnapshot, ReadFinish,
         Lifetime, Create, CreateCommit, CreateAbort, Open, Close, Crash, CallStep,
         BeginInitialize, BeginReserveRequest, BeginReserve, BeginConsume, BeginRead, Begin,
         EndAttempt

\* Only the end of a read reports.
LEMMA OnlyReadFinishReports ==
  ASSUME [Next]_vars, ~UNCHANGED recovered
  PROVE  \E p \in Owners : ReadFinish(p)
  BY DEF Next, StoreStep, Stage, Refuse, Busy, Recheck, Commit, Rollback, Return, ReadSnapshot,
         Lifetime, Create, CreateCommit, CreateAbort, Open, Close, Crash, CallStep,
         BeginInitialize, BeginReserveRequest, BeginReserve, BeginConsume, BeginRead, Begin,
         EndAttempt, Promote, Tick, vars

\* An owner whose call ends has given the lock back.
LEMMA IdleUnlocks ==
  ASSUME TypeOK, LockHeld, NEW p \in Owners, call' = [call EXCEPT ![p] = Idle],
         lock' = IF lock = p THEN NoOwner ELSE lock
  PROVE  LockHeld'
<1>1. /\ call'[p].phase = "IDLE"
      /\ \A q \in Owners : q # p => call'[q] = call[q]
  BY EnterIdle DEF TypeOK
<1>2. NoOwner \notin Owners
  BY ConstantsAssumption
<1> SUFFICES ASSUME NEW q \in Owners PROVE (call'[q].phase \in InTransaction) = (lock' = q)
  BY DEF LockHeld, InTransaction
<1>3. CASE q = p
  BY <1>1, <1>2, <1>3 DEF InTransaction
<1>4. CASE q # p
  BY <1>1, <1>2, <1>4 DEF LockHeld
<1> QED BY <1>3, <1>4

\* The write lock is held exactly by the owner whose call is between BEGIN
\* IMMEDIATE and its end, whatever the others do.
LEMMA LockStep == IInv /\ [Next]_vars => LockHeld'
<1> SUFFICES ASSUME TypeOK, CallsOK, LockHeld, [Next]_vars PROVE LockHeld'
  BY DEF IInv
<1> USE ConstantsAssumption DEF connections, durable
<1>0. /\ call \in [Owners -> Calls]
      /\ \A p \in Owners : CallOK(p) /\ ((call[p].phase \in InTransaction) = (lock = p))
  BY DEF TypeOK, CallsOK, LockHeld
<1>1. ASSUME NEW p \in Owners, Lifetime(p) PROVE LockHeld'
  <2>1. CASE lock' = lock /\ call' = call
    BY <2>1 DEF LockHeld
  <2>2. CASE Crash(p)
    <3>1. /\ call' = [call EXCEPT ![p] = Idle]
          /\ lock' = IF lock = p THEN NoOwner ELSE lock
      BY <2>2 DEF Crash
    <3> QED BY <3>1, IdleUnlocks
  <2> QED BY <1>1, <2>1, <2>2 DEF Lifetime, Create, CreateCommit, CreateAbort, Open, Close
<1>2. ASSUME NEW p \in Owners, CallStep(p) PROVE LockHeld'
  <2>1. ASSUME NEW c, c.phase = "CALLED", Begin(p, c) PROVE LockHeld'
    BY <1>0, <2>1 DEF Begin, LockHeld, InTransaction, Idle
  <2>2. CASE \E r \in Requests : EndAttempt(p, r)
    BY <2>2 DEF EndAttempt, LockHeld
  <2> QED BY <1>2, <2>1, <2>2 DEF CallStep, BeginInitialize, BeginReserveRequest,
                                  BeginReserve, BeginConsume, BeginRead
<1>3. ASSUME NEW p \in Owners, StoreStep(p) PROVE LockHeld'
  <2>1. CASE Stage(p)
    <3>1. Enter(p, "STAGED") BY <2>1 DEF Stage
    <3> QED BY <1>0, <2>1, <3>1, EnterType DEF Stage, Phases, LockHeld, InTransaction
  <2>2. CASE Recheck(p)
    <3>1. Enter(p, "CHECKED") BY <2>2 DEF Recheck
    <3> QED BY <1>0, <2>2, <3>1, EnterType DEF Recheck, Phases, LockHeld, InTransaction
  <2>3. CASE Commit(p)
    <3>1. Enter(p, "COMMITTED") BY <2>3 DEF Commit
    <3> QED BY <1>0, <2>3, <3>1, EnterType DEF Commit, Phases, LockHeld, InTransaction
  <2>4. CASE ReadSnapshot(p)
    <3>1. Enter(p, "READING") BY <2>4 DEF ReadSnapshot
    <3> QED BY <1>0, <2>4, <3>1, EnterType DEF ReadSnapshot, Phases, LockHeld, InTransaction
  <2>5. ASSUME call' = [call EXCEPT ![p] = Idle],
               lock' = IF lock = p THEN NoOwner ELSE lock
        PROVE  LockHeld'
    BY <2>5, IdleUnlocks
  <2>6. CASE Refuse(p) BY <1>0, <2>5, <2>6 DEF Refuse, InTransaction
  <2>7. CASE Busy(p) BY <1>0, <2>5, <2>7 DEF Busy, InTransaction
  <2>8. CASE Rollback(p) BY <1>0, <2>5, <2>8 DEF Rollback, InTransaction
  <2>9. CASE Return(p) BY <1>0, <2>5, <2>9 DEF Return, InTransaction
  <2>10. CASE ReadFinish(p) BY <1>0, <2>5, <2>10 DEF ReadFinish, InTransaction
  <2> QED BY <1>3, <2>1, <2>2, <2>3, <2>4, <2>6, <2>7, <2>8, <2>9, <2>10 DEF StoreStep
<1>4. CASE Promote BY <1>4 DEF Promote, LockHeld
<1>5. CASE Tick BY <1>5 DEF Tick, LockHeld
<1>6. CASE UNCHANGED vars BY <1>6 DEF vars, LockHeld
<1> QED BY <1>1, <1>2, <1>3, <1>4, <1>5, <1>6 DEF Next

\* Nothing another owner does disturbs a staged transaction.
LEMMA StagedKept ==
  ASSUME StagedValid, UNCHANGED durable,
         \A q \in Owners : lock' = q =>
            /\ lock = q /\ context'[q] = context[q]
            /\ call'[q].op = call[q].op /\ call'[q].r = call[q].r /\ call'[q].at = call[q].at
  PROVE  StagedValid'
<1> SUFFICES ASSUME NEW q \in Owners, lock' = q PROVE StagedOK(q)'
  BY DEF StagedValid
<1>1. StagedOK(q)
  BY DEF StagedValid
<1>2. /\ call'[q].op = call[q].op /\ call'[q].r = call[q].r /\ call'[q].at = call[q].at
      /\ context'[q] = context[q] /\ UNCHANGED <<state, observed, expires, bound>>
  BY DEF durable
<1>3. AfterInsert(call[q])' = AfterInsert(call[q])
  BY <1>2 DEF AfterInsert
<1>4. HeadMatches(call[q])' = HeadMatches(call[q]) /\ Timely(call[q])' = Timely(call[q])
  BY <1>2 DEF HeadMatches, Timely
<1>5. RouteOpen(call[q])' = RouteOpen(call[q])
  BY <1>2 DEF RouteOpen, Active
<1> QED BY <1>1, <1>2, <1>3, <1>4, <1>5 DEF StagedOK

\* What an owner has staged under the lock stays valid for the head it read
\* until it commits: nobody else moves the database meanwhile.
LEMMA StagedStep == IInv /\ [Next]_vars => StagedValid'
<1> SUFFICES ASSUME TypeOK, CallsOK, LockHeld, StagedValid, LockHeld', [Next]_vars
             PROVE  StagedValid'
  BY LockStep DEF IInv
<1> USE ConstantsAssumption DEF connections
<1>0. /\ call \in [Owners -> Calls]
      /\ \A p \in Owners : CallOK(p) /\ ((call[p].phase \in InTransaction) = (lock = p))
      /\ \A p \in Owners : lock = p => call[p].phase # "IDLE" /\ conn[p] = "OPEN"
  BY DEF TypeOK, CallsOK, LockHeld, CallOK, InTransaction, Idle
<1>1. ASSUME NEW p \in Owners, Lifetime(p) PROVE StagedValid'
  <2>1. UNCHANGED durable
    BY <1>1, OnlyCommitWrites DEF Lifetime, Create, CreateCommit, CreateAbort, Open, Close, Crash
  <2>2. CASE lock' = lock /\ call' = call
    <3>1. \A q \in Owners : lock = q => context'[q] = context[q]
      BY <1>0, <1>1, <2>2 DEF Lifetime, Create, CreateCommit, CreateAbort, Open, Close, Crash, TypeOK, Idle
    <3> QED BY <2>1, <2>2, <3>1, StagedKept
  <2>3. CASE Crash(p)
    <3>1. /\ call' = [call EXCEPT ![p] = Idle] /\ context' = [context EXCEPT ![p] = NoContext]
          /\ lock' = IF lock = p THEN NoOwner ELSE lock
      BY <2>3 DEF Crash
    <3> QED BY <1>0, <2>1, <3>1, EnterIdle, StagedKept DEF TypeOK
  <2> QED BY <1>1, <2>2, <2>3 DEF Lifetime, Create, CreateCommit, CreateAbort, Open, Close
<1>2. ASSUME NEW p \in Owners, CallStep(p) PROVE StagedValid'
  <2>1. UNCHANGED durable /\ UNCHANGED <<lock, context>>
    BY <1>2 DEF CallStep, BeginInitialize, BeginReserveRequest, BeginReserve, BeginConsume,
                BeginRead, Begin, EndAttempt
  <2>2. \A q \in Owners : lock = q => call'[q] = call[q]
    BY <1>0, <1>2 DEF CallStep, BeginInitialize, BeginReserveRequest, BeginReserve,
                      BeginConsume, BeginRead, Begin, EndAttempt, Idle
  <2> QED BY <2>1, <2>2, StagedKept
<1>3. ASSUME NEW p \in Owners, StoreStep(p), ~Stage(p), ~Commit(p) PROVE StagedValid'
  <2>1. UNCHANGED durable /\ UNCHANGED context /\ lock' \in {lock, NoOwner}
    BY <1>3 DEF StoreStep, Refuse, Busy, Recheck, Rollback, Return, ReadSnapshot, ReadFinish
  <2>2. \/ call' = [call EXCEPT ![p] = Idle]
        \/ Enter(p, "CHECKED") \/ Enter(p, "READING")
    BY <1>3 DEF StoreStep, Refuse, Busy, Recheck, Rollback, Return, ReadSnapshot, ReadFinish
  <2>3. \A q \in Owners : q # p => call'[q] = call[q]
    BY <1>0, <2>2 DEF Enter
  <2>4. CASE call' = [call EXCEPT ![p] = Idle]
    <3>1. lock' # p
      BY <1>0, <2>4, EnterIdle DEF LockHeld, InTransaction
    <3> QED BY <2>1, <2>3, <3>1, StagedKept
  <2>5. CASE Enter(p, "CHECKED") \/ Enter(p, "READING")
    BY <1>0, <2>1, <2>3, <2>5, EnterType, StagedKept DEF Phases
  <2> QED BY <2>2, <2>4, <2>5
<1>4. ASSUME NEW p \in Owners, Stage(p) PROVE StagedValid'
  <2>1. Enter(p, "STAGED") /\ lock' = p /\ CanStage(p) /\ UNCHANGED durable /\ UNCHANGED context
    BY <1>4 DEF Stage
  <2>2. /\ call'[p].op = call[p].op /\ call'[p].r = call[p].r /\ call'[p].at = call[p].at
    BY <1>0, <2>1, EnterType DEF Phases
  <2>3. UNCHANGED <<state, observed, expires, bound>>
    BY <2>1 DEF durable
  <2>4. AfterInsert(call[p])' = AfterInsert(call[p])
    BY <2>2, <2>3 DEF AfterInsert
  <2>5. HeadMatches(call[p])' = HeadMatches(call[p]) /\ Timely(call[p])' = Timely(call[p])
    BY <2>2, <2>3 DEF HeadMatches, Timely
  <2>6. RouteOpen(call[p])' = RouteOpen(call[p])
    BY <2>2, <2>3 DEF RouteOpen, Active
  <2>7. StagedOK(p)'
    BY <2>1, <2>2, <2>3, <2>4, <2>5, <2>6 DEF StagedOK, CanStage, BindingCurrent
  <2> QED BY <2>1, <2>7 DEF StagedValid
<1>5. ASSUME NEW p \in Owners, Commit(p) PROVE StagedValid'
  BY <1>5 DEF Commit, StagedValid
<1>6. CASE Promote \/ Tick \/ UNCHANGED vars
  BY <1>6, StagedKept DEF Promote, Tick, vars, durable
<1> QED BY <1>1, <1>2, <1>3, <1>4, <1>5, <1>6 DEF Next

-----------------------------------------------------------------------------
(***************************************************************************)
(* Who may consume a conversation.                                         *)
(***************************************************************************)

\* Steps that create no holder and start no consumption keep the holders sound.
LEMMA HoldersKept ==
  ASSUME HoldersSound, UNCHANGED durable,
         \A q \in Owners, r \in Requests :
            /\ Holds(q, r)' => Holds(q, r) /\ context'[q] = context[q]
            /\ Consuming(q, r)' => Consuming(q, r)
  PROVE  HoldersSound'
<1> SUFFICES ASSUME NEW p \in Owners, NEW r \in Requests, Holds(p, r)'
             PROVE  /\ Kind[r] = "CONVERSATION_V2" /\ state'[r] = "RESERVED"
                    /\ bound'[r] = context'[p]
                    /\ \A q \in Owners : (Holds(q, r)' => q = p) /\ ~Consuming(q, r)'
  BY DEF HoldersSound
<1>1. Holds(p, r) /\ context'[p] = context[p] /\ state' = state /\ bound' = bound
  BY DEF durable
<1> QED BY <1>1 DEF HoldersSound

\* A live owner's capability stays that of a reserved, bound attempt.
LEMMA HoldersStep == IInv /\ [Next]_vars => HoldersSound'
<1> SUFFICES ASSUME TypeOK, CallsOK, LockHeld, StagedValid, HoldersSound, [Next]_vars
             PROVE  HoldersSound'
  BY DEF IInv
<1> USE ConstantsAssumption DEF connections
<1>0. /\ call \in [Owners -> Calls] /\ capability \in [Owners -> SUBSET Requests]
      /\ \A p \in Owners : CallOK(p) /\ ((call[p].phase \in InTransaction) = (lock = p))
      /\ \A p \in Owners, r \in Requests : Holds(p, r) => conn[p] = "OPEN"
  BY DEF TypeOK, CallsOK, LockHeld, CallOK, Holds, Idle
<1>1. ASSUME NEW p \in Owners, Lifetime(p) PROVE HoldersSound'
  <2>1. UNCHANGED durable
    BY <1>1 DEF Lifetime, Create, CreateCommit, CreateAbort, Open, Close, Crash
  <2>2. \A q \in Owners, r \in Requests : Holds(q, r)' => Holds(q, r) /\ context'[q] = context[q]
    <3>1. CASE Create(p) \/ CreateCommit(p) \/ CreateAbort(p) \/ Open(p)
      <4>1. UNCHANGED <<capability, call>>
        BY <3>1 DEF Create, CreateCommit, CreateAbort, Open
      <4>2. \A q \in Owners : conn[q] = "OPEN" => context'[q] = context[q]
        BY <3>1 DEF Create, CreateCommit, CreateAbort, Open, TypeOK
      <4> QED BY <1>0, <4>1, <4>2 DEF Holds
    <3>2. CASE Close(p) \/ Crash(p)
      <4>1. /\ capability' = [capability EXCEPT ![p] = {}]
            /\ context' = [context EXCEPT ![p] = NoContext]
        BY <3>2 DEF Close, Crash
      <4>2. call'[p].phase = "IDLE" /\ \A q \in Owners : q # p => call'[q] = call[q]
        BY <1>0, <3>2, EnterIdle DEF Close, Crash, Idle
      <4> QED BY <1>0, <4>1, <4>2 DEF Holds, TypeOK
    <3> QED BY <1>1, <3>1, <3>2 DEF Lifetime
  <2>3. \A q \in Owners, r \in Requests : Consuming(q, r)' => Consuming(q, r)
    BY <1>0, <1>1 DEF Consuming, Lifetime, Create, CreateCommit, CreateAbort, Open, Close, Crash, Idle
  <2> QED BY <2>1, <2>2, <2>3, HoldersKept
<1>2. ASSUME NEW p \in Owners, CallStep(p) PROVE HoldersSound'
  <2>1. UNCHANGED durable /\ UNCHANGED <<lock, context>>
    BY <1>2 DEF CallStep, BeginInitialize, BeginReserveRequest, BeginReserve, BeginConsume,
                BeginRead, Begin, EndAttempt
  <2>2. \A q \in Owners, r \in Requests : Holds(q, r)' => Holds(q, r)
    <3>1. ASSUME NEW c, c.phase = "CALLED", Begin(p, c)
          PROVE  \A q \in Owners, r \in Requests : Holds(q, r)' => Holds(q, r)
      BY <1>0, <3>1 DEF Begin, Holds
    <3>2. ASSUME NEW r \in Requests, EndAttempt(p, r)
          PROVE  \A q \in Owners, s \in Requests : Holds(q, s)' => Holds(q, s)
      BY <1>0, <3>2 DEF EndAttempt, Holds
    <3> QED BY <1>2, <3>1, <3>2 DEF CallStep, BeginInitialize, BeginReserveRequest,
                                    BeginReserve, BeginConsume, BeginRead
  <2>3. \A q \in Owners : lock = q => call'[q] = call[q]
    BY <1>0, <1>2 DEF CallStep, BeginInitialize, BeginReserveRequest, BeginReserve,
                      BeginConsume, BeginRead, Begin, EndAttempt, Idle, InTransaction
  <2> QED BY <2>1, <2>2, <2>3, HoldersKept DEF Consuming
<1>3. ASSUME NEW p \in Owners, StoreStep(p), ~Stage(p), ~Commit(p) PROVE HoldersSound'
  <2>1. UNCHANGED durable /\ UNCHANGED context /\ lock' \in {lock, NoOwner}
    BY <1>3 DEF StoreStep, Refuse, Busy, Recheck, Rollback, Return, ReadSnapshot, ReadFinish
  <2>2. CASE Enter(p, "CHECKED") \/ Enter(p, "READING")
    <3>1. UNCHANGED capability
      BY <1>3, <2>2, <1>0, EnterType
      DEF StoreStep, Refuse, Busy, Recheck, Rollback, Return, ReadSnapshot, ReadFinish, Idle, Phases
    <3>2. \A q \in Owners, r \in Requests : Holds(q, r)' => Holds(q, r)
      BY <1>0, <2>2, <3>1, EnterType DEF Holds, Phases
    <3>3. \A q \in Owners, r \in Requests : Consuming(q, r)' => Consuming(q, r)
      BY <1>0, <2>1, <2>2, EnterType DEF Consuming, Phases
    <3> QED BY <2>1, <3>2, <3>3, HoldersKept
  <2>3. CASE call' = [call EXCEPT ![p] = Idle]
    <3>0. /\ call'[p].phase = "IDLE" /\ call'[p].op = "NONE"
          /\ \A q \in Owners : q # p => call'[q] = call[q]
      BY <1>0, <2>3, EnterIdle
    <3>1. \A q \in Owners, r \in Requests : Holds(q, r)' => Holds(q, r)
      <4>1. capability'[p] \subseteq capability[p] \cup
              {r \in Requests : call[p].phase = "COMMITTED" /\ call[p].op = "RESERVE_REQUEST"
                                /\ call[p].r = r /\ Kind[r] = "CONVERSATION_V2"}
        BY <1>0, <1>3
        DEF StoreStep, Refuse, Busy, Recheck, Rollback, Return, ReadSnapshot, ReadFinish, Spend,
            TypeOK, WriteOps
      <4>2. \A q \in Owners : q # p => capability'[q] = capability[q]
        BY <1>0, <1>3
        DEF StoreStep, Refuse, Busy, Recheck, Rollback, Return, ReadSnapshot, ReadFinish, Spend
      <4> QED BY <3>0, <4>1, <4>2 DEF Holds
    <3>2. \A q \in Owners, r \in Requests : Consuming(q, r)' => Consuming(q, r)
      BY <2>1, <3>0 DEF Consuming
    <3> QED BY <2>1, <3>1, <3>2, HoldersKept
  <2> QED BY <1>3, <2>2, <2>3
          DEF StoreStep, Refuse, Busy, Recheck, Rollback, Return, ReadSnapshot, ReadFinish
<1>4. ASSUME NEW p \in Owners, Stage(p) PROVE HoldersSound'
  <2>1. /\ Enter(p, "STAGED") /\ lock' = p /\ CanStage(p) /\ Spend(p) /\ lock = NoOwner
        /\ UNCHANGED durable /\ UNCHANGED context /\ call[p].phase = "CALLED"
    BY <1>4 DEF Stage
  <2>2. /\ call'[p].phase = "STAGED" /\ call'[p].op = call[p].op /\ call'[p].r = call[p].r
        /\ \A q \in Owners : q # p => call'[q] = call[q]
    BY <1>0, <2>1, EnterType DEF Phases
  <2>3. \A q \in Owners : capability'[q] \subseteq capability[q]
    BY <1>0, <2>1 DEF Spend
  <2>4. \A q \in Owners, r \in Requests : Holds(q, r)' => Holds(q, r)
    BY <2>1, <2>2, <2>3 DEF Holds
  <2>5. CASE call[p].op # "CONSUME" \/ Kind[call[p].r] # "CONVERSATION_V2"
    <3> SUFFICES ASSUME NEW q \in Owners, NEW r \in Requests, Holds(q, r)'
                 PROVE  /\ Kind[r] = "CONVERSATION_V2" /\ state'[r] = "RESERVED"
                        /\ bound'[r] = context'[q]
                        /\ \A s \in Owners : (Holds(s, r)' => s = q) /\ ~Consuming(s, r)'
      BY DEF HoldersSound
    <3>1. Holds(q, r) /\ Kind[r] = "CONVERSATION_V2"
      BY <2>4 DEF HoldersSound
    <3>2. \A s \in Owners : ~Consuming(s, r)'
      BY <2>1, <2>2, <2>5, <3>1 DEF Consuming
    <3> QED BY <2>1, <2>4, <3>1, <3>2 DEF HoldersSound, durable
  <2>6. CASE call[p].op = "CONSUME" /\ Kind[call[p].r] = "CONVERSATION_V2"
    <3>1. call[p].r \in Requests /\ call[p].r \in capability[p]
      BY <2>1, <2>6 DEF CanStage, OwnsAttempt, TypeOK, WriteOps
    <3>2. capability'[p] = capability[p] \ {call[p].r}
      BY <1>0, <2>1, <2>6 DEF Spend, SpendsAttempt, CanStage
    <3>3. \A q \in Owners : Holds(q, call[p].r) => q = p
      BY <3>1 DEF HoldersSound, Holds
    <3>4. ASSUME NEW q \in Owners, NEW r \in Requests, r = call[p].r PROVE ~Holds(q, r)'
      <4> SUFFICES ASSUME Holds(q, r)' PROVE FALSE
        OBVIOUS
      <4>1. Holds(q, r)
        BY <2>4
      <4>2. q = p
        BY <3>3, <3>4, <4>1
      <4> QED BY <2>2, <3>2, <3>4, <4>2 DEF Holds
    <3> SUFFICES ASSUME NEW q \in Owners, NEW r \in Requests, Holds(q, r)'
                 PROVE  /\ Kind[r] = "CONVERSATION_V2" /\ state'[r] = "RESERVED"
                        /\ bound'[r] = context'[q]
                        /\ \A s \in Owners : (Holds(s, r)' => s = q) /\ ~Consuming(s, r)'
      BY DEF HoldersSound
    <3>5. r # call[p].r
      BY <3>4
    <3>6. \A s \in Owners : ~Consuming(s, r)'
      BY <2>1, <2>2, <3>5 DEF Consuming
    <3> QED BY <2>1, <2>4, <3>6 DEF HoldersSound, durable
  <2> QED BY <2>5, <2>6
<1>5. ASSUME NEW p \in Owners, Commit(p) PROVE HoldersSound'
  <2> DEFINE c == call[p]
  <2>1. /\ c.phase = "CHECKED" /\ c.op \in WriteOps /\ c.r \in Requests /\ lock = p
        /\ StagedOK(p)
    BY <1>0, <1>5 DEF Commit, CallOK, TypeOK, InTransaction, StagedValid
  <2>2. /\ Enter(p, "COMMITTED") /\ lock' = NoOwner /\ UNCHANGED <<capability, context>>
        /\ state' = [state EXCEPT ![c.r] = TargetState(c.op)]
        /\ bound' = IF c.op = "RESERVE_REQUEST" /\ HasBinding(c.r)
                    THEN [bound EXCEPT ![c.r] = context[p]] ELSE bound
    BY <1>5 DEF Commit
  <2>3. /\ call'[p].phase = "COMMITTED" /\ call'[p].op = c.op /\ call'[p].r = c.r
        /\ \A q \in Owners : q # p => call'[q] = call[q]
    BY <1>0, <2>2, EnterType DEF Phases
  <2>4. \A q \in Owners : ~Holds(q, c.r)
    <3>1. CASE c.op = "CONSUME"
      BY <2>1, <3>1 DEF Consuming, HoldersSound
    <3>2. CASE c.op # "CONSUME"
      <4>1. state[c.r] # "RESERVED"
        BY <2>1, <3>2 DEF StagedOK, HeadMatches, WriteOps
      <4> QED BY <2>1, <4>1 DEF HoldersSound
    <3> QED BY <3>1, <3>2
  <2>5. \A q \in Owners, r \in Requests : ~Consuming(q, r)'
    BY <2>2 DEF Consuming
  <2>6. \A q \in Owners, r \in Requests : r # c.r => (Holds(q, r)' <=> Holds(q, r))
    BY <2>2, <2>3 DEF Holds
  <2>7. ASSUME NEW q \in Owners, NEW r \in Requests, r = c.r, Holds(q, r)'
        PROVE  q = p /\ c.op = "RESERVE_REQUEST" /\ Kind[r] = "CONVERSATION_V2"
    BY <2>2, <2>3, <2>4, <2>7 DEF Holds
  <2> SUFFICES ASSUME NEW q \in Owners, NEW r \in Requests, Holds(q, r)'
               PROVE  /\ Kind[r] = "CONVERSATION_V2" /\ state'[r] = "RESERVED"
                      /\ bound'[r] = context'[q]
                      /\ \A s \in Owners : (Holds(s, r)' => s = q) /\ ~Consuming(s, r)'
    BY DEF HoldersSound
  <2>9. CASE r = c.r
    <3>1. q = p /\ c.op = "RESERVE_REQUEST" /\ Kind[r] = "CONVERSATION_V2"
      BY <2>7, <2>9
    <3>2. state'[r] = "RESERVED" /\ bound'[r] = context'[q]
      BY <2>1, <2>2, <2>9, <3>1 DEF TypeOK, TargetState, HasBinding
    <3> QED BY <2>5, <2>7, <2>9, <3>1, <3>2
  <2>10. CASE r # c.r
    <3>1. Holds(q, r)
      BY <2>6, <2>10
    <3>2. state'[r] = state[r] /\ bound'[r] = bound[r] /\ context' = context
      BY <2>1, <2>2, <2>10 DEF TypeOK
    <3> QED BY <2>5, <2>6, <2>10, <3>1, <3>2 DEF HoldersSound
  <2> QED BY <2>9, <2>10
<1>6. CASE Promote \/ Tick \/ UNCHANGED vars
  BY <1>6, HoldersKept DEF Promote, Tick, vars, Holds, Consuming, durable
<1> QED BY <1>1, <1>2, <1>3, <1>4, <1>5, <1>6 DEF Next

-----------------------------------------------------------------------------
(***************************************************************************)
(* The history stays authentic.                                            *)
(***************************************************************************)

\* What a commit makes of the chain it writes.
LEMMA ChainCommitted ==
  ASSUME TypeOK, CallsOK, LockHeld, StagedValid, HistoryAuthentic,
         NEW p \in Owners, Commit(p)
  PROVE  LET c == call[p] IN
         /\ c.op \in WriteOps /\ c.r \in Requests /\ c.at \in Nat /\ 1 < c.at /\ c.at <= now
         /\ StagedOK(p) /\ Promised(c) /\ c.expires \in Nat /\ context[p] \in Contexts
<1>1. call[p].phase = "CHECKED" /\ call[p] \in Calls /\ CallOK(p) /\ lock = p
  BY DEF Commit, TypeOK, CallsOK, LockHeld, InTransaction
<1>2. call[p].op \in WriteOps /\ call[p].r \in Requests /\ conn[p] = "OPEN" /\ Promised(call[p])
  BY <1>1 DEF CallOK, TypeOK, Idle
<1>3. call[p].at \in Nat /\ call[p].expires \in Nat
  BY <1>1 DEF Calls
<1> QED BY <1>1, <1>2, <1>3 DEF StagedValid, CallOK, Promised

\* The rows of the other chains do not move, the head gets its receipts.
LEMMA RowsCommitted ==
  ASSUME TypeOK, NEW p \in Owners, call[p].r \in Requests, call[p].at \in Nat, 1 < call[p].at,
         call[p].op \in WriteOps
  PROVE  LET c == call[p]
             after == AfterInsert(c)
             before == observed[c.r] IN
         /\ \A r \in Requests : r # c.r => after[r] = observed[r]
         /\ c.op = "INITIALIZE" =>
              /\ after[c.r]["UNUSED"] = c.at
              /\ after[c.r]["RESERVED"] = before["RESERVED"]
              /\ after[c.r]["CONSUMED"] = before["CONSUMED"]
         /\ c.op = "RESERVE_REQUEST" =>
              /\ after[c.r]["UNUSED"] = c.at - 1
              /\ after[c.r]["RESERVED"] = c.at
              /\ after[c.r]["CONSUMED"] = before["CONSUMED"]
         /\ c.op = "RESERVE" =>
              /\ after[c.r]["UNUSED"] = before["UNUSED"]
              /\ after[c.r]["RESERVED"] = c.at
              /\ after[c.r]["CONSUMED"] = before["CONSUMED"]
         /\ c.op = "CONSUME" =>
              /\ after[c.r]["UNUSED"] = before["UNUSED"]
              /\ after[c.r]["RESERVED"] = before["RESERVED"]
              /\ after[c.r]["CONSUMED"] = c.at
<1> DEFINE c == call[p]
<1>1. observed \in [Requests -> [Lifecycle -> Nat]] /\ c.r \in Requests
  BY DEF TypeOK
<1>2. observed[c.r] \in [Lifecycle -> Nat]
  BY <1>1
<1> HIDE DEF c
<1>3. CASE c.op = "INITIALIZE"
  <2>1. AfterInsert(c) = [observed EXCEPT ![c.r] = [observed[c.r] EXCEPT !["UNUSED"] = c.at]]
    BY <1>3 DEF AfterInsert
  <2> QED BY <1>1, <1>2, <1>3, <2>1 DEF Lifecycle, c
<1>4. CASE c.op = "RESERVE_REQUEST"
  <2>1. AfterInsert(c) = [observed EXCEPT ![c.r] =
                            [observed[c.r] EXCEPT !["UNUSED"] = c.at - 1, !["RESERVED"] = c.at]]
    BY <1>4 DEF AfterInsert
  <2> QED BY <1>1, <1>2, <1>4, <2>1 DEF Lifecycle, c
<1>5. CASE c.op = "RESERVE"
  <2>1. AfterInsert(c) = [observed EXCEPT ![c.r] = [observed[c.r] EXCEPT !["RESERVED"] = c.at]]
    BY <1>5 DEF AfterInsert
  <2> QED BY <1>1, <1>2, <1>5, <2>1 DEF Lifecycle, c
<1>6. CASE c.op = "CONSUME"
  <2>1. AfterInsert(c) = [observed EXCEPT ![c.r] = [observed[c.r] EXCEPT !["CONSUMED"] = c.at]]
    BY <1>6 DEF AfterInsert
  <2> QED BY <1>1, <1>2, <1>6, <2>1 DEF Lifecycle, c
<1> QED BY <1>3, <1>4, <1>5, <1>6 DEF WriteOps, c

\* A commit extends an authentic history to an authentic one; refused
\* transactions, crashes and closes leave it alone.
LEMMA HistoryStep == IInv /\ [Next]_vars => HistoryAuthentic'
<1> SUFFICES ASSUME TypeOK, CallsOK, LockHeld, StagedValid, HistoryAuthentic, [Next]_vars
             PROVE  HistoryAuthentic'
  BY DEF IInv
<1>1. ASSUME UNCHANGED durable, now <= now', now' \in Nat PROVE HistoryAuthentic'
  <2>1. UNCHANGED <<state, observed, expires, bound, outcome>>
    BY <1>1 DEF durable
  <2>2. \A r \in Requests : ChainAuthentic(r)'
    BY <2>1 DEF HistoryAuthentic, ChainAuthentic
  <2>3. NoneFuture(observed, now)'
    <3>1. \A r \in Requests, s \in Lifecycle : observed[r][s] \in Nat
      BY DEF TypeOK
    <3>2. \A r \in Requests, s \in Lifecycle : observed[r][s] <= now /\ observed'[r][s] = observed[r][s]
      BY <2>1 DEF HistoryAuthentic, NoneFuture
    <3> QED BY <1>1, <3>1, <3>2 DEF NoneFuture, TypeOK
  <2> QED BY <2>1, <2>2, <2>3 DEF HistoryAuthentic, Rows
<1>2. ASSUME NEW p \in Owners, Commit(p) PROVE HistoryAuthentic'
  <2> DEFINE c == call[p]
  <2>1. /\ c.op \in WriteOps /\ c.r \in Requests /\ c.at \in Nat /\ 1 < c.at /\ c.at <= now
        /\ StagedOK(p) /\ Promised(c) /\ c.expires \in Nat /\ context[p] \in Contexts
    BY <1>2, ChainCommitted
  <2>2. /\ state' = [state EXCEPT ![c.r] = TargetState(c.op)]
        /\ observed' = AfterInsert(c)
        /\ expires' = IF c.op \in {"INITIALIZE", "RESERVE_REQUEST"}
                      THEN [expires EXCEPT ![c.r] = c.expires] ELSE expires
        /\ bound' = IF c.op = "RESERVE_REQUEST" /\ HasBinding(c.r)
                    THEN [bound EXCEPT ![c.r] = context[p]] ELSE bound
        /\ outcome' = IF c.op = "CONSUME" THEN [outcome EXCEPT ![c.r] = c.value] ELSE outcome
        /\ now' = now
    BY <1>2 DEF Commit
  <2>3. /\ \A r \in Requests : r # c.r => observed'[r] = observed[r]
        /\ observed' \in [Requests -> [Lifecycle -> Nat]]
    BY <2>1, <2>2, RowsCommitted, AfterInsertType
  <2>4. ChainAuthentic(c.r)
    BY <2>1 DEF HistoryAuthentic
  <2>5. ASSUME NEW r \in Requests, r # c.r PROVE ChainAuthentic(r)'
    <3>1. ChainAuthentic(r)
      BY DEF HistoryAuthentic
    <3>2. /\ state'[r] = state[r] /\ observed'[r] = observed[r] /\ expires'[r] = expires[r]
          /\ bound'[r] = bound[r] /\ outcome'[r] = outcome[r]
      BY <2>1, <2>2, <2>3, <2>5 DEF TypeOK
    <3> QED BY <3>1, <3>2 DEF ChainAuthentic
  <2>6. ASSUME NEW r \in Requests, r = c.r PROVE ChainAuthentic(r)'
    <3> DEFINE before == observed[r]
               after == observed'[r]
    <3>1. /\ before \in [Lifecycle -> Nat] /\ after \in [Lifecycle -> Nat] /\ expires[r] \in Nat
      BY <2>3 DEF TypeOK
    <3>2. /\ before["UNUSED"] \in Nat /\ before["RESERVED"] \in Nat /\ before["CONSUMED"] \in Nat
      BY <3>1 DEF Lifecycle
    <3>3. HeadMatches(c) /\ Timely(c)
      BY <2>1 DEF StagedOK
    <3>4. /\ state[r] # "NONE" =>
              /\ (expires[r] = 0) = (Kind[r] = "CONVERSATION_V2")
              /\ expires[r] # 0 => /\ before["UNUSED"] < expires[r]
                                   /\ before["RESERVED"] < expires[r]
                                   /\ before["CONSUMED"] < expires[r]
          /\ (before["UNUSED"] # 0) = (state[r] \in Lifecycle)
          /\ (before["RESERVED"] # 0) = (state[r] \in {"RESERVED", "CONSUMED"})
          /\ (before["CONSUMED"] # 0) = (state[r] = "CONSUMED")
          /\ before["RESERVED"] # 0 => before["UNUSED"] < before["RESERVED"]
          /\ (bound[r] # NoContext) = (HasBinding(r) /\ state[r] \in {"RESERVED", "CONSUMED"})
          /\ (outcome[r] # NoResult) = (HasBinding(r) /\ state[r] = "CONSUMED")
      BY <2>4, <2>6 DEF ChainAuthentic, Lifecycle
    <3>5. CASE c.op = "INITIALIZE"
      <4>1. /\ state'[r] = "UNUSED" /\ expires'[r] = c.expires /\ bound'[r] = bound[r]
            /\ outcome'[r] = outcome[r] /\ state[r] = "NONE"
        BY <2>1, <2>2, <2>6, <3>3, <3>5 DEF TypeOK, TargetState, HeadMatches
      <4>2. /\ after["UNUSED"] = c.at /\ after["RESERVED"] = before["RESERVED"]
            /\ after["CONSUMED"] = before["CONSUMED"]
        BY <2>1, <2>2, <2>6, <3>5, RowsCommitted
      <4>3. Kind[r] = "BARE" /\ c.at < c.expires
        BY <2>1, <2>6, <3>5 DEF Promised
      <4> HIDE DEF c, before, after
      <4> QED BY <2>1, <3>2, <3>4, <4>1, <4>2, <4>3 DEF ChainAuthentic, Lifecycle, HasBinding, before, after
    <3>6. CASE c.op = "RESERVE_REQUEST"
      <4>1. /\ state'[r] = "RESERVED" /\ expires'[r] = c.expires /\ state[r] = "NONE"
            /\ bound'[r] = IF HasBinding(r) THEN context[p] ELSE bound[r]
            /\ outcome'[r] = outcome[r]
        BY <2>1, <2>2, <2>6, <3>3, <3>6 DEF TypeOK, TargetState, HeadMatches
      <4>2. /\ after["UNUSED"] = c.at - 1 /\ after["RESERVED"] = c.at
            /\ after["CONSUMED"] = before["CONSUMED"]
        BY <2>1, <2>2, <2>6, <3>6, RowsCommitted
      <4>3. IF Kind[r] = "CONVERSATION_V2" THEN c.expires = 0 ELSE c.at < c.expires
        BY <2>1, <2>6, <3>6 DEF Promised
      <4>4. context[p] # NoContext
        BY <2>1, ConstantsAssumption
      <4> HIDE DEF c, before, after
      <4> QED BY <2>1, <3>2, <3>4, <4>1, <4>2, <4>3, <4>4 DEF ChainAuthentic, Lifecycle, before, after
    <3>7. CASE c.op = "RESERVE"
      <4>1. /\ state'[r] = "RESERVED" /\ expires'[r] = expires[r] /\ state[r] = "UNUSED"
            /\ bound'[r] = bound[r] /\ outcome'[r] = outcome[r]
        BY <2>1, <2>2, <2>6, <3>3, <3>7 DEF TypeOK, TargetState, HeadMatches
      <4>2. /\ after["UNUSED"] = before["UNUSED"] /\ after["RESERVED"] = c.at
            /\ after["CONSUMED"] = before["CONSUMED"]
        BY <2>1, <2>2, <2>6, <3>7, RowsCommitted
      <4>3. Kind[r] = "BARE" /\ before["UNUSED"] < c.at /\ (expires[r] # 0 => c.at < expires[r])
        BY <2>1, <2>6, <3>3, <3>7 DEF Promised, Timely
      <4> HIDE DEF c, before, after
      <4> QED BY <2>1, <3>2, <3>4, <4>1, <4>2, <4>3 DEF ChainAuthentic, Lifecycle, HasBinding, before, after
    <3>8. CASE c.op = "CONSUME"
      <4>1. /\ state'[r] = "CONSUMED" /\ expires'[r] = expires[r] /\ state[r] = "RESERVED"
            /\ bound'[r] = bound[r] /\ outcome'[r] = c.value
        BY <2>1, <2>2, <2>6, <3>3, <3>8 DEF TypeOK, TargetState, HeadMatches
      <4>2. /\ after["UNUSED"] = before["UNUSED"] /\ after["RESERVED"] = before["RESERVED"]
            /\ after["CONSUMED"] = c.at
        BY <2>1, <2>2, <2>6, <3>8, RowsCommitted
      <4>3. /\ (c.value # NoResult) = HasBinding(r)
            /\ before["RESERVED"] < c.at /\ (expires[r] # 0 => c.at < expires[r])
        BY <2>1, <2>6, <3>3, <3>8 DEF Promised, Timely
      <4> HIDE DEF c, before, after
      <4> QED BY <2>1, <3>2, <3>4, <4>1, <4>2, <4>3 DEF ChainAuthentic, Lifecycle, HasBinding, before, after
    <3> QED BY <2>1, <3>5, <3>6, <3>7, <3>8 DEF WriteOps
  <2>7. NoneFuture(observed, now)'
    <3> SUFFICES ASSUME NEW r \in Requests, NEW s \in Lifecycle PROVE observed'[r][s] <= now
      BY <2>2 DEF NoneFuture
    <3>1. observed[r][s] <= now /\ now \in Nat
      BY DEF HistoryAuthentic, NoneFuture, TypeOK
    <3>2. CASE r # c.r
      BY <2>3, <3>1, <3>2
    <3>3. CASE r = c.r
      <4>1. observed'[r][s] \in {observed[r][s], c.at, c.at - 1}
        BY <2>1, <2>2, <3>3, RowsCommitted DEF Lifecycle, WriteOps
      <4> QED BY <2>1, <3>1, <4>1
    <3> QED BY <3>2, <3>3
  <2>8. Cardinality(Rows(observed))' < MaxRows
    BY <2>1, <2>2 DEF StagedOK, Rows
  <2>9. \A r \in Requests : ChainAuthentic(r)'
    BY <2>5, <2>6
  <2> QED BY <2>7, <2>8, <2>9 DEF HistoryAuthentic
<1>3. ASSUME NEW p \in Owners, StoreStep(p) \/ Lifetime(p) \/ CallStep(p), ~Commit(p)
      PROVE  HistoryAuthentic'
  <2>1. UNCHANGED durable
    BY <1>3, OnlyCommitWrites
  <2>2. now' = now
    BY <1>3 DEF StoreStep, Stage, Refuse, Busy, Recheck, Rollback, Return, ReadSnapshot, ReadFinish,
         Lifetime, Create, CreateCommit, CreateAbort, Open, Close, Crash, CallStep,
         BeginInitialize, BeginReserveRequest, BeginReserve, BeginConsume, BeginRead, Begin,
         EndAttempt
  <2> QED BY <1>1, <2>1, <2>2 DEF TypeOK
<1>4. CASE Promote BY <1>1, <1>4 DEF Promote, TypeOK
<1>5. CASE Tick BY <1>1, <1>5 DEF Tick, TypeOK
<1>6. CASE UNCHANGED vars BY <1>1, <1>6 DEF vars, durable, TypeOK
<1> QED BY <1>2, <1>3, <1>4, <1>5, <1>6 DEF Next

-----------------------------------------------------------------------------
(***************************************************************************)
(* The theorems.                                                           *)
(***************************************************************************)

\* The inductive invariant holds throughout every behaviour: types, callers'
\* promises, the lock, staged transactions, holders and the stored history.
THEOREM Inductive == Spec => []IInv
<1>1. IInv /\ [Next]_vars => IInv'
  BY TypeStep, CallsStep, LockStep, StagedStep, HoldersStep, HistoryStep DEF IInv
<1> QED BY InitOK, <1>1, PTL DEF Spec

\* Every variable keeps its type, whatever the owners, requests and bounds.
THEOREM TypeCorrect == Spec => []TypeOK
<1>1. IInv => TypeOK
  BY DEF IInv
<1> QED BY Inductive, <1>1, PTL

\* The committed history always authenticates, for every set of owners and
\* requests, every row limit and every lease: concurrent owners, refused
\* transactions and crashes never leave a database the next open refuses.
THEOREM HistoryAlwaysAuthentic == Spec => []HistoryAuthentic
<1>1. IInv => HistoryAuthentic
  BY DEF IInv
<1> QED BY Inductive, <1>1, PTL

\* At most one live owner holds a conversation attempt, and only while the
\* conversation is reserved in that owner's installed context.
THEOREM CapabilityAlwaysSound == Spec => []CapabilitySound
<1>1. IInv => CapabilitySound
  <2> SUFFICES ASSUME IInv, NEW p \in Owners, NEW r \in capability[p]
               PROVE  /\ Kind[r] = "CONVERSATION_V2" /\ state[r] = "RESERVED"
                      /\ bound[r] = context[p]
                      /\ \A q \in Owners : r \in capability[q] => q = p
    BY DEF CapabilitySound
  <2>1. r \in Requests /\ HoldersSound
    BY DEF IInv, TypeOK
  <2>2. Holds(p, r) /\ \A q \in Owners : r \in capability[q] => Holds(q, r)
    BY DEF Holds
  <2> QED BY <2>1, <2>2 DEF HoldersSound
<1> QED BY Inductive, <1>1, PTL

\* Conversation work is consumed only in the installed context it was reserved in.
THEOREM AlwaysConsumedInContext == Spec => ConsumedInContext
<1> DEFINE InContext ==
      \A r \in Requests :
          Kind[r] \in Conversation /\ state[r] = "RESERVED" /\ state'[r] = "CONSUMED"
              => \E p \in Owners : lock = p /\ bound[r] = context[p]
<1>1. IInv /\ [Next]_vars => [InContext]_vars
  <2> SUFFICES ASSUME IInv, [Next]_vars, NEW r \in Requests,
                      Kind[r] \in Conversation, state[r] = "RESERVED", state'[r] = "CONSUMED"
               PROVE  \E p \in Owners : lock = p /\ bound[r] = context[p]
    OBVIOUS
  <2>1. state' # state
    OBVIOUS
  <2>2. PICK p \in Owners : Commit(p)
    BY <2>1, OnlyCommitWrites DEF Next, Promote, Tick, vars, durable
  <2>3. /\ call[p].op \in WriteOps /\ call[p].r \in Requests /\ lock = p /\ StagedOK(p)
        /\ state' = [state EXCEPT ![call[p].r] = TargetState(call[p].op)]
    BY <2>2, ChainCommitted DEF IInv, Commit, LockHeld, InTransaction
  <2>4. call[p].r = r /\ call[p].op = "CONSUME"
    BY <2>3 DEF IInv, TypeOK, TargetState, WriteOps
  <2> QED BY <2>3, <2>4 DEF StagedOK
<1> QED BY Inductive, <1>1, PTL DEF Spec, ConsumedInContext

\* Concurrent owners, crashes and all, implement the ledger of one-shot
\* attempts: reserved at most once, consumed at most once and never rebound.
THEOREM StoreImplementsLedger == Spec => LedgerImplemented
<1>1. Init => Ledger!LedgerInit
  BY DEF Init, Ledger!LedgerInit
<1>2. IInv /\ [Next]_vars => [Ledger!LedgerNext]_(Ledger!ledger)
  <2> SUFFICES ASSUME IInv, [Next]_vars, ~UNCHANGED <<state, outcome>> PROVE Ledger!LedgerNext
    BY DEF Ledger!ledger
  <2>1. PICK p \in Owners : Commit(p)
    BY OnlyCommitWrites DEF Next, Promote, Tick, vars, durable
  <2> DEFINE c == call[p]
  <2>2. /\ c.op \in WriteOps /\ c.r \in Requests /\ HeadMatches(c)
        /\ state' = [state EXCEPT ![c.r] = TargetState(c.op)]
        /\ outcome' = IF c.op = "CONSUME" THEN [outcome EXCEPT ![c.r] = c.value] ELSE outcome
    BY <2>1, ChainCommitted DEF IInv, Commit, StagedOK
  <2>3. c.value \in Results \cup {NoResult}
    BY DEF IInv, TypeOK, Calls
  <2> HIDE DEF c
  <2>4. CASE c.op = "INITIALIZE"
    <3>1. Ledger!Witness(c.r)
      BY <2>2, <2>4 DEF Ledger!Witness, HeadMatches, TargetState
    <3> QED BY <2>2, <3>1 DEF Ledger!LedgerNext
  <2>5. CASE c.op \in {"RESERVE_REQUEST", "RESERVE"}
    <3>1. Ledger!Reserve(c.r)
      BY <2>2, <2>5 DEF Ledger!Reserve, HeadMatches, TargetState
    <3> QED BY <2>2, <3>1 DEF Ledger!LedgerNext
  <2>6. CASE c.op = "CONSUME"
    <3>1. Ledger!Consume(c.r, c.value)
      BY <2>2, <2>6 DEF Ledger!Consume, HeadMatches, TargetState
    <3> QED BY <2>2, <2>3, <3>1 DEF Ledger!LedgerNext
  <2> QED BY <2>2, <2>4, <2>5, <2>6 DEF WriteOps
<1> QED BY Inductive, <1>1, <1>2, PTL DEF Spec, LedgerImplemented, Ledger!LedgerSpec

\* No route ever carries more reserved generic dispatches than its capacity,
\* although owners count before they insert.
THEOREM RouteCapacityAlwaysKept == Spec => []RouteCapacityKept
<1> DEFINE Room == \A route : Cardinality(Active(state, route)) <= RouteCapacity
<1>0. ASSUME NEW route
      PROVE  IsFiniteSet(Active(state, route)) /\ Cardinality(Active(state, route)) \in Nat
  <2>1. Active(state, route) \subseteq Requests
    BY DEF Active
  <2> QED BY <2>1, ConstantsAssumption, FS_Subset, FS_CardinalityType
<1>1. Init => Room
  <2> SUFFICES ASSUME Init, NEW route PROVE Cardinality(Active(state, route)) <= RouteCapacity
    OBVIOUS
  <2>1. Active(state, route) = {}
    BY DEF Init, Active
  <2> QED BY <2>1, FS_EmptySet, ConstantsAssumption
<1>2. IInv /\ Room /\ [Next]_vars => Room'
  <2> SUFFICES ASSUME IInv, Room, [Next]_vars, NEW route
               PROVE  Cardinality(Active(state, route))' <= RouteCapacity
    OBVIOUS
  <2>1. CASE UNCHANGED state
    BY <2>1 DEF Active
  <2>2. CASE ~UNCHANGED state
    <3>1. PICK p \in Owners : Commit(p)
      BY <2>2, OnlyCommitWrites DEF Next, Promote, Tick, vars, durable
    <3> DEFINE c == call[p]
    <3>2. /\ c.op \in WriteOps /\ c.r \in Requests /\ StagedOK(p) /\ Promised(c)
          /\ state' = [state EXCEPT ![c.r] = TargetState(c.op)]
      BY <3>1, ChainCommitted DEF IInv, Commit
    <3>3. Active(state, route)' \subseteq Active(state, route) \cup {c.r}
      BY <3>2 DEF Active, IInv, TypeOK
    <3>4. IsFiniteSet(Active(state, route)) /\ Cardinality(Active(state, route)) \in Nat
      BY <1>0
    <3>5. CASE /\ c.op = "RESERVE_REQUEST" /\ Kind[c.r] = "GENERIC" /\ Route[c.r] = route
      <4>1. Cardinality(Active(state, route)) < RouteCapacity
        BY <3>2, <3>5 DEF StagedOK, RouteOpen
      <4>2. /\ IsFiniteSet(Active(state, route) \cup {c.r})
            /\ Cardinality(Active(state, route) \cup {c.r}) <= Cardinality(Active(state, route)) + 1
        BY <3>4, FS_AddElement
      <4>3. /\ Cardinality(Active(state, route)') \in Nat
            /\ Cardinality(Active(state, route) \cup {c.r}) \in Nat
            /\ Cardinality(Active(state, route)') <= Cardinality(Active(state, route) \cup {c.r})
        BY <3>3, <4>2, FS_Subset, FS_CardinalityType
      <4> QED BY <3>4, <4>1, <4>2, <4>3, ConstantsAssumption
    <3>6. CASE ~(/\ c.op = "RESERVE_REQUEST" /\ Kind[c.r] = "GENERIC" /\ Route[c.r] = route)
      <4>1. c.r \notin Active(state, route)'
        BY <3>2, <3>6 DEF Active, TargetState, Promised, WriteOps, IInv, TypeOK
      <4>2. Active(state, route)' \subseteq Active(state, route)
        BY <3>3, <4>1
      <4>3. /\ Cardinality(Active(state, route)') \in Nat
            /\ Cardinality(Active(state, route)') <= Cardinality(Active(state, route))
        BY <3>4, <4>2, FS_Subset, FS_CardinalityType
      <4> QED BY <3>4, <4>3, ConstantsAssumption
    <3> QED BY <3>5, <3>6
  <2> QED BY <2>1, <2>2
<1>3. Room => RouteCapacityKept
  BY DEF RouteCapacityKept
<1> QED BY Inductive, <1>1, <1>2, <1>3, PTL DEF Spec

-----------------------------------------------------------------------------
(***************************************************************************)
(* What recover() reports.                                                 *)
(***************************************************************************)

\* The history a recovery reads under its snapshot is never newer than the
\* clock it samples after it: recover(clock=...) refuses no concurrent receipt.
THEOREM RecoveryAlwaysServed == Spec => []RecoveryNeverRefused
<1>1. Init => RecoveryNeverRefused
  BY DEF Init, RecoveryNeverRefused
<1>2. IInv /\ RecoveryNeverRefused /\ [Next]_vars => RecoveryNeverRefused'
  <2> SUFFICES ASSUME IInv, RecoveryNeverRefused, [Next]_vars PROVE ~recovered'.refused
    BY DEF RecoveryNeverRefused
  <2>1. CASE UNCHANGED recovered
    BY <2>1 DEF RecoveryNeverRefused
  <2>2. ASSUME NEW p \in Owners, ReadFinish(p) PROVE ~recovered'.refused
    <3>1. CASE call[p].op # "RECOVER"
      BY <2>2, <3>1 DEF ReadFinish, RecoveryNeverRefused
    <3>2. CASE call[p].op = "RECOVER"
      <4>1. NoneFuture(observed, ReadTime(call[p]))
        BY <3>2 DEF ReadTime, IInv, HistoryAuthentic
      <4>2. recovered \in [chains : Nat, receipts : Nat, consumed : Nat, refused : BOOLEAN]
        BY DEF IInv, TypeOK
      <4>3. CASE InputsCurrent(p)
        <5>1. recovered' = [recovered EXCEPT !.chains = Cardinality(Chains(state)),
                                !.receipts = Cardinality(Rows(observed)),
                                !.consumed = Cardinality(Consumed(state))]
          BY <2>2, <3>2, <4>1, <4>3 DEF ReadFinish
        <5> QED BY <4>2, <5>1 DEF RecoveryNeverRefused
      <4>4. CASE ~InputsCurrent(p)
        <5>1. recovered' = [recovered EXCEPT !.refused = @ \/ InputsCurrent(p)]
          BY <2>2, <3>2, <4>4 DEF ReadFinish
        <5> QED BY <4>2, <4>4, <5>1 DEF RecoveryNeverRefused
      <4> QED BY <4>3, <4>4
    <3> QED BY <3>1, <3>2
  <2> QED BY <2>1, <2>2, OnlyReadFinishReports
<1> QED BY Inductive, <1>1, <1>2, PTL DEF Spec

\* The last report counts no more than what is committed now.
ReportBehind ==
    /\ recovered.chains <= Cardinality(Chains(state))
    /\ recovered.receipts <= Cardinality(Rows(observed))
    /\ recovered.consumed <= Cardinality(Consumed(state))

\* A commit only adds: rows, chains and consumptions are never taken back.
LEMMA CommitAdds ==
  ASSUME IInv, NEW p \in Owners, Commit(p)
  PROVE  /\ Chains(state) \subseteq Chains(state')
         /\ Consumed(state) \subseteq Consumed(state')
         /\ Rows(observed) \subseteq Rows(observed')
<1> DEFINE c == call[p]
<1>1. /\ c.op \in WriteOps /\ c.r \in Requests /\ c.at \in Nat /\ 1 < c.at
      /\ HeadMatches(c)
  BY ChainCommitted DEF IInv, StagedOK
<1>2. /\ state' = [state EXCEPT ![c.r] = TargetState(c.op)]
      /\ observed' = AfterInsert(c)
  BY DEF Commit
<1>3. state \in [Requests -> States] /\ observed \in [Requests -> [Lifecycle -> Nat]]
  BY DEF IInv, TypeOK
<1>4. Chains(state) \subseteq Chains(state')
  BY <1>1, <1>2, <1>3 DEF Chains, TargetState
<1>5. Consumed(state) \subseteq Consumed(state')
  BY <1>1, <1>2, <1>3 DEF Consumed, HeadMatches, TargetState, WriteOps
<1>6. ASSUME NEW r \in Requests, NEW s \in Lifecycle, observed[r][s] # 0
      PROVE  observed'[r][s] # 0
  <2>1. CASE r # c.r
    BY <1>1, <1>2, <1>6, <2>1, RowsCommitted DEF IInv
  <2>2. CASE r = c.r
    <3>1. observed'[r][s] \in {observed[r][s], c.at, c.at - 1}
      BY <1>1, <1>2, <2>2, RowsCommitted DEF IInv, Lifecycle, WriteOps
    <3> HIDE DEF c
    <3> QED BY <1>1, <1>6, <3>1
  <2> QED BY <2>1, <2>2
<1>7. Rows(observed) \subseteq Rows(observed')
  BY <1>6 DEF Rows
<1> QED BY <1>4, <1>5, <1>7

\* What the end of a read makes of the last report.
LEMMA ReportMade ==
  ASSUME TypeOK, NEW p \in Owners, ReadFinish(p)
  PROVE  \/ UNCHANGED <<recovered.chains, recovered.receipts, recovered.consumed>>
         \/ /\ recovered'.chains = Cardinality(Chains(state))
            /\ recovered'.receipts = Cardinality(Rows(observed))
            /\ recovered'.consumed = Cardinality(Consumed(state))
<1>1. ASSUME NEW old \in [chains : Nat, receipts : Nat, consumed : Nat, refused : BOOLEAN],
             NEW a, NEW b, NEW c, NEW d
      PROVE  LET filled == [old EXCEPT !.chains = a, !.receipts = b, !.consumed = c]
                 marked == [old EXCEPT !.refused = d]
             IN  /\ filled.chains = a /\ filled.receipts = b /\ filled.consumed = c
                 /\ marked.chains = old.chains /\ marked.receipts = old.receipts
                 /\ marked.consumed = old.consumed
  OBVIOUS
<1> DEFINE chains == Cardinality(Chains(state))
           receipts == Cardinality(Rows(observed))
           consumed == Cardinality(Consumed(state))
           refused == recovered.refused \/ InputsCurrent(p)
<1>2. \/ recovered' = recovered
      \/ recovered' = [recovered EXCEPT !.chains = chains, !.receipts = receipts,
                                        !.consumed = consumed]
      \/ recovered' = [recovered EXCEPT !.refused = refused]
  BY DEF ReadFinish
<1>3. recovered \in [chains : Nat, receipts : Nat, consumed : Nat, refused : BOOLEAN]
  BY DEF TypeOK
<1> SUFFICES \/ UNCHANGED <<recovered.chains, recovered.receipts, recovered.consumed>>
             \/ /\ recovered'.chains = chains /\ recovered'.receipts = receipts
                /\ recovered'.consumed = consumed
  OBVIOUS
<1> HIDE DEF chains, receipts, consumed, refused
<1> QED BY <1>1, <1>2, <1>3

\* Whatever the owners do, the committed history stays ahead of the reports.
LEMMA ReportStep == IInv /\ ReportBehind /\ [Next]_vars => ReportBehind'
<1> SUFFICES ASSUME IInv, ReportBehind, [Next]_vars PROVE ReportBehind'
  OBVIOUS
<1>0. recovered \in [chains : Nat, receipts : Nat, consumed : Nat, refused : BOOLEAN]
  BY DEF IInv, TypeOK
<1>1. ASSUME NEW p \in Owners, ReadFinish(p) PROVE ReportBehind'
  <2>1. UNCHANGED durable
    BY <1>1 DEF ReadFinish
  <2>2. /\ Chains(state)' = Chains(state) /\ Rows(observed)' = Rows(observed)
        /\ Consumed(state)' = Consumed(state)
    BY <2>1 DEF durable, Chains, Rows, Consumed
  <2>3. TypeOK
    BY DEF IInv
  <2> QED BY <1>1, <2>2, <2>3, ReportMade, CountsAreNat DEF ReportBehind
<1>2. ASSUME NEW p \in Owners, Commit(p) PROVE ReportBehind'
  <2>1. recovered' = recovered
    BY <1>2 DEF Commit
  <2>2. /\ Chains(state) \subseteq Chains(state') /\ Consumed(state) \subseteq Consumed(state')
        /\ Rows(observed) \subseteq Rows(observed')
    BY <1>2, CommitAdds
  <2>3. /\ IsFiniteSet(Chains(state')) /\ IsFiniteSet(Consumed(state'))
        /\ IsFiniteSet(Rows(observed'))
    BY CountsFinite
  <2>4. /\ Cardinality(Chains(state)) <= Cardinality(Chains(state'))
        /\ Cardinality(Consumed(state)) <= Cardinality(Consumed(state'))
        /\ Cardinality(Rows(observed)) <= Cardinality(Rows(observed'))
    BY <2>2, <2>3, FS_Subset
  <2>5. /\ Cardinality(Chains(state')) \in Nat /\ Cardinality(Consumed(state')) \in Nat
        /\ Cardinality(Rows(observed')) \in Nat
    BY <2>3, FS_CardinalityType
  <2> QED BY <1>0, <2>1, <2>4, <2>5, CountsAreNat DEF ReportBehind
<1>3. CASE UNCHANGED durable /\ UNCHANGED recovered
  BY <1>3 DEF ReportBehind, durable, Chains, Consumed, Rows
<1> QED
  BY <1>1, <1>2, <1>3, OnlyReadFinishReports, OnlyCommitWrites DEF Next, Promote, Tick, vars, durable

\* A later recovery, by whichever owner and across crashes, never reports fewer
\* chains, receipts or consumptions than an earlier one (_replay_progression).
THEOREM ReplayAlwaysProgresses == Spec => ReplayProgression
<1> DEFINE Grows == /\ recovered.chains <= recovered'.chains
                    /\ recovered.receipts <= recovered'.receipts
                    /\ recovered.consumed <= recovered'.consumed
<1>1. Init => ReportBehind
  <2> SUFFICES ASSUME Init PROVE ReportBehind
    OBVIOUS
  <2>1. recovered.chains = 0 /\ recovered.receipts = 0 /\ recovered.consumed = 0
    BY DEF Init
  <2> QED BY <2>1, CountsAreNat DEF ReportBehind
<1>2. IInv /\ ReportBehind /\ [Next]_vars => [Grows]_recovered
  <2> SUFFICES ASSUME IInv, ReportBehind, [Next]_vars, ~UNCHANGED recovered PROVE Grows
    OBVIOUS
  <2>1. PICK p \in Owners : ReadFinish(p)
    BY OnlyReadFinishReports
  <2>2. recovered \in [chains : Nat, receipts : Nat, consumed : Nat, refused : BOOLEAN] /\ TypeOK
    BY DEF IInv, TypeOK
  <2> QED BY <2>1, <2>2, ReportMade DEF ReportBehind
<1> QED BY Inductive, ReportStep, <1>1, <1>2, PTL DEF Spec, ReplayProgression

-----------------------------------------------------------------------------
(***************************************************************************)
(* What is dead stays dead.                                                *)
(***************************************************************************)

\* p has a transaction or an answer on its way that keeps r from being dead.
Flying(p, r) ==
    /\ call[p].r = r
    /\ \/ call[p].op = "CONSUME" /\ call[p].phase \in {"STAGED", "CHECKED"}
       \/ call[p].op = "RESERVE_REQUEST" /\ call[p].phase = "COMMITTED"
       \/ /\ call[p].op = "CONSUME" /\ call[p].phase = "CALLED"
          /\ Kind[r] # "CONVERSATION_V2" /\ call[p].at < expires[r]

\* A step that neither touches a dead chain nor lets somebody hold it or start
\* to consume it leaves it dead.
LEMMA DeadKept ==
  ASSUME TypeOK, NEW r \in Requests, Dead(r),
         state'[r] = state[r], expires'[r] = expires[r], now' \in Nat, now <= now',
         \A p \in Owners : r \in capability'[p] => r \in capability[p],
         \A p \in Owners : Flying(p, r)' => Flying(p, r)
  PROVE  Dead(r)'
<1>1. InFlight(r) = (\E p \in Owners : Flying(p, r))
  BY DEF InFlight, Flying
<1>2. InFlight(r)' = (\E p \in Owners : Flying(p, r)')
  BY DEF InFlight, Flying
<1>3. now \in Nat /\ expires[r] \in Nat
  BY DEF TypeOK
<1> QED BY <1>1, <1>2, <1>3 DEF Dead

\* An owner that takes up, leaves or loses a call revives nothing: what it asks
\* for from now on comes too late.
LEMMA DeadOutside ==
  ASSUME IInv, NEW r \in Requests, Dead(r), NEW p \in Owners, Lifetime(p) \/ CallStep(p)
  PROVE  Dead(r)'
<1>0. /\ TypeOK /\ call \in [Owners -> Calls] /\ capability \in [Owners -> SUBSET Requests]
      /\ now \in Nat
  BY DEF IInv, TypeOK
<1>1. UNCHANGED durable /\ now' = now
  BY DEF Lifetime, Create, CreateCommit, CreateAbort, Open, Close, Crash, CallStep,
         BeginInitialize, BeginReserveRequest, BeginReserve, BeginConsume, BeginRead, Begin,
         EndAttempt
<1>2. \A q \in Owners : r \in capability'[q] => r \in capability[q]
  BY <1>0 DEF Lifetime, Create, CreateCommit, CreateAbort, Open, Close, Crash, CallStep,
         BeginInitialize, BeginReserveRequest, BeginReserve, BeginConsume, BeginRead, Begin,
         EndAttempt
<1>3. \A q \in Owners : Flying(q, r)' => Flying(q, r)
  <2>1. CASE UNCHANGED call
    BY <1>1, <2>1 DEF Flying, durable
  <2>2. CASE Crash(p)
    BY <1>0, <1>1, <2>2, EnterIdle DEF Crash, Flying, durable
  <2>3. ASSUME NEW c, Begin(p, c), c.phase = "CALLED", c.op = "CONSUME" => c.at = now
        PROVE  \A q \in Owners : Flying(q, r)' => Flying(q, r)
    <3>1. call'[p] = c /\ \A q \in Owners : q # p => call'[q] = call[q]
      BY <1>0, <2>3 DEF Begin
    <3>2. expires' = expires /\ expires[r] \in Nat
      BY <1>0, <1>1 DEF durable, TypeOK
    <3>3. ~Flying(p, r)'
      BY <1>0, <2>3, <3>1, <3>2 DEF Flying, Dead
    <3> QED BY <3>1, <3>2, <3>3 DEF Flying
  <2>4. \/ UNCHANGED call
        \/ Crash(p)
        \/ \E c : Begin(p, c) /\ c.phase = "CALLED" /\ (c.op = "CONSUME" => c.at = now)
    <3>1. CASE Lifetime(p)
      BY <3>1 DEF Lifetime, Create, CreateCommit, CreateAbort, Open, Close
    <3>2. ASSUME NEW s \in Requests, BeginInitialize(p, s)
          PROVE  \E c : Begin(p, c) /\ c.phase = "CALLED" /\ (c.op = "CONSUME" => c.at = now)
      <4>1. PICK lease \in 1..MaxLease :
              Begin(p, [op |-> "INITIALIZE", r |-> s, at |-> now,
                        expires |-> now + lease, value |-> NoResult, phase |-> "CALLED"])
        BY <3>2 DEF BeginInitialize
      <4> QED BY <4>1
    <3>3. ASSUME NEW s \in Requests, BeginReserveRequest(p, s) \/ BeginReserve(p, s)
          PROVE  \E c : Begin(p, c) /\ c.phase = "CALLED" /\ (c.op = "CONSUME" => c.at = now)
      <4>1. CASE BeginReserveRequest(p, s)
        <5>1. PICK expiry \in IF Kind[s] = "CONVERSATION_V2" THEN {0}
                              ELSE {now + lease : lease \in 1..MaxLease} :
                Begin(p, [op |-> "RESERVE_REQUEST", r |-> s, at |-> now,
                          expires |-> expiry, value |-> NoResult, phase |-> "CALLED"])
          BY <4>1 DEF BeginReserveRequest
        <5> QED BY <5>1
      <4>2. CASE BeginReserve(p, s)
        BY <4>2 DEF BeginReserve
      <4> QED BY <3>3, <4>1, <4>2
    <3>4. ASSUME NEW s \in Requests, BeginConsume(p, s)
          PROVE  \E c : Begin(p, c) /\ c.phase = "CALLED" /\ (c.op = "CONSUME" => c.at = now)
      <4>1. PICK value \in IF HasBinding(s) THEN Results ELSE {NoResult} :
              Begin(p, [op |-> "CONSUME", r |-> s, at |-> now, expires |-> 0,
                        value |-> value, phase |-> "CALLED"])
        BY <3>4 DEF BeginConsume
      <4> QED BY <4>1
    <3>5. ASSUME NEW op \in ReadOps, BeginRead(p, op)
          PROVE  \E c : Begin(p, c) /\ c.phase = "CALLED" /\ (c.op = "CONSUME" => c.at = now)
      BY <3>5 DEF BeginRead
    <3> QED BY <3>1, <3>2, <3>3, <3>4, <3>5 DEF CallStep, EndAttempt
  <2> QED BY <2>1, <2>2, <2>3, <2>4
<1> QED BY <1>0, <1>1, <1>2, <1>3, DeadKept DEF durable

\* No operation revives a dead chain: a consumption of it fails the owner gate
\* or comes after its expiry, and a reservation finds it reserved.
LEMMA DeadInside ==
  ASSUME IInv, NEW r \in Requests, Dead(r), NEW p \in Owners, StoreStep(p)
  PROVE  Dead(r)'
<1>0. /\ TypeOK /\ call \in [Owners -> Calls] /\ capability \in [Owners -> SUBSET Requests]
      /\ now \in Nat /\ expires[r] \in Nat /\ ~Flying(p, r)
  BY DEF IInv, TypeOK, Dead, InFlight, Flying
<1>1. now' = now
  BY DEF StoreStep, Stage, Refuse, Busy, Recheck, Commit, Rollback, Return, ReadSnapshot, ReadFinish
<1>2. CASE Commit(p)
  <2> DEFINE c == call[p]
  <2>1. c.op \in WriteOps /\ c.r \in Requests /\ HeadMatches(c) /\ c.phase = "CHECKED"
    BY <1>2, ChainCommitted DEF IInv, StagedOK, Commit
  <2>2. c.r # r
    BY <1>0, <2>1 DEF Flying, Dead, HeadMatches, WriteOps
  <2>3. state'[r] = state[r] /\ expires'[r] = expires[r] /\ capability' = capability
    BY <1>0, <1>2, <2>1, <2>2 DEF Commit, TypeOK
  <2>4. Enter(p, "COMMITTED")
    BY <1>2 DEF Commit
  <2>5. call'[p].r = c.r /\ \A q \in Owners : q # p => call'[q] = call[q]
    BY <1>0, <2>4, EnterType DEF Phases
  <2>6. \A q \in Owners : Flying(q, r)' => Flying(q, r)
    BY <2>2, <2>3, <2>5 DEF Flying
  <2> QED BY <1>0, <1>1, <2>3, <2>6, DeadKept
<1>3. CASE ~Commit(p)
  <2>1. UNCHANGED durable
    BY <1>3, OnlyCommitWrites
  <2>2. ASSUME NEW q \in Owners, r \in capability'[q] PROVE r \in capability[q]
    <3>1. CASE Return(p)
      BY <1>0, <2>2, <3>1 DEF Return, Flying
    <3>2. CASE ~Return(p)
      BY <1>0, <1>3, <2>2, <3>2
      DEF StoreStep, Stage, Refuse, Busy, Recheck, Rollback, ReadSnapshot, ReadFinish, Spend
    <3> QED BY <3>1, <3>2
  <2>3. \A q \in Owners : Flying(q, r)' => Flying(q, r)
    <3>1. CASE call' = [call EXCEPT ![p] = Idle]
      BY <1>0, <2>1, <3>1, EnterIdle DEF Flying, durable
    <3>2. CASE Stage(p)
      <4>1. Enter(p, "STAGED") /\ CanStage(p) /\ call[p].phase = "CALLED"
        BY <3>2 DEF Stage
      <4>2. /\ call'[p].phase = "STAGED" /\ call'[p].op = call[p].op /\ call'[p].r = call[p].r
            /\ call'[p].at = call[p].at /\ \A q \in Owners : q # p => call'[q] = call[q]
        BY <1>0, <4>1, EnterType DEF Phases
      <4>3. ~Flying(p, r)'
        <5> SUFFICES ASSUME Flying(p, r)' PROVE FALSE
          OBVIOUS
        <5>1. call[p].r = r /\ call[p].op = "CONSUME"
          BY <4>2 DEF Flying
        <5>2. Kind[r] # "CONVERSATION_V2"
          BY <4>1, <5>1 DEF CanStage, OwnsAttempt, Dead
        <5>3. expires[r] # 0
          BY <5>2 DEF IInv, HistoryAuthentic, ChainAuthentic, Dead
        <5>4. call[p].at < expires[r]
          BY <4>1, <5>1, <5>3 DEF CanStage, Timely
        <5> QED BY <1>0, <4>1, <5>1, <5>2, <5>4 DEF Flying
      <4> QED BY <2>1, <4>2, <4>3 DEF Flying, durable
    <3>3. CASE Recheck(p)
      <4>1. Enter(p, "CHECKED") /\ call[p].phase = "STAGED"
        BY <3>3 DEF Recheck
      <4>2. /\ call'[p].phase = "CHECKED" /\ call'[p].op = call[p].op /\ call'[p].r = call[p].r
            /\ \A q \in Owners : q # p => call'[q] = call[q]
        BY <1>0, <4>1, EnterType DEF Phases
      <4> QED BY <2>1, <4>1, <4>2 DEF Flying, durable
    <3>4. CASE ReadSnapshot(p)
      <4>1. Enter(p, "READING")
        BY <3>4 DEF ReadSnapshot
      <4>2. call'[p].phase = "READING" /\ \A q \in Owners : q # p => call'[q] = call[q]
        BY <1>0, <4>1, EnterType DEF Phases
      <4> QED BY <2>1, <4>2 DEF Flying, durable
    <3> QED
      BY <1>3, <3>1, <3>2, <3>3, <3>4 DEF StoreStep, Refuse, Busy, Rollback, Return, ReadFinish
  <2> QED BY <1>0, <1>1, <2>1, <2>2, <2>3, DeadKept DEF durable
<1> QED BY <1>2, <1>3

\* A conversation nobody holds any more and a leased reservation past its expiry
\* never become work again, whoever retries, crashes or reopens the store
\* ("Expired reservations remain evidence and never become reusable work").
THEOREM DeadForever == Spec => DeadStaysDead
<1>1. IInv /\ [Next]_vars => [\A r \in Requests : Dead(r) => Dead(r)']_vars
  <2> SUFFICES ASSUME IInv, [Next]_vars, NEW r \in Requests, Dead(r) PROVE Dead(r)'
    OBVIOUS
  <2>1. CASE \E p \in Owners : StoreStep(p) \/ Lifetime(p) \/ CallStep(p)
    BY <2>1, DeadInside, DeadOutside
  <2>2. CASE Promote \/ Tick \/ UNCHANGED vars
    <3>1. UNCHANGED durable /\ UNCHANGED <<capability, call>> /\ (now' = now \/ now' = now + 1)
      BY <2>2 DEF Promote, Tick, vars, durable
    <3>2. TypeOK /\ now \in Nat
      BY DEF IInv, TypeOK
    <3> QED BY <3>1, <3>2, DeadKept DEF durable, Flying
  <2> QED BY <2>1, <2>2 DEF Next
<1> QED BY Inductive, <1>1, PTL DEF Spec, DeadStaysDead

-----------------------------------------------------------------------------
(***************************************************************************)
(* What a death leaves of the files.                                       *)
(***************************************************************************)

\* Nobody has the store open; what the next owner's open asks of the files; and
\* the two remains of a death that no open accepts: a database without a schema,
\* and a journal that only an owner who is still there rolls back.
Unopened == \A p \in Owners : conn[p] = "CLOSED"
Openable == db = "READY" /\ journal = "NONE" /\ lock = NoOwner /\ NoneFuture(observed, now)
Stranded == Unopened /\ (db = "EMPTY" \/ journal = "HOT")

\* A database is created by one owner alone, before anybody opens it, and a
\* journal is open exactly while somebody writes.
FilesOK ==
    /\ \A p \in Owners : conn[p] = "CREATING" =>
          db = "EMPTY" /\ \A q \in Owners : q # p => conn[q] = "CLOSED"
    /\ (\E p \in Owners : conn[p] = "OPEN") => db = "READY"
    /\ journal # "NONE" => db = "READY"
    /\ journal = "OPEN" <=> lock # NoOwner

\* A call under way is that of an owner who has the store open; the calls of a
\* transaction are those that hold the lock.
LEMMA BusyIsOpen ==
  ASSUME IInv, NEW p \in Owners
  PROVE  /\ call[p].phase # "IDLE" => conn[p] = "OPEN"
         /\ conn[p] \in {"CLOSED", "CREATING", "OPEN"}
         /\ (call[p].phase \in {"STAGED", "CHECKED"}) = (lock = p)
  BY DEF IInv, TypeOK, CallsOK, CallOK, LockHeld, InTransaction, Idle

\* Every operation and every death keeps the files as FilesOK says.
LEMMA FilesStep == IInv /\ FilesOK /\ [Next]_vars => FilesOK'
<1> SUFFICES ASSUME IInv, FilesOK, [Next]_vars PROVE FilesOK'
  OBVIOUS
<1> USE ConstantsAssumption DEF connections
<1>0. conn \in [Owners -> {"CLOSED", "CREATING", "OPEN"}] /\ lock \in Owners \cup {NoOwner}
  BY DEF IInv, TypeOK
<1>1. ASSUME NEW p \in Owners, StoreStep(p) PROVE FilesOK'
  <2>1. conn' = conn /\ db' = db
    BY <1>1 DEF StoreStep, Stage, Refuse, Busy, Recheck, Commit, Rollback, Return, ReadSnapshot, ReadFinish
  <2>2. conn[p] = "OPEN"
    BY <1>1, BusyIsOpen DEF StoreStep, Stage, Refuse, Busy, Recheck, Commit, Rollback, Return,
                            ReadSnapshot, ReadFinish
  <2>3. db = "READY"
    BY <2>2 DEF FilesOK
  <2>4. journal' = "OPEN" <=> lock' # NoOwner
    <3>1. CASE Stage(p)
      BY <3>1 DEF Stage
    <3>2. CASE Refuse(p) \/ ReadSnapshot(p)
      BY <3>2 DEF Refuse, ReadSnapshot, FilesOK
    <3>3. CASE Commit(p) \/ Rollback(p)
      BY <3>3 DEF Commit, Rollback
    <3>4. CASE Busy(p) \/ Recheck(p) \/ Return(p) \/ ReadFinish(p)
      BY <3>4 DEF Busy, Recheck, Return, ReadFinish, FilesOK
    <3> QED BY <1>1, <3>1, <3>2, <3>3, <3>4 DEF StoreStep
  <2> QED BY <2>1, <2>3, <2>4 DEF FilesOK
<1>2. ASSUME NEW p \in Owners, Lifetime(p) PROVE FilesOK'
  <2>1. CASE Create(p)
    <3>1. \A q \in Owners : conn[q] = "CLOSED"
      BY <1>0, <2>1 DEF Create, FilesOK
    <3> QED BY <1>0, <2>1, <3>1 DEF Create, FilesOK
  <2>2. CASE CreateCommit(p)
    BY <1>0, <2>2 DEF CreateCommit, FilesOK
  <2>3. CASE CreateAbort(p)
    BY <1>0, <2>3 DEF CreateAbort, FilesOK
  <2>4. CASE Open(p)
    BY <1>0, <2>4 DEF Open, FilesOK
  <2>5. CASE Close(p)
    BY <1>0, <2>5 DEF Close, FilesOK
  <2>6. CASE Crash(p)
    <3>1. lock = p => journal = "OPEN" /\ db = "READY"
      BY <1>0 DEF FilesOK
    <3> QED BY <1>0, <2>6, <3>1 DEF Crash, FilesOK
  <2> QED BY <1>2, <2>1, <2>2, <2>3, <2>4, <2>5, <2>6 DEF Lifetime
<1>3. CASE (\E p \in Owners : CallStep(p)) \/ Promote \/ Tick \/ UNCHANGED vars
  <2>1. UNCHANGED <<db, conn, journal, lock>>
    BY <1>3 DEF CallStep, BeginInitialize, BeginReserveRequest, BeginReserve, BeginConsume, BeginRead,
                Begin, EndAttempt, Promote, Tick, vars
  <2> QED BY <2>1 DEF FilesOK
<1> QED BY <1>1, <1>2, <1>3 DEF Next

\* The two invariants hold throughout every behaviour.
THEOREM FilesInductive == Spec => [](IInv /\ FilesOK)
<1>1. Init => FilesOK
  BY ConstantsAssumption DEF Init, FilesOK
<1> QED BY <1>1, FilesStep, Inductive, PTL DEF Spec

\* Unless an owner died inside its creation or its write transaction, a store
\* that nobody has open can be created or opened: the file is whole, unlocked
\* and without a journal, and its history is not ahead of the clock
\* (PersistentAtomicReplayStore.open).
OpenableOrStranded == Unopened => (db = "ABSENT" /\ journal = "NONE") \/ Openable \/ Stranded

\* For any owners: only a death strands the store.
THEOREM AlwaysOpenableOrStranded == Spec => []OpenableOrStranded
<1>1. IInv /\ FilesOK => OpenableOrStranded
  <2> SUFFICES ASSUME IInv, FilesOK, Unopened, ~Stranded
               PROVE  (db = "ABSENT" /\ journal = "NONE") \/ Openable
    BY DEF OpenableOrStranded
  <2>1. lock = NoOwner
    <3>1. \A p \in Owners : lock # p
      BY BusyIsOpen DEF Unopened
    <3> QED BY <3>1 DEF IInv, TypeOK
  <2>2. journal = "NONE"
    BY <2>1 DEF Stranded, FilesOK, IInv, TypeOK
  <2>3. NoneFuture(observed, now)
    BY DEF IInv, HistoryAuthentic
  <2> QED BY <2>1, <2>2, <2>3 DEF Openable, Stranded, IInv, TypeOK
<1> QED BY <1>1, FilesInductive, PTL

\* A store that a death has stranded with no owner left stays so: nobody opens it
\* again, and what was committed stays as it is.
StrandedStays == [][Stranded => Stranded' /\ UNCHANGED durable]_vars

\* For any owners: no later open accepts what such a death left, as it refuses every
\* sidecar file and every database without a schema.
THEOREM StrandedForever == Spec => StrandedStays
<1>1. IInv /\ FilesOK /\ [Next]_vars => [Stranded => Stranded' /\ UNCHANGED durable]_vars
  <2> SUFFICES ASSUME IInv, FilesOK, [Next]_vars, Stranded PROVE Stranded' /\ UNCHANGED durable
    OBVIOUS
  <2>0. db # "ABSENT" /\ (db # "READY" \/ journal # "NONE") /\ \A p \in Owners : conn[p] = "CLOSED"
    BY DEF Stranded, Unopened, FilesOK
  <2>1. ASSUME NEW p \in Owners, StoreStep(p) PROVE FALSE
    <3>1. call[p].phase = "IDLE"
      BY <2>0, BusyIsOpen
    <3> QED BY <2>1, <3>1 DEF StoreStep, Stage, Refuse, Busy, Recheck, Commit, Rollback, Return,
                              ReadSnapshot, ReadFinish
  <2>2. ASSUME NEW p \in Owners, Lifetime(p) PROVE FALSE
    BY <2>0, <2>2 DEF Lifetime, Create, CreateCommit, CreateAbort, Open, Close, Crash
  <2>3. CASE (\E p \in Owners : CallStep(p)) \/ Promote \/ Tick \/ UNCHANGED vars
    <3>1. UNCHANGED <<connections, journal, durable>>
      BY <2>3 DEF CallStep, BeginInitialize, BeginReserveRequest, BeginReserve, BeginConsume, BeginRead,
                  Begin, EndAttempt, Promote, Tick, vars, connections, durable
    <3> QED BY <3>1 DEF Stranded, Unopened, connections
  <2> QED BY <2>1, <2>2, <2>3 DEF Next
<1> QED BY <1>1, FilesInductive, PTL DEF Spec, StrandedStays
================================================================================
