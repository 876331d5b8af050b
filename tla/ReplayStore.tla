------------------------------ MODULE ReplayStore ------------------------------
(***************************************************************************)
(* The private durable replay store of the Kernel:                         *)
(* kernel/payload/runtime/persistent_replay_store.py over the receipt       *)
(* contract kernel/payload/runtime/replay_store.py.  One SQLite database    *)
(* holds a chain of signed receipts per request and, for dispatched         *)
(* requests, a binding row with its outcome.  Several processes own the     *)
(* database at once (the HAOS gateway, the Operations heartbeat).  What an   *)
(* owner keeps in memory, the capabilities of its conversation attempts, is  *)
(* lost when it crashes or closes.                                          *)
(*                                                                         *)
(* A receipt is abstracted to its state and its observed_at; its hash, which *)
(* the CAS compares, to the state, because a chain has one receipt per state.*)
(* Time counts microseconds coarsely: one tick is the smallest difference.   *)
(***************************************************************************)
EXTENDS Integers, FiniteSets

CONSTANTS
    Requests,       \* request identifiers; request r has one chain, of nonce uuid5(r)
    Kind,           \* Kind[r]: which binding the caller reserves r with
    Route,          \* Route[r]: the route of a generic dispatch
    RouteCapacity,  \* the 'capacity' field of generic bindings
    Owners,         \* processes that hold the store open for writing
    NoOwner,        \* no process holds SQLite's RESERVED lock
    Contexts,       \* installed closures: boot, generation, policy, identity
    NoContext,
    Results, NoResult,
    MaxRows,        \* 4096 in the code: the receipts table stays below it
    MaxLease,       \* longest lease a caller asks for (a bound of the model)
    MaxTime         \* bound of the clock (a bound of the model)

Kinds == {"BARE", "GENERIC", "CONVERSATION_V1", "CONVERSATION_V2"}
Conversation == {"CONVERSATION_V1", "CONVERSATION_V2"}

ASSUME ConstantsAssumption ==
    /\ IsFiniteSet(Requests)
    /\ Kind \in [Requests -> Kinds]
    /\ RouteCapacity \in Nat \ {0}
    /\ MaxRows \in Nat \ {0}
    /\ MaxLease \in Nat \ {0}
    /\ MaxTime \in Nat
    /\ NoOwner \notin Owners
    /\ NoContext \notin Contexts
    /\ NoResult \notin Results

VARIABLES
    db,             \* the database file: ABSENT, EMPTY (created, no schema) or READY
    lock,           \* the owner inside BEGIN IMMEDIATE
    journal,        \* rollback journal: NONE, OPEN (writer alive) or HOT (writer died)
    state,          \* state[r]: state of the newest committed receipt of r
    observed,       \* observed[r][s]: observed_at of r's receipt of state s
    expires,        \* expires[r]: expires_at of r's receipts, 0 for none
    bound,          \* bound[r]: context of r's dispatch row, NoContext for no row
    outcome,        \* outcome[r]: result digest of r's dispatch row
    conn,           \* conn[p]: CLOSED, CREATING or OPEN
    context,        \* context[p]: installed closure p captured at open
    capability,     \* capability[p]: conversation attempts p may still consume
    call,           \* call[p]: the store operation p is in
    installed,      \* the installed closure right now
    recovered,      \* last summary recover() returned, and whether it ever refused
    now

vars == <<db, lock, journal, state, observed, expires, bound, outcome, conn,
          context, capability, call, installed, recovered, now>>

durable == <<state, observed, expires, bound, outcome>>
connections == <<db, conn, context>>

States == {"NONE", "UNUSED", "RESERVED", "CONSUMED"}
Lifecycle == {"UNUSED", "RESERVED", "CONSUMED"}
NoReceipts == [s \in Lifecycle |-> 0]
Phases == {"IDLE", "CALLED", "STAGED", "CHECKED", "COMMITTED", "READING"}
WriteOps == {"INITIALIZE", "RESERVE_REQUEST", "RESERVE", "CONSUME"}
ReadOps == {"RECOVER", "READ"}

\* No operation in progress.
Idle == [op |-> "NONE", r |-> "NONE", at |-> 0, expires |-> 0,
         value |-> NoResult, phase |-> "IDLE"]

\* What call[p] holds while p is inside an operation.
Calls == [op : WriteOps \cup ReadOps \cup {"NONE"}, r : Requests \cup {"NONE"},
          at : Nat, expires : Nat, value : Results \cup {NoResult}, phase : Phases]

\* The operation p is in reaches its next phase.
Enter(p, phase) == call' = [call EXCEPT ![p] = [@ EXCEPT !.phase = phase]]

TypeOK ==
    /\ db \in {"ABSENT", "EMPTY", "READY"}
    /\ lock \in Owners \cup {NoOwner}
    /\ journal \in {"NONE", "OPEN", "HOT"}
    /\ state \in [Requests -> States]
    /\ observed \in [Requests -> [Lifecycle -> Nat]]
    /\ expires \in [Requests -> Nat]
    /\ bound \in [Requests -> Contexts \cup {NoContext}]
    /\ outcome \in [Requests -> Results \cup {NoResult}]
    /\ conn \in [Owners -> {"CLOSED", "CREATING", "OPEN"}]
    /\ context \in [Owners -> Contexts \cup {NoContext}]
    /\ capability \in [Owners -> SUBSET Requests]
    /\ call \in [Owners -> Calls]
    /\ \A p \in Owners : call[p].op \in WriteOps => call[p].r \in Requests
    /\ installed \in Contexts
    /\ recovered \in [chains : Nat, receipts : Nat, consumed : Nat,
                      refused : BOOLEAN]
    /\ now \in Nat

Init ==
    /\ db = "ABSENT" /\ lock = NoOwner /\ journal = "NONE"
    /\ state = [r \in Requests |-> "NONE"]
    /\ observed = [r \in Requests |-> NoReceipts]
    /\ expires = [r \in Requests |-> 0]
    /\ bound = [r \in Requests |-> NoContext]
    /\ outcome = [r \in Requests |-> NoResult]
    /\ conn = [p \in Owners |-> "CLOSED"]
    /\ context = [p \in Owners |-> NoContext]
    /\ capability = [p \in Owners |-> {}]
    /\ call = [p \in Owners |-> Idle]
    /\ installed \in Contexts
    /\ recovered = [chains |-> 0, receipts |-> 0, consumed |-> 0,
                    refused |-> FALSE]
    /\ now = 2

-----------------------------------------------------------------------------
(***************************************************************************)
(* The receipts table and the authentication of the stored history.        *)
(***************************************************************************)

\* The rows of the receipts table.
Rows(obs) == {row \in Requests \X Lifecycle : obs[row[1]][row[2]] # 0}

\* Mutation: the recovery summary counts unfinished chains only.
ChainsUnfinished(st) == {r \in Requests : st[r] \in {"UNUSED", "RESERVED"}}

Chains(st) == {r \in Requests : st[r] # "NONE"}
Consumed(st) == {r \in Requests : st[r] = "CONSUMED"}

\* verify_stored_history and verify_lifecycle: no receipt is newer than the
\* caller's current_time.
NoneFuture(obs, time) == \A r \in Requests, s \in Lifecycle : obs[r][s] <= time

\* The kinds whose reservation writes a dispatch row.
HasBinding(r) == Kind[r] # "BARE"

\* Generic dispatches of a route that are still reserved, expired ones included.
Active(st, route) ==
    {r \in Requests : Kind[r] = "GENERIC" /\ Route[r] = route /\ st[r] = "RESERVED"}

\* _inputs_current: the guard compares the installed closure with the one
\* captured when the owner was opened.
InputsCurrent(p) == installed = context[p]

-----------------------------------------------------------------------------
(***************************************************************************)
(* Opening and closing.                                                    *)
(***************************************************************************)

\* open() of an absent database creates the file exclusively and syncs it
\* before SQLite writes the schema.
Create(p) ==
    /\ conn[p] = "CLOSED" /\ db = "ABSENT" /\ journal = "NONE"
    /\ db' = "EMPTY"
    /\ conn' = [conn EXCEPT ![p] = "CREATING"]
    /\ context' = [context EXCEPT ![p] = installed]
    /\ UNCHANGED <<lock, journal, durable, capability, call, installed,
                   recovered, now>>

\* Schema and first history check in one BEGIN IMMEDIATE transaction.
CreateCommit(p) ==
    /\ conn[p] = "CREATING" /\ lock = NoOwner /\ InputsCurrent(p)
    /\ db' = "READY"
    /\ conn' = [conn EXCEPT ![p] = "OPEN"]
    /\ UNCHANGED <<lock, journal, durable, context, capability, call,
                   installed, recovered, now>>

\* A failed creation removes only the file this invocation created.
CreateAbort(p) ==
    /\ conn[p] = "CREATING"
    /\ db' = "ABSENT"
    /\ conn' = [conn EXCEPT ![p] = "CLOSED"]
    /\ context' = [context EXCEPT ![p] = NoContext]
    /\ UNCHANGED <<lock, journal, durable, capability, call, installed,
                   recovered, now>>

\* An existing database opens only with its schema committed, without any
\* sidecar file and with a history that authenticates at the current time.
Open(p) ==
    /\ conn[p] = "CLOSED" /\ db = "READY" /\ journal = "NONE"
    /\ lock = NoOwner
    /\ NoneFuture(observed, now)
    /\ conn' = [conn EXCEPT ![p] = "OPEN"]
    /\ context' = [context EXCEPT ![p] = installed]
    /\ UNCHANGED <<db, lock, journal, durable, capability, call, installed,
                   recovered, now>>

\* Mutation: closing keeps the capabilities for the next open.
CloseKeepsCapability(p) ==
    /\ conn[p] = "OPEN" /\ call[p] = Idle
    /\ conn' = [conn EXCEPT ![p] = "CLOSED"]
    /\ context' = [context EXCEPT ![p] = NoContext]
    /\ UNCHANGED <<db, lock, journal, durable, capability, call, installed, recovered, now>>

\* close(): only process-local ownership disappears.
Close(p) ==
    /\ conn[p] = "OPEN" /\ call[p] = Idle
    /\ conn' = [conn EXCEPT ![p] = "CLOSED"]
    /\ context' = [context EXCEPT ![p] = NoContext]
    /\ capability' = [capability EXCEPT ![p] = {}]
    /\ UNCHANGED <<db, lock, journal, durable, call, installed, recovered, now>>

\* The process dies at any instant.  A write transaction it was in leaves a
\* hot rollback journal; committed rows stay; a created empty file stays.
Crash(p) ==
    /\ conn[p] # "CLOSED"
    /\ conn' = [conn EXCEPT ![p] = "CLOSED"]
    /\ context' = [context EXCEPT ![p] = NoContext]
    /\ capability' = [capability EXCEPT ![p] = {}]
    /\ call' = [call EXCEPT ![p] = Idle]
    /\ lock' = IF lock = p THEN NoOwner ELSE lock
    /\ journal' = IF lock = p THEN "HOT" ELSE journal
    /\ UNCHANGED <<db, durable, installed, recovered, now>>

-----------------------------------------------------------------------------
(***************************************************************************)
(* Starting an operation: the caller samples the clock, the operation       *)
(* checks its inputs, and only then does BEGIN IMMEDIATE ask for the lock.  *)
(***************************************************************************)

Begin(p, operation) ==
    /\ conn[p] = "OPEN" /\ call[p] = Idle /\ InputsCurrent(p)
    /\ call' = [call EXCEPT ![p] = operation]
    /\ UNCHANGED <<connections, lock, journal, durable, capability, installed,
                   recovered, now>>

\* initialize() stores a first receipt.  The history check refuses a receipt
\* with a binding digest and no dispatch row, so only bare chains pass.
BeginInitialize(p, r) ==
    /\ Kind[r] = "BARE"
    /\ \E lease \in 1..MaxLease :
         Begin(p, [op |-> "INITIALIZE", r |-> r, at |-> now,
                   expires |-> now + lease, value |-> NoResult, phase |-> "CALLED"])

\* reserve_request(): a current conversation has no expiry, every other kind
\* carries the lease its caller authenticated.
BeginReserveRequest(p, r) ==
    \E expiry \in IF Kind[r] = "CONVERSATION_V2" THEN {0}
                  ELSE {now + lease : lease \in 1..MaxLease} :
        Begin(p, [op |-> "RESERVE_REQUEST", r |-> r, at |-> now,
                  expires |-> expiry, value |-> NoResult, phase |-> "CALLED"])

\* cas() of a witnessed chain.
BeginReserve(p, r) ==
    /\ Kind[r] = "BARE"
    /\ Begin(p, [op |-> "RESERVE", r |-> r, at |-> now, expires |-> 0,
                 value |-> NoResult, phase |-> "CALLED"])

\* consume_request(): a bound chain needs a result digest, a bare one takes none.
BeginConsume(p, r) ==
    \E value \in IF HasBinding(r) THEN Results ELSE {NoResult} :
        Begin(p, [op |-> "CONSUME", r |-> r, at |-> now, expires |-> 0,
                  value |-> value, phase |-> "CALLED"])

\* request_receipts, dispatch_evidence (READ) and recover(clock=...) (RECOVER).
BeginRead(p, op) ==
    Begin(p, [op |-> op, r |-> "NONE", at |-> now, expires |-> 0,
              value |-> NoResult, phase |-> "CALLED"])

-----------------------------------------------------------------------------
(***************************************************************************)
(* The write transaction.                                                  *)
(***************************************************************************)

\* The receipts the operation inserts.  A new reservation inserts two, the
\* first one a microsecond older.
AfterInsert(c) ==
    CASE c.op = "INITIALIZE" ->
            [observed EXCEPT ![c.r] = [@ EXCEPT !["UNUSED"] = c.at]]
      [] c.op = "RESERVE_REQUEST" ->
            [observed EXCEPT ![c.r] = [@ EXCEPT !["UNUSED"] = c.at - 1,
                                                !["RESERVED"] = c.at]]
      [] c.op = "RESERVE" ->
            [observed EXCEPT ![c.r] = [@ EXCEPT !["RESERVED"] = c.at]]
      [] OTHER ->
            [observed EXCEPT ![c.r] = [@ EXCEPT !["CONSUMED"] = c.at]]

TargetState(op) ==
    CASE op = "INITIALIZE" -> "UNUSED"
      [] op \in {"RESERVE_REQUEST", "RESERVE"} -> "RESERVED"
      [] OTHER -> "CONSUMED"

\* Mutation: reserve_request does not look for earlier receipts.
HeadIgnored(c) ==
    CASE c.op \in {"INITIALIZE", "RESERVE_REQUEST"} -> TRUE
      [] c.op = "RESERVE" -> state[c.r] = "UNUSED"
      [] OTHER -> state[c.r] = "RESERVED"

\* The compare-and-set: the chain's head is the receipt the caller names.
HeadMatches(c) ==
    CASE c.op \in {"INITIALIZE", "RESERVE_REQUEST"} -> state[c.r] = "NONE"
      [] c.op = "RESERVE" -> state[c.r] = "UNUSED"
      [] OTHER -> state[c.r] = "RESERVED"

\* Mutation: any owner consumes a current conversation.
AnybodyOwns(p, c) == TRUE

\* A current conversation is consumed only by the owner that holds its attempt.
OwnsAttempt(p, c) ==
    c.op = "CONSUME" /\ Kind[c.r] = "CONVERSATION_V2" => c.r \in capability[p]

\* Mutation: a receipt may carry its predecessor's time.
TimelyOrEqual(c) ==
    /\ c.op = "RESERVE" => observed[c.r]["UNUSED"] <= c.at
    /\ c.op = "CONSUME" => observed[c.r]["RESERVED"] <= c.at
    /\ c.op \in {"RESERVE", "CONSUME"} /\ expires[c.r] # 0 => c.at < expires[c.r]

\* transition: strictly after the head; verify_lifecycle: before the expiry.
Timely(c) ==
    /\ c.op = "RESERVE" => observed[c.r]["UNUSED"] < c.at
    /\ c.op = "CONSUME" => observed[c.r]["RESERVED"] < c.at
    /\ c.op \in {"RESERVE", "CONSUME"} /\ expires[c.r] # 0 => c.at < expires[c.r]

\* Mutation: only the current inputs are checked, not those the row is bound to.
BindingUnchecked(p, c) == Kind[c.r] \in Conversation => InputsCurrent(p)

\* _binding: conversation work stays inside the installed context it names.
BindingCurrent(p, c) ==
    Kind[c.r] \in Conversation =>
        /\ InputsCurrent(p)
        /\ c.op = "CONSUME" => bound[c.r] = context[p]

\* Mutation: off by one.
RouteOverfull(c) ==
    c.op = "RESERVE_REQUEST" /\ Kind[c.r] = "GENERIC" =>
        Cardinality(Active(state, Route[c.r])) <= RouteCapacity

\* Generic reservations of a route are counted under the write lock.
RouteOpen(c) ==
    c.op = "RESERVE_REQUEST" /\ Kind[c.r] = "GENERIC" =>
        Cardinality(Active(state, Route[c.r])) < RouteCapacity

CanStage(p) ==
    LET c == call[p] IN
    /\ NoneFuture(observed, c.at)
    /\ HeadMatches(c)
    /\ OwnsAttempt(p, c)
    /\ Timely(c)
    /\ BindingCurrent(p, c)
    /\ RouteOpen(c)
    /\ Cardinality(Rows(AfterInsert(c))) < MaxRows

\* The capability is spent as soon as the owner gate passes, whatever the
\* rest of the transaction decides.
SpendsAttempt(p) ==
    LET c == call[p] IN
    /\ c.op = "CONSUME" /\ Kind[c.r] = "CONVERSATION_V2"
    /\ NoneFuture(observed, c.at) /\ HeadMatches(c) /\ OwnsAttempt(p, c)

Spend(p) ==
    capability' = [capability EXCEPT
        ![p] = IF SpendsAttempt(p) THEN @ \ {call[p].r} ELSE @]

\* BEGIN IMMEDIATE succeeded and every check passed: rows are written but not
\* committed.  Taking the lock rolls back what a dead writer left.
Stage(p) ==
    /\ call[p].phase = "CALLED" /\ call[p].op \in WriteOps
    /\ lock = NoOwner /\ CanStage(p)
    /\ lock' = p /\ journal' = "OPEN"
    /\ Enter(p, "STAGED")
    /\ Spend(p)
    /\ UNCHANGED <<connections, durable, installed, recovered, now>>

\* A check failed: ROLLBACK before anything was written.
Refuse(p) ==
    /\ call[p].phase = "CALLED" /\ call[p].op \in WriteOps
    /\ lock = NoOwner /\ ~CanStage(p)
    /\ journal' = "NONE"
    /\ call' = [call EXCEPT ![p] = Idle]
    /\ Spend(p)
    /\ UNCHANGED <<connections, lock, durable, installed, recovered, now>>

\* SQLite's busy timeout: another owner kept the lock.
Busy(p) ==
    /\ call[p].phase = "CALLED" /\ call[p].op \in WriteOps
    /\ lock # NoOwner
    /\ call' = [call EXCEPT ![p] = Idle]
    /\ UNCHANGED <<connections, lock, journal, durable, capability, installed,
                   recovered, now>>

\* _stable() after the rows were written: the inputs are still the installed ones.
Recheck(p) ==
    /\ call[p].phase = "STAGED" /\ InputsCurrent(p)
    /\ Enter(p, "CHECKED")
    /\ UNCHANGED <<connections, lock, journal, durable, capability, installed,
                   recovered, now>>

\* COMMIT waits for readers of the old snapshot.
Commit(p) ==
    LET c == call[p] IN
    /\ c.phase = "CHECKED"
    /\ \A q \in Owners : call[q].phase # "READING"
    /\ state' = [state EXCEPT ![c.r] = TargetState(c.op)]
    /\ observed' = AfterInsert(c)
    /\ expires' = IF c.op \in {"INITIALIZE", "RESERVE_REQUEST"}
                  THEN [expires EXCEPT ![c.r] = c.expires] ELSE expires
    /\ bound' = IF c.op = "RESERVE_REQUEST" /\ HasBinding(c.r)
                THEN [bound EXCEPT ![c.r] = context[p]] ELSE bound
    /\ outcome' = IF c.op = "CONSUME" THEN [outcome EXCEPT ![c.r] = c.value]
                  ELSE outcome
    /\ lock' = NoOwner /\ journal' = "NONE"
    /\ Enter(p, "COMMITTED")
    /\ UNCHANGED <<connections, capability, installed, recovered, now>>

\* Any exception after the rows were written.
Rollback(p) ==
    /\ call[p].phase \in {"STAGED", "CHECKED"}
    /\ lock' = NoOwner /\ journal' = "NONE"
    /\ call' = [call EXCEPT ![p] = Idle]
    /\ UNCHANGED <<connections, durable, capability, installed, recovered, now>>

\* Back in the caller; only now does the owner hold the conversation attempt.
Return(p) ==
    LET c == call[p] IN
    /\ c.phase = "COMMITTED"
    /\ capability' = [capability EXCEPT ![p] =
            IF c.op = "RESERVE_REQUEST" /\ Kind[c.r] = "CONVERSATION_V2"
            THEN @ \cup {c.r} ELSE @]
    /\ call' = [call EXCEPT ![p] = Idle]
    /\ UNCHANGED <<connections, lock, journal, durable, installed, recovered, now>>

\* end_conversation_attempt
EndAttempt(p, r) ==
    /\ call[p] = Idle /\ r \in capability[p]
    /\ capability' = [capability EXCEPT ![p] = @ \ {r}]
    /\ UNCHANGED <<connections, lock, journal, durable, call, installed,
                   recovered, now>>

-----------------------------------------------------------------------------
(***************************************************************************)
(* Read transactions.                                                      *)
(***************************************************************************)

\* The first SELECT establishes the snapshot and rolls a hot journal back.
ReadSnapshot(p) ==
    /\ call[p].phase = "CALLED" /\ call[p].op \in ReadOps
    /\ Enter(p, "READING")
    /\ journal' = IF lock = NoOwner THEN "NONE" ELSE journal
    /\ UNCHANGED <<connections, lock, durable, capability, installed,
                   recovered, now>>

\* Mutation: every read uses the time its caller sampled.
ReadTimeSampledBefore(c) == c.at

\* recover(clock=...) samples the clock after the snapshot, the other reads
\* use the time their caller sampled before it.
ReadTime(c) == IF c.op = "RECOVER" THEN now ELSE c.at

ReadFinish(p) ==
    LET c == call[p] IN
    /\ c.phase = "READING"
    /\ recovered' =
         IF c.op # "RECOVER" THEN recovered
         ELSE IF NoneFuture(observed, ReadTime(c)) /\ InputsCurrent(p)
         THEN [recovered EXCEPT !.chains = Cardinality(Chains(state)),
                                !.receipts = Cardinality(Rows(observed)),
                                !.consumed = Cardinality(Consumed(state))]
         ELSE [recovered EXCEPT !.refused = @ \/ InputsCurrent(p)]
    /\ call' = [call EXCEPT ![p] = Idle]
    /\ UNCHANGED <<connections, lock, journal, durable, capability, installed, now>>

-----------------------------------------------------------------------------
\* A newly promoted generation, policy or boot: open owners become stale.
Promote ==
    /\ \E c \in Contexts \ {installed} : installed' = c
    /\ UNCHANGED <<connections, lock, journal, durable, capability, call,
                   recovered, now>>

Tick ==
    /\ now < MaxTime
    /\ now' = now + 1
    /\ UNCHANGED <<connections, lock, journal, durable, capability, call,
                   installed, recovered>>

\* What an owner does once it is inside an operation.
StoreStep(p) ==
    \/ Stage(p) \/ Refuse(p) \/ Busy(p) \/ Recheck(p) \/ Commit(p)
    \/ Rollback(p) \/ Return(p) \/ ReadSnapshot(p) \/ ReadFinish(p)

Lifetime(p) ==
    \/ Create(p) \/ CreateCommit(p) \/ CreateAbort(p) \/ Open(p)
    \/ Close(p) \/ Crash(p)

CallStep(p) ==
    \/ \E r \in Requests :
         \/ BeginInitialize(p, r) \/ BeginReserveRequest(p, r)
         \/ BeginReserve(p, r) \/ BeginConsume(p, r)
         \/ EndAttempt(p, r)
    \/ \E op \in ReadOps : BeginRead(p, op)

Next ==
    \/ \E p \in Owners : StoreStep(p) \/ Lifetime(p) \/ CallStep(p)
    \/ Promote
    \/ Tick

Spec == Init /\ [][Next]_vars

-----------------------------------------------------------------------------
(***************************************************************************)
(* Properties.                                                             *)
(***************************************************************************)

\* The committed rows always form a history the store itself authenticates:
\* every chain is a prefix of UNUSED, RESERVED, CONSUMED with strictly
\* increasing times before the expiry and none in the future, a dispatch row
\* exists exactly for reserved bound chains and an outcome exactly for consumed
\* ones, and the table stays below the row limit.  Otherwise the next open or
\* transaction, of any owner, refuses the whole database (_history,
\* verify_stored_history, verify_dispatch_bindings).
ChainAuthentic(r) ==
    /\ (observed[r]["UNUSED"] # 0) = (state[r] \in Lifecycle)
    /\ (observed[r]["RESERVED"] # 0) = (state[r] \in {"RESERVED", "CONSUMED"})
    /\ (observed[r]["CONSUMED"] # 0) = (state[r] = "CONSUMED")
    /\ observed[r]["RESERVED"] # 0 => observed[r]["UNUSED"] < observed[r]["RESERVED"]
    /\ observed[r]["CONSUMED"] # 0 => observed[r]["RESERVED"] < observed[r]["CONSUMED"]
    /\ state[r] # "NONE" =>
         /\ (expires[r] = 0) = (Kind[r] = "CONVERSATION_V2")
         /\ expires[r] # 0 => \A s \in Lifecycle : observed[r][s] < expires[r]
    /\ (bound[r] # NoContext) = (HasBinding(r) /\ state[r] \in {"RESERVED", "CONSUMED"})
    /\ (outcome[r] # NoResult) = (HasBinding(r) /\ state[r] = "CONSUMED")

HistoryAuthentic ==
    /\ \A r \in Requests : ChainAuthentic(r)
    /\ NoneFuture(observed, now)
    /\ Cardinality(Rows(observed)) < MaxRows

\* A conversation attempt is held by at most one live owner, and what it holds
\* is a reservation made in the context the owner captured.
CapabilitySound ==
    \A p \in Owners : \A r \in capability[p] :
        /\ Kind[r] = "CONVERSATION_V2" /\ state[r] = "RESERVED"
        /\ bound[r] = context[p]
        /\ \A q \in Owners : r \in capability[q] => q = p

\* However the owners interleave, no route carries more reserved generic
\* dispatches than the capacity they were admitted against.
RouteCapacityKept ==
    \A r \in Requests : Cardinality(Active(state, Route[r])) <= RouteCapacity

\* A reserved conversation nobody holds, or a leased reservation past its expiry
\* with no consumption sampled in time on its way, is dead: "Expired
\* reservations remain evidence and never become reusable work".
InFlight(r) ==
    \E p \in Owners :
        /\ call[p].r = r
        /\ \/ call[p].op = "CONSUME" /\ call[p].phase \in {"STAGED", "CHECKED"}
           \/ call[p].op = "RESERVE_REQUEST" /\ call[p].phase = "COMMITTED"
           \/ /\ call[p].op = "CONSUME" /\ call[p].phase = "CALLED"
              /\ Kind[r] # "CONVERSATION_V2" /\ call[p].at < expires[r]

Dead(r) ==
    /\ state[r] = "RESERVED"
    /\ ~InFlight(r)
    /\ IF Kind[r] = "CONVERSATION_V2"
       THEN \A p \in Owners : r \notin capability[p]
       ELSE expires[r] <= now

DeadStaysDead == [][\A r \in Requests : Dead(r) => Dead(r)']_vars

\* Conversation work is consumed only by an owner whose captured installed
\* context is the one the reservation was bound to ("history is not permission
\* to consume under another installed context").
ConsumedInContext ==
    [][\A r \in Requests :
          Kind[r] \in Conversation /\ state[r] = "RESERVED" /\ state'[r] = "CONSUMED"
              => \E p \in Owners : lock = p /\ bound[r] = context[p]]_vars

\* Consecutive recoveries, by whichever owner and across crashes, never see
\* fewer chains, receipts or consumptions (_replay_progression).
ReplayProgression ==
    [][/\ recovered.chains <= recovered'.chains
       /\ recovered.receipts <= recovered'.receipts
       /\ recovered.consumed <= recovered'.consumed]_recovered

\* recover(clock=...) never takes a concurrent valid reservation for one from
\* the future.
RecoveryNeverRefused == ~recovered.refused

\* The store implements the ledger of one-shot attempts.
Ledger == INSTANCE AttemptLedger WITH attempt <- state, result <- outcome
LedgerImplemented == Ledger!LedgerSpec
==============================================================================
