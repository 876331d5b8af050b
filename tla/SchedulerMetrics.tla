---------------------------- MODULE SchedulerMetrics ----------------------------
(***************************************************************************)
(* SchedulerMetrics of serein_stage1/kernel_operations.py: a caller hands it  *)
(* snapshots of a task queue and of its slots; it counts demand and capacity, *)
(* classifies the interval since the last snapshot and reports pressure as   *)
(* eligible only after a full window of on-time snapshots of one population. *)
(*                                                                         *)
(* A row keeps the facts that decide its count: text and digest checks are    *)
(* one flag, well.  The disposition, which only words the counts, is left    *)
(* out.  The window's entries are never read back: their number is kept.     *)
(***************************************************************************)
EXTENDS Integers, Sequences, FiniteSets, Functions

CONSTANTS
    MemberLists,        \* what callers pass as members
    SlotLists,          \* and as slots
    Identities,         \* [lane, plan]: identity, and snapshot epoch with page plan
    Completions,        \* whether a snapshot was complete
    Ceiling,            \* ceiling_ns
    WindowLength,       \* window_length
    MaxSequence, MaxTime, MaxCalls,     \* bounds of the model
    NoSnapshot

\* Every row some list has.
Rows(lists) == UNION {Range(list) : list \in lists}

ASSUME MetricsAssumption ==
    /\ MemberLists \subseteq Seq(Rows(MemberLists)) /\ SlotLists \subseteq Seq(Rows(SlotLists))
    /\ \A row \in Rows(MemberLists) : {row.well, row.excluded} \subseteq BOOLEAN
    /\ \A row \in Rows(SlotLists) : {row.well, row.available} \subseteq BOOLEAN
    /\ Completions \subseteq BOOLEAN
    /\ Ceiling \in Nat \ {0} /\ WindowLength \in Nat \ {0}
    /\ MaxSequence \in Nat /\ MaxTime \in Nat /\ MaxCalls \in Nat

VARIABLES
    previous,       \* _previous
    qualifying,     \* length of _window
    report,         \* what the last call returned
    calls,          \* history: the last WindowLength + 1 calls
    made            \* how many calls there were

vars == <<previous, qualifying, report, calls, made>>

-----------------------------------------------------------------------------
(***************************************************************************)
(* _population.                                                            *)
(***************************************************************************)

Excluded == {"BLOCKED", "UNAUTHORIZED", "REVOKED", "STALE", "HELD", "SUPERSEDED",
             "DEPENDENCY_UNSATISFIED"}
Runnable(row) == row.state = "READY" /\ ~row.excluded
Admitted(row) == row.state \in Excluded \cup {"QUEUED_CURRENT"} \/ Runnable(row)

NoCount == [rows |-> {}, count |-> 0, valid |-> TRUE]

\* Mutation: only the task makes a row a duplicate.
CountByTask(total, row) ==
    LET known == {r \in total.rows : r.task = row.task} IN
    IF ~row.well \/ known # {}
    THEN [total EXCEPT !.valid = @ /\ row.well /\ row \in known]
    ELSE [rows |-> total.rows \cup {row},
          count |-> total.count + (IF Runnable(row) THEN 1 ELSE 0),
          valid |-> total.valid /\ Admitted(row)]

\* A row met before, by its task or its dedupe key, is a duplicate and counts
\* nothing; when it differs the population is invalid.
CountMember(total, row) ==
    LET known == {r \in total.rows : r.task = row.task \/ r.key = row.key} IN
    IF ~row.well \/ known # {}
    THEN [total EXCEPT !.valid = @ /\ row.well /\ row \in known]
    ELSE [rows |-> total.rows \cup {row},
          count |-> total.count + (IF Runnable(row) THEN 1 ELSE 0),
          valid |-> total.valid /\ Admitted(row)]

CountSlot(total, row) ==
    IF ~row.well \/ \E r \in total.rows : r.slot = row.slot
    THEN [total EXCEPT !.valid = @ /\ row.well /\ row \in total.rows]
    ELSE [total EXCEPT !.rows = @ \cup {row}, !.count = @ + (IF row.available THEN 1 ELSE 0)]

\* The two loops over the rows: what the first n rows of a list add up to.
MemberTotals(list) ==
    LET total[n \in 0..Len(list)] ==
            IF n = 0 THEN NoCount ELSE CountMember(total[n - 1], list[n])
    IN  total
SlotTotals(list) ==
    LET total[n \in 0..Len(list)] ==
            IF n = 0 THEN NoCount ELSE CountSlot(total[n - 1], list[n])
    IN  total

Population == [members \in MemberLists |-> [slots \in SlotLists |->
    LET demand == MemberTotals(members)[Len(members)]
        capacity == SlotTotals(slots)[Len(slots)]
    IN  [demand |-> demand.count, capacity |-> capacity.count,
         valid |-> demand.valid /\ capacity.valid]]]

\* population_digest: the multiset of rows, whatever their order.
Digest == [rows \in MemberLists \cup SlotLists |->
    [r \in Range(rows) |-> Cardinality({i \in DOMAIN rows : rows[i] = r})]]

-----------------------------------------------------------------------------
(***************************************************************************)
(* observe.                                                                *)
(***************************************************************************)

NoReport == [evaluation |-> "NONE", demand |-> 0, capacity |-> 0, members |-> <<>>, slots |-> <<>>]

\* remeasure(): forget every sample.
Remeasured == previous' = NoSnapshot /\ qualifying' = 0

Refusal == [refused |-> TRUE]

Remember(call) ==
    calls' = IF Len(calls) > WindowLength THEN Append(Tail(calls), call) ELSE Append(calls, call)

Refuse == Remeasured /\ report' = NoReport /\ Remember(Refusal)

\* A snapshot's identity in the window: its lane and plan, and its population
\* when that is valid.
WindowIdentity(identity, valid, members, slots) ==
    [identity |-> identity, valid |-> valid,
     members |-> IF valid THEN Digest[members] ELSE <<>>,
     slots |-> IF valid THEN Digest[slots] ELSE <<>>]

SameLane(identity) == previous # NoSnapshot /\ previous.window.identity.lane = identity.lane
SameWindow(window) == previous # NoSnapshot /\ previous.window = window

\* What _previous may hold; it holds None before the first snapshot.
Windows == {WindowIdentity(identity, valid, members, slots) :
                identity \in Identities, valid \in BOOLEAN, members \in MemberLists, slots \in SlotLists}
Snapshots == [window : Windows, sequence : 1..MaxSequence, at : 0..MaxTime]
ASSUME SnapshotAssumption == NoSnapshot \notin Snapshots

\* Mutation: gaps in the sequence are not looked at.
HeartbeatBySpeed(window, sequence, at) ==
    IF ~SameWindow(window) THEN "UNKNOWN"
    ELSE IF at - previous.at <= Ceiling THEN "ON_TIME" ELSE "LATE"

Heartbeat(window, sequence, at) ==
    IF ~SameWindow(window) THEN "UNKNOWN"
    ELSE IF sequence # previous.sequence + 1 THEN "MISSING"
    ELSE IF at - previous.at <= Ceiling THEN "ON_TIME" ELSE "LATE"

HighPressure(population) ==
    population.capacity > 0 /\ 10 * population.demand >= 9 * population.capacity

Qualifying(window, heartbeat, population) ==
    IF heartbeat = "ON_TIME" /\ population.valid /\ HighPressure(population)
    THEN IF qualifying < WindowLength THEN qualifying + 1 ELSE WindowLength
    ELSE 0

Evaluation(valid, count) ==
    IF ~valid THEN "UNKNOWN"
    ELSE IF count = WindowLength THEN "ELIGIBLE_FOR_EVALUATION" ELSE "INELIGIBLE"

Observe(identity, sequence, at, members, slots, complete) ==
    LET counted == Population[members][slots]
        population == [counted EXCEPT !.valid = @ /\ complete]
        window == WindowIdentity(identity, population.valid, members, slots)
        count == Qualifying(window, Heartbeat(window, sequence, at), population)
    IN
    IF SameLane(identity) /\ (at <= previous.at \/ sequence <= previous.sequence)
    THEN Refuse
    ELSE /\ previous' = [window |-> window, sequence |-> sequence, at |-> at]
         /\ qualifying' = count
         /\ report' = [evaluation |-> Evaluation(population.valid, count),
                       demand |-> population.demand, capacity |-> population.capacity,
                       members |-> members, slots |-> slots]
         /\ Remember([refused |-> FALSE, identity |-> identity, sequence |-> sequence, at |-> at,
                      members |-> members, slots |-> slots, complete |-> complete])

\* A capacity change, or a call with a malformed argument.
Remeasure == Refuse

Init == previous = NoSnapshot /\ qualifying = 0 /\ report = NoReport /\ calls = <<>>
        /\ made = 0

Next ==
    /\ made < MaxCalls /\ made' = made + 1
    /\ \/ Remeasure
       \/ \E identity \in Identities, sequence \in 1..MaxSequence, at \in 0..MaxTime,
             members \in MemberLists, slots \in SlotLists, complete \in Completions :
                Observe(identity, sequence, at, members, slots, complete)

Spec == Init /\ [][Next]_vars

-----------------------------------------------------------------------------
(***************************************************************************)
(* Properties.                                                             *)
(***************************************************************************)

TypeOK ==
    /\ previous \in Snapshots \cup {NoSnapshot}
    /\ qualifying \in 0..WindowLength
    /\ report.evaluation \in {"NONE", "UNKNOWN", "INELIGIBLE", "ELIGIBLE_FOR_EVALUATION"}
    /\ made \in 0..MaxCalls

\* A report with known counts counts every runnable task and available slot
\* once, over rows no two of which disagree about a task, key or slot: order and
\* repetition do not change demand or capacity.
CountsDistinct ==
    LET members == Range(report.members)
        slots == Range(report.slots)
    IN report.evaluation \in {"INELIGIBLE", "ELIGIBLE_FOR_EVALUATION"} =>
        /\ report.demand = Cardinality({r.task : r \in {m \in members : Runnable(m)}})
        /\ report.capacity = Cardinality({r.slot : r \in {s \in slots : s.available}})
        /\ \A q, r \in members : (q.task = r.task \/ q.key = r.key) => q = r
        /\ \A q, r \in slots : q.slot = r.slot => q = r

\* Two calls are consecutive on-time snapshots of one lane, plan and population.
OnTime(c, d) ==
    /\ ~c.refused /\ ~d.refused
    /\ d.identity = c.identity /\ d.complete = c.complete
    /\ d.sequence = c.sequence + 1 /\ c.at < d.at /\ d.at <= c.at + Ceiling
    /\ Digest[d.members] = Digest[c.members] /\ Digest[d.slots] = Digest[c.slots]

\* Pressure becomes eligible for evaluation exactly when the last WindowLength
\* intervals were on time and of one population at or above 90 per cent: a
\* refusal, a gap, a late snapshot, a changed lane, plan or row starts again.
EligibleExactly ==
    report.evaluation # "UNKNOWN" =>
        LET n == Len(calls)
            sustained == /\ n = WindowLength + 1
                         /\ \A i \in 1..WindowLength : OnTime(calls[i], calls[i + 1])
                         /\ HighPressure(report)
        IN (report.evaluation = "ELIGIBLE_FOR_EVALUATION") <=> sustained
================================================================================
