------------------------ MODULE SchedulerMetricsProofs ------------------------
(***************************************************************************)
(* Proofs about SchedulerMetrics for any lists of rows, any window and any    *)
(* order of calls.                                                         *)
(*                                                                         *)
(* The loops over the rows are recursive functions.  What they compute is      *)
(* proved by induction, from the fact that a set of numbers has a least one:  *)
(* a loop's total is that of a set, and so depends on neither the order of    *)
(* the rows nor their repetition.  The window is then shown to count the calls *)
(* at the end of the history that were on time and of one population.        *)
(***************************************************************************)
EXTENDS SchedulerMetrics, FiniteSetTheorems, WellFoundedInduction, TLAPS

-----------------------------------------------------------------------------
(***************************************************************************)
(* Induction.                                                              *)
(***************************************************************************)

\* A set of numbers that is not empty has a least one.
LEMMA LeastNat ==
    ASSUME NEW T, T \subseteq Nat, T # {}
    PROVE  \E x \in T : \A y \in T : x <= y
<1>1. PICK x \in T : \A y \in T : <<y, x>> \notin OpToRel(<, Nat)
  BY WFMin, NatLessThanWellFounded, Zenon
<1>2. \A y \in T : ~(y < x)
  BY <1>1, Zenon DEF OpToRel
<1> QED
  BY <1>2

\* A set that has zero, and up to m the successor of each of its numbers.
LEMMA CountUp ==
    ASSUME NEW m \in Nat, NEW S, 0 \in S, \A n \in 1..m : n - 1 \in S => n \in S
    PROVE  \A n \in 0..m : n \in S
<1> DEFINE T == (0..m) \ S
<1> SUFFICES ASSUME T # {} PROVE FALSE
  OBVIOUS
<1>1. T \subseteq Nat
  OBVIOUS
<1>2. PICK n \in T : \A k \in T : n <= k
  <2> HIDE DEF T
  <2> QED
    BY <1>1, LeastNat
<1>3. n \in 1..m
  BY <1>2
<1>4. n - 1 \in S
  BY <1>2, <1>3
<1> QED
  BY <1>2, <1>3, <1>4

-----------------------------------------------------------------------------
(***************************************************************************)
(* The population.                                                         *)
(***************************************************************************)

\* The loop over the members ends, and is what its definition says.
LEMMA MemberLoop ==
    ASSUME NEW list, Len(list) \in Nat
    PROVE  /\ MemberTotals(list)[0] = NoCount
           /\ \A n \in 1..Len(list) : MemberTotals(list)[n] = CountMember(MemberTotals(list)[n - 1], list[n])
<1> DEFINE
      Loop(f, m) == f = [n \in 0..m |-> IF n = 0 THEN NoCount ELSE CountMember(f[n - 1], list[n])]
      Defined == {m \in 0..Len(list) : \E f : Loop(f, m)}
<1>1. 0 \in Defined
  <2>1. Loop([n \in 0..0 |-> NoCount], 0)
    OBVIOUS
  <2> HIDE DEF Loop
  <2> QED
    BY <2>1
<1>2. ASSUME NEW m \in 1..Len(list), m - 1 \in Defined PROVE m \in Defined
  <2>1. PICK f : Loop(f, m - 1)
    BY <1>2
  <2> DEFINE g == [n \in 0..m |-> IF n < m THEN f[n] ELSE CountMember(f[m - 1], list[m])]
  <2>2. Loop(g, m)
    <3>1. ASSUME NEW n \in 0..m
          PROVE  g[n] = IF n = 0 THEN NoCount ELSE CountMember(g[n - 1], list[n])
      <4>1. CASE n < m
        BY <2>1, <4>1
      <4>2. CASE n = m
        BY <2>1, <4>2
      <4> QED
        BY <4>1, <4>2
    <3> QED
      BY <3>1
  <2> HIDE DEF Loop, g
  <2> QED
    BY <2>2
<1>3. Len(list) \in Defined
  <2> HIDE DEF Defined
  <2>1. \A n \in 0..Len(list) : n \in Defined
    BY <1>1, <1>2, CountUp
  <2> QED
    BY <2>1
<1>4. Loop(MemberTotals(list), Len(list))
  <2>1. PICK f : Loop(f, Len(list))
    BY <1>3
  <2>2. MemberTotals(list) = CHOOSE total : Loop(total, Len(list))
    BY DEF MemberTotals
  <2> HIDE DEF Loop
  <2> QED
    BY <2>1, <2>2, Zenon
<1>5. \A n \in 0..Len(list) : MemberTotals(list)[n] =
          IF n = 0 THEN NoCount ELSE CountMember(MemberTotals(list)[n - 1], list[n])
  BY <1>4, Zenon
<1> QED
  BY <1>5

\* The loop over the slots ends, and is what its definition says.
LEMMA SlotLoop ==
    ASSUME NEW list, Len(list) \in Nat
    PROVE  /\ SlotTotals(list)[0] = NoCount
           /\ \A n \in 1..Len(list) : SlotTotals(list)[n] = CountSlot(SlotTotals(list)[n - 1], list[n])
<1> DEFINE
      Loop(f, m) == f = [n \in 0..m |-> IF n = 0 THEN NoCount ELSE CountSlot(f[n - 1], list[n])]
      Defined == {m \in 0..Len(list) : \E f : Loop(f, m)}
<1>1. 0 \in Defined
  <2>1. Loop([n \in 0..0 |-> NoCount], 0)
    OBVIOUS
  <2> HIDE DEF Loop
  <2> QED
    BY <2>1
<1>2. ASSUME NEW m \in 1..Len(list), m - 1 \in Defined PROVE m \in Defined
  <2>1. PICK f : Loop(f, m - 1)
    BY <1>2
  <2> DEFINE g == [n \in 0..m |-> IF n < m THEN f[n] ELSE CountSlot(f[m - 1], list[m])]
  <2>2. Loop(g, m)
    <3>1. ASSUME NEW n \in 0..m
          PROVE  g[n] = IF n = 0 THEN NoCount ELSE CountSlot(g[n - 1], list[n])
      <4>1. CASE n < m
        BY <2>1, <4>1
      <4>2. CASE n = m
        BY <2>1, <4>2
      <4> QED
        BY <4>1, <4>2
    <3> QED
      BY <3>1
  <2> HIDE DEF Loop, g
  <2> QED
    BY <2>2
<1>3. Len(list) \in Defined
  <2> HIDE DEF Defined
  <2>1. \A n \in 0..Len(list) : n \in Defined
    BY <1>1, <1>2, CountUp
  <2> QED
    BY <2>1
<1>4. Loop(SlotTotals(list), Len(list))
  <2>1. PICK f : Loop(f, Len(list))
    BY <1>3
  <2>2. SlotTotals(list) = CHOOSE total : Loop(total, Len(list))
    BY DEF SlotTotals
  <2> HIDE DEF Loop
  <2> QED
    BY <2>1, <2>2, Zenon
<1>5. \A n \in 0..Len(list) : SlotTotals(list)[n] =
          IF n = 0 THEN NoCount ELSE CountSlot(SlotTotals(list)[n - 1], list[n])
  BY <1>4, Zenon
<1> QED
  BY <1>5

\* The first n rows of a list.
First(list, n) == {list[i] : i \in 1..n}

\* Rows a population may have: all admitted, no two that disagree.
GoodMembers(rows) ==
    /\ \A r \in rows : r.well /\ Admitted(r)
    /\ \A q, r \in rows : q.task = r.task \/ q.key = r.key => q = r
GoodSlots(rows) ==
    /\ \A r \in rows : r.well
    /\ \A q, r \in rows : q.slot = r.slot => q = r

Demand(rows) == {r.task : r \in {m \in rows : Runnable(m)}}
Capacity(rows) == {r.slot : r \in {s \in rows : s.available}}

Totals == [rows : SUBSET (Rows(MemberLists) \cup Rows(SlotLists)), count : Nat, valid : BOOLEAN]

LEMMA FirstRow ==
    ASSUME NEW list, NEW n \in Nat \ {0}
    PROVE  First(list, 0) = {} /\ First(list, n) = First(list, n - 1) \cup {list[n]}
BY DEF First

\* One more element.
LEMMA OneMore ==
    ASSUME NEW S, IsFiniteSet(S), NEW x, x \notin S
    PROVE  IsFiniteSet(S \cup {x}) /\ Cardinality(S \cup {x}) = Cardinality(S) + 1 /\ Cardinality(S) \in Nat
BY FS_AddElement, FS_CardinalityType

\* What a total says of the set of rows it counted.
MemberTrue(total, rows) ==
    /\ total \in Totals
    /\ total.valid <=> GoodMembers(rows)
    /\ total.valid => /\ total.rows = rows
                      /\ IsFiniteSet(Demand(rows)) /\ total.count = Cardinality(Demand(rows))

LEMMA MemberNext ==
    ASSUME NEW total \in Totals, NEW row \in Rows(MemberLists)
    PROVE  CountMember(total, row) \in Totals /\ (CountMember(total, row).valid => total.valid)
<1> DEFINE known == {r \in total.rows : r.task = row.task \/ r.key = row.key}
<1>1. CASE ~row.well \/ known # {}
  <2>1. CountMember(total, row) = [total EXCEPT !.valid = @ /\ row.well /\ row \in known]
    BY <1>1 DEF CountMember
  <2>2. row.well \in BOOLEAN
    BY MetricsAssumption
  <2> QED
    BY <2>1, <2>2 DEF Totals
<1>2. CASE row.well /\ known = {}
  <2>1. CountMember(total, row) = [rows |-> total.rows \cup {row},
                            count |-> total.count + (IF Runnable(row) THEN 1 ELSE 0),
                            valid |-> total.valid /\ Admitted(row)]
    BY <1>2 DEF CountMember, Totals
  <2> QED
    BY <2>1 DEF Totals, Admitted, Runnable
<1> QED
  BY <1>1, <1>2, MetricsAssumption

\* One row more.
LEMMA MemberCounted ==
    ASSUME NEW total, NEW rows, MemberTrue(total, rows), NEW row \in Rows(MemberLists)
    PROVE  MemberTrue(CountMember(total, row), rows \cup {row})
<1> DEFINE next == CountMember(total, row)
           all == rows \cup {row}
<1>0. total \in Totals /\ row.well \in BOOLEAN /\ row.excluded \in BOOLEAN
  BY MetricsAssumption DEF MemberTrue
<1>1. CASE ~total.valid
  <2>1. ~GoodMembers(all)
    BY <1>1 DEF MemberTrue, GoodMembers
  <2>2. next \in Totals /\ ~next.valid
    BY <1>0, <1>1, MemberNext
  <2> QED
    BY <2>1, <2>2 DEF MemberTrue
<1>2. CASE total.valid /\ ~row.well
  <2>1. ~GoodMembers(all)
    BY <1>2 DEF GoodMembers
  <2>2. next \in Totals /\ ~next.valid
    BY <1>0, <1>2 DEF Totals, CountMember
  <2> QED
    BY <2>1, <2>2 DEF MemberTrue
<1>3. CASE total.valid /\ row.well /\ row \in rows
  <2>1. all = rows
    BY <1>3
  <2>2. next = total
    BY <1>0, <1>3 DEF Totals, CountMember, MemberTrue
  <2> QED
    BY <2>1, <2>2 DEF MemberTrue
<1>4. CASE total.valid /\ row.well /\ row \notin rows /\ \E r \in rows : r.task = row.task \/ r.key = row.key
  <2>1. ~GoodMembers(all)
    BY <1>4 DEF GoodMembers
  <2>2. next \in Totals /\ ~next.valid
    BY <1>0, <1>4 DEF Totals, CountMember, MemberTrue
  <2> QED
    BY <2>1, <2>2 DEF MemberTrue
<1>5. CASE total.valid /\ row.well /\ row \notin rows /\ ~\E r \in rows : r.task = row.task \/ r.key = row.key
  <2>1. /\ next = [rows |-> all, count |-> total.count + (IF Runnable(row) THEN 1 ELSE 0), valid |-> total.valid /\ Admitted(row)]
        /\ total.rows = rows
    BY <1>0, <1>5 DEF Totals, CountMember, MemberTrue
  <2>2. GoodMembers(all) <=> Admitted(row)
    BY <1>5 DEF MemberTrue, GoodMembers
  <2>3. next \in Totals
    BY <1>0, MemberNext
  <2>5. next.valid <=> GoodMembers(all)
    <3>1. next.valid = (total.valid /\ Admitted(row))
      BY <2>1
    <3> QED
      BY <1>5, <2>2, <3>1, Zenon
  <2>6. next.rows = all
    BY <2>1
  <2>4. IsFiniteSet(Demand(all)) /\ next.count = Cardinality(Demand(all))
    <3>1. IsFiniteSet(Demand(rows)) /\ total.count = Cardinality(Demand(rows))
      BY <1>5 DEF MemberTrue
    <3>2. CASE Runnable(row)
      <4>1. Demand(all) = Demand(rows) \cup {row.task} /\ row.task \notin Demand(rows)
        BY <1>5, <3>2 DEF Demand
      <4>2. /\ IsFiniteSet(Demand(rows) \cup {row.task})
            /\ Cardinality(Demand(rows) \cup {row.task}) = Cardinality(Demand(rows)) + 1
        BY <3>1, <4>1, OneMore
      <4>3. next.count = total.count + 1
        BY <2>1, <3>2
      <4> QED
        BY <3>1, <4>1, <4>2, <4>3
    <3>3. CASE ~Runnable(row)
      <4>1. Demand(all) = Demand(rows)
        BY <3>3 DEF Demand
      <4> QED
        BY <1>0, <2>1, <3>1, <3>3, <4>1 DEF Totals
    <3> QED
      BY <3>2, <3>3
  <2> QED
    BY <2>3, <2>4, <2>5, <2>6 DEF MemberTrue
<1> QED
  BY <1>0, <1>1, <1>2, <1>3, <1>4, <1>5 DEF Totals

\* The whole list.
LEMMA MembersCounted ==
    ASSUME NEW list \in MemberLists
    PROVE  MemberTrue(MemberTotals(list)[Len(list)], Range(list))
<1> DEFINE Done == {n \in 0..Len(list) : MemberTrue(MemberTotals(list)[n], First(list, n))}
<1>1. list \in Seq(Rows(MemberLists)) /\ Len(list) \in Nat /\ DOMAIN list = 1..Len(list)
  BY MetricsAssumption
<1>2. \A n \in 1..Len(list) : list[n] \in Rows(MemberLists)
  BY <1>1
<1>3. 0 \in Done
  <2>1. First(list, 0) = {} /\ Demand({}) = {}
    BY DEF First, Demand
  <2>2. NoCount \in Totals /\ NoCount.valid /\ NoCount.rows = {} /\ NoCount.count = 0
    BY DEF NoCount, Totals
  <2>3. IsFiniteSet({}) /\ Cardinality({}) = 0
    BY FS_EmptySet
  <2>4. GoodMembers({})
    BY DEF GoodMembers
  <2>5. MemberTrue(NoCount, {})
    BY <2>1, <2>2, <2>3, <2>4 DEF MemberTrue
  <2>6. MemberTotals(list)[0] = NoCount
    BY <1>1, MemberLoop
  <2>7. MemberTrue(MemberTotals(list)[0], First(list, 0))
    BY <2>1, <2>5, <2>6
  <2> QED
    BY <1>1, <2>7
<1>4. ASSUME NEW n \in 1..Len(list), n - 1 \in Done PROVE n \in Done
  <2>1. First(list, n) = First(list, n - 1) \cup {list[n]}
    BY FirstRow
  <2>2. MemberTotals(list)[n] = CountMember(MemberTotals(list)[n - 1], list[n])
    BY <1>1, MemberLoop
  <2>3. MemberTrue(CountMember(MemberTotals(list)[n - 1], list[n]), First(list, n - 1) \cup {list[n]})
    BY <1>2, <1>4, MemberCounted
  <2>4. MemberTrue(MemberTotals(list)[n], First(list, n))
    BY <2>1, <2>2, <2>3
  <2> QED
    BY <2>4
<1>5. Len(list) \in Done
  <2> HIDE DEF Done
  <2>1. \A n \in 0..Len(list) : n \in Done
    BY <1>1, <1>3, <1>4, CountUp
  <2> QED
    BY <1>1, <2>1
<1>6. First(list, Len(list)) = Range(list)
  BY <1>1 DEF First, Range
<1> QED
  BY <1>5, <1>6

\* What a total says of the set of rows it counted.
SlotTrue(total, rows) ==
    /\ total \in Totals
    /\ total.valid <=> GoodSlots(rows)
    /\ total.valid => /\ total.rows = rows
                      /\ IsFiniteSet(Capacity(rows)) /\ total.count = Cardinality(Capacity(rows))

LEMMA SlotNext ==
    ASSUME NEW total \in Totals, NEW row \in Rows(SlotLists)
    PROVE  CountSlot(total, row) \in Totals /\ (CountSlot(total, row).valid => total.valid)
<1> DEFINE known == {r \in total.rows : r.slot = row.slot}
<1>1. CASE ~row.well \/ known # {}
  <2>1. CountSlot(total, row) = [total EXCEPT !.valid = @ /\ row.well /\ row \in total.rows]
    BY <1>1 DEF CountSlot
  <2>2. row.well \in BOOLEAN
    BY MetricsAssumption
  <2> QED
    BY <2>1, <2>2 DEF Totals
<1>2. CASE row.well /\ known = {}
  <2>1. CountSlot(total, row) = [rows |-> total.rows \cup {row},
                            count |-> total.count + (IF row.available THEN 1 ELSE 0),
                            valid |-> total.valid]
    BY <1>2 DEF CountSlot, Totals
  <2> QED
    BY <2>1 DEF Totals, Admitted, Runnable
<1> QED
  BY <1>1, <1>2, MetricsAssumption

\* One row more.
LEMMA SlotCounted ==
    ASSUME NEW total, NEW rows, SlotTrue(total, rows), NEW row \in Rows(SlotLists)
    PROVE  SlotTrue(CountSlot(total, row), rows \cup {row})
<1> DEFINE next == CountSlot(total, row)
           all == rows \cup {row}
<1>0. total \in Totals /\ row.well \in BOOLEAN /\ row.available \in BOOLEAN
  BY MetricsAssumption DEF SlotTrue
<1>1. CASE ~total.valid
  <2>1. ~GoodSlots(all)
    BY <1>1 DEF SlotTrue, GoodSlots
  <2>2. next \in Totals /\ ~next.valid
    BY <1>0, <1>1, SlotNext
  <2> QED
    BY <2>1, <2>2 DEF SlotTrue
<1>2. CASE total.valid /\ ~row.well
  <2>1. ~GoodSlots(all)
    BY <1>2 DEF GoodSlots
  <2>2. next \in Totals /\ ~next.valid
    BY <1>0, <1>2 DEF Totals, CountSlot
  <2> QED
    BY <2>1, <2>2 DEF SlotTrue
<1>3. CASE total.valid /\ row.well /\ row \in rows
  <2>1. all = rows
    BY <1>3
  <2>2. next = total
    BY <1>0, <1>3 DEF Totals, CountSlot, SlotTrue
  <2> QED
    BY <2>1, <2>2 DEF SlotTrue
<1>4. CASE total.valid /\ row.well /\ row \notin rows /\ \E r \in rows : r.slot = row.slot
  <2>1. ~GoodSlots(all)
    BY <1>4 DEF GoodSlots
  <2>2. next \in Totals /\ ~next.valid
    BY <1>0, <1>4 DEF Totals, CountSlot, SlotTrue
  <2> QED
    BY <2>1, <2>2 DEF SlotTrue
<1>5. CASE total.valid /\ row.well /\ row \notin rows /\ ~\E r \in rows : r.slot = row.slot
  <2>1. /\ next = [rows |-> all, count |-> total.count + (IF row.available THEN 1 ELSE 0), valid |-> TRUE]
        /\ total.rows = rows
    BY <1>0, <1>5 DEF Totals, CountSlot, SlotTrue
  <2>2. GoodSlots(all)
    BY <1>5 DEF SlotTrue, GoodSlots
  <2>3. next \in Totals
    BY <1>0, SlotNext
  <2>4. IsFiniteSet(Capacity(all)) /\ next.count = Cardinality(Capacity(all))
    <3>1. IsFiniteSet(Capacity(rows)) /\ total.count = Cardinality(Capacity(rows))
      BY <1>5 DEF SlotTrue
    <3>2. CASE row.available
      <4>1. Capacity(all) = Capacity(rows) \cup {row.slot} /\ row.slot \notin Capacity(rows)
        BY <1>5, <3>2 DEF Capacity
      <4>2. /\ IsFiniteSet(Capacity(rows) \cup {row.slot})
            /\ Cardinality(Capacity(rows) \cup {row.slot}) = Cardinality(Capacity(rows)) + 1
        BY <3>1, <4>1, OneMore
      <4>3. next.count = total.count + 1
        BY <2>1, <3>2
      <4> QED
        BY <3>1, <4>1, <4>2, <4>3
    <3>3. CASE ~row.available
      <4>1. Capacity(all) = Capacity(rows)
        BY <3>3 DEF Capacity
      <4> QED
        BY <1>0, <2>1, <3>1, <3>3, <4>1 DEF Totals
    <3> QED
      BY <3>2, <3>3
  <2> QED
    BY <2>1, <2>2, <2>3, <2>4 DEF SlotTrue
<1> QED
  BY <1>0, <1>1, <1>2, <1>3, <1>4, <1>5 DEF Totals

\* The whole list.
LEMMA SlotsCounted ==
    ASSUME NEW list \in SlotLists
    PROVE  SlotTrue(SlotTotals(list)[Len(list)], Range(list))
<1> DEFINE Done == {n \in 0..Len(list) : SlotTrue(SlotTotals(list)[n], First(list, n))}
<1>1. list \in Seq(Rows(SlotLists)) /\ Len(list) \in Nat /\ DOMAIN list = 1..Len(list)
  BY MetricsAssumption
<1>2. \A n \in 1..Len(list) : list[n] \in Rows(SlotLists)
  BY <1>1
<1>3. 0 \in Done
  <2>1. First(list, 0) = {} /\ Capacity({}) = {}
    BY DEF First, Capacity
  <2>2. NoCount \in Totals /\ NoCount.valid /\ NoCount.rows = {} /\ NoCount.count = 0
    BY DEF NoCount, Totals
  <2>3. IsFiniteSet({}) /\ Cardinality({}) = 0
    BY FS_EmptySet
  <2>4. GoodSlots({})
    BY DEF GoodSlots
  <2>5. SlotTrue(NoCount, {})
    BY <2>1, <2>2, <2>3, <2>4 DEF SlotTrue
  <2>6. SlotTotals(list)[0] = NoCount
    BY <1>1, SlotLoop
  <2>7. SlotTrue(SlotTotals(list)[0], First(list, 0))
    BY <2>1, <2>5, <2>6
  <2> QED
    BY <1>1, <2>7
<1>4. ASSUME NEW n \in 1..Len(list), n - 1 \in Done PROVE n \in Done
  <2>1. First(list, n) = First(list, n - 1) \cup {list[n]}
    BY FirstRow
  <2>2. SlotTotals(list)[n] = CountSlot(SlotTotals(list)[n - 1], list[n])
    BY <1>1, SlotLoop
  <2>3. SlotTrue(CountSlot(SlotTotals(list)[n - 1], list[n]), First(list, n - 1) \cup {list[n]})
    BY <1>2, <1>4, SlotCounted
  <2>4. SlotTrue(SlotTotals(list)[n], First(list, n))
    BY <2>1, <2>2, <2>3
  <2> QED
    BY <2>4
<1>5. Len(list) \in Done
  <2> HIDE DEF Done
  <2>1. \A n \in 0..Len(list) : n \in Done
    BY <1>1, <1>3, <1>4, CountUp
  <2> QED
    BY <1>1, <2>1
<1>6. First(list, Len(list)) = Range(list)
  BY <1>1 DEF First, Range
<1> QED
  BY <1>5, <1>6


-----------------------------------------------------------------------------
(***************************************************************************)
(* The invariant.                                                          *)
(***************************************************************************)

\* What a call that was not refused counts, remembers and reports.
Observed == [refused : {FALSE}, identity : Identities, sequence : 1..MaxSequence, at : 0..MaxTime,
             members : MemberLists, slots : SlotLists, complete : Completions]
Counted(c) == [Population[c.members][c.slots] EXCEPT !.valid = @ /\ c.complete]
SnapshotOf(c) == [window |-> WindowIdentity(c.identity, Counted(c).valid, c.members, c.slots),
                  sequence |-> c.sequence, at |-> c.at]
ReportOf(c, count) == [evaluation |-> Evaluation(Counted(c).valid, count),
                       demand |-> Counted(c).demand, capacity |-> Counted(c).capacity,
                       members |-> c.members, slots |-> c.slots]

\* The call made j calls before the last one, and a call that qualifies after
\* another: on time, of a valid population at high pressure.
Past(history, j) == history[Len(history) - j]
Follows(c, d) == OnTime(c, d) /\ Counted(d).valid /\ HighPressure(Counted(d))

\* The last k calls each follow the one before.
Streak(history, k) ==
    /\ k > 0 => k < Len(history)
    /\ \A j \in 0..k - 1 : Follows(Past(history, j + 1), Past(history, j))

HistoryOK ==
    /\ calls \in Seq({Refusal} \cup Observed)
    /\ Len(calls) <= WindowLength + 1

\* Nothing is kept of a refused call, and all of the last one that was not.
Remembers ==
    IF calls = <<>> \/ Past(calls, 0).refused
    THEN previous = NoSnapshot /\ qualifying = 0 /\ report = NoReport
    ELSE previous = SnapshotOf(Past(calls, 0)) /\ report = ReportOf(Past(calls, 0), qualifying)

\* The length of the window is the longest streak there is, up to a full one.
WindowCounts == \A k \in 0..WindowLength : k <= qualifying <=> Streak(calls, k)

MetricsInv == TypeOK /\ HistoryOK /\ Remembers /\ WindowCounts

-----------------------------------------------------------------------------
(***************************************************************************)
(* A population depends on the sets of rows only.                          *)
(***************************************************************************)

\* What a population says of the sets of rows it counted.
LEMMA PopulationCounts ==
    ASSUME NEW members \in MemberLists, NEW slots \in SlotLists
    PROVE  LET p == Population[members][slots] IN
           /\ p \in [demand : Nat, capacity : Nat, valid : BOOLEAN]
           /\ p.valid <=> GoodMembers(Range(members)) /\ GoodSlots(Range(slots))
           /\ p.valid => /\ p.demand = Cardinality(Demand(Range(members)))
                         /\ p.capacity = Cardinality(Capacity(Range(slots)))
<1> DEFINE demand == MemberTotals(members)[Len(members)]
           capacity == SlotTotals(slots)[Len(slots)]
           p == Population[members][slots]
<1>1. MemberTrue(demand, Range(members)) /\ SlotTrue(capacity, Range(slots))
  BY MembersCounted, SlotsCounted
<1>2. demand \in Totals /\ capacity \in Totals
  BY <1>1 DEF MemberTrue, SlotTrue
<1>3. p = [demand |-> demand.count, capacity |-> capacity.count, valid |-> demand.valid /\ capacity.valid]
  BY Zenon DEF Population
<1> HIDE DEF p, demand, capacity
<1>4. p.demand = demand.count /\ p.capacity = capacity.count /\ p.valid = (demand.valid /\ capacity.valid)
  BY <1>3
<1>5. p \in [demand : Nat, capacity : Nat, valid : BOOLEAN]
  BY <1>2, <1>3 DEF Totals
<1>6. p.valid <=> GoodMembers(Range(members)) /\ GoodSlots(Range(slots))
  BY <1>1, <1>4, Zenon DEF MemberTrue, SlotTrue
<1>7. ASSUME p.valid
      PROVE  p.demand = Cardinality(Demand(Range(members))) /\ p.capacity = Cardinality(Capacity(Range(slots)))
  BY <1>1, <1>4, <1>7, Zenon DEF MemberTrue, SlotTrue
<1> QED
  BY <1>5, <1>6, <1>7 DEF p

\* Lists of one digest have the same rows.
LEMMA SameRows ==
    ASSUME NEW a \in MemberLists \cup SlotLists, NEW b \in MemberLists \cup SlotLists, Digest[a] = Digest[b]
    PROVE  Range(a) = Range(b)
<1>1. /\ Digest[a] = [r \in Range(a) |-> Cardinality({i \in DOMAIN a : a[i] = r})]
      /\ Digest[b] = [r \in Range(b) |-> Cardinality({i \in DOMAIN b : b[i] = r})]
  BY Zenon DEF Digest
<1>2. DOMAIN Digest[a] = Range(a) /\ DOMAIN Digest[b] = Range(b)
  BY <1>1
<1> QED
  BY <1>2

LEMMA ObservedType ==
    ASSUME NEW c \in Observed
    PROVE  /\ c.identity \in Identities /\ c.members \in MemberLists /\ c.slots \in SlotLists
           /\ c.sequence \in 1..MaxSequence /\ c.at \in 0..MaxTime
           /\ c.sequence \in Nat /\ c.at \in Nat
           /\ c.complete \in BOOLEAN /\ ~c.refused
<1>1. c.complete \in Completions /\ Completions \subseteq BOOLEAN /\ MaxSequence \in Nat /\ MaxTime \in Nat
  BY MetricsAssumption DEF Observed
<1>2. c.complete \in BOOLEAN
  BY <1>1
<1>3. c.sequence \in 1..MaxSequence /\ c.at \in 0..MaxTime
  BY DEF Observed
<1>4. c.sequence \in Nat /\ c.at \in Nat
  BY <1>1, <1>3
<1>5. c.identity \in Identities /\ c.members \in MemberLists /\ c.slots \in SlotLists /\ c.refused = FALSE
  BY DEF Observed
<1> QED
  BY <1>2, <1>3, <1>4, <1>5

LEMMA WindowType ==
    ASSUME NEW identity \in Identities, NEW valid \in BOOLEAN,
           NEW members \in MemberLists, NEW slots \in SlotLists
    PROVE  WindowIdentity(identity, valid, members, slots) \in Windows
BY DEF Windows

\* Snapshots of one population, whole alike, are both valid or neither is, and
\* when they are valid they count the same.
LEMMA SamePopulation ==
    ASSUME NEW c \in Observed, NEW d \in Observed, d.complete = c.complete,
           Digest[d.members] = Digest[c.members], Digest[d.slots] = Digest[c.slots]
    PROVE  /\ Counted(d).valid = Counted(c).valid
           /\ Counted(d).valid => /\ Counted(d).demand = Counted(c).demand
                                  /\ Counted(d).capacity = Counted(c).capacity
<1>1. /\ c.members \in MemberLists /\ c.slots \in SlotLists /\ c.complete \in BOOLEAN
      /\ d.members \in MemberLists /\ d.slots \in SlotLists
  BY MetricsAssumption DEF Observed
<1>2. Range(d.members) = Range(c.members) /\ Range(d.slots) = Range(c.slots)
  BY <1>1, SameRows
<1> DEFINE p == Population[c.members][c.slots]
           q == Population[d.members][d.slots]
<1>3. /\ p \in [demand : Nat, capacity : Nat, valid : BOOLEAN]
      /\ p.valid <=> GoodMembers(Range(c.members)) /\ GoodSlots(Range(c.slots))
      /\ p.valid => /\ p.demand = Cardinality(Demand(Range(c.members)))
                    /\ p.capacity = Cardinality(Capacity(Range(c.slots)))
  BY <1>1, PopulationCounts
<1>4. /\ q \in [demand : Nat, capacity : Nat, valid : BOOLEAN]
      /\ q.valid <=> GoodMembers(Range(d.members)) /\ GoodSlots(Range(d.slots))
      /\ q.valid => /\ q.demand = Cardinality(Demand(Range(d.members)))
                    /\ q.capacity = Cardinality(Capacity(Range(d.slots)))
  BY <1>1, PopulationCounts
<1>5. Counted(c) = [p EXCEPT !.valid = @ /\ c.complete] /\ Counted(d) = [q EXCEPT !.valid = @ /\ c.complete]
  BY DEF Counted
<1> HIDE DEF p, q
<1> QED
  BY <1>1, <1>2, <1>3, <1>4, <1>5

LEMMA CountedType ==
    ASSUME NEW c \in Observed
    PROVE  Counted(c) \in [demand : Nat, capacity : Nat, valid : BOOLEAN]
<1>1. c.members \in MemberLists /\ c.slots \in SlotLists /\ c.complete \in BOOLEAN
  BY MetricsAssumption DEF Observed
<1>2. Population[c.members][c.slots] \in [demand : Nat, capacity : Nat, valid : BOOLEAN]
  BY <1>1, PopulationCounts
<1> QED
  BY <1>1, <1>2 DEF Counted

-----------------------------------------------------------------------------
(***************************************************************************)
(* The window.                                                             *)
(***************************************************************************)

\* A snapshot counts in the window exactly when the history says that it follows
\* the one before: the digests that previous keeps stand for the calls themselves.
LEMMA OnTimeExactly ==
    ASSUME NEW c \in Observed, NEW d \in Observed, previous = SnapshotOf(c), Counted(d).valid,
           ~(SameLane(d.identity) /\ (d.at <= previous.at \/ d.sequence <= previous.sequence))
    PROVE  LET window == WindowIdentity(d.identity, Counted(d).valid, d.members, d.slots)
           IN  Heartbeat(window, d.sequence, d.at) = "ON_TIME" <=> OnTime(c, d)
<1> DEFINE window == WindowIdentity(d.identity, Counted(d).valid, d.members, d.slots)
           kept == WindowIdentity(c.identity, Counted(c).valid, c.members, c.slots)
<1>1. /\ c.sequence \in Nat /\ c.at \in Nat /\ d.sequence \in Nat /\ d.at \in Nat
      /\ c.complete \in BOOLEAN /\ d.complete \in BOOLEAN
      /\ ~c.refused /\ ~d.refused
      /\ Ceiling \in Nat
  BY MetricsAssumption, ObservedType
<1>2. previous # NoSnapshot
  <2>1. c.identity \in Identities /\ c.members \in MemberLists /\ c.slots \in SlotLists
    BY DEF Observed
  <2>2. Counted(c).valid \in BOOLEAN
    BY CountedType
  <2>3. kept \in Windows
    BY <2>1, <2>2, WindowType
  <2>4. SnapshotOf(c) \in Snapshots
    BY <2>3 DEF SnapshotOf, Snapshots, Observed
  <2> QED
    BY <2>4, SnapshotAssumption
<1>3. previous.window = kept /\ previous.sequence = c.sequence /\ previous.at = c.at
  BY DEF SnapshotOf
<1>4. /\ window.identity = d.identity /\ window.valid = Counted(d).valid
      /\ window.members = Digest[d.members] /\ window.slots = Digest[d.slots]
      /\ kept.identity = c.identity /\ kept.valid = Counted(c).valid
      /\ Counted(c).valid => kept.members = Digest[c.members] /\ kept.slots = Digest[c.slots]
  BY DEF WindowIdentity
<1>5. Counted(c).valid \in BOOLEAN /\ Counted(d).valid = TRUE
  BY CountedType
<1>6. (Counted(c).valid => c.complete) /\ d.complete
  <2>1. \A x \in Observed : Counted(x).valid => x.complete
    <3> SUFFICES ASSUME NEW x \in Observed, Counted(x).valid PROVE x.complete
      OBVIOUS
    <3>1. Population[x.members][x.slots] \in [demand : Nat, capacity : Nat, valid : BOOLEAN]
      BY PopulationCounts DEF Observed
    <3> QED
      BY <3>1 DEF Counted
  <2> QED
    BY <2>1
<1> HIDE DEF window, kept
<1>7. ASSUME Heartbeat(window, d.sequence, d.at) = "ON_TIME" PROVE OnTime(c, d)
  <2>1. kept = window /\ d.sequence = c.sequence + 1 /\ d.at - c.at <= Ceiling
    BY <1>3, <1>7 DEF Heartbeat, SameWindow
  <2>2. Counted(c).valid /\ d.identity = c.identity
    BY <1>4, <1>5, <2>1
  <2>3. Digest[d.members] = Digest[c.members] /\ Digest[d.slots] = Digest[c.slots]
    BY <1>4, <2>1, <2>2
  <2>4. c.at < d.at
    <3>1. SameLane(d.identity)
      BY <1>2, <1>3, <1>4, <2>2 DEF SameLane
    <3> QED
      BY <1>1, <1>3, <3>1
  <2>5. d.complete = c.complete
    BY <1>1, <1>6, <2>2
  <2> QED
    BY <1>1, <2>1, <2>2, <2>3, <2>4, <2>5 DEF OnTime
<1>8. ASSUME OnTime(c, d) PROVE Heartbeat(window, d.sequence, d.at) = "ON_TIME"
  <2>1. /\ d.identity = c.identity /\ d.complete = c.complete
        /\ d.sequence = c.sequence + 1 /\ d.at <= c.at + Ceiling
        /\ Digest[d.members] = Digest[c.members] /\ Digest[d.slots] = Digest[c.slots]
    BY <1>8 DEF OnTime
  <2>2. Counted(d).valid = Counted(c).valid
    BY <2>1, SamePopulation
  <2>3. kept = window
    BY <2>1, <2>2 DEF kept, window, WindowIdentity
  <2> QED
    BY <1>1, <1>2, <1>3, <2>1, <2>3 DEF Heartbeat, SameWindow
<1> QED
  BY <1>7, <1>8 DEF window

-----------------------------------------------------------------------------
(***************************************************************************)
(* One call more.                                                          *)
(***************************************************************************)

Calls == {Refusal} \cup Observed

\* The history with one call more: the oldest call is dropped from a full one.
LEMMA OneCallMore ==
    ASSUME HistoryOK, NEW call \in Calls, Remember(call)
    PROVE  /\ HistoryOK' /\ Len(calls') \in Nat /\ Len(calls) \in Nat
           /\ calls' # <<>> /\ Past(calls', 0) = call
           /\ \A k \in 1..WindowLength : k < Len(calls') <=> k - 1 < Len(calls)
           /\ \A j \in 1..WindowLength : j < Len(calls') => Past(calls', j) = Past(calls, j - 1)
<1>0. calls \in Seq(Calls) /\ Len(calls) \in Nat /\ Len(calls) <= WindowLength + 1 /\ WindowLength \in Nat \ {0}
  BY MetricsAssumption DEF HistoryOK, Calls
<1>1. CASE Len(calls) > WindowLength
  <2>1. calls' = Append(Tail(calls), call) /\ Len(calls) = WindowLength + 1
    BY <1>0, <1>1 DEF Remember
  <2>2. Tail(calls) \in Seq(Calls) /\ Len(Tail(calls)) = WindowLength
    BY <1>0, <2>1
  <2>3. \A i \in 1..WindowLength : Tail(calls)[i] = calls[i + 1]
    BY <1>0, <2>1
  <2> HIDE DEF Calls
  <2>4. /\ calls' \in Seq(Calls) /\ Len(calls') = WindowLength + 1
        /\ calls'[WindowLength + 1] = call
        /\ \A i \in 1..WindowLength : calls'[i] = Tail(calls)[i]
    BY <2>1, <2>2
  <2>5. \A j \in 1..WindowLength : Past(calls', j) = Past(calls, j - 1)
    <3> SUFFICES ASSUME NEW j \in 1..WindowLength PROVE Past(calls', j) = Past(calls, j - 1)
      OBVIOUS
    <3> DEFINE i == WindowLength + 1 - j
    <3>1. i \in 1..WindowLength /\ Len(calls') - j = i /\ Len(calls) - (j - 1) = i + 1
      BY <1>0, <2>1, <2>4
    <3> QED
      BY <2>3, <2>4, <3>1 DEF Past
  <2>6. Past(calls', 0) = call /\ calls' # <<>>
    BY <1>0, <2>4 DEF Past
  <2>7. HistoryOK'
    BY <2>4 DEF HistoryOK, Calls
  <2> QED
    BY <1>0, <2>1, <2>4, <2>5, <2>6, <2>7
<1>2. CASE ~(Len(calls) > WindowLength)
  <2>1. calls' = Append(calls, call)
    BY <1>2 DEF Remember
  <2> HIDE DEF Calls
  <2>2. /\ calls' \in Seq(Calls) /\ Len(calls') = Len(calls) + 1
        /\ calls'[Len(calls) + 1] = call
        /\ \A i \in 1..Len(calls) : calls'[i] = calls[i]
    BY <1>0, <2>1
  <2>3. ASSUME NEW j \in 1..WindowLength, j < Len(calls') PROVE Past(calls', j) = Past(calls, j - 1)
    <3>1. Len(calls') - j \in 1..Len(calls) /\ Len(calls) - (j - 1) = Len(calls') - j
      BY <1>0, <2>2, <2>3
    <3> QED
      BY <2>2, <3>1 DEF Past
  <2>4. Past(calls', 0) = call /\ calls' # <<>>
    BY <1>0, <2>2 DEF Past
  <2>5. HistoryOK'
    BY <1>0, <1>2, <2>2 DEF HistoryOK, Calls
  <2> QED
    BY <1>0, <2>2, <2>3, <2>4, <2>5
<1> QED
  BY <1>1, <1>2

\* A streak ends with the new call when that follows the last one, and is then
\* one longer.
LEMMA StreakGrows ==
    ASSUME HistoryOK, NEW call \in Calls, Remember(call), NEW k \in 1..WindowLength
    PROVE  Streak(calls', k) <=> calls # <<>> /\ Follows(Past(calls, 0), call) /\ Streak(calls, k - 1)
<1>0. WindowLength \in Nat \ {0} /\ k \in Nat
  BY MetricsAssumption
<1>1. /\ Len(calls') \in Nat /\ Len(calls) \in Nat /\ Past(calls', 0) = call
      /\ k < Len(calls') <=> k - 1 < Len(calls)
      /\ \A j \in 1..WindowLength : j < Len(calls') => Past(calls', j) = Past(calls, j - 1)
  BY OneCallMore
<1>2. k - 1 < Len(calls) => calls # <<>>
  BY <1>0, <1>1
<1>3. calls # <<>> => 0 < Len(calls)
  BY <1>1 DEF HistoryOK
<1>4. ASSUME Streak(calls', k)
      PROVE  calls # <<>> /\ Follows(Past(calls, 0), call) /\ Streak(calls, k - 1)
  <2>1. k < Len(calls') /\ k - 1 < Len(calls)
    BY <1>0, <1>1, <1>4 DEF Streak
  <2>2. \A j \in 1..k : Past(calls', j) = Past(calls, j - 1)
    BY <1>0, <1>1, <2>1
  <2>3. \A j \in 0..k - 1 : Follows(Past(calls', j + 1), Past(calls', j))
    BY <1>4 DEF Streak
  <2>4. Follows(Past(calls', 1), Past(calls', 0))
    <3>1. 0 \in 0..k - 1 /\ 0 + 1 = 1
      BY <1>0
    <3> QED
      BY <2>3, <3>1
  <2>5. Past(calls', 1) = Past(calls, 0)
    <3>1. 1 \in 1..k /\ 1 - 1 = 0
      BY <1>0
    <3> QED
      BY <2>2, <3>1
  <2>6. ASSUME NEW j \in 0..(k - 1) - 1 PROVE Follows(Past(calls, j + 1), Past(calls, j))
    <3>1. j + 1 \in 0..k - 1 /\ j + 1 \in 1..k /\ j + 2 \in 1..k /\ (j + 1) + 1 = j + 2 /\ (j + 1) - 1 = j /\ (j + 2) - 1 = j + 1
      BY <1>0
    <3>2. Follows(Past(calls', j + 2), Past(calls', j + 1))
      BY <2>3, <3>1
    <3>3. Past(calls', j + 2) = Past(calls, j + 1) /\ Past(calls', j + 1) = Past(calls, j)
      BY <2>2, <3>1
    <3> QED
      BY <3>2, <3>3
  <2> QED
    BY <1>1, <1>2, <2>1, <2>4, <2>5, <2>6 DEF Streak
<1>5. ASSUME calls # <<>>, Follows(Past(calls, 0), call), Streak(calls, k - 1)
      PROVE  Streak(calls', k)
  <2>1. k - 1 < Len(calls) /\ k < Len(calls')
    BY <1>0, <1>1, <1>3, <1>5 DEF Streak
  <2>2. \A j \in 1..k : Past(calls', j) = Past(calls, j - 1)
    BY <1>0, <1>1, <2>1
  <2>3. ASSUME NEW j \in 0..k - 1 PROVE Follows(Past(calls', j + 1), Past(calls', j))
    <3>1. j + 1 \in 1..k /\ (j + 1) - 1 = j
      BY <1>0
    <3>2. Past(calls', j + 1) = Past(calls, j)
      BY <2>2, <3>1
    <3>3. CASE j = 0
      BY <1>1, <1>5, <3>2, <3>3
    <3>4. CASE j # 0
      <4>1. j \in 1..k /\ j - 1 \in 0..(k - 1) - 1 /\ (j - 1) + 1 = j
        BY <1>0, <3>4
      <4>2. Past(calls', j) = Past(calls, j - 1)
        BY <2>2, <4>1
      <4>3. Follows(Past(calls, j), Past(calls, j - 1))
        BY <1>5, <4>1 DEF Streak
      <4> QED
        BY <3>2, <4>2, <4>3
    <3> QED
      BY <3>3, <3>4
  <2> QED
    BY <2>1, <2>3 DEF Streak
<1> QED
  BY <1>4, <1>5

LEMMA StreakZero ==
    ASSUME NEW history
    PROVE  Streak(history, 0)
BY DEF Streak

-----------------------------------------------------------------------------
(***************************************************************************)
(* The invariant is inductive.                                             *)
(***************************************************************************)

LEMMA MetricsInit ==
    ASSUME Init
    PROVE  MetricsInv
<1>1. WindowLength \in Nat \ {0} /\ MaxCalls \in Nat
  BY MetricsAssumption
<1>2. TypeOK
  BY <1>1 DEF Init, TypeOK, NoReport
<1>3. calls = <<>> /\ Len(calls) = 0
  BY DEF Init
<1>4. HistoryOK
  BY <1>1, <1>3 DEF HistoryOK
<1>5. Remembers
  BY <1>3 DEF Init, Remembers
<1>6. WindowCounts
  <2> SUFFICES ASSUME NEW k \in 0..WindowLength PROVE k <= qualifying <=> Streak(calls, k)
    BY DEF WindowCounts
  <2>1. CASE k = 0
    BY <2>1, StreakZero DEF Init
  <2>2. CASE k # 0
    BY <1>1, <1>3, <2>2 DEF Init, Streak
  <2> QED
    BY <2>1, <2>2
<1> QED
  BY <1>2, <1>4, <1>5, <1>6 DEF MetricsInv

\* A refused call forgets every sample.
LEMMA RefuseKeeps ==
    ASSUME MetricsInv, Refuse, made' \in 0..MaxCalls
    PROVE  MetricsInv'
<1>1. Refusal \in Calls /\ Refusal.refused
  BY DEF Calls, Refusal
<1>2. Remember(Refusal) /\ previous' = NoSnapshot /\ qualifying' = 0 /\ report' = NoReport
  BY DEF Refuse, Remeasured
<1>3. HistoryOK' /\ calls' # <<>> /\ Past(calls', 0) = Refusal
  BY <1>1, <1>2, OneCallMore DEF MetricsInv
<1>4. TypeOK'
  BY <1>2, MetricsAssumption DEF TypeOK, NoReport
<1>5. Remembers'
  BY <1>1, <1>2, <1>3 DEF Remembers
<1>6. WindowCounts'
  <2> SUFFICES ASSUME NEW k \in 0..WindowLength PROVE k <= qualifying' <=> Streak(calls', k)
    BY DEF WindowCounts
  <2>1. CASE k = 0
    BY <1>2, <2>1, StreakZero
  <2>2. CASE k # 0
    <3>1. k \in 1..WindowLength
      BY <2>2, MetricsAssumption
    <3>2. ~Follows(Past(calls, 0), Refusal)
      BY <1>1 DEF Follows, OnTime
    <3>3. ~Streak(calls', k)
      BY <1>1, <1>2, <3>1, <3>2, StreakGrows DEF MetricsInv
    <3> QED
      BY <1>2, <3>1, <3>3
  <2> QED
    BY <2>1, <2>2
<1> QED
  BY <1>3, <1>4, <1>5, <1>6 DEF MetricsInv

\* A snapshot that is taken is remembered, counted and reported.
LEMMA ObserveKeeps ==
    ASSUME MetricsInv, NEW identity \in Identities, NEW sequence \in 1..MaxSequence, NEW at \in 0..MaxTime,
           NEW members \in MemberLists, NEW slots \in SlotLists, NEW complete \in Completions,
           Observe(identity, sequence, at, members, slots, complete),
           ~(SameLane(identity) /\ (at <= previous.at \/ sequence <= previous.sequence)),
           made' \in 0..MaxCalls
    PROVE  MetricsInv'
<1> DEFINE d == [refused |-> FALSE, identity |-> identity, sequence |-> sequence, at |-> at,
                 members |-> members, slots |-> slots, complete |-> complete]
           window == WindowIdentity(identity, Counted(d).valid, members, slots)
           beat == Heartbeat(window, sequence, at)
           count == Qualifying(window, beat, Counted(d))
<1>1. d \in Observed /\ d \in Calls /\ ~d.refused
  BY DEF Observed, Calls
<1>2. /\ d.identity = identity /\ d.sequence = sequence /\ d.at = at
      /\ d.members = members /\ d.slots = slots /\ d.complete = complete
  OBVIOUS
<1>3. Counted(d) = [Population[members][slots] EXCEPT !.valid = @ /\ complete]
  BY <1>2 DEF Counted
<1>4. Counted(d) \in [demand : Nat, capacity : Nat, valid : BOOLEAN]
  BY <1>1, CountedType
<1> HIDE DEF d
<1>5. /\ previous' = [window |-> window, sequence |-> sequence, at |-> at]
      /\ qualifying' = count
      /\ report' = [evaluation |-> Evaluation(Counted(d).valid, count),
                    demand |-> Counted(d).demand, capacity |-> Counted(d).capacity,
                    members |-> members, slots |-> slots]
      /\ Remember(d)
  BY <1>3 DEF Observe, d
<1>6. HistoryOK' /\ calls' # <<>> /\ Past(calls', 0) = d
  BY <1>1, <1>5, OneCallMore DEF MetricsInv
<1>7. WindowLength \in Nat \ {0} /\ qualifying \in 0..WindowLength
  BY MetricsAssumption DEF MetricsInv, TypeOK
<1>8. count \in 0..WindowLength
  BY <1>7 DEF Qualifying
<1>9. TypeOK'
  <2>1. window \in Windows
    BY <1>4, WindowType
  <2>2. previous' \in Snapshots
    BY <1>5, <2>1 DEF Snapshots
  <2>3. report'.evaluation \in {"NONE", "UNKNOWN", "INELIGIBLE", "ELIGIBLE_FOR_EVALUATION"}
    BY <1>5 DEF Evaluation
  <2> QED
    BY <1>5, <1>8, <2>2, <2>3 DEF TypeOK
<1>10. Remembers'
  <2>1. previous' = SnapshotOf(d)
    BY <1>2, <1>5 DEF SnapshotOf
  <2>2. report' = ReportOf(d, qualifying')
    BY <1>2, <1>5 DEF ReportOf
  <2> QED
    BY <1>1, <1>6, <2>1, <2>2 DEF Remembers
<1>11. beat = "ON_TIME" /\ Counted(d).valid <=> calls # <<>> /\ OnTime(Past(calls, 0), d) /\ Counted(d).valid
  <2>1. CASE calls = <<>> \/ Past(calls, 0).refused
    <3>1. previous = NoSnapshot
      BY <2>1 DEF MetricsInv, Remembers
    <3>2. beat # "ON_TIME"
      BY <3>1 DEF Heartbeat, SameWindow
    <3>3. ~(calls # <<>> /\ OnTime(Past(calls, 0), d))
      BY <2>1 DEF OnTime
    <3> QED
      BY <3>2, <3>3
  <2>2. CASE ~(calls = <<>> \/ Past(calls, 0).refused)
    <3>1. previous = SnapshotOf(Past(calls, 0))
      BY <2>2 DEF MetricsInv, Remembers
    <3>2. Past(calls, 0) \in Observed
      <4>1. calls \in Seq(Calls) /\ calls # <<>>
        BY <2>2 DEF MetricsInv, HistoryOK, Calls
      <4>2. Past(calls, 0) \in Calls
        BY <4>1 DEF Past
      <4> QED
        BY <2>2, <4>2 DEF Calls, Refusal
    <3>3. CASE Counted(d).valid
      <4>1. beat = "ON_TIME" <=> OnTime(Past(calls, 0), d)
        BY <1>1, <1>2, <3>1, <3>2, <3>3, OnTimeExactly
      <4> QED
        BY <2>2, <4>1
    <3> QED
      BY <3>3
  <2> QED
    BY <2>1, <2>2
<1>12. WindowCounts'
  <2> DEFINE follows == calls # <<>> /\ Follows(Past(calls, 0), d)
  <2>1. beat = "ON_TIME" /\ Counted(d).valid /\ HighPressure(Counted(d)) <=> follows
    BY <1>11 DEF Follows
  <2>2. count = IF follows THEN (IF qualifying < WindowLength THEN qualifying + 1 ELSE WindowLength) ELSE 0
    BY <2>1 DEF Qualifying
  <2> HIDE DEF follows, count
  <2> SUFFICES ASSUME NEW k \in 0..WindowLength PROVE k <= qualifying' <=> Streak(calls', k)
    BY DEF WindowCounts
  <2>3. CASE k = 0
    BY <1>5, <1>7, <1>8, <2>3, StreakZero
  <2>4. CASE k # 0
    <3>1. k \in 1..WindowLength /\ k - 1 \in 0..WindowLength
      BY <1>7, <2>4
    <3>2. k - 1 <= qualifying <=> Streak(calls, k - 1)
      BY <3>1 DEF MetricsInv, WindowCounts
    <3>3. Streak(calls', k) <=> follows /\ Streak(calls, k - 1)
      BY <1>1, <1>5, <3>1, StreakGrows DEF MetricsInv, follows
    <3>4. k <= count <=> follows /\ k - 1 <= qualifying
      BY <1>7, <2>2, <3>1
    <3> QED
      BY <1>5, <3>2, <3>3, <3>4
  <2> QED
    BY <2>3, <2>4
<1> QED
  BY <1>6, <1>9, <1>10, <1>12 DEF MetricsInv

LEMMA MetricsNext ==
    ASSUME MetricsInv, [Next]_vars
    PROVE  MetricsInv'
<1>1. CASE UNCHANGED vars
  BY <1>1 DEF vars, MetricsInv, TypeOK, HistoryOK, Remembers, WindowCounts
<1>2. CASE Next
  <2>1. made' \in 0..MaxCalls
    BY <1>2, MetricsAssumption DEF Next, MetricsInv, TypeOK
  <2>2. CASE Remeasure
    BY <2>1, <2>2, RefuseKeeps DEF Remeasure
  <2>3. CASE \E identity \in Identities, sequence \in 1..MaxSequence, at \in 0..MaxTime,
               members \in MemberLists, slots \in SlotLists, complete \in Completions :
                  Observe(identity, sequence, at, members, slots, complete)
    <3>1. PICK identity \in Identities, sequence \in 1..MaxSequence, at \in 0..MaxTime,
               members \in MemberLists, slots \in SlotLists, complete \in Completions :
                  Observe(identity, sequence, at, members, slots, complete)
      BY <2>3
    <3>2. CASE SameLane(identity) /\ (at <= previous.at \/ sequence <= previous.sequence)
      <4>1. Refuse
        BY <3>1, <3>2 DEF Observe
      <4> QED
        BY <2>1, <4>1, RefuseKeeps
    <3>3. CASE ~(SameLane(identity) /\ (at <= previous.at \/ sequence <= previous.sequence))
      BY <2>1, <3>1, <3>3, ObserveKeeps
    <3> QED
      BY <3>2, <3>3
  <2> QED
    BY <1>2, <2>2, <2>3 DEF Next
<1> QED
  BY <1>1, <1>2

\* Whatever the calls, the state is what their last WindowLength + 1 determine:
\* the last snapshot, and the length of the streak that ends with it.
THEOREM MetricsInductive == Spec => []MetricsInv
<1>1. Init => MetricsInv
  BY MetricsInit
<1>2. MetricsInv /\ [Next]_vars => MetricsInv'
  BY MetricsNext
<1> QED
  BY <1>1, <1>2, PTL DEF Spec

-----------------------------------------------------------------------------
(***************************************************************************)
(* What the reports say.                                                   *)
(***************************************************************************)

\* A report that is not empty is that of the last call.
LEMMA ReportsLast ==
    ASSUME MetricsInv, report.evaluation # "NONE"
    PROVE  /\ calls # <<>> /\ Past(calls, 0) \in Observed
           /\ report = ReportOf(Past(calls, 0), qualifying)
<1>1. ~(calls = <<>> \/ Past(calls, 0).refused) /\ report = ReportOf(Past(calls, 0), qualifying)
  BY DEF MetricsInv, Remembers, NoReport
<1>2. calls \in Seq(Calls) /\ calls # <<>>
  BY <1>1 DEF MetricsInv, HistoryOK, Calls
<1>3. Past(calls, 0) \in Calls
  BY <1>2 DEF Past
<1> QED
  BY <1>1, <1>2, <1>3 DEF Calls, Refusal

LEMMA InvCountsDistinct ==
    ASSUME MetricsInv
    PROVE  CountsDistinct
<1> SUFFICES ASSUME report.evaluation \in {"INELIGIBLE", "ELIGIBLE_FOR_EVALUATION"}
             PROVE  LET members == Range(report.members)
                        slots == Range(report.slots)
                    IN  /\ report.demand = Cardinality({r.task : r \in {m \in members : Runnable(m)}})
                        /\ report.capacity = Cardinality({r.slot : r \in {s \in slots : s.available}})
                        /\ \A q, r \in members : (q.task = r.task \/ q.key = r.key) => q = r
                        /\ \A q, r \in slots : q.slot = r.slot => q = r
  BY DEF CountsDistinct
<1> DEFINE c == Past(calls, 0)
           p == Population[c.members][c.slots]
<1>1. c \in Observed /\ report = ReportOf(c, qualifying)
  BY ReportsLast
<1> HIDE DEF c
<1>2. c.members \in MemberLists /\ c.slots \in SlotLists
  BY <1>1, ObservedType
<1>3. /\ report.members = c.members /\ report.slots = c.slots
      /\ report.demand = Counted(c).demand /\ report.capacity = Counted(c).capacity
      /\ report.evaluation = Evaluation(Counted(c).valid, qualifying)
  BY <1>1 DEF ReportOf
<1>4. Counted(c).valid
  BY <1>3 DEF Evaluation
<1>5. /\ p \in [demand : Nat, capacity : Nat, valid : BOOLEAN]
      /\ p.valid <=> GoodMembers(Range(c.members)) /\ GoodSlots(Range(c.slots))
      /\ p.valid => /\ p.demand = Cardinality(Demand(Range(c.members)))
                    /\ p.capacity = Cardinality(Capacity(Range(c.slots)))
  BY <1>2, PopulationCounts
<1> HIDE DEF p
<1>6. Counted(c) = [p EXCEPT !.valid = @ /\ c.complete]
  BY DEF Counted, p
<1>7. p.valid /\ Counted(c).demand = p.demand /\ Counted(c).capacity = p.capacity
  BY <1>4, <1>5, <1>6
<1>8. GoodMembers(Range(c.members)) /\ GoodSlots(Range(c.slots))
  BY <1>5, <1>7
<1>9. /\ report.demand = Cardinality(Demand(Range(report.members)))
      /\ report.capacity = Cardinality(Capacity(Range(report.slots)))
  BY <1>3, <1>5, <1>7
<1> QED
  BY <1>3, <1>8, <1>9 DEF Demand, Capacity, GoodMembers, GoodSlots

\* The calls of a full window of on-time intervals have one population.
LEMMA OnePopulation ==
    ASSUME MetricsInv, Len(calls) = WindowLength + 1,
           \A i \in 1..WindowLength : OnTime(calls[i], calls[i + 1])
    PROVE  \A j \in 0..WindowLength :
              /\ Past(calls, j) \in Observed
              /\ Counted(Past(calls, j)).valid = Counted(Past(calls, 0)).valid
              /\ Counted(Past(calls, 0)).valid =>
                    /\ Counted(Past(calls, j)).demand = Counted(Past(calls, 0)).demand
                    /\ Counted(Past(calls, j)).capacity = Counted(Past(calls, 0)).capacity
<1> DEFINE Like(c, d) == /\ c \in Observed /\ c.complete = d.complete
                         /\ Digest[c.members] = Digest[d.members] /\ Digest[c.slots] = Digest[d.slots]
           Alike == {j \in 0..WindowLength : Like(Past(calls, j), Past(calls, 0))}
<1>0. WindowLength \in Nat \ {0} /\ calls \in Seq(Calls)
  BY MetricsAssumption DEF MetricsInv, HistoryOK, Calls
<1>1. \A j \in 0..WindowLength : Past(calls, j) \in Calls
  BY <1>0 DEF Past
<1>2. \A j \in 1..WindowLength : OnTime(Past(calls, j), Past(calls, j - 1))
  <2> SUFFICES ASSUME NEW j \in 1..WindowLength PROVE OnTime(Past(calls, j), Past(calls, j - 1))
    OBVIOUS
  <2> DEFINE i == WindowLength + 1 - j
  <2>1. i \in 1..WindowLength /\ Len(calls) - j = i /\ Len(calls) - (j - 1) = i + 1
    BY <1>0
  <2> QED
    BY <2>1 DEF Past
<1>3. ASSUME NEW c \in Calls, ~c.refused PROVE c \in Observed
  BY <1>3 DEF Calls, Refusal
<1>4. 0 \in Alike
  <2>1. ~Past(calls, 0).refused
    <3>1. 1 \in 1..WindowLength /\ 1 - 1 = 0
      BY <1>0
    <3>2. OnTime(Past(calls, 1), Past(calls, 0))
      BY <1>2, <3>1
    <3> QED
      BY <3>2 DEF OnTime
  <2>2. Past(calls, 0) \in Observed /\ 0 \in 0..WindowLength
    BY <1>0, <1>1, <1>3, <2>1
  <2> QED
    BY <2>2
<1>5. ASSUME NEW j \in 1..WindowLength, j - 1 \in Alike PROVE j \in Alike
  <2>1. OnTime(Past(calls, j), Past(calls, j - 1)) /\ j \in 0..WindowLength
    BY <1>0, <1>2
  <2>2. Past(calls, j) \in Observed
    BY <1>1, <1>3, <2>1 DEF OnTime
  <2>3. /\ Past(calls, j - 1).complete = Past(calls, j).complete
        /\ Digest[Past(calls, j - 1).members] = Digest[Past(calls, j).members]
        /\ Digest[Past(calls, j - 1).slots] = Digest[Past(calls, j).slots]
    BY <2>1 DEF OnTime
  <2>4. Like(Past(calls, j - 1), Past(calls, 0))
    BY <1>5
  <2>5. Like(Past(calls, j), Past(calls, 0))
    BY <2>2, <2>3, <2>4
  <2> QED
    BY <2>1, <2>5
<1>6. \A j \in 0..WindowLength : j \in Alike
  <2> HIDE DEF Alike
  <2> QED
    BY <1>0, <1>4, <1>5, CountUp
<1>7. Past(calls, 0) \in Observed
  BY <1>4
<1> SUFFICES ASSUME NEW j \in 0..WindowLength
             PROVE  /\ Past(calls, j) \in Observed
                    /\ Counted(Past(calls, j)).valid = Counted(Past(calls, 0)).valid
                    /\ Counted(Past(calls, 0)).valid =>
                          /\ Counted(Past(calls, j)).demand = Counted(Past(calls, 0)).demand
                          /\ Counted(Past(calls, j)).capacity = Counted(Past(calls, 0)).capacity
  OBVIOUS
<1>8. Like(Past(calls, j), Past(calls, 0))
  BY <1>6
<1> QED
  BY <1>7, <1>8, SamePopulation

LEMMA InvEligibleExactly ==
    ASSUME MetricsInv
    PROVE  EligibleExactly
<1> DEFINE onTime == /\ Len(calls) = WindowLength + 1
                     /\ \A i \in 1..WindowLength : OnTime(calls[i], calls[i + 1])
           sustained == onTime /\ HighPressure(report)
           c == Past(calls, 0)
<1>0. WindowLength \in Nat \ {0} /\ qualifying \in 0..WindowLength
  BY MetricsAssumption DEF MetricsInv, TypeOK
<1> SUFFICES ASSUME report.evaluation # "UNKNOWN"
             PROVE  report.evaluation = "ELIGIBLE_FOR_EVALUATION" <=> sustained
  BY DEF EligibleExactly
<1>1. CASE report.evaluation = "NONE"
  <2>1. calls = <<>> \/ c.refused
    <3>1. ASSUME ~(calls = <<>> \/ c.refused) PROVE FALSE
      <4>1. report.evaluation = Evaluation(Counted(c).valid, qualifying)
        BY <3>1 DEF MetricsInv, Remembers, ReportOf
      <4> QED
        BY <1>1, <4>1 DEF Evaluation
    <3> QED
      BY <3>1
  <2>2. ~onTime
    <3>1. SUFFICES ASSUME onTime PROVE FALSE
      OBVIOUS
    <3>2. Past(calls, 0) \in Observed
      <4>1. 0 \in 0..WindowLength
        BY <1>0
      <4> QED
        BY <3>1, <4>1, OnePopulation
    <3>3. calls # <<>>
      BY <1>0, <3>1
    <3> QED
      BY <2>1, <3>2, <3>3, ObservedType
  <2> QED
    BY <1>1, <2>2
<1>2. CASE report.evaluation # "NONE"
  <2>1. c \in Observed /\ report = ReportOf(c, qualifying)
    BY <1>2, ReportsLast
  <2>2. /\ report.demand = Counted(c).demand /\ report.capacity = Counted(c).capacity
        /\ report.evaluation = Evaluation(Counted(c).valid, qualifying)
    BY <2>1 DEF ReportOf
  <2>3. Counted(c).valid
    BY <2>2 DEF Evaluation
  <2>4. report.evaluation = "ELIGIBLE_FOR_EVALUATION" <=> qualifying = WindowLength
    BY <2>2, <2>3 DEF Evaluation
  <2>5. qualifying = WindowLength <=> Streak(calls, WindowLength)
    <3>1. WindowLength \in 0..WindowLength
      BY <1>0
    <3>2. WindowLength <= qualifying <=> Streak(calls, WindowLength)
      BY <3>1 DEF MetricsInv, WindowCounts
    <3> QED
      BY <1>0, <3>2
  <2>6. HighPressure(report) <=> HighPressure(Counted(c))
    BY <2>2 DEF HighPressure
  <2>7. ASSUME Streak(calls, WindowLength) PROVE sustained
    <3>1. calls \in Seq(Calls) /\ Len(calls) <= WindowLength + 1
      BY DEF MetricsInv, HistoryOK, Calls
    <3>2. WindowLength < Len(calls)
      BY <1>0, <2>7 DEF Streak
    <3>3. Len(calls) = WindowLength + 1
      BY <1>0, <3>1, <3>2
    <3>4. \A j \in 0..WindowLength - 1 : Follows(Past(calls, j + 1), Past(calls, j))
      BY <2>7 DEF Streak
    <3>5. ASSUME NEW i \in 1..WindowLength PROVE OnTime(calls[i], calls[i + 1])
      <4> DEFINE j == WindowLength - i
      <4>1. j \in 0..WindowLength - 1 /\ Len(calls) - (j + 1) = i /\ Len(calls) - j = i + 1
        BY <1>0, <3>3
      <4>2. Follows(Past(calls, j + 1), Past(calls, j))
        BY <3>4, <4>1
      <4> QED
        BY <4>1, <4>2 DEF Past, Follows
    <3>6. HighPressure(Counted(c))
      <4>1. 0 \in 0..WindowLength - 1
        BY <1>0
      <4>2. Follows(Past(calls, 0 + 1), Past(calls, 0))
        BY <3>4, <4>1
      <4> QED
        BY <4>2 DEF Follows
    <3> QED
      BY <2>6, <3>3, <3>5, <3>6
  <2>8. ASSUME sustained PROVE Streak(calls, WindowLength)
    <3>1. \A j \in 0..WindowLength :
             /\ Past(calls, j) \in Observed
             /\ Counted(Past(calls, j)).valid = Counted(Past(calls, 0)).valid
             /\ Counted(Past(calls, 0)).valid =>
                   /\ Counted(Past(calls, j)).demand = Counted(Past(calls, 0)).demand
                   /\ Counted(Past(calls, j)).capacity = Counted(Past(calls, 0)).capacity
      BY <2>8, OnePopulation
    <3>2. ASSUME NEW j \in 0..WindowLength - 1
          PROVE  Follows(Past(calls, j + 1), Past(calls, j))
      <4>1. j \in 0..WindowLength
        BY <1>0
      <4>2. /\ Counted(Past(calls, j)).valid = Counted(c).valid
            /\ Counted(Past(calls, j)).demand = Counted(c).demand
            /\ Counted(Past(calls, j)).capacity = Counted(c).capacity
        BY <2>3, <3>1, <4>1
      <4>3. HighPressure(Counted(Past(calls, j)))
        BY <2>6, <2>8, <4>2 DEF HighPressure
      <4> DEFINE i == WindowLength - j
      <4>4. i \in 1..WindowLength /\ Len(calls) - (j + 1) = i /\ Len(calls) - j = i + 1
        BY <1>0, <2>8
      <4>5. OnTime(Past(calls, j + 1), Past(calls, j))
        BY <2>8, <4>4 DEF Past
      <4> QED
        BY <2>3, <4>2, <4>3, <4>5 DEF Follows
    <3>3. WindowLength < Len(calls)
      BY <1>0, <2>8
    <3> QED
      BY <3>2, <3>3 DEF Streak
  <2> QED
    BY <2>4, <2>5, <2>7, <2>8
<1> QED
  BY <1>1, <1>2

\* For any lists of rows: a report with known counts counts every runnable task
\* and every available slot of the lists once, whatever their order and
\* repetitions, and no two of the rows disagree.
THEOREM CountsAlwaysDistinct == Spec => []CountsDistinct
<1>1. MetricsInv => CountsDistinct
  BY InvCountsDistinct
<1> QED
  BY <1>1, MetricsInductive, PTL

\* For any window length and any order of calls: a valid snapshot is reported
\* eligible exactly when as many on-time snapshots as the window holds, all of
\* its population at high pressure, end with it.
THEOREM EligibleAlwaysExact == Spec => []EligibleExactly
<1>1. MetricsInv => EligibleExactly
  BY InvEligibleExactly
<1> QED
  BY <1>1, MetricsInductive, PTL
================================================================================
