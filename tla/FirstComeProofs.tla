-------------------------- MODULE FirstComeProofs ---------------------------
(***************************************************************************)
(* What every allocator that visits the intervals in list order and never  *)
(* evicts achieves, for every sorted list, register set and budget: its    *)
(* result passes the verifier, and the registers it picks have no say in   *)
(* which values are spilled.                                               *)
(***************************************************************************)
EXTENDS FirstCome, OperatorProofs, SequenceTheorems

-----------------------------------------------------------------------------
(* The inductive invariant.                                                *)

limit == register_limit(RegSet, max_regs)

Places == {Reg(r) : r \in allowed_regs(RegSet, max_regs)} \cup {Stack(i) : i \in Nat}

TypeOK ==
    /\ intervals \in Lists
    /\ max_regs \in Nat
    /\ map \in Seq(Places)
    /\ Len(map) <= Len(intervals)
    /\ stack_slots \in Nat

\* The intervals before i that i overlaps and that hold a register.
holders(i) ==
    {j \in DOMAIN map : /\ j < i
                        /\ j \notin spilled(map)
                        /\ overlaps(intervals[j], intervals[i])}

\* An interval is spilled exactly when those before it hold every register.
SpilledWhenFull ==
    \A i \in DOMAIN map : i \in spilled(map) <=> ~(Cardinality(holders(i)) < limit)

FInv ==
    /\ TypeOK
    /\ LocationsAllowed(map, stack_slots, RegSet, max_regs)
    /\ DenseSlots(map, stack_slots)
    /\ ConflictFree(intervals, map)
    /\ SpilledWhenFull
    /\ result \in {"none", "Ok"}

-----------------------------------------------------------------------------
(* Lemmas.                                                                 *)

\* A list of the input: its intervals are not empty and sorted by start.
LEMMA ListFields ==
    ASSUME intervals \in Lists
    PROVE  /\ Len(intervals) \in Nat /\ DOMAIN intervals = 1..Len(intervals)
           /\ Len(intervals) <= U32Max
           /\ \A i \in 1..Len(intervals) :
                 /\ intervals[i].start \in Nat /\ intervals[i].end \in Nat
                 /\ intervals[i].start <= intervals[i].end
           /\ \A i, j \in 1..Len(intervals) : i < j => intervals[i].start <= intervals[j].start
<1>1. intervals \in Seq([start : Nat, end : Nat])
  BY ListsAssumption
<1>2. \A i \in 1..Len(intervals) : intervals[i] \in [start : Nat, end : Nat]
  BY <1>1, ElementOfSeq
<1>3. Len(intervals) \in Nat /\ DOMAIN intervals = 1..Len(intervals)
  BY <1>1
<1>4. \A i \in 1..Len(intervals) : intervals[i].start \in Nat /\ intervals[i].end \in Nat
  BY <1>2
<1> QED
  BY <1>3, <1>4, ListsAssumption

\* A register set the code generator accepts names no register twice.
LEMMA ValidRegSet == valid(RegSet)
BY AllocRegSetAssumption DEF valid

\* Two intervals that overlap a third one, and start no later than it does,
\* overlap each other: all three are live where the third one starts.
LEMMA NeighborsOverlap ==
    ASSUME intervals \in Lists, NEW c \in 1..Len(intervals),
           NEW i \in 1..Len(intervals), i < c, overlaps(intervals[i], intervals[c]),
           NEW j \in 1..Len(intervals), j < c, overlaps(intervals[j], intervals[c])
    PROVE  overlaps(intervals[i], intervals[j])
<1>1. /\ intervals[i].start <= intervals[c].start /\ intervals[j].start <= intervals[c].start
      /\ intervals[i].start \in Nat /\ intervals[i].end \in Nat
      /\ intervals[j].start \in Nat /\ intervals[j].end \in Nat
      /\ intervals[c].start \in Nat /\ intervals[c].end \in Nat
  BY ListFields
<1> QED
  BY <1>1 DEF overlaps

\* The visited prefix.
LEMMA PrefixFields ==
    ASSUME TypeOK
    PROVE  /\ Len(map) \in Nat /\ DOMAIN map = 1..Len(map)
           /\ DOMAIN map \subseteq 1..Len(intervals)
           /\ IsFiniteSet(DOMAIN map) /\ Cardinality(DOMAIN map) = Len(map)
           /\ current \in Nat /\ current \notin DOMAIN map
           /\ \A i \in DOMAIN map : i < current
<1>1. Len(map) \in Nat /\ DOMAIN map = 1..Len(map)
  BY DEF TypeOK
<1>2. Len(intervals) \in Nat /\ Len(map) <= Len(intervals)
  BY ListFields DEF TypeOK
<1>3. \A n \in Nat : IsFiniteSet(1..n) /\ Cardinality(1..n) = n
  BY FS_Interval
<1> QED
  BY <1>1, <1>2, <1>3 DEF current

\* The earlier neighbours of the current interval that hold a register hold
\* different ones: there is a register left exactly when they are fewer than
\* the limit.
LEMMA AvailableWhenFew ==
    ASSUME FInv, current <= Len(intervals)
    PROVE  available = {} <=> ~(Cardinality(holders(current)) < limit)
<1> DEFINE H == holders(current)
           A == allowed_regs(RegSet, max_regs)
           R == {map[i].reg : i \in H}
           f == [i \in H |-> map[i].reg]
<1>1. TypeOK /\ max_regs \in Nat /\ intervals \in Lists
  BY DEF FInv, TypeOK
<1>2. /\ DOMAIN map \subseteq 1..Len(intervals) /\ IsFiniteSet(DOMAIN map)
      /\ current \in 1..Len(intervals) /\ \A i \in DOMAIN map : i < current
  <2>1. Len(map) \in Nat /\ Len(intervals) \in Nat
    BY <1>1, PrefixFields, ListFields
  <2> QED
    BY <1>1, <2>1, PrefixFields DEF current
<1>3. H = earlier_neighbors \ spilled(map)
  BY <1>2 DEF holders, earlier_neighbors
<1>4. available = A \ R
  BY <1>3 DEF available
<1>5. \A i \in H : /\ i \in DOMAIN map /\ i < current
                   /\ overlaps(intervals[i], intervals[current])
                   /\ map[i] = Reg(map[i].reg) /\ map[i].reg \in A
  BY LocationFields DEF holders, spilled, FInv, LocationsAllowed
<1>6. \A i, j \in H : map[i].reg = map[j].reg => i = j
  <2> SUFFICES ASSUME NEW i \in H, NEW j \in H, map[i].reg = map[j].reg, i # j
               PROVE  FALSE
    OBVIOUS
  <2>1. map[i] = map[j]
    BY <1>5
  <2>2. overlaps(intervals[i], intervals[j])
    BY <1>1, <1>2, <1>5, NeighborsOverlap
  <2> QED
    BY <1>5, <2>1, <2>2 DEF FInv, ConflictFree
<1>7. H \in SUBSET DOMAIN map
  BY DEF holders
<1>8. IsFiniteSet(H) /\ Cardinality(H) \in Nat
  BY <1>2, <1>7, FS_Subset, FS_CardinalityType
<1>9. f \in Injection(H, R) /\ f \in Surjection(H, R)
  BY <1>6 DEF Injection, IsInjective, Surjection
<1>10. IsFiniteSet(A) /\ Cardinality(A) = limit /\ limit \in Nat
  BY <1>1, ValidRegSet, AllowedCount, BudgetIsCutOnce DEF limit
<1>11. R \in SUBSET A
  BY <1>5
<1> HIDE DEF f, R, A, H
<1>12. Cardinality(R) = Cardinality(H)
  BY <1>8, <1>9, FS_Surjection
<1>13. Cardinality(R) <= Cardinality(A) /\ (Cardinality(A) = Cardinality(R) => A = R)
  BY <1>10, <1>11, FS_Subset
<1>14. available = {} => Cardinality(R) = Cardinality(A)
  <2>1. available = {} => R = A
    BY <1>4, <1>11
  <2> QED
    BY <2>1
<1>15. available # {} => Cardinality(R) # Cardinality(A)
  BY <1>4, <1>13
<1> QED
  BY <1>8, <1>10, <1>12, <1>13, <1>14, <1>15 DEF H

-----------------------------------------------------------------------------
(* Every step keeps the invariant.                                         *)

\* A visit adds a location and leaves the others alone.
LEMMA Visited ==
    ASSUME FInv, current <= Len(intervals), NEW loc \in Places,
           map' = Append(map, loc), UNCHANGED <<intervals, max_regs>>,
           stack_slots' \in Nat
    PROVE  /\ TypeOK'
           /\ DOMAIN map' = DOMAIN map \cup {current}
           /\ map'[current] = loc
           /\ \A x \in DOMAIN map : map'[x] = map[x]
           /\ \A i \in DOMAIN map \cup {current} : holders(i)' = holders(i)
<1>1. TypeOK /\ Len(map) \in Nat /\ Len(intervals) \in Nat /\ map \in Seq(Places)
  BY PrefixFields, ListFields DEF FInv, TypeOK
<1>2. map' \in Seq(Places) /\ Len(map') = Len(map) + 1
  BY <1>1
<1>3. TypeOK'
  BY <1>1, <1>2 DEF TypeOK, Places, current
<1>4. DOMAIN map' = DOMAIN map \cup {current} /\ map'[current] = loc
  BY <1>1, <1>2 DEF current
<1>5. \A x \in DOMAIN map : map'[x] = map[x]
  BY <1>1
<1>6. ASSUME NEW i \in DOMAIN map \cup {current} PROVE holders(i)' = holders(i)
  <2>1. \A j \in DOMAIN map : j < i => j # current
    BY <1>1, PrefixFields
  <2>2. i \in Nat /\ ~(current < i)
    BY <1>1, PrefixFields
  <2> QED
    BY <1>4, <1>5, <2>1, <2>2 DEF holders, spilled
<1> QED
  BY <1>3, <1>4, <1>5, <1>6

\* What decides whether the current interval is spilled decided for the others.
LEMMA SpillDecision ==
    ASSUME FInv, current <= Len(intervals), NEW loc \in Places,
           map' = Append(map, loc), UNCHANGED <<intervals, max_regs>>,
           stack_slots' \in Nat,
           loc.kind = "stack" <=> available = {}
    PROVE  SpilledWhenFull'
<1>1. /\ DOMAIN map' = DOMAIN map \cup {current}
      /\ map'[current] = loc
      /\ \A x \in DOMAIN map : map'[x] = map[x]
      /\ \A i \in DOMAIN map \cup {current} : holders(i)' = holders(i)
  BY Visited
<1>2. current \in spilled(map') <=> ~(Cardinality(holders(current)) < limit)
  BY <1>1, AvailableWhenFew DEF spilled
<1>3. \A i \in DOMAIN map : i \in spilled(map') <=> i \in spilled(map)
  BY <1>1 DEF spilled
<1>4. \A i \in DOMAIN map : i \in spilled(map) <=> ~(Cardinality(holders(i)) < limit)
  BY DEF FInv, SpilledWhenFull
<1>5. limit' = limit
  BY DEF limit
<1> SUFFICES ASSUME NEW i \in DOMAIN map'
             PROVE  i \in spilled(map') <=> ~(Cardinality(holders(i)') < limit)
  BY <1>5 DEF SpilledWhenFull
<1> QED
  BY <1>1, <1>2, <1>3, <1>4

\* A register no earlier neighbour holds goes to the current interval.
LEMMA TakeRegisterKeeps ==
    ASSUME FInv, NEW r, TakeRegister(r)
    PROVE  FInv'
<1>1. /\ current <= Len(intervals) /\ r \in available
      /\ map' = Append(map, Reg(r))
      /\ UNCHANGED <<intervals, max_regs, stack_slots, result>>
  BY DEF TakeRegister
<1>2. /\ TypeOK /\ max_regs \in Nat /\ stack_slots \in Nat
      /\ r \in allowed_regs(RegSet, max_regs)
  BY <1>1 DEF FInv, TypeOK, available
<1>3. Reg(r) \in Places
  BY <1>2 DEF Places
<1>4. /\ TypeOK'
      /\ DOMAIN map' = DOMAIN map \cup {current}
      /\ map'[current] = Reg(r)
      /\ \A x \in DOMAIN map : map'[x] = map[x]
  BY <1>1, <1>2, <1>3, Visited
<1>5. SpilledWhenFull'
  BY <1>1, <1>2, <1>3, SpillDecision, LocationFields
<1>6. LocationsAllowed(map, stack_slots, RegSet, max_regs)'
  BY <1>1, <1>2, <1>4, LocationFields DEF FInv, LocationsAllowed
<1>7. DenseSlots(map, stack_slots)'
  <2>1. spilled(map') = spilled(map) /\ \A x \in spilled(map) : map'[x] = map[x]
    BY <1>2, <1>4, LocationFields, PrefixFields DEF spilled
  <2>2. DenseSlots(map, stack_slots)
    BY DEF FInv
  <2> QED
    BY <1>1, <2>1, <2>2 DEF DenseSlots
<1>8. ConflictFree(intervals, map)'
  <2>1. ASSUME NEW x \in DOMAIN map, map[x] = Reg(r)
        PROVE  /\ ~overlaps(intervals[x], intervals[current])
               /\ ~overlaps(intervals[current], intervals[x])
    <3>1. x \notin spilled(map) /\ map[x].reg = r
      BY <2>1, LocationFields DEF spilled
    <3>2. x \notin earlier_neighbors
      BY <1>1, <3>1 DEF available
    <3> QED
      BY <3>2 DEF earlier_neighbors, overlaps
  <2>2. \A x, y \in DOMAIN map : x # y /\ map[x] = map[y]
                                     => ~overlaps(intervals[x], intervals[y])
    BY DEF FInv, ConflictFree
  <2> SUFFICES ASSUME NEW x \in DOMAIN map', NEW y \in DOMAIN map', x # y, map'[x] = map'[y]
               PROVE  ~overlaps(intervals[x], intervals[y])
    BY <1>1 DEF ConflictFree
  <2>3. CASE x = current
    BY <1>4, <2>1, <2>3
  <2>4. CASE y = current
    BY <1>4, <2>1, <2>4
  <2>5. CASE x # current /\ y # current
    BY <1>4, <2>2, <2>5
  <2> QED
    BY <2>3, <2>4, <2>5
<1> QED
  BY <1>1, <1>4, <1>5, <1>6, <1>7, <1>8 DEF FInv

\* The current interval gets a slot of its own.
LEMMA SpillKeeps ==
    ASSUME FInv, Spill
    PROVE  FInv'
<1>1. /\ current <= Len(intervals) /\ available = {}
      /\ map' = Append(map, Stack(stack_slots))
      /\ stack_slots' = stack_slots + 1
      /\ UNCHANGED <<intervals, max_regs, result>>
  BY DEF Spill
<1>2. TypeOK /\ stack_slots \in Nat /\ stack_slots' \in Nat
  BY <1>1 DEF FInv, TypeOK
<1>3. Stack(stack_slots) \in Places
  BY <1>2 DEF Places
<1>4. /\ TypeOK'
      /\ DOMAIN map' = DOMAIN map \cup {current}
      /\ map'[current] = Stack(stack_slots)
      /\ \A x \in DOMAIN map : map'[x] = map[x]
  BY <1>1, <1>2, <1>3, Visited
<1>5. SpilledWhenFull'
  BY <1>1, <1>2, <1>3, SpillDecision, LocationFields
<1>6. LocationsAllowed(map, stack_slots, RegSet, max_regs)'
  <2>1. 0..(stack_slots - 1) \subseteq 0..(stack_slots' - 1)
    BY <1>1, <1>2
  <2>2. stack_slots \in 0..(stack_slots' - 1)
    BY <1>1, <1>2
  <2> QED
    BY <1>1, <1>4, <2>1, <2>2, LocationFields DEF FInv, LocationsAllowed
<1>7. \A y \in spilled(map) : map[y].slot \in 0..(stack_slots - 1)
  BY LocationFields DEF FInv, LocationsAllowed, spilled
<1>8. DenseSlots(map, stack_slots)' /\ \A y \in spilled(map) : map[y].slot # stack_slots
  <2>1. current \notin spilled(map) /\ \A y \in spilled(map) : map'[y] = map[y]
    BY <1>2, <1>4, PrefixFields DEF spilled
  <2>2. spilled(map') = spilled(map) \cup {current}
    BY <1>2, <1>4, LocationFields, PrefixFields DEF spilled
  <2>3. DenseSlots(map, stack_slots)
    BY DEF FInv
  <2>4. /\ DenseSlots(map', stack_slots + 1)
        /\ \A y \in spilled(map) : map[y].slot # stack_slots
    BY <1>2, <1>4, <1>7, <2>1, <2>2, <2>3, FreshSlot
  <2> QED
    BY <1>1, <2>4
<1>9. ConflictFree(intervals, map)'
  <2>1. \A x \in DOMAIN map : map[x] # Stack(stack_slots)
    BY <1>8, LocationFields DEF spilled
  <2> QED
    BY <1>1, <1>4, <2>1 DEF FInv, ConflictFree
<1> QED
  BY <1>1, <1>4, <1>5, <1>6, <1>8, <1>9 DEF FInv

\* The verifier accepts, and changes nothing.
LEMMA VerifyKeeps ==
    ASSUME FInv, Verify
    PROVE  FInv'
<1>1. current > Len(intervals) /\ UNCHANGED <<intervals, max_regs, map, stack_slots>>
  BY DEF Verify
<1>2. TypeOK /\ max_regs \in Nat /\ stack_slots \in Nat
  BY DEF FInv, TypeOK
<1>3. Len(map) = Len(intervals)
  <2>1. Len(map) \in Nat /\ Len(intervals) \in Nat /\ Len(map) <= Len(intervals)
    BY <1>2, PrefixFields, ListFields DEF TypeOK
  <2> QED
    BY <1>1, <2>1 DEF current
<1>4. /\ DOMAIN map = DOMAIN intervals /\ IsFiniteSet(DOMAIN map)
      /\ Cardinality(DOMAIN map) <= U32Max
  BY <1>2, <1>3, PrefixFields, ListFields DEF TypeOK
<1>5. verify_assignment(intervals, RegSet, register_limit(RegSet, max_regs),
          [map |-> map, stack_slots |-> stack_slots, spills |-> stack_slots]) = {"Ok"}
  BY <1>2, <1>4, ValidRegSet, VerifierAnswersOk DEF FInv
<1>6. result' = "Ok"
  BY <1>5 DEF Verify
<1> QED
  BY <1>1, <1>6 DEF FInv, TypeOK, Places, SpilledWhenFull, holders, limit

\* Nothing has been visited.
LEMMA InitFInv == Init => FInv
<1> SUFFICES ASSUME Init PROVE FInv
  OBVIOUS
<1>1. map = <<>> /\ stack_slots = 0 /\ result = "none" /\ intervals \in Lists
  BY DEF Init
<1>2. max_regs \in Nat
  BY AllocRegSetAssumption DEF Init
<1>3. DOMAIN map = {} /\ spilled(map) = {} /\ Len(map) = 0
  BY <1>1 DEF spilled
<1>4. TypeOK
  BY <1>1, <1>2, <1>3, ListFields DEF TypeOK
<1> QED
  BY <1>1, <1>3, <1>4 DEF FInv, LocationsAllowed, DenseSlots, ConflictFree, SpilledWhenFull

\* The invariant holds throughout the visits, whether or not they ever end.
THEOREM FirstComeInvariant == Init /\ [][Next]_vars => []FInv
<1>1. FInv /\ [Next]_vars => FInv'
  <2> SUFFICES ASSUME FInv, [Next]_vars PROVE FInv'
    OBVIOUS
  <2>1. CASE \E r \in Range(RegSet.regs) : TakeRegister(r)
    BY <2>1, TakeRegisterKeeps
  <2>2. CASE Spill
    BY <2>2, SpillKeeps
  <2>3. CASE Verify
    BY <2>3, VerifyKeeps
  <2>4. CASE UNCHANGED vars
    BY <2>4 DEF vars, FInv, TypeOK, Places, SpilledWhenFull, holders, limit
  <2> QED
    BY <2>1, <2>2, <2>3, <2>4 DEF Next
<1> QED
  BY <1>1, InitFInv, PTL

-----------------------------------------------------------------------------
(* The spilled values are a function of the list and the budget.           *)

\* The equation of kept_after, up to n.
follows(k, n) == k = [i \in 0..n |-> IF i = 0 THEN {} ELSE keep_if_few(k[i - 1], i)]

\* The recursion of kept_after defines it.
LEMMA KeptAfterEquation ==
    ASSUME Len(intervals) \in Nat
    PROVE  follows(kept_after, Len(intervals))
<1> DEFINE T == {n \in Nat : \E k : follows(k, n)}
<1>1. 0 \in T
  <2> DEFINE k == [i \in 0..0 |-> {}]
  <2>1. follows(k, 0)
    BY DEF follows
  <2> QED
    BY <2>1
<1>2. ASSUME NEW n \in T PROVE n + 1 \in T
  <2>1. PICK g : follows(g, n)
    OBVIOUS
  <2> DEFINE k == [i \in 0..(n + 1) |-> IF i <= n THEN g[i] ELSE keep_if_few(g[n], n + 1)]
  <2>2. n \in Nat
    OBVIOUS
  <2>3. ASSUME NEW i \in 0..(n + 1)
        PROVE  k[i] = IF i = 0 THEN {} ELSE keep_if_few(k[i - 1], i)
    <3>1. CASE i <= n
      <4>1. i \in 0..n /\ k[i] = g[i] /\ (i # 0 => i - 1 \in 0..(n + 1) /\ k[i - 1] = g[i - 1])
        BY <2>2, <3>1
      <4> HIDE DEF k
      <4> QED
        BY <2>1, <4>1 DEF follows
    <3>2. CASE i = n + 1
      <4>1. /\ i # 0 /\ i - 1 = n /\ k[i] = keep_if_few(g[n], n + 1)
            /\ k[n] = g[n]
        BY <2>2, <3>2
      <4> HIDE DEF k
      <4> QED
        BY <3>2, <4>1
    <3> QED
      BY <2>2, <3>1, <3>2
  <2>4. k = [i \in 0..(n + 1) |-> k[i]]
    OBVIOUS
  <2> HIDE DEF k
  <2>5. follows(k, n + 1)
    BY <2>3, <2>4 DEF follows
  <2> QED
    BY <2>2, <2>5
<1>3. T = Nat
  <2> HIDE DEF T
  <2>1. T \in SUBSET Nat
    BY DEF T
  <2> QED
    BY <1>1, <1>2, <2>1, SetInduction
<1>4. \E k : follows(k, Len(intervals))
  BY <1>3
<1> QED
  BY <1>4 DEF follows, kept_after

\* In the prefix visited so far those kept are those with a register, and
\* nothing the rest of the list brings changes that.
LEMMA KeptIsForced == FInv => SpillSetIsForced
<1> SUFFICES ASSUME FInv PROVE SpillSetIsForced
  OBVIOUS
<1> DEFINE n == Len(intervals)
           m == Len(map)
           K(i) == kept_after[i]
<1>1. /\ TypeOK /\ n \in Nat /\ m \in Nat /\ m <= n /\ DOMAIN map = 1..m
      /\ spilled(map) \subseteq 1..m
  BY PrefixFields, ListFields DEF FInv, TypeOK, spilled
<1>2. K(0) = {} /\ \A i \in 1..n : K(i) = keep_if_few(K(i - 1), i)
  <2>1. follows(kept_after, n)
    BY <1>1, KeptAfterEquation
  <2>2. 0 \in 0..n /\ \A i \in 1..n : i \in 0..n /\ i # 0
    BY <1>1
  <2> QED
    BY <2>1, <2>2 DEF follows
<1> HIDE DEF K
<1>3. K(m) = 1..m \ spilled(map)
  <2> DEFINE T == {i \in Nat : i <= m => K(i) = 1..i \ spilled(map)}
  <2>1. 0 \in T
    BY <1>2
  <2>2. ASSUME NEW i \in T PROVE i + 1 \in T
    <3>1. i \in Nat
      OBVIOUS
    <3> SUFFICES ASSUME i + 1 <= m PROVE K(i + 1) = 1..(i + 1) \ spilled(map)
      BY <3>1
    <3>2. K(i) = 1..i \ spilled(map)
      BY <1>1, <3>1
    <3>3. i + 1 \in 1..n /\ i + 1 \in 1..m /\ (i + 1) - 1 = i
      BY <1>1, <3>1
    <3>4. K(i + 1) = keep_if_few(K(i), i + 1)
      BY <1>2, <3>3
    <3>5. {j \in K(i) : overlaps(intervals[i + 1], intervals[j])} = holders(i + 1)
      <4>1. \A j : j \in 1..i <=> j \in 1..m /\ j < i + 1
        BY <1>1, <3>1, <3>3
      <4> QED
        BY <1>1, <3>2, <4>1 DEF holders, overlaps
    <3>6. i + 1 \in spilled(map) <=> ~(Cardinality(holders(i + 1)) < limit)
      BY <1>1, <3>3 DEF FInv, SpilledWhenFull
    <3>7. 1..(i + 1) = 1..i \cup {i + 1}
      BY <3>1
    <3> QED
      BY <3>2, <3>4, <3>5, <3>6, <3>7 DEF keep_if_few, limit
  <2>3. T = Nat
    <3>1. T \in SUBSET Nat
      OBVIOUS
    <3> HIDE DEF T
    <3> QED
      BY <2>1, <2>2, <3>1, SetInduction
  <2> QED
    BY <1>1, <2>3
<1>4. K(n) \cap 1..m = K(m)
  <2> DEFINE T == {i \in Nat : m + i <= n => K(m + i) \cap 1..m = K(m)}
  <2>1. 0 \in T
    BY <1>1, <1>3
  <2>2. ASSUME NEW i \in T PROVE i + 1 \in T
    <3>1. i \in Nat
      OBVIOUS
    <3> SUFFICES ASSUME m + (i + 1) <= n PROVE K(m + (i + 1)) \cap 1..m = K(m)
      BY <3>1
    <3>2. K(m + i) \cap 1..m = K(m)
      BY <1>1, <3>1
    <3>3. m + (i + 1) \in 1..n /\ (m + (i + 1)) - 1 = m + i /\ m + (i + 1) \notin 1..m
      BY <1>1, <3>1
    <3>4. K(m + (i + 1)) = keep_if_few(K(m + i), m + (i + 1))
      BY <1>2, <3>3
    <3> QED
      BY <3>2, <3>3, <3>4 DEF keep_if_few
  <2>3. T = Nat
    <3>1. T \in SUBSET Nat
      OBVIOUS
    <3> HIDE DEF T
    <3> QED
      BY <2>1, <2>2, <3>1, SetInduction
  <2>4. n - m \in Nat /\ m + (n - m) = n /\ n <= n
    BY <1>1
  <2>5. n - m \in T
    <3> HIDE DEF T
    <3> QED
      BY <2>3, <2>4
  <2>6. m + (n - m) <= n => K(m + (n - m)) \cap 1..m = K(m)
    BY <2>5
  <2> HIDE DEF m, n, T
  <2> QED
    BY <2>4, <2>6
<1>5. kept = K(n)
  BY DEF kept, K
<1> QED
  BY <1>1, <1>3, <1>4, <1>5 DEF SpillSetIsForced

\* Which values are spilled is decided by the list and the budget: the
\* registers picked have no say in it.
THEOREM FirstComeSpillsAreForced == Init /\ [][Next]_vars => []SpillSetIsForced
BY FirstComeInvariant, KeptIsForced, PTL
=============================================================================
