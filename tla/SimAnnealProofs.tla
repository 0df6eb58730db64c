-------------------------- MODULE SimAnnealProofs ---------------------------
(***************************************************************************)
(* SimAnneal implements FirstCome for every sorted list, register set,     *)
(* budget and course of the search, and so inherits what is proved there:  *)
(* the verifier accepts its result and the search has no say in what is    *)
(* spilled.  The running costs are those of the states they belong to.     *)
(***************************************************************************)
EXTENDS SimAnneal, OperatorProofs, SequenceTheorems

Proved == INSTANCE FirstComeProofs WITH
    map <- locations(placed),
    stack_slots <- spill_count(placed)

-----------------------------------------------------------------------------
(* The registers a choice names.                                           *)

States == Seq(0..reg_count)

\* The lists and the limit of a budget.
LEMMA Limit ==
    ASSUME max_regs \in Nat
    PROVE  /\ reg_count \in Nat
           /\ \A c : c \in 0..reg_count <=> c \in Registers \/ c = reg_count
           /\ \A c \in Registers : c \in Nat /\ c < reg_count /\ c # reg_count
<1>1. valid(RegSet)
  BY AllocRegSetAssumption DEF valid
<1>2. reg_count \in Nat
  BY <1>1, BudgetIsCutOnce DEF reg_count
<1> QED
  BY <1>2 DEF Registers

\* The names of the registers are the allowed registers, one name each.
LEMMA RegisterNames ==
    ASSUME max_regs \in Nat
    PROVE  /\ \A c, d \in Registers : RegSet.regs[c + 1] = RegSet.regs[d + 1] => c = d
           /\ allowed_regs(RegSet, max_regs) = {RegSet.regs[c + 1] : c \in Registers}
           /\ \A c \in Registers : RegSet.regs[c + 1] \in Range(RegSet.regs)
<1>1. valid(RegSet)
  BY AllocRegSetAssumption DEF valid
<1>2. reg_count \in Nat /\ reg_count \in 0..Len(RegSet.regs)
  BY <1>1, BudgetIsCutOnce DEF reg_count
<1>3. /\ RegSet.regs \in Seq(STRING) /\ RegSet.scratch \in Seq(STRING)
      /\ IsInjective(RegSet.regs \o RegSet.scratch)
  BY <1>1 DEF valid, validate_for_codegen
<1>4. \A i, j \in DOMAIN RegSet.regs : RegSet.regs[i] = RegSet.regs[j] => i = j
  BY <1>3, PartsAreDisjoint
<1>5. \A c \in Registers : c \in Nat /\ c + 1 \in 1..reg_count /\ c + 1 \in DOMAIN RegSet.regs
  BY <1>2, <1>3 DEF Registers
<1>6. \A i \in 1..reg_count : i - 1 \in Registers /\ (i - 1) + 1 = i
  BY <1>2 DEF Registers
<1>7. \A c, d \in Registers : RegSet.regs[c + 1] = RegSet.regs[d + 1] => c = d
  <2> SUFFICES ASSUME NEW c \in Registers, NEW d \in Registers,
                      RegSet.regs[c + 1] = RegSet.regs[d + 1]
               PROVE  c = d
    OBVIOUS
  <2>1. c + 1 = d + 1
    BY <1>4, <1>5
  <2> QED
    BY <1>5, <2>1
<1>8. allowed_regs(RegSet, max_regs) = {RegSet.regs[c + 1] : c \in Registers}
  <2>1. allowed_regs(RegSet, max_regs) = {RegSet.regs[i] : i \in 1..reg_count}
    BY DEF allowed_regs, reg_count
  <2> QED
    BY <1>5, <1>6, <2>1
<1> QED
  BY <1>5, <1>7, <1>8 DEF Range

-----------------------------------------------------------------------------
(* The locations of a state.                                               *)

\* The locations of a state form a sequence; its spilled values are those that
\* chose the stack.
LEMMA LocationsOf ==
    ASSUME max_regs \in Nat, NEW s \in States
    PROVE  /\ DOMAIN s = 1..Len(s) /\ Len(s) \in Nat
           /\ DOMAIN locations(s) = DOMAIN s
           /\ locations(s) \in Seq({locations(s)[i] : i \in DOMAIN s})
           /\ Len(locations(s)) = Len(s)
           /\ \A i \in DOMAIN s : s[i] \in Registers \/ s[i] = reg_count
           /\ \A i \in DOMAIN s :
                s[i] \in Registers => locations(s)[i] = Reg(RegSet.regs[s[i] + 1])
           /\ \A i \in DOMAIN s :
                s[i] = reg_count => locations(s)[i] = Stack(slots_before(s, i))
           /\ spilled(locations(s)) = {i \in DOMAIN s : s[i] = reg_count}
<1>1. Len(s) \in Nat /\ DOMAIN s = 1..Len(s)
  BY DEF States
<1>2. \A i \in DOMAIN s : s[i] \in Registers \/ s[i] = reg_count
  <2>1. \A i \in 1..Len(s) : s[i] \in 0..reg_count
    BY ElementOfSeq DEF States
  <2> QED
    BY <1>1, <2>1, Limit
<1>3. locations(s) = [i \in 1..Len(s) |-> locations(s)[i]] /\ DOMAIN locations(s) = DOMAIN s
  BY <1>1 DEF locations
<1>4. \A i \in DOMAIN s : s[i] \in Registers => locations(s)[i] = Reg(RegSet.regs[s[i] + 1])
  BY Limit DEF locations
<1>5. \A i \in DOMAIN s : s[i] = reg_count => locations(s)[i] = Stack(slots_before(s, i))
  <2>1. ~(reg_count < reg_count)
    BY Limit
  <2> QED
    BY <2>1 DEF locations
<1>6. spilled(locations(s)) = {i \in DOMAIN s : s[i] = reg_count}
  <2>1. ASSUME NEW i \in DOMAIN s
        PROVE  locations(s)[i].kind = "stack" <=> s[i] = reg_count
    <3>1. CASE s[i] = reg_count
      BY <1>5, <3>1, LocationFields
    <3>2. CASE s[i] \in Registers
      <4>1. locations(s)[i].kind = "reg" /\ s[i] # reg_count
        BY <1>4, <3>2, Limit, LocationFields
      <4> QED
        BY <4>1
    <3> QED
      BY <1>2, <3>1, <3>2
  <2> QED
    BY <1>3, <2>1 DEF spilled
<1>7. locations(s) \in Seq({locations(s)[i] : i \in DOMAIN s}) /\ Len(locations(s)) = Len(s)
  BY <1>1, <1>3
<1> QED
  BY <1>1, <1>2, <1>3, <1>4, <1>5, <1>6, <1>7

\* The registers FirstCome has left for the interval after those of a state.
free(s) ==
    allowed_regs(RegSet, max_regs)
        \ {locations(s)[i].reg :
             i \in {i \in DOMAIN locations(s) :
                      overlaps(intervals[i], intervals[Len(locations(s)) + 1])}
                   \ spilled(locations(s))}

\* They are those the code has not marked as used.
LEMMA FreeIsUnused ==
    ASSUME max_regs \in Nat, NEW s \in States
    PROVE  free(s) = {RegSet.regs[c + 1] : c \in Registers \ used(s)}
<1> DEFINE N == {i \in DOMAIN s : overlapping(i, Len(s) + 1)}
           H == {i \in N : s[i] \in Registers}
<1>1. /\ DOMAIN s = 1..Len(s) /\ Len(s) \in Nat
      /\ DOMAIN locations(s) = DOMAIN s /\ Len(locations(s)) = Len(s)
      /\ \A i \in DOMAIN s : s[i] \in Registers \/ s[i] = reg_count
      /\ \A i \in DOMAIN s :
            s[i] \in Registers => locations(s)[i] = Reg(RegSet.regs[s[i] + 1])
      /\ spilled(locations(s)) = {i \in DOMAIN s : s[i] = reg_count}
  BY LocationsOf
<1>2. {i \in DOMAIN locations(s) : overlaps(intervals[i], intervals[Len(locations(s)) + 1])} = N
  <2>1. \A i \in DOMAIN s : i # Len(s) + 1
    BY <1>1
  <2> QED
    BY <1>1, <2>1 DEF overlapping
<1>3. N \ spilled(locations(s)) = H
  BY <1>1, Limit
<1>4. used(s) = {s[i] : i \in H}
  BY DEF used
<1>5. \A i \in H : s[i] \in Registers /\ locations(s)[i].reg = RegSet.regs[s[i] + 1]
  BY <1>1, LocationFields
<1>6. free(s) = allowed_regs(RegSet, max_regs) \ {locations(s)[i].reg : i \in H}
  BY <1>2, <1>3 DEF free
<1> HIDE DEF N, H
<1>7. free(s) = {RegSet.regs[c + 1] : c \in Registers} \ {RegSet.regs[s[i] + 1] : i \in H}
  BY <1>5, <1>6, RegisterNames
<1> QED
  BY <1>4, <1>5, <1>7, RegisterNames

\* A choice FirstCome allows: a register left, or the stack when there is none.
allowed_choice(s, c) ==
    \/ c \in Registers \ used(s)
    \/ c = reg_count /\ Registers \ used(s) = {}

\* Both choices of the code are allowed.
LEMMA ChoicesAllowed ==
    ASSUME max_regs \in Nat, NEW s
    PROVE  /\ allowed_choice(s, first_unused(s))
           /\ \A p \in 0..reg_count : allowed_choice(s, repaired_choice(s, p))
<1> DEFINE U == Registers \ used(s)
<1>1. U # {} => Min(U) \in U
  <2> SUFFICES ASSUME U # {} PROVE Min(U) \in U
    OBVIOUS
  <2>1. U \in SUBSET Nat
    BY Limit
  <2> HIDE DEF U
  <2>2. \E x \in U : \A y \in U : x <= y
    BY <2>1, LeastNatural
  <2> QED
    BY <2>2 DEF Min
<1>2. allowed_choice(s, first_unused(s))
  BY <1>1 DEF allowed_choice, first_unused
<1>3. \A p \in 0..reg_count : p < reg_count => p \in Registers
  BY Limit
<1> QED
  BY <1>2, <1>3 DEF allowed_choice, repaired_choice

\* The next choice adds one location and counts a slot when it is a spill.
LEMMA LocationsStep ==
    ASSUME max_regs \in Nat, NEW s \in States, NEW c \in 0..reg_count
    PROVE  /\ Append(s, c) \in States
           /\ c \in Registers =>
                /\ locations(Append(s, c)) = Append(locations(s), Reg(RegSet.regs[c + 1]))
                /\ spill_count(Append(s, c)) = spill_count(s)
           /\ c = reg_count =>
                /\ locations(Append(s, c)) = Append(locations(s), Stack(spill_count(s)))
                /\ spill_count(Append(s, c)) = spill_count(s) + 1
<1> DEFINE t == Append(s, c)
           n == Len(s)
           l == IF c \in Registers THEN Reg(RegSet.regs[c + 1]) ELSE Stack(spill_count(s))
<1>1. /\ t \in States /\ n \in Nat /\ Len(t) = n + 1
      /\ DOMAIN s = 1..n /\ DOMAIN t = 1..(n + 1)
      /\ \A i \in 1..n : t[i] = s[i]
      /\ t[n + 1] = c
  BY DEF States
<1> HIDE DEF t, n
<1>2. \A i \in 1..(n + 1) : slots_before(t, i) = slots_before(s, i)
  <2> SUFFICES ASSUME NEW i \in 1..(n + 1)
               PROVE  {j \in 1..(i - 1) : t[j] = reg_count} = {j \in 1..(i - 1) : s[j] = reg_count}
    BY DEF slots_before
  <2>1. \A j \in 1..(i - 1) : j \in 1..n
    BY <1>1
  <2> QED
    BY <1>1, <2>1
<1>3. \A i \in 1..n : locations(t)[i] = locations(s)[i]
  <2>1. \A i \in 1..n : i \in 1..(n + 1)
    BY <1>1
  <2> QED
    BY <1>1, <1>2, <2>1 DEF locations
<1>4. n + 1 \in 1..(n + 1) /\ slots_before(t, n + 1) = spill_count(s)
  <2>1. n + 1 \in 1..(n + 1)
    BY <1>1
  <2> QED
    BY <1>2, <2>1 DEF spill_count, n
<1>5. locations(t)[n + 1] = l
  BY <1>1, <1>4, Limit DEF locations
<1>6. locations(t) = Append(locations(s), l)
  <2>1. /\ DOMAIN locations(s) = 1..n /\ DOMAIN locations(t) = 1..(n + 1)
        /\ locations(s) \in Seq({locations(s)[i] : i \in DOMAIN s})
        /\ locations(t) \in Seq({locations(t)[i] : i \in DOMAIN t})
        /\ Len(locations(s)) = n /\ Len(locations(t)) = n + 1
    BY <1>1, LocationsOf DEF n
  <2> DEFINE S == {locations(s)[i] : i \in DOMAIN s} \cup {locations(t)[i] : i \in DOMAIN t}
             a == Append(locations(s), l)
  <2>2. l \in S
    BY <1>1, <1>4, <1>5
  <2>3. locations(s) \in Seq(S) /\ locations(t) \in Seq(S)
    BY <2>1
  <2> HIDE DEF S, l
  <2>4. /\ a \in Seq(S) /\ Len(a) = n + 1
        /\ \A i \in 1..n : a[i] = locations(s)[i]
        /\ a[n + 1] = l
    BY <2>1, <2>2, <2>3, AppendProperties
  <2>5. \A i \in 1..(n + 1) : locations(t)[i] = a[i]
    <3>1. \A i \in 1..(n + 1) : i \in 1..n \/ i = n + 1
      BY <1>1
    <3> QED
      BY <1>3, <1>5, <2>4, <3>1
  <2> QED
    BY <2>1, <2>3, <2>4, <2>5, SeqEqual
<1>7. /\ c \in Registers => spill_count(t) = spill_count(s)
      /\ c = reg_count => spill_count(t) = spill_count(s) + 1
  <2> DEFINE A == {j \in 1..n : s[j] = reg_count}
             B == {j \in 1..(n + 1) : t[j] = reg_count}
  <2>1. spill_count(s) = Cardinality(A) /\ spill_count(t) = Cardinality(B)
    <3>1. (n + 1) - 1 = n /\ (n + 1 + 1) - 1 = n + 1
      BY <1>1
    <3> QED
      BY <1>1, <3>1 DEF spill_count, slots_before, n
  <2>2. \A i : i \in 1..(n + 1) <=> i \in 1..n \/ i = n + 1
    BY <1>1
  <2>3. c \in Registers => B = A
    BY <1>1, <2>2, Limit
  <2>4. c = reg_count => B = A \cup {n + 1}
    BY <1>1, <2>2
  <2>5. n + 1 \notin A /\ A \in SUBSET (1..n)
    BY <1>1
  <2> HIDE DEF A, B
  <2>6. \A k \in Nat : IsFiniteSet(1..k)
    BY FS_Interval
  <2>7. IsFiniteSet(A)
    BY <1>1, <2>5, <2>6, FS_Subset
  <2> QED
    BY <2>1, <2>3, <2>4, <2>5, <2>7, FS_AddElement
<1> QED
  BY <1>1, <1>6, <1>7, Limit DEF t

-----------------------------------------------------------------------------
(* Sums.                                                                   *)

\* f[i] is the sum of the first i costs, up to n.
sums(f, costs, n) == f = [i \in 0..n |-> IF i = 0 THEN 0 ELSE f[i - 1] + costs[i]]

\* The recursion of total defines it.
LEMMA TotalEquation ==
    ASSUME NEW costs, NEW n \in Nat
    PROVE  \E f : sums(f, costs, n) /\ total(costs, n) = f[n]
<1> DEFINE T == {m \in Nat : \E f : sums(f, costs, m)}
<1>1. 0 \in T
  <2> DEFINE f == [i \in 0..0 |-> 0]
  <2>1. sums(f, costs, 0)
    BY DEF sums
  <2> QED
    BY <2>1
<1>2. ASSUME NEW m \in T PROVE m + 1 \in T
  <2>1. PICK g : sums(g, costs, m)
    OBVIOUS
  <2> DEFINE f == [i \in 0..(m + 1) |-> IF i <= m THEN g[i] ELSE g[m] + costs[m + 1]]
  <2>2. m \in Nat
    OBVIOUS
  <2>3. ASSUME NEW i \in 0..(m + 1)
        PROVE  f[i] = IF i = 0 THEN 0 ELSE f[i - 1] + costs[i]
    <3>1. CASE i <= m
      <4>1. i \in 0..m /\ f[i] = g[i] /\ (i # 0 => f[i - 1] = g[i - 1])
        BY <2>2, <3>1
      <4> HIDE DEF f
      <4> QED
        BY <2>1, <4>1 DEF sums
    <3>2. CASE i = m + 1
      <4>1. i # 0 /\ i - 1 = m /\ f[i] = g[m] + costs[m + 1] /\ f[m] = g[m]
        BY <2>2, <3>2
      <4> HIDE DEF f
      <4> QED
        BY <3>2, <4>1
    <3> QED
      BY <2>2, <3>1, <3>2
  <2>4. f = [i \in 0..(m + 1) |-> f[i]]
    OBVIOUS
  <2> HIDE DEF f
  <2>5. sums(f, costs, m + 1)
    BY <2>3, <2>4 DEF sums
  <2> QED
    BY <2>2, <2>5
<1>3. T = Nat
  <2>1. T \in SUBSET Nat
    OBVIOUS
  <2> HIDE DEF T
  <2> QED
    BY <1>1, <1>2, <2>1, SetInduction
<1>4. \E f : sums(f, costs, n)
  BY <1>3
<1> DEFINE sum == CHOOSE f : sums(f, costs, n)
<1>5. sums(sum, costs, n)
  BY <1>4
<1>6. total(costs, n) = sum[n]
  BY DEF total, sums
<1> QED
  BY <1>5, <1>6

\* Larger costs have a larger sum.
LEMMA TotalIsMonotone ==
    ASSUME NEW n \in Nat, NEW a, NEW b,
           \A i \in 1..n : a[i] \in Nat /\ b[i] \in Nat /\ a[i] <= b[i]
    PROVE  total(a, n) \in Nat /\ total(b, n) \in Nat /\ total(a, n) <= total(b, n)
<1>1. PICK f : sums(f, a, n) /\ total(a, n) = f[n]
  BY TotalEquation
<1>2. PICK g : sums(g, b, n) /\ total(b, n) = g[n]
  BY TotalEquation
<1> DEFINE T == {m \in Nat : m <= n => f[m] \in Nat /\ g[m] \in Nat /\ f[m] <= g[m]}
<1>3. 0 \in T
  BY <1>1, <1>2 DEF sums
<1>4. ASSUME NEW m \in T PROVE m + 1 \in T
  <2>1. m \in Nat
    OBVIOUS
  <2> SUFFICES ASSUME m + 1 <= n
               PROVE  f[m + 1] \in Nat /\ g[m + 1] \in Nat /\ f[m + 1] <= g[m + 1]
    BY <2>1
  <2>2. m + 1 \in 0..n /\ m + 1 # 0 /\ (m + 1) - 1 = m /\ m + 1 \in 1..n
    BY <2>1
  <2>3. f[m] \in Nat /\ g[m] \in Nat /\ f[m] <= g[m]
    BY <2>1
  <2>4. f[m + 1] = f[m] + a[m + 1] /\ g[m + 1] = g[m] + b[m + 1]
    BY <1>1, <1>2, <2>2 DEF sums
  <2>5. a[m + 1] \in Nat /\ b[m + 1] \in Nat /\ a[m + 1] <= b[m + 1]
    BY <2>2
  <2> QED
    BY <2>3, <2>4, <2>5
<1>5. T = Nat
  <2>1. T \in SUBSET Nat
    OBVIOUS
  <2> HIDE DEF T
  <2> QED
    BY <1>3, <1>4, <2>1, SetInduction
<1>6. n \in T
  BY <1>5
<1> QED
  BY <1>1, <1>2, <1>6

-----------------------------------------------------------------------------
(* Costs.                                                                  *)

\* What FirstComeProofs assumes of its constants holds of those it is given.
LEMMA InstanceAssumption ==
    /\ RegSet.regs \in Seq(STRING)
    /\ RegSet.scratch \in Seq(STRING)
    /\ Proved!validate_for_codegen(RegSet)
BY AllocRegSetAssumption
   DEF validate_for_codegen, IsInjective, Range,
       Proved!validate_for_codegen, Proved!IsInjective, Proved!Range

\* A list of the input.
LEMMA ListOf ==
    ASSUME intervals \in Lists
    PROVE  /\ Len(intervals) \in Nat /\ DOMAIN intervals = 1..Len(intervals)
           /\ \A i \in 1..Len(intervals) : /\ intervals[i].end - intervals[i].start \in Nat
                                           /\ intervals[i].end - intervals[i].start + 1 \in Nat
<1>1. /\ Len(intervals) \in Nat /\ DOMAIN intervals = 1..Len(intervals)
      /\ \A i \in 1..Len(intervals) : /\ intervals[i].start \in Nat /\ intervals[i].end \in Nat
                                      /\ intervals[i].start <= intervals[i].end
  BY ListsAssumption, InstanceAssumption, U32MaxAssumption, HalfRangeAssumption, Proved!ListFields
<1> QED
  BY <1>1

\* The choices of a whole state cost no more than the bound, conflicts aside.
LEMMA ChoicesAreBounded ==
    ASSUME max_regs \in Nat, intervals \in Lists, NEW s \in States, Len(s) = Len(intervals)
    PROVE  /\ total(choice_costs(s), Len(s)) \in Nat
           /\ greedy_cost_bound \in Nat
           /\ total(choice_costs(s), Len(s)) <= greedy_cost_bound
<1> DEFINE n == Len(intervals)
           b == [i \in DOMAIN intervals |->
                    reg_count + SpillCost + (intervals[i].end - intervals[i].start + 1)]
<1>1. n \in Nat /\ DOMAIN intervals = 1..n /\ DOMAIN s = 1..n
  BY ListOf, LocationsOf
<1>2. ASSUME NEW i \in 1..n
      PROVE  /\ choice_costs(s)[i] \in Nat /\ b[i] \in Nat
             /\ choice_costs(s)[i] <= b[i]
  <2>1. intervals[i].end - intervals[i].start + 1 \in Nat /\ SpillCost \in Nat /\ reg_count \in Nat
    BY ListOf, CostAssumption, Limit
  <2>2. s[i] \in Nat /\ s[i] <= reg_count
    <3>1. s[i] \in 0..reg_count
      BY <1>1, LocationsOf, Limit
    <3> QED
      BY <2>1, <3>1
  <2>3. choice_costs(s)[i] = IF s[i] = reg_count
                             THEN SpillCost + (intervals[i].end - intervals[i].start + 1)
                             ELSE s[i]
    BY <1>1 DEF choice_costs
  <2>4. b[i] = reg_count + SpillCost + (intervals[i].end - intervals[i].start + 1)
    BY <1>1
  <2> HIDE DEF b
  <2> QED
    BY <2>1, <2>2, <2>3, <2>4
<1>3. greedy_cost_bound = total(b, n)
  BY DEF greedy_cost_bound
<1> HIDE DEF b
<1>4. /\ total(choice_costs(s), n) \in Nat /\ total(b, n) \in Nat
      /\ total(choice_costs(s), n) <= total(b, n)
  BY <1>1, <1>2, TotalIsMonotone
<1> QED
  BY <1>3, <1>4

\* There are finitely many conflicts.
LEMMA ConflictsAreFinite ==
    ASSUME max_regs \in Nat, NEW s \in States
    PROVE  IsFiniteSet(conflicting(s))
<1>1. \A k \in Nat : IsFiniteSet(1..k)
  BY FS_Interval
<1>2. IsFiniteSet(DOMAIN s)
  BY <1>1, LocationsOf
<1>3. IsFiniteSet((DOMAIN s) \X (DOMAIN s))
  BY <1>2, FS_Product
<1>4. conflicting(s) \in SUBSET ((DOMAIN s) \X (DOMAIN s))
  BY DEF conflicting
<1> QED
  BY <1>3, <1>4, FS_Subset

\* The cost of a state is a natural number; without conflicts it is within the
\* bound, and with one it is at least the price of a conflict.
LEMMA CostOf ==
    ASSUME max_regs \in Nat, intervals \in Lists, NEW s \in States, Len(s) = Len(intervals)
    PROVE  /\ cost(s) \in Nat /\ greedy_cost_bound \in Nat
           /\ conflicting(s) = {} => cost(s) <= greedy_cost_bound
           /\ conflicting(s) # {} => cost(s) >= ConflictCost
<1> DEFINE w == total(choice_costs(s), Len(s))
           k == Cardinality(conflicting(s))
<1>1. w \in Nat /\ greedy_cost_bound \in Nat /\ w <= greedy_cost_bound
  BY ChoicesAreBounded
<1>2. k \in Nat /\ (k = 0 <=> conflicting(s) = {})
  BY ConflictsAreFinite, FS_CardinalityType, FS_EmptySet
<1>3. ConflictCost \in Nat
  BY CostAssumption
<1>4. cost(s) = w + ConflictCost * k
  BY DEF cost
<1> HIDE DEF w, k
<1>5. ConflictCost * k \in Nat /\ (k = 0 => ConflictCost * k = 0)
  BY <1>2, <1>3
<1>6. k # 0 => ConflictCost * k >= ConflictCost
  <2> SUFFICES ASSUME k # 0 PROVE ConflictCost * k >= ConflictCost
    OBVIOUS
  <2>1. k - 1 \in Nat
    BY <1>2
  <2>2. ConflictCost * k = ConflictCost * (k - 1) + ConflictCost
    BY <1>2, <1>3
  <2>3. ConflictCost * (k - 1) \in Nat
    BY <1>3, <2>1
  <2> QED
    BY <1>3, <1>5, <2>2, <2>3
<1> QED
  BY <1>1, <1>2, <1>3, <1>4, <1>5, <1>6

\* A choice FirstCome allows makes no conflict.
LEMMA AllowedMakesNoConflict ==
    ASSUME max_regs \in Nat, NEW s \in States, NEW c \in 0..reg_count,
           allowed_choice(s, c), conflicting(s) = {}
    PROVE  conflicting(Append(s, c)) = {}
<1> DEFINE t == Append(s, c)
           n == Len(s)
<1>1. /\ n \in Nat /\ DOMAIN s = 1..n /\ DOMAIN t = 1..(n + 1)
      /\ \A i \in 1..n : t[i] = s[i]
      /\ t[n + 1] = c
  BY DEF States
<1> HIDE DEF t
<1> SUFFICES ASSUME NEW i \in 1..(n + 1), NEW j \in 1..(n + 1), i < j, overlapping(i, j),
                    t[i] < reg_count, t[i] = t[j]
             PROVE  FALSE
  BY <1>1 DEF conflicting, t
<1>2. i \in 1..n /\ t[i] = s[i]
  BY <1>1
<1>3. CASE j \in 1..n
  <2>1. <<i, j>> \in conflicting(s)
    BY <1>1, <1>2, <1>3 DEF conflicting
  <2> QED
    BY <2>1
<1>4. CASE j = n + 1
  <2>1. s[i] = c /\ c < reg_count
    BY <1>1, <1>2, <1>4
  <2>2. ~(reg_count < reg_count)
    BY Limit
  <2>3. c \in Registers
    BY <2>1, <2>2, Limit
  <2>4. s[i] \in used(s)
    BY <1>1, <1>2, <1>4, <2>1, <2>3 DEF used
  <2> QED
    BY <2>1, <2>2, <2>4 DEF allowed_choice
<1> QED
  BY <1>1, <1>3, <1>4

-----------------------------------------------------------------------------
(* The inductive invariant.                                                *)

TypeOK ==
    /\ intervals \in Lists
    /\ max_regs \in Nat
    /\ iterations \in Nat
    /\ current \in States /\ Len(current) <= Len(intervals)
    /\ best \in States
    /\ repaired \in States /\ Len(repaired) <= Len(intervals)

\* What each phase finds: the search starts from a whole state, repair from
\* the best one, and what is verified is whole.
PhasesMatch ==
    /\ pc = "greedy" => best = <<>> /\ repaired = <<>>
    /\ pc # "greedy" => Len(current) = Len(intervals)
    /\ pc \in {"anneal", "repair"} => best # <<>> /\ Len(best) = Len(intervals)
    /\ pc = "anneal" => repaired = <<>>
    /\ pc = "verify" => IF best = <<>> THEN returns_greedy
                                       ELSE Len(repaired) = Len(intervals)
    /\ pc # "done" => result = "none"

\* The search starts within the bound and its best state only gets cheaper.
BestWithinBound ==
    /\ pc = "greedy" => conflicting(current) = {}
    /\ pc \in {"anneal", "repair"} => best_cost <= greedy_cost_bound

AInv == TypeOK /\ PhasesMatch /\ CostsMatch /\ BestWithinBound

\* The input does not change, so a step gives costs and bounds no new meaning.
LEMMA Frame ==
    ASSUME UNCHANGED <<intervals, max_regs>>
    PROVE  /\ reg_count' = reg_count /\ States' = States
           /\ greedy_cost_bound' = greedy_cost_bound
           /\ conflicting(current)' = conflicting(current')
           /\ cost(current)' = cost(current')
           /\ cost(best)' = cost(best')
<1>1. reg_count' = reg_count
  BY DEF reg_count
<1>2. States' = States
  BY <1>1 DEF States
<1>3. greedy_cost_bound' = greedy_cost_bound
  BY <1>1 DEF greedy_cost_bound
<1>4. /\ conflicting(current)' = conflicting(current')
      /\ conflicting(best)' = conflicting(best')
  BY <1>1 DEF conflicting, overlapping
<1>5. /\ choice_costs(current)' = choice_costs(current')
      /\ choice_costs(best)' = choice_costs(best')
  BY <1>1 DEF choice_costs
<1>6. cost(current)' = cost(current') /\ cost(best)' = cost(best')
  BY <1>4, <1>5 DEF cost
<1> QED
  BY <1>1, <1>2, <1>3, <1>4, <1>6

\* A step of the search tries a state.
LEMMA TriedIsState ==
    ASSUME TypeOK, pc = "anneal", PhasesMatch,
           NEW index \in DOMAIN intervals, NEW drawn \in 0..reg_count
    PROVE  tried(index, drawn) \in States /\ Len(tried(index, drawn)) = Len(intervals)
<1>1. /\ current \in Seq(0..reg_count) /\ Len(current) = Len(intervals)
      /\ index \in 1..Len(current) /\ reg_count \in Nat
  BY ListOf, Limit DEF TypeOK, PhasesMatch, States
<1>2. (drawn + 1) % (reg_count + 1) \in 0..reg_count
  BY <1>1
<1> DEFINE c == IF drawn = current[index] THEN (drawn + 1) % (reg_count + 1) ELSE drawn
<1>3. c \in 0..reg_count
  BY <1>2
<1>4. tried(index, drawn) = [current EXCEPT ![index] = c]
  BY DEF tried
<1> HIDE DEF c
<1> QED
  BY <1>1, <1>3, <1>4, ExceptSeq DEF States

\* Nothing is placed and nothing costs anything.
LEMMA InitAInv == Init => AInv
<1> SUFFICES ASSUME Init PROVE AInv
  OBVIOUS
<1>1. /\ intervals \in Lists /\ max_regs \in 0..(Len(RegSet.regs) + 1) /\ pc = "greedy"
      /\ iterations \in 0..MaxIterations
      /\ current = <<>> /\ best = <<>> /\ repaired = <<>> /\ result = "none"
  BY DEF Init
<1>2. max_regs \in Nat /\ iterations \in Nat
  BY <1>1, AllocRegSetAssumption, MaxIterationsAssumption
<1>3. current \in States /\ best \in States /\ repaired \in States /\ Len(<<>>) = 0
  BY <1>1 DEF States
<1>4. TypeOK
  BY <1>1, <1>2, <1>3, ListOf DEF TypeOK
<1>5. PhasesMatch /\ CostsMatch
  BY <1>1 DEF PhasesMatch, CostsMatch
<1>6. BestWithinBound
  BY <1>1 DEF BestWithinBound, conflicting
<1> QED
  BY <1>4, <1>5, <1>6 DEF AInv

\* The greedy start places one more interval.
LEMMA GreedyKeeps == ASSUME AInv, Greedy PROVE AInv'
<1> DEFINE c == first_unused(current)
<1>1. /\ pc = "greedy" /\ Len(current) < Len(intervals) /\ current' = Append(current, c)
      /\ UNCHANGED <<intervals, max_regs, pc, iterations, current_cost, best,
                     best_cost, repaired, result>>
  BY DEF Greedy
<1>2. /\ TypeOK /\ max_regs \in Nat /\ current \in States /\ intervals \in Lists
      /\ conflicting(current) = {}
  BY <1>1 DEF AInv, TypeOK, BestWithinBound
<1>3. allowed_choice(current, c) /\ c \in 0..reg_count
  BY <1>2, ChoicesAllowed, Limit DEF allowed_choice
<1> HIDE DEF c
<1>4. current' \in States /\ conflicting(current') = {}
  BY <1>1, <1>2, <1>3, LocationsStep, AllowedMakesNoConflict
<1>5. Len(current') <= Len(intervals)
  <2>1. Len(current) \in Nat /\ Len(intervals) \in Nat
    BY <1>2, ListOf, LocationsOf
  <2>2. Len(current') = Len(current) + 1
    BY <1>1, <1>2, <1>3 DEF States
  <2> QED
    BY <1>1, <2>1, <2>2
<1>6. TypeOK'
  BY <1>1, <1>2, <1>4, <1>5, Frame DEF TypeOK
<1>7. PhasesMatch' /\ CostsMatch'
  BY <1>1 DEF AInv, PhasesMatch, CostsMatch
<1>8. BestWithinBound'
  BY <1>1, <1>4, Frame DEF BestWithinBound
<1> QED
  BY <1>6, <1>7, <1>8 DEF AInv

\* The greedy state is complete: it is returned, or the search starts from it.
LEMMA GreedyEnds == ASSUME AInv, ReturnGreedy \/ StartSearch PROVE AInv'
<1>1. /\ TypeOK /\ max_regs \in Nat /\ current \in States /\ intervals \in Lists
      /\ pc = "greedy" /\ Len(current) = Len(intervals)
      /\ best = <<>> /\ repaired = <<>> /\ result = "none" /\ conflicting(current) = {}
  BY DEF AInv, TypeOK, PhasesMatch, BestWithinBound, ReturnGreedy, StartSearch
<1>2. CASE ReturnGreedy
  <2>1. /\ pc' = "verify" /\ returns_greedy
        /\ UNCHANGED <<intervals, max_regs, iterations, current, current_cost,
                       best, best_cost, repaired, result>>
    BY <1>2 DEF ReturnGreedy
  <2>2. TypeOK'
    BY <1>1, <2>1, Frame DEF TypeOK
  <2>3. returns_greedy'
    BY <2>1, Frame DEF returns_greedy
  <2>4. PhasesMatch' /\ CostsMatch' /\ BestWithinBound'
    BY <1>1, <2>1, <2>3 DEF PhasesMatch, CostsMatch, BestWithinBound
  <2> QED
    BY <2>2, <2>4 DEF AInv
<1>3. CASE StartSearch
  <2>1. /\ pc' = "anneal" /\ ~returns_greedy /\ best' = current
        /\ current_cost' = cost(current) /\ best_cost' = cost(current)
        /\ UNCHANGED <<intervals, max_regs, iterations, current, repaired, result>>
    BY <1>3 DEF StartSearch
  <2>2. TypeOK'
    BY <1>1, <2>1, Frame DEF TypeOK
  <2>3. current # <<>>
    <3>1. Len(intervals) # 0
      BY <1>1, <2>1, ListsAssumption, EmptySeq DEF returns_greedy
    <3> QED
      BY <1>1, <3>1
  <2>4. PhasesMatch'
    BY <1>1, <2>1, <2>3 DEF PhasesMatch
  <2>5. CostsMatch'
    BY <2>1, Frame DEF CostsMatch
  <2>6. BestWithinBound'
    BY <1>1, <2>1, CostOf, Frame DEF BestWithinBound
  <2> QED
    BY <2>2, <2>4, <2>5, <2>6 DEF AInv
<1> QED
  BY <1>2, <1>3

\* A step of the search keeps the costs true and the best state cheap.
LEMMA AnnealKeeps == ASSUME AInv, Anneal PROVE AInv'
<1>1. /\ pc = "anneal" /\ iterations > 0 /\ iterations' = iterations - 1
      /\ UNCHANGED <<intervals, max_regs, pc, repaired, result>>
  BY DEF Anneal
<1>2. PICK index \in DOMAIN intervals, drawn \in 0..reg_count :
         Accept(index, drawn) \/ Reject(index, drawn)
  BY DEF Anneal
<1> DEFINE next == tried(index, drawn)
<1>3. /\ TypeOK /\ PhasesMatch /\ max_regs \in Nat /\ intervals \in Lists /\ best \in States
      /\ Len(best) = Len(intervals) /\ Len(current) = Len(intervals) /\ best # <<>>
      /\ repaired = <<>> /\ result = "none"
      /\ current_cost = cost(current) /\ best_cost = cost(best)
      /\ best_cost <= greedy_cost_bound
  BY <1>1 DEF AInv, TypeOK, PhasesMatch, CostsMatch, BestWithinBound
<1>4. next \in States /\ Len(next) = Len(intervals)
  BY <1>1, <1>3, TriedIsState
<1>5. next # <<>>
  BY <1>3, <1>4 DEF States
<1>6. cost(next) \in Nat /\ cost(best) \in Nat /\ greedy_cost_bound \in Nat
  BY <1>3, <1>4, CostOf
<1>7. \/ /\ current' = next /\ current_cost' = cost(next)
         /\ \/ cost(next) < best_cost /\ best' = next /\ best_cost' = cost(next)
            \/ UNCHANGED <<best, best_cost>>
      \/ UNCHANGED <<current, current_cost, best, best_cost>>
  BY <1>2 DEF Accept, Reject
<1> HIDE DEF next
<1>8. iterations' \in Nat
  BY <1>1, <1>3 DEF TypeOK
<1>9. /\ current' \in States /\ Len(current') = Len(intervals)
      /\ best' \in States /\ Len(best') = Len(intervals) /\ best' # <<>>
  BY <1>3, <1>4, <1>5, <1>7 DEF TypeOK
<1>10. TypeOK'
  <2>1. Len(intervals) <= Len(intervals)
    BY <1>3, ListOf
  <2> QED
    BY <1>1, <1>3, <1>8, <1>9, <2>1, Frame DEF TypeOK
<1>11. PhasesMatch'
  BY <1>1, <1>3, <1>9 DEF PhasesMatch
<1>12. current_cost' = cost(current') /\ best_cost' = cost(best')
  BY <1>3, <1>7
<1>13. CostsMatch'
  BY <1>1, <1>12, Frame DEF CostsMatch
<1>14. best_cost' <= greedy_cost_bound
  BY <1>3, <1>6, <1>7
<1>15. BestWithinBound'
  BY <1>1, <1>14, Frame DEF BestWithinBound
<1> QED
  BY <1>10, <1>11, <1>13, <1>15 DEF AInv

\* The search is over, and repair has placed nothing yet.
LEMMA StartRepairKeeps == ASSUME AInv, StartRepair PROVE AInv'
<1>1. /\ pc = "anneal" /\ pc' = "repair"
      /\ UNCHANGED <<intervals, max_regs, iterations, current, current_cost,
                     best, best_cost, repaired, result>>
  BY DEF StartRepair
<1>2. TypeOK'
  BY <1>1, Frame DEF AInv, TypeOK
<1>3. PhasesMatch'
  BY <1>1 DEF AInv, PhasesMatch
<1>4. CostsMatch' /\ BestWithinBound'
  BY <1>1, Frame DEF AInv, CostsMatch, BestWithinBound
<1> QED
  BY <1>2, <1>3, <1>4 DEF AInv

\* Repair places one more interval.
LEMMA RepairKeeps == ASSUME AInv, Repair PROVE AInv'
<1> DEFINE c == repaired_choice(repaired, best[Len(repaired) + 1])
<1>1. /\ pc = "repair" /\ Len(repaired) < Len(intervals) /\ repaired' = Append(repaired, c)
      /\ pc' = IF Len(repaired') = Len(intervals) THEN "verify" ELSE "repair"
      /\ UNCHANGED <<intervals, max_regs, iterations, current, current_cost,
                     best, best_cost, result>>
  BY DEF Repair
<1>2. /\ TypeOK /\ max_regs \in Nat /\ repaired \in States /\ intervals \in Lists
      /\ best \in States /\ Len(best) = Len(intervals) /\ best # <<>>
  BY <1>1 DEF AInv, TypeOK, PhasesMatch
<1>3. Len(repaired) \in Nat /\ Len(intervals) \in Nat
  BY <1>2, ListOf, LocationsOf
<1>4. best[Len(repaired) + 1] \in 0..reg_count
  <2>1. Len(repaired) + 1 \in 1..Len(best)
    BY <1>1, <1>2, <1>3
  <2> QED
    BY <1>2, <2>1, ElementOfSeq DEF States
<1>5. c \in 0..reg_count
  BY <1>2, <1>4, ChoicesAllowed, Limit DEF allowed_choice
<1> HIDE DEF c
<1>6. repaired' \in States /\ Len(repaired') = Len(repaired) + 1
  BY <1>1, <1>2, <1>5 DEF States
<1>7. TypeOK'
  <2>1. Len(repaired') <= Len(intervals)
    BY <1>1, <1>3, <1>6
  <2> QED
    BY <1>1, <1>2, <1>6, <2>1, Frame DEF TypeOK
<1>8. PhasesMatch'
  BY <1>1, <1>2 DEF AInv, PhasesMatch
<1>9. CostsMatch' /\ BestWithinBound'
  BY <1>1, Frame DEF AInv, CostsMatch, BestWithinBound
<1> QED
  BY <1>7, <1>8, <1>9 DEF AInv

\* The verifier changes nothing but the result.
LEMMA VerifyKeeps == ASSUME AInv, Verify PROVE AInv'
<1>1. /\ pc = "verify" /\ pc' = "done"
      /\ UNCHANGED <<intervals, max_regs, iterations, current, current_cost,
                     best, best_cost, repaired>>
  BY DEF Verify
<1>2. TypeOK'
  BY <1>1, Frame DEF AInv, TypeOK
<1>3. PhasesMatch' /\ CostsMatch' /\ BestWithinBound'
  BY <1>1 DEF AInv, PhasesMatch, CostsMatch, BestWithinBound
<1> QED
  BY <1>2, <1>3 DEF AInv

\* The invariant holds throughout every search.
THEOREM AnnealInvariant == Spec => []AInv
<1>1. AInv /\ [Next]_vars => AInv'
  <2> SUFFICES ASSUME AInv, [Next]_vars PROVE AInv'
    OBVIOUS
  <2>1. CASE Next
    BY <2>1, GreedyKeeps, GreedyEnds, AnnealKeeps, StartRepairKeeps, RepairKeeps, VerifyKeeps
       DEF Next
  <2>2. CASE UNCHANGED vars
    <3>1. UNCHANGED <<intervals, max_regs, pc, iterations, current, current_cost,
                      best, best_cost, repaired, result>>
      BY <2>2 DEF vars
    <3>2. TypeOK'
      BY <3>1, Frame DEF AInv, TypeOK
    <3>3. PhasesMatch'
      BY <3>1, Frame DEF AInv, PhasesMatch, returns_greedy
    <3>4. CostsMatch' /\ BestWithinBound'
      BY <3>1, Frame DEF AInv, CostsMatch, BestWithinBound
    <3> QED
      BY <3>2, <3>3, <3>4 DEF AInv
  <2> QED
    BY <2>1, <2>2
<1> QED
  BY <1>1, InitAInv, PTL DEF Spec

\* The running costs are the costs of the states they belong to: a rejected
\* step leaves no trace.
THEOREM CostsAlwaysMatch == Spec => []CostsMatch
<1>1. AInv => CostsMatch
  BY DEF AInv
<1> QED
  BY <1>1, AnnealInvariant, PTL

\* When a conflict costs more than any greedy state, the best state has none.
THEOREM BestHasNoConflict == Spec => []BestIsConflictFree
<1>1. AInv => BestIsConflictFree
  <2> SUFFICES ASSUME AInv, pc \in {"anneal", "repair"}, greedy_cost_bound < ConflictCost,
                      conflicting(best) # {}
               PROVE  FALSE
    BY DEF BestIsConflictFree
  <2>1. /\ max_regs \in Nat /\ intervals \in Lists /\ best \in States
        /\ Len(best) = Len(intervals)
        /\ best_cost = cost(best) /\ best_cost <= greedy_cost_bound
    BY DEF AInv, TypeOK, PhasesMatch, CostsMatch, BestWithinBound
  <2>2. cost(best) \in Nat /\ greedy_cost_bound \in Nat /\ cost(best) >= ConflictCost
    BY <2>1, CostOf
  <2> QED
    BY <2>1, <2>2, CostAssumption
<1> QED
  BY <1>1, AnnealInvariant, PTL

-----------------------------------------------------------------------------
(* SimAnneal implements FirstCome.                                         *)

\* An instance has its own copy of every operator; the copies are equal.
LEMMA SameOperators ==
    /\ \A S : Visits!Cardinality(S) = Cardinality(S) /\ Proved!Cardinality(S) = Cardinality(S)
    /\ \A S : Visits!Max(S) = Max(S) /\ Proved!Max(S) = Max(S)
    /\ \A f : Visits!Range(f) = Range(f) /\ Proved!Range(f) = Range(f)
    /\ \A m : Visits!spilled(m) = spilled(m) /\ Proved!spilled(m) = spilled(m)
    /\ \A i, j : /\ Visits!overlaps(i, j) = overlaps(i, j)
                 /\ Proved!overlaps(i, j) = overlaps(i, j)
    /\ \A rs, n : /\ Visits!register_limit(rs, n) = register_limit(rs, n)
                  /\ Proved!register_limit(rs, n) = register_limit(rs, n)
    /\ \A rs, n : /\ Visits!allowed_regs(rs, n) = allowed_regs(rs, n)
                  /\ Proved!allowed_regs(rs, n) = allowed_regs(rs, n)
<1>1. \A S : Visits!Cardinality(S) = Cardinality(S) /\ Proved!Cardinality(S) = Cardinality(S)
  BY DEF Cardinality, Visits!Cardinality, Proved!Cardinality
<1>2. \A S : Visits!Max(S) = Max(S) /\ Proved!Max(S) = Max(S)
  BY DEF Max, Visits!Max, Proved!Max
<1>3. \A f : Visits!Range(f) = Range(f) /\ Proved!Range(f) = Range(f)
  BY DEF Range, Visits!Range, Proved!Range
<1>4. \A m : Visits!spilled(m) = spilled(m) /\ Proved!spilled(m) = spilled(m)
  BY DEF spilled, Visits!spilled, Proved!spilled
<1>5. \A i, j : /\ Visits!overlaps(i, j) = overlaps(i, j)
                /\ Proved!overlaps(i, j) = overlaps(i, j)
  BY DEF overlaps, Visits!overlaps, Proved!overlaps
<1>6. \A rs, n : /\ Visits!register_limit(rs, n) = register_limit(rs, n)
                 /\ Proved!register_limit(rs, n) = register_limit(rs, n)
  BY DEF register_limit, Visits!register_limit, Proved!register_limit
<1>7. \A rs, n : /\ Visits!allowed_regs(rs, n) = allowed_regs(rs, n)
                 /\ Proved!allowed_regs(rs, n) = allowed_regs(rs, n)
  BY <1>6 DEF allowed_regs, Visits!allowed_regs, Proved!allowed_regs
<1> QED
  BY <1>1, <1>2, <1>3, <1>4, <1>5, <1>6, <1>7

\* The verifier is the same as well.
LEMMA SameVerifier ==
    ASSUME NEW list, NEW rs, NEW n, NEW a
    PROVE  /\ Visits!verify_assignment(list, rs, n, a) = verify_assignment(list, rs, n, a)
           /\ Proved!verify_assignment(list, rs, n, a) = verify_assignment(list, rs, n, a)
<1>1. \A r, l, m : /\ Visits!location_errors(r, l, m) = location_errors(r, l, m)
                   /\ Proved!location_errors(r, l, m) = location_errors(r, l, m)
  BY SameOperators DEF location_errors, Visits!location_errors, Proved!location_errors
<1>2. \A m : /\ Visits!expected_slots(m) = expected_slots(m)
             /\ Proved!expected_slots(m) = expected_slots(m)
  BY SameOperators DEF expected_slots, Visits!expected_slots, Proved!expected_slots
<1>3. \A l, m : /\ Visits!conflicts(l, m) = conflicts(l, m)
                /\ Proved!conflicts(l, m) = conflicts(l, m)
  BY SameOperators DEF conflicts, Visits!conflicts, Proved!conflicts
<1>4. Visits!verify_assignment(list, rs, n, a) = verify_assignment(list, rs, n, a)
  BY <1>1, <1>2, <1>3, SameOperators DEF verify_assignment, Visits!verify_assignment
<1>5. Proved!verify_assignment(list, rs, n, a) = verify_assignment(list, rs, n, a)
  BY <1>1, <1>2, <1>3, SameOperators DEF verify_assignment, Proved!verify_assignment
<1> QED
  BY <1>4, <1>5

\* So is what is said about the spilled values.
LEMMA SameForced == Visits!SpillSetIsForced <=> Proved!SpillSetIsForced
<1>1. ASSUME NEW e, NEW i
      PROVE  Visits!keep_if_few(e, i) = Proved!keep_if_few(e, i)
  BY SameOperators DEF Visits!keep_if_few, Proved!keep_if_few
<1>2. Visits!kept_after = Proved!kept_after
  BY <1>1 DEF Visits!kept_after, Proved!kept_after
<1> QED
  BY <1>2, SameOperators
     DEF Visits!SpillSetIsForced, Proved!SpillSetIsForced, Visits!kept, Proved!kept

\* The locations of a state are a matter of the input alone.
LEMMA LocationsFrame ==
    ASSUME UNCHANGED <<intervals, max_regs>>, NEW s, placed' = s
    PROVE  /\ locations(placed)' = locations(s)
           /\ spill_count(placed)' = spill_count(s)
<1>1. reg_count' = reg_count
  BY Frame
<1>2. \A i : slots_before(placed, i)' = slots_before(s, i)
  BY <1>1 DEF slots_before
<1>3. spill_count(placed)' = spill_count(s)
  BY <1>1 DEF spill_count, slots_before
<1>4. locations(placed)' = locations(s)
  BY <1>1 DEF locations, slots_before
<1> QED
  BY <1>3, <1>4

\* A step that leaves the placed intervals alone is invisible.
LEMMA Stutters ==
    ASSUME UNCHANGED <<intervals, max_regs, result>>, placed' = placed
    PROVE  UNCHANGED Proved!vars
BY LocationsFrame DEF Proved!vars

\* Placing one more interval with an allowed choice is a visit.
LEMMA Visits1 ==
    ASSUME UNCHANGED <<intervals, max_regs, result>>,
           max_regs \in Nat, intervals \in Lists,
           placed \in States, Len(placed) < Len(intervals),
           NEW c \in 0..reg_count, allowed_choice(placed, c),
           placed' = Append(placed, c)
    PROVE  Proved!Next
<1> DEFINE s == placed
<1>1. /\ locations(placed)' = locations(Append(s, c))
      /\ spill_count(placed)' = spill_count(Append(s, c))
  BY LocationsFrame
<1>2. Proved!current = Len(s) + 1 /\ Len(s) \in Nat /\ Len(intervals) \in Nat
  BY LocationsOf, ListOf DEF Proved!current
<1>3. Proved!available = free(s)
  BY SameOperators DEF Proved!available, Proved!earlier_neighbors, Proved!current, free
<1>4. Proved!available = {RegSet.regs[d + 1] : d \in Registers \ used(s)}
  BY <1>3, FreeIsUnused
<1>5. Proved!current <= Len(intervals)
  BY <1>2
<1>6. CASE c \in Registers \ used(s)
  <2>1. /\ locations(placed)' = Append(locations(s), Proved!Reg(RegSet.regs[c + 1]))
        /\ spill_count(placed)' = spill_count(s)
    BY <1>1, <1>6, LocationsStep DEF Reg, Proved!Reg
  <2>2. Proved!TakeRegister(RegSet.regs[c + 1])
    BY <1>4, <1>5, <1>6, <2>1 DEF Proved!TakeRegister
  <2>3. RegSet.regs[c + 1] \in Proved!Range(RegSet.regs)
    BY <1>6, RegisterNames, SameOperators
  <2> QED
    BY <2>2, <2>3 DEF Proved!Next
<1>7. CASE c = reg_count /\ Registers \ used(s) = {}
  <2>1. /\ locations(placed)' = Append(locations(s), Proved!Stack(spill_count(s)))
        /\ spill_count(placed)' = spill_count(s) + 1
    BY <1>1, <1>7, LocationsStep DEF Stack, Proved!Stack
  <2>2. Proved!available = {}
    BY <1>4, <1>7
  <2>3. Proved!Spill
    BY <1>5, <2>1, <2>2 DEF Proved!Spill
  <2> QED
    BY <2>3 DEF Proved!Next
<1> QED
  BY <1>6, <1>7 DEF allowed_choice

\* Every step of the search is a step of FirstCome or invisible there.
LEMMA StepSimulation ==
    ASSUME AInv, [Next]_vars
    PROVE  [Proved!Next]_(Proved!vars)
<1>1. TypeOK /\ PhasesMatch /\ max_regs \in Nat /\ intervals \in Lists
  BY DEF AInv, TypeOK
<1>2. CASE Greedy
  <2>1. /\ pc = "greedy" /\ Len(current) < Len(intervals)
        /\ current' = Append(current, first_unused(current))
        /\ UNCHANGED <<intervals, max_regs, pc, iterations, current_cost, best,
                       best_cost, repaired, result>>
    BY <1>2 DEF Greedy
  <2>2. early' = early
    BY <2>1, Frame DEF early, returns_greedy
  <2>3. CASE early
    <3>1. placed = current /\ placed' = Append(current, first_unused(current))
      BY <2>1, <2>2, <2>3 DEF placed
    <3>2. allowed_choice(current, first_unused(current))
      BY <1>1, ChoicesAllowed
    <3>3. first_unused(current) \in 0..reg_count
      BY <1>1, <3>2, Limit DEF allowed_choice
    <3>4. current \in States
      BY <1>1 DEF TypeOK
    <3> QED
      BY <1>1, <2>1, <3>1, <3>2, <3>3, <3>4, Visits1
  <2>4. CASE ~early
    <3>1. placed' = placed
      BY <2>1, <2>2, <2>4 DEF placed
    <3> QED
      BY <2>1, <3>1, Stutters
  <2> QED
    BY <2>3, <2>4
<1>3. CASE ReturnGreedy
  <2>1. UNCHANGED <<intervals, max_regs, iterations, current, best, repaired, result>>
    BY <1>3 DEF ReturnGreedy
  <2>2. placed' = placed
    BY <2>1, Frame DEF placed, early, returns_greedy
  <2> QED
    BY <2>1, <2>2, Stutters
<1>4. CASE StartSearch
  <2>1. /\ ~returns_greedy /\ best' = current /\ Len(current) = Len(intervals)
        /\ UNCHANGED <<intervals, max_regs, iterations, repaired, result>>
    BY <1>4 DEF StartSearch
  <2>2. ~returns_greedy'
    BY <2>1, Frame DEF returns_greedy
  <2>3. placed' = placed
    BY <2>1, <2>2 DEF placed, early
  <2> QED
    BY <2>1, <2>3, Stutters
<1>5. CASE Anneal
  <2>1. UNCHANGED <<intervals, max_regs, pc, repaired, result>> /\ pc = "anneal"
    BY <1>5 DEF Anneal
  <2>2. AInv'
    BY <1>5, AnnealKeeps
  <2>3. best # <<>> /\ best' # <<>>
    BY <1>1, <2>1, <2>2 DEF AInv, PhasesMatch
  <2>4. placed' = placed
    BY <2>1, <2>3 DEF placed, early
  <2> QED
    BY <2>1, <2>4, Stutters
<1>6. CASE StartRepair
  <2>1. UNCHANGED <<intervals, max_regs, iterations, current, best, repaired, result>>
    BY <1>6 DEF StartRepair
  <2>2. placed' = placed
    BY <2>1, Frame DEF placed, early, returns_greedy
  <2> QED
    BY <2>1, <2>2, Stutters
<1>7. CASE Repair
  <2> DEFINE c == repaired_choice(repaired, best[Len(repaired) + 1])
  <2>1. /\ pc = "repair" /\ Len(repaired) < Len(intervals) /\ repaired' = Append(repaired, c)
        /\ UNCHANGED <<intervals, max_regs, best, result>>
    BY <1>7 DEF Repair
  <2>2. /\ best # <<>> /\ best \in States /\ repaired \in States
        /\ Len(best) = Len(intervals)
    BY <1>1, <2>1 DEF TypeOK, PhasesMatch
  <2>3. placed = repaired /\ placed' = Append(repaired, c)
    BY <2>1, <2>2 DEF placed, early
  <2>4. best[Len(repaired) + 1] \in 0..reg_count
    <3>1. Len(repaired) \in Nat /\ Len(intervals) \in Nat
      BY <1>1, <2>2, ListOf, LocationsOf
    <3>2. Len(repaired) + 1 \in 1..Len(best)
      BY <2>1, <2>2, <3>1
    <3> QED
      BY <2>2, <3>2, ElementOfSeq DEF States
  <2>5. allowed_choice(repaired, c)
    BY <1>1, <2>4, ChoicesAllowed
  <2>6. c \in 0..reg_count
    BY <1>1, <2>5, Limit DEF allowed_choice
  <2> HIDE DEF c
  <2> QED
    BY <1>1, <2>1, <2>2, <2>3, <2>5, <2>6, Visits1
<1>8. CASE Verify
  <2>1. /\ pc = "verify"
        /\ UNCHANGED <<intervals, max_regs, iterations, current, best, repaired>>
    BY <1>8 DEF Verify
  <2>2. placed' = placed
    BY <2>1, Frame DEF placed, early, returns_greedy
  <2>3. choices = placed
    BY <1>1, <2>1 DEF choices, placed, early, PhasesMatch
  <2>4. placed \in States /\ Len(placed) = Len(intervals)
    BY <1>1, <2>1 DEF placed, early, TypeOK, PhasesMatch
  <2>5. Proved!current > Len(intervals)
    <3>1. Len(locations(placed)) = Len(intervals) /\ Len(intervals) \in Nat
      BY <1>1, <2>4, LocationsOf, ListOf
    <3> QED
      BY <3>1 DEF Proved!current
  <2>6. result = "none"
    BY <1>1, <2>1 DEF PhasesMatch
  <2>7. result' \in Proved!verify_assignment(intervals, RegSet,
                        Proved!register_limit(RegSet, max_regs),
                        [map |-> locations(placed), stack_slots |-> spill_count(placed),
                         spills |-> spill_count(placed)])
    BY <1>8, <2>3, SameOperators, SameVerifier DEF Verify, reg_count
  <2>8. locations(placed)' = locations(placed) /\ spill_count(placed)' = spill_count(placed)
    BY <2>1, <2>2, LocationsFrame
  <2>9. Proved!Verify
    BY <2>1, <2>5, <2>6, <2>7, <2>8 DEF Proved!Verify
  <2> QED
    BY <2>9 DEF Proved!Next
<1>9. CASE UNCHANGED vars
  <2>1. UNCHANGED <<intervals, max_regs, iterations, current, best, repaired, result>>
    BY <1>9 DEF vars
  <2>2. placed' = placed
    BY <2>1, Frame DEF placed, early, returns_greedy
  <2> QED
    BY <2>1, <2>2, Stutters
<1> QED
  BY <1>2, <1>3, <1>4, <1>5, <1>6, <1>7, <1>8, <1>9 DEF Next

\* Nothing is placed at the start.
LEMMA InitSimulation == Init => Proved!Init
<1> SUFFICES ASSUME Init PROVE Proved!Init
  OBVIOUS
<1>1. placed = <<>> /\ intervals \in Lists /\ max_regs \in 0..(Len(RegSet.regs) + 1) /\ result = "none"
  BY DEF Init, placed
<1>2. max_regs \in Nat
  BY <1>1, AllocRegSetAssumption
<1>3. placed \in States /\ Len(placed) = 0 /\ DOMAIN placed = {}
  BY <1>1 DEF States
<1>4. locations(placed) = <<>>
  BY <1>3 DEF locations
<1>5. spill_count(placed) = 0
  <2>1. {j \in 1..(0 + 1 - 1) : placed[j] = reg_count} = {}
    OBVIOUS
  <2> QED
    BY <1>3, <2>1, FS_EmptySet DEF spill_count, slots_before
<1> QED
  BY <1>1, <1>4, <1>5 DEF Proved!Init

\* Safety of the refinement: whatever the search prefers, the locations are
\* handed out as FirstCome hands them out.
THEOREM AnnealImplementsFirstCome == Spec => Visits!Init /\ [][Visits!Next]_(Visits!vars)
<1>1. Visits!Init <=> Proved!Init
  BY DEF Visits!Init, Proved!Init
<1>2. Visits!vars = Proved!vars
  BY DEF Visits!vars, Proved!vars
<1>3. Proved!Next => Visits!Next
  <2>1. Visits!current = Proved!current
    BY DEF Visits!current, Proved!current
  <2>2. Visits!available = Proved!available
    BY <2>1, SameOperators
       DEF Visits!available, Proved!available, Visits!earlier_neighbors, Proved!earlier_neighbors
  <2>3. \A r : Proved!TakeRegister(r) => Visits!TakeRegister(r)
    BY <2>1, <2>2 DEF Visits!TakeRegister, Proved!TakeRegister, Visits!Reg, Proved!Reg
  <2>4. Proved!Spill => Visits!Spill
    BY <2>1, <2>2 DEF Visits!Spill, Proved!Spill, Visits!Stack, Proved!Stack
  <2>5. Proved!Verify => Visits!Verify
    BY <2>1, SameOperators, SameVerifier DEF Visits!Verify, Proved!Verify
  <2> QED
    BY <2>3, <2>4, <2>5, SameOperators DEF Visits!Next, Proved!Next
<1>4. AInv /\ [Next]_vars => [Visits!Next]_(Visits!vars)
  <2> SUFFICES ASSUME AInv, [Next]_vars PROVE [Visits!Next]_(Visits!vars)
    OBVIOUS
  <2>1. [Proved!Next]_(Proved!vars)
    BY StepSimulation
  <2>2. UNCHANGED Proved!vars => UNCHANGED Visits!vars
    BY DEF Visits!vars, Proved!vars
  <2> QED
    BY <1>3, <2>1, <2>2
<1>5. Init => Visits!Init
  BY <1>1, InitSimulation
<1> QED
  BY <1>4, <1>5, AnnealInvariant, PTL DEF Spec

\* Hence what is proved about FirstCome holds of the search.
LEMMA FirstComeHolds == Spec => [](Proved!FInv /\ Proved!SpillSetIsForced)
<1>1. AInv /\ [Next]_vars => [Proved!Next]_(Proved!vars)
  BY StepSimulation
<1>2. Proved!Init /\ [][Proved!Next]_(Proved!vars) => []Proved!FInv
  BY ListsAssumption, InstanceAssumption, U32MaxAssumption, HalfRangeAssumption,
     Proved!FirstComeInvariant
<1>3. Proved!FInv => Proved!SpillSetIsForced
  BY ListsAssumption, InstanceAssumption, U32MaxAssumption, HalfRangeAssumption,
     Proved!KeptIsForced
<1> QED
  BY <1>1, <1>2, <1>3, InitSimulation, AnnealInvariant, PTL DEF Spec

\* The verifier accepts the result of every search.
THEOREM AnnealPassesVerifier == Spec => []VerifierAccepts
<1>1. Proved!FInv => VerifierAccepts
  BY DEF Proved!FInv, VerifierAccepts
<1> QED
  BY <1>1, FirstComeHolds, PTL

\* The search has no say in which values are spilled.
THEOREM AnnealSpillsAreForced == Spec => []SpillsAreForced
<1>1. Proved!SpillSetIsForced => SpillsAreForced
  BY SameForced DEF SpillsAreForced
<1> QED
  BY <1>1, FirstComeHolds, PTL
=============================================================================
