--------------------------- MODULE OperatorProofs ---------------------------
(***************************************************************************)
(* Lemmas about the operators of Alloc and Analysis that the proofs about  *)
(* the allocators, the analyses, the interpreter and the emitter share:    *)
(* the registers a budget allows, what it takes for verify_assignment to   *)
(* accept an assignment, and that the passes of compute_dominators and     *)
(* compute_liveness end where another pass changes nothing.                *)
(***************************************************************************)
EXTENDS Alloc, Analysis, FiniteSetTheorems, SequenceTheorems, TLAPS

\* Registers and stack slots are different kinds of location.
LEMMA LocationFields ==
    /\ \A r : Reg(r).kind = "reg" /\ Reg(r).reg = r
    /\ \A i : Stack(i).kind = "stack" /\ Stack(i).slot = i
BY DEF Reg, Stack

-----------------------------------------------------------------------------
(* Natural numbers.                                                        *)

\* A set of naturals that is not empty has a least member.
LEMMA LeastNatural ==
    ASSUME NEW T \in SUBSET Nat, T # {}
    PROVE  \E x \in T : \A y \in T : x <= y
<1>1. PICK x \in T : \A y \in T : ~(<<y, x>> \in OpToRel(<, Nat))
  BY NatLessThanWellFounded, WFMin
<1>2. \E z \in T : \A y \in T : ~(y < z)
  BY <1>1 DEF OpToRel
<1> QED
  BY <1>2

\* A set of naturals with 0 and the successors of its members has them all.
LEMMA SetInduction ==
    ASSUME NEW T \in SUBSET Nat, 0 \in T, \A n \in T : n + 1 \in T
    PROVE  T = Nat
<1> SUFFICES ASSUME Nat \ T # {} PROVE FALSE
  OBVIOUS
<1>1. PICK z \in Nat \ T : \A y \in Nat \ T : z <= y
  BY LeastNatural
<1>2. z - 1 \in Nat /\ ~(z <= z - 1) /\ z = (z - 1) + 1
  BY <1>1
<1> QED
  BY <1>1, <1>2

-----------------------------------------------------------------------------
(* Sorting by rank.                                                        *)

\* R is a strict total order of D, as a set of pairs.
strict_order(D, R) ==
    /\ \A x \in D : <<x, x>> \notin R
    /\ \A x, y, z \in D : <<x, y>> \in R /\ <<y, z>> \in R => <<x, z>> \in R
    /\ \A x, y \in D : x = y \/ <<x, y>> \in R \/ <<y, x>> \in R

\* rank counts the members of D before each one.
counts_before(rank, D, R) ==
    \A x \in D : rank[x] = Cardinality({y \in D : <<y, x>> \in R})

\* Counting the members before each one numbers a finite, totally ordered set
\* from 0 on, in its order.
LEMMA RankOfOrder ==
    ASSUME NEW D, NEW R, NEW rank,
           IsFiniteSet(D), strict_order(D, R), counts_before(rank, D, R)
    PROVE  /\ \A x \in D : rank[x] \in 0..(Cardinality(D) - 1)
           /\ \A x, y \in D : <<x, y>> \in R => rank[x] < rank[y]
           /\ \A x, y \in D : rank[x] = rank[y] => x = y
           /\ \A k \in 0..(Cardinality(D) - 1) : \E x \in D : rank[x] = k
<1> DEFINE B(x) == {y \in D : <<y, x>> \in R}
           n == Cardinality(D)
<1>1. \A x \in D : rank[x] = Cardinality(B(x)) /\ B(x) \in SUBSET D /\ x \notin B(x)
  BY DEF strict_order, counts_before
<1>2. \A x, y \in D : <<x, y>> \in R => B(x) \in SUBSET B(y) /\ x \in B(y)
  BY DEF strict_order
<1> HIDE DEF B
<1>3. n \in Nat /\ \A x \in D : IsFiniteSet(B(x)) /\ rank[x] \in Nat /\ rank[x] < n
  <2>1. n \in Nat
    BY FS_CardinalityType
  <2>2. ASSUME NEW x \in D PROVE IsFiniteSet(B(x)) /\ rank[x] \in Nat /\ rank[x] < n
    <3>1. IsFiniteSet(B(x)) /\ Cardinality(B(x)) <= n /\ (n = Cardinality(B(x)) => D = B(x))
      BY <1>1, FS_Subset
    <3>2. Cardinality(B(x)) \in Nat
      BY <3>1, FS_CardinalityType
    <3> QED
      BY <1>1, <2>1, <3>1, <3>2
  <2> QED
    BY <2>1, <2>2
<1>4. ASSUME NEW x \in D, NEW y \in D, <<x, y>> \in R PROVE rank[x] < rank[y]
  <2>1. /\ Cardinality(B(x)) <= Cardinality(B(y))
        /\ Cardinality(B(y)) = Cardinality(B(x)) => B(y) = B(x)
    BY <1>2, <1>3, <1>4, FS_Subset
  <2> QED
    BY <1>1, <1>2, <1>3, <1>4, <2>1
<1>5. ASSUME NEW x \in D, NEW y \in D, rank[x] = rank[y] PROVE x = y
  <2>1. ~(rank[x] < rank[y]) /\ ~(rank[y] < rank[x])
    BY <1>3, <1>5
  <2> QED
    BY <1>4, <2>1 DEF strict_order
<1>6. \A x \in D : rank[x] \in 0..(n - 1)
  BY <1>3
<1>7. {rank[x] : x \in D} = 0..(n - 1)
  <2> DEFINE I == {rank[x] : x \in D}
             T == 0..(n - 1)
             f == [x \in D |-> rank[x]]
  <2>1. f \in Injection(D, I) /\ f \in Surjection(D, I)
    BY <1>5 DEF Injection, IsInjective, Surjection
  <2>2. I \in SUBSET T
    BY <1>6
  <2>3. IsFiniteSet(T) /\ Cardinality(T) = n
    <3>1. \A m \in Nat : IsFiniteSet(0..(m - 1)) /\ Cardinality(0..(m - 1)) = m
      BY FS_Interval
    <3> QED
      BY <1>3, <3>1
  <2> HIDE DEF I, T, f
  <2>4. Cardinality(I) = n
    BY <2>1, FS_Surjection
  <2>5. Cardinality(T) = Cardinality(I) => T = I
    BY <2>2, <2>3, FS_Subset
  <2> QED
    BY <2>3, <2>4, <2>5 DEF I, T
<1> QED
  BY <1>4, <1>5, <1>6, <1>7

-----------------------------------------------------------------------------
(* The registers a budget allows.                                          *)

\* A register set the command line has validated.
valid(rs) ==
    /\ rs.regs \in Seq(STRING)
    /\ rs.scratch \in Seq(STRING)
    /\ validate_for_codegen(rs)

\* Cutting the budget to the register file twice is cutting it once.
LEMMA BudgetIsCutOnce ==
    ASSUME NEW rs, valid(rs), NEW n \in Nat
    PROVE  /\ register_limit(rs, n) \in 0..Len(rs.regs)
           /\ register_limit(rs, n) \in Nat
           /\ allowed_regs(rs, register_limit(rs, n)) = allowed_regs(rs, n)
<1>1. Len(rs.regs) \in Nat
  BY DEF valid
<1>2. register_limit(rs, n) \in 0..Len(rs.regs)
  BY <1>1 DEF register_limit
<1>3. register_limit(rs, register_limit(rs, n)) = register_limit(rs, n)
  BY <1>1, <1>2 DEF register_limit
<1> QED
  BY <1>1, <1>2, <1>3 DEF allowed_regs

\* A sequence of two parts without repetitions: neither part has one, and
\* the two have nothing in common.
LEMMA PartsAreDisjoint ==
    ASSUME NEW S, NEW s \in Seq(S), NEW t \in Seq(S), IsInjective(s \o t)
    PROVE  /\ \A i, j \in DOMAIN s : s[i] = s[j] => i = j
           /\ \A i, j \in DOMAIN t : t[i] = t[j] => i = j
           /\ \A i \in DOMAIN s, j \in DOMAIN t : s[i] # t[j]
<1>1. \A i \in DOMAIN s : i \in DOMAIN (s \o t) /\ (s \o t)[i] = s[i]
  OBVIOUS
<1>2. \A j \in DOMAIN t : /\ Len(s) + j \in DOMAIN (s \o t)
                          /\ (s \o t)[Len(s) + j] = t[j]
                          /\ \A i \in DOMAIN s : i # Len(s) + j
  OBVIOUS
<1>3. \A i, j \in DOMAIN t : Len(s) + i = Len(s) + j => i = j
  OBVIOUS
<1> QED
  BY <1>1, <1>2, <1>3 DEF IsInjective

\* No allocatable register is a scratch register.
LEMMA AllowedAreNotScratch ==
    ASSUME NEW rs, valid(rs), NEW n \in Nat, NEW r \in allowed_regs(rs, n)
    PROVE  r \notin Range(rs.scratch)
<1>1. /\ rs.regs \in Seq(STRING) /\ rs.scratch \in Seq(STRING)
      /\ IsInjective(rs.regs \o rs.scratch)
  BY DEF valid, validate_for_codegen
<1>2. PICK i \in DOMAIN rs.regs : r = rs.regs[i]
  <2>1. PICK i \in 1..register_limit(rs, n) : r = rs.regs[i]
    BY DEF allowed_regs
  <2>2. register_limit(rs, n) \in 0..Len(rs.regs)
    BY BudgetIsCutOnce
  <2>3. i \in 1..Len(rs.regs)
    BY <1>1, <2>1, <2>2
  <2> QED
    BY <1>1, <2>1, <2>3
<1>3. \A j \in DOMAIN rs.scratch : rs.regs[i] # rs.scratch[j]
  BY <1>1, PartsAreDisjoint, Zenon
<1> QED
  BY <1>2, <1>3 DEF Range

\* As many registers are allowed as the limit says: none is listed twice.
LEMMA AllowedCount ==
    ASSUME NEW rs, valid(rs), NEW n \in Nat
    PROVE  /\ IsFiniteSet(allowed_regs(rs, n))
           /\ Cardinality(allowed_regs(rs, n)) = register_limit(rs, n)
<1> DEFINE limit == register_limit(rs, n)
           A == allowed_regs(rs, n)
           f == [i \in 1..limit |-> rs.regs[i]]
<1>1. limit \in Nat /\ limit \in 0..Len(rs.regs)
  BY BudgetIsCutOnce
<1>2. /\ rs.regs \in Seq(STRING) /\ rs.scratch \in Seq(STRING)
      /\ IsInjective(rs.regs \o rs.scratch)
  BY DEF valid, validate_for_codegen
<1>3. \A i, j \in 1..limit : rs.regs[i] = rs.regs[j] => i = j
  <2>1. \A i \in 1..limit : i \in DOMAIN rs.regs
    BY <1>1, <1>2
  <2> QED
    BY <1>2, <2>1, PartsAreDisjoint
<1>4. f \in Surjection(1..limit, A)
  BY DEF Surjection, allowed_regs
<1>5. f \in Injection(1..limit, A)
  BY <1>3, <1>4 DEF Surjection, Injection, IsInjective
<1>6. IsFiniteSet(1..limit) /\ Cardinality(1..limit) = limit
  BY <1>1, FS_Interval
<1> HIDE DEF f, A, limit
<1>7. IsFiniteSet(A) /\ Cardinality(A) = limit
  BY <1>4, <1>5, <1>6, FS_Surjection
<1> QED
  BY <1>7 DEF A, limit

-----------------------------------------------------------------------------
(* The verifier's answer.                                                  *)

\* Every location is a register of the budget or a slot below the counter.
LocationsAllowed(map, slots, rs, n) ==
    \A v \in DOMAIN map :
        \/ /\ map[v].kind = "reg"
           /\ map[v] = Reg(map[v].reg)
           /\ map[v].reg \in allowed_regs(rs, n)
        \/ /\ map[v].kind = "stack"
           /\ map[v] = Stack(map[v].slot)
           /\ map[v].slot \in 0..(slots - 1)

\* The slots handed out are exactly the slots in use, one value each.
DenseSlots(map, slots) ==
    /\ \A v, w \in spilled(map) : map[v].slot = map[w].slot => v = w
    /\ \A i \in 0..(slots - 1) : \E v \in spilled(map) : map[v].slot = i

\* Values that overlap are in different locations.
ConflictFree(intervals, map) ==
    \A v, w \in DOMAIN map :
        v # w /\ map[v] = map[w] => ~overlaps(intervals[v], intervals[w])

\* The largest of the first n naturals.
LEMMA MaxOfInterval ==
    ASSUME NEW n \in Nat, n > 0
    PROVE  Max(0..(n - 1)) = n - 1
<1> DEFINE m == CHOOSE x \in 0..(n - 1) : \A y \in 0..(n - 1) : x >= y
<1>1. n - 1 \in 0..(n - 1) /\ \A y \in 0..(n - 1) : n - 1 >= y
  OBVIOUS
<1>2. m \in 0..(n - 1) /\ \A y \in 0..(n - 1) : m >= y
  BY <1>1
<1> HIDE DEF m
<1>3. m = n - 1
  BY <1>1, <1>2
<1> QED
  BY <1>3 DEF m, Max

\* As many values are spilled as slots were handed out, and no more than there
\* are values.
LEMMA SpillCountIsSlotCount ==
    ASSUME NEW map, NEW slots \in Nat, IsFiniteSet(DOMAIN map), DenseSlots(map, slots),
           \A v \in spilled(map) : map[v].slot \in 0..(slots - 1)
    PROVE  /\ Cardinality(spilled(map)) = slots
           /\ slots <= Cardinality(DOMAIN map)
<1> DEFINE T == 0..(slots - 1)
           S == spilled(map)
           f == [v \in S |-> map[v].slot]
<1>1. f \in [S -> T]
  OBVIOUS
<1>2. f \in Injection(S, T)
  BY <1>1 DEF DenseSlots, Injection, IsInjective
<1>3. f \in Surjection(S, T)
  BY <1>1 DEF DenseSlots, Surjection
<1>4. S \in SUBSET DOMAIN map
  BY DEF spilled
<1>5. IsFiniteSet(S) /\ Cardinality(S) <= Cardinality(DOMAIN map)
  BY <1>4, FS_Subset
<1>6. IsFiniteSet(T) /\ Cardinality(T) = slots
  BY FS_Interval
<1> HIDE DEF f, S, T
<1>7. Cardinality(S) = Cardinality(T)
  BY <1>2, <1>3, <1>6, FS_Injection
<1> QED
  BY <1>5, <1>6, <1>7 DEF S

\* The highest slot in use is the last one handed out.
LEMMA HighestSlot ==
    ASSUME NEW map, NEW slots \in Nat, slots <= U32Max, DenseSlots(map, slots),
           \A v \in spilled(map) : map[v].slot \in 0..(slots - 1)
    PROVE  expected_slots(map) = slots
<1> DEFINE ids == {map[v].slot : v \in spilled(map)}
<1>1. ids = 0..(slots - 1)
  BY DEF DenseSlots
<1>2. CASE spilled(map) = {}
  BY <1>1, <1>2 DEF expected_slots
<1>3. CASE spilled(map) # {}
  <2>1. slots > 0
    BY <1>1, <1>3
  <2>2. Max(ids) = slots - 1
    BY <1>1, <2>1, MaxOfInterval
  <2> QED
    BY <1>3, <2>1, <2>2, U32MaxAssumption DEF expected_slots
<1> QED
  BY <1>2, <1>3

\* verify_assignment accepts an assignment of every value to an allowed
\* location without conflicts, if its slots are dense and counted.
LEMMA VerifierAnswersOk ==
    ASSUME NEW intervals, NEW rs, valid(rs), NEW n \in Nat, NEW map, NEW slots \in Nat,
           DOMAIN map = DOMAIN intervals, IsFiniteSet(DOMAIN map),
           Cardinality(DOMAIN map) <= U32Max,
           LocationsAllowed(map, slots, rs, n),
           DenseSlots(map, slots),
           ConflictFree(intervals, map)
    PROVE  verify_assignment(intervals, rs, register_limit(rs, n),
                [map |-> map, stack_slots |-> slots, spills |-> slots]) = {"Ok"}
<1> DEFINE limit == register_limit(rs, n)
           assigned == [map |-> map, stack_slots |-> slots, spills |-> slots]
<1>1. assigned.map = map /\ assigned.spills = slots /\ assigned.stack_slots = slots
  OBVIOUS
<1>2. \A v \in spilled(map) : map[v].slot \in 0..(slots - 1)
  BY LocationFields DEF LocationsAllowed, spilled
<1>3. location_errors(rs, allowed_regs(rs, limit), map) = {}
  <2> SUFFICES ASSUME NEW w \in DOMAIN map, map[w].kind = "reg"
               PROVE  /\ map[w].reg \notin Range(rs.scratch)
                      /\ map[w].reg \in allowed_regs(rs, limit)
    BY DEF location_errors
  <2>1. map[w].reg \in allowed_regs(rs, n)
    BY LocationFields DEF LocationsAllowed
  <2> QED
    BY <2>1, BudgetIsCutOnce, AllowedAreNotScratch
<1>4. Cardinality(spilled(map)) = slots /\ slots <= U32Max
  <2>1. Cardinality(spilled(map)) = slots /\ slots <= Cardinality(DOMAIN map)
    BY <1>2, SpillCountIsSlotCount
  <2>2. Cardinality(DOMAIN map) \in Nat
    BY FS_CardinalityType
  <2> QED
    BY <2>1, <2>2, U32MaxAssumption
<1>5. expected_slots(map) = slots
  BY <1>2, <1>4, HighestSlot
<1>6. conflicts(intervals, map) = {}
  BY DEF ConflictFree, conflicts
<1>7. ~(Cardinality(spilled(map)) > U32Max)
  BY <1>4, U32MaxAssumption
<1> HIDE DEF assigned, limit
<1>8. verify_assignment(intervals, rs, limit, assigned) = {"Ok"}
  BY <1>1, <1>3, <1>4, <1>5, <1>6, <1>7 DEF verify_assignment
<1> QED
  BY <1>8 DEF assigned, limit

\* A value x moves to a fresh slot: the slots stay dense, and nobody else is
\* in that slot.
LEMMA FreshSlot ==
    ASSUME NEW map, NEW next, NEW slots \in Nat, NEW x, x \notin spilled(map),
           DenseSlots(map, slots),
           \A y \in spilled(map) : map[y].slot \in 0..(slots - 1),
           next[x] = Stack(slots),
           spilled(next) = spilled(map) \cup {x},
           \A y \in spilled(map) : next[y] = map[y]
    PROVE  /\ DenseSlots(next, slots + 1)
           /\ \A y \in spilled(map) : map[y].slot # slots
<1>1. next[x].slot = slots
  BY LocationFields
<1>2. \A i \in 0..(slots + 1 - 1) : i = slots \/ i \in 0..(slots - 1)
  OBVIOUS
<1>3. \A i \in 0..(slots + 1 - 1) : \E y \in spilled(next) : next[y].slot = i
  BY <1>1, <1>2 DEF DenseSlots
<1>4. \A y \in spilled(map) : map[y].slot # slots
  OBVIOUS
<1>5. \A y, z \in spilled(next) : next[y].slot = next[z].slot => y = z
  BY <1>1, <1>4 DEF DenseSlots
<1> QED
  BY <1>3, <1>4, <1>5 DEF DenseSlots
-----------------------------------------------------------------------------
(* The blocks of a function.                                               *)

\* A chain of subsets of a set of at most c members, which grows until it
\* stays the same, is the same from step c on.
LEMMA ChainIsStable ==
    ASSUME NEW U, IsFiniteSet(U), NEW c \in Nat, Cardinality(U) <= c, NEW S,
           \A m \in 0..c : S[m] \subseteq S[m + 1] /\ S[m + 1] \subseteq U,
           \A m \in 1..c : S[m - 1] = S[m] => S[m] = S[m + 1]
    PROVE  S[c] = S[c + 1]
<1> DEFINE T == {m \in Nat : m <= c => \/ S[m] = S[m + 1]
                                       \/ Cardinality(S[m + 1]) >= m + 1}
<1>1. ASSUME NEW m \in 0..c
      PROVE  /\ IsFiniteSet(S[m]) /\ IsFiniteSet(S[m + 1])
             /\ Cardinality(S[m]) \in Nat /\ Cardinality(S[m + 1]) \in Nat
             /\ S[m] # S[m + 1] => Cardinality(S[m]) < Cardinality(S[m + 1])
  <2>1. IsFiniteSet(S[m + 1]) /\ S[m] \in SUBSET S[m + 1]
    BY FS_Subset
  <2>2. IsFiniteSet(S[m]) /\ Cardinality(S[m]) <= Cardinality(S[m + 1])
        /\ (Cardinality(S[m + 1]) = Cardinality(S[m]) => S[m + 1] = S[m])
    BY <2>1, FS_Subset
  <2>3. Cardinality(S[m]) \in Nat /\ Cardinality(S[m + 1]) \in Nat
    BY <2>1, <2>2, FS_CardinalityType
  <2> QED
    BY <2>1, <2>2, <2>3
<1>2. 0 \in T
  <2>1. 0 \in 0..c
    OBVIOUS
  <2>2. S[0] # S[0 + 1] => Cardinality(S[0 + 1]) >= 0 + 1
    BY <1>1, <2>1
  <2> QED
    BY <2>2
<1>3. ASSUME NEW m \in T PROVE m + 1 \in T
  <2>1. m \in Nat
    OBVIOUS
  <2>2. ASSUME m + 1 <= c, S[m + 1] # S[(m + 1) + 1]
        PROVE  Cardinality(S[(m + 1) + 1]) >= (m + 1) + 1
    <3>1. m \in 0..c /\ m + 1 \in 0..c /\ m + 1 \in 1..c /\ (m + 1) - 1 = m
      BY <2>1, <2>2
    <3>2. S[m] # S[m + 1]
      BY <2>2, <3>1
    <3>3. Cardinality(S[m + 1]) >= m + 1
      BY <3>1, <3>2
    <3>4. Cardinality(S[m + 1]) \in Nat /\ Cardinality(S[(m + 1) + 1]) \in Nat
          /\ Cardinality(S[m + 1]) < Cardinality(S[(m + 1) + 1])
      BY <1>1, <2>2, <3>1
    <3> QED
      BY <2>1, <3>3, <3>4
  <2> QED
    BY <2>1, <2>2
<1>4. c \in T
  <2>1. T \in SUBSET Nat
    OBVIOUS
  <2> HIDE DEF T
  <2>2. T = Nat
    BY <1>2, <1>3, <2>1, SetInduction
  <2> QED
    BY <2>2
<1>5. c \in 0..c /\ S[c + 1] \in SUBSET U
  OBVIOUS
<1>6. Cardinality(S[c + 1]) <= Cardinality(U) /\ Cardinality(U) \in Nat
      /\ Cardinality(S[c + 1]) \in Nat
  BY <1>1, <1>5, FS_Subset, FS_CardinalityType
<1>7. S[c] = S[c + 1] \/ Cardinality(S[c + 1]) >= c + 1
  BY <1>4
<1> QED
  BY <1>6, <1>7

\* A function whose lists are lists, and whose blocks are valid.
has_valid_blocks(g) ==
    /\ g.blocks \in Seq(Range(g.blocks))
    /\ \A n \in DOMAIN g.blocks : g.blocks[n].insts \in Seq(Range(g.blocks[n].insts))
    /\ blocks_are_valid(g)

\* Control can go from block x to block y.
flows(g, x, y) ==
    \E j \in DOMAIN g.blocks : g.blocks[j].id = x /\ y \in successors(g.blocks[j].term)

\* What blocks_are_valid says of the blocks.
LEMMA ValidBlocks ==
    ASSUME NEW g, has_valid_blocks(g)
    PROVE  /\ Len(g.blocks) \in Nat \ {0} /\ DOMAIN g.blocks = 1..Len(g.blocks)
           /\ g.entry \in block_ids(g)
           /\ \A j \in DOMAIN g.blocks : /\ g.blocks[j].id \in block_ids(g)
                                         /\ successors(g.blocks[j].term) \subseteq block_ids(g)
                                         /\ try_block(g, g.blocks[j].id) = g.blocks[j]
                                         /\ Len(g.blocks[j].insts) \in Nat
                                         /\ DOMAIN g.blocks[j].insts = 1..Len(g.blocks[j].insts)
           /\ \A j, m \in DOMAIN g.blocks : g.blocks[j].id = g.blocks[m].id => j = m
           /\ \A x, y : flows(g, x, y) => x \in block_ids(g) /\ y \in block_ids(g)
<1>1. g.blocks \in Seq(Range(g.blocks)) /\ blocks_are_valid(g)
  BY DEF has_valid_blocks
<1>2. Len(g.blocks) \in Nat \ {0} /\ DOMAIN g.blocks = 1..Len(g.blocks)
  BY <1>1 DEF blocks_are_valid
<1>3. /\ \A j, m \in DOMAIN g.blocks : g.blocks[j].id = g.blocks[m].id => j = m
      /\ g.entry \in block_ids(g)
      /\ \A j \in DOMAIN g.blocks : /\ g.blocks[j].id \in block_ids(g)
                                    /\ successors(g.blocks[j].term) \subseteq block_ids(g)
  BY <1>1 DEF blocks_are_valid, block_ids
<1>4. ASSUME NEW j \in DOMAIN g.blocks PROVE try_block(g, g.blocks[j].id) = g.blocks[j]
  <2> DEFINE first(m) == /\ g.blocks[m].id = g.blocks[j].id
                         /\ \A q \in 1..(m - 1) : g.blocks[q].id # g.blocks[j].id
  <2>1. first(j)
    BY <1>2, <1>3
  <2>2. \A m \in DOMAIN g.blocks : first(m) => m = j
    BY <1>3
  <2> HIDE DEF first
  <2>3. (CHOOSE m \in DOMAIN g.blocks : first(m)) = j
    BY <2>1, <2>2
  <2> QED
    BY <2>3 DEF try_block, first
<1>5. \A x, y : flows(g, x, y) => x \in block_ids(g) /\ y \in block_ids(g)
  BY <1>3 DEF flows
<1>6. \A j \in DOMAIN g.blocks : /\ Len(g.blocks[j].insts) \in Nat
                                 /\ DOMAIN g.blocks[j].insts = 1..Len(g.blocks[j].insts)
  BY DEF has_valid_blocks
<1> QED
  BY <1>2, <1>3, <1>4, <1>5, <1>6

\* There are no more ids than blocks.
LEMMA FewIds ==
    ASSUME NEW g, has_valid_blocks(g), NEW d \in block_ids(g)
    PROVE  /\ IsFiniteSet(block_ids(g) \ {d})
           /\ Cardinality(block_ids(g) \ {d}) <= Len(g.blocks) - 1
<1> DEFINE n == Len(g.blocks)
           h == [j \in 1..n |-> g.blocks[j].id]
<1>1. n \in Nat /\ DOMAIN g.blocks = 1..n
  BY ValidBlocks
<1>2. h \in Surjection(1..n, block_ids(g))
  BY <1>1 DEF Surjection, block_ids
<1> HIDE DEF n, h
<1>3. IsFiniteSet(1..n) /\ Cardinality(1..n) = n
  BY <1>1, FS_Interval
<1>4. IsFiniteSet(block_ids(g)) /\ Cardinality(block_ids(g)) <= n
  BY <1>2, <1>3, FS_Surjection
<1>5. Cardinality(block_ids(g)) \in Nat
  BY <1>4, FS_CardinalityType
<1>6. IsFiniteSet(block_ids(g) \ {d})
      /\ Cardinality(block_ids(g) \ {d}) = Cardinality(block_ids(g)) - 1
  BY <1>4, FS_RemoveElement
<1> QED
  BY <1>1, <1>4, <1>5, <1>6 DEF n
-----------------------------------------------------------------------------
(* compute_dominators.                                                     *)

\* What a pass computes for block id.
next_of(g, D, id) ==
    LET p == build_predecessors(g)[id]
    IN  {d \in block_ids(g) : p # {} /\ \A q \in p : d \in D[q]} \cup {id}

\* The visit of the m-th block, the visits of a pass, and the passes.
visit_dom(g, D, m) ==
    IF g.blocks[m].id = g.entry THEN D
    ELSE [D EXCEPT ![g.blocks[m].id] = next_of(g, D, g.blocks[m].id)]

dom_visits(g, D, a, n) ==
    a = [m \in 0..n |-> IF m = 0 THEN D ELSE visit_dom(g, a[m - 1], m)]

all_dominate(g) == [id \in block_ids(g) |-> IF id = g.entry THEN {id} ELSE block_ids(g)]

dom_passes(g, a, n) ==
    a = [m \in 0..n |-> IF m = 0 THEN all_dominate(g) ELSE dominator_sweep(g, a[m - 1])]

\* The recursion of dominator_sweep defines it.
LEMMA DominatorSweepEquation ==
    ASSUME NEW g, NEW D, NEW n \in Nat, n = Len(g.blocks)
    PROVE  \E a : dom_visits(g, D, a, n) /\ dominator_sweep(g, D) = a[n]
<1> DEFINE T == {z \in Nat : \E a : dom_visits(g, D, a, z)}
<1>1. 0 \in T
  <2> DEFINE a == [m \in 0..0 |-> D]
  <2>1. dom_visits(g, D, a, 0)
    BY DEF dom_visits
  <2> HIDE DEF a
  <2> QED
    BY <2>1
<1>2. ASSUME NEW z \in T PROVE z + 1 \in T
  <2>1. PICK b : dom_visits(g, D, b, z)
    OBVIOUS
  <2> DEFINE a == [m \in 0..(z + 1) |-> IF m <= z THEN b[m] ELSE visit_dom(g, b[z], z + 1)]
  <2>2. z \in Nat
    OBVIOUS
  <2>3. ASSUME NEW m \in 0..(z + 1)
        PROVE  a[m] = IF m = 0 THEN D ELSE visit_dom(g, a[m - 1], m)
    <3>1. CASE m <= z
      <4>1. m \in 0..z /\ a[m] = b[m] /\ (m # 0 => a[m - 1] = b[m - 1])
        BY <2>2, <3>1
      <4> HIDE DEF a
      <4> QED
        BY <2>1, <4>1 DEF dom_visits
    <3>2. CASE m = z + 1
      <4>1. m # 0 /\ m - 1 = z /\ a[m] = visit_dom(g, b[z], z + 1) /\ a[z] = b[z]
        BY <2>2, <3>2
      <4> HIDE DEF a
      <4> QED
        BY <3>2, <4>1
    <3> QED
      BY <2>2, <3>1, <3>2
  <2>4. a = [m \in 0..(z + 1) |-> a[m]]
    OBVIOUS
  <2> HIDE DEF a
  <2>5. dom_visits(g, D, a, z + 1)
    BY <2>3, <2>4 DEF dom_visits
  <2> QED
    BY <2>2, <2>5
<1>3. T = Nat
  <2>1. T \in SUBSET Nat
    OBVIOUS
  <2> HIDE DEF T
  <2> QED
    BY <1>1, <1>2, <2>1, SetInduction
<1>4. \E a : dom_visits(g, D, a, n)
  BY <1>3
<1> DEFINE chain == CHOOSE a : dom_visits(g, D, a, n)
<1>5. dom_visits(g, D, chain, n)
  BY <1>4
<1>6. dominator_sweep(g, D) = chain[n]
  BY DEF dominator_sweep, dom_visits, visit_dom, next_of
<1> QED
  BY <1>5, <1>6

\* The recursion of compute_dominators defines it.
LEMMA DominatorsEquation ==
    ASSUME NEW g, NEW n \in Nat, n = Len(g.blocks)
    PROVE  \E a : dom_passes(g, a, n) /\ compute_dominators(g) = a[n]
<1> DEFINE T == {z \in Nat : \E a : dom_passes(g, a, z)}
<1>1. 0 \in T
  <2> DEFINE a == [m \in 0..0 |-> all_dominate(g)]
  <2>1. dom_passes(g, a, 0)
    BY DEF dom_passes
  <2> HIDE DEF a
  <2> QED
    BY <2>1
<1>2. ASSUME NEW z \in T PROVE z + 1 \in T
  <2>1. PICK b : dom_passes(g, b, z)
    OBVIOUS
  <2> DEFINE a == [m \in 0..(z + 1) |-> IF m <= z THEN b[m] ELSE dominator_sweep(g, b[z])]
  <2>2. z \in Nat
    OBVIOUS
  <2>3. ASSUME NEW m \in 0..(z + 1)
        PROVE  a[m] = IF m = 0 THEN all_dominate(g) ELSE dominator_sweep(g, a[m - 1])
    <3>1. CASE m <= z
      <4>1. m \in 0..z /\ a[m] = b[m] /\ (m # 0 => a[m - 1] = b[m - 1])
        BY <2>2, <3>1
      <4> HIDE DEF a
      <4> QED
        BY <2>1, <4>1 DEF dom_passes
    <3>2. CASE m = z + 1
      <4>1. m # 0 /\ m - 1 = z /\ a[m] = dominator_sweep(g, b[z]) /\ a[z] = b[z]
        BY <2>2, <3>2
      <4> HIDE DEF a
      <4> QED
        BY <3>2, <4>1
    <3> QED
      BY <2>2, <3>1, <3>2
  <2>4. a = [m \in 0..(z + 1) |-> a[m]]
    OBVIOUS
  <2> HIDE DEF a
  <2>5. dom_passes(g, a, z + 1)
    BY <2>3, <2>4 DEF dom_passes
  <2> QED
    BY <2>2, <2>5
<1>3. T = Nat
  <2>1. T \in SUBSET Nat
    OBVIOUS
  <2> HIDE DEF T
  <2> QED
    BY <1>1, <1>2, <2>1, SetInduction
<1>4. \E a : dom_passes(g, a, n)
  BY <1>3
<1> DEFINE chain == CHOOSE a : dom_passes(g, a, n)
<1>5. dom_passes(g, chain, n)
  BY <1>4
<1>6. compute_dominators(g) = chain[n]
  BY DEF compute_dominators, dom_passes, all_dominate
<1> QED
  BY <1>5, <1>6

\* The maps from blocks to blocks the passes go through.
dom_maps(g) ==
    {D \in [block_ids(g) -> SUBSET block_ids(g)] :
        /\ D[g.entry] = {g.entry}
        /\ \A b \in block_ids(g) : b \in D[b]}

\* Maps a pass has nothing to change in.
dom_fixed(g, D) == \A b \in block_ids(g) \ {g.entry} : D[b] = next_of(g, D, b)

\* What a pass computes, in terms of the edges.
LEMMA NextOf ==
    ASSUME NEW g, NEW D, NEW b \in block_ids(g)
    PROVE  next_of(g, D, b) =
             {d \in block_ids(g) :
                 /\ \E p \in block_ids(g) : flows(g, p, b)
                 /\ \A p \in block_ids(g) : flows(g, p, b) => d \in D[p]} \cup {b}
<1> DEFINE P == {p \in block_ids(g) : flows(g, p, b)}
<1>1. build_predecessors(g)[b] = P
  BY DEF build_predecessors, flows, block_ids
<1> QED
  BY <1>1 DEF next_of

\* A visit keeps the map one, and respects that one has more than another.
LEMMA VisitDom ==
    ASSUME NEW g, has_valid_blocks(g), NEW m \in DOMAIN g.blocks, NEW D \in dom_maps(g)
    PROVE  /\ visit_dom(g, D, m) \in dom_maps(g)
           /\ \A E \in dom_maps(g), d \in block_ids(g) :
                 (\A b \in block_ids(g) : d \in D[b] => d \in E[b])
                   => \A b \in block_ids(g) : d \in visit_dom(g, D, m)[b]
                                                => d \in visit_dom(g, E, m)[b]
<1> DEFINE ids == block_ids(g)
           id == g.blocks[m].id
<1>1. id \in ids /\ g.entry \in ids
  BY ValidBlocks
<1>2. \A E \in dom_maps(g) : /\ E \in [ids -> SUBSET ids] /\ E[g.entry] = {g.entry}
                             /\ \A b \in ids : b \in E[b]
  BY DEF dom_maps
<1>3. \A E : next_of(g, E, id) \in SUBSET ids /\ id \in next_of(g, E, id)
  BY <1>1, NextOf
<1> HIDE DEF id
<1>4. \A E \in dom_maps(g) :
        \A b \in ids : visit_dom(g, E, m)[b] =
            IF b = id /\ id # g.entry THEN next_of(g, E, id) ELSE E[b]
  BY <1>1, <1>2 DEF visit_dom, id
<1>5. visit_dom(g, D, m) \in [ids -> SUBSET ids]
  <2>1. CASE id = g.entry
    BY <1>2, <2>1 DEF visit_dom, id
  <2>2. CASE id # g.entry
    <3>1. visit_dom(g, D, m) = [D EXCEPT ![id] = next_of(g, D, id)]
      BY <2>2 DEF visit_dom, id
    <3> QED
      BY <1>2, <1>3, <3>1
  <2> QED
    BY <2>1, <2>2
<1>6. visit_dom(g, D, m) \in dom_maps(g)
  <2>1. visit_dom(g, D, m)[g.entry] = {g.entry}
    BY <1>1, <1>2, <1>4
  <2>2. \A b \in ids : b \in visit_dom(g, D, m)[b]
    BY <1>2, <1>3, <1>4
  <2> QED
    BY <1>5, <2>1, <2>2 DEF dom_maps
<1>7. ASSUME NEW E \in dom_maps(g), NEW d \in ids,
             \A b \in ids : d \in D[b] => d \in E[b],
             NEW b \in ids, d \in visit_dom(g, D, m)[b]
      PROVE  d \in visit_dom(g, E, m)[b]
  <2>1. d \in next_of(g, D, id) => d \in next_of(g, E, id)
    BY <1>1, <1>7, NextOf
  <2> QED
    BY <1>4, <1>7, <2>1
<1> QED
  BY <1>6, <1>7

\* So does a pass.
LEMMA DominatorSweep ==
    ASSUME NEW g, has_valid_blocks(g), NEW D \in dom_maps(g)
    PROVE  /\ dominator_sweep(g, D) \in dom_maps(g)
           /\ \A E \in dom_maps(g), d \in block_ids(g) :
                 (\A b \in block_ids(g) : d \in D[b] => d \in E[b])
                   => \A b \in block_ids(g) : d \in dominator_sweep(g, D)[b]
                                                => d \in dominator_sweep(g, E)[b]
<1> DEFINE ids == block_ids(g)
           n == Len(g.blocks)
<1>1. n \in Nat /\ DOMAIN g.blocks = 1..n
  BY ValidBlocks
<1>2. ASSUME NEW E \in dom_maps(g), NEW d \in ids, \A b \in ids : d \in D[b] => d \in E[b]
      PROVE  /\ dominator_sweep(g, D) \in dom_maps(g)
             /\ \A b \in ids : d \in dominator_sweep(g, D)[b] => d \in dominator_sweep(g, E)[b]
  <2>1. PICK a : dom_visits(g, D, a, n) /\ dominator_sweep(g, D) = a[n]
    BY <1>1, DominatorSweepEquation
  <2>2. PICK e : dom_visits(g, E, e, n) /\ dominator_sweep(g, E) = e[n]
    BY <1>1, DominatorSweepEquation
  <2>3. \A m \in 0..n : /\ a[m] = IF m = 0 THEN D ELSE visit_dom(g, a[m - 1], m)
                        /\ e[m] = IF m = 0 THEN E ELSE visit_dom(g, e[m - 1], m)
    BY <2>1, <2>2 DEF dom_visits
  <2> DEFINE good(m) == /\ a[m] \in dom_maps(g) /\ e[m] \in dom_maps(g)
                        /\ \A b \in ids : d \in a[m][b] => d \in e[m][b]
             T == {m \in Nat : m <= n => good(m)}
  <2>4. good(0)
    <3>1. a[0] = D /\ e[0] = E
      BY <1>1, <2>3
    <3> QED
      BY <1>2, <3>1
  <2>5. ASSUME NEW m \in Nat, m + 1 <= n, good(m) PROVE good(m + 1)
    <3>1. m + 1 \in 0..n /\ m + 1 # 0 /\ (m + 1) - 1 = m /\ m + 1 \in DOMAIN g.blocks
      BY <1>1, <2>5
    <3>2. a[m + 1] = visit_dom(g, a[m], m + 1) /\ e[m + 1] = visit_dom(g, e[m], m + 1)
      BY <2>3, <3>1
    <3>3. a[m + 1] \in dom_maps(g) /\ e[m + 1] \in dom_maps(g)
      BY <2>5, <3>1, <3>2, VisitDom
    <3>4. \A b \in ids : d \in a[m + 1][b] => d \in e[m + 1][b]
      BY <2>5, <3>1, <3>2, VisitDom
    <3> QED
      BY <3>3, <3>4
  <2> HIDE DEF good
  <2>6. n \in T
    <3>1. T \in SUBSET Nat /\ 0 \in T
      BY <2>4
    <3>2. \A m \in T : m + 1 \in T
      <4> TAKE m \in T
      <4>1. m \in Nat /\ (m <= n => good(m))
        OBVIOUS
      <4>2. m + 1 <= n => good(m + 1)
        BY <1>1, <2>5, <4>1
      <4> QED
        BY <4>1, <4>2
    <3> HIDE DEF T
    <3>3. T = Nat
      BY <3>1, <3>2, SetInduction
    <3> QED
      BY <1>1, <3>3
  <2>7. good(n)
    BY <1>1, <2>6
  <2> QED
    BY <2>1, <2>2, <2>7 DEF good
<1>3. dominator_sweep(g, D) \in dom_maps(g)
  <2>1. g.entry \in ids
    BY ValidBlocks
  <2> QED
    BY <1>2, <2>1
<1> QED
  BY <1>2, <1>3

\* A pass over a map with nothing to change gives it back, and no other pass
\* does: no block is visited twice in a pass.
LEMMA DominatorSweepFixed ==
    ASSUME NEW g, has_valid_blocks(g), NEW D \in dom_maps(g)
    PROVE  dominator_sweep(g, D) = D <=> dom_fixed(g, D)
<1> DEFINE ids == block_ids(g)
           n == Len(g.blocks)
           id(m) == g.blocks[m].id
<1>1. /\ n \in Nat /\ DOMAIN g.blocks = 1..n
      /\ \A m \in 1..n : id(m) \in ids
      /\ \A m, j \in 1..n : id(m) = id(j) => m = j
      /\ \A b \in ids : \E m \in 1..n : b = id(m)
  BY ValidBlocks DEF block_ids
<1>2. PICK a : dom_visits(g, D, a, n) /\ dominator_sweep(g, D) = a[n]
  BY <1>1, DominatorSweepEquation
<1>3. /\ a[0] = D
      /\ \A m \in 1..n : a[m] = visit_dom(g, a[m - 1], m)
  <2>1. a = [m \in 0..n |-> IF m = 0 THEN D ELSE visit_dom(g, a[m - 1], m)]
    BY ONLY <1>2 DEF dom_visits
  <2>2. n \in Nat
    BY <1>1
  <2> HIDE DEF n
  <2>3. 0 \in 0..n /\ \A m \in 1..n : m \in 0..n /\ m # 0
    BY ONLY <2>2
  <2>4. \A m \in 0..n : a[m] = IF m = 0 THEN D ELSE visit_dom(g, a[m - 1], m)
    BY ONLY <2>1
  <2> QED
    BY ONLY <2>3, <2>4
<1>4. D \in [ids -> SUBSET ids]
  BY DEF dom_maps
<1>5. \A E \in dom_maps(g), m \in 1..n : visit_dom(g, E, m) \in dom_maps(g)
  BY <1>1, VisitDom
<1>6. \A E \in dom_maps(g), m \in 1..n, b \in ids :
        visit_dom(g, E, m)[b] = IF b = id(m) /\ b # g.entry THEN next_of(g, E, b) ELSE E[b]
  BY <1>1 DEF dom_maps, visit_dom
<1> HIDE DEF n, id
<1>7. ASSUME dom_fixed(g, D) PROVE dominator_sweep(g, D) = D
  <2> DEFINE T == {m \in Nat : m <= n => a[m] = D}
  <2>1. 0 \in T /\ T \in SUBSET Nat
    BY <1>3
  <2>2. \A m \in T : m + 1 \in T
    <3> SUFFICES ASSUME NEW m \in Nat, m + 1 <= n, a[m] = D PROVE a[m + 1] = D
      BY <1>1
    <3>1. m + 1 \in 1..n /\ (m + 1) - 1 = m
      BY <1>1
    <3>2. a[m + 1] = visit_dom(g, D, m + 1) /\ visit_dom(g, D, m + 1) \in dom_maps(g)
      BY <1>3, <1>5, <3>1
    <3>3. \A b \in ids : visit_dom(g, D, m + 1)[b] = D[b]
      BY <1>6, <1>7, <3>1 DEF dom_fixed
    <3>4. visit_dom(g, D, m + 1) \in [ids -> SUBSET ids]
      BY <3>2 DEF dom_maps
    <3> QED
      BY <1>4, <3>2, <3>3, <3>4
  <2> HIDE DEF T
  <2>3. T = Nat
    BY <2>1, <2>2, SetInduction
  <2> QED
    BY <1>1, <1>2, <2>3 DEF T
<1>8. ASSUME dominator_sweep(g, D) = D PROVE dom_fixed(g, D)
  <2>1. \A m \in 0..n : a[m] \in dom_maps(g)
    <3> DEFINE T == {m \in Nat : m <= n => a[m] \in dom_maps(g)}
    <3>1. 0 \in T /\ T \in SUBSET Nat
      BY <1>3
    <3>2. \A m \in T : m + 1 \in T
      <4> SUFFICES ASSUME NEW m \in Nat, m + 1 <= n, a[m] \in dom_maps(g)
                   PROVE  a[m + 1] \in dom_maps(g)
        BY <1>1
      <4>1. m + 1 \in 1..n /\ (m + 1) - 1 = m
        BY <1>1
      <4> QED
        BY <1>3, <1>5, <4>1
    <3> HIDE DEF T
    <3>3. T = Nat
      BY <3>1, <3>2, SetInduction
    <3> QED
      BY <1>1, <3>3 DEF T
  <2>2. ASSUME NEW j \in 1..n PROVE a[n][id(j)] = a[j][id(j)]
    <3> DEFINE T == {m \in Nat : j <= m /\ m <= n => a[m][id(j)] = a[j][id(j)]}
    <3>1. 0 \in T /\ T \in SUBSET Nat
      BY <1>1, <2>2
    <3>2. \A m \in T : m + 1 \in T
      <4> SUFFICES ASSUME NEW m \in Nat, m + 1 <= n, j <= m + 1,
                          j <= m => a[m][id(j)] = a[j][id(j)]
                   PROVE  a[m + 1][id(j)] = a[j][id(j)]
        BY <1>1
      <4>1. CASE j = m + 1
        BY <4>1
      <4>2. CASE j # m + 1
        <5>1. j <= m /\ m + 1 \in 1..n /\ (m + 1) - 1 = m /\ m \in 0..n
          BY <1>1, <2>2, <4>2
        <5>2. id(m + 1) # id(j) /\ id(j) \in ids
          BY <1>1, <4>2, <5>1
        <5>3. a[m + 1] = visit_dom(g, a[m], m + 1) /\ a[m] \in dom_maps(g)
          BY <1>3, <2>1, <5>1
        <5>4. visit_dom(g, a[m], m + 1)[id(j)] = a[m][id(j)]
          BY <1>6, <5>1, <5>2, <5>3
        <5> QED
          BY <5>1, <5>3, <5>4
      <4> QED
        BY <4>1, <4>2
    <3> HIDE DEF T
    <3>3. T = Nat
      BY <3>1, <3>2, SetInduction
    <3>4. n \in T /\ j <= n
      BY <1>1, <2>2, <3>3
    <3> QED
      BY <1>1, <3>4 DEF T
  <2> DEFINE T == {m \in Nat : m <= n => a[m] = D}
  <2>3. ASSUME NEW m \in Nat, m + 1 <= n, a[m] = D
        PROVE  /\ a[m + 1] = D
               /\ id(m + 1) # g.entry => D[id(m + 1)] = next_of(g, D, id(m + 1))
    <3>1. m + 1 \in 1..n /\ (m + 1) - 1 = m /\ m + 1 \in 0..n
      BY <1>1, <2>3
    <3>2. a[m + 1] = visit_dom(g, D, m + 1) /\ id(m + 1) \in ids
      BY <1>1, <1>3, <2>3, <3>1
    <3>3. a[m + 1][id(m + 1)] = D[id(m + 1)]
      BY <1>2, <1>8, <2>2, <3>1
    <3>4. id(m + 1) # g.entry => D[id(m + 1)] = next_of(g, D, id(m + 1))
      BY <1>6, <3>1, <3>2, <3>3
    <3>5. \A b \in ids : a[m + 1][b] = D[b]
      BY <1>6, <3>1, <3>2, <3>4
    <3>6. a[m + 1] \in [ids -> SUBSET ids]
      BY <2>1, <3>1 DEF dom_maps
    <3> QED
      BY <1>4, <3>4, <3>5, <3>6
  <2>4. T = Nat
    <3>1. 0 \in T /\ T \in SUBSET Nat
      BY <1>3
    <3>2. \A m \in T : m + 1 \in T
      BY <1>1, <2>3
    <3> HIDE DEF T
    <3> QED
      BY <3>1, <3>2, SetInduction
  <2>5. ASSUME NEW j \in 1..n, id(j) # g.entry PROVE D[id(j)] = next_of(g, D, id(j))
    <3>1. j - 1 \in Nat /\ (j - 1) + 1 = j /\ j <= n /\ j - 1 <= n
      BY <1>1, <2>5
    <3>2. a[j - 1] = D
      BY <2>4, <3>1
    <3> QED
      BY <2>3, <2>5, <3>1, <3>2
  <2> QED
    BY <1>1, <2>5 DEF dom_fixed
<1> QED
  BY <1>7, <1>8

\* compute_dominators returns a map in which another pass changes nothing, and
\* the largest of them: a pass takes a candidate from one block more or it is
\* the last for it, and no candidate is taken from itself.
LEMMA DominatorsAreFixed ==
    ASSUME NEW g, has_valid_blocks(g)
    PROVE  /\ compute_dominators(g) \in dom_maps(g)
           /\ dom_fixed(g, compute_dominators(g))
           /\ \A E \in dom_maps(g) : dom_fixed(g, E) =>
                 \A b \in block_ids(g) : E[b] \subseteq compute_dominators(g)[b]
<1> DEFINE ids == block_ids(g)
           n == Len(g.blocks)
<1>1. n \in Nat \ {0} /\ g.entry \in ids
  BY ValidBlocks
<1>2. PICK a : dom_passes(g, a, n) /\ compute_dominators(g) = a[n]
  BY <1>1, DominatorsEquation
<1>3. /\ a[0] = [b \in ids |-> IF b = g.entry THEN {b} ELSE ids]
      /\ \A m \in 1..n : a[m] = dominator_sweep(g, a[m - 1])
  <2>1. \A m \in 0..n :
          a[m] = IF m = 0 THEN all_dominate(g) ELSE dominator_sweep(g, a[m - 1])
    BY <1>2 DEF dom_passes
  <2>2. 0 \in 0..n /\ \A m \in 1..n : m \in 0..n /\ m # 0
    BY <1>1
  <2> HIDE DEF n
  <2> QED
    BY <2>1, <2>2 DEF all_dominate
<1> HIDE DEF n
<1>4. a[0] \in dom_maps(g)
  BY <1>1, <1>3 DEF dom_maps
<1>5. ASSUME NEW E \in dom_maps(g), dom_fixed(g, E)
      PROVE  \A m \in 0..n : /\ a[m] \in dom_maps(g)
                             /\ \A b \in ids : E[b] \subseteq a[m][b]
  <2> DEFINE T == {m \in Nat : m <= n => /\ a[m] \in dom_maps(g)
                                         /\ \A b \in ids : E[b] \subseteq a[m][b]}
  <2>1. 0 \in T /\ T \in SUBSET Nat
    <3>1. \A b \in ids : E[b] \subseteq a[0][b]
      BY <1>3, <1>5 DEF dom_maps
    <3> QED
      BY <1>4, <3>1
  <2>2. \A m \in T : m + 1 \in T
    <3> SUFFICES ASSUME NEW m \in Nat, m + 1 <= n, a[m] \in dom_maps(g),
                        \A b \in ids : E[b] \subseteq a[m][b]
                 PROVE  /\ a[m + 1] \in dom_maps(g)
                        /\ \A b \in ids : E[b] \subseteq a[m + 1][b]
      BY <1>1
    <3>1. a[m + 1] = dominator_sweep(g, a[m])
      BY <1>1, <1>3
    <3>2. dominator_sweep(g, E) = E
      BY <1>5, DominatorSweepFixed
    <3>3. \A b \in ids : E[b] \in SUBSET ids
      BY DEF dom_maps
    <3>4. ASSUME NEW b \in ids, NEW d \in E[b] PROVE d \in a[m + 1][b]
      <4>1. d \in ids
        BY <3>3
      <4>2. \A c \in ids : d \in E[c] => d \in a[m][c]
        OBVIOUS
      <4> QED
        BY <3>1, <3>2, <4>1, <4>2, DominatorSweep
    <3> QED
      BY <3>1, <3>4, DominatorSweep
  <2> HIDE DEF T
  <2>3. T = Nat
    BY <2>1, <2>2, SetInduction
  <2> QED
    BY <1>1, <2>3 DEF T
<1>6. ASSUME NEW m \in Nat
      PROVE  m + 1 <= n => /\ a[m] \in dom_maps(g) /\ a[m + 1] \in dom_maps(g)
                           /\ \A b \in ids : a[m + 1][b] \subseteq a[m][b]
  <2> DEFINE T == {j \in Nat : j + 1 <= n => /\ a[j] \in dom_maps(g) /\ a[j + 1] \in dom_maps(g)
                                             /\ \A b \in ids : a[j + 1][b] \subseteq a[j][b]}
  <2>1. 0 \in T /\ T \in SUBSET Nat
    <3>1. a[0 + 1] = dominator_sweep(g, a[0])
      BY <1>1, <1>3
    <3>2. a[0 + 1] \in dom_maps(g)
      BY <1>4, <3>1, DominatorSweep
    <3>3. \A b \in ids : a[0 + 1][b] \subseteq a[0][b]
      BY <1>3, <3>2 DEF dom_maps
    <3> QED
      BY <1>4, <3>2, <3>3
  <2>2. \A j \in T : j + 1 \in T
    <3> SUFFICES ASSUME NEW j \in Nat, (j + 1) + 1 <= n,
                        a[j] \in dom_maps(g), a[j + 1] \in dom_maps(g),
                        \A b \in ids : a[j + 1][b] \subseteq a[j][b]
                 PROVE  /\ a[(j + 1) + 1] \in dom_maps(g)
                        /\ \A b \in ids : a[(j + 1) + 1][b] \subseteq a[j + 1][b]
      BY <1>1
    <3>1. a[(j + 1) + 1] = dominator_sweep(g, a[j + 1]) /\ a[j + 1] = dominator_sweep(g, a[j])
      BY <1>1, <1>3
    <3>2. a[(j + 1) + 1] \in dom_maps(g)
      BY <3>1, DominatorSweep
    <3>3. ASSUME NEW b \in ids, NEW d \in a[(j + 1) + 1][b] PROVE d \in a[j + 1][b]
      <4>1. d \in ids
        BY <3>2 DEF dom_maps
      <4>2. \A c \in ids : d \in a[j + 1][c] => d \in a[j][c]
        OBVIOUS
      <4> QED
        BY <3>1, <4>1, <4>2, DominatorSweep
    <3> QED
      BY <3>2, <3>3
  <2> HIDE DEF T
  <2>3. T = Nat
    BY <2>1, <2>2, SetInduction
  <2> QED
    BY <2>3 DEF T
<1>7. ASSUME NEW d \in ids PROVE \A b \in ids : d \in a[n - 1][b] <=> d \in a[n][b]
  <2> DEFINE S == [m \in 0..n |-> {b \in ids : d \notin a[m][b]}]
             U == ids \ {d}
             c == n - 1
  <2>1. c \in Nat /\ c + 1 = n /\ IsFiniteSet(U) /\ Cardinality(U) <= c
    BY <1>1, FewIds DEF n
  <2>2. \A m \in 0..n : S[m] = {b \in ids : d \notin a[m][b]}
    OBVIOUS
  <2> HIDE DEF S, c
  <2>3. ASSUME NEW m \in 0..c PROVE S[m] \subseteq S[m + 1] /\ S[m + 1] \subseteq U
    <3>1. m \in Nat /\ m + 1 <= n /\ m \in 0..n /\ m + 1 \in 0..n
      BY <1>1, <2>1
    <3>2. a[m + 1] \in dom_maps(g) /\ \A b \in ids : a[m + 1][b] \subseteq a[m][b]
      BY <1>6, <3>1
    <3>3. d \in a[m + 1][d]
      BY <3>2 DEF dom_maps
    <3> QED
      BY <2>2, <3>1, <3>2, <3>3
  <2>4. ASSUME NEW m \in 1..c, S[m - 1] = S[m] PROVE S[m] = S[m + 1]
    <3>1. /\ m - 1 \in Nat /\ (m - 1) + 1 = m /\ m - 1 \in 0..n
          /\ m \in Nat /\ m \in 0..n /\ m + 1 \in 0..n /\ m \in 1..n /\ m + 1 \in 1..n
          /\ (m + 1) - 1 = m /\ m <= n
      BY <1>1, <2>1
    <3>2. a[m - 1] \in dom_maps(g) /\ a[m] \in dom_maps(g)
      BY <1>6, <3>1
    <3>3. a[m] = dominator_sweep(g, a[m - 1]) /\ a[m + 1] = dominator_sweep(g, a[m])
      BY <1>3, <3>1
    <3>4. \A b \in ids : d \in a[m - 1][b] <=> d \in a[m][b]
      BY <2>2, <2>4, <3>1
    <3>5. \A b \in ids : d \in a[m][b] => d \in a[m + 1][b]
      BY <3>2, <3>3, <3>4, DominatorSweep
    <3>6. \A b \in ids : d \in a[m + 1][b] => d \in a[m][b]
      BY <3>2, <3>3, <3>4, DominatorSweep
    <3> QED
      BY <2>2, <3>1, <3>5, <3>6
  <2> HIDE DEF U
  <2>5. S[c] = S[c + 1]
    BY <2>1, <2>3, <2>4, ChainIsStable
  <2>6. c \in 0..n /\ n \in 0..n /\ c = n - 1
    BY <1>1, <2>1 DEF c
  <2> QED
    BY <2>1, <2>2, <2>5, <2>6
<1>8. n - 1 \in Nat /\ (n - 1) + 1 <= n /\ (n - 1) + 1 = n /\ n \in 1..n /\ n \in 0..n
  BY <1>1
<1>9. a[n - 1] \in dom_maps(g) /\ a[n] \in dom_maps(g)
  BY <1>6, <1>8
<1>10. a[n - 1] = a[n]
  <2>1. a[n - 1] \in [ids -> SUBSET ids] /\ a[n] \in [ids -> SUBSET ids]
    BY <1>9 DEF dom_maps
  <2>2. ASSUME NEW b \in ids PROVE a[n - 1][b] = a[n][b]
    <3>1. a[n - 1][b] \in SUBSET ids /\ a[n][b] \in SUBSET ids
      BY ONLY <2>1, b \in ids
    <3>2. \A d \in ids : d \in a[n - 1][b] <=> d \in a[n][b]
      BY ONLY <1>7, b \in ids
    <3> QED
      BY ONLY <3>1, <3>2
  <2> QED
    BY <2>1, <2>2
<1>11. dominator_sweep(g, a[n]) = a[n]
  BY <1>3, <1>8, <1>10
<1>12. dom_fixed(g, a[n])
  BY <1>9, <1>11, DominatorSweepFixed
<1>13. \A E \in dom_maps(g) : dom_fixed(g, E) => \A b \in ids : E[b] \subseteq a[n][b]
  BY <1>5, <1>8
<1> QED
  BY <1>2, <1>9, <1>12, <1>13

-----------------------------------------------------------------------------
(* compute_liveness.                                                       *)

\* The visit of the m-th block, the visits of a pass from the last block to
\* the first, and the passes.
visit_live(g, l, m) ==
    LET block == g.blocks[m]
        out == live_out_of(g, l.live_in, block)
    IN  [live_in  |-> [l.live_in EXCEPT ![block.id] = live_in_of(block, out)],
         live_out |-> [l.live_out EXCEPT ![block.id] = out]]

back(g, m) == Len(g.blocks) + 1 - m

live_visits(g, l, a, n) ==
    a = [m \in 0..n |-> IF m = 0 THEN l ELSE visit_live(g, a[m - 1], back(g, m))]

none_live(g) ==
    [live_in |-> [id \in block_ids(g) |-> {}], live_out |-> [id \in block_ids(g) |-> {}]]

live_passes(g, a, n) ==
    a = [m \in 0..n |-> IF m = 0 THEN none_live(g) ELSE liveness_sweep(g, a[m - 1])]

\* The recursion of liveness_sweep defines it.
LEMMA LivenessSweepEquation ==
    ASSUME NEW g, NEW l, NEW n \in Nat, n = Len(g.blocks)
    PROVE  \E a : live_visits(g, l, a, n) /\ liveness_sweep(g, l) = a[n]
<1> DEFINE T == {z \in Nat : \E a : live_visits(g, l, a, z)}
<1>1. 0 \in T
  <2> DEFINE a == [m \in 0..0 |-> l]
  <2>1. live_visits(g, l, a, 0)
    BY DEF live_visits
  <2> HIDE DEF a
  <2> QED
    BY <2>1
<1>2. ASSUME NEW z \in T PROVE z + 1 \in T
  <2>1. PICK b : live_visits(g, l, b, z)
    OBVIOUS
  <2> DEFINE a == [m \in 0..(z + 1) |-> IF m <= z THEN b[m] ELSE visit_live(g, b[z], back(g, z + 1))]
  <2>2. z \in Nat
    OBVIOUS
  <2>3. ASSUME NEW m \in 0..(z + 1)
        PROVE  a[m] = IF m = 0 THEN l ELSE visit_live(g, a[m - 1], back(g, m))
    <3>1. CASE m <= z
      <4>1. m \in 0..z /\ a[m] = b[m] /\ (m # 0 => a[m - 1] = b[m - 1])
        BY <2>2, <3>1
      <4> HIDE DEF a
      <4> QED
        BY <2>1, <4>1 DEF live_visits
    <3>2. CASE m = z + 1
      <4>1. m # 0 /\ m - 1 = z /\ a[m] = visit_live(g, b[z], back(g, z + 1)) /\ a[z] = b[z]
        BY <2>2, <3>2
      <4> HIDE DEF a
      <4> QED
        BY <3>2, <4>1
    <3> QED
      BY <2>2, <3>1, <3>2
  <2>4. a = [m \in 0..(z + 1) |-> a[m]]
    OBVIOUS
  <2> HIDE DEF a
  <2>5. live_visits(g, l, a, z + 1)
    BY <2>3, <2>4 DEF live_visits
  <2> QED
    BY <2>2, <2>5
<1>3. T = Nat
  <2>1. T \in SUBSET Nat
    OBVIOUS
  <2> HIDE DEF T
  <2> QED
    BY <1>1, <1>2, <2>1, SetInduction
<1>4. \E a : live_visits(g, l, a, n)
  BY <1>3
<1> DEFINE chain == CHOOSE a : live_visits(g, l, a, n)
<1>5. live_visits(g, l, chain, n)
  BY <1>4
<1>6. liveness_sweep(g, l) = chain[n]
  BY DEF liveness_sweep, live_visits, visit_live, back
<1> QED
  BY <1>5, <1>6

\* The recursion of compute_liveness defines it.
LEMMA LivenessEquation ==
    ASSUME NEW g, NEW n \in Nat, n = Len(g.blocks)
    PROVE  \E a : live_passes(g, a, n) /\ compute_liveness(g) = a[n]
<1> DEFINE T == {z \in Nat : \E a : live_passes(g, a, z)}
<1>1. 0 \in T
  <2> DEFINE a == [m \in 0..0 |-> none_live(g)]
  <2>1. live_passes(g, a, 0)
    BY DEF live_passes
  <2> HIDE DEF a
  <2> QED
    BY <2>1
<1>2. ASSUME NEW z \in T PROVE z + 1 \in T
  <2>1. PICK b : live_passes(g, b, z)
    OBVIOUS
  <2> DEFINE a == [m \in 0..(z + 1) |-> IF m <= z THEN b[m] ELSE liveness_sweep(g, b[z])]
  <2>2. z \in Nat
    OBVIOUS
  <2>3. ASSUME NEW m \in 0..(z + 1)
        PROVE  a[m] = IF m = 0 THEN none_live(g) ELSE liveness_sweep(g, a[m - 1])
    <3>1. CASE m <= z
      <4>1. m \in 0..z /\ a[m] = b[m] /\ (m # 0 => a[m - 1] = b[m - 1])
        BY <2>2, <3>1
      <4> HIDE DEF a
      <4> QED
        BY <2>1, <4>1 DEF live_passes
    <3>2. CASE m = z + 1
      <4>1. m # 0 /\ m - 1 = z /\ a[m] = liveness_sweep(g, b[z]) /\ a[z] = b[z]
        BY <2>2, <3>2
      <4> HIDE DEF a
      <4> QED
        BY <3>2, <4>1
    <3> QED
      BY <2>2, <3>1, <3>2
  <2>4. a = [m \in 0..(z + 1) |-> a[m]]
    OBVIOUS
  <2> HIDE DEF a
  <2>5. live_passes(g, a, z + 1)
    BY <2>3, <2>4 DEF live_passes
  <2> QED
    BY <2>2, <2>5
<1>3. T = Nat
  <2>1. T \in SUBSET Nat
    OBVIOUS
  <2> HIDE DEF T
  <2> QED
    BY <1>1, <1>2, <2>1, SetInduction
<1>4. \E a : live_passes(g, a, n)
  BY <1>3
<1> DEFINE chain == CHOOSE a : live_passes(g, a, n)
<1>5. live_passes(g, chain, n)
  BY <1>4
<1>6. compute_liveness(g) = chain[n]
  BY DEF compute_liveness, live_passes, none_live
<1> QED
  BY <1>5, <1>6

\* The pairs of maps the passes go through.
is_live_map(g, l) ==
    /\ l = [live_in |-> l.live_in, live_out |-> l.live_out]
    /\ l.live_in = [b \in block_ids(g) |-> l.live_in[b]]
    /\ l.live_out = [b \in block_ids(g) |-> l.live_out[b]]

\* Pairs a pass has nothing to change in.
live_stable(g, l) ==
    \A j \in DOMAIN g.blocks :
        /\ l.live_out[g.blocks[j].id] = live_out_of(g, l.live_in, g.blocks[j])
        /\ l.live_in[g.blocks[j].id] = live_in_of(g.blocks[j], l.live_out[g.blocks[j].id])

\* Every value that is read or passed on to a phi is defined in a block that
\* does not read it first.
defines_uses(g) ==
    \A v : \/ \E j \in DOMAIN g.blocks : v \in use_set(g.blocks[j])
           \/ \E p, s \in block_ids(g) : v \in phi_uses(g, p, s)
        => \E j \in DOMAIN g.blocks : v \in def_set(g.blocks[j]) /\ v \notin use_set(g.blocks[j])

\* v cannot be live on entry to a block outside X, if it is live on entry to
\* none of them before.
covers(g, v, X) ==
    \A j \in DOMAIN g.blocks :
        \/ v \in use_set(g.blocks[j])
        \/ /\ v \notin def_set(g.blocks[j])
           /\ \E s \in successors(g.blocks[j].term) :
                 \/ v \in phi_uses(g, g.blocks[j].id, s)
                 \/ s \in X /\ v \notin phi_defs(g, s)
        => g.blocks[j].id \in X

\* The blocks v is live on entry to, according to l.
entered(g, l, v) == {b \in block_ids(g) : v \in l.live_in[b]}

\* A value passed on by a block is live in a successor or read by its phis.
LEMMA LiveOut ==
    ASSUME NEW g, NEW I, NEW block, NEW v
    PROVE  v \in live_out_of(g, I, block) <=>
             \E s \in successors(block.term) : \/ v \in I[s] /\ v \notin phi_defs(g, s)
                                               \/ v \in phi_uses(g, block.id, s)
<1> DEFINE R(s) == (I[s] \ phi_defs(g, s)) \cup phi_uses(g, block.id, s)
<1>1. live_out_of(g, I, block) = UNION {R(s) : s \in successors(block.term)}
  BY DEF live_out_of
<1>2. \A s : v \in R(s) <=> \/ v \in I[s] /\ v \notin phi_defs(g, s)
                            \/ v \in phi_uses(g, block.id, s)
  OBVIOUS
<1> HIDE DEF R
<1> QED
  BY <1>1, <1>2

\* A visit keeps the maps, respects that one has more than another, and does
\* not leave a set that covers a value.
LEMMA VisitLive ==
    ASSUME NEW g, has_valid_blocks(g), NEW m \in DOMAIN g.blocks, NEW l, is_live_map(g, l)
    PROVE  /\ is_live_map(g, visit_live(g, l, m))
           /\ \A b \in block_ids(g) : b # g.blocks[m].id =>
                 /\ visit_live(g, l, m).live_in[b] = l.live_in[b]
                 /\ visit_live(g, l, m).live_out[b] = l.live_out[b]
           /\ visit_live(g, l, m).live_out[g.blocks[m].id] = live_out_of(g, l.live_in, g.blocks[m])
           /\ visit_live(g, l, m).live_in[g.blocks[m].id] =
                live_in_of(g.blocks[m], live_out_of(g, l.live_in, g.blocks[m]))
           /\ \A v, h : is_live_map(g, h) /\ entered(g, l, v) \subseteq entered(g, h, v)
                 => entered(g, visit_live(g, l, m), v) \subseteq entered(g, visit_live(g, h, m), v)
           /\ \A v, X : covers(g, v, X) /\ entered(g, l, v) \subseteq X
                 => entered(g, visit_live(g, l, m), v) \subseteq X
<1> DEFINE ids == block_ids(g)
           block == g.blocks[m]
           out(h) == live_out_of(g, h.live_in, block)
           in(h) == live_in_of(block, out(h))
<1>1. block.id \in ids /\ successors(block.term) \subseteq ids
  BY ValidBlocks
<1>2. \A h : visit_live(g, h, m) =
               [live_in  |-> [h.live_in EXCEPT ![block.id] = in(h)],
                live_out |-> [h.live_out EXCEPT ![block.id] = out(h)]]
  BY DEF visit_live
<1>3. ASSUME NEW h, NEW v
      PROVE  v \in in(h) <=>
               \/ v \in use_set(block)
               \/ /\ v \notin def_set(block)
                  /\ \E s \in successors(block.term) :
                        \/ v \in h.live_in[s] /\ v \notin phi_defs(g, s)
                        \/ v \in phi_uses(g, block.id, s)
  BY LiveOut DEF live_in_of
<1> HIDE DEF in, out, block
<1>4. ASSUME NEW h, is_live_map(g, h)
      PROVE  /\ is_live_map(g, visit_live(g, h, m))
             /\ \A b \in ids : b # block.id =>
                   /\ visit_live(g, h, m).live_in[b] = h.live_in[b]
                   /\ visit_live(g, h, m).live_out[b] = h.live_out[b]
             /\ visit_live(g, h, m).live_in[block.id] = in(h)
             /\ visit_live(g, h, m).live_out[block.id] = out(h)
  <2> DEFINE w == visit_live(g, h, m)
             I == h.live_in
             O == h.live_out
  <2>1. w = [live_in |-> [I EXCEPT ![block.id] = in(h)], live_out |-> [O EXCEPT ![block.id] = out(h)]]
    BY <1>2
  <2>2. I = [b \in ids |-> I[b]] /\ O = [b \in ids |-> O[b]]
    BY <1>4 DEF is_live_map
  <2> HIDE DEF w, I, O
  <2>3. w.live_in = [I EXCEPT ![block.id] = in(h)] /\ w.live_out = [O EXCEPT ![block.id] = out(h)]
        /\ w = [live_in |-> w.live_in, live_out |-> w.live_out]
    BY <2>1
  <2>4. /\ w.live_in = [b \in ids |-> IF b = block.id THEN in(h) ELSE I[b]]
        /\ w.live_out = [b \in ids |-> IF b = block.id THEN out(h) ELSE O[b]]
    BY <1>1, <2>2, <2>3
  <2>5. is_live_map(g, w)
    BY <2>3, <2>4 DEF is_live_map
  <2> QED
    BY <1>1, <2>4, <2>5 DEF w, I, O
<1>5. ASSUME NEW v, NEW h, is_live_map(g, h), entered(g, l, v) \subseteq entered(g, h, v),
             NEW b \in entered(g, visit_live(g, l, m), v)
      PROVE  b \in entered(g, visit_live(g, h, m), v)
  <2>1. \A s \in ids : v \in l.live_in[s] => v \in h.live_in[s]
    BY <1>5 DEF entered
  <2>2. v \in in(l) => v \in in(h)
    BY <1>1, <1>3, <2>1
  <2>3. b \in ids /\ v \in visit_live(g, l, m).live_in[b]
    BY DEF entered
  <2>4. v \in visit_live(g, h, m).live_in[b]
    BY <1>4, <1>5, <2>1, <2>2, <2>3
  <2> QED
    BY <2>3, <2>4 DEF entered
<1>6. ASSUME NEW v, NEW X, covers(g, v, X), entered(g, l, v) \subseteq X,
             NEW b \in entered(g, visit_live(g, l, m), v)
      PROVE  b \in X
  <2>1. b \in ids /\ v \in visit_live(g, l, m).live_in[b]
    BY DEF entered
  <2>2. CASE b # block.id
    <3>1. v \in l.live_in[b]
      BY <1>4, <2>1, <2>2
    <3> QED
      BY <1>6, <2>1, <3>1 DEF entered
  <2>3. CASE b = block.id
    <3>1. v \in in(l)
      BY <1>4, <2>1, <2>3
    <3>2. \A s \in ids : v \in l.live_in[s] => s \in X
      BY <1>6 DEF entered
    <3>3. \/ v \in use_set(block)
          \/ /\ v \notin def_set(block)
             /\ \E s \in successors(block.term) : \/ v \in phi_uses(g, block.id, s)
                                                  \/ s \in X /\ v \notin phi_defs(g, s)
      BY <1>1, <1>3, <3>1, <3>2
    <3> QED
      BY <1>6, <2>3, <3>3 DEF covers, block
  <2> QED
    BY <2>2, <2>3
<1> QED
  BY <1>4, <1>5, <1>6 DEF in, out, block

\* So does a pass.
LEMMA LivenessSweep ==
    ASSUME NEW g, has_valid_blocks(g), NEW l, is_live_map(g, l)
    PROVE  /\ is_live_map(g, liveness_sweep(g, l))
           /\ \A v, h : is_live_map(g, h) /\ entered(g, l, v) \subseteq entered(g, h, v)
                 => entered(g, liveness_sweep(g, l), v) \subseteq entered(g, liveness_sweep(g, h), v)
           /\ \A v, X : covers(g, v, X) /\ entered(g, l, v) \subseteq X
                 => entered(g, liveness_sweep(g, l), v) \subseteq X
<1> DEFINE n == Len(g.blocks)
<1>1. n \in Nat /\ DOMAIN g.blocks = 1..n
  BY ValidBlocks
<1>2. ASSUME NEW h, is_live_map(g, h), NEW v, NEW X,
             entered(g, l, v) \subseteq entered(g, h, v)
      PROVE  /\ is_live_map(g, liveness_sweep(g, l))
             /\ entered(g, liveness_sweep(g, l), v) \subseteq entered(g, liveness_sweep(g, h), v)
             /\ covers(g, v, X) /\ entered(g, l, v) \subseteq X
                   => entered(g, liveness_sweep(g, l), v) \subseteq X
  <2>1. PICK a : live_visits(g, l, a, n) /\ liveness_sweep(g, l) = a[n]
    BY <1>1, LivenessSweepEquation
  <2>2. PICK e : live_visits(g, h, e, n) /\ liveness_sweep(g, h) = e[n]
    BY <1>1, LivenessSweepEquation
  <2>3. \A m \in 0..n : /\ a[m] = IF m = 0 THEN l ELSE visit_live(g, a[m - 1], back(g, m))
                        /\ e[m] = IF m = 0 THEN h ELSE visit_live(g, e[m - 1], back(g, m))
    BY <2>1, <2>2 DEF live_visits
  <2> DEFINE good(m) == /\ is_live_map(g, a[m]) /\ is_live_map(g, e[m])
                        /\ entered(g, a[m], v) \subseteq entered(g, e[m], v)
                        /\ covers(g, v, X) /\ entered(g, l, v) \subseteq X
                              => entered(g, a[m], v) \subseteq X
             T == {m \in Nat : m <= n => good(m)}
  <2>4. good(0)
    <3>1. a[0] = l /\ e[0] = h
      BY <1>1, <2>3
    <3> QED
      BY <1>2, <3>1
  <2>5. ASSUME NEW m \in Nat, m + 1 <= n, good(m) PROVE good(m + 1)
    <3>0. m + 1 \in 0..n /\ m + 1 # 0 /\ (m + 1) - 1 = m /\ n + 1 - (m + 1) \in 1..n
      <4>1. n \in Nat /\ m \in Nat /\ m + 1 <= n
        BY <1>1, <2>5
      <4> HIDE DEF n, good
      <4> QED
        BY <4>1
    <3>1. m + 1 \in 0..n /\ m + 1 # 0 /\ (m + 1) - 1 = m /\ back(g, m + 1) \in DOMAIN g.blocks
      BY <1>1, <3>0 DEF back
    <3>2. /\ a[m + 1] = visit_live(g, a[m], back(g, m + 1))
          /\ e[m + 1] = visit_live(g, e[m], back(g, m + 1))
      BY <2>3, <3>1
    <3> HIDE DEF n
    <3>3. is_live_map(g, a[m + 1]) /\ is_live_map(g, e[m + 1])
      BY <2>5, <3>1, <3>2, VisitLive
    <3>4. entered(g, a[m + 1], v) \subseteq entered(g, e[m + 1], v)
      BY <2>5, <3>1, <3>2, VisitLive
    <3>5. covers(g, v, X) /\ entered(g, l, v) \subseteq X => entered(g, a[m + 1], v) \subseteq X
      BY <2>5, <3>1, <3>2, VisitLive
    <3> QED
      BY <3>3, <3>4, <3>5
  <2> HIDE DEF good
  <2>6. n \in T
    <3>1. T \in SUBSET Nat /\ 0 \in T
      BY <2>4
    <3>2. \A m \in T : m + 1 \in T
      <4> TAKE m \in T
      <4>1. m \in Nat /\ (m <= n => good(m))
        OBVIOUS
      <4>2. m + 1 <= n => good(m + 1)
        BY <1>1, <2>5, <4>1
      <4> QED
        BY <4>1, <4>2
    <3> HIDE DEF T
    <3>3. T = Nat
      BY <3>1, <3>2, SetInduction
    <3> QED
      BY <1>1, <3>3
  <2>7. good(n)
    BY <1>1, <2>6
  <2> QED
    BY <2>1, <2>2, <2>7 DEF good
<1> HIDE DEF n
<1>3. is_live_map(g, liveness_sweep(g, l))
  BY <1>2
<1>4. \A v, h : is_live_map(g, h) /\ entered(g, l, v) \subseteq entered(g, h, v)
         => entered(g, liveness_sweep(g, l), v) \subseteq entered(g, liveness_sweep(g, h), v)
  BY <1>2
<1>5. \A v, X : covers(g, v, X) /\ entered(g, l, v) \subseteq X
         => entered(g, liveness_sweep(g, l), v) \subseteq X
  BY <1>2
<1> QED
  BY <1>3, <1>4, <1>5

\* A pass that leaves every live_in as it was has computed every live_out
\* from them; a pass over maps with nothing to change leaves every live_in.
LEMMA LivenessSweepFixed ==
    ASSUME NEW g, has_valid_blocks(g), NEW l, is_live_map(g, l)
    PROVE  /\ liveness_sweep(g, l).live_in = l.live_in => live_stable(g, liveness_sweep(g, l))
           /\ live_stable(g, l) => liveness_sweep(g, l).live_in = l.live_in
<1> DEFINE ids == block_ids(g)
           n == Len(g.blocks)
           at(m) == back(g, m)
           id(m) == g.blocks[at(m)].id
           w == liveness_sweep(g, l)
<1>1. /\ n \in Nat /\ DOMAIN g.blocks = 1..n
      /\ \A m \in 1..n : at(m) \in 1..n /\ at(at(m)) = m
  BY ValidBlocks DEF back
<1>2. PICK a : live_visits(g, l, a, n) /\ w = a[n]
  BY <1>1, LivenessSweepEquation
<1>3. /\ a[0] = l
      /\ \A m \in 1..n : a[m] = visit_live(g, a[m - 1], at(m))
  <2>1. \A m \in 0..n : a[m] = IF m = 0 THEN l ELSE visit_live(g, a[m - 1], at(m))
    BY <1>2 DEF live_visits
  <2>2. 0 \in 0..n /\ \A m \in 1..n : m \in 0..n /\ m # 0
    BY <1>1
  <2> HIDE DEF n, at
  <2> QED
    BY <2>1, <2>2
<1> HIDE DEF n, at
<1>4. /\ \A m \in 1..n : id(m) \in ids
      /\ \A m, j \in 1..n : id(m) = id(j) => m = j
  <2>1. \A j, m \in DOMAIN g.blocks : g.blocks[j].id = g.blocks[m].id => j = m
    BY ValidBlocks
  <2>2. \A m, j \in 1..n : at(m) = at(j) => m = j
    BY <1>1
  <2> QED
    BY <1>1, <2>1, <2>2, ValidBlocks
<1> DEFINE out(h, m) == live_out_of(g, h.live_in, g.blocks[at(m)])
           in(h, m) == live_in_of(g.blocks[at(m)], out(h, m))
<1>5. ASSUME NEW h, is_live_map(g, h), NEW m \in 1..n
      PROVE  /\ is_live_map(g, visit_live(g, h, at(m)))
             /\ \A b \in ids : b # id(m) =>
                   /\ visit_live(g, h, at(m)).live_in[b] = h.live_in[b]
                   /\ visit_live(g, h, at(m)).live_out[b] = h.live_out[b]
             /\ visit_live(g, h, at(m)).live_out[id(m)] = out(h, m)
             /\ visit_live(g, h, at(m)).live_in[id(m)] = in(h, m)
  <2>1. at(m) \in DOMAIN g.blocks
    BY <1>1
  <2> QED
    BY <1>5, <2>1, VisitLive
<1> HIDE DEF out, in, id
<1>6. \A m \in 0..n : is_live_map(g, a[m])
  <2> DEFINE T == {m \in Nat : m <= n => is_live_map(g, a[m])}
  <2>1. 0 \in T /\ T \in SUBSET Nat
    BY <1>3
  <2>2. \A m \in T : m + 1 \in T
    <3> SUFFICES ASSUME NEW m \in Nat, m + 1 <= n, is_live_map(g, a[m])
                 PROVE  is_live_map(g, a[m + 1])
      BY <1>1
    <3>1. m + 1 \in 1..n /\ (m + 1) - 1 = m
      BY <1>1
    <3> QED
      BY <1>3, <1>5, <3>1
  <2> HIDE DEF T
  <2>3. T = Nat
    BY <2>1, <2>2, SetInduction
  <2> QED
    BY <1>1, <2>3 DEF T
<1>7. ASSUME NEW j \in 1..n
      PROVE  w.live_in[id(j)] = a[j].live_in[id(j)] /\ w.live_out[id(j)] = a[j].live_out[id(j)]
  <2> DEFINE T == {m \in Nat : j <= m /\ m <= n =>
                      /\ a[m].live_in[id(j)] = a[j].live_in[id(j)]
                      /\ a[m].live_out[id(j)] = a[j].live_out[id(j)]}
  <2>1. 0 \in T /\ T \in SUBSET Nat
    BY <1>1, <1>7
  <2>2. \A m \in T : m + 1 \in T
    <3> SUFFICES ASSUME NEW m \in Nat, m + 1 <= n, j <= m + 1,
                        j <= m => /\ a[m].live_in[id(j)] = a[j].live_in[id(j)]
                                  /\ a[m].live_out[id(j)] = a[j].live_out[id(j)]
                 PROVE  /\ a[m + 1].live_in[id(j)] = a[j].live_in[id(j)]
                        /\ a[m + 1].live_out[id(j)] = a[j].live_out[id(j)]
      BY <1>1
    <3>1. CASE j = m + 1
      BY <3>1
    <3>2. CASE j # m + 1
      <4>1. j <= m /\ m + 1 \in 1..n /\ (m + 1) - 1 = m /\ m \in 0..n
        BY <1>1, <1>7, <3>2
      <4>2. id(j) # id(m + 1) /\ id(j) \in ids
        BY <1>4, <3>2, <4>1
      <4>3. a[m + 1] = visit_live(g, a[m], at(m + 1)) /\ is_live_map(g, a[m])
        BY <1>3, <1>6, <4>1
      <4>4. /\ a[m + 1].live_in[id(j)] = a[m].live_in[id(j)]
            /\ a[m + 1].live_out[id(j)] = a[m].live_out[id(j)]
        BY <1>5, <4>1, <4>2, <4>3
      <4> QED
        BY <4>1, <4>4
    <3> QED
      BY <3>1, <3>2
  <2> HIDE DEF T
  <2>3. T = Nat
    BY <2>1, <2>2, SetInduction
  <2>4. n \in T /\ j <= n
    BY <1>1, <1>7, <2>3
  <2> QED
    BY <1>1, <1>2, <2>4 DEF T
<1>8. l.live_in = [b \in ids |-> l.live_in[b]]
  BY DEF is_live_map
<1>9. ASSUME NEW m \in Nat, m + 1 <= n, a[m].live_in = l.live_in
      PROVE  /\ m + 1 \in 1..n
             /\ a[m + 1].live_out[id(m + 1)] = out(l, m + 1)
             /\ a[m + 1].live_in[id(m + 1)] = in(l, m + 1)
             /\ in(l, m + 1) = l.live_in[id(m + 1)] => a[m + 1].live_in = l.live_in
  <2>1. m + 1 \in 1..n /\ (m + 1) - 1 = m /\ m \in 0..n /\ m + 1 \in 0..n
    BY <1>1, <1>9
  <2>2. a[m + 1] = visit_live(g, a[m], at(m + 1)) /\ is_live_map(g, a[m]) /\ is_live_map(g, a[m + 1])
    BY <1>3, <1>6, <2>1
  <2>3. out(a[m], m + 1) = out(l, m + 1) /\ in(a[m], m + 1) = in(l, m + 1)
    BY <1>9 DEF out, in
  <2>4. a[m + 1].live_out[id(m + 1)] = out(l, m + 1) /\ a[m + 1].live_in[id(m + 1)] = in(l, m + 1)
    BY <1>5, <2>1, <2>2, <2>3
  <2>5. ASSUME in(l, m + 1) = l.live_in[id(m + 1)] PROVE a[m + 1].live_in = l.live_in
    <3>1. \A b \in ids : a[m + 1].live_in[b] = l.live_in[b]
      BY <1>5, <1>9, <2>1, <2>2, <2>4, <2>5
    <3>2. a[m + 1].live_in = [b \in ids |-> a[m + 1].live_in[b]]
      BY <2>2 DEF is_live_map
    <3> QED
      BY <1>8, <3>1, <3>2
  <2> QED
    BY <2>1, <2>4, <2>5
<1> DEFINE T == {m \in Nat : m <= n => a[m].live_in = l.live_in}
<1>10. ASSUME w.live_in = l.live_in PROVE live_stable(g, w)
  <2>1. ASSUME NEW m \in Nat, m + 1 <= n, a[m].live_in = l.live_in
        PROVE  in(l, m + 1) = l.live_in[id(m + 1)] /\ w.live_out[id(m + 1)] = out(l, m + 1)
    BY <1>7, <1>9, <1>10, <2>1
  <2>2. T = Nat
    <3>1. 0 \in T /\ T \in SUBSET Nat
      BY <1>3
    <3>2. \A m \in T : m + 1 \in T
      <4> SUFFICES ASSUME NEW m \in Nat, m + 1 <= n, a[m].live_in = l.live_in
                   PROVE  a[m + 1].live_in = l.live_in
        BY <1>1
      <4> QED
        BY <1>9, <2>1
    <3> HIDE DEF T
    <3> QED
      BY <3>1, <3>2, SetInduction
  <2>3. ASSUME NEW m \in 1..n
        PROVE  w.live_in[id(m)] = in(l, m) /\ w.live_out[id(m)] = out(l, m)
    <3>1. m - 1 \in Nat /\ (m - 1) + 1 = m /\ m <= n /\ m - 1 <= n
      BY <1>1, <2>3
    <3>2. a[m - 1].live_in = l.live_in
      BY <2>2, <3>1
    <3> QED
      BY <1>10, <2>1, <3>1, <3>2
  <2>4. ASSUME NEW j \in DOMAIN g.blocks
        PROVE  /\ w.live_out[g.blocks[j].id] = live_out_of(g, w.live_in, g.blocks[j])
               /\ w.live_in[g.blocks[j].id] = live_in_of(g.blocks[j], w.live_out[g.blocks[j].id])
    <3>1. at(j) \in 1..n /\ at(at(j)) = j
      BY <1>1
    <3>2. w.live_in[id(at(j))] = in(l, at(j)) /\ w.live_out[id(at(j))] = out(l, at(j))
      BY <2>3, <3>1
    <3>3. /\ id(at(j)) = g.blocks[j].id
          /\ out(l, at(j)) = live_out_of(g, l.live_in, g.blocks[j])
          /\ in(l, at(j)) = live_in_of(g.blocks[j], out(l, at(j)))
      BY <3>1 DEF id, out, in
    <3> HIDE DEF w
    <3> QED
      BY <1>10, <3>2, <3>3
  <2> HIDE DEF w
  <2> QED
    BY <2>4 DEF live_stable
<1>11. ASSUME live_stable(g, l) PROVE w.live_in = l.live_in
  <2>1. ASSUME NEW m \in 1..n PROVE in(l, m) = l.live_in[id(m)]
    <3>1. at(m) \in DOMAIN g.blocks
      BY <1>1
    <3> QED
      BY <1>11, <3>1 DEF live_stable, in, out, id
  <2>2. T = Nat
    <3>1. 0 \in T /\ T \in SUBSET Nat
      BY <1>3
    <3>2. \A m \in T : m + 1 \in T
      <4> SUFFICES ASSUME NEW m \in Nat, m + 1 <= n, a[m].live_in = l.live_in
                   PROVE  a[m + 1].live_in = l.live_in
        BY <1>1
      <4> QED
        BY <1>9, <2>1
    <3> HIDE DEF T
    <3> QED
      BY <3>1, <3>2, SetInduction
  <2> QED
    BY <1>1, <1>2, <2>2
<1> QED
  BY <1>10, <1>11

\* compute_liveness returns maps in which another pass changes nothing, and
\* the smallest of them: a pass takes a value one block further or it was the
\* last for it, and no value is live on entry to the block that defines it.
LEMMA LivenessIsFixed ==
    ASSUME NEW g, has_valid_blocks(g), defines_uses(g)
    PROVE  /\ is_live_map(g, compute_liveness(g))
           /\ live_stable(g, compute_liveness(g))
           /\ \A h, v : is_live_map(g, h) /\ live_stable(g, h)
                 => entered(g, compute_liveness(g), v) \subseteq entered(g, h, v)
           /\ \A v, X : covers(g, v, X) => entered(g, compute_liveness(g), v) \subseteq X
<1> DEFINE ids == block_ids(g)
           n == Len(g.blocks)
<1>1. n \in Nat \ {0} /\ g.entry \in ids
  BY ValidBlocks
<1>2. PICK a : live_passes(g, a, n) /\ compute_liveness(g) = a[n]
  BY <1>1, LivenessEquation
<1>3. /\ a[0] = none_live(g)
      /\ \A m \in 1..n : a[m] = liveness_sweep(g, a[m - 1])
  <2>1. \A m \in 0..n : a[m] = IF m = 0 THEN none_live(g) ELSE liveness_sweep(g, a[m - 1])
    BY <1>2 DEF live_passes
  <2>2. 0 \in 0..n /\ \A m \in 1..n : m \in 0..n /\ m # 0
    BY <1>1
  <2> HIDE DEF n
  <2> QED
    BY <2>1, <2>2
<1> HIDE DEF n
<1>4. is_live_map(g, a[0]) /\ \A v : entered(g, a[0], v) = {}
  BY <1>3 DEF is_live_map, entered, none_live
<1>5. ASSUME NEW m \in Nat
      PROVE  m <= n => /\ is_live_map(g, a[m])
                       /\ \A h, v : is_live_map(g, h) /\ live_stable(g, h)
                             => entered(g, a[m], v) \subseteq entered(g, h, v)
                       /\ \A v, X : covers(g, v, X) => entered(g, a[m], v) \subseteq X
  <2> DEFINE good(j) == /\ is_live_map(g, a[j])
                        /\ \A h, v : is_live_map(g, h) /\ live_stable(g, h)
                              => entered(g, a[j], v) \subseteq entered(g, h, v)
                        /\ \A v, X : covers(g, v, X) => entered(g, a[j], v) \subseteq X
             T == {j \in Nat : j <= n => good(j)}
  <2>1. good(0)
    BY <1>4
  <2>2. ASSUME NEW j \in Nat, j + 1 <= n, good(j) PROVE good(j + 1)
    <3>1. a[j + 1] = liveness_sweep(g, a[j])
      BY <1>1, <1>3, <2>2
    <3>2. is_live_map(g, a[j + 1])
      BY <2>2, <3>1, LivenessSweep
    <3>3. ASSUME NEW h, NEW v, is_live_map(g, h), live_stable(g, h)
          PROVE  entered(g, a[j + 1], v) \subseteq entered(g, h, v)
      <4>1. entered(g, liveness_sweep(g, h), v) = entered(g, h, v)
        BY <3>3, LivenessSweepFixed DEF entered
      <4> QED
        BY <2>2, <3>1, <3>3, <4>1, LivenessSweep
    <3>4. \A v, X : covers(g, v, X) => entered(g, a[j + 1], v) \subseteq X
      BY <2>2, <3>1, LivenessSweep
    <3> QED
      BY <3>2, <3>3, <3>4
  <2> HIDE DEF good
  <2>3. 0 \in T /\ T \in SUBSET Nat
    BY <2>1
  <2>4. \A j \in T : j + 1 \in T
    <3> TAKE j \in T
    <3>1. j \in Nat /\ (j <= n => good(j))
      OBVIOUS
    <3>2. j + 1 <= n => good(j + 1)
      BY <1>1, <2>2, <3>1
    <3> QED
      BY <3>1, <3>2
  <2>5. m \in T
    <3> HIDE DEF T
    <3>1. T = Nat
      BY <2>3, <2>4, SetInduction
    <3> QED
      BY <3>1
  <2> QED
    BY <2>5 DEF good
<1>6. ASSUME NEW v, NEW m \in Nat
      PROVE  m + 1 <= n => entered(g, a[m], v) \subseteq entered(g, a[m + 1], v)
  <2> DEFINE T == {j \in Nat : j + 1 <= n => entered(g, a[j], v) \subseteq entered(g, a[j + 1], v)}
  <2>1. 0 \in T /\ T \in SUBSET Nat
    BY <1>4
  <2>2. \A j \in T : j + 1 \in T
    <3> SUFFICES ASSUME NEW j \in Nat, (j + 1) + 1 <= n,
                        entered(g, a[j], v) \subseteq entered(g, a[j + 1], v)
                 PROVE  entered(g, a[j + 1], v) \subseteq entered(g, a[(j + 1) + 1], v)
      BY <1>1
    <3>1. /\ a[(j + 1) + 1] = liveness_sweep(g, a[j + 1]) /\ a[j + 1] = liveness_sweep(g, a[j])
          /\ j <= n /\ j + 1 <= n
      BY <1>1, <1>3
    <3>2. is_live_map(g, a[j]) /\ is_live_map(g, a[j + 1])
      BY <1>5, <3>1
    <3> QED
      BY <3>1, <3>2, LivenessSweep
  <2> HIDE DEF T
  <2>3. T = Nat
    BY <2>1, <2>2, SetInduction
  <2> QED
    BY <2>3 DEF T
<1>7. ASSUME NEW v
      PROVE  \E d \in ids : \A m \in Nat : m <= n => entered(g, a[m], v) \subseteq ids \ {d}
  <2>1. \A j \in DOMAIN g.blocks : /\ g.blocks[j].id \in ids
                                  /\ successors(g.blocks[j].term) \subseteq ids
    BY ValidBlocks
  <2>2. CASE \E j \in DOMAIN g.blocks : v \in def_set(g.blocks[j]) /\ v \notin use_set(g.blocks[j])
    <3>1. PICK j \in DOMAIN g.blocks : v \in def_set(g.blocks[j]) /\ v \notin use_set(g.blocks[j])
      BY <2>2
    <3>2. \A m \in DOMAIN g.blocks : g.blocks[m].id = g.blocks[j].id => m = j
      BY ValidBlocks
    <3>3. covers(g, v, ids \ {g.blocks[j].id})
      BY <2>1, <3>1, <3>2 DEF covers
    <3>4. \A m \in Nat : m <= n => entered(g, a[m], v) \subseteq ids \ {g.blocks[j].id}
      BY <1>5, <3>3
    <3> QED
      BY <2>1, <3>4
  <2>3. CASE ~\E j \in DOMAIN g.blocks : v \in def_set(g.blocks[j]) /\ v \notin use_set(g.blocks[j])
    <3>1. /\ \A j \in DOMAIN g.blocks : v \notin use_set(g.blocks[j])
          /\ \A p, s \in ids : v \notin phi_uses(g, p, s)
      BY <2>3 DEF defines_uses
    <3>2. ASSUME NEW X, X = {} PROVE covers(g, v, X)
      BY <2>1, <3>1, <3>2 DEF covers
    <3>3. \A m \in Nat : m <= n => entered(g, a[m], v) \subseteq {}
      BY <1>5, <3>2
    <3> QED
      BY <1>1, <3>3
  <2> QED
    BY <2>2, <2>3
<1>8. ASSUME NEW v PROVE entered(g, a[n - 1], v) = entered(g, a[n], v)
  <2>1. PICK d \in ids : \A m \in Nat : m <= n => entered(g, a[m], v) \subseteq ids \ {d}
    BY <1>7
  <2> DEFINE S == [m \in 0..n |-> entered(g, a[m], v)]
             U == ids \ {d}
             c == n - 1
  <2>2. c \in Nat /\ c + 1 = n /\ IsFiniteSet(U) /\ Cardinality(U) <= c
    BY <1>1, FewIds DEF n
  <2>3. \A m \in 0..n : S[m] = entered(g, a[m], v)
    OBVIOUS
  <2> HIDE DEF S, c
  <2>4. ASSUME NEW m \in 0..c PROVE S[m] \subseteq S[m + 1] /\ S[m + 1] \subseteq U
    <3>1. m \in Nat /\ m + 1 \in Nat /\ m + 1 <= n /\ m \in 0..n /\ m + 1 \in 0..n
      BY <1>1, <2>2
    <3> QED
      BY <1>6, <2>1, <2>3, <3>1
  <2>5. ASSUME NEW m \in 1..c, S[m - 1] = S[m] PROVE S[m] = S[m + 1]
    <3>1. /\ m - 1 \in Nat /\ m - 1 \in 0..n /\ m - 1 <= n
          /\ m \in Nat /\ m \in 0..n /\ m + 1 \in 0..n /\ m \in 1..n /\ m + 1 \in 1..n
          /\ (m + 1) - 1 = m /\ m <= n
      BY <1>1, <2>2
    <3>2. is_live_map(g, a[m - 1]) /\ is_live_map(g, a[m])
      BY <1>5, <3>1
    <3>3. a[m] = liveness_sweep(g, a[m - 1]) /\ a[m + 1] = liveness_sweep(g, a[m])
      BY <1>3, <3>1
    <3>4. entered(g, a[m - 1], v) = entered(g, a[m], v)
      BY <2>3, <2>5, <3>1
    <3>5. /\ entered(g, a[m], v) \subseteq entered(g, a[m + 1], v)
          /\ entered(g, a[m + 1], v) \subseteq entered(g, a[m], v)
      BY <3>2, <3>3, <3>4, LivenessSweep
    <3>6. entered(g, a[m], v) = entered(g, a[m + 1], v)
      BY <3>5
    <3> QED
      BY <2>3, <3>1, <3>6
  <2> HIDE DEF U
  <2>6. S[c] = S[c + 1]
    BY <2>2, <2>4, <2>5, ChainIsStable
  <2>7. c \in 0..n /\ n \in 0..n /\ c = n - 1
    BY <1>1, <2>2 DEF c
  <2> QED
    BY <2>2, <2>3, <2>6, <2>7
<1>9. n - 1 \in Nat /\ n - 1 <= n /\ n \in Nat /\ n <= n /\ n \in 1..n
  BY <1>1
<1>10. is_live_map(g, a[n - 1]) /\ is_live_map(g, a[n]) /\ a[n] = liveness_sweep(g, a[n - 1])
  BY <1>3, <1>5, <1>9
<1>11. a[n].live_in = a[n - 1].live_in
  <2>1. \A b \in ids : \A v : v \in a[n].live_in[b] <=> v \in a[n - 1].live_in[b]
    BY <1>8 DEF entered
  <2>2. \A b \in ids : a[n].live_in[b] = a[n - 1].live_in[b]
    BY <2>1
  <2>3. /\ a[n].live_in = [b \in ids |-> a[n].live_in[b]]
        /\ a[n - 1].live_in = [b \in ids |-> a[n - 1].live_in[b]]
    BY <1>10 DEF is_live_map
  <2> QED
    BY <2>2, <2>3
<1>12. live_stable(g, a[n])
  BY <1>10, <1>11, LivenessSweepFixed
<1> QED
  BY <1>2, <1>5, <1>9, <1>10, <1>12

-----------------------------------------------------------------------------
(* Instructions, their positions and definitions.                          *)

\* The instructions of the blocks.
LEMMA PlacesOf ==
    ASSUME NEW g, has_valid_blocks(g)
    PROVE  /\ \A x \in DOMAIN g.blocks :
                 /\ Len(g.blocks[x].insts) \in Nat
                 /\ DOMAIN g.blocks[x].insts = 1..Len(g.blocks[x].insts)
                 /\ \A j \in 1..(Len(g.blocks[x].insts) + 1) : <<x, j>> \in places(g)
           /\ \A p \in places(g) : /\ p = <<p[1], p[2]>>
                                   /\ p[1] \in DOMAIN g.blocks
                                   /\ p[2] \in 1..(Len(g.blocks[p[1]].insts) + 1)
<1>1. \A x \in DOMAIN g.blocks : /\ Len(g.blocks[x].insts) \in Nat
                                 /\ DOMAIN g.blocks[x].insts = 1..Len(g.blocks[x].insts)
  BY ValidBlocks
<1>2. \A p : p \in places(g) <=>
        \E x \in DOMAIN g.blocks : p \in {x} \X (1..(Len(g.blocks[x].insts) + 1))
  BY DEF places
<1> QED
  BY <1>1, <1>2

\* A function has finitely many instructions.
LEMMA FinitePlaces ==
    ASSUME NEW g, has_valid_blocks(g)
    PROVE  IsFiniteSet(places(g))
<1> DEFINE A(m) == {p \in places(g) : p[1] <= m}
           T == {m \in Nat : m <= Len(g.blocks) => IsFiniteSet(A(m))}
<1>1. Len(g.blocks) \in Nat /\ DOMAIN g.blocks = 1..Len(g.blocks)
  BY ValidBlocks
<1>2. 0 \in T
  <2>1. A(0) = {}
    BY <1>1, PlacesOf
  <2> HIDE DEF A
  <2> QED
    BY <2>1, FS_EmptySet
<1>3. ASSUME NEW m \in T PROVE m + 1 \in T
  <2>1. CASE m + 1 <= Len(g.blocks)
    <3> DEFINE l == Len(g.blocks[m + 1].insts)
               B == {m + 1} \X (1..(l + 1))
    <3>1. m + 1 \in DOMAIN g.blocks /\ l \in Nat
      BY <1>1, <2>1, PlacesOf
    <3>2. A(m + 1) = A(m) \cup B
      <4>1. ASSUME NEW p \in A(m + 1) PROVE p \in A(m) \/ p \in B
        <5>1. /\ p = <<p[1], p[2]>> /\ p[1] \in Nat /\ p[1] <= m + 1
              /\ p[2] \in 1..(Len(g.blocks[p[1]].insts) + 1)
          BY <1>1, <4>1, PlacesOf
        <5>2. p[1] <= m \/ p[1] = m + 1
          BY <5>1
        <5> QED
          BY <5>1, <5>2
      <4>2. ASSUME NEW p \in A(m) PROVE p \in A(m + 1)
        <5>1. p[1] \in Nat /\ p[1] <= m
          BY <1>1, <4>2, PlacesOf
        <5> QED
          BY <5>1
      <4>3. ASSUME NEW p \in B PROVE p \in A(m + 1)
        <5>1. PICK j \in 1..(l + 1) : p = <<m + 1, j>>
          BY <4>3
        <5>2. p \in places(g) /\ p[1] = m + 1
          BY <3>1, <5>1, PlacesOf
        <5> QED
          BY <5>2
      <4> HIDE DEF A, B
      <4> QED
        BY <4>1, <4>2, <4>3
    <3>3. IsFiniteSet(B)
      <4>1. IsFiniteSet({m + 1}) /\ IsFiniteSet(1..(l + 1))
        <5> DEFINE h == l + 1
        <5>1. 1 \in Int /\ h \in Int
          BY <3>1
        <5> HIDE DEF h
        <5>2. IsFiniteSet(1..h)
          BY <5>1, FS_Interval
        <5> QED
          BY <5>2, FS_Singleton DEF h
      <4> QED
        BY <4>1, FS_Product
    <3>4. IsFiniteSet(A(m))
      BY <2>1
    <3> HIDE DEF A, B
    <3>5. IsFiniteSet(A(m) \cup B)
      BY <3>3, <3>4, FS_Union
    <3>6. IsFiniteSet(A(m + 1))
      BY <3>2, <3>5
    <3> QED
      BY <3>6
  <2> QED
    BY <2>1
<1>4. T = Nat
  <2>1. T \in SUBSET Nat
    OBVIOUS
  <2> HIDE DEF T
  <2> QED
    BY <1>2, <1>3, <2>1, SetInduction
<1>5. A(Len(g.blocks)) = places(g)
  BY <1>1, PlacesOf
<1>6. Len(g.blocks) \in T
  <2> HIDE DEF T
  <2> QED
    BY <1>1, <1>4
<1>7. IsFiniteSet(A(Len(g.blocks)))
  <2> HIDE DEF A
  <2> QED
    BY <1>1, <1>6
<1> HIDE DEF A
<1> QED
  BY <1>5, <1>7

\* A set of naturals with a bound has a least and a greatest element.
LEMMA LeastAndGreatest ==
    ASSUME NEW S \in SUBSET Nat, NEW N \in Nat, \A s \in S : s <= N, NEW t \in S
    PROVE  /\ Min(S) \in Nat /\ Max(S) \in Nat
           /\ Min(S) <= t /\ t <= Max(S)
<1>1. PICK a \in S : \A y \in S : a <= y
  BY LeastNatural
<1> DEFINE R == {r \in Nat : \E s \in S : r = N - s}
<1>2. R \in SUBSET Nat /\ R # {}
  <2>1. N - t \in Nat
    OBVIOUS
  <2> QED
    BY <2>1
<1>3. PICK r \in R : \A y \in R : r <= y
  <2> HIDE DEF R
  <2> QED
    BY <1>2, LeastNatural
<1>4. PICK b \in S : r = N - b
  BY <1>3
<1>5. ASSUME NEW y \in S PROVE b >= y
  <2>1. N - y \in R
    OBVIOUS
  <2>2. N - b <= N - y
    BY <1>3, <1>4, <2>1
  <2> QED
    BY <1>4, <2>2
<1>6. Min(S) \in S /\ \A y \in S : Min(S) <= y
  BY <1>1 DEF Min
<1>7. Max(S) \in S /\ \A y \in S : Max(S) >= y
  BY <1>4, <1>5 DEF Max
<1> QED
  BY <1>6, <1>7

\* Positions count instructions: they are bounded, and grow along a block.
LEMMA PositionsOf ==
    ASSUME NEW g, has_valid_blocks(g)
    PROVE  /\ Cardinality(places(g)) \in Nat
           /\ \A p \in places(g) : /\ position(g, p) \in Nat
                                   /\ position(g, p) <= Cardinality(places(g))
           /\ \A p, q \in places(g) : p[1] = q[1] /\ p[2] <= q[2]
                                         => position(g, p) <= position(g, q)
<1> DEFINE B(p) == {q \in places(g) : q[1] < p[1] \/ (q[1] = p[1] /\ q[2] < p[2])}
<1>1. IsFiniteSet(places(g)) /\ Cardinality(places(g)) \in Nat
  BY FinitePlaces, FS_CardinalityType
<1>2. \A p : position(g, p) = Cardinality(B(p)) /\ B(p) \in SUBSET places(g)
  BY DEF position
<1>3. ASSUME NEW p \in places(g), NEW q \in places(g), p[1] = q[1], p[2] <= q[2]
      PROVE  B(p) \in SUBSET B(q)
  <2>1. p[2] \in Nat /\ q[2] \in Nat
    BY PlacesOf
  <2>2. ASSUME NEW r \in B(p) PROVE r \in B(q)
    <3>1. r \in places(g) /\ r[2] \in Nat
      BY PlacesOf
    <3> QED
      BY <1>3, <2>1, <3>1
  <2> HIDE DEF B
  <2> QED
    BY <2>2
<1> HIDE DEF B
<1>4. \A p : /\ IsFiniteSet(B(p)) /\ Cardinality(B(p)) \in Nat
             /\ Cardinality(B(p)) <= Cardinality(places(g))
  BY <1>1, <1>2, FS_Subset, FS_CardinalityType
<1>5. ASSUME NEW p \in places(g), NEW q \in places(g), p[1] = q[1], p[2] <= q[2]
      PROVE  position(g, p) <= position(g, q)
  BY <1>2, <1>3, <1>4, <1>5, FS_Subset
<1> QED
  BY <1>1, <1>2, <1>4, <1>5

\* The interval of a value spans the positions it is touched at.
LEMMA IntervalSpans ==
    ASSUME NEW g, has_valid_blocks(g), NEW l, NEW v, NEW p \in places(g), v \in touched_at(g, l, p)
    PROVE  /\ v \in DOMAIN intervals_from(g, l)
           /\ intervals_from(g, l)[v].start \in Nat /\ intervals_from(g, l)[v].end \in Nat
           /\ intervals_from(g, l)[v].start <= position(g, p)
           /\ position(g, p) <= intervals_from(g, l)[v].end
<1> DEFINE at(w) == {position(g, q) : q \in {r \in places(g) : w \in touched_at(g, l, r)}}
<1>1. /\ position(g, p) \in at(v)
      /\ at(v) \in SUBSET Nat
      /\ \A s \in at(v) : s <= Cardinality(places(g))
      /\ Cardinality(places(g)) \in Nat
  BY PositionsOf
<1>2. intervals_from(g, l) = [w \in UNION {touched_at(g, l, q) : q \in places(g)} |->
                                [start |-> Min(at(w)), end |-> Max(at(w))]]
  BY DEF intervals_from
<1> HIDE DEF at
<1>3. /\ Min(at(v)) \in Nat /\ Max(at(v)) \in Nat
      /\ Min(at(v)) <= position(g, p) /\ position(g, p) <= Max(at(v))
  BY <1>1, LeastAndGreatest
<1>4. v \in UNION {touched_at(g, l, q) : q \in places(g)}
  OBVIOUS
<1>5. /\ v \in DOMAIN intervals_from(g, l)
      /\ intervals_from(g, l)[v] = [start |-> Min(at(v)), end |-> Max(at(v))]
  BY <1>2, <1>4
<1> QED
  BY <1>3, <1>5

\* Two values touched before or at one instruction of a block, and after or at
\* it, have intervals that overlap.
LEMMA IntervalsMeet ==
    ASSUME NEW g, has_valid_blocks(g), NEW l, NEW v, NEW w, NEW k, NEW i,
           NEW a, NEW b, NEW c, NEW d,
           <<k, i>> \in places(g), <<k, a>> \in places(g), <<k, b>> \in places(g),
           <<k, c>> \in places(g), <<k, d>> \in places(g),
           a <= i, i <= b, c <= i, i <= d,
           v \in touched_at(g, l, <<k, a>>), v \in touched_at(g, l, <<k, b>>),
           w \in touched_at(g, l, <<k, c>>), w \in touched_at(g, l, <<k, d>>)
    PROVE  overlaps(intervals_from(g, l)[v], intervals_from(g, l)[w])
<1> DEFINE p == <<k, i>>
           pa == <<k, a>>
           pb == <<k, b>>
           pc == <<k, c>>
           pd == <<k, d>>
           I == intervals_from(g, l)[v]
           J == intervals_from(g, l)[w]
<1>1. /\ pa[1] = p[1] /\ pa[2] <= p[2] /\ pb[1] = p[1] /\ p[2] <= pb[2]
      /\ pc[1] = p[1] /\ pc[2] <= p[2] /\ pd[1] = p[1] /\ p[2] <= pd[2]
      /\ p \in places(g) /\ pa \in places(g) /\ pb \in places(g)
      /\ pc \in places(g) /\ pd \in places(g)
  OBVIOUS
<1>2. /\ I.start \in Nat /\ I.end \in Nat /\ J.start \in Nat /\ J.end \in Nat
      /\ I.start <= position(g, pa) /\ position(g, pb) <= I.end
      /\ J.start <= position(g, pc) /\ position(g, pd) <= J.end
  BY <1>1, IntervalSpans
<1> HIDE DEF p, pa, pb, pc, pd, I, J
<1>3. /\ position(g, p) \in Nat /\ position(g, pa) \in Nat /\ position(g, pb) \in Nat
      /\ position(g, pc) \in Nat /\ position(g, pd) \in Nat
      /\ position(g, pa) <= position(g, p) /\ position(g, p) <= position(g, pb)
      /\ position(g, pc) <= position(g, p) /\ position(g, p) <= position(g, pd)
  BY <1>1, PositionsOf
<1>4. ~(I.end < J.start) /\ ~(J.end < I.start)
  BY <1>2, <1>3
<1> QED
  BY <1>4 DEF overlaps, I, J

\* In a valid function an instruction is the only one that defines its value.
LEMMA OnlyDefinition ==
    ASSUME NEW g, has_valid_blocks(g), definitions_are_valid(g),
           NEW k \in DOMAIN g.blocks, NEW i \in DOMAIN g.blocks[k].insts
    PROVE  definitions(g, g.blocks[k].insts[i].dst) = {<<k, i>>}
<1> DEFINE v == g.blocks[k].insts[i].dst
<1>1. Cardinality(definitions(g, v)) = 1
  BY DEF definitions_are_valid
<1>2. <<k, i>> \in definitions(g, v)
  BY DEF definitions
<1>3. definitions(g, v) \in SUBSET places(g)
  <2>1. \A q \in definitions(g, v) : \E y \in DOMAIN g.blocks : q \in {y} \X DOMAIN g.blocks[y].insts
    BY DEF definitions
  <2>2. \A y \in DOMAIN g.blocks : \A z \in DOMAIN g.blocks[y].insts : <<y, z>> \in places(g)
    <3> SUFFICES ASSUME NEW y \in DOMAIN g.blocks, NEW z \in DOMAIN g.blocks[y].insts
                 PROVE  <<y, z>> \in places(g)
      OBVIOUS
    <3>1. Len(g.blocks[y].insts) \in Nat /\ z \in 1..Len(g.blocks[y].insts)
      BY ValidBlocks
    <3>2. z \in 1..(Len(g.blocks[y].insts) + 1)
      BY <3>1
    <3> QED
      BY <3>2, PlacesOf
  <2> QED
    BY <2>1, <2>2
<1> HIDE DEF v
<1>4. IsFiniteSet(definitions(g, v))
  BY <1>3, FinitePlaces, FS_Subset
<1>5. \E q : definitions(g, v) = {q}
  BY <1>1, <1>4, FS_Singleton
<1>6. definitions(g, v) = {<<k, i>>}
  BY <1>2, <1>5
<1> QED
  BY <1>6 DEF v

\* The definitions of a value are instructions with it as their destination.
LEMMA DefinitionFields ==
    ASSUME NEW g, NEW v, NEW q \in definitions(g, v)
    PROVE  /\ q[1] \in DOMAIN g.blocks
           /\ q[2] \in DOMAIN g.blocks[q[1]].insts
           /\ g.blocks[q[1]].insts[q[2]].dst = v
           /\ q = <<q[1], q[2]>>
<1>1. /\ \E k \in DOMAIN g.blocks : q \in {k} \X (DOMAIN g.blocks[k].insts)
      /\ g.blocks[q[1]].insts[q[2]].dst = v
  BY DEF definitions
<1> QED
  BY <1>1

\* A use that comes before every definition of its block is dominated by a
\* definition in another block.
LEMMA UseBeforeDefinition ==
    ASSUME NEW g, has_valid_blocks(g), NEW D, uses_are_valid(g, D),
           NEW k \in DOMAIN g.blocks, NEW v \in use_set(g.blocks[k])
    PROVE  \E d \in definitions(g, v) : d[1] # k /\ g.blocks[d[1]].id \in D[g.blocks[k].id]
<1> DEFINE n == Len(g.blocks[k].insts)
<1>1. n \in Nat /\ DOMAIN g.blocks[k].insts = 1..n
  BY ValidBlocks
<1>2. PICK e \in 1..(n + 1) :
        v \in used_at(g.blocks[k], e) /\ \A y \in 1..(e - 1) : g.blocks[k].insts[y].dst # v
  BY DEF use_set
<1>3. is_dominated(g, D, v, k, e)
  BY <1>2 DEF uses_are_valid
<1>4. PICK d \in definitions(g, v) :
        IF d[1] = k THEN d[2] < e ELSE g.blocks[d[1]].id \in D[g.blocks[k].id]
  BY <1>3 DEF is_dominated
<1>5. d[1] # k
  <2> SUFFICES ASSUME d[1] = k PROVE FALSE
    OBVIOUS
  <2>1. d[2] \in 1..n /\ g.blocks[k].insts[d[2]].dst = v /\ d[2] < e
    BY <1>1, <1>4, DefinitionFields
  <2> HIDE DEF n
  <2>2. d[2] \in 1..(e - 1)
    BY <1>1, <1>2, <2>1
  <2> QED
    BY <1>2, <2>1, <2>2
<1> QED
  BY <1>4, <1>5

\* What a phi reads on an edge was defined in the block the edge leaves or in
\* one that dominates it.
LEMMA PhiUseDominated ==
    ASSUME NEW g, has_valid_blocks(g), NEW D, uses_are_valid(g, D),
           NEW b, NEW s \in block_ids(g), NEW v \in phi_uses(g, b, s)
    PROVE  /\ flows(g, b, s)
           /\ \E d \in definitions(g, v) : g.blocks[d[1]].id \in D[b] \cup {b}
<1>1. PICK j \in DOMAIN g.blocks : g.blocks[j].id = s /\ try_block(g, s) = g.blocks[j]
  BY ValidBlocks DEF block_ids
<1>2. PICK p \in phis(g.blocks[j]) : \E e \in Range(p.incoming) : e[1] = b /\ e[2] = v
  BY <1>1 DEF phi_uses
<1>3. PICK e \in Range(p.incoming) : e[1] = b /\ e[2] = v
  BY <1>2
<1>4. PICK x \in DOMAIN g.blocks[j].insts : p = g.blocks[j].insts[x] /\ is_phi(p)
  BY DEF phis
<1>5. x \in 1..(Len(g.blocks[j].insts) + 1) /\ x <= Len(g.blocks[j].insts)
  BY ValidBlocks
<1>6. phi_is_valid(g, D, build_predecessors(g), g.blocks[j], p)
  BY <1>4, <1>5 DEF uses_are_valid
<1>7. e[1] \in build_predecessors(g)[s]
  BY <1>1, <1>3, <1>6 DEF phi_is_valid
<1>8. flows(g, b, s)
  BY <1>3, <1>7 DEF build_predecessors, flows
<1>9. \E d \in definitions(g, v) : g.blocks[d[1]].id \in D[b] \cup {b}
  BY <1>3, <1>6 DEF phi_is_valid
<1> QED
  BY <1>8, <1>9

\* A valid function defines what it uses, and in another block than one that
\* uses it first.
LEMMA ValidDefinesUses ==
    ASSUME NEW g, has_valid_blocks(g), definitions_are_valid(g), NEW D, uses_are_valid(g, D)
    PROVE  defines_uses(g)
<1>1. ASSUME NEW v, NEW d \in definitions(g, v)
      PROVE  v \in def_set(g.blocks[d[1]]) /\ v \notin use_set(g.blocks[d[1]])
  <2>1. /\ d[1] \in DOMAIN g.blocks /\ d[2] \in DOMAIN g.blocks[d[1]].insts
        /\ g.blocks[d[1]].insts[d[2]].dst = v
    BY DefinitionFields
  <2>2. definitions(g, v) = {<<d[1], d[2]>>}
    BY <2>1, OnlyDefinition
  <2>3. ASSUME v \in use_set(g.blocks[d[1]]) PROVE FALSE
    <3>1. PICK c \in definitions(g, v) : c[1] # d[1]
      BY <2>1, <2>3, UseBeforeDefinition
    <3>2. c = <<d[1], d[2]>>
      BY <2>2
    <3> QED
      BY <3>1, <3>2
  <2> QED
    BY <2>1, <2>3 DEF def_set
<1>2. \A v : definitions(g, v) # {} =>
         \E j \in DOMAIN g.blocks : v \in def_set(g.blocks[j]) /\ v \notin use_set(g.blocks[j])
  BY <1>1, DefinitionFields
<1>3. \A j \in DOMAIN g.blocks : \A v \in use_set(g.blocks[j]) : definitions(g, v) # {}
  BY UseBeforeDefinition
<1>4. \A b, s \in block_ids(g) : \A v \in phi_uses(g, b, s) : definitions(g, v) # {}
  BY PhiUseDominated
<1> QED
  BY <1>2, <1>3, <1>4 DEF defines_uses

\* A function the validator accepts.
validated(g) == has_valid_blocks(g) /\ validate_function(g)

LEMMA Validated ==
    ASSUME NEW g, validated(g)
    PROVE  /\ definitions_are_valid(g)
           /\ uses_are_valid(g, compute_dominators(g))
           /\ defines_uses(g)
<1>1. has_valid_blocks(g) /\ definitions_are_valid(g) /\ uses_are_valid(g, compute_dominators(g))
  BY DEF validated, validate_function
<1> QED
  BY <1>1, ValidDefinesUses

\* A dominator of a block, other than itself, dominates every predecessor.
LEMMA DominatesPredecessors ==
    ASSUME NEW g, has_valid_blocks(g), NEW x, NEW y, flows(g, x, y),
           NEW d \in compute_dominators(g)[y], d # y
    PROVE  d \in compute_dominators(g)[x]
<1>1. x \in block_ids(g) /\ y \in block_ids(g)
  BY ValidBlocks
<1>2. compute_dominators(g) \in dom_maps(g) /\ dom_fixed(g, compute_dominators(g))
  BY DominatorsAreFixed
<1>3. y # g.entry
  BY <1>2 DEF dom_maps
<1>4. d \in next_of(g, compute_dominators(g), y)
  BY <1>1, <1>2, <1>3 DEF dom_fixed
<1> QED
  BY <1>1, <1>4, NextOf

\* A value that is live on entry to a block of a valid function is defined in
\* another block, which dominates it: nothing is live on entry to the function.
LEMMA LiveIsDominated ==
    ASSUME NEW g, validated(g), NEW b \in block_ids(g), NEW v \in compute_liveness(g).live_in[b]
    PROVE  \E d \in definitions(g, v) : /\ g.blocks[d[1]].id \in compute_dominators(g)[b]
                                        /\ g.blocks[d[1]].id # b
<1> DEFINE dm == compute_dominators(g)
<1>1. /\ has_valid_blocks(g) /\ definitions_are_valid(g) /\ uses_are_valid(g, dm)
      /\ defines_uses(g)
  BY Validated DEF validated
<1>2. \A j \in DOMAIN g.blocks : g.blocks[j].id \in block_ids(g)
                                 /\ successors(g.blocks[j].term) \subseteq block_ids(g)
  BY <1>1, ValidBlocks
<1> DEFINE X == {c \in block_ids(g) : \E d \in definitions(g, v) :
                    g.blocks[d[1]].id \in dm[c] /\ g.blocks[d[1]].id # c}
<1>3. \A j \in DOMAIN g.blocks : \A d \in definitions(g, v) :
        v \notin def_set(g.blocks[j]) => g.blocks[d[1]].id # g.blocks[j].id
  <2> SUFFICES ASSUME NEW j \in DOMAIN g.blocks, NEW d \in definitions(g, v),
                      g.blocks[d[1]].id = g.blocks[j].id
               PROVE  v \in def_set(g.blocks[j])
    OBVIOUS
  <2>1. d[1] = j
    BY <1>1, DefinitionFields, ValidBlocks
  <2> QED
    BY <2>1, DefinitionFields DEF def_set
<1>4. covers(g, v, X)
  <2> SUFFICES ASSUME NEW j \in DOMAIN g.blocks,
                      \/ v \in use_set(g.blocks[j])
                      \/ /\ v \notin def_set(g.blocks[j])
                         /\ \E s \in successors(g.blocks[j].term) :
                               \/ v \in phi_uses(g, g.blocks[j].id, s)
                               \/ s \in X /\ v \notin phi_defs(g, s)
               PROVE  g.blocks[j].id \in X
    BY DEF covers
  <2>1. CASE v \in use_set(g.blocks[j])
    <3>1. PICK d \in definitions(g, v) : d[1] # j /\ g.blocks[d[1]].id \in dm[g.blocks[j].id]
      BY <1>1, <2>1, UseBeforeDefinition
    <3>2. g.blocks[d[1]].id # g.blocks[j].id
      BY <1>1, <3>1, DefinitionFields, ValidBlocks
    <3> QED
      BY <1>2, <3>1, <3>2
  <2>2. ASSUME v \notin def_set(g.blocks[j]), NEW s \in successors(g.blocks[j].term),
               v \in phi_uses(g, g.blocks[j].id, s)
        PROVE  g.blocks[j].id \in X
    <3>1. PICK d \in definitions(g, v) : g.blocks[d[1]].id \in dm[g.blocks[j].id] \cup {g.blocks[j].id}
      BY <1>1, <1>2, <2>2, PhiUseDominated
    <3> QED
      BY <1>2, <1>3, <2>2, <3>1
  <2>3. ASSUME v \notin def_set(g.blocks[j]), NEW s \in successors(g.blocks[j].term), s \in X
        PROVE  g.blocks[j].id \in X
    <3>1. PICK d \in definitions(g, v) : g.blocks[d[1]].id \in dm[s] /\ g.blocks[d[1]].id # s
      BY <2>3
    <3>2. flows(g, g.blocks[j].id, s)
      BY <2>3 DEF flows
    <3>3. g.blocks[d[1]].id \in dm[g.blocks[j].id]
      BY <1>1, <3>1, <3>2, DominatesPredecessors
    <3> QED
      BY <1>2, <1>3, <2>3, <3>3
  <2> QED
    BY <2>1, <2>2, <2>3
<1>5. b \in entered(g, compute_liveness(g), v)
  BY DEF entered
<1> HIDE DEF X
<1>6. b \in X
  BY <1>1, <1>4, <1>5, LivenessIsFixed
<1> QED
  BY <1>6 DEF X

=============================================================================
