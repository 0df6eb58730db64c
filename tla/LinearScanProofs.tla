-------------------------- MODULE LinearScanProofs --------------------------
(***************************************************************************)
(* Linear scan's result always passes the verifier: the inductive          *)
(* invariant of LinearScan and its proof, for every interval list, every   *)
(* register set the code generator accepts and every budget.               *)
(***************************************************************************)
EXTENDS LinearScan, OperatorProofs

-----------------------------------------------------------------------------
(* The inductive invariant.                                                *)

\* The loop visits the intervals in the order of their starts.
VisitedStartFirst ==
    \A v \in DOMAIN map, w \in pending :
        intervals[v].start <= intervals[w].start

\* The active list tells who holds a register; nobody holds a free one.
ActiveHoldsRegister ==
    /\ \A e \in active : map[e[1]] = Reg(e[2]) /\ e[2] \notin free
    /\ \A e, f \in active : e[2] = f[2] => e = f

\* A value that left the active list ended before anything still to come.
ExpiredIsOver ==
    \A v \in DOMAIN map :
        map[v].kind = "reg" =>
            \/ <<v, map[v].reg>> \in active
            \/ \A w \in pending : intervals[v].end < intervals[w].start

\* Values that overlap are in different locations.
NoConflict == ConflictFree(intervals, map)

\* The slots handed out are exactly the slots in use, one value each.
SlotsAreDense == DenseSlots(map, stack_slots)

IInv ==
    /\ TypeOK
    /\ VisitedStartFirst
    /\ ActiveHoldsRegister
    /\ ExpiredIsOver
    /\ NoConflict
    /\ SlotsAreDense
    /\ VerifierAccepts

-----------------------------------------------------------------------------
(* Lemmas.                                                                 *)

\* A span has natural ends in order.
LEMMA SpanFields ==
    ASSUME TypeOK, NEW v \in Values
    PROVE  /\ intervals[v].start \in Nat
           /\ intervals[v].end \in Nat
           /\ intervals[v].start <= intervals[v].end
BY MaxPosAssumption DEF TypeOK, Spans

\* The current interval starts no later than any other pending one.
LEMMA CurrentStartsFirst ==
    ASSUME TypeOK, NEW v, is_current(v), NEW w \in pending
    PROVE  intervals[v].start <= intervals[w].start
<1>1. v \in Values /\ w \in Values
  BY DEF is_current, pending
<1>2. CASE w = v
  BY <1>1, <1>2, SpanFields
<1>3. CASE w # v
  <2>1. precedes(v, w)
    BY <1>3 DEF is_current
  <2> QED
    BY <1>1, <2>1, SpanFields DEF precedes
<1> QED
  BY <1>2, <1>3

\* What expire_old establishes for the current interval v: nobody holds a
\* freed register, the entries kept are as before, and a value that holds a
\* register without being active has ended before v starts.
LEMMA AfterExpiry ==
    ASSUME IInv, NEW v, is_current(v)
    PROVE  /\ freed(v) \subseteq allowed_regs(RegSet, max_regs)
           /\ still_active(v) \subseteq active
           /\ \A e \in still_active(v) : e[2] \notin freed(v)
           /\ \A x \in DOMAIN map :
                  map[x].kind = "reg" =>
                      \/ <<x, map[x].reg>> \in still_active(v)
                      \/ intervals[x].end < intervals[v].start
<1>1. still_active(v) \subseteq active
  BY DEF still_active
<1>2. freed(v) \subseteq allowed_regs(RegSet, max_regs)
  BY DEF freed, IInv, TypeOK
<1>3. ASSUME NEW e \in still_active(v) PROVE e[2] \notin freed(v)
  BY <1>1, <1>3 DEF freed, IInv, ActiveHoldsRegister
<1>4. ASSUME NEW x \in DOMAIN map, map[x].kind = "reg",
             <<x, map[x].reg>> \notin still_active(v)
      PROVE  intervals[x].end < intervals[v].start
  <2>1. v \in pending /\ v \in Values /\ x \in Values
    BY DEF is_current, pending, IInv, TypeOK
  <2>2. CASE <<x, map[x].reg>> \in active
    BY <1>4, <2>1, <2>2, SpanFields DEF still_active, IInv
  <2>3. CASE <<x, map[x].reg>> \notin active
    BY <1>4, <2>1, <2>3 DEF IInv, ExpiredIsOver
  <2> QED
    BY <2>2, <2>3
<1> QED
  BY <1>1, <1>2, <1>3, <1>4

-----------------------------------------------------------------------------
(* The verifier's answer at the end of the loop.                           *)

\* The slots in use are below the counter.
LEMMA SlotsBelowCounter ==
    ASSUME TypeOK
    PROVE  \A y \in spilled(map) : map[y].slot \in 0..(stack_slots - 1)
BY LocationFields DEF TypeOK, spilled

\* After the loop every check of verify_assignment succeeds.
LEMMA AssignmentIsAccepted ==
    ASSUME IInv, pending = {}
    PROVE  verify_assignment(intervals, RegSet, register_limit(RegSet, max_regs),
                             assignment) = {"Ok"}
<1>1. TypeOK /\ SlotsAreDense /\ NoConflict
  BY DEF IInv
<1>2. /\ DOMAIN map = Values /\ DOMAIN intervals = Values
      /\ max_regs \in Nat /\ stack_slots \in Nat
  BY <1>1 DEF pending, TypeOK
<1>3. LocationsAllowed(map, stack_slots, RegSet, max_regs)
  BY <1>1 DEF TypeOK, LocationsAllowed
<1>4. valid(RegSet)
  BY RegSetAssumption DEF valid
<1> QED
  BY <1>1, <1>2, <1>3, <1>4, ValuesAssumption, VerifierAnswersOk
     DEF assignment, NoConflict, SlotsAreDense

-----------------------------------------------------------------------------
(* The invariant is inductive.                                             *)

\* It holds before the loop, when nothing has a location.
LEMMA InitIInv == Init => IInv
<1> SUFFICES ASSUME Init PROVE IInv
  OBVIOUS
<1>1. DOMAIN map = {} /\ spilled(map) = {} /\ stack_slots = 0 /\ active = {}
  BY DEF Init, spilled
<1>2. max_regs \in Nat
  BY RegSetAssumption DEF Init
<1>3. TypeOK
  BY <1>1, <1>2 DEF Init, TypeOK
<1>4. SlotsAreDense
  BY <1>1 DEF SlotsAreDense, DenseSlots
<1> QED
  BY <1>1, <1>3, <1>4 DEF Init, IInv, VisitedStartFirst, ActiveHoldsRegister,
         ExpiredIsOver, NoConflict, ConflictFree, VerifierAccepts

\* What every iteration does to the order of the loop: the current interval
\* joins those visited.
LEMMA OrderStep ==
    ASSUME IInv, NEW v, is_current(v), DOMAIN map' = DOMAIN map \cup {v},
           UNCHANGED intervals
    PROVE  /\ v \in Values /\ v \notin DOMAIN map
           /\ DOMAIN map' \subseteq Values
           /\ pending' \subseteq pending
           /\ \A w \in pending' : intervals[v].start <= intervals[w].start
           /\ VisitedStartFirst'
<1>1. TypeOK
  BY DEF IInv
<1>2. v \in Values /\ v \notin DOMAIN map /\ DOMAIN map \subseteq Values
  BY <1>1 DEF is_current, pending, TypeOK
<1>3. pending' \subseteq pending
  BY DEF pending
<1>4. \A w \in pending : intervals[v].start <= intervals[w].start
  BY <1>1, CurrentStartsFirst
<1>5. VisitedStartFirst'
  BY <1>3, <1>4 DEF VisitedStartFirst, IInv
<1> QED
  BY <1>2, <1>3, <1>4, <1>5

\* A free register goes to the current interval.
LEMMA TakeRegisterStep ==
    ASSUME IInv, NEW v, TakeRegister(v)
    PROVE  IInv'
<1>1. PICK r \in freed(v) :
        /\ free' = freed(v) \ {r}
        /\ active' = still_active(v) \cup {<<v, r>>}
        /\ map' = insert(map, v, Reg(r))
  BY DEF TakeRegister
<1>2. is_current(v) /\ UNCHANGED <<intervals, max_regs, stack_slots, result>>
  BY DEF TakeRegister
<1>3. /\ DOMAIN map' = DOMAIN map \cup {v}
      /\ map'[v] = Reg(r)
      /\ \A x \in DOMAIN map \ {v} : map'[x] = map[x]
  BY <1>1 DEF insert
<1>4. /\ v \in Values /\ v \notin DOMAIN map
      /\ DOMAIN map' \subseteq Values
      /\ pending' \subseteq pending
      /\ \A w \in pending' : intervals[v].start <= intervals[w].start
      /\ VisitedStartFirst'
  BY <1>2, <1>3, OrderStep
<1>5. /\ freed(v) \subseteq allowed_regs(RegSet, max_regs)
      /\ still_active(v) \subseteq active
      /\ \A e \in still_active(v) : e[2] \notin freed(v)
      /\ \A x \in DOMAIN map : map[x].kind = "reg" =>
             \/ <<x, map[x].reg>> \in still_active(v)
             \/ intervals[x].end < intervals[v].start
  BY <1>2, AfterExpiry
<1>6. TypeOK /\ TypeOK'
  <2>1. TypeOK
    BY DEF IInv
  <2>2. active' \subseteq (DOMAIN map') \X allowed_regs(RegSet, max_regs')
    BY <1>1, <1>2, <1>3, <1>5, <2>1 DEF TypeOK
  <2>3. \A x \in DOMAIN map' :
           \/ /\ map'[x].kind = "reg"
              /\ map'[x] = Reg(map'[x].reg)
              /\ map'[x].reg \in allowed_regs(RegSet, max_regs')
           \/ /\ map'[x].kind = "stack"
              /\ map'[x] = Stack(map'[x].slot)
              /\ map'[x].slot \in 0..(stack_slots' - 1)
    BY <1>1, <1>2, <1>3, <1>5, <2>1, LocationFields DEF TypeOK
  <2> QED
    BY <1>1, <1>2, <1>4, <1>5, <2>1, <2>2, <2>3 DEF TypeOK
<1>7. ActiveHoldsRegister'
  <2>1. ActiveHoldsRegister
    BY DEF IInv
  <2>2. \A e \in still_active(v) : e[1] \in DOMAIN map \ {v}
    BY <1>4, <1>5, <1>6 DEF TypeOK
  <2>3. \A e \in active' : map'[e[1]] = Reg(e[2]) /\ e[2] \notin free'
    BY <1>1, <1>3, <1>5, <2>1, <2>2 DEF ActiveHoldsRegister
  <2>4. \A e, f \in active' : e[2] = f[2] => e = f
    BY <1>1, <1>5, <2>1 DEF ActiveHoldsRegister
  <2> QED
    BY <2>3, <2>4 DEF ActiveHoldsRegister
<1>8. ExpiredIsOver'
  <2> SUFFICES ASSUME NEW x \in DOMAIN map', map'[x].kind = "reg",
                      <<x, map'[x].reg>> \notin active', NEW w \in pending'
               PROVE  intervals[x].end < intervals[w].start
    BY <1>2 DEF ExpiredIsOver
  <2>1. x # v
    BY <1>1, <1>3, LocationFields
  <2>2. intervals[x].end < intervals[v].start
    BY <1>1, <1>3, <1>5, <2>1
  <2>3. x \in Values /\ v \in Values /\ w \in Values
    BY <1>4 DEF pending
  <2> QED
    BY <1>4, <1>6, <2>2, <2>3, SpanFields
<1>9. NoConflict'
  <2>1. ASSUME NEW x \in DOMAIN map, map[x] = Reg(r)
        PROVE  intervals[x].end < intervals[v].start
    <3>1. map[x].kind = "reg" /\ map[x].reg = r
      BY <2>1, LocationFields
    <3>2. <<x, r>> \notin still_active(v)
      BY <1>5
    <3> QED
      BY <1>5, <3>1, <3>2
  <2>2. ASSUME NEW x \in DOMAIN map, map[x] = Reg(r)
        PROVE  /\ ~overlaps(intervals[x], intervals[v])
               /\ ~overlaps(intervals[v], intervals[x])
    BY <2>1, <2>2 DEF overlaps
  <2> QED
    BY <1>2, <1>3, <2>2 DEF NoConflict, ConflictFree, IInv
<1>10. SlotsAreDense'
  <2>1. spilled(map') = spilled(map)
    BY <1>3, <1>4, LocationFields DEF spilled
  <2>2. \A x \in spilled(map) : map'[x] = map[x]
    BY <1>3, <1>4 DEF spilled
  <2> QED
    BY <1>2, <2>1, <2>2 DEF SlotsAreDense, DenseSlots, IInv
<1> QED
  BY <1>2, <1>4, <1>6, <1>7, <1>8, <1>9, <1>10 DEF IInv, VerifierAccepts

\* No register is free: the current interval gets a new slot.
LEMMA SpillCurrentStep ==
    ASSUME IInv, NEW v, SpillCurrent(v)
    PROVE  IInv'
<1>1. /\ free' = {}
      /\ active' = still_active(v)
      /\ map' = insert(map, v, Stack(stack_slots))
      /\ stack_slots' = stack_slots + 1
      /\ is_current(v)
      /\ UNCHANGED <<intervals, max_regs, result>>
  BY DEF SpillCurrent
<1>2. /\ DOMAIN map' = DOMAIN map \cup {v}
      /\ map'[v] = Stack(stack_slots)
      /\ \A x \in DOMAIN map \ {v} : map'[x] = map[x]
  BY <1>1 DEF insert
<1>3. /\ v \in Values /\ v \notin DOMAIN map
      /\ DOMAIN map' \subseteq Values
      /\ pending' \subseteq pending
      /\ \A w \in pending' : intervals[v].start <= intervals[w].start
      /\ VisitedStartFirst'
  BY <1>1, <1>2, OrderStep
<1>4. /\ still_active(v) \subseteq active
      /\ \A x \in DOMAIN map : map[x].kind = "reg" =>
             \/ <<x, map[x].reg>> \in still_active(v)
             \/ intervals[x].end < intervals[v].start
  BY <1>1, AfterExpiry
<1>5. TypeOK /\ TypeOK'
  <2>1. TypeOK /\ stack_slots \in Nat
    BY DEF IInv, TypeOK
  <2>2. active' \subseteq (DOMAIN map') \X allowed_regs(RegSet, max_regs')
    BY <1>1, <1>2, <1>4, <2>1 DEF TypeOK
  <2>3. \A x \in DOMAIN map' :
           \/ /\ map'[x].kind = "reg"
              /\ map'[x] = Reg(map'[x].reg)
              /\ map'[x].reg \in allowed_regs(RegSet, max_regs')
           \/ /\ map'[x].kind = "stack"
              /\ map'[x] = Stack(map'[x].slot)
              /\ map'[x].slot \in 0..(stack_slots' - 1)
    <3>1. 0..(stack_slots - 1) \subseteq 0..(stack_slots' - 1)
      BY <1>1, <2>1
    <3>2. stack_slots \in 0..(stack_slots' - 1)
      BY <1>1, <2>1
    <3> QED
      BY <1>1, <1>2, <2>1, <3>1, <3>2, LocationFields DEF TypeOK
  <2> QED
    BY <1>1, <1>3, <2>1, <2>2, <2>3 DEF TypeOK
<1>6. ActiveHoldsRegister'
  <2>1. \A e \in active' : e \in active /\ e[1] \in DOMAIN map \ {v}
    BY <1>1, <1>3, <1>4, <1>5 DEF TypeOK
  <2> QED
    BY <1>1, <1>2, <2>1 DEF IInv, ActiveHoldsRegister
<1>7. ExpiredIsOver'
  <2> SUFFICES ASSUME NEW x \in DOMAIN map', map'[x].kind = "reg",
                      <<x, map'[x].reg>> \notin active', NEW w \in pending'
               PROVE  intervals[x].end < intervals[w].start
    BY <1>1 DEF ExpiredIsOver
  <2>1. x # v
    BY <1>2, LocationFields
  <2>2. intervals[x].end < intervals[v].start
    BY <1>1, <1>2, <1>4, <2>1
  <2>3. x \in Values /\ v \in Values /\ w \in Values
    BY <1>3 DEF pending
  <2> QED
    BY <1>3, <1>5, <2>2, <2>3, SpanFields
<1>8. SlotsAreDense' /\ \A y \in spilled(map) : map[y].slot # stack_slots
  <2>1. v \notin spilled(map) /\ \A y \in spilled(map) : map'[y] = map[y]
    BY <1>2, <1>3 DEF spilled
  <2>2. spilled(map') = spilled(map) \cup {v}
    BY <1>2, <1>3, LocationFields DEF spilled
  <2>3. DenseSlots(map, stack_slots) /\ stack_slots \in Nat
    BY <1>5 DEF IInv, SlotsAreDense, TypeOK
  <2> QED
    BY <1>1, <1>2, <1>5, <2>1, <2>2, <2>3, SlotsBelowCounter, FreshSlot DEF SlotsAreDense
<1>9. NoConflict'
  <2>1. \A x \in DOMAIN map : map[x] # Stack(stack_slots)
    BY <1>8, LocationFields DEF spilled
  <2> QED
    BY <1>1, <1>2, <2>1 DEF NoConflict, ConflictFree, IInv
<1> QED
  BY <1>1, <1>3, <1>5, <1>6, <1>7, <1>8, <1>9 DEF IInv, VerifierAccepts

\* The interval that ends last moves to a new slot, the current one takes its
\* register.
LEMMA SpillFarthestStep ==
    ASSUME IInv, NEW v, SpillFarthest(v)
    PROVE  IInv'
<1>1. PICK e \in still_active(v) :
        /\ active' = (still_active(v) \ {e}) \cup {<<v, e[2]>>}
        /\ map' = insert(insert(map, e[1], Stack(stack_slots)), v, Reg(e[2]))
  BY DEF SpillFarthest
<1>2. /\ free' = {}
      /\ stack_slots' = stack_slots + 1
      /\ is_current(v)
      /\ UNCHANGED <<intervals, max_regs, result>>
  BY DEF SpillFarthest
<1>3. /\ still_active(v) \subseteq active
      /\ \A x \in DOMAIN map : map[x].kind = "reg" =>
             \/ <<x, map[x].reg>> \in still_active(v)
             \/ intervals[x].end < intervals[v].start
  BY <1>2, AfterExpiry
<1>4. /\ TypeOK /\ ActiveHoldsRegister
      /\ e \in active
      /\ e = <<e[1], e[2]>>
      /\ e[1] \in DOMAIN map
      /\ e[2] \in allowed_regs(RegSet, max_regs)
      /\ map[e[1]] = Reg(e[2])
  BY <1>3 DEF IInv, TypeOK, ActiveHoldsRegister
<1>5. v \in Values /\ v \notin DOMAIN map /\ v # e[1]
  BY <1>2, <1>4 DEF is_current, pending
<1>6. /\ DOMAIN map' = DOMAIN map \cup {v}
      /\ map'[v] = Reg(e[2])
      /\ map'[e[1]] = Stack(stack_slots)
      /\ \A x \in DOMAIN map \ {e[1]} : map'[x] = map[x]
  BY <1>1, <1>4, <1>5 DEF insert
<1>7. /\ DOMAIN map' \subseteq Values
      /\ pending' \subseteq pending
      /\ \A w \in pending' : intervals[v].start <= intervals[w].start
      /\ VisitedStartFirst'
  BY <1>2, <1>6, OrderStep
<1>8. TypeOK'
  <2>1. stack_slots \in Nat
    BY <1>4 DEF TypeOK
  <2>2. active' \subseteq (DOMAIN map') \X allowed_regs(RegSet, max_regs')
    BY <1>1, <1>2, <1>3, <1>4, <1>6 DEF TypeOK
  <2>3. \A x \in DOMAIN map' :
           \/ /\ map'[x].kind = "reg"
              /\ map'[x] = Reg(map'[x].reg)
              /\ map'[x].reg \in allowed_regs(RegSet, max_regs')
           \/ /\ map'[x].kind = "stack"
              /\ map'[x] = Stack(map'[x].slot)
              /\ map'[x].slot \in 0..(stack_slots' - 1)
    <3>1. 0..(stack_slots - 1) \subseteq 0..(stack_slots' - 1)
      BY <1>2, <2>1
    <3>2. stack_slots \in 0..(stack_slots' - 1)
      BY <1>2, <2>1
    <3> QED
      BY <1>2, <1>4, <1>6, <3>1, <3>2, LocationFields DEF TypeOK
  <2> QED
    BY <1>2, <1>4, <1>7, <2>1, <2>2, <2>3 DEF TypeOK
<1>9. \A f \in still_active(v) \ {e} :
         f \in active /\ f[1] \in DOMAIN map \ {e[1]} /\ f[2] # e[2]
  <2> SUFFICES ASSUME NEW f \in still_active(v), f # e
               PROVE  f \in active /\ f[1] \in DOMAIN map \ {e[1]} /\ f[2] # e[2]
    OBVIOUS
  <2>1. f \in active /\ f[1] \in DOMAIN map /\ map[f[1]] = Reg(f[2]) /\ f[2] # e[2]
    BY <1>3, <1>4 DEF TypeOK, ActiveHoldsRegister
  <2>2. f[1] # e[1]
    BY <1>4, <2>1, LocationFields
  <2> QED
    BY <2>1, <2>2
<1>10. ActiveHoldsRegister'
  <2>1. \A f \in active' : map'[f[1]] = Reg(f[2]) /\ f[2] \notin free'
    BY <1>1, <1>2, <1>4, <1>6, <1>9 DEF ActiveHoldsRegister
  <2>2. \A f, g \in active' : f[2] = g[2] => f = g
    BY <1>1, <1>4, <1>9 DEF ActiveHoldsRegister
  <2> QED
    BY <2>1, <2>2 DEF ActiveHoldsRegister
<1>11. ExpiredIsOver'
  <2> SUFFICES ASSUME NEW x \in DOMAIN map', map'[x].kind = "reg",
                      <<x, map'[x].reg>> \notin active', NEW w \in pending'
               PROVE  intervals[x].end < intervals[w].start
    BY <1>2 DEF ExpiredIsOver
  <2>1. x # v /\ x # e[1]
    BY <1>1, <1>6, LocationFields
  <2>2. x \in DOMAIN map /\ map'[x] = map[x] /\ <<x, map[x].reg>> # e
    BY <1>4, <1>6, <2>1
  <2>3. intervals[x].end < intervals[v].start
    BY <1>1, <1>3, <2>2
  <2>4. x \in Values /\ v \in Values /\ w \in Values
    BY <1>5, <1>7 DEF pending
  <2> QED
    BY <1>4, <1>7, <2>3, <2>4, SpanFields
<1>12. SlotsAreDense' /\ \A y \in spilled(map) : map[y].slot # stack_slots
  <2>1. e[1] \notin spilled(map)
    BY <1>4, LocationFields DEF spilled
  <2>2. \A y \in spilled(map) : map'[y] = map[y]
    BY <1>6, <2>1 DEF spilled
  <2>3. spilled(map') = spilled(map) \cup {e[1]}
    BY <1>4, <1>5, <1>6, LocationFields DEF spilled
  <2>4. DenseSlots(map, stack_slots) /\ stack_slots \in Nat
    BY <1>4 DEF IInv, SlotsAreDense, TypeOK
  <2> QED
    BY <1>2, <1>4, <1>6, <2>1, <2>2, <2>3, <2>4, SlotsBelowCounter, FreshSlot
       DEF SlotsAreDense
<1>13. NoConflict'
  <2>1. \A x \in DOMAIN map : map[x] # Stack(stack_slots)
    BY <1>12, LocationFields DEF spilled
  <2>2. ASSUME NEW x \in DOMAIN map \ {e[1]}, map[x] = Reg(e[2])
        PROVE  intervals[x].end < intervals[v].start
    <3>1. map[x].kind = "reg" /\ map[x].reg = e[2]
      BY <2>2, LocationFields
    <3>2. <<x, e[2]>> \notin still_active(v)
      BY <1>4, <1>9
    <3> QED
      BY <1>3, <3>1, <3>2
  <2>3. ASSUME NEW x \in DOMAIN map \ {e[1]}, map[x] = Reg(e[2])
        PROVE  /\ ~overlaps(intervals[x], intervals[v])
               /\ ~overlaps(intervals[v], intervals[x])
    BY <2>2, <2>3 DEF overlaps
  <2>4. Stack(stack_slots) # Reg(e[2])
    BY LocationFields
  <2> SUFFICES ASSUME NEW x \in DOMAIN map', NEW y \in DOMAIN map', x # y,
                      map'[x] = map'[y]
               PROVE  ~overlaps(intervals[x], intervals[y])
    BY <1>2 DEF NoConflict, ConflictFree
  <2>5. CASE x = v
    BY <1>6, <2>3, <2>4, <2>5
  <2>6. CASE y = v
    BY <1>6, <2>3, <2>4, <2>6
  <2>7. CASE x # v /\ y # v
    BY <1>6, <2>1, <2>7 DEF IInv, NoConflict, ConflictFree
  <2> QED
    BY <2>5, <2>6, <2>7
<1> QED
  BY <1>2, <1>7, <1>8, <1>10, <1>11, <1>12, <1>13 DEF IInv, VerifierAccepts

\* The verifier accepts, and changes nothing.
LEMMA VerifyStep ==
    ASSUME IInv, Verify
    PROVE  IInv'
<1>1. result' = "Ok" /\ UNCHANGED <<intervals, max_regs, free, active, map, stack_slots>>
  BY AssignmentIsAccepted DEF Verify
<1> QED
  BY <1>1 DEF IInv, TypeOK, VisitedStartFirst, ActiveHoldsRegister, ExpiredIsOver,
         NoConflict, SlotsAreDense, VerifierAccepts, pending

-----------------------------------------------------------------------------
(* The theorems.                                                           *)

\* The inductive invariant holds throughout allocate.
THEOREM AllocationInvariant == Init /\ [][Next]_vars => []IInv
<1>1. IInv /\ [Next]_vars => IInv'
  <2> SUFFICES ASSUME IInv, [Next]_vars PROVE IInv'
    OBVIOUS
  <2>1. CASE \E v \in Values : TakeRegister(v)
    BY <2>1, TakeRegisterStep
  <2>2. CASE \E v \in Values : SpillCurrent(v)
    BY <2>2, SpillCurrentStep
  <2>3. CASE \E v \in Values : SpillFarthest(v)
    BY <2>3, SpillFarthestStep
  <2>4. CASE Verify
    BY <2>4, VerifyStep
  <2>5. CASE UNCHANGED vars
    BY <2>5 DEF vars, IInv, TypeOK, VisitedStartFirst, ActiveHoldsRegister,
           ExpiredIsOver, NoConflict, SlotsAreDense, VerifierAccepts, pending
  <2> QED
    BY <2>1, <2>2, <2>3, <2>4, <2>5 DEF Next
<1> QED
  BY <1>1, InitIInv, PTL

\* Type correctness: every location handed out is an allowed register or a
\* slot below the slot counter.
THEOREM LinearScanTypeOK == Spec => []TypeOK
BY AllocationInvariant, PTL DEF IInv, Spec

\* verify_assignment never rejects what linear scan computed: for every
\* interval list, every register set the code generator accepts and every
\* budget, allocate returns Ok.
THEOREM LinearScanIsAccepted == Spec => []VerifierAccepts
BY AllocationInvariant, PTL DEF IInv, Spec

-----------------------------------------------------------------------------
(* The second inductive invariant: linear scan keeps as many values in      *)
(* registers as can be kept there.  The argument is an exchange: evicting  *)
(* the interval that ends last never leaves another choice ahead.          *)

kept == DOMAIN map \ spilled(map)

\* The values of X that end before the position t.
ended(X, t) == {x \in X : intervals[x].end < t}

\* Every register is free or held by an active interval: none gets lost.
RegistersAreConserved ==
    allowed_regs(RegSet, max_regs) \subseteq free \cup {e[2] : e \in active}

\* Among the values visited so far no set that fits is ahead of the values
\* kept: at no position from here on have more of its members ended.
KeepsMost ==
    \A S \in SUBSET DOMAIN map : \A t \in Nat :
        fits(S) /\ (\A w \in DOMAIN map : intervals[w].start <= t) =>
            Cardinality(ended(S, t)) <= Cardinality(ended(kept, t))

VerifiedLast == result # "none" => pending = {}

SInv ==
    /\ IInv
    /\ RegistersAreConserved
    /\ KeepsMost
    /\ VerifiedLast

-----------------------------------------------------------------------------
(* Lemmas.                                                                 *)

\* As many registers are allowed as the limit says: none is listed twice.
LEMMA AllowedLimit ==
    ASSUME max_regs \in Nat
    PROVE  /\ IsFiniteSet(allowed_regs(RegSet, max_regs))
           /\ Cardinality(allowed_regs(RegSet, max_regs)) = register_limit(RegSet, max_regs)
           /\ register_limit(RegSet, max_regs) \in Nat
<1>1. valid(RegSet)
  BY RegSetAssumption DEF valid
<1> QED
  BY <1>1, AllowedCount, BudgetIsCutOnce

\* The values are finitely many, and so is every set of them.
LEMMA ValuesAreFinite ==
    ASSUME NEW X \in SUBSET Values
    PROVE  IsFiniteSet(X) /\ Cardinality(X) \in Nat
BY ValuesAssumption, FS_Subset, FS_CardinalityType

\* A part of a set that fits does too.
LEMMA PartFits ==
    ASSUME NEW X \in SUBSET Values, NEW Y \in SUBSET X, fits(X), max_regs \in Nat
    PROVE  fits(Y)
<1> SUFFICES ASSUME NEW p \in 0..MaxPos
             PROVE  Cardinality({v \in Y : intervals[v].start <= p /\ p <= intervals[v].end})
                        <= register_limit(RegSet, max_regs)
  BY DEF fits
<1> DEFINE XP == {v \in X : intervals[v].start <= p /\ p <= intervals[v].end}
           YP == {v \in Y : intervals[v].start <= p /\ p <= intervals[v].end}
<1>1. Cardinality(XP) <= register_limit(RegSet, max_regs)
  BY DEF fits
<1>2. IsFiniteSet(XP) /\ Cardinality(XP) \in Nat
  BY ValuesAreFinite
<1>3. YP \in SUBSET XP
  OBVIOUS
<1>4. Cardinality(YP) <= Cardinality(XP) /\ Cardinality(YP) \in Nat
  BY <1>2, <1>3, FS_Subset, FS_CardinalityType
<1> QED
  BY <1>1, <1>2, <1>4, AllowedLimit

\* A set is its ended part and the rest.
LEMMA EndedAndRest ==
    ASSUME NEW X \in SUBSET Values, NEW t \in Nat
    PROVE  /\ Cardinality(X) = Cardinality(ended(X, t)) + Cardinality(X \ ended(X, t))
           /\ Cardinality(ended(X, t)) \in Nat
           /\ Cardinality(X \ ended(X, t)) \in Nat
<1>1. IsFiniteSet(X) /\ Cardinality(X) \in Nat
  BY ValuesAreFinite
<1>2. ended(X, t) \subseteq X /\ X \cap ended(X, t) = ended(X, t)
  BY DEF ended
<1>3. Cardinality(X \ ended(X, t)) = Cardinality(X) - Cardinality(ended(X, t))
  BY <1>1, <1>2, FS_Difference
<1>4. Cardinality(ended(X, t)) \in Nat /\ Cardinality(X \ ended(X, t)) \in Nat
  BY <1>2, ValuesAreFinite
<1> QED
  BY <1>1, <1>3, <1>4

\* What the loop has visited when it comes to v: values that start no later
\* than v does.
LEMMA VisitedBeforeCurrent ==
    ASSUME IInv, NEW v, is_current(v)
    PROVE  /\ v \in Values /\ v \notin DOMAIN map /\ DOMAIN map \subseteq Values
           /\ kept \subseteq DOMAIN map
           /\ max_regs \in Nat
           /\ intervals[v].start \in 0..MaxPos /\ intervals[v].start \in Nat
           /\ intervals[v].end \in Nat
           /\ intervals[v].start <= intervals[v].end
           /\ \A w \in DOMAIN map : intervals[w].start <= intervals[v].start
<1>1. TypeOK /\ VisitedStartFirst
  BY DEF IInv
<1>2. /\ v \in Values /\ v \notin DOMAIN map /\ DOMAIN map \subseteq Values
      /\ v \in pending /\ max_regs \in Nat
  BY <1>1 DEF is_current, pending, TypeOK
<1>3. intervals[v].start \in 0..MaxPos
  BY <1>1, <1>2 DEF TypeOK, Spans
<1> QED
  BY <1>1, <1>2, <1>3, SpanFields, MaxPosAssumption DEF VisitedStartFirst, kept

\* When no register is free at v, the kept values that have not ended hold all
\* of them.
LEMMA AllRegistersHeld ==
    ASSUME SInv, NEW v, is_current(v), freed(v) = {}
    PROVE  register_limit(RegSet, max_regs)
               <= Cardinality(kept \ ended(kept, intervals[v].start))
<1> DEFINE c == intervals[v].start
           L == kept \ ended(kept, c)
           A == allowed_regs(RegSet, max_regs)
           f == [x \in L |-> map[x].reg]
<1>1. IInv /\ TypeOK /\ ActiveHoldsRegister /\ RegistersAreConserved /\ max_regs \in Nat
  BY DEF SInv, IInv, TypeOK
<1>2. f \in [L -> A]
  BY <1>1, LocationFields DEF TypeOK, kept, spilled
<1>3. ASSUME NEW r \in A PROVE \E x \in L : map[x].reg = r
  <2>1. free = {} /\ \A e \in active : e \in still_active(v)
    BY DEF freed
  <2>2. PICK e \in active : e[2] = r
    BY <1>1, <2>1 DEF RegistersAreConserved
  <2>3. e[1] \in DOMAIN map /\ map[e[1]] = Reg(r)
    BY <1>1, <2>2 DEF TypeOK, ActiveHoldsRegister
  <2>4. e[1] \in kept /\ map[e[1]].reg = r
    BY <2>3, LocationFields DEF kept, spilled
  <2>5. intervals[e[1]].end >= c
    BY <2>1, <2>2 DEF still_active
  <2>6. intervals[e[1]].end \in Nat /\ c \in Nat
    BY <1>1, <2>3, SpanFields, VisitedBeforeCurrent DEF TypeOK
  <2>7. e[1] \notin ended(kept, c)
    BY <2>5, <2>6 DEF ended
  <2> QED
    BY <2>4, <2>7
<1>4. f \in Surjection(L, A)
  BY <1>2, <1>3 DEF Surjection
<1>5. L \in SUBSET Values
  BY <1>1, VisitedBeforeCurrent
<1>6. IsFiniteSet(L)
  BY <1>5, ValuesAreFinite
<1> HIDE DEF f, A, L
<1>7. Cardinality(A) <= Cardinality(L)
  BY <1>4, <1>6, FS_Surjection
<1> QED
  BY <1>1, <1>7, AllowedLimit DEF A, L

\* Then no set that fits, v included, is larger than the set kept: as many of
\* its members have ended as the invariant says, and the others are live at
\* the start of v.
LEMMA NoLargerSetFits ==
    ASSUME SInv, NEW v, is_current(v), freed(v) = {},
           NEW S \in SUBSET (DOMAIN map \cup {v}), fits(S)
    PROVE  Cardinality(S) <= Cardinality(kept)
<1> DEFINE c == intervals[v].start
           limit == register_limit(RegSet, max_regs)
<1>1. IInv /\ TypeOK /\ KeepsMost
  BY DEF SInv, IInv
<1>2. /\ v \in Values /\ v \notin DOMAIN map /\ DOMAIN map \subseteq Values
      /\ kept \subseteq DOMAIN map /\ max_regs \in Nat
      /\ c \in 0..MaxPos /\ c \in Nat /\ intervals[v].end \in Nat /\ c <= intervals[v].end
      /\ \A w \in DOMAIN map : intervals[w].start <= c
  BY <1>1, VisitedBeforeCurrent
<1>3. S \in SUBSET Values /\ kept \in SUBSET Values
  BY <1>2
<1>4. Cardinality(S \ ended(S, c)) <= limit
  <2>1. \A x \in S : intervals[x].end \in Nat /\ intervals[x].start <= c
    BY <1>1, <1>2, <1>3, SpanFields
  <2>2. S \ ended(S, c) = {x \in S : intervals[x].start <= c /\ c <= intervals[x].end}
    BY <1>2, <2>1 DEF ended
  <2> QED
    BY <1>2, <2>2 DEF fits
<1>5. Cardinality(ended(S, c)) <= Cardinality(ended(kept, c))
  <2>1. S \ {v} \in SUBSET DOMAIN map
    OBVIOUS
  <2>2. fits(S \ {v})
    BY <1>2, <1>3, PartFits
  <2>3. ended(S, c) = ended(S \ {v}, c)
    BY <1>2 DEF ended
  <2> QED
    BY <1>1, <1>2, <2>1, <2>2, <2>3 DEF KeepsMost
<1>6. limit <= Cardinality(kept \ ended(kept, c))
  BY AllRegistersHeld
<1>7. limit \in Nat
  BY <1>2, AllowedLimit
<1>8. /\ Cardinality(S) = Cardinality(ended(S, c)) + Cardinality(S \ ended(S, c))
      /\ Cardinality(ended(S, c)) \in Nat /\ Cardinality(S \ ended(S, c)) \in Nat
  BY <1>2, <1>3, EndedAndRest
<1>9. /\ Cardinality(kept) = Cardinality(ended(kept, c)) + Cardinality(kept \ ended(kept, c))
      /\ Cardinality(ended(kept, c)) \in Nat /\ Cardinality(kept \ ended(kept, c)) \in Nat
  BY <1>2, <1>3, EndedAndRest
<1> HIDE DEF c, limit
<1> QED
  BY <1>4, <1>5, <1>6, <1>7, <1>8, <1>9

\* Adding v to a set adds it to what has ended, once it has.
LEMMA EndedWithOneMore ==
    ASSUME NEW X \in SUBSET Values, NEW v \in Values, v \notin X, NEW t \in Nat
    PROVE  Cardinality(ended(X \cup {v}, t)) =
               Cardinality(ended(X, t)) + (IF intervals[v].end < t THEN 1 ELSE 0)
<1>1. IsFiniteSet(ended(X, t)) /\ Cardinality(ended(X, t)) \in Nat
  BY ValuesAreFinite DEF ended
<1>2. CASE intervals[v].end < t
  <2>1. ended(X \cup {v}, t) = ended(X, t) \cup {v} /\ v \notin ended(X, t)
    BY <1>2 DEF ended
  <2> QED
    BY <1>1, <1>2, <2>1, FS_AddElement
<1>3. CASE ~(intervals[v].end < t)
  <2>1. ended(X \cup {v}, t) = ended(X, t)
    BY <1>3 DEF ended
  <2> QED
    BY <1>1, <1>3, <2>1
<1> QED
  BY <1>2, <1>3

\* With v in a register the values kept stay ahead, and without it as long as
\* v has not ended or is not in the set they are compared with.
LEMMA StaysAhead ==
    ASSUME SInv, NEW v, is_current(v),
           NEW S \in SUBSET (DOMAIN map \cup {v}), fits(S),
           NEW t \in Nat, intervals[v].start <= t
    PROVE  /\ Cardinality(ended(S, t)) <= Cardinality(ended(kept \cup {v}, t))
           /\ v \notin S \/ ~(intervals[v].end < t) =>
                  Cardinality(ended(S, t)) <= Cardinality(ended(kept, t))
<1> DEFINE R == S \ {v}
           one == IF intervals[v].end < t THEN 1 ELSE 0
<1>1. IInv /\ TypeOK /\ KeepsMost
  BY DEF SInv, IInv
<1>2. /\ v \in Values /\ v \notin DOMAIN map /\ DOMAIN map \subseteq Values
      /\ kept \subseteq DOMAIN map /\ max_regs \in Nat
      /\ intervals[v].start \in Nat
      /\ \A w \in DOMAIN map : intervals[w].start <= intervals[v].start
  BY <1>1, VisitedBeforeCurrent
<1>3. \A w \in DOMAIN map : intervals[w].start <= t
  <2>1. \A w \in DOMAIN map : intervals[w].start \in Nat
    BY <1>1, <1>2, SpanFields
  <2> QED
    BY <1>2, <2>1
<1>4. R \in SUBSET DOMAIN map /\ R \in SUBSET Values /\ kept \in SUBSET Values
  BY <1>2
<1>5. fits(R)
  BY <1>2, PartFits
<1>6. Cardinality(ended(R, t)) <= Cardinality(ended(kept, t))
  BY <1>1, <1>3, <1>4, <1>5 DEF KeepsMost
<1>7. Cardinality(ended(R, t)) \in Nat /\ Cardinality(ended(kept, t)) \in Nat
  BY <1>4, EndedAndRest
<1>8. Cardinality(ended(kept \cup {v}, t)) = Cardinality(ended(kept, t)) + one
  BY <1>2, <1>4, EndedWithOneMore
<1>9. CASE v \notin S
  <2>1. R = S
    BY <1>9
  <2> QED
    BY <1>6, <1>7, <1>8, <2>1
<1>10. CASE v \in S
  <2>1. S = R \cup {v} /\ v \notin R
    BY <1>10
  <2> HIDE DEF R
  <2>2. Cardinality(ended(S, t)) = Cardinality(ended(R, t)) + one
    BY <1>2, <1>4, <2>1, EndedWithOneMore
  <2> QED
    BY <1>6, <1>7, <1>8, <1>10, <2>2
<1> QED
  BY <1>9, <1>10

\* What is left to show of an iteration for the comparison to go on.
LEMMA ComparisonGoesOn ==
    ASSUME SInv, NEW v, is_current(v), DOMAIN map' = DOMAIN map \cup {v},
           UNCHANGED <<intervals, max_regs>>,
           \A S \in SUBSET (DOMAIN map \cup {v}) : \A t \in Nat :
               fits(S) /\ intervals[v].start <= t =>
                   Cardinality(ended(S, t)) <= Cardinality(ended(kept', t))
    PROVE  KeepsMost'
<1> SUFFICES ASSUME NEW S \in SUBSET (DOMAIN map'), NEW t \in Nat, fits(S)',
                    \A w \in DOMAIN map' : intervals'[w].start <= t
             PROVE  Cardinality(ended(S, t)') <= Cardinality(ended(kept, t)')
  BY DEF KeepsMost
<1>1. fits(S) /\ intervals[v].start <= t
  BY DEF fits
<1>2. ended(S, t)' = ended(S, t) /\ ended(kept, t)' = ended(kept', t)
  BY DEF ended
<1> QED
  BY <1>1, <1>2

\* The current interval is kept.
LEMMA TakeRegisterKeeps ==
    ASSUME SInv, NEW v, TakeRegister(v)
    PROVE  SInv'
<1>1. PICK r \in freed(v) :
        /\ free' = freed(v) \ {r}
        /\ active' = still_active(v) \cup {<<v, r>>}
        /\ map' = insert(map, v, Reg(r))
  BY DEF TakeRegister
<1>2. is_current(v) /\ UNCHANGED <<intervals, max_regs, stack_slots, result>>
  BY DEF TakeRegister
<1>3. IInv /\ IInv'
  BY TakeRegisterStep DEF SInv
<1>4. /\ v \notin DOMAIN map
      /\ DOMAIN map' = DOMAIN map \cup {v} /\ map'[v] = Reg(r)
      /\ \A x \in DOMAIN map : map'[x] = map[x]
  BY <1>1, <1>2, <1>3, VisitedBeforeCurrent DEF insert
<1>5. RegistersAreConserved'
  <2>1. \A q \in allowed_regs(RegSet, max_regs) :
            q \in freed(v) \/ \E e \in still_active(v) : e[2] = q
    BY DEF SInv, RegistersAreConserved, freed
  <2>2. <<v, r>>[2] = r
    OBVIOUS
  <2> QED
    BY <1>1, <1>2, <2>1, <2>2 DEF RegistersAreConserved
<1>6. kept' = kept \cup {v}
  BY <1>4, LocationFields DEF kept, spilled
<1>7. KeepsMost'
  BY <1>2, <1>4, <1>6, StaysAhead, ComparisonGoesOn
<1>8. VerifiedLast'
  BY <1>2 DEF SInv, VerifiedLast, is_current
<1> QED
  BY <1>3, <1>5, <1>7, <1>8 DEF SInv

\* The current interval ends last and is not kept: by its end, all of those
\* kept have ended.
LEMMA SpillCurrentKeeps ==
    ASSUME SInv, NEW v, SpillCurrent(v)
    PROVE  SInv'
<1>1. /\ freed(v) = {} /\ free' = {}
      /\ \A e \in still_active(v) : intervals[e[1]].end <= intervals[v].end
      /\ active' = still_active(v)
      /\ map' = insert(map, v, Stack(stack_slots))
      /\ is_current(v)
      /\ UNCHANGED <<intervals, max_regs, result>>
  BY DEF SpillCurrent
<1>2. IInv /\ IInv' /\ TypeOK
  BY SpillCurrentStep DEF SInv, IInv
<1>3. /\ v \in Values /\ v \notin DOMAIN map /\ DOMAIN map \subseteq Values
      /\ kept \subseteq DOMAIN map
      /\ intervals[v].start \in Nat /\ intervals[v].end \in Nat
      /\ intervals[v].start <= intervals[v].end
  BY <1>1, <1>2, VisitedBeforeCurrent
<1>4. /\ DOMAIN map' = DOMAIN map \cup {v} /\ map'[v] = Stack(stack_slots)
      /\ \A x \in DOMAIN map : map'[x] = map[x]
  BY <1>1, <1>3 DEF insert
<1>5. RegistersAreConserved'
  BY <1>1 DEF SInv, RegistersAreConserved, freed
<1>6. kept' = kept
  BY <1>3, <1>4, LocationFields DEF kept, spilled
<1>7. KeepsMost'
  <2> SUFFICES ASSUME NEW S \in SUBSET (DOMAIN map \cup {v}), NEW t \in Nat, fits(S),
                      intervals[v].start <= t
               PROVE  Cardinality(ended(S, t)) <= Cardinality(ended(kept, t))
    BY <1>1, <1>4, <1>6, ComparisonGoesOn
  <2>1. CASE ~(intervals[v].end < t)
    BY <1>1, <2>1, StaysAhead
  <2>2. CASE intervals[v].end < t
    <3>1. ASSUME NEW x \in kept PROVE intervals[x].end < t
      <4>1. x \in DOMAIN map /\ map[x].kind = "reg" /\ intervals[x].end \in Nat
        BY <1>2, <1>3, SpanFields DEF kept, spilled, TypeOK
      <4>2. CASE <<x, map[x].reg>> \in still_active(v)
        <5>1. intervals[x].end <= intervals[v].end
          BY <1>1, <4>2
        <5> QED
          BY <1>3, <2>2, <4>1, <5>1
      <4>3. CASE intervals[x].end < intervals[v].start
        BY <1>3, <2>2, <4>1, <4>3
      <4> QED
        BY <1>1, <1>2, <4>1, <4>2, <4>3, AfterExpiry
    <3>2. ended(kept, t) = kept
      BY <3>1 DEF ended
    <3>3. Cardinality(S) <= Cardinality(kept)
      BY <1>1, NoLargerSetFits
    <3>4. S \in SUBSET Values /\ kept \in SUBSET Values
      BY <1>3
    <3>5. /\ Cardinality(S) = Cardinality(ended(S, t)) + Cardinality(S \ ended(S, t))
          /\ Cardinality(ended(S, t)) \in Nat /\ Cardinality(S \ ended(S, t)) \in Nat
      BY <3>4, EndedAndRest
    <3>6. Cardinality(kept) \in Nat
      BY <3>4, ValuesAreFinite
    <3> QED
      BY <3>2, <3>3, <3>5, <3>6
  <2> QED
    BY <2>1, <2>2
<1>8. VerifiedLast'
  BY <1>1 DEF SInv, VerifiedLast, is_current
<1> QED
  BY <1>2, <1>5, <1>7, <1>8 DEF SInv

\* The interval that ends last gives its place to the current one: until it
\* ends the exchange is a gain, and by its end all of those kept have ended.
LEMMA SpillFarthestKeeps ==
    ASSUME SInv, NEW v, SpillFarthest(v)
    PROVE  SInv'
<1>1. PICK e \in still_active(v) :
        /\ \A f \in still_active(v) : intervals[f[1]].end <= intervals[e[1]].end
        /\ intervals[e[1]].end > intervals[v].end
        /\ active' = (still_active(v) \ {e}) \cup {<<v, e[2]>>}
        /\ map' = insert(insert(map, e[1], Stack(stack_slots)), v, Reg(e[2]))
  BY DEF SpillFarthest
<1> DEFINE u == e[1]
<1>2. freed(v) = {} /\ free' = {} /\ is_current(v)
      /\ UNCHANGED <<intervals, max_regs, result>>
  BY DEF SpillFarthest
<1>3. IInv /\ IInv' /\ TypeOK
  BY SpillFarthestStep DEF SInv, IInv
<1>4. /\ v \in Values /\ v \notin DOMAIN map /\ DOMAIN map \subseteq Values
      /\ kept \subseteq DOMAIN map
      /\ intervals[v].start \in Nat /\ intervals[v].end \in Nat
      /\ intervals[v].start <= intervals[v].end
  BY <1>2, <1>3, VisitedBeforeCurrent
<1>5. u \in DOMAIN map /\ map[u] = Reg(e[2]) /\ u \in kept /\ u # v
  <2>1. u \in DOMAIN map /\ map[u] = Reg(e[2])
    BY <1>3 DEF still_active, IInv, TypeOK, ActiveHoldsRegister
  <2> QED
    BY <1>4, <2>1, LocationFields DEF kept, spilled
<1>6. intervals[u].end \in Nat
  BY <1>3, <1>4, <1>5, SpanFields
<1>7. /\ DOMAIN map' = DOMAIN map \cup {v} /\ map'[v] = Reg(e[2])
      /\ map'[u] = Stack(stack_slots)
      /\ \A x \in DOMAIN map \ {u} : map'[x] = map[x]
  BY <1>1, <1>4, <1>5 DEF insert
<1>8. RegistersAreConserved'
  <2>1. \A q \in allowed_regs(RegSet, max_regs) : \E g \in still_active(v) : g[2] = q
    BY <1>2 DEF SInv, RegistersAreConserved, freed
  <2>2. \A q \in allowed_regs(RegSet, max_regs) : \E g \in active' : g[2] = q
    <3> SUFFICES ASSUME NEW q \in allowed_regs(RegSet, max_regs)
                 PROVE  \E g \in active' : g[2] = q
      OBVIOUS
    <3>1. PICK g \in still_active(v) : g[2] = q
      BY <2>1
    <3>2. CASE g = e
      <4>1. <<v, e[2]>> \in active' /\ <<v, e[2]>>[2] = e[2]
        BY <1>1
      <4> QED
        BY <3>1, <3>2, <4>1
    <3>3. CASE g # e
      BY <1>1, <3>1, <3>3
    <3> QED
      BY <3>2, <3>3
  <2> QED
    BY <1>2, <2>2 DEF RegistersAreConserved
<1>9. kept' = (kept \ {u}) \cup {v}
  <2>1. \A x : x \in kept' <=> x \in (kept \ {u}) \cup {v}
    BY <1>4, <1>5, <1>7, LocationFields DEF kept, spilled
  <2> QED
    BY <2>1
<1> HIDE DEF u
<1>10. KeepsMost'
  <2> SUFFICES ASSUME NEW S \in SUBSET (DOMAIN map \cup {v}), NEW t \in Nat, fits(S),
                      intervals[v].start <= t
               PROVE  Cardinality(ended(S, t)) <= Cardinality(ended((kept \ {u}) \cup {v}, t))
    BY <1>2, <1>7, <1>9, ComparisonGoesOn
  <2>1. CASE ~(intervals[u].end < t)
    <3>1. ended((kept \ {u}) \cup {v}, t) = ended(kept \cup {v}, t)
      BY <1>5, <2>1 DEF ended
    <3> QED
      BY <1>2, <3>1, StaysAhead
  <2>2. CASE intervals[u].end < t
    <3>1. ASSUME NEW x \in kept PROVE intervals[x].end < t
      <4>1. x \in DOMAIN map /\ map[x].kind = "reg" /\ intervals[x].end \in Nat
        BY <1>3, <1>4, SpanFields DEF kept, spilled, TypeOK
      <4>2. CASE <<x, map[x].reg>> \in still_active(v)
        <5>1. intervals[x].end <= intervals[u].end
          BY <1>1, <4>2 DEF u
        <5> QED
          BY <1>6, <2>2, <4>1, <5>1
      <4>3. CASE intervals[x].end < intervals[v].start
        BY <1>1, <1>4, <1>6, <2>2, <4>1, <4>3 DEF u
      <4> QED
        BY <1>2, <1>3, <4>1, <4>2, <4>3, AfterExpiry
    <3>2. intervals[v].end < t
      BY <1>1, <1>4, <1>6, <2>2 DEF u
    <3>3. ended((kept \ {u}) \cup {v}, t) = (kept \ {u}) \cup {v}
      BY <3>1, <3>2 DEF ended
    <3>4. S \in SUBSET Values /\ kept \in SUBSET Values
      BY <1>4
    <3>5. IsFiniteSet(kept) /\ Cardinality(kept) \in Nat
      BY <3>4, ValuesAreFinite
    <3>6. Cardinality((kept \ {u}) \cup {v}) = Cardinality(kept)
      <4>1. IsFiniteSet(kept \ {u}) /\ Cardinality(kept \ {u}) = Cardinality(kept) - 1
        BY <1>5, <3>5, FS_RemoveElement
      <4>2. v \notin kept \ {u}
        BY <1>4
      <4>3. Cardinality((kept \ {u}) \cup {v}) = Cardinality(kept \ {u}) + 1
        BY <4>1, <4>2, FS_AddElement
      <4> QED
        BY <3>5, <4>1, <4>3
    <3>7. Cardinality(S) <= Cardinality(kept)
      BY <1>2, NoLargerSetFits
    <3>8. /\ Cardinality(S) = Cardinality(ended(S, t)) + Cardinality(S \ ended(S, t))
          /\ Cardinality(ended(S, t)) \in Nat /\ Cardinality(S \ ended(S, t)) \in Nat
      BY <3>4, EndedAndRest
    <3> QED
      <4>1. Cardinality(ended(S, t)) <= Cardinality(kept)
        BY <3>5, <3>7, <3>8
      <4> QED
        BY <3>3, <3>6, <4>1
  <2> QED
    BY <2>1, <2>2
<1>11. VerifiedLast'
  BY <1>2 DEF SInv, VerifiedLast, is_current
<1> QED
  BY <1>3, <1>8, <1>10, <1>11 DEF SInv

\* Nothing is visited yet.
LEMMA InitSInv == Init => SInv
<1> SUFFICES ASSUME Init PROVE SInv
  OBVIOUS
<1>1. IInv
  BY InitIInv
<1>2. RegistersAreConserved /\ VerifiedLast
  BY DEF Init, RegistersAreConserved, VerifiedLast
<1>3. KeepsMost
  <2>1. DOMAIN map = {} /\ kept = {}
    BY DEF Init, kept
  <2>2. \A S \in SUBSET DOMAIN map : \A t \in Nat : ended(S, t) = {} /\ ended(kept, t) = {}
    BY <2>1 DEF ended
  <2> QED
    BY <2>2, FS_EmptySet DEF KeepsMost
<1> QED
  BY <1>1, <1>2, <1>3 DEF SInv

\* After the last interval every value is kept or has a slot of its own, and
\* at the end of all positions every value has ended.
LEMMA MinimalAtTheEnd == SInv => SpillsAreMinimal
<1> SUFFICES ASSUME SInv, result # "none", NEW S \in SUBSET Values, fits(S)
             PROVE  Cardinality(S) + stack_slots <= Cardinality(Values)
  BY DEF SpillsAreMinimal
<1>1. TypeOK /\ SlotsAreDense /\ KeepsMost /\ pending = {}
  BY DEF SInv, IInv, VerifiedLast
<1>2. DOMAIN map = Values
  BY <1>1 DEF pending, TypeOK
<1>3. MaxPos + 1 \in Nat
  BY MaxPosAssumption
<1>4. \A x \in Values : intervals[x].start <= MaxPos + 1 /\ intervals[x].end < MaxPos + 1
  BY <1>1, MaxPosAssumption DEF TypeOK, Spans
<1>5. kept \in SUBSET Values /\ spilled(map) \in SUBSET Values
  BY <1>2 DEF kept, spilled
<1>6. ended(S, MaxPos + 1) = S /\ ended(kept, MaxPos + 1) = kept
  BY <1>4, <1>5 DEF ended
<1>7. Cardinality(S) <= Cardinality(kept)
  BY <1>1, <1>2, <1>3, <1>4, <1>6 DEF KeepsMost
<1>8. Cardinality(spilled(map)) = stack_slots
  <2>1. IsFiniteSet(DOMAIN map) /\ stack_slots \in Nat
    BY <1>1, <1>2, ValuesAssumption DEF TypeOK
  <2> QED
    BY <1>1, <2>1, SlotsBelowCounter, SpillCountIsSlotCount DEF SlotsAreDense
<1>9. Cardinality(kept) = Cardinality(Values) - Cardinality(spilled(map))
  <2>1. Values \cap spilled(map) = spilled(map)
    BY <1>5
  <2> QED
    BY <1>2, <2>1, ValuesAssumption, FS_Difference DEF kept
<1>10. /\ Cardinality(S) \in Nat /\ Cardinality(kept) \in Nat
       /\ Cardinality(Values) \in Nat /\ Cardinality(spilled(map)) \in Nat
  BY <1>5, ValuesAreFinite
<1> QED
  BY <1>7, <1>8, <1>9, <1>10

-----------------------------------------------------------------------------
(* The theorems.                                                           *)

\* The comparison holds throughout the loop.
THEOREM SpillInvariant == Init /\ [][Next]_vars => []SInv
<1>1. SInv /\ [Next]_vars => SInv'
  <2> SUFFICES ASSUME SInv, [Next]_vars PROVE SInv'
    OBVIOUS
  <2>1. CASE \E v \in Values : TakeRegister(v)
    BY <2>1, TakeRegisterKeeps
  <2>2. CASE \E v \in Values : SpillCurrent(v)
    BY <2>2, SpillCurrentKeeps
  <2>3. CASE \E v \in Values : SpillFarthest(v)
    BY <2>3, SpillFarthestKeeps
  <2>4. CASE Verify
    <3>1. IInv'
      BY <2>4, VerifyStep DEF SInv
    <3>2. UNCHANGED <<intervals, max_regs, free, active, map, stack_slots>> /\ pending = {}
      BY <2>4 DEF Verify
    <3>3. RegistersAreConserved' /\ VerifiedLast'
      BY <3>2 DEF SInv, RegistersAreConserved, VerifiedLast, pending
    <3>4. KeepsMost'
      BY <3>2 DEF SInv, KeepsMost, kept, ended, fits
    <3> QED
      BY <3>1, <3>3, <3>4 DEF SInv
  <2>5. CASE UNCHANGED vars
    <3>1. IInv'
      BY <2>5 DEF vars, SInv, IInv, TypeOK, VisitedStartFirst, ActiveHoldsRegister,
             ExpiredIsOver, NoConflict, SlotsAreDense, VerifierAccepts, pending
    <3>2. RegistersAreConserved' /\ VerifiedLast'
      BY <2>5 DEF vars, SInv, RegistersAreConserved, VerifiedLast, pending
    <3>3. KeepsMost'
      BY <2>5 DEF vars, SInv, KeepsMost, kept, ended, fits
    <3> QED
      BY <3>1, <3>2, <3>3 DEF SInv
  <2> QED
    BY <2>1, <2>2, <2>3, <2>4, <2>5 DEF Next
<1> QED
  BY <1>1, InitSInv, PTL

\* Evicting the interval that ends last spills no more values than any other
\* choice of registers would: for every interval list and every budget, no set
\* of values that fits in the registers is larger than the set kept there.
THEOREM LinearScanSpillsLeast == Spec => []SpillsAreMinimal
BY SpillInvariant, MinimalAtTheEnd, PTL DEF Spec
=============================================================================
