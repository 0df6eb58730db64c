---------------------------- MODULE LinearScanVec ---------------------------
(***************************************************************************)
(* LinearScan::allocate with the vectors of the code: free is a stack whose *)
(* last register is handed out first, active is kept in the order its two  *)
(* stable sorts leave it in, and the intervals are visited in sorted order. *)
(* One step is one iteration of the loop.  LinearScan is the specification *)
(* this module implements; Sets is the refinement.                         *)
(***************************************************************************)
EXTENDS Alloc

CONSTANTS Values, MaxPos, RegSet     \* as in LinearScan

ASSUME VecValuesAssumption == /\ Values \subseteq Nat
                              /\ IsFiniteSet(Values)
                              /\ Cardinality(Values) <= U32Max
ASSUME VecMaxPosAssumption == MaxPos \in Nat
ASSUME VecRegSetAssumption == /\ RegSet.regs \in Seq(STRING)
                              /\ RegSet.scratch \in Seq(STRING)
                              /\ validate_for_codegen(RegSet)

VARIABLES intervals, max_regs,
          free,         \* Vec<PhysReg>
          active,       \* Vec<(LiveInterval, PhysReg)>, as <<value, register>>
          map, stack_slots,
          ordered,      \* the values in the order of the loop
          result

vars == <<intervals, max_regs, free, active, map, stack_slots, ordered, result>>

-----------------------------------------------------------------------------

\* active.sort_by_key(|(interval, _)| interval.end), a stable sort: the entry
\* at position k has k - 1 entries before it.
end_before(s, j, i) ==
    LET a == intervals[s[j][1]].end
        b == intervals[s[i][1]].end
    IN  a < b \/ (a = b /\ j < i)

sort_by_end(s) ==
    [k \in DOMAIN s |->
        s[CHOOSE i \in DOMAIN s : Cardinality({j \in DOMAIN s : end_before(s, j, i)}) = k - 1]]

\* The order of the loop, by (start, end, value).
key_before(v, w) ==
    LET a == intervals[v]
        b == intervals[w]
    IN  \/ a.start < b.start
        \/ a.start = b.start /\ a.end < b.end
        \/ a.start = b.start /\ a.end = b.end /\ v < w

sorted_values ==
    LET listed == DOMAIN intervals
    IN  [k \in 1..Cardinality(listed) |->
            CHOOSE v \in listed : Cardinality({w \in listed : key_before(w, v)}) = k - 1]

\* Wrong variant: the register is freed but its interval stays active.
look_at_keeping(seen, entry, start) ==
    IF intervals[entry[1]].end < start
    THEN [seen EXCEPT !.active = Append(@, entry), !.free = Append(@, entry[2])]
    ELSE [seen EXCEPT !.active = Append(@, entry)]

\* One iteration of expire_old: an entry that ends before start gives its
\* register back, another one stays.
look_at(seen, entry, start) ==
    IF intervals[entry[1]].end < start
    THEN [seen EXCEPT !.free = Append(@, entry[2])]
    ELSE [seen EXCEPT !.active = Append(@, entry)]

\* expire_old: sort by end, then look at every entry.
expire_old(interval) ==
    LET sorted == sort_by_end(active)
        seen[i \in 0..Len(sorted)] ==
            IF i = 0 THEN [active |-> <<>>, free |-> free]
                     ELSE look_at(seen[i - 1], sorted[i], interval.start)
    IN  seen[Len(sorted)]

insert(m, v, loc) ==
    [w \in DOMAIN m \cup {v} |-> IF w = v THEN loc ELSE m[w]]

-----------------------------------------------------------------------------
(* The branches of the loop body for the interval v, with what expire_old  *)
(* has left in active and free.                                            *)

TakeRegister(v, now) ==
    /\ now.free # <<>>
    /\ LET register == now.free[Len(now.free)] IN
       /\ free' = SubSeq(now.free, 1, Len(now.free) - 1)
       /\ active' = Append(now.active, <<v, register>>)
       /\ map' = insert(map, v, Reg(register))
    /\ UNCHANGED stack_slots

SpillAlone(v, now) ==
    /\ now.free = <<>>
    /\ now.active = <<>>
    /\ free' = <<>>
    /\ active' = <<>>
    /\ map' = insert(map, v, Stack(stack_slots))
    /\ stack_slots' = stack_slots + 1

\* Wrong variant: the interval that ends first is the victim.
SpillFirst(v, now) ==
    LET sorted == sort_by_end(now.active)
    IN  /\ now.free = <<>>
        /\ now.active # <<>>
        /\ free' = <<>>
        /\ stack_slots' = stack_slots + 1
        /\ LET victim == sorted[1] IN
           \/ /\ intervals[victim[1]].end > intervals[v].end
              /\ active' = Append(Tail(sorted), <<v, victim[2]>>)
              /\ map' = insert(insert(map, victim[1], Stack(stack_slots)),
                               v, Reg(victim[2]))
           \/ /\ intervals[victim[1]].end <= intervals[v].end
              /\ active' = sorted
              /\ map' = insert(map, v, Stack(stack_slots))

SpillLast(v, now) ==
    LET sorted == sort_by_end(now.active)
        spill_index == Len(sorted)
        victim == sorted[spill_index]
    IN  /\ now.free = <<>>
        /\ now.active # <<>>
        /\ free' = <<>>
        /\ stack_slots' = stack_slots + 1
        /\ \/ /\ intervals[victim[1]].end > intervals[v].end
              /\ active' = Append(SubSeq(sorted, 1, spill_index - 1), <<v, victim[2]>>)
              /\ map' = insert(insert(map, victim[1], Stack(stack_slots)),
                               v, Reg(victim[2]))
           \/ /\ intervals[victim[1]].end <= intervals[v].end
              /\ active' = sorted
              /\ map' = insert(map, v, Stack(stack_slots))

Iterate ==
    /\ ordered # <<>>
    /\ LET v == Head(ordered)
           now == expire_old(intervals[v])
       IN  TakeRegister(v, now) \/ SpillAlone(v, now) \/ SpillLast(v, now)
    /\ ordered' = Tail(ordered)
    /\ UNCHANGED <<intervals, max_regs, result>>

Verify ==
    /\ ordered = <<>>
    /\ result = "none"
    /\ result' \in verify_assignment(intervals, RegSet,
                        register_limit(RegSet, max_regs),
                        [map |-> map, stack_slots |-> stack_slots,
                         spills |-> stack_slots])
    /\ UNCHANGED <<intervals, max_regs, free, active, map, stack_slots, ordered>>

Spans == {s \in [start : 0..MaxPos, end : 0..MaxPos] : s.start <= s.end}

Init ==
    /\ intervals \in [Values -> Spans]
    /\ max_regs \in 0..(Len(RegSet.regs) + 1)
    /\ free = SubSeq(RegSet.regs, 1, register_limit(RegSet, max_regs))
    /\ active = <<>>
    /\ map = [v \in {} |-> Stack(0)]
    /\ stack_slots = 0
    /\ ordered = sorted_values
    /\ result = "none"

Next == Iterate \/ Verify

Spec == Init /\ [][Next]_vars /\ WF_vars(Next)

-----------------------------------------------------------------------------
(* Refinement.                                                             *)

Sets == INSTANCE LinearScan WITH free <- Range(free), active <- Range(active)

\* The allocator with its vectors, its LIFO free list and its stable sorts
\* only makes choices LinearScan allows, so what is checked and proved of
\* LinearScan holds of the code's allocate.
ImplementsLinearScan == Sets!Spec

\* A free list never holds a register twice, nor one that is still active:
\* two entries for a register would hand it to two overlapping intervals.
FreeListIsExact ==
    /\ IsInjective(free)
    /\ \A i \in DOMAIN active : active[i][2] \notin Range(free)
    /\ IsInjective([i \in DOMAIN active |-> active[i][2]])
=============================================================================
