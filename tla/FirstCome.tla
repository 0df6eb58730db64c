----------------------------- MODULE FirstCome ------------------------------
(***************************************************************************)
(* What an allocator promises that never evicts: the intervals are visited *)
(* in the order of the list, each takes some register no earlier           *)
(* overlapping interval holds, and gets a stack slot of its own only when  *)
(* there is no such register.  SimAnneal is shown to implement this module. *)
(***************************************************************************)
EXTENDS AllocInputs

VARIABLES
    intervals,      \* the input list
    max_regs,       \* the input: the register budget
    map,            \* the locations of the intervals visited so far
    stack_slots,    \* number of stack slots handed out
    result          \* "none" until verify_assignment has answered

vars == <<intervals, max_regs, map, stack_slots, result>>

current == Len(map) + 1

\* The earlier intervals the current one overlaps.
earlier_neighbors == {i \in DOMAIN map : overlaps(intervals[i], intervals[current])}

available ==
    allowed_regs(RegSet, max_regs)
        \ {map[i].reg : i \in earlier_neighbors \ spilled(map)}

TakeRegister(r) ==
    /\ current <= Len(intervals)
    /\ r \in available
    /\ map' = Append(map, Reg(r))
    /\ UNCHANGED <<intervals, max_regs, stack_slots, result>>

Spill ==
    /\ current <= Len(intervals)
    /\ available = {}
    /\ map' = Append(map, Stack(stack_slots))
    /\ stack_slots' = stack_slots + 1
    /\ UNCHANGED <<intervals, max_regs, result>>

Verify ==
    /\ current > Len(intervals)
    /\ result = "none"
    /\ result' \in verify_assignment(intervals, RegSet,
                        register_limit(RegSet, max_regs),
                        [map |-> map, stack_slots |-> stack_slots,
                         spills |-> stack_slots])
    /\ UNCHANGED <<intervals, max_regs, map, stack_slots>>

\* A budget above the number of registers acts as that number.
Init ==
    /\ intervals \in Lists
    /\ max_regs \in 0..(Len(RegSet.regs) + 1)
    /\ map = <<>>
    /\ stack_slots = 0
    /\ result = "none"

Next ==
    \/ \E r \in Range(RegSet.regs) : TakeRegister(r)
    \/ Spill
    \/ Verify

Spec == Init /\ [][Next]_vars /\ WF_vars(Next)

-----------------------------------------------------------------------------
(* Properties.                                                             *)

\* The intervals that find a register when the list is visited in order: those
\* with fewer kept earlier neighbours than there are registers.
keep_if_few(earlier, i) ==
    IF Cardinality({j \in earlier : overlaps(intervals[i], intervals[j])})
           < register_limit(RegSet, max_regs)
    THEN earlier \cup {i}
    ELSE earlier

kept_after[i \in 0..Len(intervals)] ==
    IF i = 0 THEN {} ELSE keep_if_few(kept_after[i - 1], i)

kept == kept_after[Len(intervals)]

\* The registers picked cannot change what is spilled: the earlier neighbours
\* of an interval of a sorted list all overlap each other, so they hold
\* different registers whatever was picked.  The search of sim-anneal thus
\* never spills other values than its greedy start.
SpillSetIsForced ==
    spilled(map) = (DOMAIN map) \ kept
=============================================================================
