----------------------------- MODULE LinearScan -----------------------------
(***************************************************************************)
(* LinearScan::allocate of crates/alloc_linear_scan, one step per          *)
(* iteration of its loop over the sorted intervals.                        *)
(*                                                                         *)
(* Abstraction: the vectors free and active are sets.  Where the code takes *)
(* the last free register, the model takes any; where several active        *)
(* intervals end last, the model spills any of them.  LinearScanVec keeps   *)
(* the vectors and is shown to implement this module.                      *)
(***************************************************************************)
EXTENDS Alloc

CONSTANTS
    Values,     \* the values of the interval list (VReg: u32)
    MaxPos,     \* the largest instruction position
    RegSet      \* the PhysRegSet handed to the allocator

\* compute_live_intervals fails before the positions leave u32, and every
\* value has a definition at a position of its own.
ASSUME ValuesAssumption == /\ Values \subseteq Nat
                           /\ IsFiniteSet(Values)
                           /\ Cardinality(Values) <= U32Max
ASSUME MaxPosAssumption == MaxPos \in Nat

\* The command line validates the register set before it allocates.
ASSUME RegSetAssumption == /\ RegSet.regs \in Seq(STRING)
                           /\ RegSet.scratch \in Seq(STRING)
                           /\ validate_for_codegen(RegSet)

VARIABLES
    intervals,      \* the input: a span for every value
    max_regs,       \* the input: the register budget
    free,           \* registers nobody holds
    active,         \* pairs <<value, register>> not yet expired
    map,            \* the locations of the values processed so far
    stack_slots,    \* number of stack slots handed out
    result          \* "none" until verify_assignment has answered

vars == <<intervals, max_regs, free, active, map, stack_slots, result>>

Spans == {s \in [start : 0..MaxPos, end : 0..MaxPos] : s.start <= s.end}

-----------------------------------------------------------------------------
(* The order of the loop: ordered.sort_by_key(|i| (i.start, i.end, i.v)).  *)

precedes(v, w) ==
    LET a == intervals[v]
        b == intervals[w]
    IN  \/ a.start < b.start
        \/ a.start = b.start /\ a.end < b.end
        \/ a.start = b.start /\ a.end = b.end /\ v < w

pending == Values \ DOMAIN map

\* v is the interval the next iteration of the loop looks at.
is_current(v) == v \in pending /\ \A w \in pending \ {v} : precedes(v, w)

-----------------------------------------------------------------------------
(* expire_old: active intervals that end before the current one starts give *)
(* their registers back.                                                   *)

\* Wrong variant: an interval that ends where the current one starts expires.
still_active_until_start(v) ==
    {e \in active : intervals[e[1]].end > intervals[v].start}

still_active(v) == {e \in active : intervals[e[1]].end >= intervals[v].start}

\* Wrong variant: the registers of expired intervals are lost.
freed_leaky(v) == free

freed(v) == free \cup {e[2] : e \in active \ still_active(v)}

insert(m, v, loc) ==
    [w \in DOMAIN m \cup {v} |-> IF w = v THEN loc ELSE m[w]]

-----------------------------------------------------------------------------
(* The loop body, one action per branch.                                   *)

\* A register is free: the current interval takes it.
TakeRegister(v) ==
    /\ is_current(v)
    /\ \E r \in freed(v) :
        /\ free' = freed(v) \ {r}
        /\ active' = still_active(v) \cup {<<v, r>>}
        /\ map' = insert(map, v, Reg(r))
    /\ UNCHANGED <<intervals, max_regs, stack_slots, result>>

\* Wrong variant: the case of an empty active list is forgotten.
SpillCurrentIfActive(v) ==
    /\ is_current(v)
    /\ freed(v) = {}
    /\ still_active(v) # {}
    /\ \A e \in still_active(v) : intervals[e[1]].end <= intervals[v].end
    /\ free' = {}
    /\ active' = still_active(v)
    /\ map' = insert(map, v, Stack(stack_slots))
    /\ stack_slots' = stack_slots + 1
    /\ UNCHANGED <<intervals, max_regs, result>>

\* No register is free and no active interval ends after the current one
\* (there may be none at all): the current interval gets a new slot.
SpillCurrent(v) ==
    /\ is_current(v)
    /\ freed(v) = {}
    /\ \A e \in still_active(v) : intervals[e[1]].end <= intervals[v].end
    /\ free' = {}
    /\ active' = still_active(v)
    /\ map' = insert(map, v, Stack(stack_slots))
    /\ stack_slots' = stack_slots + 1
    /\ UNCHANGED <<intervals, max_regs, result>>

\* Wrong variant: the evicted interval's slot is recorded, but the counter
\* is not advanced.
SpillFarthestReusingSlot(v) ==
    /\ is_current(v)
    /\ freed(v) = {}
    /\ \E e \in still_active(v) :
        /\ \A f \in still_active(v) : intervals[f[1]].end <= intervals[e[1]].end
        /\ intervals[e[1]].end > intervals[v].end
        /\ free' = {}
        /\ active' = (still_active(v) \ {e}) \cup {<<v, e[2]>>}
        /\ map' = insert(insert(map, e[1], Stack(stack_slots)), v, Reg(e[2]))
    /\ UNCHANGED <<intervals, max_regs, stack_slots, result>>

\* No register is free and an active interval that ends last ends after the
\* current one: it moves to a new slot and the current one takes its register.
SpillFarthest(v) ==
    /\ is_current(v)
    /\ freed(v) = {}
    /\ \E e \in still_active(v) :
        /\ \A f \in still_active(v) : intervals[f[1]].end <= intervals[e[1]].end
        /\ intervals[e[1]].end > intervals[v].end
        /\ free' = {}
        /\ active' = (still_active(v) \ {e}) \cup {<<v, e[2]>>}
        /\ map' = insert(insert(map, e[1], Stack(stack_slots)), v, Reg(e[2]))
    /\ stack_slots' = stack_slots + 1
    /\ UNCHANGED <<intervals, max_regs, result>>

assignment == [map |-> map, stack_slots |-> stack_slots, spills |-> stack_slots]

\* After the loop the allocator runs the shared verifier on its own result.
Verify ==
    /\ pending = {}
    /\ result = "none"
    /\ result' \in verify_assignment(intervals, RegSet,
                        register_limit(RegSet, max_regs), assignment)
    /\ UNCHANGED <<intervals, max_regs, free, active, map, stack_slots>>

\* A budget above the number of registers acts as that number: one such value
\* stands for all.
Init ==
    /\ intervals \in [Values -> Spans]
    /\ max_regs \in 0..(Len(RegSet.regs) + 1)
    /\ free = allowed_regs(RegSet, max_regs)
    /\ active = {}
    /\ map = [v \in {} |-> Stack(0)]
    /\ stack_slots = 0
    /\ result = "none"

Next ==
    \/ \E v \in Values : TakeRegister(v) \/ SpillCurrent(v) \/ SpillFarthest(v)
    \/ Verify

Spec == Init /\ [][Next]_vars /\ WF_vars(Next)

-----------------------------------------------------------------------------
(* Properties.                                                             *)

TypeOK ==
    /\ intervals \in [Values -> Spans]
    /\ max_regs \in Nat
    /\ free \subseteq allowed_regs(RegSet, max_regs)
    /\ active \subseteq (DOMAIN map) \X allowed_regs(RegSet, max_regs)
    /\ DOMAIN map \subseteq Values
    /\ \A v \in DOMAIN map :
          \/ /\ map[v].kind = "reg"
             /\ map[v] = Reg(map[v].reg)
             /\ map[v].reg \in allowed_regs(RegSet, max_regs)
          \/ /\ map[v].kind = "stack"
             /\ map[v] = Stack(map[v].slot)
             /\ map[v].slot \in 0..(stack_slots - 1)
    /\ stack_slots \in Nat

\* The verifier never rejects what linear scan computes: whatever the
\* intervals and the budget, allocate returns an assignment and not an error.
VerifierAccepts == result \in {"none", "Ok"}

\* A set of values that fits: nowhere are more of them live than the budget.
fits(S) ==
    \A p \in 0..MaxPos :
        Cardinality({v \in S : intervals[v].start <= p /\ p <= intervals[v].end})
            <= register_limit(RegSet, max_regs)

\* Evicting the interval that ends last is optimal: no set of values that fits
\* in the registers is larger than the set linear scan keeps there.
SpillsAreMinimal ==
    result # "none" =>
        \A S \in SUBSET Values :
            fits(S) => Cardinality(S) + stack_slots <= Cardinality(Values)

\* allocate returns: every interval is processed and the verifier answers.
Terminates == <>(result # "none")
=============================================================================
