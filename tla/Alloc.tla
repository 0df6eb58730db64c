------------------------------- MODULE Alloc --------------------------------
(***************************************************************************)
(* The allocator contract of crates/alloc: locations, the register file    *)
(* offered to an allocator, and verify_assignment, the check every         *)
(* allocator's result has to pass.  Everything here is a pure function of  *)
(* its arguments; the allocators and the emitter are machines of their own *)
(* modules that call it.                                                   *)
(*                                                                         *)
(* An interval list is a function from the values (VReg) to their spans    *)
(* [start, end]: compute_live_intervals builds the list from a map keyed   *)
(* by the value, so no value occurs twice in it.                           *)
(***************************************************************************)
EXTENDS Integers, Sequences, FiniteSets, Functions, FiniteSetsExt

CONSTANT U32Max      \* the largest u32: 2^32 - 1 in the code, smaller in a model

ASSUME U32MaxAssumption == U32Max \in Nat \ {0}

-----------------------------------------------------------------------------
(* Locations and intervals.                                                *)

Reg(r) == [kind |-> "reg", reg |-> r]
Stack(i) == [kind |-> "stack", slot |-> i]

\* Wrong variant: the intervals are half-open.
overlaps_half_open(i, j) == ~(i.end <= j.start \/ j.end <= i.start)

\* Both ends are inclusive: two intervals that touch in one position overlap.
overlaps(i, j) == ~(i.end < j.start \/ j.end < i.start)

-----------------------------------------------------------------------------
(* PhysRegSet: the vectors regs (allocatable) and scratch.                 *)

\* validate_for_codegen accepts the register set.
validate_for_codegen(rs) ==
    LET all == rs.regs \o rs.scratch
    IN  /\ IsInjective(all)
        /\ "Rbx" \notin Range(all)
        /\ Len(rs.scratch) >= 2

\* max_regs.min(regs.regs.len()): how many registers an allocator may use.
register_limit(rs, max_regs) ==
    IF max_regs < Len(rs.regs) THEN max_regs ELSE Len(rs.regs)

\* The registers an allocator may use: the first register_limit of regs.
allowed_regs(rs, max_regs) == {rs.regs[i] : i \in 1..register_limit(rs, max_regs)}

-----------------------------------------------------------------------------
(* verify_assignment.                                                      *)

spilled(map) == {v \in DOMAIN map : map[v].kind = "stack"}

\* highest_slot.map_or(0, |slot| slot.saturating_add(1)).
expected_slots(map) ==
    IF spilled(map) = {} THEN 0
    ELSE LET highest_slot == Max({map[v].slot : v \in spilled(map)})
         IN  IF highest_slot < U32Max THEN highest_slot + 1 ELSE U32Max

\* What the loop over the map reports; its order decides which of several.
location_errors(rs, allowed, map) ==
    {IF map[v].reg \in Range(rs.scratch) THEN "ReservedScratch"
                                        ELSE "UnavailableRegister" :
        v \in {w \in DOMAIN map : /\ map[w].kind = "reg"
                                  /\ \/ map[w].reg \in Range(rs.scratch)
                                     \/ map[w].reg \notin allowed}}

\* The pairs of values that overlap and share a register or a slot.
conflicts(intervals, map) ==
    {p \in (DOMAIN intervals) \X (DOMAIN intervals) :
        /\ p[1] # p[2]
        /\ overlaps(intervals[p[1]], intervals[p[2]])
        /\ map[p[1]] = map[p[2]]}

\* The set of results verify_assignment can return: {"Ok"}, or the error of
\* the first check that fails.  It is a singleton unless several entries are
\* wrong, when the order of the entries decides.
verify_assignment(intervals, rs, max_regs, assignment) ==
    LET map == assignment.map
        spill_count == Cardinality(spilled(map))
        loop_errors ==
            location_errors(rs, allowed_regs(rs, max_regs), map)
              \cup (IF spill_count > U32Max THEN {"SpillCountOverflow"} ELSE {})
    IN  IF Cardinality(DOMAIN map) # Cardinality(DOMAIN intervals)
        THEN {"WrongEntryCount"}
        ELSE IF ~(DOMAIN intervals \subseteq DOMAIN map) THEN {"MissingValue"}
        ELSE IF ~(DOMAIN map \subseteq DOMAIN intervals) THEN {"UnknownValue"}
        ELSE IF loop_errors # {} THEN loop_errors
        ELSE IF assignment.spills # spill_count THEN {"SpillCountMismatch"}
        ELSE IF assignment.stack_slots # expected_slots(map)
        THEN {"StackSlotCountMismatch"}
        ELSE IF conflicts(intervals, map) # {}
        THEN {IF map[p[1]].kind = "reg" THEN "RegisterConflict"
                                        ELSE "StackSlotConflict" :
                 p \in conflicts(intervals, map)}
        ELSE {"Ok"}
=============================================================================
