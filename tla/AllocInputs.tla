---------------------------- MODULE AllocInputs -----------------------------
(* What an allocator that visits the intervals in list order is given: the  *)
(* list compute_live_intervals returns, sorted by start, end and value, and *)
(* the register set.  A value is named by its index in the list.           *)
EXTENDS Alloc

CONSTANTS
    Lists,      \* the interval lists: sequences of [start, end]
    RegSet      \* the PhysRegSet handed to the allocator

\* Every interval of a list is not empty, and the list is sorted by start.
ASSUME ListsAssumption ==
    \A list \in Lists :
        /\ list \in Seq([start : Nat, end : Nat])
        /\ Len(list) <= U32Max
        /\ \A i \in DOMAIN list : list[i].start <= list[i].end
        /\ \A i, j \in DOMAIN list : i < j => list[i].start <= list[j].start

ASSUME AllocRegSetAssumption == /\ RegSet.regs \in Seq(STRING)
                                /\ RegSet.scratch \in Seq(STRING)
                                /\ validate_for_codegen(RegSet)
=============================================================================
