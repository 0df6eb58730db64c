----------------------------- MODULE SimAnneal ------------------------------
(***************************************************************************)
(* SimAnneal::allocate of crates/alloc_sim_anneal: a greedy start, the     *)
(* annealing loop, the repair of the best state found, the assignment and  *)
(* its verification.  One step is one iteration of one of these loops.     *)
(*                                                                         *)
(* A state of the search gives every interval a choice: 0..k-1 name        *)
(* registers and k, the register limit, means a stack slot.                *)
(*                                                                         *)
(* Abstraction: the generator and the temperature are left out.  The       *)
(* interval and the choice a step tries are arbitrary, and so is the       *)
(* verdict on a step that raises the cost.                                 *)
(***************************************************************************)
EXTENDS AllocInputs

CONSTANTS
    MaxIterations,      \* bound on the field iterations
    SpillCost,          \* 100 in the code
    ConflictCost        \* 1_000_000 in the code

ASSUME CostAssumption == SpillCost \in Nat /\ ConflictCost \in Nat
ASSUME MaxIterationsAssumption == MaxIterations \in Nat

VARIABLES
    intervals, max_regs,        \* the input
    pc,                         \* "greedy", "anneal", "repair", "verify", "done"
    iterations,                 \* iterations the loop still has to make
    current, current_cost,      \* the state of the search
    best, best_cost,            \* the cheapest state met
    repaired,                   \* the prefix of the state repair has built
    result

vars == <<intervals, max_regs, pc, iterations, current, current_cost,
          best, best_cost, repaired, result>>

reg_count == register_limit(RegSet, max_regs)
Registers == 0..(reg_count - 1)

-----------------------------------------------------------------------------
(* Problem: the overlaps of the list and the cost of a state.              *)

overlapping(i, j) == i # j /\ overlaps(intervals[i], intervals[j])

conflicting(state) ==
    {p \in (DOMAIN state) \X (DOMAIN state) :
        /\ p[1] < p[2]
        /\ overlapping(p[1], p[2])
        /\ state[p[1]] < reg_count
        /\ state[p[1]] = state[p[2]]}

choice_costs(state) ==
    [i \in DOMAIN state |->
        IF state[i] = reg_count
        THEN SpillCost + (intervals[i].end - intervals[i].start + 1)
        ELSE state[i]]

\* The first n costs added up.
total(costs, n) ==
    LET sum[i \in 0..n] == IF i = 0 THEN 0 ELSE sum[i - 1] + costs[i]
    IN  sum[n]

cost(state) ==
    total(choice_costs(state), Len(state))
        + ConflictCost * Cardinality(conflicting(state))

\* The registers the neighbours of the next interval hold in a prefix.
used(prefix) ==
    {prefix[j] : j \in {j \in DOMAIN prefix : overlapping(j, Len(prefix) + 1)}}
        \cap Registers

\* used.iter().position(|used| !*used), or a stack slot.
first_unused(prefix) ==
    LET unused == Registers \ used(prefix)
    IN  IF unused = {} THEN reg_count ELSE Min(unused)

\* Wrong variant: the preferred register is taken whoever holds it.
repaired_choice_unchecked(prefix, preferred_register) ==
    IF preferred_register < reg_count
    THEN preferred_register
    ELSE first_unused(prefix)

\* Wrong variant: an interval whose preferred register is taken is spilled.
repaired_choice_no_fallback(prefix, preferred_register) ==
    IF preferred_register < reg_count /\ preferred_register \in used(prefix)
    THEN reg_count
    ELSE IF preferred_register < reg_count
    THEN preferred_register
    ELSE first_unused(prefix)

repaired_choice(prefix, preferred_register) ==
    IF preferred_register < reg_count /\ preferred_register \notin used(prefix)
    THEN preferred_register
    ELSE first_unused(prefix)

-----------------------------------------------------------------------------
(* anneal.                                                                 *)

\* The greedy state is returned as it is, without a search or a repair.
returns_greedy == intervals = <<>> \/ reg_count = 0 \/ iterations = 0

\* greedy_state, one interval.
Greedy ==
    /\ pc = "greedy"
    /\ Len(current) < Len(intervals)
    /\ current' = Append(current, first_unused(current))
    /\ UNCHANGED <<intervals, max_regs, pc, iterations, current_cost, best,
                   best_cost, repaired, result>>

\* The early return of anneal.
ReturnGreedy ==
    /\ pc = "greedy"
    /\ Len(current) = Len(intervals)
    /\ returns_greedy
    /\ pc' = "verify"
    /\ UNCHANGED <<intervals, max_regs, iterations, current, current_cost,
                   best, best_cost, repaired, result>>

StartSearch ==
    /\ pc = "greedy"
    /\ Len(current) = Len(intervals)
    /\ ~returns_greedy
    /\ current_cost' = cost(current)
    /\ best' = current
    /\ best_cost' = cost(current)
    /\ pc' = "anneal"
    /\ UNCHANGED <<intervals, max_regs, iterations, current, repaired, result>>

\* The state a step tries: one interval changes its choice.  A drawn choice
\* that is the old one is replaced by its successor, so it always changes.
tried(index, drawn) ==
    [current EXCEPT ![index] =
        IF drawn = @ THEN (drawn + 1) % (reg_count + 1) ELSE drawn]

\* Wrong variant: the best state follows the search uphill.
AcceptAsBest(index, drawn) ==
    LET next == tried(index, drawn)
    IN  /\ current' = next
        /\ current_cost' = cost(next)
        /\ best' = next
        /\ best_cost' = cost(next)

\* A step that does not raise the cost is always accepted, one that does by
\* chance.
Accept(index, drawn) ==
    LET next == tried(index, drawn)
    IN  /\ current' = next
        /\ current_cost' = cost(next)
        /\ IF cost(next) < best_cost
           THEN best' = next /\ best_cost' = cost(next)
           ELSE UNCHANGED <<best, best_cost>>

\* Wrong variant: the tried choice is not taken back.
RejectKeeping(index, drawn) ==
    /\ cost(tried(index, drawn)) > current_cost
    /\ current' = tried(index, drawn)
    /\ UNCHANGED <<current_cost, best, best_cost>>

\* A step that raises the cost may be rejected; the old choice is restored.
Reject(index, drawn) ==
    /\ cost(tried(index, drawn)) > current_cost
    /\ UNCHANGED <<current, current_cost, best, best_cost>>

Anneal ==
    /\ pc = "anneal"
    /\ iterations > 0
    /\ iterations' = iterations - 1
    /\ \E index \in DOMAIN intervals, drawn \in 0..reg_count :
        Accept(index, drawn) \/ Reject(index, drawn)
    /\ UNCHANGED <<intervals, max_regs, pc, repaired, result>>

StartRepair ==
    /\ pc = "anneal"
    /\ iterations = 0
    /\ pc' = "repair"
    /\ UNCHANGED <<intervals, max_regs, iterations, current, current_cost,
                   best, best_cost, repaired, result>>

\* repair, one interval.
Repair ==
    /\ pc = "repair"
    /\ Len(repaired) < Len(intervals)
    /\ repaired' = Append(repaired, repaired_choice(repaired, best[Len(repaired) + 1]))
    /\ pc' = IF Len(repaired') = Len(intervals) THEN "verify" ELSE "repair"
    /\ UNCHANGED <<intervals, max_regs, iterations, current, current_cost,
                   best, best_cost, result>>

-----------------------------------------------------------------------------
(* allocate: choices become locations, slots are numbered in list order.   *)

\* Wrong variant: a spilled value does not count its predecessor's slot.
slots_before_lagging(state, i) == Cardinality({j \in 1..(i - 2) : state[j] = reg_count})

slots_before(state, i) == Cardinality({j \in 1..(i - 1) : state[j] = reg_count})

locations(state) ==
    [i \in DOMAIN state |->
        IF state[i] < reg_count THEN Reg(RegSet.regs[state[i] + 1])
                                  ELSE Stack(slots_before(state, i))]

spill_count(state) == slots_before(state, Len(state) + 1)

\* What anneal returns: the greedy state, or the repaired best one.
choices == IF best = <<>> THEN current ELSE repaired

Verify ==
    /\ pc = "verify"
    /\ result' \in verify_assignment(intervals, RegSet, reg_count,
                        [map |-> locations(choices),
                         stack_slots |-> spill_count(choices),
                         spills |-> spill_count(choices)])
    /\ pc' = "done"
    /\ UNCHANGED <<intervals, max_regs, iterations, current, current_cost,
                   best, best_cost, repaired>>

Init ==
    /\ intervals \in Lists
    /\ max_regs \in 0..(Len(RegSet.regs) + 1)
    /\ pc = "greedy"
    /\ iterations \in 0..MaxIterations
    /\ current = <<>> /\ current_cost = 0
    /\ best = <<>> /\ best_cost = 0
    /\ repaired = <<>>
    /\ result = "none"

Next == Greedy \/ ReturnGreedy \/ StartSearch \/ Anneal \/ StartRepair
        \/ Repair \/ Verify

Spec == Init /\ [][Next]_vars /\ WF_vars(Next)

-----------------------------------------------------------------------------
(* Properties.                                                             *)

\* Between iterations the running costs are the costs of the states they
\* belong to; a rejected step that is not undone would part them for good.
CostsMatch ==
    pc \in {"anneal", "repair"} =>
        /\ current_cost = cost(current)
        /\ best_cost = cost(best)

\* As long as one conflict costs more than the whole greedy state, the best
\* state has no conflict, so repair never has to move a value out of a
\* register of its own choosing because two values asked for it.
greedy_cost_bound ==
    total([i \in DOMAIN intervals |->
              reg_count + SpillCost + (intervals[i].end - intervals[i].start + 1)],
          Len(intervals))

BestIsConflictFree ==
    pc \in {"anneal", "repair"} /\ greedy_cost_bound < ConflictCost =>
        conflicting(best) = {}

-----------------------------------------------------------------------------
(* Refinement.  The visits of FirstCome are the iterations of repair, or   *)
(* those of the greedy start when anneal returns early.                    *)

early == best = <<>> /\ returns_greedy
placed == IF early THEN current ELSE repaired

Visits == INSTANCE FirstCome WITH
    map <- locations(placed),
    stack_slots <- spill_count(placed)

\* Whatever the search prefers, allocate hands out locations as FirstCome
\* does: a register no earlier overlapping value holds, and a slot of its own
\* only to a value for which there is none; and it returns.
ImplementsFirstCome == Visits!Spec

\* The verifier accepts the result of every search.
VerifierAccepts == result \in {"none", "Ok"}

\* Which values are spilled depends on the list and the budget alone: the
\* search trades registers, but it never spills other values than its greedy
\* start, whatever it prefers.
SpillsAreForced == Visits!SpillSetIsForced
=============================================================================
