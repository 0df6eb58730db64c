------------------------------ MODULE Pipeline ------------------------------
(***************************************************************************)
(* playground run: an example is validated, allocated by one of the two    *)
(* allocators, emitted, and executed on validation cases next to the       *)
(* interpreter; the command passes when the results agree.                 *)
(*                                                                         *)
(* The allocators are LinearScanVec and FirstCome, which SimAnneal          *)
(* implements; emitter, machine and interpreter are Codegen.  A behaviour   *)
(* runs one of the cases: the results agree when they do for each.  The    *)
(* runner process between the two results is RunnerClient's part.          *)
(***************************************************************************)
EXTENDS Alloc, Examples, Analysis

CONSTANTS
    Inputs, StepLimit, RegSet, I32Max, MaxFrameBytes, Garbage,
    Cases       \* example -> the argument vectors of validation_cases

VARIABLES
    \* the options of the command
    example, alloc, max_regs, validate,
    stage,          \* "options", "order", "allocate", "emit", "run" or "exit"
    exit,           \* "none", "passed" or "error"
    \* the allocator
    list, placed, free, active, ordered, stack_slots, alloc_result,
    \* emitter, machine and interpreter
    f, args, current, predecessor, index, regs, steps, outcome, returned,
    map, intervals, emitted, cell, moves, want, m_current, m_returned

options == <<example, alloc, max_regs, validate>>
interp_vars == <<f, args, current, predecessor, index, regs, steps, outcome, returned>>
machine == <<emitted, cell, moves, want, m_current, m_returned>>
linear == <<free, active, ordered>>
vars == <<options, stage, exit, list, placed, linear, stack_slots, alloc_result,
          interp_vars, map, intervals, machine>>

example_by_name(name) ==
    CASE name = "basicblock" -> basicblock
      [] name = "trace" -> trace
      [] name \in {"loop-sum", "loop_sum"} -> loop_sum
      [] name \in {"phi-swap-loop", "phi_swap_loop"} -> phi_swap_loop

Names == {"basicblock", "trace", "loop-sum", "loop_sum", "phi-swap-loop", "phi_swap_loop"}
Linear == {"linear-scan", "ls"}
Anneal == {"sim-anneal", "sa"}

Backend == INSTANCE Codegen WITH Programs <- {}, SlotIndices <- <<>>
Scan == INSTANCE LinearScanVec WITH Values <- {}, MaxPos <- 0, result <- alloc_result
Visits == INSTANCE FirstCome WITH
    Lists <- {}, intervals <- list, map <- placed, result <- alloc_result

Exit(how) == stage' = "exit" /\ exit' = how

-----------------------------------------------------------------------------

options_are_valid ==
    /\ example \in Names
    /\ max_regs <= Len(RegSet.regs)
    /\ alloc \in Linear \cup Anneal

\* The checks of the command up to the allocation, and the intervals.
CheckOptions ==
    /\ stage = "options"
    /\ IF options_are_valid /\ validate_function(f) /\ validate_for_codegen(RegSet)
       THEN /\ intervals' = compute_live_intervals(f)
            /\ stage' = "order"
            /\ UNCHANGED exit
       ELSE /\ Exit("error")
            /\ UNCHANGED intervals
    /\ UNCHANGED <<options, list, placed, linear, stack_slots, alloc_result,
                   interp_vars, map, machine>>

\* Both allocators sort the intervals first.
Order ==
    /\ stage = "order"
    /\ stage' = "allocate"
    /\ LET values == Scan!sorted_values IN
       /\ ordered' = values
       /\ list' = [n \in DOMAIN values |-> intervals[values[n]]]
    /\ free' = SubSeq(RegSet.regs, 1, register_limit(RegSet, max_regs))
    /\ UNCHANGED <<options, exit, placed, active, stack_slots, alloc_result,
                   interp_vars, map, intervals, machine>>

\* The allocator returns: its verifier's answer decides.
Allocated ==
    IF alloc_result' = "Ok" THEN stage' = "emit" /\ UNCHANGED exit ELSE Exit("error")

LinearScan ==
    /\ stage = "allocate"
    /\ alloc \in Linear
    /\ \/ Scan!Iterate /\ UNCHANGED <<stage, exit>>
       \/ Scan!Verify /\ Allocated
    /\ UNCHANGED <<options, list, placed, interp_vars, machine>>

\* The values in the order of the list, which is that of ordered.
SimAnneal ==
    /\ stage = "allocate"
    /\ alloc \in Anneal
    /\ \/ /\ (\E r \in Range(RegSet.regs) : Visits!TakeRegister(r)) \/ Visits!Spill
          /\ UNCHANGED <<map, stage, exit>>
       \/ /\ Visits!Verify
          /\ map' = [v \in Range(ordered) |->
                        placed[CHOOSE n \in DOMAIN ordered : ordered[n] = v]]
          /\ Allocated
    /\ UNCHANGED <<options, linear, interp_vars, intervals, machine>>

\* emit_function_i64; without --validate the command ends here.
Emit ==
    /\ stage = "emit"
    /\ Backend!Emit
    /\ CASE emitted' = "rejected" -> Exit("error")
         [] emitted' = "yes" /\ ~validate -> Exit("passed")
         [] emitted' = "yes" /\ validate -> stage' = "run" /\ UNCHANGED exit
    /\ UNCHANGED <<options, list, placed, linear, stack_slots, alloc_result>>

Run ==
    /\ stage = "run"
    /\ \/ Backend!EnterBlock \/ Backend!StopAtLimit \/ Backend!Execute
       \/ Backend!Terminate \/ Backend!MoveOnEdge
    /\ UNCHANGED <<options, stage, exit, list, placed, linear, stack_slots, alloc_result>>

\* expected == actual; an error of the interpreter ends the command too.
Compare ==
    /\ stage = "run"
    /\ outcome # "running"
    /\ Exit(IF outcome = "returned" /\ m_returned = returned THEN "passed" ELSE "error")
    /\ UNCHANGED <<options, list, placed, linear, stack_slots, alloc_result,
                   interp_vars, map, intervals, machine>>

Init ==
    /\ example \in Names \cup {"unknown"}
    /\ alloc \in Linear \cup Anneal \cup {"unknown"}
    /\ max_regs \in 0..(Len(RegSet.regs) + 1)
    /\ validate \in BOOLEAN
    /\ stage = "options" /\ exit = "none"
    /\ f = IF example \in Names THEN example_by_name(example) ELSE trace
    /\ args \in IF example \in Names THEN Cases[f] ELSE {<<0, 0>>}
    /\ current = f.entry /\ predecessor = -1 /\ index = 0
    /\ regs = [v \in {} |-> 0] /\ steps = 0
    /\ outcome = "running" /\ returned = 0
    /\ list = <<>> /\ placed = <<>>
    /\ free = <<>> /\ active = <<>> /\ ordered = <<>>
    /\ stack_slots = 0 /\ alloc_result = "none"
    /\ map = [v \in {} |-> Stack(0)] /\ intervals = [v \in {} |-> 0]
    /\ emitted = "no" /\ cell = [l \in {} |-> Garbage]
    /\ moves = <<>> /\ want = [l \in {} |-> Garbage]
    /\ m_current = f.entry /\ m_returned = Garbage

\* The process has exited: the only state without a step of the command.
Exited == stage = "exit" /\ UNCHANGED vars

Next == CheckOptions \/ Order \/ LinearScan \/ SimAnneal \/ Emit \/ Run \/ Compare \/ Exited

Spec == Init /\ [][Next]_vars

-----------------------------------------------------------------------------
(* Properties.                                                             *)

\* Every example passes with both allocators and every register budget the
\* command accepts, down to none: nothing on the way refuses it, and the
\* native result is the interpreter's on every case.
ExamplesPass == exit = "error" => ~options_are_valid
=============================================================================
