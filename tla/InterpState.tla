----------------------------- MODULE InterpState ----------------------------
(***************************************************************************)
(* The state of Interpreter::eval_i64_with_limit, and what validation      *)
(* promises of a run.  Interp is the interpreter; Codegen runs the emitted *)
(* code beside it.                                                         *)
(***************************************************************************)
EXTENDS Analysis

CONSTANTS
    Programs,       \* the functions to run
    Inputs,         \* argument values
    StepLimit       \* the bound on steps, DEFAULT_STEP_LIMIT in the code

ASSUME ProgramsAssumption == \A g \in Programs : is_function(g)
ASSUME StepLimitAssumption == StepLimit \in Nat \ {0}

VARIABLES
    f,              \* the function
    args,           \* its arguments
    current,        \* the current block
    predecessor,    \* the block it was entered from, or NoBlock
    index,          \* 0: the block is to be entered; i: instruction i is next
    regs,           \* the values computed so far
    steps,
    outcome,        \* "running", "returned", or the error that ended the run
    returned        \* the value returned

interp_vars == <<f, args, current, predecessor, index, regs, steps, outcome, returned>>

-----------------------------------------------------------------------------
(* Properties.                                                             *)

\* A function that passes validate_function never fails in the interpreter
\* but by the step limit: every value is defined before it is read, on every
\* path, and every phi knows the edge it is entered by.
ValidatedNeverFails ==
    outcome \notin {"running", "returned", "step limit exceeded"} =>
        ~validate_function(f)
=============================================================================
