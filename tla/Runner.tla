------------------------------- MODULE Runner -------------------------------
(***************************************************************************)
(* The child process of crates/runner: it limits itself, reads the spec    *)
(* file, maps the code and calls it once per case, then writes the results *)
(* to stdout.  Every error is written to stderr and ends the process with  *)
(* a failure.  RunnerClient composes it with the parent, which owns the    *)
(* file, the read ends of the pipes and the clock.                         *)
(*                                                                         *)
(* Abstraction: a spec is what the checks and the calls tell apart.  Its   *)
(* size and the length of its code are small numbers against small limits, *)
(* a case is its number of arguments and what the code does when it is     *)
(* called with them; the address space and file limits are left out.  A    *)
(* pipe holds chunks, and the results are a chunk per case and one for the *)
(* line around them.                                                       *)
(***************************************************************************)
EXTENDS RunnerState

input == <<spec, os_faults>>
child_vars == <<child, status, limited, case, pipe, written>>

-----------------------------------------------------------------------------

End(how) ==
    /\ child' = "exited"
    /\ status' = how
    /\ UNCHANGED <<limited, case, pipe, written>>

Goto(place) ==
    /\ child' = place
    /\ UNCHANGED <<status, limited, case, pipe, written>>

\* Wrong variant: the processor time is not limited.
apply_limits_without_cpu ==
    /\ child = "limits"
    /\ \/ Goto("metadata")
       \/ os_faults /\ Goto("error")

\* apply_limits; a call that fails may do so before or after RLIMIT_CPU is set.
apply_limits ==
    /\ child = "limits"
    /\ \/ /\ child' = "metadata"
          /\ limited' = TRUE
       \/ /\ os_faults
          /\ child' = "error"
          /\ limited' \in BOOLEAN
    /\ UNCHANGED <<status, case, pipe, written>>

\* The size is checked before the file is read; the file may go in between.
ReadMetadata ==
    /\ child = "metadata"
    /\ Goto(IF file # "absent" /\ spec.size <= MAX_SPEC_SIZE THEN "read" ELSE "error")

ReadSpec ==
    /\ child = "read"
    /\ Goto(IF file = "complete" THEN "map" ELSE "error")

\* The checks before and in ExecutableMapping::new.
mappable ==
    /\ spec.kind = "I64Cases" => Len(spec.cases) <= MAX_CASES
    /\ spec.code \in 1..MAX_CODE_SIZE

\* ExecutableMapping::new: mmap, copy, mprotect.
Map ==
    /\ child = "map"
    /\ \/ Goto(IF mappable THEN "call" ELSE "error")
       \/ os_faults /\ Goto("error")

\* execute_i64, or the call of the SIMD kernel: the code returns, crashes or
\* loops.  A case with too many arguments is refused when its turn comes.
Call ==
    /\ child = "call"
    /\ case < Len(spec.cases)
    /\ LET now == spec.cases[case + 1] IN
       \/ /\ now.arity > MaxArity
          /\ Goto("error")
       \/ /\ now.arity <= MaxArity
          /\ now.code = "returns"
          /\ case' = case + 1
          /\ UNCHANGED <<child, status, limited, pipe, written>>
       \/ now.arity <= MaxArity /\ now.code = "crashes" /\ End("signal")
       \/ now.arity <= MaxArity /\ now.code = "loops" /\ Goto("looping")

\* Results are written only after the last case has returned.
FinishCalls ==
    /\ child = "call"
    /\ case = Len(spec.cases)
    /\ Goto("write")

\* println!: blocks while the pipe is full, panics when nobody can read it.
WriteResults ==
    /\ child = "write"
    /\ written < result_chunks
    /\ \/ /\ read_end["stdout"]
          /\ pipe["stdout"] < PipeCapacity
          /\ pipe' = [pipe EXCEPT !["stdout"] = @ + 1]
          /\ written' = written + 1
          /\ UNCHANGED <<child, status, limited, case>>
       \/ ~read_end["stdout"] /\ Goto("error")

\* main returns an error, or the child panics: the message is written to
\* stderr if somebody can read it.
ReportError ==
    /\ child = "error"
    /\ \/ /\ read_end["stderr"]
          /\ pipe["stderr"] < PipeCapacity
          /\ pipe' = [pipe EXCEPT !["stderr"] = @ + 1]
       \/ ~read_end["stderr"] /\ UNCHANGED pipe
    /\ child' = "exited"
    /\ status' = "failed"
    /\ UNCHANGED <<limited, case, written>>

Exit ==
    /\ child = "write"
    /\ written = result_chunks
    /\ End("ok")

\* SIGXCPU: the child has used up its processor time, wherever it is by then.
CpuLimit ==
    /\ limited
    /\ running
    /\ End("signal")

ChildStep ==
    \/ apply_limits \/ ReadMetadata \/ ReadSpec \/ Map
    \/ Call \/ FinishCalls \/ WriteResults \/ ReportError \/ Exit
=============================================================================
