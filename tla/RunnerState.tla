----------------------------- MODULE RunnerState ----------------------------
(***************************************************************************)
(* The state of RunnerClient::run and of the child process it starts, and  *)
(* what run promises its caller.  Runner is the child, RunnerClient the    *)
(* parent with its threads and the clock.                                  *)
(***************************************************************************)
EXTENDS Naturals, Sequences

CONSTANTS
    MAX_CODE_SIZE, MAX_SPEC_SIZE, MAX_CASES,    \* as in the code, but small
    MaxArity,       \* 6: the calls execute_i64 can make
    PipeCapacity,   \* chunks a pipe holds before a writer blocks
    Specs           \* the RunnerSpecs of the model

ASSUME RunnerAssumption ==
    /\ {MAX_CODE_SIZE, MAX_SPEC_SIZE, MAX_CASES, MaxArity} \subseteq Nat
    /\ PipeCapacity \in Nat \ {0}

\* A RunnerSpec; the SIMD kernel is called in a loop, a case per iteration.
ASSUME SpecsAssumption ==
    \A s \in Specs :
        /\ s.size \in Nat /\ s.code \in Nat
        /\ s.cases \in Seq([arity : Nat, code : {"returns", "crashes", "loops"}])

Streams == {"stdout", "stderr"}

VARIABLES
    spec,       \* the RunnerSpec: [kind, size, code, cases]
    os_faults,  \* whether calls of the operating system may fail; never changes
    file,       \* the spec file: "absent", "empty" or "complete"
    child,      \* where the child is; "unborn" before the spawn
    status,     \* how it ended: "none", "ok", "failed" or "signal"
    limited,    \* RLIMIT_CPU is in force
    case,       \* number of cases called
    pipe,       \* chunks in each pipe
    written,    \* chunks of the results written
    read_end,   \* whether the read end of each pipe is open
    parent,     \* where run is
    reader,     \* each thread: "none", "reading", "eof", "broken" or "gone"
    got,        \* chunks each thread has read
    deadline,   \* the timeout has passed
    expired,    \* run has seen that it has
    reaped,     \* run has waited for the child
    os_error,   \* try_wait or kill has failed
    result      \* what run returns: "none" until then

running == child \notin {"unborn", "exited"}

\* The results of the I64Cases, or the sink and the duration of the kernel.
result_chunks == IF spec.kind = "I64Cases" THEN Len(spec.cases) + 1 ELSE 2

-----------------------------------------------------------------------------
(* Properties.                                                             *)

\* A result is returned only from a child that has run every case to its end
\* and been read to its end: no part of the output is missing.
OkMeansComplete ==
    result = "Ok" =>
        /\ \A i \in DOMAIN spec.cases : /\ spec.cases[i].code = "returns"
                                        /\ spec.cases[i].arity <= MaxArity
        /\ got["stdout"] = result_chunks

\* The child does not survive run, dead or alive, unless the operating system
\* has refused to poll or to kill it.
NothingLeftBehind ==
    result # "none" /\ child # "unborn" /\ ~os_error => reaped /\ ~running

\* The spec file outlives the child's need of it, unless an error of try_wait
\* or kill has cut run short.
SpecFileOutlivesRead ==
    child \in {"limits", "metadata", "read"} /\ ~os_error => file = "complete"

\* A spec within the limits whose cases all return.
harmless ==
    /\ spec.size <= MAX_SPEC_SIZE
    /\ spec.code \in 1..MAX_CODE_SIZE
    /\ spec.kind = "I64Cases" => Len(spec.cases) <= MAX_CASES
    /\ \A i \in DOMAIN spec.cases : /\ spec.cases[i].arity <= MaxArity
                                    /\ spec.cases[i].code = "returns"

\* Where no call of the operating system fails, code that returns is answered:
\* only the timeout or the processor limit can keep its results from the
\* caller, however large they are.
HarmlessCodeIsAnswered ==
    ~os_faults /\ harmless /\ result # "none" /\ ~expired /\ status # "signal" =>
        result = "Ok"
=============================================================================
