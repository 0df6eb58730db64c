---------------------------- MODULE RunnerClient ----------------------------
(***************************************************************************)
(* RunnerClient::run of crates/cli with the child process it starts: the   *)
(* temporary spec file, the two threads that drain the pipes, the loop     *)
(* that polls the child until it ends or the timeout has passed, the kill, *)
(* and the joins.  After run has returned the command line ends, and with  *)
(* it the threads and the read ends.                                       *)
(*                                                                         *)
(* Abstraction: time is the moment the timeout passes.  SIGKILL takes      *)
(* effect at once.  Finding or building the runner executable succeeds or  *)
(* fails.                                                                  *)
(***************************************************************************)
EXTENDS Runner

parent_vars == <<parent, expired, reaped, os_error, result>>
vars == <<input, file, child_vars, read_end, parent_vars, reader, got, deadline>>

-----------------------------------------------------------------------------
(* The statements of run.                                                  *)

\* run returns: the temporary file is deleted.
Return(value) ==
    /\ parent' = "done"
    /\ result' = value
    /\ file' = "absent"

\* Nothing of the child is touched.
ParentOnly == UNCHANGED <<input, child_vars, read_end, reader, got, deadline>>

CreateTemp ==
    /\ parent = "create"
    /\ \/ /\ file' = "empty"
          /\ parent' = "write"
          /\ UNCHANGED result
       \/ os_faults /\ Return("error")
    /\ UNCHANGED <<expired, reaped, os_error>>
    /\ ParentOnly

WriteSpec ==
    /\ parent = "write"
    /\ \/ /\ file' = "complete"
          /\ parent' = "locate"
          /\ UNCHANGED result
       \/ os_faults /\ Return("error")
    /\ UNCHANGED <<expired, reaped, os_error>>
    /\ ParentOnly

find_or_build_runner_exe ==
    /\ parent = "locate"
    /\ \/ parent' = "spawn" /\ UNCHANGED <<file, result>>
       \/ os_faults /\ Return("error")
    /\ UNCHANGED <<expired, reaped, os_error>>
    /\ ParentOnly

\* Wrong variant: the temporary file is dropped once the child has its name.
SpawnDroppingTemp ==
    /\ parent = "spawn"
    /\ file' = "absent"
    /\ \/ /\ child' = "limits"
          /\ parent' = "read_stdout"
          /\ UNCHANGED result
       \/ os_faults /\ parent' = "done" /\ result' = "error" /\ UNCHANGED child
    /\ UNCHANGED <<input, status, limited, case, pipe, written, read_end, reader,
                   got, deadline, expired, reaped, os_error>>

Spawn ==
    /\ parent = "spawn"
    /\ \/ /\ child' = "limits"
          /\ parent' = "read_stdout"
          /\ UNCHANGED <<file, result>>
       \/ os_faults /\ Return("error") /\ UNCHANGED child
    /\ UNCHANGED <<input, status, limited, case, pipe, written, read_end, reader,
                   got, deadline, expired, reaped, os_error>>

\* Wrong variant: stdout is read when the child has ended.
ReadStdoutLater ==
    /\ \/ parent = "read_stdout" /\ parent' = "read_stderr" /\ UNCHANGED reader
       \/ /\ parent = "read_stderr"
          /\ reader' = [reader EXCEPT !["stderr"] = "reading"]
          /\ parent' = "poll"
       \/ /\ parent = "join_stdout"
          /\ reader["stdout"] = "none"
          /\ reader' = [reader EXCEPT !["stdout"] = "reading"]
          /\ UNCHANGED parent
    /\ UNCHANGED <<input, file, child_vars, read_end, got, deadline, expired,
                   reaped, os_error, result>>

\* read_in_background, for one stream after the other.
ReadInBackground ==
    /\ \/ /\ parent = "read_stdout"
          /\ reader' = [reader EXCEPT !["stdout"] = "reading"]
          /\ parent' = "read_stderr"
       \/ /\ parent = "read_stderr"
          /\ reader' = [reader EXCEPT !["stderr"] = "reading"]
          /\ parent' = "poll"
    /\ UNCHANGED <<input, file, child_vars, read_end, got, deadline, expired,
                   reaped, os_error, result>>

\* try_wait: the child has ended and is reaped, it has not, or an error leaves
\* run with the child as it is.
Poll ==
    /\ parent = "poll"
    /\ \/ /\ child = "exited"
          /\ reaped' = TRUE
          /\ parent' = "join_stdout"
          /\ UNCHANGED <<file, os_error, result>>
       \/ /\ child # "exited"
          /\ parent' = "check"
          /\ UNCHANGED <<file, reaped, os_error, result>>
       \/ /\ os_faults
          /\ os_error' = TRUE
          /\ Return("error")
          /\ UNCHANGED reaped
    /\ UNCHANGED expired
    /\ ParentOnly

\* The timeout is looked at after the poll; the sleep leads to the next one.
CheckTimeout ==
    /\ parent = "check"
    /\ IF deadline THEN parent' = "kill" /\ expired' = TRUE
                   ELSE parent' = "poll" /\ UNCHANGED expired
    /\ UNCHANGED <<file, reaped, os_error, result>>
    /\ ParentOnly

\* Wrong variant: run gives the child up instead of killing it.
KillForgotten ==
    /\ parent = "kill"
    /\ parent' = "wait"
    /\ UNCHANGED <<file, expired, reaped, os_error, result>>
    /\ ParentOnly

\* kill: a child that has ended since the poll is still there to be signalled.
Kill ==
    /\ parent = "kill"
    /\ \/ /\ parent' = "wait"
          /\ IF running THEN End("signal") ELSE UNCHANGED child_vars
          /\ UNCHANGED <<file, os_error, result>>
       \/ /\ os_faults
          /\ os_error' = TRUE
          /\ Return("error")
          /\ UNCHANGED child_vars
    /\ UNCHANGED <<input, read_end, reader, got, deadline, expired, reaped>>

\* Wrong variant: a killed child is not waited for.
WaitForgotten ==
    /\ parent = "wait"
    /\ parent' = "join_stdout"
    /\ UNCHANGED <<file, expired, reaped, os_error, result>>
    /\ ParentOnly

Wait ==
    /\ parent = "wait"
    /\ child = "exited"
    /\ reaped' = TRUE
    /\ parent' = "join_stdout"
    /\ UNCHANGED <<file, expired, os_error, result>>
    /\ ParentOnly

\* What run makes of the exit status when it has not timed out.
verdict == IF expired THEN "timed out" ELSE IF status = "ok" THEN "Ok" ELSE "failed"

\* Wrong variant: what has been read so far is taken for the whole output.
finish_stdout_early ==
    /\ parent = "join_stdout"
    /\ parent' = "join_stderr"
    /\ UNCHANGED <<file, result, expired, reaped, os_error>>
    /\ ParentOnly

\* finish_read of stdout: the thread has reached the end of the stream, or its
\* read has failed.
finish_stdout ==
    /\ parent = "join_stdout"
    /\ \/ reader["stdout"] = "eof" /\ parent' = "join_stderr" /\ UNCHANGED <<file, result>>
       \/ reader["stdout"] = "broken" /\ Return("error")
    /\ UNCHANGED <<expired, reaped, os_error>>
    /\ ParentOnly

finish_stderr ==
    /\ parent = "join_stderr"
    /\ \/ reader["stderr"] = "eof" /\ Return(verdict)
       \/ reader["stderr"] = "broken" /\ Return("error")
    /\ UNCHANGED <<expired, reaped, os_error>>
    /\ ParentOnly

ParentStep ==
    \/ CreateTemp \/ WriteSpec \/ find_or_build_runner_exe \/ Spawn
    \/ ReadInBackground \/ Poll \/ CheckTimeout \/ Kill \/ Wait
    \/ finish_stdout \/ finish_stderr

-----------------------------------------------------------------------------
(* The threads, the clock and the end of the command line.                 *)

\* Wrong variant: an empty pipe is taken for its end.
at_end_when_empty(stream) == pipe[stream] = 0

\* Only the child holds the write ends: when it has ended and the pipe is
\* empty, a read reports the end of the stream.
at_end(stream) == pipe[stream] = 0 /\ child = "exited"

\* read_to_end.
ReaderStep(stream) ==
    /\ reader[stream] = "reading"
    /\ \/ /\ pipe[stream] > 0
          /\ pipe' = [pipe EXCEPT ![stream] = @ - 1]
          /\ got' = [got EXCEPT ![stream] = @ + 1]
          /\ UNCHANGED <<reader, read_end>>
       \/ /\ at_end(stream)
          /\ reader' = [reader EXCEPT ![stream] = "eof"]
          /\ read_end' = [read_end EXCEPT ![stream] = FALSE]
          /\ UNCHANGED <<pipe, got>>
       \/ /\ os_faults
          /\ reader' = [reader EXCEPT ![stream] = "broken"]
          /\ read_end' = [read_end EXCEPT ![stream] = FALSE]
          /\ UNCHANGED <<pipe, got>>
    /\ UNCHANGED <<input, file, child, status, limited, case, written,
                   parent_vars, deadline>>

\* The timeout passes.
ClockPasses ==
    /\ parent \in {"poll", "check"}
    /\ ~deadline
    /\ deadline' = TRUE
    /\ UNCHANGED <<input, file, child_vars, read_end, parent_vars, reader, got>>

\* The command line ends after run has returned; its threads end with it.
CliExit ==
    /\ parent = "done"
    /\ parent' = "exited"
    /\ reader' = [s \in Streams |-> "gone"]
    /\ read_end' = [s \in Streams |-> FALSE]
    /\ UNCHANGED <<input, file, child_vars, got, deadline, expired, reaped,
                   os_error, result>>

Runner == ChildStep /\ UNCHANGED <<input, file, read_end, parent_vars, reader, got, deadline>>
Xcpu == CpuLimit /\ UNCHANGED <<input, file, read_end, parent_vars, reader, got, deadline>>

Init ==
    /\ spec \in Specs /\ os_faults \in BOOLEAN
    /\ file = "absent"
    /\ child = "unborn" /\ status = "none" /\ limited = FALSE
    /\ case = 0 /\ written = 0
    /\ pipe = [s \in Streams |-> 0]
    /\ read_end = [s \in Streams |-> TRUE]
    /\ parent = "create" /\ result = "none"
    /\ reader = [s \in Streams |-> "none"]
    /\ got = [s \in Streams |-> 0]
    /\ deadline = FALSE /\ expired = FALSE
    /\ reaped = FALSE /\ os_error = FALSE

Next ==
    \/ ParentStep \/ CliExit
    \/ Runner \/ Xcpu
    \/ \E stream \in Streams : ReaderStep(stream)
    \/ ClockPasses

\* Every process and thread runs on; the command line ends after run.
Scheduling ==
    /\ WF_vars(ParentStep)
    /\ WF_vars(CliExit)
    /\ WF_vars(Runner)
    /\ \A stream \in Streams : WF_vars(ReaderStep(stream))

\* A looping child uses up its processor time; one that waits at a full pipe
\* does not.
CpuFairness == WF_vars(child = "looping" /\ Xcpu)

\* The timeout passes.
ClockFairness == WF_vars(ClockPasses)

\* The processor time is used up or the timeout passes, and either may be the
\* one that never does.
Spec == Init /\ [][Next]_vars /\ Scheduling /\ (CpuFairness \/ ClockFairness)

-----------------------------------------------------------------------------
(* Properties.                                                             *)

\* run returns, whatever the child does.  If the timeout passes, the kill ends
\* every child; if it may be far away, it takes both the child's own limit on
\* processor time and the threads that drain the pipes.
ParentReturns == <>(result # "none")

\* The child ends without the timeout, even one that an error of try_wait or
\* kill has left behind: its processor time is limited, and a pipe nobody reads
\* is broken when the command line ends.
ChildEnds == CpuFairness => [](running => <>(~running))
=============================================================================
