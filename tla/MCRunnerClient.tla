--------------------------- MODULE MCRunnerClient ---------------------------
(* Specs at and one past every limit of the runner, and every mix of codes  *)
(* that return, crash and loop over two cases.                             *)
EXTENDS RunnerClient

ok == [arity |-> 0, code |-> "returns"]
i64(size, code, cases) ==
    [kind |-> "I64Cases", size |-> size, code |-> code, cases |-> cases]

outcomes == [arity : {MaxArity}, code : {"returns", "crashes", "loops"}]

MCSpecs ==
    {i64(1, 1, <<a, b>>) : a \in outcomes, b \in outcomes}
      \cup {i64(1, 1, <<ok, [arity |-> MaxArity + 1, code |-> "returns"]>>),
            i64(MAX_SPEC_SIZE, MAX_CODE_SIZE, <<>>),
            i64(MAX_SPEC_SIZE + 1, 1, <<ok>>),
            i64(1, MAX_CODE_SIZE + 1, <<ok>>),
            i64(1, 0, <<ok>>),
            i64(1, 1, [i \in 1..(MAX_CASES + 1) |-> ok])}
      \cup {[kind |-> "Sum8F32", size |-> 1, code |-> 1,
             cases |-> [i \in 1..3 |-> [arity |-> 1, code |-> c]]] :
                c \in {"returns", "loops"}}
=============================================================================
