----------------------------- MODULE MCAnalyses -----------------------------
(* Every control flow graph of four reachable blocks in every order, which  *)
(* only the dominators go through; the small functions of MCFunctions; and  *)
(* loops that compute with phis.                                           *)
EXTENDS Analyses, MCFunctions

Ids == 0..3
Terms == {Ret(0)} \cup {Jmp(t) : t \in Ids}
            \cup {Br(0, p[1], p[2]) : p \in {q \in Ids \X Ids : q[1] < q[2]}}

Cfg(terms) ==
    [args |-> 0, entry |-> 0,
     blocks |-> [b \in 1..4 |-> [id |-> b - 1, insts |-> <<>>, term |-> terms[b]]]]

Cfgs == {g \in {Cfg(terms) : terms \in [1..4 -> Terms]} : blocks_are_valid(g)}

\* Two phis in a loop, the sum or comparison of some of its values, and a
\* definition nobody reads.
Loops ==
    {[args |-> 1, entry |-> 0,
      blocks |-> <<[id |-> 0, insts |-> <<ArgI64(1, 0), ConstI64(2, 1)>>, term |-> Jmp(1)],
                   [id |-> 1, insts |-> <<PhiI64(3, <<<<0, 1>>, <<1, x>>>>),
                                          PhiI64(4, <<<<0, 2>>, <<1, y>>>>),
                                          AddI64(5, a, b), MovI64(6, a)>>,
                    term |-> Br(c, 1, 2)],
                   [id |-> 2, insts |-> <<>>, term |-> Ret(z)]>>] :
        x \in {2, 4, 5}, y \in {3, 5}, a \in {1, 3, 4}, b \in {2, 4},
        c \in {3, 5}, z \in {2, 3, 5}}

MCPrograms == Cfgs \cup SmallFunctions \cup Loops
=============================================================================
