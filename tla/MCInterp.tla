------------------------------- MODULE MCInterp -----------------------------
(***************************************************************************)
(* Functions of three blocks, valid and not, for Interp: every operand, phi *)
(* input and branch target is varied.                                      *)
(***************************************************************************)
EXTENDS Interp

Block(id, insts, term) == [id |-> id, insts |-> insts, term |-> term]
Func(n, blocks) == [args |-> n, entry |-> 0, blocks |-> blocks]

Entries == {<<ArgI64(1, 0)>>, <<ArgI64(1, 0), ConstI64(2, -4)>>}
EntryTerms == {Jmp(1), Br(1, 1, 2), Br(2, 2, 1)}

MiddleInsts ==
    {<<>>} \cup {<<o>> : o \in {AddI64(3, 1, 2), MulI64(3, 2, 2), CmpGtI64(3, 3, 1), MovI64(3, 4),
                    PhiI64(3, <<<<0, 1>>>>)}}
      \cup {<<PhiI64(3, <<<<0, x>>, <<1, y>>>>)>> : x \in {1, 2}, y \in {3, 4}}
MiddleTerms == {Jmp(2), Jmp(7), Br(1, 1, 2), Br(3, 1, 2)}

LastInsts ==
    {<<>>, <<ConstI64(4, 3)>>, <<PhiI64(4, <<<<1, 3>>>>)>>}
      \cup {<<PhiI64(4, <<<<1, x>>, <<0, y>>>>), PhiI64(5, <<<<0, 1>>, <<1, 4>>>>)>> :
               x \in {2, 3}, y \in {1, 2, 5}}
LastTerms == {Ret(3), Ret(4), Ret(5)}

Valued ==
    {Func(n, <<Block(0, i0, t0), Block(1, i1, t1), Block(2, i2, t2)>>) :
        n \in {0, 1}, i0 \in Entries, t0 \in EntryTerms,
        i1 \in MiddleInsts, t1 \in MiddleTerms, i2 \in LastInsts, t2 \in LastTerms}

\* A phi in the entry block: it has no predecessor to choose by.
PhiInEntry == {Func(0, <<Block(0, <<PhiI64(1, <<<<0, 1>>>>)>>, Ret(1))>>)}

MCPrograms == Valued \cup PhiInEntry
=============================================================================
