------------------------------ MODULE MCCodegen -----------------------------
(***************************************************************************)
(* Families of functions for Codegen.  Values are numbered in the order of *)
(* their definitions.                                                      *)
(***************************************************************************)
EXTENDS Codegen

MCRegSet == [regs |-> <<"Rax", "Rcx">>, scratch |-> <<"R10", "R11">>]

Block(id, insts, term) == [id |-> id, insts |-> insts, term |-> term]
Func(n, blocks) == [args |-> n, entry |-> 0, blocks |-> blocks]

\* No dead phi comes before another phi of its block.
NoDeadPhi(g) ==
    \A k \in DOMAIN g.blocks :
        LET b == g.blocks[k] IN
        \A i \in DOMAIN b.insts :
            is_phi(b.insts[i]) /\ i < Len(b.insts) /\ is_phi(b.insts[i + 1]) =>
                \/ b.insts[i].dst \in compute_liveness(g).live_out[b.id]
                \/ \E j \in 1..(Len(b.insts) + 1) : b.insts[i].dst \in used_at(b, j)

\* A loop with two phis: swaps, copies and rotations through the body's sum.
Loops ==
    {Func(1, <<Block(0, <<ArgI64(1, 0), ConstI64(2, 1)>>, Jmp(1)),
               Block(1, <<PhiI64(3, <<<<0, 1>>, <<1, x>>>>),
                          PhiI64(4, <<<<0, 2>>, <<1, y>>>>),
                          o>>,
                     Br(c, 1, 2)),
               Block(2, <<>>, Ret(z))>>) :
        x \in {2, 4, 5}, y \in {3, 5}, c \in {3, 5}, z \in {3, 4},
        o \in {AddI64(5, 3, 4), CmpGtI64(5, 4, 3)}}

MCLoops == {g \in Loops : NoDeadPhi(g)}

\* Both arms of a branch join in a phi; the arms compute with what they share.
Joins ==
    {Func(1, <<Block(0, <<ArgI64(1, 0), ConstI64(2, 2)>>, Br(1, 1, 2)),
               Block(1, <<o>>, Jmp(3)),
               Block(2, <<MovI64(4, 1)>>, Jmp(3)),
               Block(3, <<PhiI64(5, <<<<2, y>>, <<1, x>>>>)>>, Ret(z))>>) :
        x \in {1, 3}, y \in {2, 4}, z \in {2, 5},
        o \in {MulI64(3, 1, 2), MulI64(3, 2, 2), AddI64(3, 2, 1)}}

MCPrograms == MCLoops \cup Joins

\* A phi nobody reads, in front of one that is returned.
MCDeadPhi ==
    {Func(0, <<Block(0, <<ConstI64(1, 1), ConstI64(2, 2)>>, Jmp(1)),
               Block(1, <<PhiI64(3, <<<<0, 1>>>>), PhiI64(4, <<<<0, 2>>>>)>>, Ret(4))>>)}

\* Three phis that rotate in a loop.
MCRotation ==
    {Func(0, <<Block(0, <<ConstI64(1, 1), ConstI64(2, 0), ConstI64(3, 2)>>, Jmp(1)),
               Block(1, <<PhiI64(4, <<<<0, 1>>, <<1, 5>>>>),
                          PhiI64(5, <<<<0, 2>>, <<1, 6>>>>),
                          PhiI64(6, <<<<0, 3>>, <<1, 4>>>>)>>,
                     Br(4, 1, 2)),
               Block(2, <<>>, Ret(5))>>)}

\* Two values, for every number of arguments up to one too many.
MCFrame ==
    {Func(n, <<Block(0, <<ConstI64(1, 1), AddI64(2, 1, 1)>>, Ret(2))>>) : n \in 0..7}

\* Slots around the limits of the frame, of an i32 and of a u32.
Boundaries == 0..12 \cup (I32Max - 1)..(I32Max + 1) \cup (U32Max - 1)..U32Max

MCSlotIndices ==
    [g \in MCPrograms \cup MCFrame \cup MCDeadPhi \cup MCRotation |->
        IF g \in MCFrame THEN Boundaries ELSE IF g \in MCRotation THEN 0..2 ELSE 0..1]

MCAllPrograms == MCPrograms \cup MCFrame
=============================================================================
