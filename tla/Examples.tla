------------------------------ MODULE Examples ------------------------------
(* The programs of crates/ir/src/examples.rs, as their texts parse.        *)
EXTENDS IR

Block(id, insts, term) == [id |-> id, insts |-> insts, term |-> term]
Func(n, blocks) == [args |-> n, entry |-> 0, blocks |-> blocks]

basicblock ==
    Func(3, <<Block(0, <<ArgI64(0, 0), ArgI64(1, 1), ArgI64(2, 2),
                         AddI64(3, 0, 1), MulI64(4, 3, 2), ConstI64(5, 7),
                         AddI64(6, 4, 5), MulI64(7, 0, 2), AddI64(8, 6, 7),
                         MulI64(9, 1, 2), AddI64(10, 8, 9)>>, Ret(10))>>)

trace ==
    Func(2, <<Block(0, <<ArgI64(0, 0), ArgI64(1, 1), CmpGtI64(2, 0, 1)>>, Br(2, 1, 2)),
              Block(1, <<MovI64(3, 0)>>, Jmp(3)),
              Block(2, <<MovI64(4, 1)>>, Jmp(3)),
              Block(3, <<PhiI64(5, <<<<1, 3>>, <<2, 4>>>>)>>, Ret(5))>>)

loop_sum ==
    Func(1, <<Block(0, <<ArgI64(0, 0), ConstI64(1, 0), ConstI64(2, 1)>>, Jmp(1)),
              Block(1, <<PhiI64(3, <<<<0, 2>>, <<2, 7>>>>),
                         PhiI64(4, <<<<0, 1>>, <<2, 6>>>>),
                         CmpGtI64(5, 3, 0)>>, Br(5, 3, 2)),
              Block(2, <<AddI64(6, 4, 3), AddI64(7, 3, 2)>>, Jmp(1)),
              Block(3, <<>>, Ret(4))>>)

phi_swap_loop ==
    Func(3, <<Block(0, <<ArgI64(0, 0), ArgI64(1, 1), ArgI64(2, 2),
                         ConstI64(3, 0), ConstI64(4, -1)>>, Jmp(1)),
              Block(1, <<PhiI64(5, <<<<0, 0>>, <<2, 6>>>>),
                         PhiI64(6, <<<<0, 1>>, <<2, 5>>>>),
                         PhiI64(7, <<<<0, 2>>, <<2, 9>>>>),
                         CmpGtI64(8, 7, 3)>>, Br(8, 2, 3)),
              Block(2, <<AddI64(9, 7, 4)>>, Jmp(1)),
              Block(3, <<>>, Ret(5))>>)
=============================================================================
