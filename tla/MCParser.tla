------------------------------ MODULE MCParser ------------------------------
(* Every text of up to MaxLines of these lines.  Two labels spell block 0,   *)
(* one has no number.                                                      *)
EXTENDS Parser

MCNoId == -1
MCBlockId == [b0 |-> 0, b00 |-> 0, b1 |-> 1, x |-> MCNoId]

MCLines ==
    {[op |-> "block", label |-> l] : l \in DOMAIN MCBlockId}
      \cup {[op |-> "plain", inst |-> ConstI64(1, 2)],
            [op |-> "phi", dst |-> 2, incoming |-> <<<<"b0", 1>>, <<"b1", 2>>>>],
            [op |-> "phi", dst |-> 3, incoming |-> <<>>],
            [op |-> "ret", value |-> 1],
            [op |-> "jmp", target |-> "b1"],
            [op |-> "br", cond |-> 1, then_bb |-> "b00", else_bb |-> "b0"],
            [op |-> "bad"],
            [op |-> "bad term"]}
=============================================================================
