--------------------------- MODULE MCLinearScanVec --------------------------
(* Every interval list of four values over four positions, every budget     *)
(* from no register to one more than there are.                            *)
EXTENDS LinearScanVec

MCRegSet == [regs |-> <<"Rax", "Rcx">>, scratch |-> <<"R10", "R11">>]
=============================================================================
