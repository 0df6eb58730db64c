---------------------------- MODULE MCLinearScan ----------------------------
(* Small instances of LinearScan: every interval list of four values over   *)
(* four positions, every budget from no register to one more than there are. *)
EXTENDS LinearScan

MCRegSet == [regs |-> <<"Rax", "Rcx">>, scratch |-> <<"R10", "R11">>]
=============================================================================
