----------------------------- MODULE MCSimAnneal ----------------------------
(* Every sorted list of up to MaxValues intervals over the positions        *)
(* 0..MaxPos, every budget, and every search of up to MaxIterations steps.  *)
EXTENDS SimAnneal

CONSTANTS MaxValues, MaxPos

MCRegSet == [regs |-> <<"Rax", "Rcx">>, scratch |-> <<"R10", "R11">>]

Spans == {s \in [start : 0..MaxPos, end : 0..MaxPos] : s.start <= s.end}

sorted(list) ==
    \A i \in 1..(Len(list) - 1) :
        \/ list[i].start < list[i + 1].start
        \/ list[i].start = list[i + 1].start /\ list[i].end <= list[i + 1].end

MCLists == {list \in UNION {[1..n -> Spans] : n \in 0..MaxValues} : sorted(list)}
=============================================================================
