----------------------------- MODULE MCPipeline -----------------------------
(* The four examples with cases that take both arms of every branch and     *)
(* every loop up to three times, and four-bit integers so that they wrap.  *)
EXTENDS Pipeline

MCRegSet == [regs |-> <<"Rax", "Rcx", "Rdx", "R8">>, scratch |-> <<"R10", "R11">>]

MCCases ==
    [g \in {basicblock, trace, loop_sum, phi_swap_loop} |->
        CASE g = basicblock -> {<<0, 0, 0>>, <<2, 3, 4>>, <<-1, 1, -1>>, <<7, 1, 2>>, <<-8, -1, 3>>}
          [] g = trace -> {-8, 0, 7} \X {-8, 0, 7}
          [] g = loop_sum -> {<<-1>>, <<0>>, <<1>>, <<3>>}
          [] g = phi_swap_loop -> {<<3, 5, n>> : n \in 0..3}]
=============================================================================
