--------------------------- MODULE MCParallelMoves --------------------------
(* Edges of up to two moves between any locations, and edges of up to       *)
(* MaxMoves moves whose sources are registers.                             *)
EXTENDS ParallelMoves

MCInit ==
    /\ Init
    /\ Len(moves) <= 2 \/ \A i \in DOMAIN moves : source(moves[i]) \in Registers

MCSpec == MCInit /\ [][Next]_move_vars
=============================================================================
