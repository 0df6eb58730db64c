------------------------------ MODULE Analyses ------------------------------
(***************************************************************************)
(* The analyses of a function in the order the command line makes them:    *)
(* validate_function, with the loop of compute_dominators in it, then      *)
(* compute_liveness, then build_interference_graph, which walks through    *)
(* the sets liveness has left.  A function that is not valid is dropped    *)
(* after the first.                                                        *)
(***************************************************************************)
EXTENDS Alloc, Analysis

CONSTANT Programs       \* functions whose blocks are valid

ASSUME ProgramsAssumption ==
    \A g \in Programs :
        /\ g.blocks \in Seq(Range(g.blocks))
        /\ \A n \in DOMAIN g.blocks : g.blocks[n].insts \in Seq(Range(g.blocks[n].insts))
        /\ blocks_are_valid(g)

VARIABLES
    f,
    stage,      \* "dominators", "liveness", "graph" or "end"
    dom, dom_todo, dom_changed, dom_done,
    live_in, live_out, live_todo, live_changed, live_done,
    k, i, live, nodes, edges

dominator_vars == <<dom, dom_todo, dom_changed, dom_done>>
liveness_vars == <<live_in, live_out, live_todo, live_changed, live_done>>
graph_vars == <<k, i, live, nodes, edges>>
vars == <<f, stage, dominator_vars, liveness_vars, graph_vars>>

Dominance == INSTANCE DominatorLoop WITH
    Cfgs <- Programs, todo <- dom_todo, changed <- dom_changed, done <- dom_done
Liveness == INSTANCE LivenessLoop WITH
    todo <- live_todo, changed <- live_changed, done <- live_done
Graph == INSTANCE Interference

Dominators ==
    /\ stage = "dominators"
    /\ Dominance!Next
    /\ UNCHANGED <<stage, liveness_vars, graph_vars>>

\* The checks of validate_function that come after compute_dominators.
passes_validation == definitions_are_valid(f) /\ uses_are_valid(f, dom)

Validate ==
    /\ stage = "dominators"
    /\ dom_done
    /\ stage' = IF passes_validation THEN "liveness" ELSE "end"
    /\ UNCHANGED <<f, dominator_vars, liveness_vars, graph_vars>>

LiveValues ==
    /\ stage = "liveness"
    /\ \/ Liveness!Next /\ UNCHANGED stage
       \/ live_done /\ stage' = "graph" /\ UNCHANGED <<f, liveness_vars>>
    /\ UNCHANGED <<dominator_vars, graph_vars>>

BuildGraph ==
    /\ stage = "graph"
    /\ \/ Graph!Next /\ UNCHANGED stage
       \/ Graph!done /\ stage' = "end" /\ UNCHANGED <<f, live_out, graph_vars>>
    /\ UNCHANGED <<dominator_vars, live_in, live_todo, live_changed, live_done>>

Init ==
    /\ stage = "dominators"
    /\ Dominance!Init
    /\ Liveness!Start
    /\ Graph!Init

Next == Dominators \/ Validate \/ LiveValues \/ BuildGraph

Spec == Init /\ [][Next]_vars /\ WF_vars(Next)

-----------------------------------------------------------------------------
(* Properties.                                                             *)

\* Whatever the order of the blocks, compute_dominators ends with exactly the
\* dominators of every block.
DominatorsAreExact == stage = "dominators" => Dominance!DominatorsAreExact

\* A pass only takes away blocks that do not dominate.
DominatorsAreKept == stage = "dominators" => Dominance!NeverTooSmall

\* compute_liveness ends with exactly the values some path still reads, a phi
\* reading its inputs on the edges, however the loops of the function nest.
LivenessIsExact == stage = "liveness" => Liveness!LivenessIsExact

\* At no moment is a value held live where no path reads it.
LivenessIsSound == stage = "liveness" => Liveness!NeverTooLarge

\* Analysis makes one pass per block, wherever it needs a result; the loops of
\* the code stop with the same.
OnePassPerBlockIsEnough ==
    /\ stage = "dominators" /\ dom_done => dom = compute_dominators(f)
    /\ stage = "liveness" /\ live_done =>
           [live_in |-> live_in, live_out |-> live_out] = compute_liveness(f)

\* No two values that are live at one point are missing an edge: linking each
\* definition with what is live after it is enough in a valid function.
LiveTogetherInterfere == stage = "graph" => Graph!LiveTogetherInterfere

\* The graph and the intervals agree: they are about the same values, and
\* values that interfere have intervals that overlap, so no assignment the
\* verifier accepts gives them one location.
IntervalsCoverEdges ==
    stage = "graph" /\ Graph!done =>
        LET intervals == intervals_from(f, [live_in |-> live_in, live_out |-> live_out])
        IN  /\ nodes = DOMAIN intervals
            /\ \A e \in edges : overlaps(intervals[e[1]], intervals[e[2]])

\* Both while loops and the walk come to an end.
Terminates == <>(stage = "end")
=============================================================================
