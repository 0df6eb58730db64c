---------------------------- MODULE Interference ----------------------------
(***************************************************************************)
(* build_interference_graph of crates/analysis: a walk through every block *)
(* from its last instruction to its first, which links each definition to  *)
(* the values live after it.  One step is one instruction.  live_out is    *)
(* what compute_liveness, called first, has returned.                      *)
(***************************************************************************)
EXTENDS Alloc, Analysis

VARIABLES
    f,          \* the function
    live_out,   \* block -> the values live at its end
    k,          \* index of the current block
    i,          \* instructions of it still to walk through; -1: not entered
    live,       \* the values live after instruction i
    nodes,
    edges       \* pairs of values, both ways round

vars == <<f, live_out, k, i, live, nodes, edges>>

block == f.blocks[k]
done == k > Len(f.blocks)

-----------------------------------------------------------------------------

\* add_edge, from one value to each of a set; no value is linked to itself.
links(v, others) == UNION {{<<v, w>>, <<w, v>>} : w \in others \ {v}}

\* Wrong variant: only what the terminator reads is live at the end of a block.
EnterBlockTermOnly ==
    /\ ~done
    /\ i = -1
    /\ live' = term_uses(block.term)
    /\ nodes' = nodes \cup live'
    /\ i' = Len(block.insts)
    /\ UNCHANGED <<f, live_out, k, edges>>

EnterBlock ==
    /\ ~done
    /\ i = -1
    /\ live' = live_out[block.id] \cup term_uses(block.term)
    /\ nodes' = nodes \cup live'
    /\ i' = Len(block.insts)
    /\ UNCHANGED <<f, live_out, k, edges>>

\* Wrong variant: the inputs of a phi are live in its own block.
read_by_any(inst) == uses(inst)

\* What an instruction reads in its block; a phi reads on the edges.
read_by(inst) == IF is_phi(inst) THEN {} ELSE uses(inst)

\* One instruction: its definition interferes with what is live after it.
Walk ==
    /\ ~done
    /\ i > 0
    /\ LET inst == block.insts[i] IN
        /\ edges' = edges \cup links(inst.dst, live)
        /\ live' = (live \ {inst.dst}) \cup read_by(inst)
        /\ nodes' = nodes \cup {inst.dst} \cup read_by(inst)
    /\ i' = i - 1
    /\ UNCHANGED <<f, live_out, k>>

LeaveBlock ==
    /\ ~done
    /\ i = 0
    /\ k' = k + 1
    /\ i' = -1
    /\ UNCHANGED <<f, live_out, live, nodes, edges>>

\* After compute_liveness(f), from which f and live_out come.
Init ==
    /\ k = 1 /\ i = -1
    /\ live = {} /\ nodes = {} /\ edges = {}

Next == EnterBlock \/ Walk \/ LeaveBlock

-----------------------------------------------------------------------------
(* Properties.                                                             *)

\* The values of V that no instruction of block b from j to before e defines.
not_defined(b, j, e, V) == {v \in V : \A x \in j..(e - 1) : b.insts[x].dst # v}

\* The values instructions from j on read.
read_later(b, j) ==
    UNION {not_defined(b, j, e, used_at(b, e)) : e \in j..(Len(b.insts) + 1)}

\* The values live before instruction j of block b: read later in the block
\* or live out of it, without a definition in between.
live_before(b, j) ==
    read_later(b, j) \cup not_defined(b, j, Len(b.insts) + 1, live_out[b.id])

\* No two values that are live at the same point of a valid function are
\* missing an edge: looking at definitions only is enough, because every use
\* is dominated by its definition.
LiveTogetherInterfere ==
    done => \A x \in DOMAIN f.blocks : \A j \in 1..(Len(f.blocks[x].insts) + 1) :
                LET together == live_before(f.blocks[x], j)
                IN  \A v, w \in together : v # w => <<v, w>> \in edges
=============================================================================
