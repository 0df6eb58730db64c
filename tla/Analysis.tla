------------------------------ MODULE Analysis ------------------------------
(***************************************************************************)
(* The analyses of crates/analysis as operators on a function: predecessors, *)
(* liveness, live intervals, dominators and validate_function.  Insertion  *)
(* order of the IndexMaps and IndexSets is left out: no analysis depends on *)
(* it.                                                                     *)
(***************************************************************************)
EXTENDS IR, FiniteSetsExt

-----------------------------------------------------------------------------
(* Predecessors and phi data.                                              *)

build_predecessors(f) ==
    [id \in block_ids(f) |->
        {f.blocks[k].id : k \in {j \in DOMAIN f.blocks :
                                    id \in successors(f.blocks[j].term)}}]

phis(block) == {block.insts[i] : i \in {j \in DOMAIN block.insts : is_phi(block.insts[j])}}

phi_defs(f, id) == {p.dst : p \in phis(try_block(f, id))}

\* The values read on the edge from pred to id.
phi_uses(f, pred, id) ==
    UNION {{e[2] : e \in {x \in Range(p.incoming) : x[1] = pred}} :
               p \in phis(try_block(f, id))}

-----------------------------------------------------------------------------
(* compute_liveness.                                                       *)

\* The values instruction i of a block reads in the block itself; the
\* terminator comes last, and a phi reads on the edge and not here.
used_at(block, i) ==
    IF i = Len(block.insts) + 1 THEN term_uses(block.term)
    ELSE IF is_phi(block.insts[i]) THEN {} ELSE uses(block.insts[i])

def_set(block) == {block.insts[i].dst : i \in DOMAIN block.insts}

\* Read before anything in the block defines it.
use_set(block) ==
    UNION {{v \in used_at(block, i) :
               \A j \in 1..(i - 1) : block.insts[j].dst # v} :
           i \in 1..(Len(block.insts) + 1)}

\* Wrong variant: a phi reads all its inputs on each of its edges.
live_out_of_any_edge(f, live_in, block) ==
    UNION {(live_in[s] \ phi_defs(f, s))
              \cup UNION {uses(p) : p \in phis(try_block(f, s))} :
               s \in successors(block.term)}

\* What a block passes on, given live_in of its successors.
live_out_of(f, live_in, block) ==
    UNION {(live_in[s] \ phi_defs(f, s)) \cup phi_uses(f, block.id, s) :
               s \in successors(block.term)}

live_in_of(block, out) == use_set(block) \cup (out \ def_set(block))

\* One pass over the blocks, last to first, on the pair of maps l.
liveness_sweep(f, l) ==
    LET visit(acc, block) ==
            LET out == live_out_of(f, acc.live_in, block)
            IN  [live_in  |-> [acc.live_in EXCEPT ![block.id] = live_in_of(block, out)],
                 live_out |-> [acc.live_out EXCEPT ![block.id] = out]]
        after[n \in 0..Len(f.blocks)] ==
            IF n = 0 THEN l ELSE visit(after[n - 1], f.blocks[Len(f.blocks) + 1 - n])
    IN  after[Len(f.blocks)]

\* Wrong variant: a single pass.
compute_liveness_once(f) ==
    LET none == [id \in block_ids(f) |-> {}]
    IN  liveness_sweep(f, [live_in |-> none, live_out |-> none])

\* The passes until nothing changes.  A pass takes every live range at least
\* one block further, so one pass per block is enough, and more change nothing.
compute_liveness(f) ==
    LET none == [id \in block_ids(f) |-> {}]
        after[n \in 0..Len(f.blocks)] ==
            IF n = 0 THEN [live_in |-> none, live_out |-> none]
                     ELSE liveness_sweep(f, after[n - 1])
    IN  after[Len(f.blocks)]

-----------------------------------------------------------------------------
(* compute_live_intervals.                                                 *)

\* The instructions <<block index, instruction index>> of a function; the
\* terminator of a block is its last.
places(f) ==
    UNION {{k} \X (1..(Len(f.blocks[k].insts) + 1)) : k \in DOMAIN f.blocks}

\* Its position: how many instructions come before it.
position(f, p) ==
    Cardinality({q \in places(f) : q[1] < p[1] \/ (q[1] = p[1] /\ q[2] < p[2])})

\* The values touch is called with for the position of place p.  Phi inputs
\* are read at the end of the predecessor.
touched_at(f, liveness, p) ==
    LET block == f.blocks[p[1]]
        edge_uses == UNION {phi_uses(f, block.id, s) : s \in block_ids(f)}
    IN  used_at(block, p[2])
          \cup (IF p[2] = Len(block.insts) + 1
                THEN edge_uses \cup liveness.live_out[block.id]
                ELSE {block.insts[p[2]].dst})
          \cup (IF p[2] = 1 THEN liveness.live_in[block.id] ELSE {})

\* From the first to the last position a value is touched at.
intervals_from(f, liveness) ==
    LET at(v) == {position(f, p) : p \in {q \in places(f) : v \in touched_at(f, liveness, q)}}
    IN  [v \in UNION {touched_at(f, liveness, p) : p \in places(f)} |->
            [start |-> Min(at(v)), end |-> Max(at(v))]]

compute_live_intervals(f) == intervals_from(f, compute_liveness(f))

-----------------------------------------------------------------------------
(* compute_dominators.                                                     *)

\* One pass over the blocks in order: the intersection over the predecessors,
\* and the block itself.
dominator_sweep(f, dom) ==
    LET preds == build_predecessors(f)
        visit(acc, block) ==
            IF block.id = f.entry THEN acc
            ELSE LET p == preds[block.id]
                     common == {d \in block_ids(f) :
                                  p # {} /\ \A q \in p : d \in acc[q]}
                 IN  [acc EXCEPT ![block.id] = common \cup {block.id}]
        after[n \in 0..Len(f.blocks)] ==
            IF n = 0 THEN dom ELSE visit(after[n - 1], f.blocks[n])
    IN  after[Len(f.blocks)]

compute_dominators(f) ==
    LET start == [id \in block_ids(f) |->
                     IF id = f.entry THEN {id} ELSE block_ids(f)]
        after[n \in 0..Len(f.blocks)] ==
            IF n = 0 THEN start ELSE dominator_sweep(f, after[n - 1])
    IN  after[Len(f.blocks)]

-----------------------------------------------------------------------------
(* Paths, for the properties of the analyses.                              *)

\* The nodes on the paths that begin in starts: they are in every set of nodes
\* that contains starts and that no edge leaves.
on_paths_from(starts, edges, nodes) ==
    LET closed == {X \in SUBSET nodes :
                      starts \subseteq X /\ \A e \in edges : e[1] \in X => e[2] \in X}
    IN  {n \in nodes : \A X \in closed : n \in X}

-----------------------------------------------------------------------------
(* validate_function, as the conjunction of its checks.                    *)

reachable(f) ==
    LET step(S) == S \cup UNION {successors(try_block(f, b).term) : b \in S}
        after[n \in 0..Len(f.blocks)] == IF n = 0 THEN {f.entry} ELSE step(after[n - 1])
    IN  after[Len(f.blocks)]

\* Wrong variant: two blocks may have one id.
blocks_are_valid_with_duplicates(f) ==
    /\ f.blocks # <<>>
    /\ f.entry \in block_ids(f)
    /\ \A k \in DOMAIN f.blocks : successors(f.blocks[k].term) \subseteq block_ids(f)
    /\ reachable(f) = block_ids(f)

blocks_are_valid(f) ==
    /\ f.blocks # <<>>
    /\ \A j, k \in DOMAIN f.blocks : f.blocks[j].id = f.blocks[k].id => j = k
    /\ f.entry \in block_ids(f)
    /\ \A k \in DOMAIN f.blocks : successors(f.blocks[k].term) \subseteq block_ids(f)
    /\ reachable(f) = block_ids(f)

\* The places <<block index, instruction index>> that define v.
definitions(f, v) ==
    {d \in UNION {{k} \X (DOMAIN f.blocks[k].insts) : k \in DOMAIN f.blocks} :
        f.blocks[d[1]].insts[d[2]].dst = v}

definitions_are_valid(f) ==
    \A k \in DOMAIN f.blocks : \A i \in DOMAIN f.blocks[k].insts :
        LET inst == f.blocks[k].insts[i] IN
        /\ is_phi(inst) => \A j \in 1..(i - 1) : is_phi(f.blocks[k].insts[j])
        /\ inst.op = "arg" => inst.idx < f.args
        /\ Cardinality(definitions(f, inst.dst)) = 1

\* ensure_use_dominated, for a use of v at place <<k, i>>.
is_dominated(f, dom, v, k, i) ==
    \E d \in definitions(f, v) :
        IF d[1] = k THEN d[2] < i ELSE f.blocks[d[1]].id \in dom[f.blocks[k].id]

\* Wrong variant: the input of a phi may be defined anywhere.
phi_is_valid_anywhere(f, dom, preds, block, inst) ==
    /\ block.id # f.entry
    /\ IsInjective([i \in DOMAIN inst.incoming |-> inst.incoming[i][1]])
    /\ \A e \in Range(inst.incoming) :
        e[1] \in preds[block.id] /\ definitions(f, e[2]) # {}
    /\ Len(inst.incoming) = Cardinality(preds[block.id])

\* A phi has one input for every predecessor, defined on every path to it.
phi_is_valid(f, dom, preds, block, inst) ==
    /\ block.id # f.entry
    /\ IsInjective([i \in DOMAIN inst.incoming |-> inst.incoming[i][1]])
    /\ \A e \in Range(inst.incoming) :
        /\ e[1] \in preds[block.id]
        /\ \E d \in definitions(f, e[2]) : f.blocks[d[1]].id \in dom[e[1]] \cup {e[1]}
    /\ Len(inst.incoming) = Cardinality(preds[block.id])

uses_are_valid(f, dom) ==
    LET preds == build_predecessors(f)
    IN  \A k \in DOMAIN f.blocks : \A i \in 1..(Len(f.blocks[k].insts) + 1) :
            /\ \A v \in used_at(f.blocks[k], i) : is_dominated(f, dom, v, k, i)
            /\ i <= Len(f.blocks[k].insts) /\ is_phi(f.blocks[k].insts[i]) =>
                   phi_is_valid(f, dom, preds, f.blocks[k], f.blocks[k].insts[i])

validate_function(f) ==
    blocks_are_valid(f) /\ definitions_are_valid(f) /\ uses_are_valid(f, compute_dominators(f))
=============================================================================
