---------------------------- MODULE DominatorLoop ---------------------------
(***************************************************************************)
(* The loop of compute_dominators, one block per step: passes over the     *)
(* blocks in the order of the list until a pass changes nothing.           *)
(* Its result is compared with the definition of dominance.                *)
(***************************************************************************)
EXTENDS Analysis

CONSTANT Cfgs       \* functions whose blocks are valid; only the CFG matters

VARIABLES
    f,          \* the function
    dom,        \* block -> the blocks found to dominate it so far
    todo,       \* the blocks the current pass still has to visit
    changed,    \* the current pass has changed something
    done

vars == <<f, dom, todo, changed, done>>

-----------------------------------------------------------------------------

\* Wrong variant: nothing is known to dominate a block but itself.
initial_dom_least(g) == [id \in block_ids(g) |-> {id}]

\* Every block but the entry starts with all blocks as its dominators.
initial_dom(g) ==
    [id \in block_ids(g) |-> IF id = g.entry THEN {id} ELSE block_ids(g)]

\* The intersection over the predecessors, and the block itself.
next_dom(id) ==
    LET preds == build_predecessors(f)[id]
    IN  {d \in block_ids(f) : preds # {} /\ \A p \in preds : d \in dom[p]} \cup {id}

\* Wrong variant: the flag says whether the last block visited has changed.
VisitForgetting ==
    /\ ~done
    /\ todo # <<>>
    /\ LET id == Head(todo).id
           next == IF id = f.entry THEN dom[id] ELSE next_dom(id)
       IN  /\ dom' = [dom EXCEPT ![id] = next]
           /\ changed' = (next # dom[id])
    /\ todo' = Tail(todo)
    /\ UNCHANGED <<f, done>>

\* The next block of the pass; the entry block is skipped.
Visit ==
    /\ ~done
    /\ todo # <<>>
    /\ LET id == Head(todo).id
           next == IF id = f.entry THEN dom[id] ELSE next_dom(id)
       IN  /\ dom' = [dom EXCEPT ![id] = next]
           /\ changed' = (changed \/ next # dom[id])
    /\ todo' = Tail(todo)
    /\ UNCHANGED <<f, done>>

\* Wrong variant: the flag is not reset before the next pass.
EndPassUnreset ==
    /\ ~done
    /\ todo = <<>>
    /\ IF changed THEN todo' = f.blocks /\ UNCHANGED done
                  ELSE done' = TRUE /\ UNCHANGED todo
    /\ UNCHANGED <<f, dom, changed>>

\* while changed: another pass, or the result.
EndPass ==
    /\ ~done
    /\ todo = <<>>
    /\ changed' = FALSE
    /\ IF changed THEN todo' = f.blocks /\ UNCHANGED done
                  ELSE done' = TRUE /\ UNCHANGED todo
    /\ UNCHANGED <<f, dom>>

Init ==
    /\ f \in Cfgs
    /\ dom = initial_dom(f)
    /\ todo = f.blocks
    /\ changed = FALSE
    /\ done = FALSE

Next == Visit \/ EndPass

Spec == Init /\ [][Next]_vars /\ WF_vars(Next)

-----------------------------------------------------------------------------
(* Properties.                                                             *)

edges == UNION {{b.id} \X successors(b.term) : b \in Range(f.blocks)}

\* The blocks d dominates: every path from the entry block to them goes
\* through d.
dominated_by(d) ==
    LET without_d == {e \in edges : d \notin {e[1], e[2]}}
    IN  {d} \cup (block_ids(f) \ on_paths_from({f.entry}, without_d, block_ids(f)))

\* Whatever the order of the blocks, the loop ends with exactly the dominators
\* of every block.
DominatorsAreExact ==
    done => \A d \in block_ids(f) : dominated_by(d) = {b \in block_ids(f) : d \in dom[b]}

\* At every moment a block keeps all its dominators: a pass only takes away
\* blocks that do not dominate it.
NeverTooSmall == \A d \in block_ids(f) : \A b \in dominated_by(d) : d \in dom[b]
=============================================================================
