---------------------------- MODULE LivenessLoop ----------------------------
(***************************************************************************)
(* The loop of compute_liveness, one block per step: passes over the       *)
(* blocks from the last to the first until a pass changes nothing.         *)
(* Its result is compared with what it means to be live.                   *)
(***************************************************************************)
EXTENDS Analysis

CONSTANT Programs       \* functions validate_function accepts

VARIABLES
    f,                  \* the function
    live_in, live_out,  \* block -> values
    todo,               \* the blocks the current pass still has to visit
    changed,            \* the current pass has changed something
    done

vars == <<f, live_in, live_out, todo, changed, done>>

-----------------------------------------------------------------------------

\* Wrong variant: a block whose live_in stays the same counts as unchanged,
\* and its new live_out is not stored.
VisitKeepingOut ==
    /\ ~done
    /\ todo # <<>>
    /\ LET block == Head(todo)
           out == live_out_of(f, live_in, block)
           in == live_in_of(block, out)
       IN  IF in = live_in[block.id] THEN UNCHANGED <<live_in, live_out, changed>>
           ELSE /\ live_in' = [live_in EXCEPT ![block.id] = in]
                /\ live_out' = [live_out EXCEPT ![block.id] = out]
                /\ changed' = TRUE
    /\ todo' = Tail(todo)
    /\ UNCHANGED <<f, done>>

\* The next block of the pass.
Visit ==
    /\ ~done
    /\ todo # <<>>
    /\ LET block == Head(todo)
           out == live_out_of(f, live_in, block)
           in == live_in_of(block, out)
       IN  IF in = live_in[block.id] /\ out = live_out[block.id]
           THEN UNCHANGED <<live_in, live_out, changed>>
           ELSE /\ live_in' = [live_in EXCEPT ![block.id] = in]
                /\ live_out' = [live_out EXCEPT ![block.id] = out]
                /\ changed' = TRUE
    /\ todo' = Tail(todo)
    /\ UNCHANGED <<f, done>>

\* Wrong variant: the flag is not reset before the next pass.
EndPassUnreset ==
    /\ ~done
    /\ todo = <<>>
    /\ IF changed THEN todo' = Reverse(f.blocks) /\ UNCHANGED done
                  ELSE done' = TRUE /\ UNCHANGED todo
    /\ UNCHANGED <<f, live_in, live_out, changed>>

\* while changed: another pass, or the result.
EndPass ==
    /\ ~done
    /\ todo = <<>>
    /\ changed' = FALSE
    /\ IF changed THEN todo' = Reverse(f.blocks) /\ UNCHANGED done
                  ELSE done' = TRUE /\ UNCHANGED todo
    /\ UNCHANGED <<f, live_in, live_out>>

\* The state before the first pass over f.
Start ==
    /\ live_in = [id \in block_ids(f) |-> {}]
    /\ live_out = live_in
    /\ todo = Reverse(f.blocks)
    /\ changed = FALSE
    /\ done = FALSE

Init == f \in Programs /\ Start

Next == Visit \/ EndPass

Spec == Init /\ [][Next]_vars /\ WF_vars(Next)

-----------------------------------------------------------------------------
(* Properties.                                                             *)

values == UNION {def_set(f.blocks[k]) : k \in DOMAIN f.blocks}

\* Block id passes v on to a phi of a successor.
feeds_phi(id, v) ==
    \E s \in successors(try_block(f, id).term) : v \in phi_uses(f, id, s)

\* The edges v survives, from end to start: those out of blocks that do not
\* define it.
carries(v) ==
    UNION {successors(b.term) \X {b.id} : b \in {x \in Range(f.blocks) : v \notin def_set(x)}}

\* v is read in block id before the block defines it, or fed to a phi.
needed(id, v) ==
    \/ v \in use_set(try_block(f, id))
    \/ v \notin def_set(try_block(f, id)) /\ feeds_phi(id, v)

\* The blocks v is live on entry to: along some path from there it is needed
\* before it is defined again.
live_at_entry(v) ==
    on_paths_from({c \in block_ids(f) : needed(c, v)}, carries(v), block_ids(f))

\* The blocks v is live on exit of.
live_at_exit(v) ==
    LET entered == live_at_entry(v)
    IN  {b \in block_ids(f) :
            feeds_phi(b, v) \/ successors(try_block(f, b).term) \cap entered # {}}

\* The loop ends with exactly the live values of every block, whatever the
\* order of the blocks and however the loops of the function nest.  A phi reads
\* its inputs on the edges.
LivenessIsExact ==
    done => \A v \in values :
                /\ live_at_entry(v) = {b \in block_ids(f) : v \in live_in[b]}
                /\ live_at_exit(v) = {b \in block_ids(f) : v \in live_out[b]}

\* At no moment is a value held live in a block where it is dead: it would
\* keep its register from another value on paths that do not need it.
NeverTooLarge ==
    \A v \in UNION {live_in[b] \cup live_out[b] : b \in block_ids(f)} :
        /\ v \in values
        /\ {b \in block_ids(f) : v \in live_in[b]} \subseteq live_at_entry(v)
        /\ {b \in block_ids(f) : v \in live_out[b]} \subseteq live_at_exit(v)
=============================================================================
