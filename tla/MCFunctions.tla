---------------------------- MODULE MCFunctions -----------------------------
(***************************************************************************)
(* Small valid functions over control flow of every kind: joins, loops,    *)
(* nested and irreducible loops, and blocks listed against the order they  *)
(* run in.  The entry block 0 reads the argument into value 1; block b may *)
(* define value b + 1, by a move or by a phi over its predecessors.        *)
(***************************************************************************)
EXTENDS Analysis

\* The successors of block k - 1.
Shapes ==
    {<<{1, 2}, {3}, {3}, {}>>,          \* a join
     <<{3}, {2}, {}, {1}>>,             \* a chain listed out of order
     <<{1}, {1, 2}, {3}, {}>>,          \* a loop of one block
     <<{1}, {2, 3}, {1}, {}>>,          \* a loop with its exit at the head
     <<{2}, {3, 2}, {1}, {}>>,          \* the same, head listed after its body
     <<{1}, {2}, {2, 3}, {1}>>,        \* nested loops without an exit
     <<{1, 2}, {2}, {1, 3}, {}>>,       \* a loop with two entries
     <<{3}, {}, {1, 3}, {2}>>}          \* a loop of two blocks, run backwards

\* The terminator with these successors; u is what it reads.
term(next, u) ==
    IF next = {} THEN Ret(u)
    ELSE IF Cardinality(next) = 1 THEN Jmp(Min(next))
    ELSE Br(u, Min(next), Max(next))

preds(shape, b) == {p \in 0..3 : b \in shape[p + 1]}

\* Block b has no instruction of its own, a move, or a phi.
bodies(shape, b) ==
    LET p == SetToSeq(preds(shape, b)) IN
    {<<>>, <<MovI64(b + 1, 1)>>}
      \cup {<<PhiI64(b + 1, [i \in DOMAIN p |-> <<p[i], x[i]>>])>> :
               x \in [DOMAIN p -> {1, 2, 4}]}

shaped(shape) ==
    {[args |-> 1, entry |-> 0,
      blocks |-> [k \in 1..4 |->
          [id |-> k - 1,
           insts |-> CASE k = 1 -> <<ArgI64(1, 0)>>
                       [] k = 2 -> i1 [] k = 3 -> i2 [] k = 4 -> i3,
           term |-> term(shape[k], IF k = 1 THEN 1 ELSE u)]]] :
        i1 \in bodies(shape, 1), i2 \in bodies(shape, 2), i3 \in bodies(shape, 3),
        u \in {1, 4}}

\* Everything that is read is defined somewhere.
closed(g) ==
    LET insts == UNION {Range(g.blocks[k].insts) : k \in DOMAIN g.blocks}
    IN  UNION ({uses(i) : i \in insts} \cup {term_uses(g.blocks[k].term) : k \in DOMAIN g.blocks})
            \subseteq {i.dst : i \in insts}

SmallFunctions ==
    {g \in UNION {shaped(s) : s \in Shapes} : closed(g) /\ validate_function(g)}
=============================================================================
