--------------------------- MODULE FrontEndProofs ---------------------------
(***************************************************************************)
(* parse returns what a text says, and refuses what is not well formed.    *)
(* The analyses of crates/analysis compute what they are meant to compute, *)
(* for every function and every order of its blocks: compute_dominators    *)
(* the dominators, compute_liveness the live values, and                   *)
(* build_interference_graph an edge for all values that are live together, *)
(* which compute_live_intervals covers.                                    *)
(***************************************************************************)
EXTENDS Analyses, ParserState, OperatorProofs, SequenceTheorems

ids == block_ids(f)

\* Control can go from block x to block y.
leads(x, y) ==
    \E j \in DOMAIN f.blocks : f.blocks[j].id = x /\ y \in successors(f.blocks[j].term)

-----------------------------------------------------------------------------
(* The blocks of a function.                                               *)

\* The step of reachable, and the sets it goes through.
reach_step(S) == S \cup UNION {successors(try_block(f, b).term) : b \in S}
reaches(after, n) ==
    after = [m \in 0..n |-> IF m = 0 THEN {f.entry} ELSE reach_step(after[m - 1])]

\* The recursion of reachable defines it.
LEMMA ReachableEquation ==
    ASSUME Len(f.blocks) \in Nat
    PROVE  \E after : reaches(after, Len(f.blocks)) /\ reachable(f) = after[Len(f.blocks)]
<1> DEFINE T == {z \in Nat : \E after : reaches(after, z)}
<1>1. 0 \in T
  <2> DEFINE a == [m \in 0..0 |-> {f.entry}]
  <2>1. reaches(a, 0)
    BY DEF reaches
  <2> HIDE DEF a
  <2> QED
    BY <2>1
<1>2. ASSUME NEW z \in T PROVE z + 1 \in T
  <2>1. PICK b : reaches(b, z)
    OBVIOUS
  <2> DEFINE a == [m \in 0..(z + 1) |-> IF m <= z THEN b[m] ELSE reach_step(b[z])]
  <2>2. z \in Nat
    OBVIOUS
  <2>3. ASSUME NEW m \in 0..(z + 1)
        PROVE  a[m] = IF m = 0 THEN {f.entry} ELSE reach_step(a[m - 1])
    <3>1. CASE m <= z
      <4>1. m \in 0..z /\ a[m] = b[m] /\ (m # 0 => a[m - 1] = b[m - 1])
        BY <2>2, <3>1
      <4> HIDE DEF a
      <4> QED
        BY <2>1, <4>1 DEF reaches
    <3>2. CASE m = z + 1
      <4>1. m # 0 /\ m - 1 = z /\ a[m] = reach_step(b[z]) /\ a[z] = b[z]
        BY <2>2, <3>2
      <4> HIDE DEF a
      <4> QED
        BY <3>2, <4>1
    <3> QED
      BY <2>2, <3>1, <3>2
  <2>4. a = [m \in 0..(z + 1) |-> a[m]]
    OBVIOUS
  <2> HIDE DEF a
  <2>5. reaches(a, z + 1)
    BY <2>3, <2>4 DEF reaches
  <2> QED
    BY <2>2, <2>5
<1>3. T = Nat
  <2>1. T \in SUBSET Nat
    OBVIOUS
  <2> HIDE DEF T
  <2> QED
    BY <1>1, <1>2, <2>1, SetInduction
<1>4. \E after : reaches(after, Len(f.blocks))
  BY <1>3
<1> DEFINE chain == CHOOSE after : reaches(after, Len(f.blocks))
<1>5. reaches(chain, Len(f.blocks))
  BY <1>4
<1>6. reachable(f) = chain[Len(f.blocks)]
  BY DEF reachable, reaches, reach_step
<1> QED
  BY <1>5, <1>6

\* The functions are as the lemmas about the operators assume.
LEMMA WellFormed ==
    ASSUME f \in Programs
    PROVE  has_valid_blocks(f)
BY ProgramsAssumption DEF has_valid_blocks

\* What the analyses assume of the blocks.
LEMMA BlockFields ==
    ASSUME f \in Programs
    PROVE  /\ Len(f.blocks) \in Nat /\ DOMAIN f.blocks = 1..Len(f.blocks)
           /\ f.blocks \in Seq(Range(f.blocks))
           /\ f.entry \in ids
           /\ \A j \in DOMAIN f.blocks : /\ f.blocks[j].id \in ids
                                         /\ successors(f.blocks[j].term) \subseteq ids
                                         /\ try_block(f, f.blocks[j].id) = f.blocks[j]
           /\ \A j, m \in DOMAIN f.blocks : f.blocks[j].id = f.blocks[m].id => j = m
           /\ \A x, y : leads(x, y) => x \in ids /\ y \in ids
<1>1. has_valid_blocks(f)
  BY WellFormed
<1>2. \A x, y : leads(x, y) <=> flows(f, x, y)
  BY DEF leads, flows
<1> QED
  BY <1>1, <1>2, ValidBlocks DEF ids, has_valid_blocks

\* A set of blocks with the entry block that no edge leaves has every block.
LEMMA ReachesAll ==
    ASSUME f \in Programs, NEW X \in SUBSET ids, f.entry \in X,
           \A x, y \in ids : leads(x, y) /\ x \in X => y \in X
    PROVE  X = ids
<1>1. PICK after : reaches(after, Len(f.blocks)) /\ reachable(f) = after[Len(f.blocks)]
  BY BlockFields, ReachableEquation
<1>2. Len(f.blocks) \in Nat /\ reachable(f) = ids
  BY BlockFields, ProgramsAssumption DEF blocks_are_valid, ids
<1> DEFINE n == Len(f.blocks)
           T == {m \in Nat : m <= n => after[m] \subseteq X}
<1>3. \A m \in 0..n : after[m] = IF m = 0 THEN {f.entry} ELSE reach_step(after[m - 1])
  BY <1>1 DEF reaches
<1>4. 0 \in T
  BY <1>2, <1>3
<1>5. ASSUME NEW m \in T PROVE m + 1 \in T
  <2>1. CASE m + 1 <= n
    <3>1. after[m] \subseteq X /\ after[m + 1] = reach_step(after[m])
      BY <1>2, <1>3, <2>1
    <3>2. ASSUME NEW y \in after[m] PROVE successors(try_block(f, y).term) \subseteq X
      <4>1. PICK j \in DOMAIN f.blocks : f.blocks[j].id = y
        BY <3>1 DEF ids, block_ids
      <4>2. try_block(f, y) = f.blocks[j] /\ successors(f.blocks[j].term) \subseteq ids
        BY <4>1, BlockFields
      <4>3. \A s \in successors(f.blocks[j].term) : leads(y, s)
        BY <4>1 DEF leads
      <4> QED
        BY <3>1, <4>2, <4>3
    <3>3. reach_step(after[m]) \subseteq X
      BY <3>1, <3>2 DEF reach_step
    <3> QED
      BY <3>1, <3>3
  <2> QED
    BY <2>1
<1>6. T = Nat
  <2>1. T \in SUBSET Nat
    OBVIOUS
  <2> HIDE DEF T
  <2> QED
    BY <1>4, <1>5, <2>1, SetInduction
<1>7. n \in T
  <2> HIDE DEF T, n
  <2> QED
    BY <1>2, <1>6 DEF n
<1>8. after[n] \subseteq X
  BY <1>2, <1>7
<1> QED
  BY <1>1, <1>2, <1>8

\* Every block but the entry block has a predecessor.
LEMMA HasPredecessor ==
    ASSUME f \in Programs, NEW b \in ids, b # f.entry
    PROVE  \E x \in ids : leads(x, b)
<1> SUFFICES ASSUME \A x \in ids : ~leads(x, b) PROVE FALSE
  OBVIOUS
<1> DEFINE X == ids \ {b}
<1>1. X \in SUBSET ids /\ f.entry \in X
  BY BlockFields
<1>2. \A x, y \in ids : leads(x, y) /\ x \in X => y \in X
  OBVIOUS
<1> HIDE DEF X
<1>3. X = ids
  BY <1>1, <1>2, ReachesAll
<1> QED
  BY <1>3 DEF X

\* s is what is left of t.
is_rest(s, t) ==
    /\ s \in Seq(Range(t))
    /\ Len(s) <= Len(t)
    /\ \A j \in 1..Len(s) : s[j] = t[Len(t) - Len(s) + j]

\* The places of t that were visited.
visited(s, t) == 1..(Len(t) - Len(s))

\* The next one is visited.
LEMMA NextOfRest ==
    ASSUME NEW t, t \in Seq(Range(t)), NEW s, is_rest(s, t), s # <<>>
    PROVE  /\ is_rest(Tail(s), t)
           /\ Len(t) - Len(s) + 1 \in DOMAIN t
           /\ Head(s) = t[Len(t) - Len(s) + 1]
           /\ visited(Tail(s), t) = visited(s, t) \cup {Len(t) - Len(s) + 1}
<1> DEFINE S == Range(t)
           n == Len(t)
           m == Len(s)
<1>1. s \in Seq(S) /\ t \in Seq(S) /\ m <= n /\ \A j \in 1..m : s[j] = t[n - m + j]
  BY DEF is_rest
<1> HIDE DEF S
<1>2. /\ n \in Nat /\ m \in Nat /\ m # 0
      /\ Tail(s) \in Seq(S) /\ Len(Tail(s)) = m - 1 /\ Head(s) = s[1]
      /\ \A j \in 1..(m - 1) : Tail(s)[j] = s[j + 1]
      /\ DOMAIN t = 1..n
  BY <1>1
<1> HIDE DEF n, m
<1>3. Head(s) = t[n - m + 1] /\ n - m + 1 \in 1..n
  BY <1>1, <1>2
<1>4. ASSUME NEW j \in 1..(m - 1) PROVE Tail(s)[j] = t[n - (m - 1) + j]
  <2>1. j + 1 \in 1..m /\ n - m + (j + 1) = n - (m - 1) + j
    BY <1>2
  <2> QED
    BY <1>1, <1>2, <2>1
<1>5. 1..(n - (m - 1)) = 1..(n - m) \cup {n - m + 1}
  BY <1>1, <1>2
<1> QED
  BY <1>1, <1>2, <1>3, <1>4, <1>5 DEF is_rest, visited, S, n, m

\* At the start everything is left; at the end everything was visited.
LEMMA WholeRest ==
    ASSUME NEW t, t \in Seq(Range(t))
    PROVE  /\ is_rest(t, t) /\ visited(t, t) = {}
           /\ is_rest(<<>>, t) /\ visited(<<>>, t) = DOMAIN t
<1>1. Len(t) \in Nat /\ DOMAIN t = 1..Len(t)
  OBVIOUS
<1>2. is_rest(t, t)
  BY <1>1 DEF is_rest
<1>3. Len(<<>>) = 0 /\ <<>> \in Seq(Range(t))
  OBVIOUS
<1>4. is_rest(<<>>, t)
  BY <1>1, <1>3 DEF is_rest
<1>5. visited(t, t) = {} /\ visited(<<>>, t) = DOMAIN t
  BY <1>1, <1>3 DEF visited
<1> QED
  BY <1>2, <1>4, <1>5

-----------------------------------------------------------------------------
(* Dominators.                                                             *)

\* What the loop computes for a block, in terms of the edges.
LEMMA NextDom ==
    ASSUME NEW b \in ids
    PROVE  Dominance!next_dom(b) =
             {d \in ids : /\ \E p \in ids : leads(p, b)
                          /\ \A p \in ids : leads(p, b) => d \in dom[p]} \cup {b}
<1> DEFINE P == {p \in ids : leads(p, b)}
<1>1. Dominance!block_ids(f) = ids
  BY DEF Dominance!block_ids, ids, block_ids
<1>2. \A t : Dominance!successors(t) = successors(t)
  BY DEF Dominance!successors, successors
<1>3. Dominance!build_predecessors(f)[b] = P
  BY <1>1, <1>2 DEF Dominance!build_predecessors, leads, ids, block_ids
<1> QED
  BY <1>1, <1>3 DEF Dominance!next_dom

\* A block d does not dominate b if a set of blocks that contains the entry
\* block, and not b, is only left through d.
LEMMA DominatedBy ==
    ASSUME f \in Programs, NEW d \in ids, NEW b \in ids
    PROVE  b \in Dominance!dominated_by(d) <=>
             \/ b = d
             \/ \E X \in SUBSET ids :
                   /\ f.entry \in X /\ b \notin X
                   /\ \A x, y \in ids : leads(x, y) /\ x # d /\ y # d /\ x \in X => y \in X
<1> DEFINE E == {e \in Dominance!edges : d \notin {e[1], e[2]}}
<1>1. Dominance!block_ids(f) = ids
  BY DEF Dominance!block_ids, ids, block_ids
<1>2. Dominance!edges = {e \in ids \X ids : leads(e[1], e[2])}
  <2>1. \A t : Dominance!successors(t) = successors(t)
    BY DEF Dominance!successors, successors
  <2>2. Dominance!Range(f.blocks) = {f.blocks[j] : j \in DOMAIN f.blocks}
    BY DEF Dominance!Range
  <2>3. \A e : e \in Dominance!edges <=>
                 \E j \in DOMAIN f.blocks : e \in {f.blocks[j].id} \X successors(f.blocks[j].term)
    BY <2>1, <2>2 DEF Dominance!edges
  <2> QED
    BY <2>3, BlockFields DEF leads
<1>3. \A X \in SUBSET ids :
        (\A e \in E : e[1] \in X => e[2] \in X) <=>
        (\A x, y \in ids : leads(x, y) /\ x # d /\ y # d /\ x \in X => y \in X)
  <2>1. \A x, y \in ids : leads(x, y) /\ x # d /\ y # d => <<x, y>> \in E
    BY <1>2
  <2>2. \A e \in E : /\ e[1] \in ids /\ e[2] \in ids /\ leads(e[1], e[2])
                     /\ e[1] # d /\ e[2] # d
    BY <1>2
  <2> HIDE DEF E
  <2> QED
    BY <2>1, <2>2
<1>4. Dominance!dominated_by(d) = {d} \cup (ids \ Dominance!on_paths_from({f.entry}, E, ids))
  BY <1>1 DEF Dominance!dominated_by
<1> HIDE DEF E
<1>5. b \in Dominance!on_paths_from({f.entry}, E, ids) <=>
        \A X \in SUBSET ids : f.entry \in X /\ (\A e \in E : e[1] \in X => e[2] \in X) => b \in X
  BY DEF Dominance!on_paths_from
<1> QED
  BY <1>3, <1>4, <1>5

\* The next set computed for a block keeps its dominators.
LEMMA NextDomKeeps ==
    ASSUME f \in Programs, Dominance!NeverTooSmall,
           NEW b \in ids, b # f.entry, NEW d \in ids, b \in Dominance!dominated_by(d)
    PROVE  d \in Dominance!next_dom(b)
<1>1. CASE b = d
  BY <1>1, NextDom
<1>2. CASE b # d
  <2>1. PICK X \in SUBSET ids :
          /\ f.entry \in X /\ b \notin X
          /\ \A x, y \in ids : leads(x, y) /\ x # d /\ y # d /\ x \in X => y \in X
    BY <1>2, DominatedBy
  <2>2. ASSUME NEW p \in ids, leads(p, b) PROVE d \in dom[p]
    <3>1. p \in Dominance!dominated_by(d)
      <4>1. p = d \/ p \notin X
        BY <1>2, <2>1, <2>2
      <4> QED
        BY <2>1, <4>1, DominatedBy
    <3>2. Dominance!block_ids(f) = ids
      BY DEF Dominance!block_ids, ids, block_ids
    <3> QED
      BY <3>1, <3>2 DEF Dominance!NeverTooSmall
  <2> QED
    BY <2>2, HasPredecessor, NextDom
<1> QED
  BY <1>1, <1>2

\* The blocks the loop has nothing to change in.
fixed == {b \in ids : b = f.entry \/ dom[b] = Dominance!next_dom(b)}

\* Where there is nothing to change in any block, only dominators are left.
LEMMA FixedIsExact ==
    ASSUME f \in Programs, NEW D \in dom_maps(f), dom_fixed(f, D),
           NEW b \in ids, NEW d \in ids, d \in D[b]
    PROVE  b \in Dominance!dominated_by(d)
<1>1. f.entry \in ids /\ D[f.entry] = {f.entry}
  BY BlockFields DEF dom_maps
<1>2. CASE b = d
  BY <1>2, DominatedBy
<1>3. CASE b # d /\ d = f.entry
  <2>1. {f.entry} \in SUBSET ids
    BY <1>1
  <2> QED
    BY <1>3, <2>1, DominatedBy
<1>4. CASE b # d /\ d # f.entry
  <2> DEFINE X == {x \in ids : d \notin D[x]}
  <2>1. f.entry \in X /\ b \notin X /\ X \in SUBSET ids
    BY <1>1, <1>4
  <2>2. ASSUME NEW x \in ids, NEW y \in ids, leads(x, y), y # d, x \in X PROVE y \in X
    <3>1. CASE y = f.entry
      BY <2>1, <3>1
    <3>2. CASE y # f.entry
      <4>1. flows(f, x, y) /\ x \in block_ids(f) /\ y \in block_ids(f)
        BY <2>2 DEF leads, flows, ids
      <4>2. d \notin next_of(f, D, y)
        BY <2>2, <4>1, NextOf
      <4>3. D[y] = next_of(f, D, y)
        BY <3>2, <4>1 DEF dom_fixed
      <4> QED
        BY <4>2, <4>3
    <3> QED
      BY <3>1, <3>2
  <2> HIDE DEF X
  <2> QED
    BY <2>1, <2>2, DominatedBy
<1> QED
  BY <1>2, <1>3, <1>4

-----------------------------------------------------------------------------
(* The loop of compute_dominators.                                         *)

\* Until the pass has changed something, every block it has visited is fixed;
\* a pass that ends that way is the last.
DInv ==
    /\ f \in Programs
    /\ dom \in [ids -> SUBSET ids]
    /\ dom[f.entry] = {f.entry}
    /\ dom_changed \in BOOLEAN /\ dom_done \in BOOLEAN
    /\ Dominance!NeverTooSmall
    /\ is_rest(dom_todo, f.blocks)
    /\ ~dom_changed => \A j \in visited(dom_todo, f.blocks) : f.blocks[j].id \in fixed
    /\ dom_done => ids \subseteq fixed

\* The loop ends with a map in which there is nothing to change.
LEMMA LoopEndsFixed ==
    ASSUME DInv, dom_done
    PROVE  dom \in dom_maps(f) /\ dom_fixed(f, dom)
<1>1. /\ f \in Programs /\ ids = block_ids(f) /\ ids \subseteq fixed
      /\ dom \in [ids -> SUBSET ids] /\ dom[f.entry] = {f.entry}
  BY DEF DInv, ids
<1>2. ASSUME NEW b \in ids, b # f.entry PROVE dom[b] = next_of(f, dom, b)
  <2>1. dom[b] = Dominance!next_dom(b)
    BY <1>1, <1>2 DEF fixed
  <2>2. \A d : d \in Dominance!next_dom(b) <=>
                 \/ /\ d \in ids /\ \E p \in ids : leads(p, b)
                    /\ \A p \in ids : leads(p, b) => d \in dom[p]
                 \/ d = b
    BY NextDom
  <2>3. \A d : d \in next_of(f, dom, b) <=>
                 \/ /\ d \in ids /\ \E p \in ids : flows(f, p, b)
                    /\ \A p \in ids : flows(f, p, b) => d \in dom[p]
                 \/ d = b
    BY <1>1, NextOf
  <2>4. \A p : leads(p, b) <=> flows(f, p, b)
    BY DEF leads, flows
  <2>5. Dominance!next_dom(b) = next_of(f, dom, b)
    BY <2>2, <2>3, <2>4
  <2> QED
    BY <2>1, <2>5
<1>3. ASSUME NEW b \in ids PROVE b \in dom[b]
  <2>1. b # f.entry => b \in next_of(f, dom, b)
    BY <1>1, NextOf
  <2> QED
    BY <1>1, <1>2, <2>1
<1> QED
  BY <1>1, <1>2, <1>3 DEF dom_maps, dom_fixed

\* At the start every block may dominate every other but the entry block.
LEMMA InitDInv == Init => DInv
<1> SUFFICES ASSUME Init PROVE DInv
  OBVIOUS
<1>1. /\ f \in Programs /\ dom = Dominance!initial_dom(f) /\ dom_todo = f.blocks
      /\ dom_changed = FALSE /\ dom_done = FALSE
  BY DEF Init, Dominance!Init
<1>2. Dominance!block_ids(f) = ids /\ f.entry \in ids
  BY <1>1, BlockFields DEF Dominance!block_ids, ids, block_ids
<1>3. dom = [b \in ids |-> IF b = f.entry THEN {b} ELSE ids]
  BY <1>1, <1>2 DEF Dominance!initial_dom
<1>4. dom \in [ids -> SUBSET ids] /\ dom[f.entry] = {f.entry}
  BY <1>2, <1>3
<1>5. ASSUME NEW d \in ids, NEW b \in Dominance!dominated_by(d)
      PROVE  d \in dom[b]
  <2>1. b \in ids
    BY <1>2 DEF Dominance!dominated_by
  <2>2. b = f.entry => b = d
    BY <1>1, <1>5, <2>1, DominatedBy
  <2> QED
    BY <1>2, <1>3, <2>1, <2>2
<1>6. is_rest(dom_todo, f.blocks) /\ visited(dom_todo, f.blocks) = {}
  BY <1>1, BlockFields, WholeRest
<1> QED
  BY <1>1, <1>2, <1>4, <1>5, <1>6 DEF DInv, Dominance!NeverTooSmall

\* Being fixed depends on the function and its sets only.
LEMMA FixedFrame ==
    ASSUME f' = f, dom' = dom
    PROVE  /\ fixed' = fixed
           /\ ids' = ids
           /\ Dominance!NeverTooSmall' <=> Dominance!NeverTooSmall
<1>1. Dominance!block_ids(f)' = Dominance!block_ids(f) /\ ids' = ids
  BY DEF Dominance!block_ids, ids, block_ids
<1>2. Dominance!build_predecessors(f)' = Dominance!build_predecessors(f)
  BY <1>1 DEF Dominance!build_predecessors
<1>3. fixed' = fixed
  <2>1. \A b : Dominance!next_dom(b)' = Dominance!next_dom(b)
    BY <1>1, <1>2 DEF Dominance!next_dom
  <2> QED
    BY <1>1, <2>1 DEF fixed
<1>4. \A d : Dominance!dominated_by(d)' = Dominance!dominated_by(d)
  BY DEF Dominance!dominated_by, Dominance!edges
<1>5. Dominance!NeverTooSmall' <=> Dominance!NeverTooSmall
  BY <1>1, <1>4 DEF Dominance!NeverTooSmall
<1> QED
  BY <1>1, <1>3, <1>5

\* Nothing else touches the loop's state.
LEMMA FrameDInv ==
    ASSUME DInv, UNCHANGED <<f, dominator_vars>>
    PROVE  DInv'
<1>1. UNCHANGED <<f, dom, dom_todo, dom_changed, dom_done>>
  BY DEF dominator_vars
<1> QED
  BY <1>1, FixedFrame DEF DInv, is_rest, visited

\* A visit keeps the dominators of the block, and if it changes nothing, the
\* block is fixed.
LEMMA DomVisitKeeps ==
    ASSUME DInv, Dominance!Visit
    PROVE  DInv'
<1> DEFINE at == Len(f.blocks) - Len(dom_todo) + 1
           id == Head(dom_todo).id
           next == IF id = f.entry THEN dom[id] ELSE Dominance!next_dom(id)
<1>1. /\ ~dom_done /\ dom_todo # <<>>
      /\ dom' = [dom EXCEPT ![id] = next]
      /\ dom_changed' = (dom_changed \/ next # dom[id])
      /\ dom_todo' = Tail(dom_todo)
      /\ UNCHANGED <<f, dom_done>>
  BY DEF Dominance!Visit
<1>2. f \in Programs /\ is_rest(dom_todo, f.blocks) /\ f.blocks \in Seq(Range(f.blocks))
  BY BlockFields DEF DInv
<1>3. /\ is_rest(dom_todo', f.blocks) /\ at \in DOMAIN f.blocks /\ id = f.blocks[at].id
      /\ visited(dom_todo', f.blocks) = visited(dom_todo, f.blocks) \cup {at}
  BY <1>1, <1>2, NextOfRest
<1>4. id \in ids /\ ids' = ids
  BY <1>1, <1>2, <1>3, BlockFields DEF ids, block_ids
<1> HIDE DEF at, id
<1>5. Dominance!next_dom(id) \in SUBSET ids
  BY <1>4, NextDom
<1>6. next \in SUBSET ids /\ (id = f.entry => next = {f.entry})
  BY <1>4, <1>5 DEF DInv
<1>7. dom' \in [ids -> SUBSET ids] /\ dom'[f.entry] = {f.entry}
  <2>1. f.entry \in ids
    BY <1>2, BlockFields
  <2> HIDE DEF next
  <2> QED
    BY <1>1, <1>4, <1>6, <2>1 DEF DInv
<1>8. Dominance!NeverTooSmall'
  <2>1. /\ Dominance!block_ids(f) = ids /\ Dominance!block_ids(f)' = ids
        /\ \A d : Dominance!dominated_by(d)' = Dominance!dominated_by(d)
    BY <1>1 DEF Dominance!block_ids, ids, block_ids, Dominance!dominated_by, Dominance!edges
  <2>2. ASSUME NEW d \in ids, NEW b \in Dominance!dominated_by(d) PROVE d \in dom'[b]
    <3>1. d \in dom[b] /\ b \in ids
      BY <2>1 DEF DInv, Dominance!NeverTooSmall, Dominance!dominated_by
    <3>2. CASE b = id
      <4>1. d \in next
        BY <1>2, <3>1, <3>2, NextDomKeeps DEF DInv
      <4> HIDE DEF next
      <4> QED
        BY <1>1, <1>4, <3>2, <4>1 DEF DInv
    <3>3. CASE b # id
      BY <1>1, <3>1, <3>3 DEF DInv
    <3> QED
      BY <3>2, <3>3
  <2> QED
    BY <2>1, <2>2 DEF Dominance!NeverTooSmall
<1>9. dom_changed' \in BOOLEAN /\ dom_done' \in BOOLEAN
  BY <1>1 DEF DInv
<1>10. ASSUME ~dom_changed'
       PROVE  \A j \in visited(dom_todo', f.blocks) : f'.blocks[j].id \in fixed'
  <2>1. ~dom_changed /\ next = dom[id]
    BY <1>1, <1>10
  <2>2. dom' = dom
    <3> HIDE DEF next
    <3> QED
      BY <1>1, <1>4, <2>1 DEF DInv
  <2>3. fixed' = fixed
    BY <1>1, <2>2, FixedFrame
  <2>4. id \in fixed
    BY <1>4, <2>1 DEF fixed
  <2>5. \A j \in visited(dom_todo, f.blocks) : f.blocks[j].id \in fixed
    BY <2>1 DEF DInv
  <2>6. \A j \in visited(dom_todo', f.blocks) : f.blocks[j].id \in fixed
    BY <1>3, <2>4, <2>5
  <2> QED
    BY <1>1, <2>3, <2>6
<1> HIDE DEF next
<1> QED
  BY <1>1, <1>2, <1>3, <1>4, <1>7, <1>8, <1>9, <1>10 DEF DInv

\* The loop ends after a pass in which every block was fixed.
LEMMA DomEndPassKeeps ==
    ASSUME DInv, Dominance!EndPass
    PROVE  DInv'
<1>1. /\ ~dom_done /\ dom_todo = <<>> /\ dom_changed' = FALSE
      /\ UNCHANGED <<f, dom>>
      /\ \/ dom_changed /\ dom_todo' = f.blocks /\ dom_done' = dom_done
         \/ ~dom_changed /\ dom_done' = TRUE /\ dom_todo' = dom_todo
  BY DEF Dominance!EndPass
<1>2. /\ f \in Programs /\ f.blocks \in Seq(Range(f.blocks))
      /\ ids' = ids
  BY <1>1, BlockFields DEF DInv, ids, block_ids
<1>3. /\ Dominance!NeverTooSmall'
      /\ fixed' = fixed
  BY <1>1, FixedFrame DEF DInv
<1>4. CASE dom_changed /\ dom_todo' = f.blocks /\ dom_done' = dom_done
  <2>1. is_rest(dom_todo', f.blocks) /\ visited(dom_todo', f.blocks) = {}
    BY <1>2, <1>4, WholeRest
  <2> QED
    BY <1>1, <1>2, <1>3, <1>4, <2>1 DEF DInv
<1>5. CASE ~dom_changed /\ dom_done' = TRUE /\ dom_todo' = dom_todo
  <2>1. visited(dom_todo, f.blocks) = DOMAIN f.blocks
    BY <1>1, <1>2, WholeRest
  <2>2. ids \subseteq fixed
    BY <1>5, <2>1 DEF DInv, ids, block_ids
  <2> QED
    BY <1>1, <1>2, <1>3, <1>5, <2>1, <2>2 DEF DInv
<1> QED
  BY <1>1, <1>4, <1>5
-----------------------------------------------------------------------------
(* Live values.                                                            *)

values == UNION {def_set(f.blocks[j]) : j \in DOMAIN f.blocks}

\* Block b passes v on to a phi of a successor.
feeds(b, v) ==
    \E j \in DOMAIN f.blocks : /\ f.blocks[j].id = b
                               /\ \E s \in successors(f.blocks[j].term) : v \in phi_uses(f, b, s)

\* Block b reads v before it defines it, or passes it on to a phi.
needs(b, v) ==
    \E j \in DOMAIN f.blocks :
        /\ f.blocks[j].id = b
        /\ \/ v \in use_set(f.blocks[j])
           \/ v \notin def_set(f.blocks[j]) /\ feeds(b, v)

\* v passes from the start of block s back through block b.
survives(s, b, v) ==
    \E j \in DOMAIN f.blocks : /\ f.blocks[j].id = b /\ v \notin def_set(f.blocks[j])
                               /\ s \in successors(f.blocks[j].term)

\* The operators of the instance are those of Analysis.
LEMMA SameAnalysis ==
    /\ Liveness!block_ids(f) = ids
    /\ Liveness!values = values
    /\ \A t : Liveness!successors(t) = successors(t)
    /\ \A b : Liveness!try_block(f, b) = try_block(f, b)
    /\ \A p, b : Liveness!phi_uses(f, p, b) = phi_uses(f, p, b)
    /\ \A b : Liveness!phi_defs(f, b) = phi_defs(f, b)
    /\ \A b : Liveness!def_set(b) = def_set(b)
    /\ \A b : Liveness!use_set(b) = use_set(b)
    /\ \A l, b : Liveness!live_out_of(f, l, b) = live_out_of(f, l, b)
    /\ \A b, o : Liveness!live_in_of(b, o) = live_in_of(b, o)
    /\ \A t : Liveness!Reverse(t) = Reverse(t)
    /\ \A t : Liveness!Range(t) = Range(t)
<1>1. /\ Liveness!block_ids(f) = ids
      /\ \A t : Liveness!successors(t) = successors(t)
      /\ \A b : Liveness!try_block(f, b) = try_block(f, b)
      /\ \A b : Liveness!def_set(b) = def_set(b)
      /\ \A t : Liveness!Reverse(t) = Reverse(t)
      /\ \A t : Liveness!Range(t) = Range(t)
  BY DEF Liveness!block_ids, ids, block_ids, Liveness!successors, successors,
     Liveness!try_block, try_block, Liveness!def_set, def_set, Liveness!Reverse, Reverse,
     Liveness!Range, Range
<1>2. /\ \A x : Liveness!is_phi(x) <=> is_phi(x)
      /\ \A t : Liveness!term_uses(t) = term_uses(t)
  BY DEF Liveness!is_phi, is_phi, Liveness!term_uses, term_uses
<1>3. \A x : Liveness!uses(x) = uses(x)
  BY <1>1 DEF Liveness!uses, uses
<1>4. \A b : Liveness!phis(b) = phis(b)
  BY <1>2 DEF Liveness!phis, phis
<1>5. \A b, x : Liveness!used_at(b, x) = used_at(b, x)
  BY <1>2, <1>3 DEF Liveness!used_at, used_at
<1>6. /\ \A p, b : Liveness!phi_uses(f, p, b) = phi_uses(f, p, b)
      /\ \A b : Liveness!phi_defs(f, b) = phi_defs(f, b)
  BY <1>1, <1>4 DEF Liveness!phi_uses, phi_uses, Liveness!phi_defs, phi_defs
<1>7. \A b : Liveness!use_set(b) = use_set(b)
  BY <1>5 DEF Liveness!use_set, use_set
<1>8. /\ \A l, b : Liveness!live_out_of(f, l, b) = live_out_of(f, l, b)
      /\ \A b, o : Liveness!live_in_of(b, o) = live_in_of(b, o)
  BY <1>1, <1>6, <1>7 DEF Liveness!live_out_of, live_out_of, Liveness!live_in_of, live_in_of
<1>9. Liveness!values = values
  BY <1>1 DEF Liveness!values, values
<1> QED
  BY <1>1, <1>6, <1>7, <1>8, <1>9

\* What a phi reads and what a block reads is defined somewhere, and a block
\* does not read a value before one of its phis defines it.
LEMMA UsesAreDefined ==
    ASSUME f \in Programs, passes_validation
    PROVE  /\ \A j \in DOMAIN f.blocks : use_set(f.blocks[j]) \subseteq values
           /\ \A p, s : s \in ids => phi_uses(f, p, s) \subseteq values
           /\ \A s \in ids : phi_defs(f, s) \subseteq def_set(try_block(f, s))
           /\ \A s \in ids : phi_defs(f, s) \cap use_set(try_block(f, s)) = {}
<1>1. definitions_are_valid(f) /\ uses_are_valid(f, dom)
  BY DEF passes_validation
<1>2. \A v : definitions(f, v) # {} => v \in values
  BY DEF definitions, values, def_set
<1>3. ASSUME NEW j \in DOMAIN f.blocks, NEW v \in use_set(f.blocks[j])
      PROVE  v \in values
  <2>1. PICK x \in 1..(Len(f.blocks[j].insts) + 1) : v \in used_at(f.blocks[j], x)
    BY DEF use_set
  <2>2. is_dominated(f, dom, v, j, x)
    BY <1>1, <2>1 DEF uses_are_valid
  <2>3. definitions(f, v) # {}
    BY <2>2 DEF is_dominated
  <2> QED
    BY <1>2, <2>3
<1>4. \A j \in DOMAIN f.blocks : /\ Len(f.blocks[j].insts) \in Nat
                                 /\ DOMAIN f.blocks[j].insts = 1..Len(f.blocks[j].insts)
  BY ProgramsAssumption
<1>5. ASSUME NEW p, NEW s \in ids, NEW v \in phi_uses(f, p, s)
      PROVE  v \in values
  <2>1. PICK j \in DOMAIN f.blocks : f.blocks[j].id = s /\ try_block(f, s) = f.blocks[j]
    BY BlockFields DEF ids, block_ids
  <2>2. PICK q \in phis(f.blocks[j]) : \E e \in Range(q.incoming) : e[2] = v
    BY <2>1 DEF phi_uses
  <2>3. PICK e \in Range(q.incoming) : e[2] = v
    BY <2>2
  <2>4. PICK x \in DOMAIN f.blocks[j].insts : q = f.blocks[j].insts[x] /\ is_phi(q)
    BY DEF phis
  <2>5. x \in 1..(Len(f.blocks[j].insts) + 1) /\ x <= Len(f.blocks[j].insts)
    BY <1>4
  <2>6. phi_is_valid(f, dom, build_predecessors(f), f.blocks[j], q)
    BY <1>1, <2>4, <2>5 DEF uses_are_valid
  <2>7. definitions(f, v) # {}
    BY <2>3, <2>6 DEF phi_is_valid
  <2> QED
    BY <1>2, <2>7
<1>6. ASSUME NEW s \in ids, NEW v \in phi_defs(f, s)
      PROVE  v \in def_set(try_block(f, s)) /\ v \notin use_set(try_block(f, s))
  <2>1. PICK j \in DOMAIN f.blocks : f.blocks[j].id = s /\ try_block(f, s) = f.blocks[j]
    BY BlockFields DEF ids, block_ids
  <2>2. PICK x \in DOMAIN f.blocks[j].insts :
          f.blocks[j].insts[x].dst = v /\ is_phi(f.blocks[j].insts[x])
    BY <2>1 DEF phi_defs, phis
  <2>3. \A y \in 1..(x - 1) : is_phi(f.blocks[j].insts[y])
    BY <1>1, <2>2 DEF definitions_are_valid
  <2>4. ASSUME NEW y \in 1..(Len(f.blocks[j].insts) + 1), v \in used_at(f.blocks[j], y),
               \A z \in 1..(y - 1) : f.blocks[j].insts[z].dst # v
        PROVE  FALSE
    <3>1. x \in 1..Len(f.blocks[j].insts) /\ Len(f.blocks[j].insts) \in Nat
      BY <1>4, <2>2
    <3>2. x \notin 1..(y - 1)
      BY <2>2, <2>4
    <3>3. y \in 1..x /\ y # Len(f.blocks[j].insts) + 1
      BY <3>1, <3>2
    <3>4. is_phi(f.blocks[j].insts[y])
      BY <2>2, <2>3, <3>1, <3>3
    <3>5. used_at(f.blocks[j], y) = {}
      BY <3>3, <3>4 DEF used_at
    <3> QED
      BY <2>4, <3>5
  <2> QED
    BY <2>1, <2>2, <2>4 DEF def_set, use_set
<1> QED
  BY <1>3, <1>5, <1>6
\* A set of blocks that has every block that needs v, and with a block those
\* through which v survives to it.
live_closed(X, v) ==
    /\ \A b \in ids : needs(b, v) => b \in X
    /\ \A s, b \in ids : survives(s, b, v) /\ s \in X => b \in X

\* The definitions of being live, in terms of the blocks.
LEMMA LiveSets ==
    ASSUME f \in Programs, NEW v
    PROVE  /\ \A b \in ids : Liveness!feeds_phi(b, v) <=> feeds(b, v)
           /\ Liveness!live_at_entry(v) =
                {b \in ids : \A X \in SUBSET ids : live_closed(X, v) => b \in X}
           /\ Liveness!live_at_exit(v) =
                {b \in ids : \/ feeds(b, v)
                             \/ \E s \in Liveness!live_at_entry(v) : leads(b, s)}
<1>1. ASSUME NEW b \in ids
      PROVE  /\ Liveness!feeds_phi(b, v) <=> feeds(b, v)
             /\ Liveness!needed(b, v) <=> needs(b, v)
             /\ \A s : s \in successors(try_block(f, b).term) <=> leads(b, s)
  <2>1. PICK j \in DOMAIN f.blocks : f.blocks[j].id = b /\ try_block(f, b) = f.blocks[j]
    BY BlockFields DEF ids, block_ids
  <2>2. \A m \in DOMAIN f.blocks : f.blocks[m].id = b => m = j
    BY <2>1, BlockFields
  <2>3. Liveness!feeds_phi(b, v) <=> feeds(b, v)
    BY <2>1, <2>2, SameAnalysis DEF Liveness!feeds_phi, feeds
  <2>4. Liveness!needed(b, v) <=> needs(b, v)
    BY <2>1, <2>2, <2>3, SameAnalysis DEF Liveness!needed, needs
  <2>5. \A s : s \in successors(try_block(f, b).term) <=> leads(b, s)
    BY <2>1, <2>2 DEF leads
  <2> QED
    BY <2>3, <2>4, <2>5
<1> DEFINE N == {c \in ids : Liveness!needed(c, v)}
           E == Liveness!carries(v)
<1>2. E = {e \in ids \X ids : survives(e[1], e[2], v)}
  <2>1. \A e : e \in E <=>
           \E j \in DOMAIN f.blocks : /\ v \notin def_set(f.blocks[j])
                                      /\ e \in successors(f.blocks[j].term) \X {f.blocks[j].id}
    <3>1. E = UNION {successors(b.term) \X {b.id} :
                        b \in {x \in Range(f.blocks) : v \notin def_set(x)}}
      BY SameAnalysis DEF Liveness!carries
    <3> HIDE DEF E
    <3> QED
      BY <3>1 DEF Range
  <2> HIDE DEF E
  <2> QED
    BY <2>1, BlockFields DEF survives
<1>3. Liveness!live_at_entry(v) = Liveness!on_paths_from(N, E, ids)
  BY SameAnalysis DEF Liveness!live_at_entry
<1>4. ASSUME NEW X \in SUBSET ids
      PROVE  (N \subseteq X /\ \A e \in E : e[1] \in X => e[2] \in X) <=> live_closed(X, v)
  <2>1. N \subseteq X <=> \A b \in ids : needs(b, v) => b \in X
    BY <1>1
  <2>2. (\A e \in E : e[1] \in X => e[2] \in X)
          <=> \A s, b \in ids : survives(s, b, v) /\ s \in X => b \in X
    <3>1. \A s, b \in ids : survives(s, b, v) => <<s, b>> \in E
      BY <1>2
    <3>2. \A e \in E : e[1] \in ids /\ e[2] \in ids /\ survives(e[1], e[2], v)
      BY <1>2
    <3> HIDE DEF E
    <3> QED
      BY <3>1, <3>2
  <2> HIDE DEF N, E
  <2> QED
    BY <2>1, <2>2 DEF live_closed
<1> HIDE DEF N, E
<1>5. Liveness!on_paths_from(N, E, ids) =
        {b \in ids : \A X \in SUBSET ids : live_closed(X, v) => b \in X}
  BY <1>4 DEF Liveness!on_paths_from
<1>6. Liveness!live_at_exit(v) =
        {b \in ids : \/ feeds(b, v)
                     \/ \E s \in Liveness!live_at_entry(v) : leads(b, s)}
  BY <1>1, SameAnalysis DEF Liveness!live_at_exit
<1> QED
  BY <1>1, <1>3, <1>5, <1>6

\* A visit of block j passes on nothing that is not live.
LEMMA VisitIsSound ==
    ASSUME f \in Programs, passes_validation, Liveness!NeverTooLarge,
           NEW j \in DOMAIN f.blocks,
           NEW o, o = live_out_of(f, live_in, f.blocks[j])
    PROVE  /\ \A v \in o : v \in values /\ f.blocks[j].id \in Liveness!live_at_exit(v)
           /\ \A v \in live_in_of(f.blocks[j], o) :
                 v \in values /\ f.blocks[j].id \in Liveness!live_at_entry(v)
<1> DEFINE b == f.blocks[j].id
<1>1. b \in ids /\ successors(f.blocks[j].term) \subseteq ids
  BY BlockFields
<1>2. ASSUME NEW v \in o
      PROVE  /\ v \in values
             /\ \/ feeds(b, v)
                \/ \E s \in successors(f.blocks[j].term) : s \in Liveness!live_at_entry(v)
  <2>1. PICK s \in successors(f.blocks[j].term) :
          v \in (live_in[s] \ phi_defs(f, s)) \cup phi_uses(f, f.blocks[j].id, s)
    BY DEF live_out_of
  <2>2. CASE v \in phi_uses(f, f.blocks[j].id, s)
    BY <1>1, <2>1, <2>2, UsesAreDefined DEF feeds
  <2>3. CASE v \in live_in[s]
    BY <1>1, <2>1, <2>3, SameAnalysis DEF Liveness!NeverTooLarge
  <2> QED
    BY <2>1, <2>2, <2>3
<1>3. ASSUME NEW v \in o PROVE v \in values /\ b \in Liveness!live_at_exit(v)
  <2>1. \A s \in successors(f.blocks[j].term) : leads(b, s)
    BY DEF leads
  <2> QED
    BY <1>1, <1>2, <2>1, LiveSets
<1>4. ASSUME NEW v \in live_in_of(f.blocks[j], o)
      PROVE  v \in values /\ b \in Liveness!live_at_entry(v)
  <2>1. CASE v \in use_set(f.blocks[j])
    <3>1. v \in values /\ needs(b, v)
      BY <2>1, UsesAreDefined DEF needs
    <3> QED
      BY <1>1, <3>1, LiveSets DEF live_closed
  <2>2. CASE v \in o /\ v \notin def_set(f.blocks[j])
    <3>1. v \in values
      BY <1>3, <2>2
    <3>2. CASE feeds(b, v)
      <4>1. needs(b, v)
        BY <2>2, <3>2 DEF needs
      <4> QED
        BY <1>1, <3>1, <4>1, LiveSets DEF live_closed
    <3>3. CASE \E s \in successors(f.blocks[j].term) : s \in Liveness!live_at_entry(v)
      <4>1. PICK s \in successors(f.blocks[j].term) : s \in Liveness!live_at_entry(v)
        BY <3>3
      <4>2. survives(s, b, v) /\ s \in ids
        BY <1>1, <2>2, <4>1 DEF survives
      <4> QED
        BY <1>1, <3>1, <4>1, <4>2, LiveSets DEF live_closed
    <3> QED
      BY <1>2, <2>2, <3>2, <3>3
  <2> QED
    BY <2>1, <2>2 DEF live_in_of
<1> QED
  BY <1>3, <1>4

\* The blocks the loop has nothing to change in.
live_fixed ==
    {b \in ids : /\ live_out[b] = live_out_of(f, live_in, try_block(f, b))
                 /\ live_in[b] = live_in_of(try_block(f, b), live_out[b])}

\* Where there is nothing to change in any block, every live value is there.
LEMMA FixedIsComplete ==
    ASSUME f \in Programs, passes_validation, ids \subseteq live_fixed, NEW v
    PROVE  /\ \A b \in Liveness!live_at_entry(v) : v \in live_in[b]
           /\ \A b \in Liveness!live_at_exit(v) : v \in live_out[b]
<1> DEFINE X == {b \in ids : v \in live_in[b]}
<1>1. ASSUME NEW j \in DOMAIN f.blocks
      PROVE  /\ f.blocks[j].id \in ids
             /\ live_out[f.blocks[j].id] = live_out_of(f, live_in, f.blocks[j])
             /\ live_in[f.blocks[j].id] = live_in_of(f.blocks[j], live_out[f.blocks[j].id])
  BY BlockFields DEF live_fixed
<1>2. ASSUME NEW s \in ids, v \in live_in[s] PROVE v \notin phi_defs(f, s)
  <2>1. PICK j \in DOMAIN f.blocks : f.blocks[j].id = s /\ try_block(f, s) = f.blocks[j]
    BY BlockFields DEF ids, block_ids
  <2> QED
    BY <1>1, <1>2, <2>1, UsesAreDefined DEF live_in_of
<1>3. ASSUME NEW j \in DOMAIN f.blocks, NEW s \in successors(f.blocks[j].term), v \in live_in[s]
      PROVE  v \in live_out[f.blocks[j].id]
  <2>1. s \in ids
    BY BlockFields
  <2>2. v \in live_in[s] \ phi_defs(f, s)
    BY <1>2, <1>3, <2>1
  <2> QED
    BY <1>1, <2>2 DEF live_out_of
<1>4. ASSUME NEW b \in ids, feeds(b, v) PROVE v \in live_out[b]
  BY <1>1, <1>4 DEF feeds, live_out_of
<1>5. ASSUME NEW b \in ids, needs(b, v) PROVE v \in live_in[b]
  <2>1. PICK j \in DOMAIN f.blocks :
          /\ f.blocks[j].id = b
          /\ \/ v \in use_set(f.blocks[j])
             \/ v \notin def_set(f.blocks[j]) /\ feeds(b, v)
    BY <1>5 DEF needs
  <2> QED
    BY <1>1, <1>4, <2>1 DEF live_in_of
<1>6. ASSUME NEW s \in ids, NEW b \in ids, survives(s, b, v), v \in live_in[s]
      PROVE  v \in live_in[b]
  <2>1. PICK j \in DOMAIN f.blocks : /\ f.blocks[j].id = b /\ v \notin def_set(f.blocks[j])
                                     /\ s \in successors(f.blocks[j].term)
    BY <1>6 DEF survives
  <2>2. v \in live_out[b]
    BY <1>3, <1>6, <2>1
  <2> QED
    BY <1>1, <2>1, <2>2 DEF live_in_of
<1>7. live_closed(X, v) /\ X \in SUBSET ids
  BY <1>5, <1>6 DEF live_closed
<1>8. \A b \in Liveness!live_at_entry(v) : b \in ids /\ v \in live_in[b]
  <2>1. \A b \in Liveness!live_at_entry(v) : b \in X
    <3> HIDE DEF X
    <3> QED
      BY <1>7, LiveSets
  <2> QED
    BY <2>1
<1>9. ASSUME NEW b \in Liveness!live_at_exit(v) PROVE v \in live_out[b]
  <2>1. b \in ids /\ (feeds(b, v) \/ \E s \in Liveness!live_at_entry(v) : leads(b, s))
    BY LiveSets
  <2>2. CASE feeds(b, v)
    BY <1>4, <2>1, <2>2
  <2>3. CASE \E s \in Liveness!live_at_entry(v) : leads(b, s)
    BY <1>3, <1>8, <2>3 DEF leads
  <2> QED
    BY <2>1, <2>2, <2>3
<1> QED
  BY <1>8, <1>9
-----------------------------------------------------------------------------
(* The loop of compute_liveness.                                           *)

backward == Reverse(f.blocks)

\* As for the dominators; the sets grow here and must not grow too large.  Only
\* a valid function gets this far.
LInv ==
    /\ f \in Programs
    /\ stage \in {"liveness", "graph"} => dom_done /\ passes_validation
    /\ stage = "graph" => live_done
    /\ DOMAIN live_in = ids /\ DOMAIN live_out = ids
    /\ live_in = [b \in ids |-> live_in[b]] /\ live_out = [b \in ids |-> live_out[b]]
    /\ live_changed \in BOOLEAN /\ live_done \in BOOLEAN
    /\ Liveness!NeverTooLarge
    /\ is_rest(live_todo, backward)
    /\ ~live_changed => \A j \in visited(live_todo, backward) : backward[j].id \in live_fixed
    /\ live_done => ids \subseteq live_fixed

\* The blocks from the last to the first.
LEMMA Backward ==
    ASSUME f \in Programs
    PROVE  /\ backward \in Seq(Range(backward))
           /\ \A j \in DOMAIN backward : \E m \in DOMAIN f.blocks : backward[j] = f.blocks[m]
           /\ \A b \in ids : \E j \in DOMAIN backward : backward[j].id = b
<1> DEFINE n == Len(f.blocks)
<1>1. n \in Nat /\ DOMAIN f.blocks = 1..n
  BY BlockFields
<1>2. backward = [j \in 1..n |-> f.blocks[n - j + 1]]
  BY DEF backward, Reverse
<1> HIDE DEF n
<1>3. DOMAIN backward = 1..n /\ \A j \in 1..n : backward[j] = f.blocks[n - j + 1]
  BY <1>2
<1>4. backward \in Seq(Range(backward))
  <2>1. backward \in [1..n -> Range(backward)]
    BY <1>2, <1>3 DEF Range
  <2> QED
    BY <1>1, <2>1, SeqDef
<1>5. \A j \in 1..n : n - j + 1 \in 1..n /\ n - (n - j + 1) + 1 = j
  BY <1>1
<1>6. \A j \in DOMAIN backward : \E m \in DOMAIN f.blocks : backward[j] = f.blocks[m]
  BY <1>1, <1>3, <1>5
<1>7. ASSUME NEW b \in ids PROVE \E j \in DOMAIN backward : backward[j].id = b
  <2>1. PICK m \in 1..n : f.blocks[m].id = b
    BY <1>1 DEF ids, block_ids
  <2>2. n - m + 1 \in 1..n /\ backward[n - m + 1] = f.blocks[n - (n - m + 1) + 1]
    BY <1>3, <1>5
  <2>3. backward[n - m + 1] = f.blocks[m]
    BY <1>5, <2>2
  <2> QED
    BY <1>3, <2>1, <2>2, <2>3
<1> QED
  BY <1>4, <1>6, <1>7

\* Nothing is live at the start.
LEMMA InitLInv == Init => LInv
<1> SUFFICES ASSUME Init PROVE LInv
  OBVIOUS
<1>1. /\ f \in Programs /\ stage = "dominators"
      /\ live_in = [b \in ids |-> {}] /\ live_out = live_in
      /\ live_todo = backward /\ live_changed = FALSE /\ live_done = FALSE
  BY SameAnalysis DEF Init, Dominance!Init, Liveness!Start, backward
<1>2. is_rest(live_todo, backward) /\ visited(live_todo, backward) = {}
  BY <1>1, Backward, WholeRest
<1>3. Liveness!NeverTooLarge
  BY <1>1, SameAnalysis DEF Liveness!NeverTooLarge
<1> QED
  BY <1>1, <1>2, <1>3 DEF LInv

\* Being live and being fixed depend on the function and the sets only.
LEMMA LiveFrame ==
    ASSUME f' = f
    PROVE  /\ ids' = ids /\ values' = values /\ backward' = backward
           /\ \A v : /\ Liveness!live_at_entry(v)' = Liveness!live_at_entry(v)
                     /\ Liveness!live_at_exit(v)' = Liveness!live_at_exit(v)
           /\ live_in' = live_in /\ live_out' = live_out =>
                 /\ live_fixed' = live_fixed
                 /\ Liveness!NeverTooLarge' <=> Liveness!NeverTooLarge
<1>1. ids' = ids /\ values' = values /\ backward' = backward
  BY DEF ids, block_ids, values, backward
<1>2. /\ Liveness!block_ids(f)' = Liveness!block_ids(f)
      /\ Liveness!values' = Liveness!values
      /\ \A v : Liveness!carries(v)' = Liveness!carries(v)
      /\ \A b, v : Liveness!feeds_phi(b, v)' <=> Liveness!feeds_phi(b, v)
      /\ \A b : Liveness!try_block(f, b)' = Liveness!try_block(f, b)
  BY DEF Liveness!block_ids, Liveness!values, Liveness!carries, Liveness!feeds_phi,
     Liveness!try_block
<1>3. \A b, v : Liveness!needed(b, v)' <=> Liveness!needed(b, v)
  BY <1>2 DEF Liveness!needed
<1>4. \A v : Liveness!live_at_entry(v)' = Liveness!live_at_entry(v)
  BY <1>2, <1>3 DEF Liveness!live_at_entry
<1>5. \A v : Liveness!live_at_exit(v)' = Liveness!live_at_exit(v)
  BY <1>2, <1>4 DEF Liveness!live_at_exit
<1>6. ASSUME live_in' = live_in, live_out' = live_out
      PROVE  live_fixed' = live_fixed
  BY <1>1, <1>6 DEF live_fixed
<1>7. ASSUME live_in' = live_in, live_out' = live_out
      PROVE  Liveness!NeverTooLarge' <=> Liveness!NeverTooLarge
  BY <1>2, <1>4, <1>5, <1>7 DEF Liveness!NeverTooLarge
<1> QED
  BY <1>1, <1>4, <1>5, <1>6, <1>7

\* Nothing else touches the loop's state.
LEMMA FrameLInv ==
    ASSUME LInv, UNCHANGED <<f, liveness_vars>>,
           (stage \in {"liveness", "graph"} => dom_done /\ passes_validation)',
           (stage = "graph" => live_done)'
    PROVE  LInv'
<1>1. UNCHANGED <<f, live_in, live_out, live_todo, live_changed, live_done>>
  BY DEF liveness_vars
<1> QED
  BY <1>1, LiveFrame DEF LInv, is_rest, visited

\* A visit adds nothing that is not live, and if it changes nothing, the block
\* is fixed.
LEMMA LiveVisitKeeps ==
    ASSUME LInv, stage = "liveness", Liveness!Visit, UNCHANGED <<stage, dominator_vars>>
    PROVE  LInv'
<1> DEFINE at == Len(backward) - Len(live_todo) + 1
           block1 == Head(live_todo)
           o == live_out_of(f, live_in, block1)
           n == live_in_of(block1, o)
<1>1. /\ ~live_done /\ live_todo # <<>> /\ live_todo' = Tail(live_todo)
      /\ UNCHANGED <<f, live_done>>
      /\ \/ /\ n = live_in[block1.id] /\ o = live_out[block1.id]
            /\ UNCHANGED <<live_in, live_out, live_changed>>
         \/ /\ live_in' = [live_in EXCEPT ![block1.id] = n]
            /\ live_out' = [live_out EXCEPT ![block1.id] = o]
            /\ live_changed' = TRUE
  BY SameAnalysis DEF Liveness!Visit
<1>2. /\ f \in Programs /\ passes_validation /\ is_rest(live_todo, backward)
      /\ backward \in Seq(Range(backward)) /\ Liveness!NeverTooLarge
  BY Backward DEF LInv
<1>3. /\ is_rest(live_todo', backward) /\ at \in DOMAIN backward /\ block1 = backward[at]
      /\ visited(live_todo', backward) = visited(live_todo, backward) \cup {at}
  BY <1>1, <1>2, NextOfRest
<1>4. PICK m \in DOMAIN f.blocks : block1 = f.blocks[m]
  BY <1>2, <1>3, Backward
<1>5. block1.id \in ids /\ try_block(f, block1.id) = block1
  BY <1>2, <1>4, BlockFields
<1>6. /\ ids' = ids /\ backward' = backward
      /\ (dom_done /\ passes_validation)' /\ stage' = "liveness"
  BY <1>1, LiveFrame DEF LInv, dominator_vars, passes_validation
<1>7. CASE /\ n = live_in[block1.id] /\ o = live_out[block1.id]
           /\ UNCHANGED <<live_in, live_out, live_changed>>
  <2>1. block1.id \in live_fixed
    BY <1>5, <1>7 DEF live_fixed
  <2> HIDE DEF n, o, at, block1
  <2>2. live_fixed' = live_fixed /\ Liveness!NeverTooLarge'
    BY <1>1, <1>2, <1>7, LiveFrame
  <2>3. ~live_changed => \A j \in visited(live_todo', backward) : backward[j].id \in live_fixed
    BY <1>3, <2>1 DEF LInv
  <2> QED
    BY <1>1, <1>3, <1>6, <1>7, <2>2, <2>3 DEF LInv
<1>8. CASE /\ live_in' = [live_in EXCEPT ![block1.id] = n]
           /\ live_out' = [live_out EXCEPT ![block1.id] = o]
           /\ live_changed' = TRUE
  <2>1. /\ \A v \in o : v \in values /\ block1.id \in Liveness!live_at_exit(v)
        /\ \A v \in n : v \in values /\ block1.id \in Liveness!live_at_entry(v)
    BY <1>2, <1>4, VisitIsSound
  <2> HIDE DEF n, o, at, block1
  <2>2. /\ DOMAIN live_in' = ids /\ DOMAIN live_out' = ids
        /\ live_in' = [b \in ids |-> live_in'[b]] /\ live_out' = [b \in ids |-> live_out'[b]]
        /\ \A b \in ids : /\ live_in'[b] = IF b = block1.id THEN n ELSE live_in[b]
                          /\ live_out'[b] = IF b = block1.id THEN o ELSE live_out[b]
    BY <1>5, <1>8 DEF LInv
  <2>3. Liveness!NeverTooLarge'
    <3>1. /\ Liveness!block_ids(f) = ids /\ Liveness!block_ids(f)' = ids
          /\ Liveness!values = values /\ Liveness!values' = values
      BY <1>1, SameAnalysis DEF Liveness!block_ids, Liveness!values
    <3>2. ASSUME NEW b \in ids, NEW v
          PROVE  /\ v \in live_in[b] => v \in values /\ b \in Liveness!live_at_entry(v)
                 /\ v \in live_out[b] => v \in values /\ b \in Liveness!live_at_exit(v)
      BY <1>2, <3>1 DEF Liveness!NeverTooLarge
    <3>3. ASSUME NEW b \in ids, NEW v
          PROVE  /\ v \in live_in'[b] => v \in values /\ b \in Liveness!live_at_entry(v)'
                 /\ v \in live_out'[b] => v \in values /\ b \in Liveness!live_at_exit(v)'
      BY <1>1, <2>1, <2>2, <3>2, LiveFrame
    <3> QED
      BY <3>1, <3>3 DEF Liveness!NeverTooLarge
  <2> QED
    BY <1>1, <1>2, <1>3, <1>6, <1>8, <2>2, <2>3 DEF LInv
<1> QED
  BY <1>1, <1>7, <1>8

\* The loop ends after a pass in which every block was fixed.
LEMMA LiveEndPassKeeps ==
    ASSUME LInv, stage = "liveness", Liveness!EndPass, UNCHANGED <<stage, dominator_vars>>
    PROVE  LInv'
<1>1. /\ ~live_done /\ live_todo = <<>> /\ live_changed' = FALSE
      /\ UNCHANGED <<f, live_in, live_out>>
      /\ \/ live_changed /\ live_todo' = backward /\ live_done' = live_done
         \/ ~live_changed /\ live_done' = TRUE /\ live_todo' = live_todo
  BY SameAnalysis DEF Liveness!EndPass, backward
<1>2. /\ f \in Programs /\ backward \in Seq(Range(backward))
      /\ ids' = ids /\ backward' = backward
      /\ (dom_done /\ passes_validation)' /\ stage' = "liveness"
  BY <1>1, Backward, LiveFrame DEF LInv, dominator_vars, passes_validation
<1>3. live_fixed' = live_fixed /\ Liveness!NeverTooLarge'
  BY <1>1, LiveFrame DEF LInv
<1>4. CASE live_changed /\ live_todo' = backward /\ live_done' = live_done
  <2>1. is_rest(live_todo', backward) /\ visited(live_todo', backward) = {}
    BY <1>2, <1>4, WholeRest
  <2> QED
    BY <1>1, <1>2, <1>3, <1>4, <2>1 DEF LInv
<1>5. CASE ~live_changed /\ live_done' = TRUE /\ live_todo' = live_todo
  <2>1. visited(live_todo, backward) = DOMAIN backward
    BY <1>1, <1>2, WholeRest
  <2>2. ids \subseteq live_fixed
    BY <1>2, <1>5, <2>1, Backward DEF LInv
  <2> QED
    BY <1>1, <1>2, <1>3, <1>5, <2>1, <2>2 DEF LInv
<1> QED
  BY <1>1, <1>4, <1>5

-----------------------------------------------------------------------------
(* The walk of build_interference_graph.                                   *)

\* The values live before each instruction.
live_at == [p \in places(f) |-> Graph!live_before(f.blocks[p[1]], p[2])]

is_term(p) == p[2] = Len(f.blocks[p[1]].insts) + 1
dst_at(p) == f.blocks[p[1]].insts[p[2]].dst

\* What the walk adds to the graph at each instruction.
mentioned ==
    [p \in places(f) |->
        used_at(f.blocks[p[1]], p[2])
          \cup IF is_term(p) THEN live_out[f.blocks[p[1]].id] ELSE {dst_at(p)}]
linked ==
    [p \in places(f) |->
        IF is_term(p) THEN {} ELSE Graph!links(dst_at(p), live_at[<<p[1], p[2] + 1>>])]

\* The instructions the walk has passed.
passed == {p \in places(f) : p[1] < k \/ (p[1] = k /\ 0 <= i /\ i < p[2])}

\* What is live is live before the instruction passed last, and the graph is
\* what the instructions passed have added to it.
WInv ==
    /\ stage \in {"dominators", "liveness"} => k = 1 /\ i = -1 /\ nodes = {} /\ edges = {}
    /\ stage = "graph" =>
          /\ k \in 1..(Len(f.blocks) + 1)
          /\ i \in Int /\ -1 <= i
          /\ k <= Len(f.blocks) => i <= Len(f.blocks[k].insts)
          /\ k > Len(f.blocks) => i = -1
          /\ 0 <= i => live = live_at[<<k, i + 1>>]
          /\ nodes = UNION {mentioned[p] : p \in passed}
          /\ edges = UNION {linked[p] : p \in passed}

\* The instructions of the blocks.
LEMMA PlacesOfBlocks ==
    ASSUME f \in Programs
    PROVE  /\ \A x \in DOMAIN f.blocks :
                 /\ Len(f.blocks[x].insts) \in Nat
                 /\ DOMAIN f.blocks[x].insts = 1..Len(f.blocks[x].insts)
                 /\ \A j \in 1..(Len(f.blocks[x].insts) + 1) : <<x, j>> \in places(f)
           /\ \A p \in places(f) : /\ p = <<p[1], p[2]>>
                                   /\ p[1] \in DOMAIN f.blocks
                                   /\ p[2] \in 1..(Len(f.blocks[p[1]].insts) + 1)
BY WellFormed, PlacesOf

\* The operators of the walk's instance are those of Analysis.
LEMMA SameGraph ==
    /\ \A b, j : Graph!used_at(b, j) = used_at(b, j)
    /\ \A t : Graph!term_uses(t) = term_uses(t)
    /\ \A b, j : j \in 1..Len(b.insts) /\ Len(b.insts) \in Nat
                    => Graph!read_by(b.insts[j]) = used_at(b, j)
<1>1. /\ \A x : Graph!is_phi(x) <=> is_phi(x)
      /\ \A t : Graph!term_uses(t) = term_uses(t)
      /\ \A t : Graph!Range(t) = Range(t)
  BY DEF Graph!is_phi, is_phi, Graph!term_uses, term_uses, Graph!Range, Range
<1>2. \A x : Graph!uses(x) = uses(x)
  BY <1>1 DEF Graph!uses, uses
<1>3. \A b, j : Graph!used_at(b, j) = used_at(b, j)
  BY <1>1, <1>2 DEF Graph!used_at, used_at
<1>4. ASSUME NEW b, NEW j, j \in 1..Len(b.insts), Len(b.insts) \in Nat
      PROVE  Graph!read_by(b.insts[j]) = used_at(b, j)
  <2>1. j # Len(b.insts) + 1
    BY <1>4
  <2> QED
    BY <1>1, <1>2, <2>1 DEF Graph!read_by, used_at
<1> QED
  BY <1>1, <1>3, <1>4

\* v is live before instruction j of block x.
LEMMA LiveBefore ==
    ASSUME f \in Programs, NEW x \in DOMAIN f.blocks,
           NEW j \in 1..(Len(f.blocks[x].insts) + 1), NEW v
    PROVE  v \in live_at[<<x, j>>] <=>
             \/ \E e \in j..(Len(f.blocks[x].insts) + 1) :
                   /\ v \in used_at(f.blocks[x], e)
                   /\ \A y \in j..(e - 1) : f.blocks[x].insts[y].dst # v
             \/ /\ v \in live_out[f.blocks[x].id]
                /\ \A y \in j..Len(f.blocks[x].insts) : f.blocks[x].insts[y].dst # v
<1>1. live_at[<<x, j>>] = Graph!live_before(f.blocks[x], j)
  BY PlacesOfBlocks DEF live_at
<1>2. (Len(f.blocks[x].insts) + 1) - 1 = Len(f.blocks[x].insts)
  BY PlacesOfBlocks
<1> DEFINE n == Len(f.blocks[x].insts)
           U(e) == Graph!not_defined(f.blocks[x], j, e, Graph!used_at(f.blocks[x], e))
<1>3. /\ v \in Graph!live_before(f.blocks[x], j) <=>
            \/ v \in Graph!read_later(f.blocks[x], j)
            \/ v \in Graph!not_defined(f.blocks[x], j, n + 1, live_out[f.blocks[x].id])
      /\ v \in Graph!read_later(f.blocks[x], j) <=> \E e \in j..(n + 1) : v \in U(e)
  <2>1. v \in Graph!live_before(f.blocks[x], j) <=>
            \/ v \in Graph!read_later(f.blocks[x], j)
            \/ v \in Graph!not_defined(f.blocks[x], j, n + 1, live_out[f.blocks[x].id])
    BY DEF Graph!live_before
  <2>2. v \in Graph!read_later(f.blocks[x], j) <=> \E e \in j..(n + 1) : v \in U(e)
    BY DEF Graph!read_later
  <2> QED
    BY <2>1, <2>2
<1>4. \A e, V : v \in Graph!not_defined(f.blocks[x], j, e, V) <=>
        v \in V /\ \A y \in j..(e - 1) : f.blocks[x].insts[y].dst # v
  BY DEF Graph!not_defined
<1> QED
  BY <1>1, <1>2, <1>3, <1>4, SameGraph

\* How the values live before an instruction follow from those after it.
LEMMA LiveSteps ==
    ASSUME f \in Programs, NEW x \in DOMAIN f.blocks
    PROVE  LET n == Len(f.blocks[x].insts) IN
           /\ live_at[<<x, n + 1>>] = live_out[f.blocks[x].id] \cup used_at(f.blocks[x], n + 1)
           /\ \A j \in 1..n : live_at[<<x, j>>] =
                 (live_at[<<x, j + 1>>] \ {f.blocks[x].insts[j].dst}) \cup used_at(f.blocks[x], j)
           /\ live_at[<<x, 1>>] = live_in_of(f.blocks[x], live_out[f.blocks[x].id])
<1> DEFINE n == Len(f.blocks[x].insts)
           u(e) == used_at(f.blocks[x], e)
           d(y) == f.blocks[x].insts[y].dst
           o == live_out[f.blocks[x].id]
<1>1. n \in Nat /\ DOMAIN f.blocks[x].insts = 1..n
  BY PlacesOfBlocks
<1>2. ASSUME NEW j \in 1..(n + 1), NEW v
      PROVE  v \in live_at[<<x, j>>] <=>
               \/ \E e \in j..(n + 1) : v \in u(e) /\ \A y \in j..(e - 1) : d(y) # v
               \/ v \in o /\ \A y \in j..n : d(y) # v
  BY LiveBefore
<1>3. \A v : v \in live_in_of(f.blocks[x], o) <=>
               \/ \E e \in 1..(n + 1) : v \in u(e) /\ \A y \in 1..(e - 1) : d(y) # v
               \/ v \in o /\ \A y \in 1..n : d(y) # v
  BY <1>1 DEF live_in_of, use_set, def_set
<1> HIDE DEF n, u, d, o
<1>4. live_at[<<x, n + 1>>] = o \cup u(n + 1)
  <2>1. n + 1 \in 1..(n + 1)
    BY <1>1
  <2>2. \A v : v \in live_at[<<x, n + 1>>] <=> v \in o \/ v \in u(n + 1)
    BY <1>1, <1>2, <2>1
  <2> QED
    BY <2>2
<1>5. ASSUME NEW j \in 1..n
      PROVE  live_at[<<x, j>>] = (live_at[<<x, j + 1>>] \ {d(j)}) \cup u(j)
  <2>1. j \in 1..(n + 1) /\ j + 1 \in 1..(n + 1)
    BY <1>1
  <2>2. ASSUME NEW v \in live_at[<<x, j>>], v \notin u(j)
        PROVE  v # d(j) /\ v \in live_at[<<x, j + 1>>]
    <3>1. CASE \E e \in j..(n + 1) : v \in u(e) /\ \A y \in j..(e - 1) : d(y) # v
      <4>1. PICK e \in j..(n + 1) : v \in u(e) /\ \A y \in j..(e - 1) : d(y) # v
        BY <3>1
      <4>2. e # j
        BY <2>2, <4>1
      <4>3. e \in (j + 1)..(n + 1) /\ j \in j..(e - 1) /\ \A y \in (j + 1)..(e - 1) : y \in j..(e - 1)
        BY <1>1, <4>2
      <4>4. v # d(j) /\ \A y \in (j + 1)..(e - 1) : d(y) # v
        BY <4>1, <4>3
      <4> QED
        BY <1>2, <2>1, <4>1, <4>3, <4>4
    <3>2. CASE v \in o /\ \A y \in j..n : d(y) # v
      BY <1>1, <1>2, <2>1, <3>2
    <3> QED
      BY <1>2, <2>1, <2>2, <3>1, <3>2
  <2>3. ASSUME NEW v \in live_at[<<x, j + 1>>], v # d(j)
        PROVE  v \in live_at[<<x, j>>]
    <3>1. CASE \E e \in (j + 1)..(n + 1) : v \in u(e) /\ \A y \in (j + 1)..(e - 1) : d(y) # v
      <4>1. PICK e \in (j + 1)..(n + 1) : v \in u(e) /\ \A y \in (j + 1)..(e - 1) : d(y) # v
        BY <3>1
      <4>2. e \in j..(n + 1) /\ \A y \in j..(e - 1) : y = j \/ y \in (j + 1)..(e - 1)
        BY <1>1
      <4>3. \A y \in j..(e - 1) : d(y) # v
        BY <2>3, <4>1, <4>2
      <4> QED
        BY <1>2, <2>1, <4>1, <4>2, <4>3
    <3>2. CASE v \in o /\ \A y \in (j + 1)..n : d(y) # v
      <4>1. \A y \in j..n : y = j \/ y \in (j + 1)..n
        BY <1>1
      <4>2. \A y \in j..n : d(y) # v
        BY <2>3, <3>2, <4>1
      <4> QED
        BY <1>2, <2>1, <3>2, <4>2
    <3> QED
      BY <1>2, <2>1, <2>3, <3>1, <3>2
  <2>4. ASSUME NEW v \in u(j) PROVE v \in live_at[<<x, j>>]
    <3>1. j \in j..(n + 1) /\ j..(j - 1) = {}
      BY <1>1
    <3> QED
      BY <1>2, <2>1, <2>4, <3>1
  <2> QED
    BY <2>2, <2>3, <2>4
<1>6. live_at[<<x, 1>>] = live_in_of(f.blocks[x], o)
  <2>1. 1 \in 1..(n + 1)
    BY <1>1
  <2> QED
    BY <1>2, <1>3, <2>1
<1> QED
  BY <1>4, <1>5, <1>6 DEF n, u, d, o

\* The functions above depend on the function and the sets of liveness only.
LEMMA WalkFrame ==
    ASSUME f' = f, live_out' = live_out
    PROVE  live_at' = live_at /\ mentioned' = mentioned /\ linked' = linked
<1>1. places(f)' = places(f)
  BY DEF places
<1>2. live_at' = live_at
  BY <1>1 DEF live_at, Graph!live_before, Graph!read_later, Graph!not_defined
<1>3. mentioned' = mentioned
  BY <1>1 DEF mentioned, is_term, dst_at
<1>4. linked' = linked
  BY <1>1, <1>2 DEF linked, is_term, dst_at
<1> QED
  BY <1>2, <1>3, <1>4

\* Nothing else touches the graph.
LEMMA FrameWInv ==
    ASSUME WInv, UNCHANGED <<f, live_out, graph_vars, stage>>
    PROVE  WInv'
<1>1. UNCHANGED <<k, i, live, nodes, edges>>
  BY DEF graph_vars
<1>2. passed' = passed
  BY <1>1 DEF passed, places
<1> QED
  BY <1>1, <1>2, WalkFrame DEF WInv

\* The end of a block is passed when the walk enters it.
LEMMA EnterBlockKeeps ==
    ASSUME WInv, f \in Programs, stage = "graph", stage' = stage, Graph!EnterBlock
    PROVE  WInv'
<1> DEFINE n == Len(f.blocks[k].insts)
           e == <<k, n + 1>>
<1>1. /\ k \in 1..(Len(f.blocks) + 1) /\ ~(k > Len(f.blocks)) /\ i = -1
      /\ live' = live_out[f.blocks[k].id] \cup used_at(f.blocks[k], n + 1)
      /\ nodes' = nodes \cup live' /\ i' = n
      /\ UNCHANGED <<f, live_out, k, edges>>
  BY SameGraph DEF WInv, Graph!EnterBlock, Graph!done, Graph!block, used_at
<1>2. Len(f.blocks) \in Nat /\ DOMAIN f.blocks = 1..Len(f.blocks)
  BY BlockFields
<1>3. k \in DOMAIN f.blocks /\ k <= Len(f.blocks)
  BY <1>1, <1>2
<1>4. n \in Nat /\ e \in places(f)
  BY <1>3, PlacesOfBlocks
<1>5. passed' = passed \cup {e}
  <2>1. passed' = {p \in places(f) : p[1] < k \/ (p[1] = k /\ 0 <= n /\ n < p[2])}
    BY <1>1 DEF passed, places
  <2>2. passed = {p \in places(f) : p[1] < k}
    BY <1>1 DEF passed
  <2>3. \A p \in places(f) : p[1] = k /\ n < p[2] <=> p = e
    <3>1. ASSUME NEW p \in places(f), p[1] = k, n < p[2] PROVE p = e
      <4>1. p = <<p[1], p[2]>> /\ p[2] \in 1..(n + 1)
        BY <3>1, PlacesOfBlocks
      <4> QED
        BY <1>4, <3>1, <4>1
    <3>2. e[1] = k /\ n < e[2]
      BY <1>4
    <3> HIDE DEF e, n
    <3> QED
      BY <3>1, <3>2
  <2> HIDE DEF e
  <2> QED
    BY <1>4, <2>1, <2>2, <2>3
<1>6. mentioned[e] = live' /\ linked[e] = {} /\ live' = live_at[e]
  <2>1. is_term(e) /\ e[1] = k /\ e[2] = n + 1
    BY DEF is_term
  <2>2. live' = live_at[e]
    BY <1>1, <1>3, LiveSteps
  <2> HIDE DEF e
  <2> QED
    BY <1>1, <1>4, <2>1, <2>2 DEF mentioned, linked
<1>7. live_at' = live_at /\ mentioned' = mentioned /\ linked' = linked
  BY <1>1, WalkFrame
<1>8. /\ nodes' = UNION {mentioned[p] : p \in passed \cup {e}}
      /\ edges' = UNION {linked[p] : p \in passed \cup {e}}
  <2>1. /\ nodes = UNION {mentioned[p] : p \in passed}
        /\ edges = UNION {linked[p] : p \in passed}
    BY DEF WInv
  <2> HIDE DEF e
  <2> QED
    BY <1>1, <1>6, <2>1
<1>9. i' \in Int /\ -1 <= i' /\ 0 <= i' /\ i' + 1 = n + 1
  BY <1>1, <1>4
<1>10. live' = live_at'[<<k', i' + 1>>] /\ Len(f'.blocks[k'].insts) = n
  BY <1>1, <1>6, <1>7, <1>9
<1>11. /\ nodes' = UNION {mentioned'[p] : p \in passed'}
       /\ edges' = UNION {linked'[p] : p \in passed'}
  BY <1>5, <1>7, <1>8
<1>12. k' \in 1..(Len(f'.blocks) + 1) /\ ~(k' > Len(f'.blocks)) /\ i' <= n
  BY <1>1, <1>4
<1> HIDE DEF n, e
<1> QED
  BY <1>9, <1>10, <1>11, <1>12 DEF WInv

\* One instruction is passed.
LEMMA WalkKeeps ==
    ASSUME WInv, f \in Programs, stage = "graph", stage' = stage, Graph!Walk
    PROVE  WInv'
<1> DEFINE n == Len(f.blocks[k].insts)
           e == <<k, i>>
           d == f.blocks[k].insts[i].dst
<1>1. k \in 1..(Len(f.blocks) + 1) /\ ~(k > Len(f.blocks)) /\ i > 0 /\ i \in Int
  BY DEF WInv, Graph!Walk, Graph!done
<1>2. Len(f.blocks) \in Nat /\ DOMAIN f.blocks = 1..Len(f.blocks)
  BY BlockFields
<1>3. k \in DOMAIN f.blocks /\ k <= Len(f.blocks)
  BY <1>1, <1>2
<1>4. n \in Nat /\ i \in 1..n /\ e \in places(f) /\ i - 1 \in Nat
  <2>1. n \in Nat /\ i <= n
    BY <1>3, PlacesOfBlocks DEF WInv
  <2>2. i \in 1..n /\ i \in 1..(n + 1) /\ i - 1 \in Nat
    BY <1>1, <2>1
  <2> QED
    BY <1>3, <2>1, <2>2, PlacesOfBlocks
<1>5. /\ edges' = edges \cup Graph!links(d, live)
      /\ live' = (live \ {d}) \cup used_at(f.blocks[k], i)
      /\ nodes' = nodes \cup {d} \cup used_at(f.blocks[k], i)
      /\ i' = i - 1
      /\ UNCHANGED <<f, live_out, k>>
  <2>1. Graph!read_by(f.blocks[k].insts[i]) = used_at(f.blocks[k], i)
    BY <1>4, SameGraph
  <2> QED
    BY <2>1 DEF Graph!Walk, Graph!block
<1>6. passed' = passed \cup {e}
  <2>1. passed' = {p \in places(f) : p[1] < k \/ (p[1] = k /\ 0 <= i - 1 /\ i - 1 < p[2])}
    BY <1>5 DEF passed, places
  <2>2. passed = {p \in places(f) : p[1] < k \/ (p[1] = k /\ 0 <= i /\ i < p[2])}
    BY DEF passed
  <2>3. \A p \in places(f) : p[1] = k =>
            /\ (0 <= i - 1 /\ i - 1 < p[2]) <=> (0 <= i /\ i < p[2]) \/ p[2] = i
            /\ p[2] = i <=> p = e
    <3>1. ASSUME NEW p \in places(f), p[1] = k
          PROVE  (0 <= i - 1 /\ i - 1 < p[2]) <=> (0 <= i /\ i < p[2]) \/ p[2] = i
      <4>1. p[2] \in 1..(n + 1)
        BY <3>1, PlacesOfBlocks
      <4> QED
        BY <1>4, <4>1
    <3>2. ASSUME NEW p \in places(f), p[1] = k PROVE p[2] = i <=> p = e
      BY <3>2, PlacesOfBlocks
    <3> HIDE DEF e
    <3> QED
      BY <3>1, <3>2
  <2>4. e[1] = k
    OBVIOUS
  <2> HIDE DEF e
  <2> QED
    BY <1>4, <2>1, <2>2, <2>3, <2>4
<1>7. live = live_at[<<k, i + 1>>]
  BY <1>1 DEF WInv
<1>8. mentioned[e] = {d} \cup used_at(f.blocks[k], i) /\ linked[e] = Graph!links(d, live)
  <2>1. ~is_term(e) /\ e[1] = k /\ e[2] = i /\ dst_at(e) = d
    BY <1>4 DEF is_term, dst_at
  <2> HIDE DEF e, d
  <2> QED
    BY <1>4, <1>7, <2>1 DEF mentioned, linked
<1>9. live' = live_at[e]
  BY <1>3, <1>4, <1>5, <1>7, LiveSteps
<1>10. live_at' = live_at /\ mentioned' = mentioned /\ linked' = linked
  BY <1>5, WalkFrame
<1>11. /\ nodes' = UNION {mentioned[p] : p \in passed \cup {e}}
       /\ edges' = UNION {linked[p] : p \in passed \cup {e}}
  <2>1. /\ nodes = UNION {mentioned[p] : p \in passed}
        /\ edges = UNION {linked[p] : p \in passed}
    BY DEF WInv
  <2> HIDE DEF e, d
  <2> QED
    BY <1>5, <1>8, <2>1
<1>12. i' \in Int /\ -1 <= i' /\ 0 <= i' /\ i' + 1 = i /\ i' <= n
  BY <1>4, <1>5
<1> HIDE DEF n, d
<1>13. f'.blocks = f.blocks /\ k' = k
  BY <1>5
<1>14. Len(f'.blocks[k'].insts) = n /\ live' = live_at'[<<k', i' + 1>>]
  BY <1>9, <1>10, <1>12, <1>13 DEF n
<1>15. /\ nodes' = UNION {mentioned'[p] : p \in passed'}
       /\ edges' = UNION {linked'[p] : p \in passed'}
  BY <1>6, <1>10, <1>11
<1>16. k' \in 1..(Len(f'.blocks) + 1) /\ ~(k' > Len(f'.blocks))
  BY <1>1, <1>13
<1> HIDE DEF e
<1> QED
  BY <1>12, <1>14, <1>15, <1>16 DEF WInv

\* A block the walk has been through is passed as a whole.
LEMMA LeaveBlockKeeps ==
    ASSUME WInv, f \in Programs, stage = "graph", stage' = stage, Graph!LeaveBlock
    PROVE  WInv'
<1>1. /\ k \in 1..(Len(f.blocks) + 1) /\ ~(k > Len(f.blocks)) /\ i = 0
      /\ k' = k + 1 /\ i' = -1
      /\ UNCHANGED <<f, live_out, live, nodes, edges>>
  BY DEF WInv, Graph!LeaveBlock, Graph!done
<1>2. Len(f.blocks) \in Nat /\ DOMAIN f.blocks = 1..Len(f.blocks)
  BY BlockFields
<1>3. k' \in 1..(Len(f.blocks) + 1) /\ k \in Nat
  BY <1>1, <1>2
<1>4. passed' = passed
  <2>1. passed' = {p \in places(f) : p[1] < k + 1}
    BY <1>1 DEF passed, places
  <2>2. passed = {p \in places(f) : p[1] < k \/ (p[1] = k /\ 0 < p[2])}
    BY <1>1 DEF passed
  <2>3. ASSUME NEW p \in places(f) PROVE p[1] < k + 1 <=> p[1] < k \/ (p[1] = k /\ 0 < p[2])
    <3>1. p[1] \in Nat /\ p[2] \in Nat /\ 0 < p[2]
      BY <1>2, PlacesOfBlocks
    <3> QED
      BY <1>3, <3>1
  <2> QED
    BY <2>1, <2>2, <2>3
<1>5. live_at' = live_at /\ mentioned' = mentioned /\ linked' = linked
  BY <1>1, WalkFrame
<1>6. f'.blocks = f.blocks
  BY <1>1
<1>7. k' <= Len(f.blocks) => i' <= Len(f.blocks[k'].insts)
  BY <1>1, <1>2, <1>3, PlacesOfBlocks
<1> QED
  BY <1>1, <1>3, <1>4, <1>5, <1>6, <1>7 DEF WInv

\* The walk has not begun: so it is until liveness has been computed.
not_begun == f \in Programs /\ k = 1 /\ i = -1 /\ nodes = {} /\ edges = {}

LEMMA NothingPassed == not_begun => WInv
<1> SUFFICES ASSUME not_begun PROVE WInv
  OBVIOUS
<1> USE DEF not_begun
<1>1. Len(f.blocks) \in Nat /\ DOMAIN f.blocks = 1..Len(f.blocks)
  BY BlockFields
<1>2. ASSUME NEW p \in places(f) PROVE p \notin passed
  <2>1. p[1] \in 1..Len(f.blocks)
    BY <1>1, PlacesOfBlocks
  <2> QED
    BY <1>1, <2>1 DEF passed
<1>3. passed = {}
  BY <1>2 DEF passed
<1>4. /\ {} = UNION {mentioned[p] : p \in passed}
      /\ {} = UNION {linked[p] : p \in passed}
  BY <1>3
<1>5. /\ k \in 1..(Len(f.blocks) + 1) /\ i \in Int /\ -1 <= i /\ ~(0 <= i)
      /\ k <= Len(f.blocks) => i <= Len(f.blocks[k].insts)
  <2>1. ASSUME k <= Len(f.blocks) PROVE i <= Len(f.blocks[k].insts)
    <3>1. k \in DOMAIN f.blocks
      BY <1>1, <2>1
    <3>2. Len(f.blocks[k].insts) \in Nat
      BY <3>1, PlacesOfBlocks
    <3> QED
      BY <3>2
  <2> QED
    BY <1>1, <2>1
<1> QED
  BY <1>4, <1>5 DEF WInv

\* Every step of the analyses keeps what is known about the graph.
LEMMA StepKeepsWInv ==
    ASSUME LInv, WInv, [Next]_vars
    PROVE  WInv'
<1>1. f \in Programs
  BY DEF LInv
<1>2. ASSUME stage \in {"dominators", "liveness"}, f' = f, UNCHANGED graph_vars PROVE WInv'
  <2>1. k = 1 /\ i = -1 /\ nodes = {} /\ edges = {}
    BY <1>2 DEF WInv
  <2>2. not_begun'
    BY <1>1, <1>2, <2>1 DEF graph_vars, not_begun
  <2> QED
    BY <2>2, NothingPassed, PTL
<1>3. CASE Dominators
  BY <1>2, <1>3 DEF Dominators, Dominance!Next, Dominance!Visit, Dominance!EndPass
<1>4. CASE Validate
  BY <1>2, <1>4 DEF Validate
<1>5. CASE LiveValues
  BY <1>2, <1>5 DEF LiveValues, Liveness!Next, Liveness!Visit, Liveness!EndPass
<1>6. CASE BuildGraph
  <2>1. CASE Graph!Next /\ UNCHANGED stage
    BY <1>1, <1>6, <2>1, EnterBlockKeeps, WalkKeeps, LeaveBlockKeeps DEF BuildGraph, Graph!Next
  <2>2. CASE stage' = "end"
    BY <2>2 DEF WInv
  <2> QED
    BY <1>6, <2>1, <2>2 DEF BuildGraph
<1>7. CASE UNCHANGED vars
  BY <1>7, FrameWInv DEF vars, liveness_vars
<1> QED
  BY <1>3, <1>4, <1>5, <1>6, <1>7 DEF Next

\* A function has finitely many instructions.
LEMMA PlacesAreFinite ==
    ASSUME f \in Programs
    PROVE  IsFiniteSet(places(f))
BY WellFormed, FinitePlaces

\* A value of a valid function has one definition.
LEMMA OneDefinition ==
    ASSUME f \in Programs, passes_validation, NEW v \in values
    PROVE  \E q \in places(f) : definitions(f, v) = {q}
<1>1. PICK x \in DOMAIN f.blocks : v \in def_set(f.blocks[x])
  BY DEF values
<1>2. PICK j \in DOMAIN f.blocks[x].insts : f.blocks[x].insts[j].dst = v
  BY <1>1 DEF def_set
<1>3. Cardinality(definitions(f, v)) = 1
  BY <1>1, <1>2 DEF passes_validation, definitions_are_valid
<1>4. definitions(f, v) \in SUBSET places(f)
  <2>1. \A q \in definitions(f, v) : \E y \in DOMAIN f.blocks : q \in {y} \X DOMAIN f.blocks[y].insts
    BY DEF definitions
  <2>2. \A y \in DOMAIN f.blocks : \A z \in DOMAIN f.blocks[y].insts : <<y, z>> \in places(f)
    <3> SUFFICES ASSUME NEW y \in DOMAIN f.blocks, NEW z \in DOMAIN f.blocks[y].insts
                 PROVE  <<y, z>> \in places(f)
      OBVIOUS
    <3>1. Len(f.blocks[y].insts) \in Nat /\ z \in 1..Len(f.blocks[y].insts)
      BY PlacesOfBlocks
    <3>2. z \in 1..(Len(f.blocks[y].insts) + 1)
      BY <3>1
    <3> QED
      BY <3>2, PlacesOfBlocks
  <2> QED
    BY <2>1, <2>2
<1>5. IsFiniteSet(definitions(f, v))
  BY <1>4, PlacesAreFinite, FS_Subset
<1>6. \E q : definitions(f, v) = {q}
  BY <1>3, <1>5, FS_Singleton
<1> QED
  BY <1>4, <1>6

\* What a phi reads on an edge was defined in a block that dominates the start
\* of the edge, or in that block, and the edge exists.
LEMMA PhiInputIsDominated ==
    ASSUME f \in Programs, passes_validation, NEW b, NEW s \in ids, NEW v \in phi_uses(f, b, s)
    PROVE  /\ leads(b, s)
           /\ \E q \in definitions(f, v) : f.blocks[q[1]].id \in dom[b] \cup {b}
<1>1. PICK j \in DOMAIN f.blocks : f.blocks[j].id = s /\ try_block(f, s) = f.blocks[j]
  BY BlockFields DEF ids, block_ids
<1>2. PICK p \in phis(f.blocks[j]) : \E e \in Range(p.incoming) : e[1] = b /\ e[2] = v
  BY <1>1 DEF phi_uses
<1>3. PICK e \in Range(p.incoming) : e[1] = b /\ e[2] = v
  BY <1>2
<1>4. PICK x \in DOMAIN f.blocks[j].insts : p = f.blocks[j].insts[x] /\ is_phi(p)
  BY DEF phis
<1>5. x \in 1..(Len(f.blocks[j].insts) + 1) /\ x <= Len(f.blocks[j].insts)
  BY PlacesOfBlocks
<1>6. phi_is_valid(f, dom, build_predecessors(f), f.blocks[j], p)
  BY <1>4, <1>5 DEF passes_validation, uses_are_valid
<1>7. e[1] \in build_predecessors(f)[s]
  BY <1>1, <1>3, <1>6 DEF phi_is_valid
<1>8. leads(b, s)
  BY <1>3, <1>7 DEF build_predecessors, leads, ids
<1>9. \E q \in definitions(f, v) : f.blocks[q[1]].id \in dom[b] \cup {b}
  BY <1>3, <1>6 DEF phi_is_valid
<1> QED
  BY <1>8, <1>9

\* No value is live on entry to a valid function: the blocks it is live in are
\* dominated by its definition.
LEMMA NothingLiveAtEntry ==
    ASSUME DInv, LInv, stage \in {"liveness", "graph"}
    PROVE  live_in[f.entry] = {}
<1> SUFFICES ASSUME NEW v \in live_in[f.entry] PROVE FALSE
  OBVIOUS
<1>1. f \in Programs /\ passes_validation /\ dom_done /\ f.entry \in ids
  BY BlockFields DEF LInv
<1>2. v \in values /\ f.entry \in Liveness!live_at_entry(v)
  BY <1>1, SameAnalysis DEF LInv, Liveness!NeverTooLarge
<1>3. PICK q \in places(f) : definitions(f, v) = {q}
  BY <1>1, <1>2, OneDefinition
<1> DEFINE D == f.blocks[q[1]].id
           X == {b \in ids : D \in dom[b] /\ b # D}
<1>4. /\ q[1] \in DOMAIN f.blocks /\ D \in ids
      /\ \A j \in DOMAIN f.blocks : f.blocks[j].id = D => j = q[1]
      /\ q[2] \in 1..Len(f.blocks[q[1]].insts) /\ f.blocks[q[1]].insts[q[2]].dst = v
  <2>1. q \in definitions(f, v)
    BY <1>3
  <2>2. f.blocks[q[1]].insts[q[2]].dst = v /\ q[2] \in DOMAIN f.blocks[q[1]].insts
    BY <2>1 DEF definitions
  <2>3. q[1] \in DOMAIN f.blocks
    BY <1>1, <1>3, PlacesOfBlocks
  <2> QED
    BY <1>1, <2>2, <2>3, BlockFields, PlacesOfBlocks
<1>5. \A j \in DOMAIN f.blocks : v \notin def_set(f.blocks[j]) => f.blocks[j].id # D
  BY <1>1, <1>4, PlacesOfBlocks DEF def_set
<1> HIDE DEF D
<1>6. ASSUME NEW b \in ids, needs(b, v) PROVE b \in X
  <2>1. PICK j \in DOMAIN f.blocks :
          /\ f.blocks[j].id = b
          /\ \/ v \in use_set(f.blocks[j])
             \/ v \notin def_set(f.blocks[j]) /\ feeds(b, v)
    BY <1>6 DEF needs
  <2>2. CASE v \in use_set(f.blocks[j])
    <3>1. PICK e \in 1..(Len(f.blocks[j].insts) + 1) :
            v \in used_at(f.blocks[j], e) /\ \A y \in 1..(e - 1) : f.blocks[j].insts[y].dst # v
      BY <2>2 DEF use_set
    <3>2. is_dominated(f, dom, v, j, e)
      BY <1>1, <3>1 DEF passes_validation, uses_are_valid
    <3>3. IF q[1] = j THEN q[2] < e ELSE D \in dom[f.blocks[j].id]
      BY <1>3, <3>2 DEF is_dominated, D
    <3>4. q[1] # j
      <4>1. ASSUME q[1] = j PROVE FALSE
        <5>1. q[2] < e /\ q[2] \in 1..Len(f.blocks[j].insts) /\ f.blocks[j].insts[q[2]].dst = v
          BY <1>4, <3>3, <4>1
        <5>2. Len(f.blocks[j].insts) \in Nat
          BY <1>1, PlacesOfBlocks
        <5>3. q[2] \in 1..(e - 1)
          BY <5>1, <5>2
        <5> QED
          BY <3>1, <5>1, <5>3
      <4> QED
        BY <4>1
    <3> QED
      BY <1>4, <2>1, <3>3, <3>4
  <2>3. CASE v \notin def_set(f.blocks[j]) /\ feeds(b, v)
    <3>1. PICK m \in DOMAIN f.blocks :
            f.blocks[m].id = b /\ \E s \in successors(f.blocks[m].term) : v \in phi_uses(f, b, s)
      BY <2>3 DEF feeds
    <3>2. PICK s \in successors(f.blocks[m].term) : v \in phi_uses(f, b, s)
      BY <3>1
    <3>3. D \in dom[b] \cup {b}
      BY <1>1, <1>3, <3>1, <3>2, BlockFields, PhiInputIsDominated DEF D
    <3> QED
      BY <1>5, <2>1, <2>3, <3>3
  <2> QED
    BY <2>1, <2>2, <2>3
<1>7. ASSUME NEW s \in ids, NEW b \in ids, survives(s, b, v), s \in X PROVE b \in X
  <2>1. PICK j \in DOMAIN f.blocks : /\ f.blocks[j].id = b /\ v \notin def_set(f.blocks[j])
                                     /\ s \in successors(f.blocks[j].term)
    BY <1>7 DEF survives
  <2>2. leads(b, s) /\ b # D
    BY <1>5, <2>1 DEF leads
  <2>3. s # f.entry /\ D \in dom[s] /\ s # D
    BY <1>7 DEF DInv
  <2>4. dom[s] = Dominance!next_dom(s)
    BY <1>1, <2>3 DEF DInv, fixed
  <2>5. D \in dom[b]
    BY <2>2, <2>3, <2>4, NextDom
  <2> QED
    BY <2>2, <2>5
<1>8. f.entry \notin X /\ X \in SUBSET ids
  BY DEF DInv
<1>9. live_closed(X, v)
  BY <1>6, <1>7 DEF live_closed
<1> HIDE DEF X
<1> QED
  BY <1>1, <1>2, <1>8, <1>9, LiveSets

\* At the end every instruction has been passed.
LEMMA AllPassed ==
    ASSUME f \in Programs, WInv, stage = "graph", Graph!done
    PROVE  /\ nodes = UNION {mentioned[p] : p \in places(f)}
           /\ edges = UNION {linked[p] : p \in places(f)}
<1>1. k > Len(f.blocks) /\ k \in 1..(Len(f.blocks) + 1) /\ Len(f.blocks) \in Nat
  BY BlockFields DEF WInv, Graph!done
<1>2. ASSUME NEW p \in places(f) PROVE p[1] < k
  <2>1. p[1] \in 1..Len(f.blocks)
    BY BlockFields, PlacesOfBlocks
  <2> QED
    BY <1>1, <2>1
<1>3. passed = places(f)
  BY <1>2 DEF passed
<1> QED
  BY <1>3 DEF WInv

\* A definition is linked with everything live after it.
LEMMA DefinitionIsLinked ==
    ASSUME f \in Programs, WInv, stage = "graph", Graph!done,
           NEW x \in DOMAIN f.blocks, NEW j \in 1..Len(f.blocks[x].insts),
           NEW w \in live_at[<<x, j + 1>>], w # f.blocks[x].insts[j].dst
    PROVE  /\ <<f.blocks[x].insts[j].dst, w>> \in edges
           /\ <<w, f.blocks[x].insts[j].dst>> \in edges
<1> DEFINE p == <<x, j>>
           d == f.blocks[x].insts[j].dst
<1>1. Len(f.blocks[x].insts) \in Nat /\ j \in 1..(Len(f.blocks[x].insts) + 1)
  BY PlacesOfBlocks
<1>2. p \in places(f) /\ ~is_term(p) /\ dst_at(p) = d
  BY <1>1, PlacesOfBlocks DEF is_term, dst_at
<1>3. linked[p] = Graph!links(d, live_at[<<x, j + 1>>])
  BY <1>2 DEF linked
<1>4. <<d, w>> \in linked[p] /\ <<w, d>> \in linked[p]
  <2>1. \A S : w \in S => /\ <<d, w>> \in UNION {{<<d, z>>, <<z, d>>} : z \in S}
                         /\ <<w, d>> \in UNION {{<<d, z>>, <<z, d>>} : z \in S}
    OBVIOUS
  <2>2. w \in live_at[<<x, j + 1>>] \ {d}
    OBVIOUS
  <2> HIDE DEF p, d
  <2> QED
    BY ONLY <1>3, <2>1, <2>2 DEF Graph!links
<1> HIDE DEF p, d
<1>5. <<d, w>> \in edges /\ <<w, d>> \in edges
  BY <1>2, <1>4, AllPassed
<1> QED
  BY <1>5 DEF d

\* The sets liveness has left, at the ends of a block.
LEMMA LiveAtEnds ==
    ASSUME f \in Programs, LInv, stage = "graph", NEW x \in DOMAIN f.blocks
    PROVE  /\ live_in[f.blocks[x].id] = live_at[<<x, 1>>]
           /\ live_out[f.blocks[x].id] \subseteq live_at[<<x, Len(f.blocks[x].insts) + 1>>]
           /\ \A s \in successors(f.blocks[x].term) : live_in[s] \subseteq live_out[f.blocks[x].id]
<1>1. /\ f.blocks[x].id \in ids /\ try_block(f, f.blocks[x].id) = f.blocks[x]
      /\ successors(f.blocks[x].term) \subseteq ids
  BY BlockFields
<1>2. ids \subseteq live_fixed /\ passes_validation
  BY DEF LInv
<1>3. /\ live_out[f.blocks[x].id] = live_out_of(f, live_in, f.blocks[x])
      /\ live_in[f.blocks[x].id] = live_in_of(f.blocks[x], live_out[f.blocks[x].id])
  BY <1>1, <1>2 DEF live_fixed
<1>4. ASSUME NEW s \in successors(f.blocks[x].term), NEW v \in live_in[s]
      PROVE  v \in live_out[f.blocks[x].id]
  <2>1. s \in ids /\ live_in[s] = live_in_of(try_block(f, s), live_out[s])
    BY <1>1, <1>2 DEF live_fixed
  <2>2. v \notin phi_defs(f, s)
    BY <1>2, <1>4, <2>1, UsesAreDefined DEF live_in_of
  <2>3. v \in (live_in[s] \ phi_defs(f, s)) \cup phi_uses(f, f.blocks[x].id, s)
    BY <2>2
  <2> QED
    BY <1>3, <2>3 DEF live_out_of
<1>5. live_in[f.blocks[x].id] = live_at[<<x, 1>>]
  BY <1>3, LiveSteps
<1>6. live_out[f.blocks[x].id] \subseteq live_at[<<x, Len(f.blocks[x].insts) + 1>>]
  BY LiveSteps
<1> QED
  BY <1>4, <1>5, <1>6

\* Two values without an edge that are live together were live together at
\* the start of the function, where nothing is live.
LEMMA TogetherIsLinked ==
    ASSUME DInv, LInv, WInv, stage = "graph", Graph!done,
           NEW x \in DOMAIN f.blocks, NEW j \in 1..(Len(f.blocks[x].insts) + 1),
           NEW v \in live_at[<<x, j>>], NEW w \in live_at[<<x, j>>], v # w
    PROVE  <<v, w>> \in edges
<1> SUFFICES ASSUME <<v, w>> \notin edges PROVE FALSE
  OBVIOUS
<1> DEFINE both(y, m) == v \in live_at[<<y, m>>] /\ w \in live_at[<<y, m>>]
           Bad == {b \in ids : v \in live_in[b] /\ w \in live_in[b]}
<1>1. f \in Programs /\ f.entry \in ids
  BY BlockFields DEF LInv
<1>2. ASSUME NEW y \in DOMAIN f.blocks, NEW m \in 1..Len(f.blocks[y].insts), both(y, m + 1)
      PROVE  both(y, m)
  <2>1. f.blocks[y].insts[m].dst # v /\ f.blocks[y].insts[m].dst # w
    BY <1>1, <1>2, DefinitionIsLinked
  <2>2. live_at[<<y, m>>] =
          (live_at[<<y, m + 1>>] \ {f.blocks[y].insts[m].dst}) \cup used_at(f.blocks[y], m)
    BY <1>1, LiveSteps
  <2> QED
    BY <1>2, <2>1, <2>2
<1>3. ASSUME NEW y \in DOMAIN f.blocks, NEW m \in 1..(Len(f.blocks[y].insts) + 1), both(y, m)
      PROVE  f.blocks[y].id \in Bad
  <2> DEFINE n == Len(f.blocks[y].insts)
             T == {z \in Nat : z <= n /\ both(y, z + 1) => both(y, 1)}
  <2>1. n \in Nat
    BY <1>1, PlacesOfBlocks
  <2> HIDE DEF n, both
  <2>2. 0 \in T
    OBVIOUS
  <2>3. ASSUME NEW z \in T PROVE z + 1 \in T
    <3>1. ASSUME z + 1 <= n, both(y, z + 1 + 1) PROVE both(y, 1)
      <4>1. z \in Nat /\ z <= n /\ z + 1 \in 1..n
        BY <2>1, <3>1
      <4>2. both(y, z + 1)
        BY <1>2, <3>1, <4>1 DEF n
      <4> QED
        BY <4>1, <4>2
    <3> QED
      BY <3>1
  <2>4. T = Nat
    <3>1. T \in SUBSET Nat
      OBVIOUS
    <3> HIDE DEF T
    <3> QED
      BY <2>2, <2>3, <3>1, SetInduction
  <2>5. m - 1 \in Nat /\ m - 1 <= n /\ (m - 1) + 1 = m
    BY <1>3, <2>1 DEF n
  <2>6. m - 1 \in T
    <3> HIDE DEF T
    <3> QED
      BY <2>4, <2>5
  <2>7. both(y, 1)
    BY <1>3, <2>5, <2>6
  <2>8. f.blocks[y].id \in ids
    BY <1>1, BlockFields
  <2> QED
    BY <1>1, <2>7, <2>8, LiveAtEnds DEF both
<1>4. ASSUME NEW a \in ids, NEW b \in ids, leads(a, b), b \in Bad PROVE a \in Bad
  <2>1. PICK y \in DOMAIN f.blocks : f.blocks[y].id = a /\ b \in successors(f.blocks[y].term)
    BY <1>4 DEF leads
  <2>2. both(y, Len(f.blocks[y].insts) + 1)
    BY <1>1, <1>4, <2>1, LiveAtEnds
  <2>3. Len(f.blocks[y].insts) + 1 \in 1..(Len(f.blocks[y].insts) + 1)
    BY <1>1, PlacesOfBlocks
  <2> HIDE DEF both, Bad
  <2> QED
    BY <1>3, <2>1, <2>2, <2>3
<1>5. f.blocks[x].id \in Bad
  BY <1>3
<1>6. f.entry \notin Bad
  BY NothingLiveAtEntry
<1> DEFINE X == ids \ Bad
<1>7. X = ids
  <2> HIDE DEF Bad
  <2>1. X \in SUBSET ids /\ f.entry \in X
    BY <1>1, <1>6
  <2>2. \A a, b \in ids : leads(a, b) /\ a \in X => b \in X
    BY <1>4
  <2> HIDE DEF X
  <2> QED
    BY <1>1, <2>1, <2>2, ReachesAll
<1> QED
  BY <1>1, <1>5, <1>7, BlockFields

-----------------------------------------------------------------------------
(* The intervals.                                                          *)

liveness == [live_in |-> live_in, live_out |-> live_out]
touched == [p \in places(f) |-> touched_at(f, liveness, p)]
intervals == intervals_from(f, liveness)

\* Positions count instructions: they are bounded, and grow along a block.
LEMMA Positions ==
    ASSUME f \in Programs
    PROVE  /\ Cardinality(places(f)) \in Nat
           /\ \A p \in places(f) : /\ position(f, p) \in Nat
                                   /\ position(f, p) <= Cardinality(places(f))
           /\ \A p, q \in places(f) : p[1] = q[1] /\ p[2] <= q[2]
                                         => position(f, p) <= position(f, q)
BY WellFormed, PositionsOf

\* The interval of a value spans the positions it is touched at.
LEMMA SpansPositions ==
    ASSUME f \in Programs, NEW v, NEW p \in places(f), v \in touched[p]
    PROVE  /\ v \in DOMAIN intervals
           /\ intervals[v].start \in Nat /\ intervals[v].end \in Nat
           /\ intervals[v].start <= position(f, p) /\ position(f, p) <= intervals[v].end
BY WellFormed, IntervalSpans DEF touched, intervals

\* What is touched where.
LEMMA Touches ==
    ASSUME f \in Programs, NEW p \in places(f), NEW v
    PROVE  v \in touched[p] <=>
             \/ v \in used_at(f.blocks[p[1]], p[2])
             \/ /\ is_term(p)
                /\ \/ \E s \in ids : v \in phi_uses(f, f.blocks[p[1]].id, s)
                   \/ v \in live_out[f.blocks[p[1]].id]
             \/ ~is_term(p) /\ v = dst_at(p)
             \/ p[2] = 1 /\ v \in live_in[f.blocks[p[1]].id]
<1> DEFINE E == UNION {phi_uses(f, f.blocks[p[1]].id, s) : s \in ids}
<1>1. touched[p] =
        used_at(f.blocks[p[1]], p[2])
          \cup (IF is_term(p) THEN E \cup live_out[f.blocks[p[1]].id] ELSE {dst_at(p)})
          \cup (IF p[2] = 1 THEN live_in[f.blocks[p[1]].id] ELSE {})
  BY DEF touched, touched_at, liveness, is_term, dst_at, ids
<1>2. v \in E <=> \E s \in ids : v \in phi_uses(f, f.blocks[p[1]].id, s)
  OBVIOUS
<1> HIDE DEF E
<1> QED
  BY <1>1, <1>2

\* A value live before an instruction of a block is touched at it or after it,
\* and before it too unless the block has just begun.
LEMMA LiveIsTouched ==
    ASSUME f \in Programs, LInv, stage = "graph", NEW x \in DOMAIN f.blocks,
           NEW j \in 1..(Len(f.blocks[x].insts) + 1), NEW v \in live_at[<<x, j>>]
    PROVE  /\ \E e \in j..(Len(f.blocks[x].insts) + 1) : v \in touched[<<x, e>>]
           /\ \E e \in 1..j : v \in touched[<<x, e>>] /\ (e = j => e = 1)
<1> DEFINE n == Len(f.blocks[x].insts)
<1>1. n \in Nat /\ \A e \in 1..(n + 1) : <<x, e>> \in places(f)
  BY PlacesOfBlocks
<1>2. n + 1 \in 1..(n + 1) /\ 1 \in 1..(n + 1)
  BY <1>1
<1>3. \E e \in j..(n + 1) : v \in touched[<<x, e>>]
  <2>1. CASE \E e \in j..(n + 1) : v \in used_at(f.blocks[x], e)
    <3>1. PICK e \in j..(n + 1) : v \in used_at(f.blocks[x], e)
      BY <2>1
    <3>2. e \in 1..(n + 1)
      BY <1>1
    <3>3. <<x, e>> \in places(f) /\ <<x, e>>[1] = x /\ <<x, e>>[2] = e
      BY <1>1, <3>2
    <3>4. v \in touched[<<x, e>>]
      BY <3>1, <3>3, Touches
    <3> QED
      BY <3>4
  <2>2. CASE v \in live_out[f.blocks[x].id]
    <3> DEFINE p == <<x, n + 1>>
    <3>1. p \in places(f) /\ p[1] = x /\ is_term(p)
      BY <1>1, <1>2 DEF is_term
    <3> HIDE DEF p
    <3>2. v \in touched[p]
      BY <2>2, <3>1, Touches
    <3>3. n + 1 \in j..(n + 1)
      BY <1>1
    <3> QED
      BY <3>2, <3>3 DEF p
  <2> QED
    BY <2>1, <2>2, LiveBefore
<1> DEFINE T == {z \in Nat : z <= n /\ v \in live_at[<<x, z + 1>>] =>
                    \E e \in 1..(z + 1) : v \in touched[<<x, e>>] /\ (e = z + 1 => e = 1)}
<1>4. 0 \in T
  <2>1. ASSUME v \in live_at[<<x, 1>>] PROVE v \in touched[<<x, 1>>]
    <3> DEFINE p == <<x, 1>>
    <3>1. p \in places(f) /\ p[1] = x /\ p[2] = 1 /\ v \in live_in[f.blocks[x].id]
      BY <1>1, <1>2, <2>1, LiveAtEnds
    <3> HIDE DEF p
    <3>2. v \in touched[p]
      BY <3>1, Touches
    <3> QED
      BY <3>2 DEF p
  <2>2. 0 + 1 = 1 /\ 1 \in 1..1 /\ 0 \in Nat
    OBVIOUS
  <2>3. v \in live_at[<<x, 0 + 1>>] =>
            \E e \in 1..(0 + 1) : v \in touched[<<x, e>>] /\ (e = 0 + 1 => e = 1)
    BY <2>1, <2>2, Zenon
  <2> QED
    BY <2>2, <2>3
<1>5. ASSUME NEW z \in T PROVE z + 1 \in T
  <2>1. ASSUME z + 1 <= n, v \in live_at[<<x, z + 1 + 1>>]
        PROVE  \E e \in 1..(z + 1) : v \in touched[<<x, e>>]
    <3>1. z \in Nat /\ z <= n /\ z + 1 \in 1..n /\ z + 1 \in 1..(z + 1) /\ z + 1 \in 1..(n + 1)
      BY <1>1, <2>1
    <3>2. CASE v = f.blocks[x].insts[z + 1].dst
      <4> DEFINE p == <<x, z + 1>>
      <4>1. p \in places(f) /\ ~is_term(p) /\ dst_at(p) = v
        <5>1. p \in places(f)
          BY <1>1, <3>1
        <5>2. z + 1 # n + 1
          BY ONLY <1>1, <3>1
        <5> QED
          BY <3>2, <5>1, <5>2 DEF is_term, dst_at
      <4> HIDE DEF p
      <4>2. v \in touched[p]
        BY <4>1, Touches
      <4> QED
        BY <3>1, <4>2 DEF p
    <3>3. CASE v # f.blocks[x].insts[z + 1].dst
      <4>1. live_at[<<x, z + 1>>] =
              (live_at[<<x, z + 1 + 1>>] \ {f.blocks[x].insts[z + 1].dst})
                \cup used_at(f.blocks[x], z + 1)
        BY <1>1, <3>1, LiveSteps
      <4>2. v \in live_at[<<x, z + 1>>]
        BY <2>1, <3>3, <4>1
      <4>3. PICK e \in 1..(z + 1) : v \in touched[<<x, e>>]
        BY <3>1, <4>2
      <4> QED
        BY <4>3
    <3> QED
      BY <3>2, <3>3
  <2>2. ASSUME z + 1 <= n, v \in live_at[<<x, z + 1 + 1>>]
        PROVE  \E e \in 1..(z + 1 + 1) :
                  v \in touched[<<x, e>>] /\ (e = z + 1 + 1 => e = 1)
    <3>1. PICK e \in 1..(z + 1) : v \in touched[<<x, e>>]
      BY <2>1, <2>2
    <3>2. z \in Nat /\ e \in 1..(z + 1 + 1) /\ e # z + 1 + 1
      OBVIOUS
    <3> QED
      BY <3>1, <3>2
  <2>3. z + 1 \in Nat
    OBVIOUS
  <2> QED
    BY <2>2, <2>3
<1>6. T = Nat
  <2>1. T \in SUBSET Nat
    OBVIOUS
  <2> HIDE DEF T
  <2> QED
    BY <1>4, <1>5, <2>1, SetInduction
<1>7. j - 1 \in Nat /\ j - 1 <= n /\ (j - 1) + 1 = j
  BY <1>1
<1>8. j - 1 \in T
  <2> HIDE DEF T
  <2> QED
    BY <1>6, <1>7
<1>9. \E e \in 1..j : v \in touched[<<x, e>>] /\ (e = j => e = 1)
  BY <1>7, <1>8
<1> QED
  BY <1>3, <1>9

\* Intervals with a position in common overlap.
LEMMA CommonPosition ==
    ASSUME NEW a, NEW b, NEW t \in Nat,
           a.start \in Nat, a.end \in Nat, b.start \in Nat, b.end \in Nat,
           a.start <= t, t <= a.end, b.start <= t, t <= b.end
    PROVE  overlaps(a, b) /\ overlaps(b, a)
BY DEF overlaps

\* Linked values have intervals that overlap.
LEMMA LinkedOverlap ==
    ASSUME f \in Programs, LInv, stage = "graph", NEW x \in DOMAIN f.blocks,
           NEW j \in 1..Len(f.blocks[x].insts), NEW w \in live_at[<<x, j + 1>>]
    PROVE  LET d == f.blocks[x].insts[j].dst IN
           /\ overlaps(intervals[d], intervals[w])
           /\ overlaps(intervals[w], intervals[d])
<1> DEFINE n == Len(f.blocks[x].insts)
           d == f.blocks[x].insts[j].dst
           p == <<x, j>>
<1>1. n \in Nat /\ j + 1 \in 1..(n + 1) /\ j \in 1..(n + 1)
  BY PlacesOfBlocks
<1>2. p \in places(f) /\ p[1] = x /\ p[2] = j /\ ~is_term(p) /\ dst_at(p) = d
  BY <1>1, PlacesOfBlocks DEF is_term, dst_at
<1>3. PICK a \in 1..(j + 1) : w \in touched[<<x, a>>] /\ (a = j + 1 => a = 1)
  BY <1>1, LiveIsTouched
<1>4. PICK b \in (j + 1)..(n + 1) : w \in touched[<<x, b>>]
  BY <1>1, LiveIsTouched
<1>5. a \in 1..(n + 1) /\ b \in 1..(n + 1) /\ a <= j /\ j <= b
  BY <1>1, <1>3, <1>4
<1>6. <<x, a>> \in places(f) /\ <<x, b>> \in places(f)
  BY <1>5, PlacesOfBlocks
<1> DEFINE pa == <<x, a>>
           pb == <<x, b>>
<1>7. /\ pa[1] = p[1] /\ pa[2] <= p[2]
      /\ p[1] = pb[1] /\ p[2] <= pb[2]
  BY <1>5
<1>8. pa \in places(f) /\ pb \in places(f) /\ w \in touched[pa] /\ w \in touched[pb]
  BY <1>3, <1>4, <1>6
<1> HIDE DEF p, pa, pb, d
<1>9. d \in touched[p]
  BY <1>2, Touches
<1>10. /\ position(f, pa) <= position(f, p) /\ position(f, p) <= position(f, pb)
       /\ position(f, pa) \in Nat /\ position(f, p) \in Nat /\ position(f, pb) \in Nat
  BY <1>2, <1>7, <1>8, Positions
<1>11. /\ intervals[d].start \in Nat /\ intervals[d].end \in Nat
       /\ intervals[d].start <= position(f, p) /\ position(f, p) <= intervals[d].end
  BY <1>2, <1>9, SpansPositions
<1>12. /\ intervals[w].start \in Nat /\ intervals[w].end \in Nat
       /\ intervals[w].start <= position(f, pa)
       /\ position(f, pb) <= intervals[w].end
  BY <1>8, SpansPositions
<1>13. intervals[w].start <= position(f, p) /\ position(f, p) <= intervals[w].end
  BY <1>10, <1>12
<1>14. overlaps(intervals[d], intervals[w]) /\ overlaps(intervals[w], intervals[d])
  BY <1>10, <1>11, <1>12, <1>13, CommonPosition
<1> QED
  BY <1>14 DEF d

\* The graph and the intervals are about the same values.
LEMMA SameValues ==
    ASSUME f \in Programs, LInv, WInv, stage = "graph", Graph!done
    PROVE  nodes = DOMAIN intervals
<1>1. DOMAIN intervals = UNION {touched_at(f, liveness, p) : p \in places(f)}
  BY DEF intervals, intervals_from
<1>2. \A v : v \in DOMAIN intervals <=> \E p \in places(f) : v \in touched[p]
  <2>1. \A p \in places(f) : touched[p] = touched_at(f, liveness, p)
    BY DEF touched
  <2> QED
    BY <1>1, <2>1
<1>3. \A v : v \in nodes <=> \E p \in places(f) : v \in mentioned[p]
  BY AllPassed
<1>4. ASSUME NEW p \in places(f), NEW v
      PROVE  v \in mentioned[p] <=>
               \/ v \in used_at(f.blocks[p[1]], p[2])
               \/ is_term(p) /\ v \in live_out[f.blocks[p[1]].id]
               \/ ~is_term(p) /\ v = dst_at(p)
  BY DEF mentioned
<1>5. ASSUME NEW p \in places(f), NEW v \in touched[p] PROVE v \in nodes
  <2> DEFINE x == p[1]
             n == Len(f.blocks[x].insts)
             q == <<x, n + 1>>
  <2>1. x \in DOMAIN f.blocks /\ n \in Nat /\ f.blocks[x].id \in ids
    BY BlockFields, PlacesOfBlocks
  <2>2. q \in places(f) /\ is_term(q) /\ q[1] = x
    <3>1. n + 1 \in 1..(n + 1)
      BY <2>1
    <3> QED
      BY <2>1, <3>1, PlacesOfBlocks DEF is_term
  <2> HIDE DEF x, n, q
  <2>3. ASSUME v \in live_out[f.blocks[x].id] PROVE v \in nodes
    BY <1>3, <1>4, <2>2, <2>3
  <2>4. CASE v \in mentioned[p]
    BY <1>3, <2>4
  <2>5. ASSUME NEW s \in ids, v \in phi_uses(f, f.blocks[x].id, s) PROVE v \in nodes
    <3>1. passes_validation /\ ids \subseteq live_fixed
      BY DEF LInv
    <3>2. leads(f.blocks[x].id, s)
      BY <2>5, <3>1, PhiInputIsDominated
    <3>3. s \in successors(f.blocks[x].term)
      BY <2>1, <3>2, BlockFields DEF leads
    <3>4. live_out[f.blocks[x].id] = live_out_of(f, live_in, f.blocks[x])
      BY <2>1, <3>1, BlockFields DEF live_fixed
    <3>5. v \in live_out[f.blocks[x].id]
      BY <2>5, <3>3, <3>4 DEF live_out_of
    <3> QED
      BY <2>3, <3>5
  <2>6. ASSUME v \in live_in[f.blocks[x].id] PROVE v \in nodes
    <3>1. v \in live_at[<<x, 1>>]
      BY <2>1, <2>6, LiveAtEnds
    <3>2. 1 \in 1..(n + 1)
      BY <2>1
    <3>3. \/ \E e \in 1..(n + 1) : v \in used_at(f.blocks[x], e)
          \/ v \in live_out[f.blocks[x].id]
      BY <2>1, <3>1, <3>2, LiveBefore DEF n
    <3>4. ASSUME NEW e \in 1..(n + 1), v \in used_at(f.blocks[x], e) PROVE v \in nodes
      <4> DEFINE r == <<x, e>>
      <4>1. r \in places(f) /\ r[1] = x /\ r[2] = e
        BY <2>1, PlacesOfBlocks DEF n
      <4> HIDE DEF r
      <4> QED
        BY <1>3, <1>4, <3>4, <4>1
    <3> QED
      BY <2>3, <3>3, <3>4
  <2> QED
    BY <1>4, <2>3, <2>4, <2>5, <2>6, Touches DEF x
<1>6. ASSUME NEW p \in places(f), NEW v \in mentioned[p] PROVE v \in touched[p]
  BY <1>4, Touches
<1> QED
  BY <1>2, <1>3, <1>5, <1>6

\* Every edge was added at a definition.
LEMMA EdgesOverlap ==
    ASSUME f \in Programs, LInv, WInv, stage = "graph", Graph!done, NEW e \in edges
    PROVE  overlaps(intervals[e[1]], intervals[e[2]])
<1>1. PICK p \in places(f) : e \in linked[p]
  BY AllPassed
<1> DEFINE x == p[1]
           j == p[2]
<1>2. ~is_term(p) /\ e \in Graph!links(dst_at(p), live_at[<<x, j + 1>>])
  BY <1>1 DEF linked
<1>3. x \in DOMAIN f.blocks /\ j \in 1..Len(f.blocks[x].insts)
  <2>1. /\ x \in DOMAIN f.blocks /\ j \in 1..(Len(f.blocks[x].insts) + 1)
        /\ Len(f.blocks[x].insts) \in Nat /\ j # Len(f.blocks[x].insts) + 1
    BY <1>2, PlacesOfBlocks DEF is_term
  <2> QED
    BY <2>1
<1>4. PICK w \in live_at[<<x, j + 1>>] : e = <<dst_at(p), w>> \/ e = <<w, dst_at(p)>>
  BY <1>2 DEF Graph!links
<1>5. /\ overlaps(intervals[dst_at(p)], intervals[w])
      /\ overlaps(intervals[w], intervals[dst_at(p)])
  BY <1>3, <1>4, LinkedOverlap DEF dst_at
<1> QED
  BY <1>4, <1>5

-----------------------------------------------------------------------------
(* One pass per block.                                                     *)

\* The loop of compute_dominators ends with the result of the operator: both
\* are fixed, and the operator keeps as much as a fixed map can.
LEMMA DominatorsAgree ==
    ASSUME DInv, dom_done
    PROVE  dom = compute_dominators(f)
<1> DEFINE C == compute_dominators(f)
<1>1. /\ f \in Programs /\ has_valid_blocks(f) /\ ids = block_ids(f)
      /\ dom \in dom_maps(f) /\ dom_fixed(f, dom)
  BY LoopEndsFixed, WellFormed DEF DInv, ids
<1>2. /\ C \in dom_maps(f) /\ dom_fixed(f, C)
      /\ \A b \in ids : dom[b] \subseteq C[b]
  BY <1>1, DominatorsAreFixed
<1> HIDE DEF C
<1>3. dom \in [ids -> SUBSET ids] /\ C \in [ids -> SUBSET ids]
  BY <1>1, <1>2 DEF dom_maps
<1>4. ASSUME NEW b \in ids, NEW d \in C[b] PROVE d \in dom[b]
  <2>1. d \in ids
    BY <1>3
  <2>2. b \in Dominance!dominated_by(d)
    BY <1>1, <1>2, <2>1, FixedIsExact
  <2>3. Dominance!block_ids(f) = ids
    BY DEF Dominance!block_ids, ids, block_ids
  <2> QED
    BY <2>1, <2>2, <2>3 DEF DInv, Dominance!NeverTooSmall
<1>5. \A b \in ids : dom[b] = C[b]
  BY <1>2, <1>4
<1>6. dom = C
  BY <1>3, <1>5
<1> QED
  BY <1>6 DEF C

\* A pair of maps in which there is nothing to change has every live value.
LEMMA StableIsClosed ==
    ASSUME f \in Programs, passes_validation, NEW l, live_stable(f, l), NEW v
    PROVE  live_closed(entered(f, l, v), v)
<1>1. ids = block_ids(f)
  BY DEF ids
<1>2. ASSUME NEW j \in DOMAIN f.blocks
      PROVE  v \in l.live_in[f.blocks[j].id] <=>
               \/ v \in use_set(f.blocks[j])
               \/ /\ v \notin def_set(f.blocks[j])
                  /\ \E s \in successors(f.blocks[j].term) :
                        \/ v \in l.live_in[s] /\ v \notin phi_defs(f, s)
                        \/ v \in phi_uses(f, f.blocks[j].id, s)
  <2>1. /\ l.live_out[f.blocks[j].id] = live_out_of(f, l.live_in, f.blocks[j])
        /\ l.live_in[f.blocks[j].id] = live_in_of(f.blocks[j], l.live_out[f.blocks[j].id])
    BY DEF live_stable
  <2>2. v \in l.live_in[f.blocks[j].id] <=>
          \/ v \in use_set(f.blocks[j])
          \/ v \in live_out_of(f, l.live_in, f.blocks[j]) /\ v \notin def_set(f.blocks[j])
    BY <2>1 DEF live_in_of
  <2> QED
    BY <2>2, LiveOut
<1>3. ASSUME NEW b \in ids, needs(b, v) PROVE v \in l.live_in[b]
  <2>1. PICK j \in DOMAIN f.blocks :
          /\ f.blocks[j].id = b
          /\ \/ v \in use_set(f.blocks[j])
             \/ v \notin def_set(f.blocks[j]) /\ feeds(b, v)
    BY <1>3 DEF needs
  <2>2. CASE v \in use_set(f.blocks[j])
    BY <1>2, <2>1, <2>2
  <2>3. CASE v \notin def_set(f.blocks[j]) /\ feeds(b, v)
    <3>1. PICK m \in DOMAIN f.blocks :
            /\ f.blocks[m].id = b
            /\ \E s \in successors(f.blocks[m].term) : v \in phi_uses(f, b, s)
      BY <2>3 DEF feeds
    <3>2. m = j
      BY <2>1, <3>1, BlockFields
    <3> QED
      BY <1>2, <2>1, <2>3, <3>1, <3>2
  <2> QED
    BY <2>1, <2>2, <2>3
<1>4. ASSUME NEW s \in ids, NEW b \in ids, survives(s, b, v), v \in l.live_in[s]
      PROVE  v \in l.live_in[b]
  <2>1. PICK m \in DOMAIN f.blocks : f.blocks[m].id = s
    BY DEF ids, block_ids
  <2>2. try_block(f, s) = f.blocks[m]
    BY <2>1, BlockFields
  <2>3. v \notin phi_defs(f, s)
    BY <1>2, <1>4, <2>1, <2>2, UsesAreDefined
  <2> QED
    BY <1>2, <1>4, <2>3 DEF survives
<1> QED
  BY <1>1, <1>3, <1>4 DEF live_closed, entered

\* The loop of compute_liveness ends with the result of the operator: both
\* are stable, and what is held live is read on some path.
LEMMA LivenessAgrees ==
    ASSUME LInv, stage = "liveness", live_done
    PROVE  liveness = compute_liveness(f)
<1> DEFINE C == compute_liveness(f)
<1>1. /\ f \in Programs /\ has_valid_blocks(f) /\ ids = block_ids(f) /\ ids \subseteq live_fixed
      /\ passes_validation /\ definitions_are_valid(f) /\ uses_are_valid(f, dom)
  BY WellFormed DEF LInv, ids, passes_validation
<1>2. is_live_map(f, liveness)
  BY <1>1 DEF LInv, is_live_map, liveness
<1>3. live_stable(f, liveness)
  <2>1. ASSUME NEW j \in DOMAIN f.blocks
        PROVE  /\ live_out[f.blocks[j].id] = live_out_of(f, live_in, f.blocks[j])
               /\ live_in[f.blocks[j].id] = live_in_of(f.blocks[j], live_out[f.blocks[j].id])
    <3>1. f.blocks[j].id \in live_fixed /\ try_block(f, f.blocks[j].id) = f.blocks[j]
      BY <1>1, BlockFields
    <3> QED
      BY <3>1 DEF live_fixed
  <2> QED
    BY <2>1 DEF live_stable, liveness
<1>4. defines_uses(f)
  BY <1>1, ValidDefinesUses
<1>5. /\ is_live_map(f, C) /\ live_stable(f, C)
      /\ \A v : entered(f, C, v) \subseteq entered(f, liveness, v)
  BY <1>1, <1>2, <1>3, <1>4, LivenessIsFixed
<1> HIDE DEF C
<1>6. ASSUME NEW v, NEW b \in ids, v \in live_in[b] PROVE v \in C.live_in[b]
  <2>1. Liveness!block_ids(f) = ids
    BY SameAnalysis
  <2>2. b \in Liveness!live_at_entry(v)
    BY <1>6, <2>1 DEF LInv, Liveness!NeverTooLarge
  <2>3. entered(f, C, v) \in SUBSET ids /\ live_closed(entered(f, C, v), v)
    BY <1>1, <1>5, StableIsClosed DEF entered
  <2>4. b \in entered(f, C, v)
    BY <1>1, <2>2, <2>3, LiveSets
  <2> QED
    BY <2>4 DEF entered
<1>7. ASSUME NEW b \in ids PROVE C.live_in[b] = live_in[b]
  <2>1. \A v : v \in C.live_in[b] => v \in live_in[b]
    BY <1>1, <1>5 DEF entered, liveness
  <2> QED
    BY <1>6, <2>1
<1>8. C.live_in = live_in
  BY <1>1, <1>2, <1>5, <1>7 DEF is_live_map, liveness
<1>9. ASSUME NEW b \in ids PROVE C.live_out[b] = live_out[b]
  <2>1. PICK j \in DOMAIN f.blocks : f.blocks[j].id = b
    BY DEF ids, block_ids
  <2> QED
    BY <1>3, <1>5, <1>8, <2>1 DEF live_stable, liveness
<1>10. C.live_out = live_out
  BY <1>1, <1>2, <1>5, <1>9 DEF is_live_map, liveness
<1>11. C = liveness
  BY <1>5, <1>8, <1>10 DEF is_live_map, liveness
<1> QED
  BY <1>11 DEF C

-----------------------------------------------------------------------------
(* The theorems.                                                           *)

\* The invariants of the two loops and of the walk hold throughout the
\* analyses.
THEOREM AnalysesInvariant == Spec => [](DInv /\ LInv /\ WInv)
<1>1. DInv /\ LInv /\ [Next]_vars => DInv' /\ LInv'
  <2> SUFFICES ASSUME DInv, LInv, [Next]_vars PROVE DInv' /\ LInv'
    OBVIOUS
  <2>1. CASE Dominators
    <3>1. /\ stage = "dominators" /\ stage' = stage /\ UNCHANGED liveness_vars
          /\ Dominance!Visit \/ Dominance!EndPass
      BY <2>1 DEF Dominators, Dominance!Next
    <3>2. DInv'
      BY <3>1, DomVisitKeeps, DomEndPassKeeps
    <3>3. f' = f
      BY <3>1 DEF Dominance!Visit, Dominance!EndPass
    <3> QED
      BY <3>1, <3>2, <3>3, FrameLInv
  <2>2. CASE Validate
    <3>1. /\ UNCHANGED <<f, dominator_vars, liveness_vars>>
          /\ dom_done /\ stage' # "graph"
          /\ stage' = "liveness" => passes_validation
      BY <2>2 DEF Validate
    <3>2. (stage \in {"liveness", "graph"} => dom_done /\ passes_validation)'
      BY <3>1 DEF dominator_vars, passes_validation
    <3> QED
      BY <3>1, <3>2, FrameDInv, FrameLInv
  <2>3. CASE LiveValues
    <3>1. CASE Liveness!Next /\ UNCHANGED stage
      <4>1. f' = f
        BY <3>1 DEF Liveness!Next, Liveness!Visit, Liveness!EndPass
      <4>2. stage = "liveness" /\ UNCHANGED <<stage, dominator_vars>>
        BY <2>3, <3>1 DEF LiveValues
      <4>3. LInv'
        BY <3>1, <4>2, LiveVisitKeeps, LiveEndPassKeeps DEF Liveness!Next
      <4> QED
        BY <4>1, <4>2, <4>3, FrameDInv
    <3>2. CASE live_done /\ stage' = "graph" /\ UNCHANGED <<f, liveness_vars>>
      <4>1. UNCHANGED <<f, dominator_vars, liveness_vars>> /\ stage = "liveness"
        BY <2>3, <3>2 DEF LiveValues
      <4>2. (dom_done /\ passes_validation /\ live_done)'
        BY <3>2, <4>1 DEF LInv, dominator_vars, liveness_vars, passes_validation
      <4> QED
        BY <4>1, <4>2, FrameDInv, FrameLInv
    <3> QED
      BY <2>3, <3>1, <3>2 DEF LiveValues
  <2>4. CASE BuildGraph
    <3>1. /\ UNCHANGED <<f, live_out, dominator_vars, live_in, live_todo,
                         live_changed, live_done>>
          /\ stage = "graph"
      BY <2>4 DEF BuildGraph, Graph!Next, Graph!EnterBlock, Graph!Walk, Graph!LeaveBlock
    <3>2. UNCHANGED liveness_vars
      BY <3>1 DEF liveness_vars
    <3>3. (dom_done /\ passes_validation /\ live_done)'
      BY <3>1 DEF LInv, dominator_vars, passes_validation
    <3> QED
      BY <3>1, <3>2, <3>3, FrameDInv, FrameLInv
  <2>5. CASE UNCHANGED vars
    <3>1. UNCHANGED <<f, stage, dominator_vars, liveness_vars>>
      BY <2>5 DEF vars
    <3>2. /\ (stage \in {"liveness", "graph"} => dom_done /\ passes_validation)'
          /\ (stage = "graph" => live_done)'
      BY <3>1 DEF LInv, dominator_vars, liveness_vars, passes_validation
    <3> QED
      BY <3>1, <3>2, FrameDInv, FrameLInv
  <2> QED
    BY <2>1, <2>2, <2>3, <2>4, <2>5 DEF Next
<1>2. LInv /\ WInv /\ [Next]_vars => WInv'
  BY StepKeepsWInv
<1>3. Init => WInv
  BY NothingPassed DEF not_begun, Init, Dominance!Init, Graph!Init
<1> QED
  BY <1>1, <1>2, <1>3, InitDInv, InitLInv, PTL DEF Spec

\* At no moment does compute_dominators lose a dominator of a block.
THEOREM DominatorsAlwaysKept == Spec => []DominatorsAreKept
<1>1. DInv => DominatorsAreKept
  BY DEF DInv, DominatorsAreKept
<1> QED
  BY <1>1, AnalysesInvariant, PTL

\* For every function and every order of its blocks, compute_dominators ends
\* with exactly the dominators of every block.
THEOREM DominatorsComputedExactly == Spec => []DominatorsAreExact
<1>1. ASSUME DInv PROVE DominatorsAreExact
  <2> SUFFICES ASSUME dom_done, NEW d \in ids
               PROVE  Dominance!dominated_by(d) = {b \in ids : d \in dom[b]}
    BY DEF DominatorsAreExact, Dominance!DominatorsAreExact, Dominance!block_ids, ids, block_ids
  <2>1. Dominance!block_ids(f) = ids
    BY DEF Dominance!block_ids, ids, block_ids
  <2>2. Dominance!dominated_by(d) \subseteq ids
    BY <2>1 DEF Dominance!dominated_by
  <2>3. \A b \in Dominance!dominated_by(d) : d \in dom[b]
    BY <1>1, <2>1 DEF DInv, Dominance!NeverTooSmall
  <2>4. \A b \in ids : d \in dom[b] => b \in Dominance!dominated_by(d)
    BY <1>1, FixedIsExact, LoopEndsFixed DEF DInv
  <2> QED
    BY <2>2, <2>3, <2>4
<1> QED
  BY <1>1, AnalysesInvariant, PTL

\* At no moment does compute_liveness hold a value live that is dead.
THEOREM LivenessAlwaysSound == Spec => []LivenessIsSound
<1>1. LInv => LivenessIsSound
  BY DEF LInv, LivenessIsSound
<1> QED
  BY <1>1, AnalysesInvariant, PTL

\* For every valid function and every order of its blocks, compute_liveness
\* ends with exactly the live values of every block.
THEOREM LivenessComputedExactly == Spec => []LivenessIsExact
<1>1. ASSUME LInv PROVE LivenessIsExact
  <2> SUFFICES ASSUME stage = "liveness", live_done, NEW v \in values
               PROVE  /\ Liveness!live_at_entry(v) = {b \in ids : v \in live_in[b]}
                      /\ Liveness!live_at_exit(v) = {b \in ids : v \in live_out[b]}
    BY SameAnalysis DEF LivenessIsExact, Liveness!LivenessIsExact
  <2>1. f \in Programs /\ passes_validation /\ ids \subseteq live_fixed
    BY <1>1 DEF LInv
  <2>2. /\ \A b \in Liveness!live_at_entry(v) : v \in live_in[b]
        /\ \A b \in Liveness!live_at_exit(v) : v \in live_out[b]
    BY <2>1, FixedIsComplete
  <2>3. /\ Liveness!live_at_entry(v) \subseteq ids
        /\ Liveness!live_at_exit(v) \subseteq ids
    BY <2>1, LiveSets
  <2>4. \A b \in ids : /\ v \in live_in[b] => b \in Liveness!live_at_entry(v)
                       /\ v \in live_out[b] => b \in Liveness!live_at_exit(v)
    BY <1>1, SameAnalysis DEF LInv, Liveness!NeverTooLarge
  <2> QED
    BY <2>2, <2>3, <2>4
<1> QED
  BY <1>1, AnalysesInvariant, PTL

\* When build_interference_graph is done, no two values that are live at one
\* point of a valid function are missing an edge.
THEOREM LiveValuesInterfere == Spec => []LiveTogetherInterfere
<1>1. ASSUME DInv, LInv, WInv PROVE LiveTogetherInterfere
  <2> SUFFICES ASSUME stage = "graph", Graph!done, NEW x \in DOMAIN f.blocks,
                      NEW j \in 1..(Len(f.blocks[x].insts) + 1),
                      NEW v \in Graph!live_before(f.blocks[x], j),
                      NEW w \in Graph!live_before(f.blocks[x], j), v # w
               PROVE  <<v, w>> \in edges
    BY DEF LiveTogetherInterfere, Graph!LiveTogetherInterfere
  <2>1. f \in Programs
    BY <1>1 DEF LInv
  <2> DEFINE p == <<x, j>>
  <2>2. p \in places(f) /\ p[1] = x /\ p[2] = j
    BY <2>1, PlacesOfBlocks
  <2> HIDE DEF p
  <2>3. live_at[p] = Graph!live_before(f.blocks[x], j)
    BY <2>2 DEF live_at
  <2> QED
    BY <1>1, <2>3, TogetherIsLinked DEF p
<1> QED
  BY <1>1, AnalysesInvariant, PTL

\* The intervals of a valid function are about the values of its interference
\* graph, and those of values that interfere overlap.
THEOREM IntervalsAlwaysCover == Spec => []IntervalsCoverEdges
<1>1. ASSUME LInv, WInv PROVE IntervalsCoverEdges
  <2> SUFFICES ASSUME stage = "graph", Graph!done
               PROVE  /\ nodes = DOMAIN intervals
                      /\ \A e \in edges : overlaps(intervals[e[1]], intervals[e[2]])
    BY DEF IntervalsCoverEdges, intervals, liveness
  <2>1. f \in Programs
    BY <1>1 DEF LInv
  <2> QED
    BY <1>1, <2>1, SameValues, EdgesOverlap
<1> QED
  BY <1>1, AnalysesInvariant, PTL

\* The passes the operators of Analysis make, one per block, are enough for
\* every function: they end with what the loops of the code end with.
THEOREM OnePassIsAlwaysEnough == Spec => []OnePassPerBlockIsEnough
<1>1. ASSUME DInv, LInv PROVE OnePassPerBlockIsEnough
  <2>1. dom_done => dom = compute_dominators(f)
    BY <1>1, DominatorsAgree
  <2>2. stage = "liveness" /\ live_done => liveness = compute_liveness(f)
    BY <1>1, LivenessAgrees
  <2> QED
    BY <2>1, <2>2 DEF OnePassPerBlockIsEnough, liveness
<1> QED
  BY <1>1, AnalysesInvariant, PTL
-----------------------------------------------------------------------------
(* Parsing: parse accepts the well-formed texts and no others, and returns *)
(* what they say.                                                          *)

Parse == INSTANCE Parser

\* The lines of a text t that start a block, and the last line of a block.
starts_in(t) == {n \in DOMAIN t : t[n].op = "block"}
stop_in(t, n) == IF \E m \in starts_in(t) : m > n
                 THEN Min({m \in starts_in(t) : m > n}) - 1
                 ELSE Len(t)

\* The b-th of the blocks that start at the lines s of a text t goes on to the
\* next one.
last(t, s, b) == IF b < Len(s) THEN s[b + 1] - 1 ELSE Len(t)

\* It waits for its terminator when it is the last; closed: that one has its own.
open(closed, s, b) == b = Len(s) /\ ~closed

\* The number of its instructions.
size(t, closed, s, b) ==
    last(t, s, b) - s[b] - (IF open(closed, s, b) THEN 0 ELSE 1)

\* One more line, or one more place.
more(t, line) == Append(t, line)

\* The lines s are in order, and the blocks they start make up the text.
Starts(t, s) ==
    /\ s \in Seq(Nat)
    /\ \A b \in DOMAIN s : s[b] \in starts_in(t)
    /\ \A a, b \in DOMAIN s : a < b => s[a] < s[b]
    /\ \A n \in DOMAIN t : \E b \in DOMAIN s : s[b] <= n /\ n <= last(t, s, b)
    /\ t # <<>> => s # <<>> /\ s[1] = 1

\* A block is a label, instructions, and a terminator at its end.
LinesFit(t, closed, s) ==
    /\ \A b \in DOMAIN s : \A n \in s[b]..last(t, s, b) :
          /\ t[n].op = "block" <=> n = s[b]
          /\ is_terminator(t[n]) <=> n = last(t, s, b) /\ ~open(closed, s, b)
    /\ \A n \in DOMAIN t : t[n].op # "bad"

\* Every label is a block's own.
LabelsRead ==
    /\ label_to_id = [l \in labels |-> parse_block_id[l]]
    /\ \A n \in block_lines : parse_block_id[text[n].label] # NoId
    /\ \A n, m \in block_lines : text[n].label = text[m].label => n = m

\* The block being read comes after the finished ones.
block_at(b) == IF b <= Len(blocks) THEN blocks[b] ELSE current[1]

insts_of(s, b) == 1..size(text, current_terminated, s, b)

\* An instruction is as its line says; a phi may be put aside.
InstRead(s, b, j) ==
    LET line == text[s[b] + j]
    IN  \/ /\ block_at(b).insts[j] = read_as(line)
           /\ line.op = "phi" => line.incoming # <<>> /\ named(line) \subseteq labels
        \/ /\ line.op = "phi"
           /\ block_at(b).insts[j] = ConstI64(line.dst, 0)
           /\ <<b, j, line>> \in Range(pending_phis)

\* So is a terminator.
TermRead(s, b) ==
    LET line == text[last(text, s, b)]
    IN  \/ /\ line.op # "bad term"
           /\ targets(line) \subseteq labels
           /\ block_at(b).term = ends_as(line)
        \/ <<b, line>> \in Range(pending_terms)

BlockRead(s, b) ==
    /\ block_at(b) = [id |-> parse_block_id[text[s[b]].label],
                      insts |-> block_at(b).insts, term |-> block_at(b).term]
    /\ block_at(b).insts = [j \in insts_of(s, b) |-> block_at(b).insts[j]]
    /\ \A j \in insts_of(s, b) : InstRead(s, b, j)
    /\ ~open(current_terminated, s, b) => TermRead(s, b)

BlocksRead(s) ==
    /\ blocks \in Seq(Range(blocks))
    /\ current = <<>> \/ current = <<current[1]>>
    /\ Len(s) = Len(blocks) + Len(current)
    /\ \A b \in DOMAIN s : BlockRead(s, b)

\* What is put aside is a line of the text, with its place.
PutAside(s) ==
    /\ pending_phis \in Seq(Range(pending_phis))
    /\ pending_terms \in Seq(Range(pending_terms))
    /\ \A p \in Range(pending_phis) :
          \E b \in DOMAIN s : \E j \in insts_of(s, b) :
              p = <<b, j, text[s[b] + j]>> /\ text[s[b] + j].op = "phi"
    /\ \A p \in Range(pending_terms) :
          \E b \in DOMAIN s :
              ~open(current_terminated, s, b) /\ p = <<b, text[last(text, s, b)]>>

Read(s) ==
    /\ Starts(text, s)
    /\ LinesFit(text, current_terminated, s)
    /\ LabelsRead
    /\ BlocksRead(s)
    /\ PutAside(s)

\* What the phase tells.
PhaseFits ==
    /\ phase \in {"header", "lines", "phis", "terms", "done"}
    /\ result \in {"none", "ok", "error"}
    /\ phase = "done" <=> result # "none"
    /\ phase = "header" => text = <<>> /\ blocks = <<>> /\ current = <<>>
                           /\ ~current_terminated
                           /\ label_to_id = [l \in {} |-> NoId]
                           /\ pending_phis = <<>> /\ pending_terms = <<>>
    /\ phase = "lines" => args # -1 /\ (text # <<>> => current # <<>>)
    /\ phase \in {"phis", "terms"} \/ result = "ok" =>
          args # -1 /\ text # <<>> /\ current = <<>> /\ current_terminated
    /\ phase = "terms" \/ result = "ok" => pending_phis = <<>>
    /\ result = "ok" => pending_terms = <<>>

\* The invariant: as long as nothing is wrong, what has been read is in its
\* place or put aside.
PInv ==
    /\ text \in Seq(Lines)
    /\ PhaseFits
    /\ result = "error" => ~well_formed
    /\ result # "error" => \E s \in Seq(Nat) : Read(s)

\* The part of well_formed that the order of the lines decides.
whole(t) ==
    /\ t # <<>> /\ t[1].op = "block"
    /\ \A n \in starts_in(t) :
        /\ parse_block_id[t[n].label] # NoId
        /\ \A m \in starts_in(t) : t[m].label = t[n].label => m = n
        /\ \A m \in n..stop_in(t, n) : is_terminator(t[m]) <=> m = stop_in(t, n)
    /\ \A n \in DOMAIN t : t[n].op \notin {"bad", "bad term"}

\* And of begins_well: this every prefix of a whole text has.
begun(t) ==
    /\ t # <<>> => t[1].op = "block"
    /\ \A n \in starts_in(t) :
        /\ parse_block_id[t[n].label] # NoId
        /\ \A m \in starts_in(t) : t[m].label = t[n].label => m = n
        /\ \A m \in n..stop_in(t, n) :
            /\ is_terminator(t[m]) => m = stop_in(t, n)
            /\ m = stop_in(t, n) /\ m # Len(t) => is_terminator(t[m])
    /\ \A n \in DOMAIN t : t[n].op # "bad"

-----------------------------------------------------------------------------
(* Where the blocks of a text are.                                         *)

\* The places of the blocks, and the lines between them.
LEMMA BlockPlaces ==
    ASSUME NEW t \in Seq(Lines), NEW s, Starts(t, s)
    PROVE  /\ Len(t) \in Nat /\ DOMAIN t = 1..Len(t)
           /\ \A n \in DOMAIN t : t[n] \in Lines
           /\ Len(s) \in Nat /\ DOMAIN s = 1..Len(s)
           /\ \A b \in DOMAIN s :
                 /\ s[b] \in 1..Len(t) /\ t[s[b]].op = "block"
                 /\ last(t, s, b) \in s[b]..Len(t)
                 /\ b = Len(s) => last(t, s, b) = Len(t)
                 /\ b # Len(s) => b + 1 \in DOMAIN s /\ last(t, s, b) = s[b + 1] - 1
           /\ \A a, b \in DOMAIN s : a < b => last(t, s, a) < s[b]
<1>1. Len(t) \in Nat /\ DOMAIN t = 1..Len(t)
  BY LenProperties
<1>2. \A n \in DOMAIN t : t[n] \in Lines
  BY <1>1, ElementOfSeq
<1>3. Len(s) \in Nat /\ DOMAIN s = 1..Len(s)
  BY LenProperties DEF Starts
<1>4. \A b \in DOMAIN s : s[b] \in 1..Len(t) /\ t[s[b]].op = "block"
  BY <1>1 DEF Starts, starts_in
<1>5. ASSUME NEW b \in DOMAIN s, b # Len(s)
      PROVE  /\ b + 1 \in DOMAIN s /\ s[b] < s[b + 1]
             /\ last(t, s, b) = s[b + 1] - 1
  BY <1>3, <1>5 DEF Starts, last
<1>6. ASSUME NEW b \in DOMAIN s, b = Len(s) PROVE last(t, s, b) = Len(t)
  BY <1>3, <1>6 DEF last
<1>7. ASSUME NEW b \in DOMAIN s PROVE last(t, s, b) \in s[b]..Len(t)
  <2>1. s[b] \in 1..Len(t)
    BY <1>4
  <2>2. CASE b = Len(s)
    BY <1>1, <1>6, <2>1, <2>2
  <2>3. CASE b # Len(s)
    <3>1. b + 1 \in DOMAIN s /\ s[b] < s[b + 1] /\ last(t, s, b) = s[b + 1] - 1
      BY <1>5, <2>3
    <3>2. s[b + 1] \in 1..Len(t)
      BY <1>4, <3>1
    <3> QED
      BY <1>1, <2>1, <3>1, <3>2
  <2> QED
    BY <2>2, <2>3
<1>8. ASSUME NEW a \in DOMAIN s, NEW b \in DOMAIN s, a < b PROVE last(t, s, a) < s[b]
  <2>1. a # Len(s) /\ a \in Nat /\ b \in Nat
    BY <1>3, <1>8
  <2>2. a + 1 \in DOMAIN s /\ last(t, s, a) = s[a + 1] - 1
    BY <1>5, <2>1
  <2>3. s[a + 1] \in Nat /\ s[b] \in Nat
    BY <1>1, <1>4, <2>2
  <2>4. CASE a + 1 = b
    BY <2>2, <2>3, <2>4
  <2>5. CASE a + 1 # b
    <3>1. a + 1 < b
      BY <1>8, <2>1, <2>5
    <3>2. s[a + 1] < s[b]
      BY <2>2, <3>1 DEF Starts
    <3> QED
      BY <2>2, <2>3, <3>2
  <2> QED
    BY <2>4, <2>5
<1> QED
  BY <1>1, <1>2, <1>3, <1>4, <1>5, <1>6, <1>7, <1>8

\* A start is a place of the text.
LEMMA StartsIn ==
    ASSUME NEW t \in Seq(Lines), NEW m \in starts_in(t)
    PROVE  m \in Nat /\ m <= Len(t)
<1>1. Len(t) \in Nat /\ DOMAIN t = 1..Len(t)
  BY LenProperties
<1>2. m \in 1..Len(t)
  BY <1>1 DEF starts_in
<1> QED
  BY <1>1, <1>2

\* A block goes on to the next, or to the end.
LEMMA StopOfBlock ==
    ASSUME NEW t \in Seq(Lines), NEW n \in Nat, NEW e \in Nat, n <= e, e <= Len(t),
           \A m \in (n + 1)..e : t[m].op # "block",
           e = Len(t) \/ t[e + 1].op = "block"
    PROVE  stop_in(t, n) = e
<1> DEFINE T == {m \in starts_in(t) : m > n}
<1>1. Len(t) \in Nat /\ DOMAIN t = 1..Len(t)
  BY LenProperties
<1>2. \A m \in starts_in(t) : m \in Nat /\ m <= Len(t)
  BY StartsIn
<1>3. \A m \in T : m > e
  <2> SUFFICES ASSUME NEW m \in T, m <= e PROVE FALSE
    BY <1>2
  <2>1. m \in (n + 1)..e
    BY <1>2
  <2> QED
    BY <2>1 DEF starts_in
<1>4. CASE e = Len(t)
  <2>1. T = {}
    BY <1>2, <1>3, <1>4
  <2> QED
    BY <1>4, <2>1 DEF stop_in
<1>5. CASE e # Len(t)
  <2>1. e + 1 \in T
    BY <1>1, <1>5 DEF starts_in
  <2>2. \A m \in T : e + 1 <= m
    BY <1>2, <1>3
  <2>3. \A m \in T : m \in Nat
    BY <1>2
  <2> HIDE DEF T
  <2>4. Min(T) = e + 1
    <3>1. (CHOOSE x \in T : \A y \in T : x <= y) = e + 1
      BY <2>1, <2>2, <2>3
    <3> QED
      BY <3>1 DEF Min
  <2>5. stop_in(t, n) = Min(T) - 1
    BY <2>1 DEF stop_in, T
  <2> QED
    BY <2>4, <2>5
<1> QED
  BY <1>4, <1>5

\* So the blocks end where the next one starts.
LEMMA EndOfBlock ==
    ASSUME NEW t \in Seq(Lines), NEW closed, NEW s,
           Starts(t, s), LinesFit(t, closed, s), NEW b \in DOMAIN s
    PROVE  stop_in(t, s[b]) = last(t, s, b)
<1>1. /\ Len(t) \in Nat /\ s[b] \in Nat /\ last(t, s, b) \in s[b]..Len(t)
      /\ last(t, s, b) = Len(t) \/ t[last(t, s, b) + 1].op = "block"
  <2>1. s[b] \in 1..Len(t) /\ Len(t) \in Nat /\ last(t, s, b) \in s[b]..Len(t)
    BY BlockPlaces
  <2>2. CASE b = Len(s)
    BY <2>1, <2>2, BlockPlaces
  <2>3. CASE b # Len(s)
    <3>1. b + 1 \in DOMAIN s /\ last(t, s, b) = s[b + 1] - 1
      BY <2>3, BlockPlaces
    <3>2. s[b + 1] \in 1..Len(t) /\ t[s[b + 1]].op = "block"
      BY <3>1, BlockPlaces
    <3>3. last(t, s, b) + 1 = s[b + 1]
      BY <3>1, <3>2
    <3> QED
      BY <2>1, <3>2, <3>3
  <2> QED
    BY <2>2, <2>3
<1>2. \A m \in (s[b] + 1)..last(t, s, b) : t[m].op # "block"
  BY <1>1 DEF LinesFit
<1> QED
  BY <1>1, <1>2, StopOfBlock

-----------------------------------------------------------------------------
(* One more line.                                                          *)

\* A text with one more line.
LEMMA OneLineMore ==
    ASSUME NEW t \in Seq(Lines), NEW line \in Lines
    PROVE  /\ more(t, line) \in Seq(Lines)
           /\ Len(t) \in Nat /\ DOMAIN t = 1..Len(t)
           /\ Len(more(t, line)) = Len(t) + 1 /\ DOMAIN more(t, line) = 1..(Len(t) + 1)
           /\ \A n \in 1..Len(t) : more(t, line)[n] = t[n]
           /\ more(t, line)[Len(t) + 1] = line
<1> DEFINE u == more(t, line)
<1> HIDE DEF u
<1>1. Len(t) \in Nat /\ DOMAIN t = 1..Len(t)
  BY LenProperties
<1>2. u \in Seq(Lines) /\ Len(u) = Len(t) + 1
  BY AppendProperties DEF u, more
<1>3. DOMAIN u = 1..(Len(t) + 1)
  BY <1>2, LenProperties
<1>4. \A n \in 1..Len(t) : u[n] = t[n]
  BY AppendProperties DEF u, more
<1>5. u[Len(t) + 1] = line
  BY AppendProperties DEF u, more
<1> QED
  BY <1>1, <1>2, <1>3, <1>4, <1>5 DEF u

\* A line that starts no block belongs to the last one.
LEMMA OneMoreOfBlock ==
    ASSUME NEW t \in Seq(Lines), NEW line \in Lines, NEW u, u = more(t, line),
           NEW s, Starts(t, s), s # <<>>, line.op # "block"
    PROVE  /\ starts_in(u) = starts_in(t)
           /\ Starts(u, s)
           /\ \A b \in DOMAIN s :
                 /\ b = Len(s) => last(u, s, b) = Len(t) + 1
                 /\ b # Len(s) => last(u, s, b) = last(t, s, b)
<1>1. /\ u \in Seq(Lines)
      /\ Len(t) \in Nat /\ DOMAIN t = 1..Len(t)
      /\ Len(u) = Len(t) + 1 /\ DOMAIN u = 1..(Len(t) + 1)
      /\ \A n \in 1..Len(t) : u[n] = t[n]
      /\ u[Len(t) + 1] = line
  BY OneLineMore
<1>2. /\ Len(s) \in Nat /\ DOMAIN s = 1..Len(s) /\ s \in Seq(Nat)
      /\ \A b \in DOMAIN s : s[b] \in 1..Len(t)
  BY BlockPlaces DEF Starts
<1>3. starts_in(u) = starts_in(t)
  <2>1. ASSUME NEW n \in starts_in(u) PROVE n \in starts_in(t)
    <3>1. n \in 1..(Len(t) + 1) /\ u[n].op = "block"
      BY <1>1 DEF starts_in
    <3>2. n # Len(t) + 1
      BY <1>1, <3>1
    <3>3. n \in 1..Len(t)
      BY <1>1, <3>1, <3>2
    <3> QED
      BY <1>1, <3>1, <3>3 DEF starts_in
  <2>2. ASSUME NEW n \in starts_in(t) PROVE n \in starts_in(u)
    <3>1. n \in 1..Len(t) /\ t[n].op = "block"
      BY <1>1 DEF starts_in
    <3>2. n \in 1..(Len(t) + 1)
      BY <1>1, <3>1
    <3> QED
      BY <1>1, <3>1, <3>2 DEF starts_in
  <2> QED
    BY <2>1, <2>2
<1>4. ASSUME NEW b \in DOMAIN s
      PROVE  /\ b = Len(s) => last(u, s, b) = Len(t) + 1
             /\ b # Len(s) => last(u, s, b) = last(t, s, b)
  BY <1>1, <1>2 DEF last
<1>5. Len(s) \in DOMAIN s
  BY <1>2, EmptySeq
<1>6. ASSUME NEW n \in DOMAIN u
      PROVE  \E b \in DOMAIN s : s[b] <= n /\ n <= last(u, s, b)
  <2>1. CASE n = Len(t) + 1
    <3>1. s[Len(s)] <= n
      BY <1>1, <1>2, <1>5, <2>1
    <3>2. n <= last(u, s, Len(s))
      BY <1>1, <1>4, <1>5, <2>1
    <3> QED
      BY <1>5, <3>1, <3>2
  <2>2. CASE n # Len(t) + 1
    <3>1. n \in DOMAIN t
      BY <1>1, <2>2
    <3>2. PICK b \in DOMAIN s : s[b] <= n /\ n <= last(t, s, b)
      BY <3>1 DEF Starts
    <3>3. n <= last(u, s, b)
      BY <1>1, <1>4, <3>1, <3>2
    <3> QED
      BY <3>2, <3>3
  <2> QED
    BY <2>1, <2>2
<1>7. u # <<>> => s # <<>> /\ s[1] = 1
  <2>1. t # <<>>
    <3>1. Len(t) # 0
      BY <1>1, <1>2, <1>5
    <3> QED
      BY <3>1, EmptySeq
  <2> QED
    BY <2>1 DEF Starts
<1>8. \A a, b \in DOMAIN s : a < b => s[a] < s[b]
  BY DEF Starts
<1>9. \A b \in DOMAIN s : s[b] \in starts_in(u)
  BY <1>3 DEF Starts
<1>10. Starts(u, s)
  BY <1>2, <1>6, <1>7, <1>8, <1>9 DEF Starts
<1> QED
  BY <1>3, <1>4, <1>10

\* An instruction or a terminator fits an open block.
LEMMA OneMoreFits ==
    ASSUME NEW t \in Seq(Lines), NEW line \in Lines, NEW u, u = more(t, line),
           NEW s, Starts(t, s), s # <<>>, line.op # "block",
           LinesFit(t, FALSE, s), line.op # "bad"
    PROVE  LinesFit(u, is_terminator(line), s)
<1> DEFINE closed == is_terminator(line)
<1>1. /\ Len(t) \in Nat /\ DOMAIN t = 1..Len(t)
      /\ Len(u) = Len(t) + 1 /\ DOMAIN u = 1..(Len(t) + 1)
      /\ \A n \in 1..Len(t) : u[n] = t[n]
      /\ u[Len(t) + 1] = line
  BY OneLineMore
<1>2. \A b \in DOMAIN s :
          /\ s[b] \in 1..Len(t)
          /\ last(t, s, b) \in s[b]..Len(t)
          /\ b = Len(s) => last(t, s, b) = Len(t)
  BY BlockPlaces
<1>3. \A b \in DOMAIN s :
          /\ b = Len(s) => last(u, s, b) = Len(t) + 1
          /\ b # Len(s) => last(u, s, b) = last(t, s, b)
  BY OneMoreOfBlock
<1>4. ASSUME NEW n \in DOMAIN u PROVE u[n].op # "bad"
  <2>1. CASE n = Len(t) + 1
    BY <1>1, <2>1
  <2>2. CASE n # Len(t) + 1
    <3>1. n \in DOMAIN t
      BY <1>1, <2>2
    <3> QED
      BY <1>1, <3>1 DEF LinesFit
  <2> QED
    BY <2>1, <2>2
<1>5. ASSUME NEW b \in DOMAIN s, NEW n \in s[b]..last(u, s, b)
      PROVE  /\ u[n].op = "block" <=> n = s[b]
             /\ is_terminator(u[n]) <=> n = last(u, s, b) /\ ~open(closed, s, b)
  <2> HIDE DEF closed
  <2>1. CASE n = Len(t) + 1
    <3>1. b = Len(s)
      <4>1. last(t, s, b) <= Len(t)
        BY <1>1, <1>2
      <4>2. n <= last(u, s, b)
        BY <1>1, <1>2, <1>3
      <4> QED
        BY <1>1, <1>2, <1>3, <2>1, <4>1, <4>2
    <3>2. last(u, s, b) = n
      BY <1>3, <2>1, <3>1
    <3>3. n # s[b]
      BY <1>1, <1>2, <2>1
    <3>4. u[n] = line
      BY <1>1, <2>1
    <3> QED
      BY <3>1, <3>2, <3>3, <3>4 DEF open, closed
  <2>2. CASE n # Len(t) + 1
    <3>1. n \in s[b]..last(t, s, b) /\ n \in 1..Len(t)
      BY <1>1, <1>2, <1>3, <2>2
    <3>2. /\ t[n].op = "block" <=> n = s[b]
          /\ is_terminator(t[n]) <=> n = last(t, s, b) /\ ~open(FALSE, s, b)
      BY <3>1 DEF LinesFit
    <3>3. u[n] = t[n]
      BY <1>1, <3>1
    <3>4. CASE b = Len(s)
      <4>1. last(u, s, b) # n
        BY <1>3, <2>2, <3>4
      <4> QED
        BY <3>2, <3>3, <3>4, <4>1 DEF open
    <3>5. CASE b # Len(s)
      <4>1. last(u, s, b) = last(t, s, b)
        BY <1>3, <3>5
      <4> QED
        BY <3>2, <3>3, <3>5, <4>1 DEF open
    <3> QED
      BY <3>4, <3>5
  <2> QED
    BY <2>1, <2>2
<1> HIDE DEF closed
<1>6. LinesFit(u, closed, s)
  BY <1>4, <1>5 DEF LinesFit
<1> QED
  BY <1>6 DEF closed

\* A line that starts a block ends the one before.
LEMMA OneMoreBlock ==
    ASSUME NEW t \in Seq(Lines), NEW line \in Lines, NEW u, u = more(t, line),
           NEW s, Starts(t, s), NEW z, z = more(s, Len(t) + 1), line.op = "block"
    PROVE  /\ z \in Seq(Nat) /\ Len(z) = Len(s) + 1 /\ DOMAIN z = 1..(Len(s) + 1)
           /\ Len(s) \in Nat /\ DOMAIN s = 1..Len(s)
           /\ \A b \in DOMAIN s : z[b] = s[b] /\ last(u, z, b) = last(t, s, b)
           /\ z[Len(s) + 1] = Len(t) + 1 /\ last(u, z, Len(s) + 1) = Len(t) + 1
           /\ starts_in(u) = starts_in(t) \cup {Len(t) + 1}
           /\ Starts(u, z)
<1>1. /\ u \in Seq(Lines)
      /\ Len(t) \in Nat /\ DOMAIN t = 1..Len(t)
      /\ Len(u) = Len(t) + 1 /\ DOMAIN u = 1..(Len(t) + 1)
      /\ \A n \in 1..Len(t) : u[n] = t[n]
      /\ u[Len(t) + 1] = line
  BY OneLineMore
<1>2. /\ Len(s) \in Nat /\ DOMAIN s = 1..Len(s) /\ s \in Seq(Nat)
      /\ \A b \in DOMAIN s : s[b] \in 1..Len(t)
  BY BlockPlaces DEF Starts
<1>3. /\ z \in Seq(Nat) /\ Len(z) = Len(s) + 1
      /\ \A b \in 1..Len(s) : z[b] = s[b]
      /\ z[Len(s) + 1] = Len(t) + 1
  <2>1. Len(t) + 1 \in Nat
    BY <1>1
  <2> QED
    BY <1>2, <2>1, AppendProperties DEF more
<1>4. DOMAIN z = 1..(Len(s) + 1)
  BY <1>3, LenProperties
<1>5. starts_in(u) = starts_in(t) \cup {Len(t) + 1}
  <2>1. ASSUME NEW n \in starts_in(u) PROVE n \in starts_in(t) \/ n = Len(t) + 1
    <3>1. n \in 1..(Len(t) + 1) /\ u[n].op = "block"
      BY <1>1 DEF starts_in
    <3>2. n \in 1..Len(t) \/ n = Len(t) + 1
      BY <1>1, <3>1
    <3> QED
      BY <1>1, <3>1, <3>2 DEF starts_in
  <2>2. ASSUME NEW n \in starts_in(t) PROVE n \in starts_in(u)
    <3>1. n \in 1..Len(t) /\ t[n].op = "block"
      BY <1>1 DEF starts_in
    <3>2. n \in 1..(Len(t) + 1)
      BY <1>1, <3>1
    <3> QED
      BY <1>1, <3>1, <3>2 DEF starts_in
  <2>3. Len(t) + 1 \in starts_in(u)
    <3>1. Len(t) + 1 \in 1..(Len(t) + 1)
      BY <1>1
    <3> QED
      BY <1>1, <3>1 DEF starts_in
  <2> QED
    BY <2>1, <2>2, <2>3
<1>6. ASSUME NEW b \in DOMAIN s PROVE z[b] = s[b] /\ last(u, z, b) = last(t, s, b)
  <2>1. z[b] = s[b] /\ b \in 1..Len(s)
    BY <1>2, <1>3
  <2>2. last(u, z, b) = z[b + 1] - 1
    BY <1>2, <1>3, <2>1 DEF last
  <2>3. CASE b = Len(s)
    <3>1. last(t, s, b) = Len(t)
      BY <1>2, <2>3 DEF last
    <3>2. z[b + 1] = Len(t) + 1
      BY <1>3, <2>3
    <3> QED
      BY <1>1, <2>1, <2>2, <3>1, <3>2
  <2>4. CASE b # Len(s)
    <3>1. b < Len(s) /\ b + 1 \in 1..Len(s)
      BY <1>2, <2>1, <2>4
    <3>2. last(t, s, b) = s[b + 1] - 1
      BY <3>1 DEF last
    <3>3. z[b + 1] = s[b + 1]
      BY <1>3, <3>1
    <3> QED
      BY <2>1, <2>2, <3>2, <3>3
  <2> QED
    BY <2>3, <2>4
<1>7. last(u, z, Len(s) + 1) = Len(t) + 1
  BY <1>1, <1>2, <1>3 DEF last
<1>8. Starts(u, z)
  <2>1. ASSUME NEW b \in DOMAIN z PROVE z[b] \in starts_in(u)
    <3>1. CASE b = Len(s) + 1
      BY <1>3, <1>5, <3>1
    <3>2. CASE b # Len(s) + 1
      <4>1. b \in DOMAIN s
        BY <1>2, <1>4, <3>2
      <4> QED
        BY <1>5, <1>6, <4>1 DEF Starts
    <3> QED
      BY <3>1, <3>2
  <2>2. ASSUME NEW a \in DOMAIN z, NEW b \in DOMAIN z, a < b PROVE z[a] < z[b]
    <3>1. a \in DOMAIN s
      BY <1>2, <1>4, <2>2
    <3>2. z[a] = s[a] /\ s[a] \in 1..Len(t)
      BY <1>2, <1>6, <3>1
    <3>3. CASE b = Len(s) + 1
      BY <1>1, <1>3, <3>2, <3>3
    <3>4. CASE b # Len(s) + 1
      <4>1. b \in DOMAIN s
        BY <1>2, <1>4, <3>4
      <4>2. s[a] < s[b]
        BY <2>2, <3>1, <4>1 DEF Starts
      <4> QED
        BY <1>6, <3>2, <4>1, <4>2
    <3> QED
      BY <3>3, <3>4
  <2>3. ASSUME NEW n \in DOMAIN u PROVE \E b \in DOMAIN z : z[b] <= n /\ n <= last(u, z, b)
    <3>1. CASE n = Len(t) + 1
      <4>1. Len(s) + 1 \in DOMAIN z
        BY <1>2, <1>4
      <4>2. z[Len(s) + 1] <= n /\ n <= last(u, z, Len(s) + 1)
        BY <1>1, <1>3, <1>7, <3>1
      <4> QED
        BY <4>1, <4>2
    <3>2. CASE n # Len(t) + 1
      <4>1. n \in DOMAIN t
        BY <1>1, <3>2
      <4>2. PICK b \in DOMAIN s : s[b] <= n /\ n <= last(t, s, b)
        BY <4>1 DEF Starts
      <4>3. b \in DOMAIN z
        BY <1>2, <1>4
      <4>4. z[b] <= n /\ n <= last(u, z, b)
        BY <1>6, <4>2
      <4> QED
        BY <4>3, <4>4
    <3> QED
      BY <3>1, <3>2
  <2>4. z # <<>> /\ z[1] = 1
    <3>1. z # <<>>
      BY <1>2, <1>3, EmptySeq
    <3>2. CASE s = <<>>
      <4>1. Len(s) = 0
        BY <3>2, EmptySeq
      <4>2. Len(t) = 0
        <5>1. DOMAIN s = {}
          BY <1>2, <4>1
        <5>2. DOMAIN t = {}
          BY <5>1 DEF Starts
        <5> QED
          BY <1>1, <5>2
      <4> QED
        BY <1>3, <3>1, <4>1, <4>2
    <3>3. CASE s # <<>>
      <4>1. 1 \in DOMAIN s
        BY <1>2, <3>3, EmptySeq
      <4>2. t # <<>>
        <5>1. Len(t) # 0
          BY <1>1, <1>2, <4>1
        <5> QED
          BY <5>1, EmptySeq
      <4>3. s[1] = 1
        BY <4>2 DEF Starts
      <4> QED
        BY <1>6, <3>1, <4>1, <4>3
    <3> QED
      BY <3>2, <3>3
  <2> QED
    BY <1>3, <2>1, <2>2, <2>3, <2>4 DEF Starts
<1> QED
  BY <1>2, <1>3, <1>4, <1>5, <1>6, <1>7, <1>8

LEMMA OneMoreBlockFits ==
    ASSUME NEW t \in Seq(Lines), NEW line \in Lines, NEW u, u = more(t, line),
           NEW s, Starts(t, s), NEW z, z = more(s, Len(t) + 1), line.op = "block",
           LinesFit(t, TRUE, s)
    PROVE  LinesFit(u, FALSE, z)
<1>1. /\ Len(t) \in Nat /\ DOMAIN t = 1..Len(t)
      /\ Len(u) = Len(t) + 1 /\ DOMAIN u = 1..(Len(t) + 1)
      /\ \A n \in 1..Len(t) : u[n] = t[n]
      /\ u[Len(t) + 1] = line
  BY OneLineMore
<1>2. /\ Len(z) = Len(s) + 1 /\ DOMAIN z = 1..(Len(s) + 1)
      /\ Len(s) \in Nat /\ DOMAIN s = 1..Len(s)
      /\ \A b \in DOMAIN s : z[b] = s[b] /\ last(u, z, b) = last(t, s, b)
      /\ z[Len(s) + 1] = Len(t) + 1 /\ last(u, z, Len(s) + 1) = Len(t) + 1
  BY OneMoreBlock
<1>3. \A b \in DOMAIN s : s[b] \in 1..Len(t) /\ last(t, s, b) \in s[b]..Len(t)
  BY BlockPlaces
<1>4. ASSUME NEW n \in DOMAIN u PROVE u[n].op # "bad"
  <2>1. CASE n = Len(t) + 1
    BY <1>1, <2>1
  <2>2. CASE n # Len(t) + 1
    <3>1. n \in DOMAIN t
      BY <1>1, <2>2
    <3> QED
      BY <1>1, <3>1 DEF LinesFit
  <2> QED
    BY <2>1, <2>2
<1>5. ASSUME NEW b \in DOMAIN z, NEW n \in z[b]..last(u, z, b)
      PROVE  /\ u[n].op = "block" <=> n = z[b]
             /\ is_terminator(u[n]) <=> n = last(u, z, b) /\ ~open(FALSE, z, b)
  <2>1. CASE b = Len(s) + 1
    <3>1. n = Len(t) + 1 /\ n = z[b]
      BY <1>1, <1>2, <2>1
    <3>2. u[n] = line
      BY <1>1, <3>1
    <3>3. open(FALSE, z, b)
      BY <1>2, <2>1 DEF open
    <3>4. ~is_terminator(line)
      BY DEF is_terminator
    <3> QED
      BY <3>1, <3>2, <3>3, <3>4
  <2>2. CASE b # Len(s) + 1
    <3>1. b \in DOMAIN s
      BY <1>2, <2>2
    <3>2. n \in s[b]..last(t, s, b) /\ z[b] = s[b] /\ last(u, z, b) = last(t, s, b)
      BY <1>2, <3>1
    <3>3. n \in 1..Len(t)
      BY <1>1, <1>3, <3>1, <3>2
    <3>4. /\ t[n].op = "block" <=> n = s[b]
          /\ is_terminator(t[n]) <=> n = last(t, s, b) /\ ~open(TRUE, s, b)
      BY <3>1, <3>2 DEF LinesFit
    <3>5. ~open(TRUE, s, b) /\ ~open(FALSE, z, b)
      BY <1>2, <2>2 DEF open
    <3>6. u[n] = t[n]
      BY <1>1, <3>3
    <3> QED
      BY <3>2, <3>4, <3>5, <3>6
  <2> QED
    BY <2>1, <2>2
<1> QED
  BY <1>4, <1>5 DEF LinesFit

-----------------------------------------------------------------------------
(* What makes a text wrong.                                                *)

\* The last block of a text.
LEMMA LastBlock ==
    ASSUME NEW t \in Seq(Lines), NEW s, Starts(t, s), s # <<>>
    PROVE  /\ Len(s) \in DOMAIN s /\ Len(t) \in Nat /\ Len(t) \in DOMAIN t
           /\ s[Len(s)] \in 1..Len(t) /\ s[Len(s)] \in starts_in(t)
           /\ last(t, s, Len(s)) = Len(t)
<1>1. Len(s) \in Nat /\ DOMAIN s = 1..Len(s) /\ Len(t) \in Nat /\ DOMAIN t = 1..Len(t)
  BY BlockPlaces
<1>2. Len(s) # 0
  BY EmptySeq DEF Starts
<1>3. Len(s) \in DOMAIN s
  BY <1>1, <1>2
<1>4. s[Len(s)] \in 1..Len(t) /\ last(t, s, Len(s)) = Len(t)
  BY <1>3, BlockPlaces
<1>5. s[Len(s)] \in starts_in(t)
  BY <1>3 DEF Starts
<1> QED
  BY <1>1, <1>3, <1>4, <1>5

\* A text cannot end in an open block.
LEMMA OpenAtTheEnd ==
    ASSUME NEW t \in Seq(Lines), NEW s, Starts(t, s), s # <<>>, LinesFit(t, FALSE, s)
    PROVE  ~whole(t)
<1> SUFFICES ASSUME whole(t) PROVE FALSE
  OBVIOUS
<1> DEFINE kb == Len(s)
<1>1. /\ kb \in DOMAIN s /\ Len(t) \in Nat /\ s[kb] \in 1..Len(t) /\ s[kb] \in starts_in(t)
      /\ last(t, s, kb) = Len(t)
  BY LastBlock
<1>2. stop_in(t, s[kb]) = Len(t)
  BY <1>1, EndOfBlock
<1>3. Len(t) \in s[kb]..Len(t)
  BY <1>1
<1>4. is_terminator(t[Len(t)])
  BY <1>1, <1>2, <1>3 DEF whole
<1>5. ~is_terminator(t[Len(t)])
  BY <1>1, <1>3 DEF LinesFit, open
<1> QED
  BY <1>4, <1>5

\* A block cannot start in an open one.
LEMMA OpenBeforeBlock ==
    ASSUME NEW t \in Seq(Lines), NEW line \in Lines, NEW u, u = more(t, line),
           NEW s, Starts(t, s), s # <<>>, LinesFit(t, FALSE, s), line.op = "block"
    PROVE  ~begun(u)
<1> SUFFICES ASSUME begun(u) PROVE FALSE
  OBVIOUS
<1> DEFINE kb == Len(s)
<1>1. /\ kb \in DOMAIN s /\ Len(t) \in Nat /\ s[kb] \in 1..Len(t) /\ s[kb] \in starts_in(t)
      /\ last(t, s, kb) = Len(t)
  BY LastBlock
<1>2. /\ u \in Seq(Lines) /\ Len(u) = Len(t) + 1
      /\ \A n \in 1..Len(t) : u[n] = t[n]
      /\ u[Len(t) + 1] = line
  BY OneLineMore
<1>3. s[kb] \in starts_in(u)
  BY <1>1, OneMoreBlock
<1>4. \A m \in (s[kb] + 1)..Len(t) : u[m].op # "block"
  <2> SUFFICES ASSUME NEW m \in (s[kb] + 1)..Len(t) PROVE u[m].op # "block"
    OBVIOUS
  <2>1. m \in s[kb]..Len(t) /\ m # s[kb] /\ m \in 1..Len(t)
    BY <1>1
  <2>2. t[m].op # "block"
    BY <1>1, <2>1 DEF LinesFit
  <2>3. u[m] = t[m]
    BY <1>2, <2>1
  <2> QED
    BY <2>2, <2>3
<1>5. stop_in(u, s[kb]) = Len(t)
  <2>1. s[kb] \in Nat /\ s[kb] <= Len(t) /\ Len(t) <= Len(u)
    BY <1>1, <1>2
  <2>2. u[Len(t) + 1].op = "block"
    BY <1>2
  <2> QED
    BY <1>1, <1>2, <1>4, <2>1, <2>2, StopOfBlock
<1>6. Len(t) \in s[kb]..Len(t) /\ Len(t) \in 1..Len(t) /\ Len(t) # Len(u)
  BY <1>1, <1>2
<1>7. is_terminator(u[Len(t)])
  BY <1>3, <1>5, <1>6 DEF begun
<1>8. ~is_terminator(t[Len(t)])
  BY <1>1, <1>6 DEF LinesFit, open
<1>9. u[Len(t)] = t[Len(t)]
  BY <1>2, <1>6
<1> QED
  BY <1>7, <1>8, <1>9

\* Nothing but a block can follow a terminator.
LEMMA ClosedBeforeLine ==
    ASSUME NEW t \in Seq(Lines), NEW line \in Lines, NEW u, u = more(t, line),
           NEW s, Starts(t, s), s # <<>>, LinesFit(t, TRUE, s), line.op # "block"
    PROVE  ~begun(u)
<1> SUFFICES ASSUME begun(u) PROVE FALSE
  OBVIOUS
<1> DEFINE kb == Len(s)
<1>1. /\ kb \in DOMAIN s /\ Len(t) \in Nat /\ s[kb] \in 1..Len(t) /\ s[kb] \in starts_in(t)
      /\ last(t, s, kb) = Len(t)
  BY LastBlock
<1>2. /\ u \in Seq(Lines) /\ Len(u) = Len(t) + 1
      /\ \A n \in 1..Len(t) : u[n] = t[n]
      /\ u[Len(t) + 1] = line
  BY OneLineMore
<1>3. s[kb] \in starts_in(u)
  BY <1>1, OneMoreOfBlock
<1>4. \A m \in (s[kb] + 1)..(Len(t) + 1) : u[m].op # "block"
  <2> SUFFICES ASSUME NEW m \in (s[kb] + 1)..(Len(t) + 1) PROVE u[m].op # "block"
    OBVIOUS
  <2>1. CASE m = Len(t) + 1
    BY <1>2, <2>1
  <2>2. CASE m # Len(t) + 1
    <3>1. m \in s[kb]..Len(t) /\ m # s[kb] /\ m \in 1..Len(t)
      BY <1>1, <2>2
    <3>2. t[m].op # "block"
      BY <1>1, <3>1 DEF LinesFit
    <3>3. u[m] = t[m]
      BY <1>2, <3>1
    <3> QED
      BY <3>2, <3>3
  <2> QED
    BY <2>1, <2>2
<1>5. stop_in(u, s[kb]) = Len(t) + 1
  <2> DEFINE e == Len(t) + 1
  <2>1. s[kb] \in Nat /\ s[kb] <= e /\ e \in Nat /\ e = Len(u)
    BY <1>1, <1>2
  <2> HIDE DEF e
  <2>2. \A m \in (s[kb] + 1)..e : u[m].op # "block"
    BY <1>4 DEF e
  <2>3. e <= Len(u)
    BY <2>1
  <2>4. stop_in(u, s[kb]) = e
    BY <1>2, <2>1, <2>2, <2>3, StopOfBlock
  <2> QED
    BY <2>4 DEF e
<1>6. Len(t) \in s[kb]..(Len(t) + 1) /\ Len(t) \in s[kb]..Len(t) /\ Len(t) # Len(t) + 1
      /\ Len(t) \in 1..Len(t)
  BY <1>1
<1>7. ~is_terminator(u[Len(t)])
  BY <1>3, <1>5, <1>6 DEF begun
<1>8. is_terminator(t[Len(t)])
  BY <1>1, <1>6 DEF LinesFit, open
<1>9. u[Len(t)] = t[Len(t)]
  BY <1>2, <1>6
<1> QED
  BY <1>7, <1>8, <1>9

-----------------------------------------------------------------------------
(* The steps that read no line of a block.                                 *)

tables == <<label_to_id, pending_phis, pending_terms>>

\* A well-formed text has its lines in order.
LEMMA WellFormedIsWhole == /\ well_formed => whole(text)
                           /\ well_formed' => whole(text')
<1>1. well_formed => whole(text)
  BY DEF well_formed, whole, block_lines, starts_in, end_of, stop_in
<1>2. well_formed' => whole(text')
  BY DEF well_formed, whole, block_lines, starts_in, end_of, stop_in
<1> QED
  BY <1>1, <1>2

\* A well-formed text begins well.
LEMMA WellFormedBegins == /\ well_formed' => begins_well'
                          /\ begins_well' => begun(text')
<1>1. well_formed' => begins_well'
  BY DEF well_formed, begins_well
<1>2. begins_well' => begun(text')
  BY DEF begins_well, begun, block_lines, starts_in, end_of, stop_in
<1> QED
  BY <1>1, <1>2

\* An error is right where the text is wrong.
LEMMA Failing ==
    ASSUME PInv, phase # "done", Parse!Fail, text' \in Seq(Lines), ~well_formed'
    PROVE  PInv'
<1>1. phase' = "done" /\ result' = "error"
  BY DEF Parse!Fail
<1>2. PhaseFits'
  BY <1>1 DEF PhaseFits
<1> QED
  BY <1>1, <1>2 DEF PInv

\* What has been read stays so as long as nothing changes.
LEMMA ReadKept ==
    ASSUME NEW s, Read(s), UNCHANGED <<text, blocks, current, current_terminated, tables>>
    PROVE  Read(s)'
<1>1. /\ text' = text /\ blocks' = blocks /\ current' = current
      /\ current_terminated' = current_terminated /\ label_to_id' = label_to_id
      /\ pending_phis' = pending_phis /\ pending_terms' = pending_terms
  BY DEF tables
<1>2. LabelsRead'
  BY <1>1 DEF Read, LabelsRead, labels, block_lines
<1>3. BlocksRead(s)'
  <2>1. ASSUME NEW b \in DOMAIN s PROVE BlockRead(s, b)'
    <3>1. BlockRead(s, b)
      BY DEF Read, BlocksRead
    <3>2. block_at(b)' = block_at(b) /\ insts_of(s, b)' = insts_of(s, b) /\ labels' = labels
      BY <1>1 DEF block_at, insts_of, labels, block_lines
    <3>3. ASSUME NEW j \in insts_of(s, b) PROVE InstRead(s, b, j)'
      BY <1>1, <3>1, <3>2 DEF BlockRead, InstRead
    <3>4. ~open(current_terminated, s, b)' => TermRead(s, b)'
      BY <1>1, <3>1, <3>2 DEF BlockRead, TermRead
    <3>5. /\ (block_at(b) = [id |-> parse_block_id[text[s[b]].label],
                             insts |-> block_at(b).insts, term |-> block_at(b).term])'
          /\ (block_at(b).insts = [j \in insts_of(s, b) |-> block_at(b).insts[j]])'
      BY <1>1, <3>1, <3>2 DEF BlockRead
    <3> QED
      BY <3>2, <3>3, <3>4, <3>5 DEF BlockRead
  <2>2. /\ (blocks \in Seq(Range(blocks)))'
        /\ (current = <<>> \/ current = <<current[1]>>)'
        /\ (Len(s) = Len(blocks) + Len(current))'
    BY <1>1 DEF Read, BlocksRead
  <2> QED
    BY <2>1, <2>2 DEF BlocksRead
<1>4. PutAside(s)'
  BY <1>1 DEF Read, PutAside, insts_of
<1> QED
  BY <1>1, <1>2, <1>3, <1>4 DEF Read

\* The state in which nothing has been read.
LEMMA NothingRead ==
    ASSUME text = <<>>, blocks = <<>>, current = <<>>,
           label_to_id = [l \in {} |-> NoId], pending_phis = <<>>, pending_terms = <<>>
    PROVE  Read(<<>>)
<1>1. DOMAIN text = {} /\ DOMAIN <<>> = {} /\ <<>> \in Seq(Nat) /\ Len(<<>>) = 0
  BY EmptySeq
<1>2. Starts(text, <<>>)
  BY <1>1 DEF Starts
<1>3. LinesFit(text, current_terminated, <<>>)
  BY <1>1 DEF LinesFit
<1>4. LabelsRead
  <2>1. block_lines = {} /\ labels = {}
    BY <1>1 DEF block_lines, labels
  <2> QED
    BY <2>1 DEF LabelsRead
<1>5. BlocksRead(<<>>)
  <2>1. blocks \in Seq(Range(blocks))
    BY EmptySeq
  <2> QED
    BY <1>1, <2>1 DEF BlocksRead
<1>6. PutAside(<<>>)
  <2>1. pending_phis \in Seq(Range(pending_phis)) /\ pending_terms \in Seq(Range(pending_terms))
    BY EmptySeq
  <2>2. Range(pending_phis) = {} /\ Range(pending_terms) = {}
    BY <1>1 DEF Range
  <2> QED
    BY <2>1, <2>2 DEF PutAside
<1> QED
  BY <1>2, <1>3, <1>4, <1>5, <1>6 DEF Read

LEMMA InitReads ==
    ASSUME Parse!Init
    PROVE  PInv
<1>1. text = <<>> /\ text \in Seq(Lines) /\ result = "none"
  BY EmptySeq DEF Parse!Init
<1>2. PhaseFits
  BY DEF Parse!Init, PhaseFits
<1>3. Read(<<>>)
  BY NothingRead DEF Parse!Init
<1>4. <<>> \in Seq(Nat)
  BY EmptySeq
<1> QED
  BY <1>1, <1>2, <1>3, <1>4 DEF PInv

LEMMA HeaderReads ==
    ASSUME PInv, Parse!ReadHeader
    PROVE  PInv'
<1>1. /\ phase = "header" /\ text' = text /\ text \in Seq(Lines)
      /\ text = <<>> /\ result = "none"
  BY DEF Parse!ReadHeader, PInv, PhaseFits
<1>2. CASE args = -1 /\ Parse!Fail
  <2>1. ~well_formed'
    BY <1>2 DEF Parse!Fail, well_formed
  <2> QED
    BY <1>1, <1>2, <2>1, Failing
<1>3. CASE /\ args # -1 /\ phase' = "lines"
           /\ UNCHANGED <<args, blocks, current, current_terminated, Parse!tables, result>>
  <2>1. UNCHANGED <<text, blocks, current, current_terminated, tables>>
    BY <1>1, <1>3 DEF tables, Parse!tables
  <2>2. PICK s \in Seq(Nat) : Read(s)
    BY <1>1 DEF PInv
  <2>3. Read(s)'
    BY <2>1, <2>2, ReadKept
  <2>4. PhaseFits'
    BY <1>1, <1>3 DEF PInv, PhaseFits
  <2>5. text' \in Seq(Lines) /\ result' = "none"
    BY <1>1, <1>3
  <2> QED
    BY <2>3, <2>4, <2>5 DEF PInv
<1> QED
  BY <1>2, <1>3 DEF Parse!ReadHeader

LEMMA PhisDoneReads ==
    ASSUME PInv, Parse!PhisDone
    PROVE  PInv'
<1>1. /\ phase = "phis" /\ pending_phis = <<>> /\ phase' = "terms" /\ result = "none"
      /\ result' = result /\ args' = args /\ text' = text
      /\ UNCHANGED <<text, blocks, current, current_terminated, tables>>
  BY DEF Parse!PhisDone, Parse!tables, tables, PInv, PhaseFits
<1>2. PICK s \in Seq(Nat) : Read(s)
  BY <1>1 DEF PInv
<1>3. Read(s)'
  BY <1>1, <1>2, ReadKept
<1>4. PhaseFits'
  BY <1>1 DEF PInv, PhaseFits, tables
<1> QED
  BY <1>1, <1>3, <1>4 DEF PInv

LEMMA FinishReads ==
    ASSUME PInv, Parse!Finish
    PROVE  PInv'
<1>1. /\ phase = "terms" /\ pending_terms = <<>> /\ phase' = "done" /\ result = "none"
      /\ result' = "ok" /\ args' = args /\ text' = text
      /\ UNCHANGED <<text, blocks, current, current_terminated, tables>>
  BY DEF Parse!Finish, Parse!tables, tables, PInv, PhaseFits
<1>2. PICK s \in Seq(Nat) : Read(s)
  BY <1>1 DEF PInv
<1>3. Read(s)'
  BY <1>1, <1>2, ReadKept
<1>4. PhaseFits'
  BY <1>1 DEF PInv, PhaseFits, tables
<1> QED
  BY <1>1, <1>3, <1>4 DEF PInv

-----------------------------------------------------------------------------
(* Reading a line.                                                         *)

\* A function on 1..n is a sequence, and Append extends it.
LEMMA AppendToRead ==
    ASSUME NEW n \in Nat, NEW g, g = [j \in 1..n |-> g[j]], NEW x
    PROVE  /\ Len(g) = n
           /\ Append(g, x) = [j \in 1..(n + 1) |-> Append(g, x)[j]]
           /\ \A j \in 1..n : Append(g, x)[j] = g[j]
           /\ Append(g, x)[n + 1] = x
<1> DEFINE S == {g[j] : j \in 1..n} \cup {x}
<1>1. g \in [1..n -> S]
  BY Zenon
<1>2. g \in Seq(S) /\ Len(g) = n
  <2>1. \A j \in 1..n : g[j] \in S
    OBVIOUS
  <2> HIDE DEF S
  <2> QED
    BY <1>1, <2>1, LenProperties
<1>3. x \in S
  OBVIOUS
<1> HIDE DEF S
<1>4. /\ Append(g, x) \in Seq(S) /\ Len(Append(g, x)) = n + 1
      /\ \A j \in 1..n : Append(g, x)[j] = g[j]
      /\ Append(g, x)[n + 1] = x
  BY <1>2, <1>3, AppendProperties
<1>5. Append(g, x) \in [1..(n + 1) -> S]
  BY <1>4, LenProperties
<1> QED
  BY <1>2, <1>4, <1>5

\* Sizes and places.
LEMMA InTheText ==
    ASSUME text \in Seq(Lines), NEW s, Read(s)
    PROVE  /\ Len(text) \in Nat /\ DOMAIN text = 1..Len(text)
           /\ s \in Seq(Nat) /\ Len(s) \in Nat /\ DOMAIN s = 1..Len(s)
           /\ Len(blocks) \in Nat /\ DOMAIN blocks = 1..Len(blocks)
           /\ current = <<>> => Len(s) = Len(blocks)
           /\ current # <<>> => current = <<current[1]>> /\ Len(s) = Len(blocks) + 1
           /\ \A b \in DOMAIN s :
                 /\ s[b] \in DOMAIN text
                 /\ last(text, s, b) \in DOMAIN text
                 /\ size(text, current_terminated, s, b) \in Nat
                 /\ \A j \in insts_of(s, b) :
                       /\ j \in Nat /\ s[b] + j \in DOMAIN text
                       /\ s[b] + j \in s[b]..last(text, s, b)
                       /\ s[b] + j # s[b]
                       /\ open(current_terminated, s, b) \/ s[b] + j # last(text, s, b)
<1>1. /\ Len(text) \in Nat /\ DOMAIN text = 1..Len(text)
      /\ Len(s) \in Nat /\ DOMAIN s = 1..Len(s)
      /\ \A b \in DOMAIN s :
            /\ s[b] \in 1..Len(text)
            /\ last(text, s, b) \in s[b]..Len(text)
  BY BlockPlaces DEF Read
<1>2. s \in Seq(Nat)
  BY DEF Read, Starts
<1>3. Len(blocks) \in Nat /\ DOMAIN blocks = 1..Len(blocks)
  BY LenProperties DEF Read, BlocksRead
<1>4. current = <<>> => Len(s) = Len(blocks)
  <2> SUFFICES ASSUME current = <<>> PROVE Len(s) = Len(blocks)
    OBVIOUS
  <2>1. Len(current) = 0 /\ Len(s) = Len(blocks) + Len(current)
    BY EmptySeq DEF Read, BlocksRead
  <2> QED
    BY <1>3, <2>1
<1>5. current # <<>> => current = <<current[1]>> /\ Len(s) = Len(blocks) + 1
  <2> SUFFICES ASSUME current # <<>> PROVE current = <<current[1]>> /\ Len(s) = Len(blocks) + 1
    OBVIOUS
  <2>1. current = <<current[1]>> /\ Len(s) = Len(blocks) + Len(current)
    BY DEF Read, BlocksRead
  <2>2. Len(<<current[1]>>) = 1
    OBVIOUS
  <2>3. Len(current) = 1
    BY <2>1, <2>2
  <2> QED
    BY <2>1, <2>3
<1>6. ASSUME NEW b \in DOMAIN s
      PROVE  /\ s[b] \in DOMAIN text
             /\ last(text, s, b) \in DOMAIN text
             /\ size(text, current_terminated, s, b) \in Nat
             /\ \A j \in insts_of(s, b) :
                   /\ j \in Nat /\ s[b] + j \in DOMAIN text
                   /\ s[b] + j \in s[b]..last(text, s, b)
                   /\ s[b] + j # s[b]
                   /\ open(current_terminated, s, b) \/ s[b] + j # last(text, s, b)
  <2> DEFINE e == last(text, s, b)
             sz == size(text, current_terminated, s, b)
  <2>1. s[b] \in 1..Len(text) /\ e \in s[b]..Len(text)
    BY <1>1
  <2>2. s[b] \in Nat /\ e \in Nat /\ s[b] >= 1 /\ s[b] <= e /\ e <= Len(text)
    BY <1>1, <2>1
  <2>3. s[b] \in s[b]..e /\ e \in s[b]..e
    BY <2>2
  <2>4. ~open(current_terminated, s, b) => e # s[b]
    <3>1. text[s[b]].op = "block"
      BY <2>3 DEF Read, LinesFit
    <3>2. ~is_terminator(text[s[b]])
      BY <3>1 DEF is_terminator
    <3>3. ~open(current_terminated, s, b) => is_terminator(text[e])
      BY <2>3 DEF Read, LinesFit
    <3> QED
      BY <3>2, <3>3
  <2>5. /\ open(current_terminated, s, b) => sz = e - s[b]
        /\ ~open(current_terminated, s, b) => sz = e - s[b] - 1
    BY <2>2 DEF size
  <2> HIDE DEF e, sz
  <2>6. sz \in Nat
    BY <2>2, <2>4, <2>5
  <2>7. insts_of(s, b) = 1..sz
    BY DEF insts_of, sz
  <2>8. ASSUME NEW j \in 1..sz
        PROVE  /\ j \in Nat /\ s[b] + j \in 1..Len(text)
               /\ s[b] + j \in s[b]..e
               /\ s[b] + j # s[b]
               /\ open(current_terminated, s, b) \/ s[b] + j # e
    BY <1>1, <2>2, <2>5, <2>6
  <2> QED
    BY <1>1, <2>1, <2>2, <2>6, <2>7, <2>8 DEF e, sz
<1> QED
  BY <1>1, <1>2, <1>3, <1>4, <1>5, <1>6

\* A finished block stays as it is while other lines are read.
LEMMA BlockKept ==
    ASSUME NEW s, NEW b, BlockRead(s, b), NEW z,
           z[b] = s[b], text'[s[b]] = text[s[b]], block_at(b)' = block_at(b),
           open(current_terminated', z, b) <=> open(current_terminated, s, b),
           insts_of(z, b)' = insts_of(s, b),
           \A j \in insts_of(s, b) : text'[s[b] + j] = text[s[b] + j],
           ~open(current_terminated, s, b) =>
               text'[last(text', z, b)] = text[last(text, s, b)],
           labels \subseteq labels',
           Range(pending_phis) \subseteq Range(pending_phis'),
           Range(pending_terms) \subseteq Range(pending_terms')
    PROVE  BlockRead(z, b)'
<1>1. /\ (block_at(b) = [id |-> parse_block_id[text[z[b]].label],
                         insts |-> block_at(b).insts, term |-> block_at(b).term])'
      /\ (block_at(b).insts = [j \in insts_of(z, b) |-> block_at(b).insts[j]])'
  BY DEF BlockRead
<1>2. ASSUME NEW j \in insts_of(z, b)' PROVE InstRead(z, b, j)'
  BY DEF BlockRead, InstRead
<1>3. ~open(current_terminated, z, b)' => TermRead(z, b)'
  BY DEF BlockRead, TermRead
<1> QED
  BY <1>1, <1>2, <1>3 DEF BlockRead

\* A block is closed or open.
LEMMA ClosedOrOpen ==
    ASSUME NEW s, LinesFit(text, current_terminated, s)
    PROVE  /\ current_terminated => LinesFit(text, TRUE, s)
           /\ ~current_terminated => LinesFit(text, FALSE, s)
<1>1. ASSUME current_terminated PROVE LinesFit(text, TRUE, s)
  <2>1. \A b \in DOMAIN s : open(TRUE, s, b) <=> open(current_terminated, s, b)
    BY <1>1 DEF open
  <2> QED
    BY <2>1 DEF LinesFit
<1>2. ASSUME ~current_terminated PROVE LinesFit(text, FALSE, s)
  <2>1. \A b \in DOMAIN s : open(FALSE, s, b) <=> open(current_terminated, s, b)
    BY <1>2 DEF open
  <2> QED
    BY <2>1 DEF LinesFit
<1> QED
  BY <1>1, <1>2

\* Some of the text has been read when there is a block.
LEMMA SomeRead ==
    ASSUME text \in Seq(Lines), NEW s, Read(s)
    PROVE  /\ current # <<>> => s # <<>> /\ text # <<>>
           /\ text # <<>> => s # <<>>
           /\ s # <<>> => text # <<>>
<1>1. /\ Len(text) \in Nat /\ DOMAIN text = 1..Len(text)
      /\ Len(s) \in Nat /\ DOMAIN s = 1..Len(s) /\ Len(blocks) \in Nat
      /\ current # <<>> => Len(s) = Len(blocks) + 1
      /\ \A b \in DOMAIN s : s[b] \in DOMAIN text
  BY InTheText
<1>2. current # <<>> => s # <<>>
  BY <1>1, EmptySeq
<1>3. s # <<>> => text # <<>>
  <2> SUFFICES ASSUME s # <<>> PROVE text # <<>>
    OBVIOUS
  <2>1. Len(text) \in DOMAIN text
    <3>1. Starts(text, s)
      BY DEF Read
    <3> QED
      BY <3>1, LastBlock
  <2>2. Len(text) \in 1..Len(text) /\ Len(text) \in Nat
    BY <1>1, <2>1
  <2>3. Len(text) # 0
    BY <2>2
  <2> QED
    BY <2>3, EmptySeq
<1>4. text # <<>> => s # <<>>
  BY DEF Read, Starts
<1> QED
  BY <1>2, <1>3, <1>4

\* The labels are those of the block lines.
LEMMA LabelIsRead ==
    ASSUME NEW s, Read(s)
    PROVE  DOMAIN label_to_id = {text[n].label : n \in starts_in(text)}
<1>1. label_to_id = [l \in labels |-> parse_block_id[l]]
  BY DEF Read, LabelsRead
<1> QED
  BY <1>1 DEF labels, block_lines, starts_in

\* A block line that parse refuses is wrong.
LEMMA BlockRefused ==
    ASSUME PInv, phase = "lines", NEW line \in Lines, text' = more(text, line),
           line.op = "block",
           \/ ~Parse!can_finish
           \/ parse_block_id[line.label] = NoId
           \/ line.label \in DOMAIN label_to_id
    PROVE  ~begins_well'
<1> SUFFICES ASSUME begun(text') PROVE FALSE
  BY WellFormedBegins
<1>1. text \in Seq(Lines) /\ phase # "done" /\ result # "error"
  BY DEF PInv, PhaseFits
<1>2. PICK s \in Seq(Nat) : Read(s)
  BY <1>1 DEF PInv
<1>3. Starts(text, s) /\ LinesFit(text, current_terminated, s)
  BY <1>2 DEF Read
<1>4. /\ Len(text) \in Nat /\ DOMAIN text = 1..Len(text)
      /\ \A n \in 1..Len(text) : text'[n] = text[n]
      /\ text'[Len(text) + 1] = line
  BY <1>1, OneLineMore
<1>5. starts_in(text') = starts_in(text) \cup {Len(text) + 1}
  <2> DEFINE z == more(s, Len(text) + 1)
             u == text'
  <2>1. u = more(text, line) /\ z = more(s, Len(text) + 1)
    OBVIOUS
  <2> HIDE DEF z, u
  <2>2. starts_in(u) = starts_in(text) \cup {Len(text) + 1}
    BY <1>1, <1>3, <2>1, OneMoreBlock
  <2> QED
    BY <2>2 DEF u
<1>6. CASE ~Parse!can_finish
  <2>1. current # <<>> /\ ~current_terminated
    BY <1>6 DEF Parse!can_finish
  <2>2. s # <<>> /\ LinesFit(text, FALSE, s)
    <3>1. s # <<>>
      BY <1>1, <1>2, <2>1, SomeRead
    <3>2. LinesFit(text, FALSE, s)
      BY <1>3, <2>1, ClosedOrOpen
    <3> QED
      BY <3>1, <3>2
  <2>3. ~begun(text')
    <3> DEFINE u == text'
    <3>1. u = more(text, line)
      OBVIOUS
    <3> HIDE DEF u
    <3>2. ~begun(u)
      BY <1>1, <1>3, <2>2, <3>1, OpenBeforeBlock
    <3> QED
      BY <3>2 DEF u
  <2> QED
    BY <2>3
<1>7. CASE parse_block_id[line.label] = NoId
  <2>1. Len(text) + 1 \in starts_in(text')
    BY <1>5
  <2> QED
    BY <1>4, <1>7, <2>1 DEF begun
<1>8. CASE line.label \in DOMAIN label_to_id
  <2>1. PICK n \in starts_in(text) : text[n].label = line.label
    BY <1>2, <1>8, LabelIsRead
  <2>2. n \in 1..Len(text) /\ n # Len(text) + 1
    BY <1>4 DEF starts_in
  <2>3. text'[n].label = text'[Len(text) + 1].label
    BY <1>4, <2>1, <2>2
  <2>4. n \in starts_in(text') /\ Len(text) + 1 \in starts_in(text')
    BY <1>5
  <2> QED
    BY <2>2, <2>3, <2>4 DEF begun
<1> QED
  BY <1>6, <1>7, <1>8

\* The label of a new block is read with it.
LEMMA BlockLabel ==
    ASSUME PInv, NEW s, Read(s), NEW line \in Lines, text' = more(text, line),
           line.op = "block", starts_in(text') = starts_in(text) \cup {Len(text) + 1},
           parse_block_id[line.label] # NoId,
           line.label \notin DOMAIN label_to_id,
           label_to_id' = [l \in DOMAIN label_to_id \cup {line.label} |->
               IF l = line.label THEN parse_block_id[line.label] ELSE label_to_id[l]]
    PROVE  LabelsRead' /\ labels \subseteq labels'
<1> DEFINE kb == Len(text) + 1
<1>1. /\ Len(text) \in Nat /\ DOMAIN text = 1..Len(text)
      /\ \A n \in 1..Len(text) : text'[n] = text[n]
      /\ text'[kb] = line
  <2>1. text \in Seq(Lines)
    BY DEF PInv
  <2> QED
    BY ONLY <2>1, line \in Lines, text' = more(text, line), OneLineMore
<1>2. /\ label_to_id = [l \in labels |-> parse_block_id[l]]
      /\ \A n \in block_lines : parse_block_id[text[n].label] # NoId
      /\ \A n, m \in block_lines : text[n].label = text[m].label => n = m
  BY DEF Read, LabelsRead
<1>3. block_lines = starts_in(text) /\ block_lines' = starts_in(text')
  BY DEF block_lines, starts_in
<1>4. \A n \in starts_in(text) : n # kb /\ text'[n] = text[n]
  BY <1>1 DEF starts_in
<1> HIDE DEF kb
<1>5. starts_in(text') = starts_in(text) \cup {kb}
  BY DEF kb
<1>6. labels' = labels \cup {line.label}
  <2>1. ASSUME NEW l \in labels' PROVE l \in labels \cup {line.label}
    <3>1. PICK n \in starts_in(text') : l = text'[n].label
      BY <1>3 DEF labels
    <3>2. n = kb \/ n \in starts_in(text)
      BY <1>5, <3>1
    <3> QED
      BY <1>1, <1>3, <1>4, <3>1, <3>2 DEF labels
  <2>2. ASSUME NEW l \in labels PROVE l \in labels'
    <3>1. PICK n \in starts_in(text) : l = text[n].label
      BY <1>3 DEF labels
    <3>2. n \in starts_in(text') /\ l = text'[n].label
      BY <1>4, <1>5, <3>1
    <3> QED
      BY <1>3, <3>2 DEF labels
  <2>3. line.label \in labels'
    <3>1. kb \in starts_in(text') /\ line.label = text'[kb].label
      BY <1>1, <1>5
    <3> QED
      BY <1>3, <3>1 DEF labels
  <2> QED
    BY <2>1, <2>2, <2>3
<1>7. label_to_id' = [l \in labels' |-> parse_block_id[l]]
  <2>1. DOMAIN label_to_id = labels /\ \A l \in labels : label_to_id[l] = parse_block_id[l]
    BY <1>2
  <2> QED
    BY <1>6, <2>1
<1>8. \A n \in starts_in(text') : parse_block_id[text'[n].label] # NoId
  BY <1>1, <1>2, <1>3, <1>4, <1>5
<1>9. ASSUME NEW n \in starts_in(text'), NEW m \in starts_in(text'),
             text'[n].label = text'[m].label
      PROVE  n = m
  <2>1. \A h \in starts_in(text) : text'[h].label # line.label
    BY <1>2, <1>3, <1>4 DEF labels
  <2>2. CASE n = kb \/ m = kb
    BY <1>1, <1>5, <1>9, <2>1, <2>2
  <2>3. CASE n # kb /\ m # kb
    BY <1>2, <1>3, <1>4, <1>5, <1>9, <2>3
  <2> QED
    BY <2>2, <2>3
<1> QED
  BY <1>3, <1>6, <1>7, <1>8, <1>9 DEF LabelsRead

\* The places put aside stay where they are while lines are read.
LEMMA AsideKept ==
    ASSUME NEW s, NEW z, PutAside(s), DOMAIN s \subseteq DOMAIN z,
           \A b \in DOMAIN s :
               /\ z[b] = s[b]
               /\ insts_of(s, b) \subseteq insts_of(z, b)'
               /\ \A j \in insts_of(s, b) : text'[s[b] + j] = text[s[b] + j]
               /\ ~open(current_terminated, s, b) =>
                      /\ ~open(current_terminated', z, b)
                      /\ text'[last(text', z, b)] = text[last(text, s, b)]
    PROVE  /\ \A p \in Range(pending_phis) :
                 \E b \in DOMAIN z : \E j \in insts_of(z, b)' :
                    p = <<b, j, text'[z[b] + j]>> /\ text'[z[b] + j].op = "phi"
           /\ \A p \in Range(pending_terms) :
                 \E b \in DOMAIN z :
                    ~open(current_terminated', z, b) /\ p = <<b, text'[last(text', z, b)]>>
<1>1. ASSUME NEW p \in Range(pending_phis)
      PROVE  \E b \in DOMAIN z : \E j \in insts_of(z, b)' :
                p = <<b, j, text'[z[b] + j]>> /\ text'[z[b] + j].op = "phi"
  <2>1. PICK b \in DOMAIN s : \E j \in insts_of(s, b) :
            p = <<b, j, text[s[b] + j]>> /\ text[s[b] + j].op = "phi"
    BY DEF PutAside
  <2>2. PICK j \in insts_of(s, b) :
            p = <<b, j, text[s[b] + j]>> /\ text[s[b] + j].op = "phi"
    BY <2>1
  <2>3. b \in DOMAIN z /\ j \in insts_of(z, b)' /\ z[b] = s[b] /\ text'[s[b] + j] = text[s[b] + j]
    BY <2>2
  <2> QED
    BY <2>2, <2>3
<1>2. ASSUME NEW p \in Range(pending_terms)
      PROVE  \E b \in DOMAIN z :
                ~open(current_terminated', z, b) /\ p = <<b, text'[last(text', z, b)]>>
  <2>1. PICK b \in DOMAIN s :
            ~open(current_terminated, s, b) /\ p = <<b, text[last(text, s, b)]>>
    BY DEF PutAside
  <2>2. b \in DOMAIN z /\ ~open(current_terminated', z, b)
        /\ text'[last(text', z, b)] = text[last(text, s, b)]
    BY <2>1
  <2> QED
    BY <2>1, <2>2
<1> QED
  BY <1>1, <1>2

\* The elements of a sequence make it one.
LEMMA SeqOfItsOwn ==
    ASSUME NEW S, NEW g \in Seq(S)
    PROVE  g \in Seq(Range(g))
<1>1. Len(g) \in Nat /\ g \in [1..Len(g) -> S] /\ DOMAIN g = 1..Len(g)
  BY LenProperties
<1>2. \A j \in 1..Len(g) : g[j] \in Range(g)
  BY <1>1 DEF Range
<1>3. g = [j \in 1..Len(g) |-> g[j]]
  BY <1>1
<1>4. g \in [1..Len(g) -> Range(g)]
  BY <1>1, <1>2
<1> QED
  BY <1>1, <1>4

\* A finished block is put at the end of blocks.
LEMMA BlockFinished ==
    ASSUME text \in Seq(Lines), NEW s, Read(s), NEW bs, bs = blocks \o current
    PROVE  /\ bs \in Seq(Range(bs)) /\ Len(bs) = Len(s)
           /\ \A b \in DOMAIN s : bs[b] = block_at(b)
<1> DEFINE S == Range(blocks) \cup {current[1]}
<1>1. /\ Len(blocks) \in Nat /\ DOMAIN blocks = 1..Len(blocks)
      /\ current = <<>> => Len(s) = Len(blocks)
      /\ current # <<>> => current = <<current[1]>> /\ Len(s) = Len(blocks) + 1
      /\ Len(s) \in Nat /\ DOMAIN s = 1..Len(s)
  BY InTheText
<1>2. blocks \in Seq(Range(blocks))
  BY DEF Read, BlocksRead
<1>3. CASE current = <<>>
  <2>1. bs = blocks
    BY <1>2, <1>3, ConcatEmptySeq
  <2>2. \A b \in DOMAIN s : block_at(b) = blocks[b]
    BY <1>1, <1>3 DEF block_at
  <2> QED
    BY <1>1, <1>2, <1>3, <2>1, <2>2
<1>4. CASE current # <<>>
  <2>1. blocks \in Seq(S)
    <3> DEFINE T == Range(blocks)
    <3>1. T \subseteq S /\ blocks \in Seq(T)
      BY <1>2
    <3> HIDE DEF S, T
    <3>2. blocks \in [1..Len(blocks) -> T] /\ Len(blocks) \in Nat
      BY <3>1, LenProperties
    <3>3. blocks \in [1..Len(blocks) -> S]
      BY <3>1, <3>2
    <3> QED
      BY <3>2, <3>3
  <2>2. current \in Seq(S) /\ Len(current) = 1
    <3> DEFINE c == current[1]
    <3>1. c \in S /\ current = <<c>>
      BY <1>1, <1>4
    <3> HIDE DEF S, c
    <3>2. <<c>> \in Seq(S) /\ Len(<<c>>) = 1
      BY <3>1
    <3> QED
      BY <3>1, <3>2
  <2> HIDE DEF S
  <2>3. /\ bs \in Seq(S) /\ Len(bs) = Len(blocks) + Len(current)
        /\ \A i0 \in 1..(Len(blocks) + Len(current)) :
              bs[i0] = IF i0 <= Len(blocks) THEN blocks[i0] ELSE current[i0 - Len(blocks)]
    BY <2>1, <2>2, ConcatProperties
  <2>4. Len(bs) = Len(s)
    BY <1>1, <1>4, <2>2, <2>3
  <2>5. ASSUME NEW b \in DOMAIN s PROVE bs[b] = block_at(b)
    <3>1. b \in 1..(Len(blocks) + 1)
      BY <1>1, <1>4
    <3>2. b \in 1..(Len(blocks) + Len(current))
      BY <2>2, <3>1
    <3>3. bs[b] = IF b <= Len(blocks) THEN blocks[b] ELSE current[b - Len(blocks)]
      BY <2>3, <3>2
    <3>4. CASE b <= Len(blocks)
      BY <3>3, <3>4 DEF block_at
    <3>5. CASE ~(b <= Len(blocks))
      <4>1. b - Len(blocks) = 1
        <5> DEFINE n0 == Len(blocks)
        <5>1. n0 \in Nat /\ b \in 1..(n0 + 1) /\ ~(b <= n0)
          BY <1>1, <3>1, <3>5
        <5> HIDE DEF n0
        <5>2. b = n0 + 1
          BY <5>1
        <5>3. b - n0 = 1
          BY <5>1, <5>2
        <5> QED
          BY <5>3 DEF n0
      <4>2. bs[b] = current[1]
        BY <3>3, <3>5, <4>1
      <4> QED
        BY <3>5, <4>2 DEF block_at
    <3> QED
      BY <3>4, <3>5
  <2>6. bs \in Seq(Range(bs))
    BY <2>3, SeqOfItsOwn
  <2> QED
    BY <2>4, <2>5, <2>6
<1> QED
  BY <1>3, <1>4

\* A block line starts the next block; the one before is finished.
LEMMA NewBlock ==
    ASSUME text \in Seq(Lines), NEW s, Read(s), s = <<>> \/ current_terminated,
           NEW line \in Lines, text' = more(text, line), line.op = "block",
           LabelsRead', labels \subseteq labels',
           blocks' = blocks \o current,
           current' = <<[id |-> parse_block_id[line.label], insts |-> <<>>,
                         term |-> Jmp(parse_block_id[line.label])]>>,
           current_terminated' = FALSE,
           UNCHANGED <<pending_phis, pending_terms>>
    PROVE  \E z \in Seq(Nat) : Read(z)'
<1> DEFINE e == Len(s) + 1
<1>1. Starts(text, s) /\ LinesFit(text, current_terminated, s) /\ PutAside(s)
  BY DEF Read
<1>A. PICK z : z = more(s, Len(text) + 1)
  OBVIOUS
<1>B. PICK u : u = text'
  OBVIOUS
<1>2. z = more(s, Len(text) + 1) /\ u = more(text, line)
  BY <1>A, <1>B
<1>3. /\ z \in Seq(Nat) /\ Len(z) = Len(s) + 1 /\ DOMAIN z = 1..(Len(s) + 1)
      /\ Len(s) \in Nat /\ DOMAIN s = 1..Len(s)
      /\ \A b \in DOMAIN s : z[b] = s[b] /\ last(u, z, b) = last(text, s, b)
      /\ z[Len(s) + 1] = Len(text) + 1 /\ last(u, z, Len(s) + 1) = Len(text) + 1
      /\ starts_in(u) = starts_in(text) \cup {Len(text) + 1}
      /\ Starts(u, z)
  <2>1. /\ text \in Seq(Lines) /\ line \in Lines /\ u = more(text, line) /\ Starts(text, s)
        /\ z = more(s, Len(text) + 1) /\ line.op = "block"
    BY <1>1, <1>2
  <2>2. Starts(u, z) /\ starts_in(u) = starts_in(text) \cup {Len(text) + 1}
    BY <2>1, OneMoreBlock
  <2>3. z \in Seq(Nat) /\ Len(z) = Len(s) + 1 /\ DOMAIN z = 1..(Len(s) + 1)
    BY <2>1, OneMoreBlock
  <2>4. Len(s) \in Nat /\ DOMAIN s = 1..Len(s)
    BY <2>1, OneMoreBlock
  <2>5. \A b \in DOMAIN s : z[b] = s[b] /\ last(u, z, b) = last(text, s, b)
    BY <2>1, OneMoreBlock
  <2>6. z[Len(s) + 1] = Len(text) + 1 /\ last(u, z, Len(s) + 1) = Len(text) + 1
    BY <2>1, OneMoreBlock
  <2> QED
    BY <2>2, <2>3, <2>4, <2>5, <2>6
<1>4. LinesFit(u, FALSE, z)
  <2>1. LinesFit(text, TRUE, s)
    <3>1. CASE current_terminated
      BY <1>1, <3>1, ClosedOrOpen
    <3>2. CASE s = <<>>
      <4>1. DOMAIN s = {}
        BY <3>2
      <4> QED
        BY <1>1, <4>1 DEF LinesFit
    <3> QED
      BY <3>1, <3>2
  <2> QED
    BY <1>1, <1>2, <2>1, OneMoreBlockFits
<1>5. /\ Len(text) \in Nat /\ DOMAIN text = 1..Len(text)
      /\ \A n \in 1..Len(text) : u[n] = text[n]
      /\ u[Len(text) + 1] = line
  BY <1>2, OneLineMore
<1>6. /\ blocks' \in Seq(Range(blocks')) /\ Len(blocks') = Len(s)
      /\ \A b \in DOMAIN s : blocks'[b] = block_at(b)
  <2> DEFINE bs == blocks'
  <2>1. bs = blocks \o current
    OBVIOUS
  <2> HIDE DEF bs
  <2>2. /\ bs \in Seq(Range(bs)) /\ Len(bs) = Len(s)
        /\ \A b \in DOMAIN s : bs[b] = block_at(b)
    BY <2>1, BlockFinished
  <2> QED
    BY <2>2 DEF bs
<1>7. ASSUME NEW b \in DOMAIN s
      PROVE  /\ b \in DOMAIN z /\ z[b] = s[b] /\ block_at(b)' = block_at(b)
             /\ ~open(current_terminated, s, b) /\ ~open(current_terminated', z, b)
             /\ insts_of(z, b)' = insts_of(s, b)
             /\ u[s[b]] = text[s[b]]
             /\ \A j \in insts_of(s, b) : u[s[b] + j] = text[s[b] + j]
             /\ u[last(u, z, b)] = text[last(text, s, b)]
  <2>1. b \in Nat /\ b <= Len(s) /\ b \in DOMAIN z /\ s # <<>> /\ z[b] = s[b]
        /\ last(u, z, b) = last(text, s, b)
    <3>1. b \in 1..Len(s)
      BY <1>3
    <3>2. s # <<>>
      BY <1>3, <3>1, EmptySeq
    <3> QED
      BY <1>3, <3>1, <3>2
  <2>2. block_at(b)' = block_at(b)
    BY <1>6, <2>1 DEF block_at
  <2>3. ~open(current_terminated, s, b) /\ ~open(current_terminated', z, b)
    BY <1>3, <2>1 DEF open
  <2>4. insts_of(z, b)' = insts_of(s, b)
    BY <1>B, <2>1, <2>3 DEF insts_of, size
  <2>5. s[b] \in 1..Len(text) /\ last(text, s, b) \in 1..Len(text)
        /\ \A j \in insts_of(s, b) : s[b] + j \in 1..Len(text)
    BY <1>5, InTheText
  <2> QED
    BY <1>5, <2>1, <2>2, <2>3, <2>4, <2>5
<1>8. ASSUME NEW b \in DOMAIN s PROVE BlockRead(z, b)'
  <2>1. BlockRead(s, b)
    BY DEF Read, BlocksRead
  <2>2. /\ z[b] = s[b] /\ text'[s[b]] = text[s[b]] /\ block_at(b)' = block_at(b)
        /\ open(current_terminated', z, b) <=> open(current_terminated, s, b)
        /\ insts_of(z, b)' = insts_of(s, b)
        /\ \A j \in insts_of(s, b) : text'[s[b] + j] = text[s[b] + j]
        /\ text'[last(text', z, b)] = text[last(text, s, b)]
    BY <1>B, <1>7
  <2>3. /\ Range(pending_phis) \subseteq Range(pending_phis')
        /\ Range(pending_terms) \subseteq Range(pending_terms')
    OBVIOUS
  <2> QED
    BY <2>1, <2>2, <2>3, BlockKept
<1>9. BlockRead(z, e)'
  <2>1. e \in Nat /\ e > Len(s) /\ z[e] = Len(text) + 1 /\ last(u, z, e) = Len(text) + 1
    BY <1>3
  <2>2. block_at(e)' = [id |-> parse_block_id[line.label], insts |-> <<>>,
                        term |-> Jmp(parse_block_id[line.label])]
    BY <1>6, <2>1 DEF block_at
  <2>3. open(current_terminated', z, e)
    BY <1>3 DEF open
  <2>4. insts_of(z, e)' = {}
    <3>1. size(u, current_terminated', z, e) = 0
      BY <1>5, <2>1, <2>3 DEF size
    <3> QED
      BY <1>B, <3>1 DEF insts_of
  <2>5. u[z[e]] = line
    BY <1>5, <2>1
  <2>6. (block_at(e).insts = [j \in insts_of(z, e) |-> block_at(e).insts[j]])'
    <3>1. block_at(e)'.insts = <<>>
      BY <2>2
    <3>2. \A g : [j \in {} |-> g[j]] = <<>>
      OBVIOUS
    <3> QED
      BY <2>4, <3>1, <3>2
  <2>7. (block_at(e) = [id |-> parse_block_id[text[z[e]].label],
                        insts |-> block_at(e).insts, term |-> block_at(e).term])'
    BY <1>B, <2>2, <2>5
  <2> QED
    BY <2>3, <2>4, <2>6, <2>7 DEF BlockRead
<1>10. BlocksRead(z)'
  <2>1. \A b \in DOMAIN z : BlockRead(z, b)'
    <3> SUFFICES ASSUME NEW b \in DOMAIN z PROVE BlockRead(z, b)'
      OBVIOUS
    <3>1. b \in DOMAIN s \/ b = e
      BY <1>3
    <3> QED
      BY <1>8, <1>9, <3>1
  <2>2. current' = <<current'[1]>> /\ Len(current') = 1
    OBVIOUS
  <2>3. Len(z) = Len(blocks') + Len(current')
    BY <1>3, <1>6, <2>2
  <2> QED
    BY <1>6, <2>1, <2>2, <2>3 DEF BlocksRead
<1>11. PutAside(z)'
  <2>1. DOMAIN s \subseteq DOMAIN z
    BY <1>7
  <2>2. \A b \in DOMAIN s :
            /\ z[b] = s[b]
            /\ insts_of(s, b) \subseteq insts_of(z, b)'
            /\ \A j \in insts_of(s, b) : text'[s[b] + j] = text[s[b] + j]
            /\ ~open(current_terminated, s, b) =>
                   /\ ~open(current_terminated', z, b)
                   /\ text'[last(text', z, b)] = text[last(text, s, b)]
    BY <1>B, <1>7
  <2>3. /\ \A p \in Range(pending_phis) :
                 \E b \in DOMAIN z : \E j \in insts_of(z, b)' :
                    p = <<b, j, text'[z[b] + j]>> /\ text'[z[b] + j].op = "phi"
        /\ \A p \in Range(pending_terms) :
                 \E b \in DOMAIN z :
                    ~open(current_terminated', z, b) /\ p = <<b, text'[last(text', z, b)]>>
    BY <1>1, <2>1, <2>2, AsideKept
  <2> QED
    BY <1>1, <2>3 DEF PutAside
<1>12. Starts(text', z) /\ LinesFit(text', current_terminated', z)
  BY <1>B, <1>3, <1>4
<1>13. Read(z)'
  BY <1>10, <1>11, <1>12 DEF Read
<1> QED
  BY <1>3, <1>13

\* A line that parse refuses inside or outside a block is wrong.
LEMMA LineRefused ==
    ASSUME PInv, phase = "lines", NEW line \in Lines, text' = more(text, line),
           line.op # "block",
           current = <<>> \/ current_terminated \/ line.op = "bad"
    PROVE  ~begins_well'
<1> SUFFICES ASSUME begun(text') PROVE FALSE
  BY WellFormedBegins
<1>1. /\ text \in Seq(Lines) /\ result # "error"
      /\ text # <<>> => current # <<>>
  BY DEF PInv, PhaseFits
<1>2. PICK s \in Seq(Nat) : Read(s)
  BY <1>1 DEF PInv
<1>3. Starts(text, s) /\ LinesFit(text, current_terminated, s)
  BY <1>2 DEF Read
<1>A. PICK u : u = text'
  OBVIOUS
<1>4. /\ Len(text) \in Nat /\ DOMAIN u = 1..(Len(text) + 1)
      /\ u[Len(text) + 1] = line /\ u = more(text, line)
  BY <1>1, <1>A, OneLineMore
<1>5. CASE line.op = "bad"
  <2>1. Len(text) + 1 \in DOMAIN u
    BY <1>4
  <2> QED
    BY <1>4, <1>5, <1>A, <2>1 DEF begun
<1>6. CASE current = <<>>
  <2>1. Len(text) = 0
    BY <1>1, <1>6, EmptySeq
  <2>2. u[1] = line /\ 1 \in DOMAIN u
    BY <1>4, <2>1
  <2>3. u # <<>>
    BY <2>2, EmptySeq
  <2> QED
    BY <1>A, <2>2, <2>3 DEF begun
<1>7. CASE current # <<>> /\ current_terminated
  <2>1. s # <<>>
    BY <1>1, <1>2, <1>7, SomeRead
  <2>2. LinesFit(text, TRUE, s)
    BY <1>3, <1>7, ClosedOrOpen
  <2>3. ~begun(u)
    BY <1>1, <1>3, <1>4, <2>1, <2>2, ClosedBeforeLine
  <2> QED
    BY <1>A, <2>3
<1> QED
  BY <1>5, <1>6, <1>7

\* A line goes to the block being read.
LEMMA SameBlock ==
    ASSUME text \in Seq(Lines), NEW s, Read(s), current # <<>>, ~current_terminated,
           NEW line \in Lines, text' = more(text, line), line.op # "block",
           line.op # "bad", UNCHANGED label_to_id
    PROVE  /\ Starts(text', s) /\ LinesFit(text', is_terminator(line), s)
           /\ LabelsRead' /\ labels' = labels
           /\ Len(s) = Len(blocks) + 1 /\ Len(s) \in DOMAIN s /\ DOMAIN s = 1..Len(s)
           /\ Len(text) \in Nat /\ text'[Len(text) + 1] = line
           /\ last(text', s, Len(s)) = Len(text) + 1
           /\ last(text, s, Len(s)) = Len(text)
           /\ \A b \in DOMAIN s :
                 /\ text'[s[b]] = text[s[b]]
                 /\ \A j \in insts_of(s, b) : text'[s[b] + j] = text[s[b] + j]
                 /\ b # Len(s) => /\ ~open(current_terminated, s, b)
                                  /\ last(text', s, b) = last(text, s, b)
                                  /\ text'[last(text, s, b)] = text[last(text, s, b)]
<1>1. /\ Starts(text, s) /\ LinesFit(text, current_terminated, s)
      /\ LabelsRead
  BY DEF Read
<1>A. PICK u : u = text'
  OBVIOUS
<1>2. u = more(text, line)
  BY <1>A
<1>3. s # <<>> /\ LinesFit(text, FALSE, s)
  <2>1. s # <<>>
    BY SomeRead
  <2>2. LinesFit(text, FALSE, s)
    BY <1>1, ClosedOrOpen
  <2> QED
    BY <2>1, <2>2
<1>4. Starts(u, s) /\ starts_in(u) = starts_in(text)
  BY <1>1, <1>2, <1>3, OneMoreOfBlock
<1>5. LinesFit(u, is_terminator(line), s)
  BY <1>1, <1>2, <1>3, OneMoreFits
<1>6. /\ Len(text) \in Nat /\ DOMAIN text = 1..Len(text)
      /\ \A n \in 1..Len(text) : u[n] = text[n]
      /\ u[Len(text) + 1] = line
  BY <1>2, OneLineMore
<1>7. /\ Len(s) \in DOMAIN s /\ DOMAIN s = 1..Len(s) /\ Len(s) = Len(blocks) + 1
      /\ last(text, s, Len(s)) = Len(text)
  <2>1. Len(s) \in DOMAIN s /\ last(text, s, Len(s)) = Len(text)
    BY <1>1, <1>3, LastBlock
  <2>2. Len(s) = Len(blocks) + 1 /\ DOMAIN s = 1..Len(s)
    BY InTheText
  <2> QED
    BY <2>1, <2>2
<1>8. \A b \in DOMAIN s : /\ b = Len(s) => last(u, s, b) = Len(text) + 1
                          /\ b # Len(s) => last(u, s, b) = last(text, s, b)
  BY <1>1, <1>2, <1>3, OneMoreOfBlock
<1>9. ASSUME NEW b \in DOMAIN s
      PROVE  /\ u[s[b]] = text[s[b]]
             /\ \A j \in insts_of(s, b) : u[s[b] + j] = text[s[b] + j]
             /\ b # Len(s) => /\ ~open(current_terminated, s, b)
                              /\ last(u, s, b) = last(text, s, b)
                              /\ u[last(text, s, b)] = text[last(text, s, b)]
  <2>1. s[b] \in 1..Len(text) /\ last(text, s, b) \in 1..Len(text)
        /\ \A j \in insts_of(s, b) : s[b] + j \in 1..Len(text)
    BY <1>6, InTheText
  <2>2. b # Len(s) => ~open(current_terminated, s, b)
    BY DEF open
  <2> QED
    BY <1>6, <1>8, <2>1, <2>2
<1>10. block_lines' = starts_in(u) /\ block_lines = starts_in(text)
  BY <1>A DEF block_lines, starts_in
<1>11. \A n \in starts_in(text) : u[n] = text[n]
  BY <1>6 DEF starts_in
<1>12. labels' = labels
  <2>1. \A l : l \in labels' <=> l \in labels
    BY <1>4, <1>10, <1>11, <1>A DEF labels
  <2> QED
    BY <2>1
<1>13. LabelsRead'
  BY <1>1, <1>4, <1>10, <1>11, <1>12, <1>A DEF LabelsRead
<1>14. last(u, s, Len(s)) = Len(text) + 1
  BY <1>7, <1>8
<1> QED
  BY <1>4, <1>5, <1>6, <1>7, <1>9, <1>12, <1>13, <1>14, <1>A

\* One entry more is put aside.
LEMMA OneMoreAside ==
    ASSUME NEW q, q \in Seq(Range(q)), NEW p
    PROVE  /\ more(q, p) \in Seq(Range(more(q, p)))
           /\ Range(more(q, p)) = Range(q) \cup {p}
<1> DEFINE S == Range(q) \cup {p}
           r == more(q, p)
<1>1. Len(q) \in Nat /\ DOMAIN q = 1..Len(q) /\ q \in [1..Len(q) -> Range(q)]
  BY LenProperties
<1>2. q \in Seq(S)
  <2>1. Range(q) \subseteq S
    OBVIOUS
  <2> HIDE DEF S
  <2>2. q \in [1..Len(q) -> S]
    BY <1>1, <2>1
  <2> QED
    BY <1>1, <2>2
<1>3. p \in S
  OBVIOUS
<1> HIDE DEF S
<1> HIDE DEF r
<1>4. /\ r \in Seq(S) /\ Len(r) = Len(q) + 1
      /\ \A n \in 1..Len(q) : r[n] = q[n]
      /\ r[Len(q) + 1] = p
  BY <1>2, <1>3, AppendProperties DEF r, more
<1>5. DOMAIN r = 1..(Len(q) + 1)
  BY <1>4, LenProperties
<1>6. r \in Seq(Range(r))
  BY <1>4, SeqOfItsOwn
<1>7. ASSUME NEW y \in Range(r) PROVE y \in Range(q) \/ y = p
  <2>1. PICK n \in 1..(Len(q) + 1) : y = r[n]
    BY <1>5 DEF Range
  <2>2. CASE n = Len(q) + 1
    BY <1>4, <2>1, <2>2
  <2>3. CASE n # Len(q) + 1
    <3>1. n \in 1..Len(q)
      BY <1>1, <2>3
    <3> QED
      BY <1>1, <1>4, <2>1, <3>1 DEF Range
  <2> QED
    BY <2>2, <2>3
<1>8. ASSUME NEW y \in Range(q) PROVE y \in Range(r)
  <2>1. PICK n \in 1..Len(q) : y = q[n]
    BY <1>1 DEF Range
  <2>2. n \in 1..(Len(q) + 1) /\ y = r[n]
    BY <1>1, <1>4, <2>1
  <2> QED
    BY <1>5, <2>2 DEF Range
<1>9. p \in Range(r)
  <2>1. Len(q) + 1 \in 1..(Len(q) + 1)
    BY <1>1
  <2> QED
    BY <1>4, <1>5, <2>1 DEF Range
<1>10. Range(r) = Range(q) \cup {p}
  BY <1>7, <1>8, <1>9
<1> QED
  BY <1>6, <1>10 DEF r

\* A block with other instructions.
LEMMA InstsReplaced ==
    ASSUME NEW d, NEW n, NEW g, NEW e, d = [id |-> n, insts |-> g, term |-> e], NEW y
    PROVE  [d EXCEPT !.insts = y] = [id |-> n, insts |-> y, term |-> e]
OBVIOUS

\* The block being read with one instruction more.
with_inst(c, x) == [c EXCEPT ![1].insts = Append(@, x)]

LEMMA OneMoreInst ==
    ASSUME text \in Seq(Lines), NEW s, Read(s), current # <<>>, NEW x,
           current' = with_inst(current, x),
           NEW sz \in Nat, insts_of(s, Len(s)) = 1..sz
    PROVE  /\ current' = <<current'[1]>>
           /\ current'[1] = [id |-> parse_block_id[text[s[Len(s)]].label],
                             insts |-> current'[1].insts, term |-> current'[1].term]
           /\ current'[1].insts = [j \in 1..(sz + 1) |-> current'[1].insts[j]]
           /\ \A j \in 1..sz : current'[1].insts[j] = current[1].insts[j]
           /\ current'[1].insts[sz + 1] = x
           /\ Len(current[1].insts) = sz
<1> DEFINE kb == Len(s)
           c == current[1]
<1>1. /\ current = <<c>> /\ Len(s) = Len(blocks) + 1 /\ Len(blocks) \in Nat
      /\ DOMAIN s = 1..Len(s) /\ Len(s) \in Nat
  BY InTheText
<1>2. kb \in DOMAIN s /\ block_at(kb) = c
  BY <1>1 DEF block_at
<1>3. BlockRead(s, kb)
  BY <1>2 DEF Read, BlocksRead
<1>4. /\ c = [id |-> parse_block_id[text[s[kb]].label], insts |-> c.insts, term |-> c.term]
      /\ c.insts = [j \in 1..sz |-> c.insts[j]]
  BY <1>2, <1>3 DEF BlockRead
<1>A. PICK d : d = c
  OBVIOUS
<1>5. current' = <<[d EXCEPT !.insts = Append(d.insts, x)]>>
  <2>1. current = <<d>>
    BY <1>1, <1>A
  <2>2. current' = [<<d>> EXCEPT ![1] = [d EXCEPT !.insts = Append(d.insts, x)]]
    BY <2>1 DEF with_inst
  <2>3. \A y : [<<d>> EXCEPT ![1] = y] = <<y>>
    OBVIOUS
  <2> QED
    BY <2>2, <2>3
<1>6. d = [id |-> parse_block_id[text[s[kb]].label], insts |-> d.insts, term |-> d.term]
  BY <1>4, <1>A
<1>7. current'[1] = [id |-> parse_block_id[text[s[kb]].label],
                     insts |-> Append(d.insts, x), term |-> d.term]
  <2>1. PICK y : y = Append(d.insts, x)
    OBVIOUS
  <2>2. [d EXCEPT !.insts = y] = [id |-> parse_block_id[text[s[kb]].label],
                                  insts |-> y, term |-> d.term]
    BY <1>6, InstsReplaced
  <2>3. PICK w : w = [d EXCEPT !.insts = y]
    OBVIOUS
  <2>4. current' = <<w>>
    BY <1>5, <2>1, <2>3
  <2>5. current'[1] = w
    BY ONLY <2>4
  <2> QED
    BY ONLY <2>1, <2>2, <2>3, <2>5, Zenon
<1>8. /\ Len(d.insts) = sz
      /\ Append(d.insts, x) = [j \in 1..(sz + 1) |-> Append(d.insts, x)[j]]
      /\ \A j \in 1..sz : Append(d.insts, x)[j] = d.insts[j]
      /\ Append(d.insts, x)[sz + 1] = x
  <2>1. PICK g : g = d.insts
    OBVIOUS
  <2>2. g = [j \in 1..sz |-> g[j]]
    BY <1>4, <1>A, <2>1
  <2>3. /\ Len(g) = sz
        /\ Append(g, x) = [j \in 1..(sz + 1) |-> Append(g, x)[j]]
        /\ \A j \in 1..sz : Append(g, x)[j] = g[j]
        /\ Append(g, x)[sz + 1] = x
    BY <2>2, AppendToRead
  <2> QED
    BY <2>1, <2>3
<1>9. current' = <<current'[1]>>
  BY <1>5
<1>10. current'[1].insts = Append(d.insts, x)
  BY <1>7
<1>11. current'[1] = [id |-> parse_block_id[text[s[kb]].label],
                      insts |-> current'[1].insts, term |-> current'[1].term]
  <2>1. PICK y : y = Append(d.insts, x)
    OBVIOUS
  <2>2. PICK n : n = parse_block_id[text[s[kb]].label]
    OBVIOUS
  <2>3. PICK w : w = current'[1]
    OBVIOUS
  <2>4. w = [id |-> n, insts |-> y, term |-> d.term]
    BY <1>7, <2>1, <2>2, <2>3, Zenon
  <2>5. w = [id |-> n, insts |-> w.insts, term |-> w.term]
    BY ONLY <2>4
  <2> QED
    BY ONLY <2>2, <2>3, <2>5, Zenon
<1> QED
  BY <1>8, <1>9, <1>10, <1>11, <1>A

\* What an instruction leaves in its place.
in_place(line) == IF line.op = "phi" THEN ConstI64(line.dst, 0) ELSE line.inst

\* An instruction is put at the end of the block being read.
LEMMA NewInst ==
    ASSUME text \in Seq(Lines), NEW s, Read(s), current # <<>>, ~current_terminated,
           NEW line \in Lines, text' = more(text, line), line.op # "block",
           line.op # "bad", ~is_terminator(line),
           current' = with_inst(current, in_place(line)),
           pending_phis' = IF line.op # "phi" THEN pending_phis
                           ELSE more(pending_phis,
                                  <<Len(blocks) + 1, Len(current[1].insts) + 1, line>>),
           UNCHANGED <<blocks, current_terminated, label_to_id, pending_terms>>
    PROVE  Read(s)'
<1> DEFINE kb == Len(s)
<1>A. PICK u : u = text'
  OBVIOUS
<1>1. /\ Starts(u, s) /\ LinesFit(u, is_terminator(line), s)
      /\ LabelsRead' /\ labels' = labels
      /\ Len(s) = Len(blocks) + 1 /\ kb \in DOMAIN s /\ DOMAIN s = 1..kb
      /\ Len(text) \in Nat /\ u[Len(text) + 1] = line
      /\ last(u, s, kb) = Len(text) + 1 /\ last(text, s, kb) = Len(text)
      /\ \A b \in DOMAIN s :
            /\ u[s[b]] = text[s[b]]
            /\ \A j \in insts_of(s, b) : u[s[b] + j] = text[s[b] + j]
            /\ b # kb => /\ ~open(current_terminated, s, b)
                        /\ last(u, s, b) = last(text, s, b)
                        /\ u[last(text, s, b)] = text[last(text, s, b)]
  BY <1>A, SameBlock
<1>2. LinesFit(u, current_terminated', s)
  <2>1. \A b \in DOMAIN s : open(current_terminated', s, b) <=> open(is_terminator(line), s, b)
    BY DEF open
  <2> QED
    BY <1>1, <2>1 DEF LinesFit
<1>3. /\ PutAside(s) /\ BlocksRead(s)
  BY DEF Read
<1>4. /\ s[kb] \in Nat /\ kb \in Nat /\ Len(blocks) \in Nat
      /\ size(text, current_terminated, s, kb) \in Nat
  <2>1. s[kb] \in DOMAIN text /\ size(text, current_terminated, s, kb) \in Nat
        /\ DOMAIN text = 1..Len(text) /\ kb \in Nat /\ Len(blocks) \in Nat
    BY <1>1, InTheText
  <2> QED
    BY <1>1, <2>1
<1>B. PICK sz \in Nat : sz = size(text, current_terminated, s, kb)
  BY <1>4
<1>5. /\ insts_of(s, kb) = 1..sz /\ insts_of(s, kb)' = 1..(sz + 1)
      /\ s[kb] + (sz + 1) = Len(text) + 1
      /\ open(current_terminated, s, kb) /\ open(current_terminated', s, kb)
  <2>1. open(current_terminated, s, kb) /\ open(current_terminated', s, kb)
    BY DEF open
  <2>2. sz = Len(text) - s[kb]
    BY <1>1, <1>4, <1>B, <2>1 DEF size
  <2>3. size(u, current_terminated', s, kb) = Len(text) + 1 - s[kb]
    BY <1>1, <1>4, <2>1 DEF size
  <2>4. size(u, current_terminated', s, kb) = sz + 1
    BY <1>1, <1>4, <2>2, <2>3
  <2>5. insts_of(s, kb)' = 1..size(u, current_terminated', s, kb)
    BY <1>A DEF insts_of
  <2>6. insts_of(s, kb) = 1..sz
    BY <1>B DEF insts_of
  <2>7. s[kb] + (sz + 1) = Len(text) + 1
    BY <1>1, <1>4, <2>2
  <2> QED
    BY <2>1, <2>4, <2>5, <2>6, <2>7
<1>C. PICK x : x = in_place(line)
  OBVIOUS
<1>6. /\ current' = <<current'[1]>>
      /\ current'[1] = [id |-> parse_block_id[text[s[kb]].label],
                        insts |-> current'[1].insts, term |-> current'[1].term]
      /\ current'[1].insts = [j \in 1..(sz + 1) |-> current'[1].insts[j]]
      /\ \A j \in 1..sz : current'[1].insts[j] = current[1].insts[j]
      /\ current'[1].insts[sz + 1] = x
      /\ Len(current[1].insts) = sz
  <2>1. current' = with_inst(current, x)
    BY <1>C
  <2>2. insts_of(s, Len(s)) = 1..sz
    BY <1>5
  <2> QED
    BY <2>1, <2>2, OneMoreInst
<1>7. block_at(kb)' = current'[1] /\ block_at(kb) = current[1]
  BY <1>1, <1>4 DEF block_at
<1>8. /\ pending_phis' \in Seq(Range(pending_phis'))
      /\ Range(pending_phis) \subseteq Range(pending_phis')
      /\ \A p \in Range(pending_phis') :
            p \in Range(pending_phis) \/ (line.op = "phi" /\ p = <<kb, sz + 1, line>>)
      /\ line.op = "phi" => <<kb, sz + 1, line>> \in Range(pending_phis')
  <2>1. pending_phis \in Seq(Range(pending_phis))
    BY <1>3 DEF PutAside
  <2>2. CASE line.op # "phi"
    BY <2>1, <2>2
  <2>3. CASE line.op = "phi"
    <3>1. PICK p : p = <<kb, sz + 1, line>>
      OBVIOUS
    <3>2. pending_phis' = more(pending_phis, p)
      BY <1>1, <1>6, <2>3, <3>1
    <3>3. /\ pending_phis' \in Seq(Range(pending_phis'))
          /\ Range(pending_phis') = Range(pending_phis) \cup {p}
      <4>1. /\ more(pending_phis, p) \in Seq(Range(more(pending_phis, p)))
            /\ Range(more(pending_phis, p)) = Range(pending_phis) \cup {p}
        BY ONLY <2>1, OneMoreAside
      <4> QED
        BY ONLY <3>2, <4>1, Zenon
    <3> QED
      BY <2>3, <3>1, <3>3
  <2> QED
    BY <2>2, <2>3
<1>9. ASSUME NEW b \in DOMAIN s, b # kb
      PROVE  BlockRead(s, b)' /\ insts_of(s, b)' = insts_of(s, b)
             /\ ~open(current_terminated', s, b)
  <2>1. BlockRead(s, b)
    BY <1>3 DEF BlocksRead
  <2>2. b \in 1..Len(blocks)
    <3>1. b \in 1..(Len(blocks) + 1) /\ b # Len(blocks) + 1
      BY <1>1, <1>9
    <3> QED
      BY <1>4, <3>1
  <2>3. block_at(b)' = block_at(b)
    BY <1>4, <2>2 DEF block_at
  <2>4. ~open(current_terminated, s, b) /\ ~open(current_terminated', s, b)
    BY <1>9 DEF open
  <2>5. insts_of(s, b)' = insts_of(s, b)
    BY <1>1, <1>9, <1>A, <2>4 DEF insts_of, size
  <2>6. text'[s[b]] = text[s[b]] /\ text'[last(text', s, b)] = text[last(text, s, b)]
        /\ \A j \in insts_of(s, b) : text'[s[b] + j] = text[s[b] + j]
    BY <1>1, <1>9, <1>A
  <2>7. labels \subseteq labels' /\ Range(pending_terms) \subseteq Range(pending_terms')
    BY <1>1
  <2> QED
    BY <1>8, <2>1, <2>3, <2>4, <2>5, <2>6, <2>7, BlockKept
<1>10. BlockRead(s, kb)'
  <2>1. BlockRead(s, kb)
    BY <1>1, <1>3 DEF BlocksRead
  <2>2. ASSUME NEW j \in 1..sz PROVE InstRead(s, kb, j)'
    <3>1. InstRead(s, kb, j)
      BY <1>5, <2>1 DEF BlockRead
    <3>2. block_at(kb)'.insts[j] = block_at(kb).insts[j]
      BY <1>6, <1>7
    <3>3. text'[s[kb] + j] = text[s[kb] + j]
      BY <1>1, <1>5, <1>A
    <3> QED
      BY <1>1, <1>8, <3>1, <3>2, <3>3 DEF InstRead
  <2>3. InstRead(s, kb, sz + 1)'
    <3>1. text'[s[kb] + (sz + 1)] = line
      BY <1>1, <1>5, <1>A
    <3>2. block_at(kb)'.insts[sz + 1] = x
      BY <1>6, <1>7
    <3>3. CASE line.op = "phi"
      <4>1. x = ConstI64(line.dst, 0)
        BY <1>C, <3>3 DEF in_place
      <4> QED
        BY <1>8, <3>1, <3>2, <3>3, <4>1 DEF InstRead
    <3>4. CASE line.op # "phi"
      <4>1. line.op = "plain"
        BY <3>4, LinesAssumption DEF is_terminator
      <4>2. x = read_as(line)
        BY <1>C, <3>4, <4>1 DEF in_place, read_as
      <4> QED
        BY <3>1, <3>2, <3>4, <4>2 DEF InstRead
    <3> QED
      BY <3>3, <3>4
  <2>4. \A j \in insts_of(s, kb)' : InstRead(s, kb, j)'
    <3> SUFFICES ASSUME NEW j \in 1..(sz + 1) PROVE InstRead(s, kb, j)'
      BY <1>5
    <3>1. j \in 1..sz \/ j = sz + 1
      OBVIOUS
    <3> QED
      BY <2>2, <2>3, <3>1
  <2>5. /\ (block_at(kb) = [id |-> parse_block_id[text[s[kb]].label],
                           insts |-> block_at(kb).insts, term |-> block_at(kb).term])'
        /\ (block_at(kb).insts = [j \in insts_of(s, kb) |-> block_at(kb).insts[j]])'
    BY <1>1, <1>5, <1>6, <1>7, <1>A
  <2> QED
    BY <1>5, <2>4, <2>5 DEF BlockRead
<1>11. BlocksRead(s)'
  <2>1. blocks' \in Seq(Range(blocks'))
    BY <1>3 DEF BlocksRead
  <2>2. Len(current') = 1
    BY <1>6
  <2>3. Len(s) = Len(blocks') + Len(current')
    BY <1>1, <2>2
  <2>4. \A b \in DOMAIN s : BlockRead(s, b)'
    BY <1>9, <1>10
  <2> QED
    BY <1>6, <2>1, <2>3, <2>4 DEF BlocksRead
<1>12. PutAside(s)'
  <2>1. \A b \in DOMAIN s :
            /\ s[b] = s[b]
            /\ insts_of(s, b) \subseteq insts_of(s, b)'
            /\ \A j \in insts_of(s, b) : text'[s[b] + j] = text[s[b] + j]
            /\ ~open(current_terminated, s, b) =>
                   /\ ~open(current_terminated', s, b)
                   /\ text'[last(text', s, b)] = text[last(text, s, b)]
    <3> SUFFICES ASSUME NEW b \in DOMAIN s
                 PROVE  /\ s[b] = s[b]
                        /\ insts_of(s, b) \subseteq insts_of(s, b)'
                        /\ \A j \in insts_of(s, b) : text'[s[b] + j] = text[s[b] + j]
                        /\ ~open(current_terminated, s, b) =>
                               /\ ~open(current_terminated', s, b)
                               /\ text'[last(text', s, b)] = text[last(text, s, b)]
      OBVIOUS
    <3>1. CASE b = kb
      <4>1. 1..sz \subseteq 1..(sz + 1)
        OBVIOUS
      <4> QED
        BY <1>1, <1>5, <1>A, <3>1, <4>1
    <3>2. CASE b # kb
      BY <1>1, <1>9, <1>A, <3>2
    <3> QED
      BY <3>1, <3>2
  <2>2. /\ \A p \in Range(pending_phis) :
                 \E b \in DOMAIN s : \E j \in insts_of(s, b)' :
                    p = <<b, j, text'[s[b] + j]>> /\ text'[s[b] + j].op = "phi"
        /\ \A p \in Range(pending_terms) :
                 \E b \in DOMAIN s :
                    ~open(current_terminated', s, b) /\ p = <<b, text'[last(text', s, b)]>>
    BY <1>3, <2>1, AsideKept
  <2>3. pending_terms' \in Seq(Range(pending_terms'))
    BY <1>3 DEF PutAside
  <2>4. \A p \in Range(pending_phis') :
            \E b \in DOMAIN s : \E j \in insts_of(s, b)' :
               p = <<b, j, text'[s[b] + j]>> /\ text'[s[b] + j].op = "phi"
    <3> SUFFICES ASSUME NEW p \in Range(pending_phis')
                 PROVE  \E b \in DOMAIN s : \E j \in insts_of(s, b)' :
                            p = <<b, j, text'[s[b] + j]>> /\ text'[s[b] + j].op = "phi"
      OBVIOUS
    <3>1. CASE p \in Range(pending_phis)
      BY <2>2, <3>1
    <3>2. CASE line.op = "phi" /\ p = <<kb, sz + 1, line>>
      <4>1. text'[s[kb] + (sz + 1)] = line /\ sz + 1 \in insts_of(s, kb)' /\ kb \in DOMAIN s
        BY <1>1, <1>5, <1>A
      <4> QED
        BY <3>2, <4>1
    <3> QED
      BY <1>8, <3>1, <3>2
  <2> QED
    BY <1>8, <2>2, <2>3, <2>4 DEF PutAside
<1> QED
  BY <1>1, <1>2, <1>11, <1>12, <1>A DEF Read

\* A terminator ends the block being read.
LEMMA NewTerm ==
    ASSUME text \in Seq(Lines), NEW s, Read(s), current # <<>>, ~current_terminated,
           NEW line \in Lines, text' = more(text, line), is_terminator(line),
           pending_terms' = more(pending_terms, <<Len(blocks) + 1, line>>),
           current_terminated' = TRUE,
           UNCHANGED <<blocks, current, label_to_id, pending_phis>>
    PROVE  Read(s)'
<1> DEFINE kb == Len(s)
<1>A. PICK u : u = text'
  OBVIOUS
<1>0. line.op # "block" /\ line.op # "bad"
  BY DEF is_terminator
<1>1. /\ Starts(u, s) /\ LinesFit(u, is_terminator(line), s)
      /\ LabelsRead' /\ labels' = labels
      /\ Len(s) = Len(blocks) + 1 /\ kb \in DOMAIN s /\ DOMAIN s = 1..kb
      /\ Len(text) \in Nat /\ u[Len(text) + 1] = line
      /\ last(u, s, kb) = Len(text) + 1 /\ last(text, s, kb) = Len(text)
      /\ \A b \in DOMAIN s :
            /\ u[s[b]] = text[s[b]]
            /\ \A j \in insts_of(s, b) : u[s[b] + j] = text[s[b] + j]
            /\ b # kb => /\ ~open(current_terminated, s, b)
                        /\ last(u, s, b) = last(text, s, b)
                        /\ u[last(text, s, b)] = text[last(text, s, b)]
  <2>1. UNCHANGED label_to_id
    OBVIOUS
  <2>2. Starts(u, s) /\ LabelsRead' /\ labels' = labels
    BY <1>0, <1>A, <2>1, SameBlock
  <2>3. /\ Len(s) = Len(blocks) + 1 /\ kb \in DOMAIN s /\ DOMAIN s = 1..kb
        /\ Len(text) \in Nat /\ u[Len(text) + 1] = line
        /\ last(u, s, kb) = Len(text) + 1 /\ last(text, s, kb) = Len(text)
    BY <1>0, <1>A, <2>1, SameBlock
  <2>4. LinesFit(u, is_terminator(line), s)
    BY <1>0, <1>A, <2>1, SameBlock
  <2>5. \A b \in DOMAIN s :
            /\ u[s[b]] = text[s[b]]
            /\ \A j \in insts_of(s, b) : u[s[b] + j] = text[s[b] + j]
            /\ b # kb => /\ ~open(current_terminated, s, b)
                        /\ last(u, s, b) = last(text, s, b)
                        /\ u[last(text, s, b)] = text[last(text, s, b)]
    BY <1>0, <1>A, <2>1, SameBlock
  <2> QED
    BY <2>2, <2>3, <2>4, <2>5
<1>2. LinesFit(u, current_terminated', s)
  <2>1. \A b \in DOMAIN s : open(current_terminated', s, b) <=> open(is_terminator(line), s, b)
    BY DEF open
  <2> QED
    BY <1>1, <2>1 DEF LinesFit
<1>3. PutAside(s) /\ BlocksRead(s)
  BY DEF Read
<1>4. s[kb] \in Nat /\ kb \in Nat /\ Len(blocks) \in Nat
  <2>1. s[kb] \in DOMAIN text /\ DOMAIN text = 1..Len(text) /\ kb \in Nat /\ Len(blocks) \in Nat
    BY <1>1, InTheText
  <2> QED
    BY <1>1, <2>1
<1>5. \A b \in DOMAIN s : ~open(current_terminated', s, b) /\ block_at(b)' = block_at(b)
  BY DEF open, block_at
<1>6. \A b \in DOMAIN s : insts_of(s, b)' = insts_of(s, b)
  <2> SUFFICES ASSUME NEW b \in DOMAIN s PROVE insts_of(s, b)' = insts_of(s, b)
    OBVIOUS
  <2>1. CASE b = kb
    <3>1. open(current_terminated, s, b) /\ ~open(current_terminated', s, b)
      BY <2>1 DEF open
    <3>2. size(text, current_terminated, s, b) = Len(text) - s[kb]
      BY <1>1, <1>4, <2>1, <3>1 DEF size
    <3>3. size(u, current_terminated', s, b) = Len(text) + 1 - s[kb] - 1
      <4>1. size(u, current_terminated', s, b) = last(u, s, b) - s[b] - 1
        BY <3>1 DEF size
      <4>2. last(u, s, b) = Len(text) + 1 /\ s[b] = s[kb]
        BY <1>1, <2>1
      <4>3. PICK m \in Nat : m = Len(text)
        BY <1>1
      <4>4. PICK q \in Nat : q = s[kb]
        BY <1>4
      <4>5. last(u, s, b) = m + 1 /\ s[b] = q
        BY ONLY <4>2, <4>3, <4>4
      <4>6. size(u, current_terminated', s, b) = (m + 1) - q - 1
        BY ONLY <4>1, <4>5
      <4> HIDE DEF kb
      <4> QED
        BY ONLY <4>3, <4>4, <4>6
    <3>4. size(u, current_terminated', s, b) = size(text, current_terminated, s, b)
      BY <1>1, <1>4, <3>2, <3>3
    <3> QED
      BY <1>A, <3>4 DEF insts_of
  <2>2. CASE b # kb
    <3>1. ~open(current_terminated, s, b) /\ ~open(current_terminated', s, b)
      BY <2>2 DEF open
    <3> QED
      BY <1>1, <1>A, <2>2, <3>1 DEF insts_of, size
  <2> QED
    BY <2>1, <2>2
<1>B. PICK p : p = <<kb, line>>
  OBVIOUS
<1>7. /\ pending_terms' \in Seq(Range(pending_terms'))
      /\ Range(pending_terms') = Range(pending_terms) \cup {p}
  <2>1. pending_terms \in Seq(Range(pending_terms))
    BY <1>3 DEF PutAside
  <2>2. /\ more(pending_terms, p) \in Seq(Range(more(pending_terms, p)))
        /\ Range(more(pending_terms, p)) = Range(pending_terms) \cup {p}
    BY ONLY <2>1, OneMoreAside
  <2>3. pending_terms' = more(pending_terms, p)
    BY <1>1, <1>B
  <2> QED
    BY ONLY <2>2, <2>3, Zenon
<1>8. ASSUME NEW b \in DOMAIN s, b # kb PROVE BlockRead(s, b)'
  <2>1. BlockRead(s, b)
    BY <1>3 DEF BlocksRead
  <2>2. ~open(current_terminated, s, b)
    BY <1>8 DEF open
  <2>3. text'[s[b]] = text[s[b]] /\ text'[last(text', s, b)] = text[last(text, s, b)]
        /\ \A j \in insts_of(s, b) : text'[s[b] + j] = text[s[b] + j]
    BY <1>1, <1>8, <1>A
  <2>4. labels \subseteq labels' /\ Range(pending_terms) \subseteq Range(pending_terms')
        /\ Range(pending_phis) \subseteq Range(pending_phis')
    BY <1>1, <1>7
  <2> QED
    BY <1>5, <1>6, <2>1, <2>2, <2>3, <2>4, BlockKept
<1>9. BlockRead(s, kb)'
  <2>1. BlockRead(s, kb)
    BY <1>1, <1>3 DEF BlocksRead
  <2>2. block_at(kb)' = block_at(kb) /\ insts_of(s, kb)' = insts_of(s, kb)
    BY <1>1, <1>5, <1>6
  <2>3. /\ text'[s[kb]] = text[s[kb]]
        /\ \A j \in insts_of(s, kb) : text'[s[kb] + j] = text[s[kb] + j]
    BY <1>1, <1>A
  <2>4. ASSUME NEW j \in insts_of(s, kb) PROVE InstRead(s, kb, j)'
    <3>1. InstRead(s, kb, j)
      BY <2>1 DEF BlockRead
    <3> QED
      BY <1>1, <2>2, <2>3, <3>1 DEF InstRead
  <2>5. TermRead(s, kb)'
    <3>1. text'[last(text', s, kb)] = line
      BY <1>1, <1>A
    <3>2. <<kb, line>> \in Range(pending_terms')
      BY <1>7, <1>B
    <3> QED
      BY <3>1, <3>2 DEF TermRead
  <2>6. /\ (block_at(kb) = [id |-> parse_block_id[text[s[kb]].label],
                           insts |-> block_at(kb).insts, term |-> block_at(kb).term])'
        /\ (block_at(kb).insts = [j \in insts_of(s, kb) |-> block_at(kb).insts[j]])'
    BY <2>1, <2>2, <2>3 DEF BlockRead
  <2> QED
    BY <2>2, <2>4, <2>5, <2>6 DEF BlockRead
<1>10. BlocksRead(s)'
  <2>1. \A b \in DOMAIN s : BlockRead(s, b)'
    BY <1>8, <1>9
  <2> QED
    BY <1>3, <2>1 DEF BlocksRead
<1>11. PutAside(s)'
  <2>1. \A p0 \in Range(pending_phis') :
            \E b \in DOMAIN s : \E j \in insts_of(s, b)' :
               p0 = <<b, j, text'[s[b] + j]>> /\ text'[s[b] + j].op = "phi"
    <3> SUFFICES ASSUME NEW p0 \in Range(pending_phis)
                 PROVE  \E b \in DOMAIN s : \E j \in insts_of(s, b)' :
                           p0 = <<b, j, text'[s[b] + j]>> /\ text'[s[b] + j].op = "phi"
      OBVIOUS
    <3>1. PICK b \in DOMAIN s : \E j \in insts_of(s, b) :
              p0 = <<b, j, text[s[b] + j]>> /\ text[s[b] + j].op = "phi"
      BY <1>3 DEF PutAside
    <3>2. PICK j \in insts_of(s, b) :
              p0 = <<b, j, text[s[b] + j]>> /\ text[s[b] + j].op = "phi"
      BY <3>1
    <3>3. j \in insts_of(s, b)' /\ text'[s[b] + j] = text[s[b] + j]
      BY <1>1, <1>6, <1>A
    <3> QED
      BY <3>2, <3>3
  <2>2. \A p0 \in Range(pending_terms') :
            \E b \in DOMAIN s :
               ~open(current_terminated', s, b) /\ p0 = <<b, text'[last(text', s, b)]>>
    <3> SUFFICES ASSUME NEW p0 \in Range(pending_terms')
                 PROVE  \E b \in DOMAIN s :
                           ~open(current_terminated', s, b) /\ p0 = <<b, text'[last(text', s, b)]>>
      OBVIOUS
    <3>1. CASE p0 = p
      <4>1. p0 = <<kb, text'[last(text', s, kb)]>>
        BY <1>1, <1>A, <1>B, <3>1
      <4> QED
        BY <1>1, <1>5, <4>1
    <3>2. CASE p0 \in Range(pending_terms)
      <4>1. PICK b \in DOMAIN s :
                ~open(current_terminated, s, b) /\ p0 = <<b, text[last(text, s, b)]>>
        BY <1>3, <3>2 DEF PutAside
      <4>2. b # kb
        BY <4>1 DEF open
      <4>3. text'[last(text', s, b)] = text[last(text, s, b)]
        BY <1>1, <1>A, <4>2
      <4> QED
        BY <1>5, <4>1, <4>3
    <3> QED
      BY <1>7, <3>1, <3>2
  <2>3. pending_phis' \in Seq(Range(pending_phis'))
    BY <1>3 DEF PutAside
  <2> QED
    BY <1>7, <2>1, <2>2, <2>3 DEF PutAside
<1> QED
  BY <1>1, <1>2, <1>10, <1>11, <1>A DEF Read

\* Reading a line keeps the invariant.
LEMMA LineReads ==
    ASSUME PInv, NEW line \in Lines, Parse!ReadLine(line)
    PROVE  PInv'
<1>1. /\ phase = "lines" /\ text' = more(text, line) /\ text \in Seq(Lines)
      /\ result = "none" /\ args # -1 /\ (text # <<>> => current # <<>>)
  BY DEF Parse!ReadLine, PInv, PhaseFits, more
<1>2. PICK s \in Seq(Nat) : Read(s)
  BY <1>1 DEF PInv
<1>A. PICK u : u = text'
  OBVIOUS
<1>3. u \in Seq(Lines) /\ u # <<>>
  <2>1. u \in Seq(Lines) /\ Len(u) = Len(text) + 1 /\ Len(text) \in Nat
    BY <1>1, <1>A, OneLineMore
  <2> QED
    BY <2>1, EmptySeq
<1>4. ASSUME Parse!Fail, ~well_formed' PROVE PInv'
  BY <1>1, <1>3, <1>4, <1>A, Failing
<1>5. ASSUME phase' = phase, result' = result, args' = args, current' # <<>>,
             NEW z \in Seq(Nat), Read(z)'
      PROVE  PInv'
  <2>1. PhaseFits'
    BY <1>1, <1>5 DEF PhaseFits
  <2> QED
    BY <1>1, <1>3, <1>5, <1>A, <2>1 DEF PInv
<1>6. CASE line.op = "block" /\ Parse!read_block(line)
  <2>1. CASE /\ Parse!can_finish
             /\ parse_block_id[line.label] # NoId
             /\ line.label \notin DOMAIN label_to_id
             /\ blocks' = blocks \o current
             /\ current' = <<[id |-> parse_block_id[line.label], insts |-> <<>>,
                              term |-> Jmp(parse_block_id[line.label])]>>
             /\ current_terminated' = FALSE
             /\ label_to_id' = [l \in DOMAIN label_to_id \cup {line.label} |->
                   IF l = line.label THEN parse_block_id[line.label] ELSE label_to_id[l]]
             /\ UNCHANGED <<args, phase, pending_phis, pending_terms, result>>
    <3>1. s = <<>> \/ current_terminated
      <4>1. CASE current_terminated
        BY <4>1
      <4>2. CASE current = <<>>
        BY <1>1, <1>2, <4>2, SomeRead
      <4> QED
        BY <2>1, <4>1, <4>2 DEF Parse!can_finish
    <3>2. starts_in(text') = starts_in(text) \cup {Len(text) + 1}
      <4>1. PICK z : z = more(s, Len(text) + 1)
        OBVIOUS
      <4>2. Starts(text, s) /\ u = more(text, line)
        BY <1>1, <1>2, <1>A DEF Read
      <4>3. starts_in(u) = starts_in(text) \cup {Len(text) + 1}
        BY <1>1, <1>6, <4>1, <4>2, OneMoreBlock
      <4> QED
        BY <1>A, <4>3
    <3>3. LabelsRead' /\ labels \subseteq labels'
      BY <1>1, <1>2, <1>6, <2>1, <3>2, BlockLabel
    <3>4. PICK z \in Seq(Nat) : Read(z)'
      BY <1>1, <1>2, <1>6, <2>1, <3>1, <3>3, NewBlock
    <3>5. current' # <<>>
      BY <2>1
    <3> QED
      BY <1>5, <2>1, <3>4, <3>5
  <2>2. CASE Parse!Fail /\ (\/ ~Parse!can_finish
                            \/ parse_block_id[line.label] = NoId
                            \/ line.label \in DOMAIN label_to_id)
    <3>1. ~well_formed'
      BY <1>1, <1>6, <2>2, BlockRefused, WellFormedBegins
    <3> QED
      BY <1>4, <2>2, <3>1
  <2> QED
    BY <1>6, <2>1, <2>2 DEF Parse!read_block, Parse!Jmp, Jmp
<1>7. CASE line.op # "block" /\ current = <<>> /\ Parse!Fail
  <2>1. ~well_formed'
    BY <1>1, <1>7, LineRefused, WellFormedBegins
  <2> QED
    BY <1>4, <1>7, <2>1
<1>8. CASE line.op # "block" /\ current # <<>> /\ is_terminator(line) /\ Parse!read_term(line)
  <2>1. CASE current_terminated /\ Parse!Fail
    <3>1. ~well_formed'
      BY <1>1, <1>8, <2>1, LineRefused, WellFormedBegins
    <3> QED
      BY <1>4, <2>1, <3>1
  <2>2. CASE /\ ~current_terminated
             /\ pending_terms' = Append(pending_terms, <<Len(blocks) + 1, line>>)
             /\ current_terminated' = TRUE
             /\ UNCHANGED <<args, phase, blocks, current, label_to_id, pending_phis, result>>
    <3>1. pending_terms' = more(pending_terms, <<Len(blocks) + 1, line>>)
      BY <2>2 DEF more
    <3>2. UNCHANGED <<blocks, current, label_to_id, pending_phis>>
      BY <2>2
    <3>3. Read(s)'
      BY <1>1, <1>2, <1>8, <2>2, <3>1, <3>2, NewTerm
    <3> QED
      BY <1>2, <1>5, <1>8, <2>2, <3>3
  <2> QED
    BY <1>8, <2>1, <2>2 DEF Parse!read_term
<1>9. CASE line.op # "block" /\ current # <<>> /\ ~is_terminator(line) /\ Parse!read_inst(line)
  <2>1. CASE Parse!Fail /\ (current_terminated \/ line.op = "bad")
    <3>1. ~well_formed'
      BY <1>1, <1>9, <2>1, LineRefused, WellFormedBegins
    <3> QED
      BY <1>4, <2>1, <3>1
  <2>2. CASE /\ ~current_terminated
             /\ line.op # "bad"
             /\ current' = [current EXCEPT ![1].insts =
                    Append(@, IF line.op = "phi" THEN ConstI64(line.dst, 0) ELSE line.inst)]
             /\ pending_phis' =
                    IF line.op # "phi" THEN pending_phis
                    ELSE Append(pending_phis,
                                <<Len(blocks) + 1, Len(current[1].insts) + 1, line>>)
             /\ UNCHANGED <<args, phase, blocks, current_terminated, label_to_id,
                            pending_terms, result>>
    <3>1. pending_phis' = IF line.op # "phi" THEN pending_phis
                          ELSE more(pending_phis,
                                 <<Len(blocks) + 1, Len(current[1].insts) + 1, line>>)
      BY <2>2 DEF more
    <3>2. current' = with_inst(current, in_place(line))
      BY <2>2 DEF with_inst, in_place
    <3>3. UNCHANGED <<blocks, current_terminated, label_to_id, pending_terms>>
      BY <2>2
    <3>4. Read(s)'
      BY <1>1, <1>2, <1>9, <2>2, <3>1, <3>2, <3>3, NewInst
    <3>5. current' # <<>>
      <4>1. current = <<current[1]>>
        BY <1>1, <1>2, <1>9, InTheText
      <4>2. DOMAIN current' = DOMAIN current
        BY <2>2
      <4>3. DOMAIN current = {1}
        BY <4>1
      <4>4. DOMAIN <<>> = {}
        OBVIOUS
      <4>5. DOMAIN current' # {}
        BY <4>2, <4>3
      <4> QED
        BY <4>4, <4>5
    <3>6. phase' = phase /\ result' = result /\ args' = args
      BY <2>2
    <3> QED
      BY <1>2, <1>5, <3>4, <3>5, <3>6
  <2> QED
    BY <1>9, <2>1, <2>2 DEF Parse!read_inst, Parse!ConstI64, ConstI64
<1> QED
  BY <1>6, <1>7, <1>8, <1>9 DEF Parse!ReadLine, Parse!is_terminator, is_terminator

\* The end of the text finishes the last block.
LEMMA EndReads ==
    ASSUME PInv, Parse!EndOfText
    PROVE  PInv'
<1>1. /\ phase = "lines" /\ text' = text /\ text \in Seq(Lines)
      /\ result = "none" /\ args # -1 /\ (text # <<>> => current # <<>>)
  BY DEF Parse!EndOfText, PInv, PhaseFits
<1>2. PICK s \in Seq(Nat) : Read(s)
  BY <1>1 DEF PInv
<1>3. CASE (current = <<>> \/ ~current_terminated) /\ Parse!Fail
  <2>1. ~whole(text)
    <3>1. CASE current = <<>>
      BY <1>1, <3>1 DEF whole
    <3>2. CASE current # <<>> /\ ~current_terminated
      <4>1. Starts(text, s) /\ LinesFit(text, current_terminated, s)
        BY <1>2 DEF Read
      <4>2. s # <<>>
        BY <1>1, <1>2, <3>2, SomeRead
      <4>3. LinesFit(text, FALSE, s)
        BY <3>2, <4>1, ClosedOrOpen
      <4> QED
        BY <1>1, <4>1, <4>2, <4>3, OpenAtTheEnd
    <3> QED
      BY <1>3, <3>1, <3>2
  <2>2. ~well_formed'
    BY <1>1, <2>1, WellFormedIsWhole
  <2> QED
    BY <1>1, <1>3, <2>2, Failing
<1>4. CASE /\ current # <<>>
           /\ current_terminated
           /\ blocks' = blocks \o current
           /\ current' = <<>>
           /\ phase' = "phis"
           /\ UNCHANGED <<args, current_terminated, Parse!tables, result>>
  <2>1. /\ current_terminated' = current_terminated /\ label_to_id' = label_to_id
        /\ pending_phis' = pending_phis /\ pending_terms' = pending_terms
        /\ args' = args /\ result' = result
    BY <1>4 DEF Parse!tables
  <2>2. text # <<>>
    BY <1>1, <1>2, <1>4, SomeRead
  <2>3. PhaseFits'
    BY <1>1, <1>4, <2>1, <2>2 DEF PhaseFits
  <2>4. /\ blocks' \in Seq(Range(blocks')) /\ Len(blocks') = Len(s)
        /\ \A b \in DOMAIN s : blocks'[b] = block_at(b)
    <3>1. PICK bs : bs = blocks'
      OBVIOUS
    <3>2. bs = blocks \o current
      BY <1>4, <3>1
    <3>3. /\ bs \in Seq(Range(bs)) /\ Len(bs) = Len(s)
          /\ \A b \in DOMAIN s : bs[b] = block_at(b)
      BY <1>1, <1>2, <3>2, BlockFinished
    <3> QED
      BY <3>1, <3>3
  <2>5. DOMAIN s = 1..Len(s) /\ Len(s) \in Nat
    BY <1>1, <1>2, InTheText
  <2>6. ASSUME NEW b \in DOMAIN s PROVE BlockRead(s, b)'
    <3>1. BlockRead(s, b)
      BY <1>2 DEF Read, BlocksRead
    <3>2. block_at(b)' = block_at(b)
      BY <2>4, <2>5 DEF block_at
    <3>3. insts_of(s, b)' = insts_of(s, b)
      BY <1>1, <2>1 DEF insts_of
    <3>4. labels' = labels
      BY <1>1 DEF labels, block_lines
    <3>5. /\ open(current_terminated', s, b) <=> open(current_terminated, s, b)
          /\ text'[s[b]] = text[s[b]] /\ text'[last(text', s, b)] = text[last(text, s, b)]
          /\ \A j \in insts_of(s, b) : text'[s[b] + j] = text[s[b] + j]
      BY <1>1, <2>1
    <3>6. /\ labels \subseteq labels' /\ Range(pending_terms) \subseteq Range(pending_terms')
          /\ Range(pending_phis) \subseteq Range(pending_phis')
      BY <2>1, <3>4
    <3> QED
      BY <3>1, <3>2, <3>3, <3>5, <3>6, BlockKept
  <2>7. BlocksRead(s)'
    <3>1. Len(<<>>) = 0
      OBVIOUS
    <3>2. Len(s) = Len(blocks') + Len(current')
      BY <1>4, <2>4, <2>5, <3>1
    <3> QED
      BY <1>4, <2>4, <2>6, <3>2 DEF BlocksRead
  <2>8. PutAside(s)'
    BY <1>1, <1>2, <2>1 DEF Read, PutAside, insts_of
  <2>9. LabelsRead'
    BY <1>1, <1>2, <2>1 DEF Read, LabelsRead, labels, block_lines
  <2>10. Starts(text', s) /\ LinesFit(text', current_terminated', s)
    BY <1>1, <1>2, <2>1 DEF Read
  <2>11. Read(s)'
    BY <2>7, <2>8, <2>9, <2>10 DEF Read
  <2> QED
    BY <1>1, <2>1, <2>3, <2>11 DEF PInv
<1> QED
  BY <1>3, <1>4 DEF Parse!EndOfText

-----------------------------------------------------------------------------
(* Resolving what was put aside.                                           *)

\* The first entry is taken from what was put aside.
LEMMA OneLessAside ==
    ASSUME NEW q, q \in Seq(Range(q)), q # <<>>
    PROVE  /\ Head(q) \in Range(q)
           /\ Tail(q) \in Seq(Range(Tail(q)))
           /\ Range(Tail(q)) \subseteq Range(q)
           /\ \A y \in Range(q) : y = Head(q) \/ y \in Range(Tail(q))
<1>1. /\ Head(q) \in Range(q) /\ Tail(q) \in Seq(Range(q))
      /\ Len(Tail(q)) = Len(q) - 1
      /\ \A n \in 1..Len(Tail(q)) : Tail(q)[n] = q[n + 1]
  BY HeadTailProperties
<1>2. Len(q) \in Nat /\ DOMAIN q = 1..Len(q) /\ Len(q) # 0
  BY LenProperties, EmptySeq
<1>3. Head(q) = q[1]
  OBVIOUS
<1>A. PICK r : r = Tail(q)
  OBVIOUS
<1>4. r \in Seq(Range(q)) /\ Len(r) = Len(q) - 1 /\ \A n \in 1..Len(r) : r[n] = q[n + 1]
  BY <1>1, <1>A
<1>5. DOMAIN r = 1..Len(r)
  BY <1>4, LenProperties
<1>6. r \in Seq(Range(r))
  BY <1>4, SeqOfItsOwn
<1>7. ASSUME NEW y \in Range(r) PROVE y \in Range(q)
  <2>1. PICK n \in 1..Len(r) : y = r[n]
    BY <1>5 DEF Range
  <2>2. n + 1 \in 1..Len(q) /\ y = q[n + 1]
    BY <1>2, <1>4, <2>1
  <2> QED
    BY <1>2, <2>2 DEF Range
<1>8. ASSUME NEW y \in Range(q) PROVE y = Head(q) \/ y \in Range(r)
  <2>1. PICK n \in 1..Len(q) : y = q[n]
    BY <1>2 DEF Range
  <2>2. CASE n = 1
    BY <1>3, <2>1, <2>2
  <2>3. CASE n # 1
    <3>1. n - 1 \in 1..Len(r) /\ (n - 1) + 1 = n
      BY <1>2, <1>4, <2>1, <2>3
    <3>2. r[n - 1] = y
      BY <1>4, <2>1, <3>1
    <3> QED
      BY <1>5, <3>1, <3>2 DEF Range
  <2> QED
    BY <2>2, <2>3
<1> QED
  BY <1>1, <1>6, <1>7, <1>8, <1>A

\* blocks with another block, or another instruction of a block, at a place.
with_block(bs, b, e) == [bs EXCEPT ![b] = e]
with_phi(bs, b, j, x) == [bs EXCEPT ![b].insts[j] = x]

\* c is a block with id n and m instructions.
block_of(c, n, m) ==
    /\ c = [id |-> n, insts |-> c.insts, term |-> c.term]
    /\ c.insts = [j \in 1..m |-> c.insts[j]]

\* Another block in the place of one.
LEMMA BlockReplaced ==
    ASSUME NEW bs, bs \in Seq(Range(bs)), NEW b \in DOMAIN bs, NEW e
    PROVE  /\ with_block(bs, b, e) \in Seq(Range(with_block(bs, b, e)))
           /\ Len(with_block(bs, b, e)) = Len(bs)
           /\ with_block(bs, b, e)[b] = e
           /\ \A a \in DOMAIN bs : a # b => with_block(bs, b, e)[a] = bs[a]
<1> DEFINE S == Range(bs) \cup {e}
<1>1. Len(bs) \in Nat /\ DOMAIN bs = 1..Len(bs) /\ bs \in [1..Len(bs) -> Range(bs)]
  BY LenProperties
<1>2. bs \in Seq(S)
  <2>1. Range(bs) \subseteq S
    OBVIOUS
  <2> HIDE DEF S
  <2>2. bs \in [1..Len(bs) -> S]
    BY <1>1, <2>1
  <2> QED
    BY <1>1, <2>2
<1>3. e \in S /\ b \in 1..Len(bs)
  BY <1>1
<1> HIDE DEF S
<1>A. PICK r : r = [bs EXCEPT ![b] = e]
  OBVIOUS
<1>4. r \in Seq(S) /\ Len(r) = Len(bs)
  BY <1>2, <1>3, <1>A, ExceptSeq
<1>5. r[b] = e /\ \A a \in DOMAIN bs : a # b => r[a] = bs[a]
  BY <1>1, <1>3, <1>A
<1>6. r \in Seq(Range(r))
  BY <1>4, SeqOfItsOwn
<1> QED
  BY <1>4, <1>5, <1>6, <1>A DEF with_block

\* A block with another instruction in a place.
LEMMA PhiReplaced ==
    ASSUME NEW bs, bs \in Seq(Range(bs)), NEW b \in DOMAIN bs, NEW n, NEW m \in Nat,
           block_of(bs[b], n, m),
           NEW k0 \in 1..m, NEW x, NEW r, r = with_phi(bs, b, k0, x)
    PROVE  /\ r \in Seq(Range(r)) /\ Len(r) = Len(bs)
           /\ \A a \in DOMAIN bs : a # b => r[a] = bs[a]
           /\ block_of(r[b], n, m) /\ r[b].term = bs[b].term
           /\ r[b].insts[k0] = x
           /\ \A j \in 1..m : j # k0 => r[b].insts[j] = bs[b].insts[j]
<1>A. PICK c : c = bs[b]
  OBVIOUS
<1>B. PICK g : g = c.insts
  OBVIOUS
<1>C. PICK h : h = [g EXCEPT ![k0] = x]
  OBVIOUS
<1>D. PICK e : e = [c EXCEPT !.insts = h]
  OBVIOUS
<1>1. g = [j \in 1..m |-> g[j]]
  BY <1>A, <1>B DEF block_of
<1>2. DOMAIN g = 1..m
  BY <1>1
<1>3. /\ h = [j \in 1..m |-> h[j]] /\ h[k0] = x
      /\ \A j \in 1..m : j # k0 => h[j] = g[j]
  BY <1>1, <1>2, <1>C
<1>4. c = [id |-> n, insts |-> g, term |-> c.term]
  BY <1>A, <1>B DEF block_of
<1>5. e = [id |-> n, insts |-> h, term |-> c.term]
  BY <1>4, <1>D, InstsReplaced
<1>6. r = with_block(bs, b, e)
  BY <1>A, <1>B, <1>C, <1>D DEF with_block, with_phi
<1>7. /\ r \in Seq(Range(r)) /\ Len(r) = Len(bs) /\ r[b] = e
      /\ \A a \in DOMAIN bs : a # b => r[a] = bs[a]
  BY <1>6, BlockReplaced
<1>8. e.insts = h /\ e.term = bs[b].term
  BY <1>5, <1>A
<1>9. block_of(e, n, m)
  BY <1>3, <1>5, <1>8, <1>A DEF block_of
<1> QED
  BY <1>3, <1>7, <1>8, <1>9, <1>A, <1>B

\* A phi that does not resolve makes the text wrong.
LEMMA PhiRefused ==
    ASSUME NEW n \in DOMAIN text, text[n].op = "phi",
           text[n].incoming = <<>> \/ ~(named(text[n]) \subseteq labels)
    PROVE  ~well_formed
BY DEF well_formed

\* The labels are known under their block ids.
LEMMA KnownLabels ==
    ASSUME NEW s, Read(s)
    PROVE  DOMAIN label_to_id = labels /\ \A l \in labels : label_to_id[l] = parse_block_id[l]
<1>1. label_to_id = [l \in labels |-> parse_block_id[l]]
  BY DEF Read, LabelsRead
<1> QED
  BY <1>1

\* A phi resolves to what its line says.
LEMMA PhiResolves ==
    ASSUME NEW s, Read(s), NEW line, line.op = "phi", named(line) \subseteq labels
    PROVE  PhiI64(line.dst, [n \in DOMAIN line.incoming |->
              <<label_to_id[line.incoming[n][1]], line.incoming[n][2]>>]) = read_as(line)
<1>1. \A n \in DOMAIN line.incoming : line.incoming[n][1] \in labels
  BY DEF named
<1>2. \A n \in DOMAIN line.incoming :
          label_to_id[line.incoming[n][1]] = parse_block_id[line.incoming[n][1]]
  BY <1>1, KnownLabels
<1>3. [n \in DOMAIN line.incoming |-> <<label_to_id[line.incoming[n][1]], line.incoming[n][2]>>]
      = [n \in DOMAIN line.incoming |-> <<parse_block_id[line.incoming[n][1]], line.incoming[n][2]>>]
  BY <1>2
<1> QED
  BY <1>3 DEF read_as

\* A resolved phi is put where it was written.
LEMMA PhiPut ==
    ASSUME text \in Seq(Lines), NEW s, Read(s), current = <<>>, current_terminated,
           NEW b0 \in DOMAIN s, NEW j0 \in insts_of(s, b0), NEW line,
           line = text[s[b0] + j0], line.op = "phi",
           line.incoming # <<>>, named(line) \subseteq labels,
           pending_phis # <<>>, Head(pending_phis) = <<b0, j0, line>>,
           blocks' = with_phi(blocks, b0, j0, read_as(line)),
           pending_phis' = Tail(pending_phis),
           UNCHANGED <<text, current, current_terminated, label_to_id, pending_terms>>
    PROVE  Read(s)'
<1>1. BlocksRead(s) /\ PutAside(s) /\ LabelsRead
  BY DEF Read
<1>2. /\ Len(s) = Len(blocks) /\ DOMAIN blocks = DOMAIN s /\ DOMAIN s = 1..Len(s)
      /\ Len(s) \in Nat
  BY InTheText
<1>3. \A b \in DOMAIN s : block_at(b) = blocks[b]
  BY <1>2 DEF block_at
<1>A. PICK m : m = size(text, current_terminated, s, b0)
  OBVIOUS
<1>4. m \in Nat /\ insts_of(s, b0) = 1..m
  BY <1>A, InTheText DEF insts_of
<1>B. PICK x : x = read_as(line)
  OBVIOUS
<1>C. PICK r : r = blocks'
  OBVIOUS
<1>D. PICK n0 : n0 = parse_block_id[text[s[b0]].label]
  OBVIOUS
<1>5. /\ r \in Seq(Range(r)) /\ Len(r) = Len(blocks)
      /\ \A a \in DOMAIN blocks : a # b0 => r[a] = blocks[a]
      /\ block_of(r[b0], n0, m) /\ r[b0].term = blocks[b0].term
      /\ r[b0].insts[j0] = x
      /\ \A j \in 1..m : j # j0 => r[b0].insts[j] = blocks[b0].insts[j]
  <2>1. BlockRead(s, b0)
    BY <1>1 DEF BlocksRead
  <2>2. block_of(blocks[b0], n0, m)
    BY <1>3, <1>4, <1>D, <2>1 DEF BlockRead, block_of
  <2>3. r = with_phi(blocks, b0, j0, x) /\ j0 \in 1..m
    BY <1>4, <1>B, <1>C
  <2>4. blocks \in Seq(Range(blocks)) /\ b0 \in DOMAIN blocks
    BY <1>1, <1>2 DEF BlocksRead
  <2> QED
    BY <1>4, <2>2, <2>3, <2>4, PhiReplaced
<1>6. \A b \in DOMAIN s : block_at(b)' = r[b]
  BY <1>2, <1>5, <1>C DEF block_at
<1>7. \A b \in DOMAIN s : insts_of(s, b)' = insts_of(s, b)
  BY DEF insts_of
<1>8. labels' = labels
  BY DEF labels, block_lines
<1>9. /\ pending_phis' \in Seq(Range(pending_phis'))
      /\ Range(pending_phis') \subseteq Range(pending_phis)
      /\ \A y \in Range(pending_phis) : y = <<b0, j0, line>> \/ y \in Range(pending_phis')
  <2>1. pending_phis \in Seq(Range(pending_phis))
    BY <1>1 DEF PutAside
  <2>2. /\ Tail(pending_phis) \in Seq(Range(Tail(pending_phis)))
        /\ Range(Tail(pending_phis)) \subseteq Range(pending_phis)
        /\ \A y \in Range(pending_phis) :
               y = Head(pending_phis) \/ y \in Range(Tail(pending_phis))
    BY ONLY <2>1, pending_phis # <<>>, OneLessAside
  <2> QED
    BY <2>2
<1>10. ASSUME NEW b \in DOMAIN s, NEW j \in insts_of(s, b) PROVE InstRead(s, b, j)'
  <2>1. CASE b = b0 /\ j = j0
    <3>1. block_at(b)'.insts[j] = read_as(line)
      BY <1>5, <1>6, <1>B, <2>1
    <3>2. text'[s[b] + j] = line
      BY <2>1
    <3> QED
      BY <1>8, <3>1, <3>2 DEF InstRead
  <2>2. CASE ~(b = b0 /\ j = j0)
    <3>1. InstRead(s, b, j)
      BY <1>1 DEF BlocksRead, BlockRead
    <3>2. block_at(b)'.insts[j] = block_at(b).insts[j]
      <4>1. CASE b = b0
        BY <1>3, <1>4, <1>5, <1>6, <2>2, <4>1
      <4>2. CASE b # b0
        BY <1>2, <1>3, <1>5, <1>6, <4>2
      <4> QED
        BY <4>1, <4>2
    <3>3. <<b, j, text[s[b] + j]>> \in Range(pending_phis) =>
              <<b, j, text[s[b] + j]>> \in Range(pending_phis')
      BY <1>9, <2>2
    <3> QED
      BY <1>8, <3>1, <3>2, <3>3 DEF InstRead
  <2> QED
    BY <2>1, <2>2
<1>11. ASSUME NEW b \in DOMAIN s PROVE BlockRead(s, b)'
  <2>1. BlockRead(s, b)
    BY <1>1 DEF BlocksRead
  <2>2. block_at(b)'.term = block_at(b).term
    <3>1. CASE b = b0
      <4>1. r[b0].term = blocks[b0].term
        BY <1>5
      <4> QED
        BY <1>3, <1>6, <3>1, <4>1
    <3>2. CASE b # b0
      BY <1>2, <1>3, <1>5, <1>6, <3>2
    <3> QED
      BY <3>1, <3>2
  <2>3. (~open(current_terminated, s, b))' => TermRead(s, b)'
    BY <1>8, <2>1, <2>2 DEF BlockRead, TermRead
  <2>4. \A j \in insts_of(s, b)' : InstRead(s, b, j)'
    BY <1>7, <1>10
  <2>5. /\ (block_at(b) = [id |-> parse_block_id[text[s[b]].label],
                           insts |-> block_at(b).insts, term |-> block_at(b).term])'
        /\ (block_at(b).insts = [j \in insts_of(s, b) |-> block_at(b).insts[j]])'
    <3>1. CASE b = b0
      BY <1>4, <1>5, <1>6, <1>7, <1>D, <3>1 DEF block_of
    <3>2. CASE b # b0
      <4>1. block_at(b)' = block_at(b)
        BY <1>2, <1>3, <1>5, <1>6, <3>2
      <4> QED
        BY <1>7, <2>1, <4>1 DEF BlockRead
    <3> QED
      BY <3>1, <3>2
  <2> QED
    BY <2>3, <2>4, <2>5 DEF BlockRead
<1>12. BlocksRead(s)'
  <2>1. Len(blocks') = Len(blocks) /\ current' = current
    BY <1>5, <1>C
  <2> QED
    BY <1>1, <1>5, <1>11, <1>C, <2>1 DEF BlocksRead
<1>13. PutAside(s)'
  <2>1. \A p \in Range(pending_phis') :
            \E b \in DOMAIN s : \E j \in insts_of(s, b)' :
               p = <<b, j, text'[s[b] + j]>> /\ text'[s[b] + j].op = "phi"
    BY <1>1, <1>7, <1>9 DEF PutAside
  <2>2. \A p \in Range(pending_terms') :
            \E b \in DOMAIN s :
               ~open(current_terminated', s, b) /\ p = <<b, text'[last(text', s, b)]>>
    BY <1>1 DEF PutAside
  <2>3. pending_terms' \in Seq(Range(pending_terms'))
    BY <1>1 DEF PutAside
  <2> QED
    BY <1>9, <2>1, <2>2, <2>3 DEF PutAside
<1>14. LabelsRead'
  BY <1>1, <1>8 DEF LabelsRead, block_lines
<1>15. Starts(text', s) /\ LinesFit(text', current_terminated', s)
  BY DEF Read
<1> QED
  BY <1>12, <1>13, <1>14, <1>15 DEF Read

\* A text says the same as long as it stays.
LEMMA WellFormedKept ==
    ASSUME text' = text, args' = args, ~well_formed
    PROVE  ~well_formed'
<1>1. block_lines' = block_lines
  BY DEF block_lines
<1>2. labels' = labels
  BY <1>1 DEF labels
<1>3. \A n : end_of(n)' = end_of(n)
  BY <1>1 DEF end_of
<1> QED
  BY <1>1, <1>2, <1>3 DEF well_formed

\* Resolving a phi keeps the invariant.
LEMMA PhiReads ==
    ASSUME PInv, Parse!ResolvePhi
    PROVE  PInv'
<1>1. /\ phase = "phis" /\ text' = text /\ text \in Seq(Lines) /\ pending_phis # <<>>
      /\ result = "none" /\ args # -1 /\ text # <<>>
      /\ current = <<>> /\ current_terminated
  BY DEF Parse!ResolvePhi, PInv, PhaseFits
<1>2. PICK s \in Seq(Nat) : Read(s)
  BY <1>1 DEF PInv
<1>3. Head(pending_phis) \in Range(pending_phis)
  <2>1. pending_phis \in Seq(Range(pending_phis))
    BY <1>2 DEF Read, PutAside
  <2> QED
    BY <1>1, <2>1, OneLessAside
<1>4. PICK b \in DOMAIN s : \E j \in insts_of(s, b) :
          /\ Head(pending_phis) = <<b, j, text[s[b] + j]>>
          /\ text[s[b] + j].op = "phi"
  BY <1>2, <1>3 DEF Read, PutAside
<1>5. PICK j \in insts_of(s, b) :
          /\ Head(pending_phis) = <<b, j, text[s[b] + j]>>
          /\ text[s[b] + j].op = "phi"
  BY <1>4
<1>A. PICK line : line = text[s[b] + j]
  OBVIOUS
<1>6. line.op = "phi" /\ Head(pending_phis) = <<b, j, line>> /\ s[b] + j \in DOMAIN text
  BY <1>1, <1>2, <1>5, <1>A, InTheText
<1>7. Parse!phi_resolves(line) <=> line.incoming # <<>> /\ named(line) \subseteq labels
  BY <1>2, <1>6, KnownLabels DEF Parse!phi_resolves, Parse!known, named
<1>8. CASE ~Parse!phi_resolves(line) /\ Parse!Fail
  <2>1. ~well_formed
    BY <1>6, <1>7, <1>8, <1>A, PhiRefused
  <2>2. args' = args
    BY <1>8 DEF Parse!Fail
  <2>3. ~well_formed'
    BY <1>1, <2>1, <2>2, WellFormedKept
  <2> QED
    BY <1>1, <1>8, <2>3, Failing
<1>9. CASE /\ Parse!phi_resolves(line)
           /\ blocks' = [blocks EXCEPT ![b].insts[j] =
                  PhiI64(@.dst, [n \in DOMAIN line.incoming |->
                      <<label_to_id[line.incoming[n][1]], line.incoming[n][2]>>])]
           /\ pending_phis' = Tail(pending_phis)
           /\ UNCHANGED <<args, phase, current, current_terminated,
                          label_to_id, pending_terms, result>>
  <2>1. blocks[b].insts[j].dst = line.dst
    <3>1. blocks[b] = block_at(b)
      <4>1. b \in 1..Len(blocks) /\ Len(blocks) \in Nat
        BY <1>1, <1>2, InTheText
      <4>2. b <= Len(blocks)
        BY <4>1
      <4> QED
        BY <4>2 DEF block_at
    <3>2. InstRead(s, b, j)
      BY <1>2 DEF Read, BlocksRead, BlockRead
    <3>3. read_as(line).dst = line.dst
      BY <1>6 DEF read_as, PhiI64
    <3>4. ConstI64(line.dst, 0).dst = line.dst
      BY DEF ConstI64
    <3> QED
      BY <1>A, <3>1, <3>2, <3>3, <3>4 DEF InstRead
  <2>2. PhiI64(line.dst, [n \in DOMAIN line.incoming |->
             <<label_to_id[line.incoming[n][1]], line.incoming[n][2]>>]) = read_as(line)
    BY <1>2, <1>6, <1>7, <1>9, PhiResolves
  <2>A. PICK incs : incs = [n \in DOMAIN line.incoming |->
                               <<label_to_id[line.incoming[n][1]], line.incoming[n][2]>>]
    OBVIOUS
  <2>3. blocks' = [blocks EXCEPT ![b].insts[j] = PhiI64(@.dst, incs)]
    BY <1>9, <2>A
  <2>4. blocks' = with_phi(blocks, b, j, PhiI64(line.dst, incs))
    BY <2>1, <2>3 DEF with_phi
  <2>5. blocks' = with_phi(blocks, b, j, read_as(line))
    BY <2>2, <2>4, <2>A, Zenon
  <2>6. UNCHANGED <<text, current, current_terminated, label_to_id, pending_terms>>
    BY <1>1, <1>9
  <2>7. line.incoming # <<>> /\ named(line) \subseteq labels
    BY <1>7, <1>9
  <2>8. Read(s)'
    BY <1>1, <1>2, <1>6, <1>9, <1>A, <2>5, <2>6, <2>7, PhiPut
  <2>9. PhaseFits'
    BY <1>1, <1>9 DEF PhaseFits
  <2>10. result' = "none" /\ text' \in Seq(Lines)
    BY <1>1, <1>9
  <2> QED
    BY <2>8, <2>9, <2>10 DEF PInv
<1>10. Parse!ResolvePhi =>
         LET at == Head(pending_phis)
             l == at[3]
         IN  \/ /\ Parse!phi_resolves(l)
                /\ blocks' = [blocks EXCEPT ![at[1]].insts[at[2]] =
                       PhiI64(@.dst, [n \in DOMAIN l.incoming |->
                           <<label_to_id[l.incoming[n][1]], l.incoming[n][2]>>])]
                /\ pending_phis' = Tail(pending_phis)
                /\ UNCHANGED <<args, phase, current, current_terminated,
                               label_to_id, pending_terms, result>>
             \/ ~Parse!phi_resolves(l) /\ Parse!Fail
  BY DEF Parse!ResolvePhi, Parse!PhiI64, PhiI64
<1>11. /\ Head(pending_phis)[1] = b /\ Head(pending_phis)[2] = j
       /\ Head(pending_phis)[3] = line
  BY ONLY <1>6
<1> QED
  BY <1>8, <1>9, <1>10, <1>11, Zenon

\* A terminator that does not resolve makes the text wrong.
LEMMA TermRefused ==
    ASSUME NEW n \in DOMAIN text, is_terminator(text[n]),
           text[n].op = "bad term" \/ ~(targets(text[n]) \subseteq labels)
    PROVE  ~well_formed
<1>1. text[n].op # "phi"
  BY DEF is_terminator
<1>2. named(text[n]) = targets(text[n])
  BY <1>1 DEF named
<1> QED
  BY <1>2 DEF well_formed

\* A block with another terminator.
with_term(bs, b, x) == [bs EXCEPT ![b].term = x]

LEMMA TermReplaced ==
    ASSUME NEW bs, bs \in Seq(Range(bs)), NEW b \in DOMAIN bs, NEW n, NEW m,
           block_of(bs[b], n, m), NEW x, NEW r, r = with_term(bs, b, x)
    PROVE  /\ r \in Seq(Range(r)) /\ Len(r) = Len(bs)
           /\ \A a \in DOMAIN bs : a # b => r[a] = bs[a]
           /\ block_of(r[b], n, m) /\ r[b].insts = bs[b].insts
           /\ r[b].term = x
<1>A. PICK c : c = bs[b]
  OBVIOUS
<1>B. PICK e : e = [c EXCEPT !.term = x]
  OBVIOUS
<1>C. PICK g : g = c.insts
  OBVIOUS
<1>1. c = [id |-> n, insts |-> g, term |-> c.term] /\ g = [j \in 1..m |-> g[j]]
  BY <1>A, <1>C DEF block_of
<1>2. e = [id |-> n, insts |-> g, term |-> x]
  <2>1. \A y : [[id |-> n, insts |-> g, term |-> y] EXCEPT !.term = x]
               = [id |-> n, insts |-> g, term |-> x]
    OBVIOUS
  <2>2. PICK y : y = c.term
    OBVIOUS
  <2>3. c = [id |-> n, insts |-> g, term |-> y]
    BY <1>1, <2>2
  <2> QED
    BY <1>B, <2>1, <2>3
<1>3. r = with_block(bs, b, e)
  BY <1>A, <1>B DEF with_block, with_term
<1>4. /\ r \in Seq(Range(r)) /\ Len(r) = Len(bs) /\ r[b] = e
      /\ \A a \in DOMAIN bs : a # b => r[a] = bs[a]
  BY <1>3, BlockReplaced
<1>5. e.insts = g /\ e.term = x
  BY <1>2
<1>6. block_of(e, n, m)
  BY <1>1, <1>2, <1>5 DEF block_of
<1> QED
  BY <1>4, <1>5, <1>6, <1>A, <1>C

\* A resolved terminator is put where it was written.
LEMMA TermPut ==
    ASSUME text \in Seq(Lines), NEW s, Read(s), current = <<>>, current_terminated,
           NEW b0 \in DOMAIN s, NEW line,
           line = text[last(text, s, b0)], line.op # "bad term", targets(line) \subseteq labels,
           pending_terms # <<>>, Head(pending_terms) = <<b0, line>>,
           blocks' = with_term(blocks, b0, ends_as(line)),
           pending_terms' = Tail(pending_terms),
           UNCHANGED <<text, current, current_terminated, label_to_id, pending_phis>>
    PROVE  Read(s)'
<1>1. BlocksRead(s) /\ PutAside(s) /\ LabelsRead
  BY DEF Read
<1>2. /\ Len(s) = Len(blocks) /\ DOMAIN blocks = DOMAIN s /\ DOMAIN s = 1..Len(s)
      /\ Len(s) \in Nat
  BY InTheText
<1>3. \A b \in DOMAIN s : block_at(b) = blocks[b]
  <2>1. ASSUME NEW b \in DOMAIN s PROVE b <= Len(blocks)
    <3>1. b \in 1..Len(s)
      BY <1>2, Zenon
    <3>2. b <= Len(s)
      <4>1. \A c \in Nat : b \in 1..c => b <= c
        BY ONLY b \in DOMAIN s
      <4> QED
        BY <1>2, <3>1, <4>1
    <3> QED
      BY <3>2, <1>2
  <2> QED
    BY <2>1 DEF block_at
<1>A. PICK m : m = size(text, current_terminated, s, b0)
  OBVIOUS
<1>4. insts_of(s, b0) = 1..m
  BY <1>A DEF insts_of
<1>B. PICK x : x = ends_as(line)
  OBVIOUS
<1>C. PICK r : r = blocks'
  OBVIOUS
<1>D. PICK n0 : n0 = parse_block_id[text[s[b0]].label]
  OBVIOUS
<1>5. /\ r \in Seq(Range(r)) /\ Len(r) = Len(blocks)
      /\ \A a \in DOMAIN blocks : a # b0 => r[a] = blocks[a]
      /\ block_of(r[b0], n0, m) /\ r[b0].insts = blocks[b0].insts
      /\ r[b0].term = x
  <2>1. BlockRead(s, b0)
    BY <1>1 DEF BlocksRead
  <2>2. block_of(blocks[b0], n0, m)
    BY <1>3, <1>4, <1>D, <2>1 DEF BlockRead, block_of
  <2>3. r = with_term(blocks, b0, x)
    BY <1>B, <1>C
  <2>4. blocks \in Seq(Range(blocks)) /\ b0 \in DOMAIN blocks
    BY <1>1, <1>2 DEF BlocksRead
  <2>5. /\ r \in Seq(Range(r)) /\ Len(r) = Len(blocks)
        /\ \A a \in DOMAIN blocks : a # b0 => r[a] = blocks[a]
    BY ONLY <2>2, <2>3, <2>4, TermReplaced
  <2>6. block_of(r[b0], n0, m) /\ r[b0].insts = blocks[b0].insts /\ r[b0].term = x
    BY ONLY <2>2, <2>3, <2>4, TermReplaced
  <2> QED
    BY <2>5, <2>6
<1>6. \A b \in DOMAIN s : block_at(b)' = r[b]
  <2>1. Len(blocks') = Len(s)
    BY <1>2, <1>5, <1>C
  <2>2. ASSUME NEW b \in DOMAIN s PROVE b <= Len(blocks')
    <3>1. b \in 1..Len(s)
      BY <1>2, Zenon
    <3>2. b <= Len(s)
      <4>1. \A c \in Nat : b \in 1..c => b <= c
        BY ONLY b \in DOMAIN s
      <4> QED
        BY <1>2, <3>1, <4>1
    <3> QED
      BY <3>2, <2>1
  <2> QED
    BY <2>2, <1>C DEF block_at
<1>7. \A b \in DOMAIN s : insts_of(s, b)' = insts_of(s, b)
  BY DEF insts_of
<1>8. labels' = labels
  BY DEF labels, block_lines
<1>9. /\ pending_terms' \in Seq(Range(pending_terms'))
      /\ Range(pending_terms') \subseteq Range(pending_terms)
      /\ \A y \in Range(pending_terms) : y = <<b0, line>> \/ y \in Range(pending_terms')
  <2>1. pending_terms \in Seq(Range(pending_terms))
    BY <1>1 DEF PutAside
  <2>2. /\ Tail(pending_terms) \in Seq(Range(Tail(pending_terms)))
        /\ Range(Tail(pending_terms)) \subseteq Range(pending_terms)
        /\ \A y \in Range(pending_terms) :
               y = Head(pending_terms) \/ y \in Range(Tail(pending_terms))
    BY ONLY <2>1, pending_terms # <<>>, OneLessAside
  <2> QED
    BY <2>2
<1>10. ASSUME NEW b \in DOMAIN s PROVE BlockRead(s, b)'
  <2>1. BlockRead(s, b)
    BY <1>1 DEF BlocksRead
  <2>2. block_at(b)'.insts = block_at(b).insts
    <3>1. CASE b = b0
      BY <1>3, <1>5, <1>6, <3>1
    <3>2. CASE b # b0
      BY <1>2, <1>3, <1>5, <1>6, <3>2
    <3> QED
      BY <3>1, <3>2
  <2>3. ASSUME NEW j \in insts_of(s, b) PROVE InstRead(s, b, j)'
    <3>1. InstRead(s, b, j)
      BY <2>1 DEF BlockRead
    <3> QED
      BY <1>8, <2>2, <3>1 DEF InstRead
  <2>4. (~open(current_terminated, s, b))' => TermRead(s, b)'
    <3>1. CASE b = b0
      <4>1. block_at(b)'.term = ends_as(line)
        BY <1>5, <1>6, <1>B, <3>1
      <4> QED
        BY <1>8, <3>1, <4>1 DEF TermRead
    <3>2. CASE b # b0
      <4>1. block_at(b)' = block_at(b)
        BY <1>2, <1>3, <1>5, <1>6, <3>2
      <4>2. <<b, text[last(text, s, b)]>> \in Range(pending_terms) =>
                <<b, text[last(text, s, b)]>> \in Range(pending_terms')
        BY <1>9, <3>2
      <4> QED
        BY <1>8, <2>1, <4>1, <4>2 DEF BlockRead, TermRead
    <3> QED
      BY <3>1, <3>2
  <2>5. /\ (block_at(b) = [id |-> parse_block_id[text[s[b]].label],
                           insts |-> block_at(b).insts, term |-> block_at(b).term])'
        /\ (block_at(b).insts = [j \in insts_of(s, b) |-> block_at(b).insts[j]])'
    <3>1. CASE b = b0
      BY <1>4, <1>5, <1>6, <1>7, <1>D, <3>1 DEF block_of
    <3>2. CASE b # b0
      <4>1. block_at(b)' = block_at(b)
        BY <1>2, <1>3, <1>5, <1>6, <3>2
      <4> QED
        BY <1>7, <2>1, <4>1 DEF BlockRead
    <3> QED
      BY <3>1, <3>2
  <2> QED
    BY <1>7, <2>3, <2>4, <2>5 DEF BlockRead
<1>11. BlocksRead(s)'
  <2>1. Len(blocks') = Len(blocks) /\ current' = current
    BY <1>5, <1>C
  <2> QED
    BY <1>1, <1>5, <1>10, <1>C, <2>1 DEF BlocksRead
<1>12. PutAside(s)'
  <2>1. \A p \in Range(pending_phis') :
            \E b \in DOMAIN s : \E j \in insts_of(s, b)' :
               p = <<b, j, text'[s[b] + j]>> /\ text'[s[b] + j].op = "phi"
    <3>1. \A p \in Range(pending_phis) :
            \E b \in DOMAIN s : \E j \in insts_of(s, b) :
               p = <<b, j, text[s[b] + j]>> /\ text[s[b] + j].op = "phi"
      BY <1>1 DEF PutAside
    <3>2. pending_phis' = pending_phis /\ text' = text
      OBVIOUS
    <3> QED
      BY ONLY <1>7, <3>1, <3>2
  <2>2. \A p \in Range(pending_terms') :
            \E b \in DOMAIN s :
               ~open(current_terminated', s, b) /\ p = <<b, text'[last(text', s, b)]>>
    BY <1>1, <1>9 DEF PutAside
  <2>3. pending_phis' \in Seq(Range(pending_phis'))
    BY <1>1 DEF PutAside
  <2> QED
    BY <1>9, <2>1, <2>2, <2>3 DEF PutAside
<1>13. LabelsRead'
  BY <1>1, <1>8 DEF LabelsRead, block_lines
<1>14. Starts(text', s) /\ LinesFit(text', current_terminated', s)
  BY DEF Read
<1> QED
  BY <1>11, <1>12, <1>13, <1>14 DEF Read

\* Resolving a terminator keeps the invariant.
LEMMA TermReads ==
    ASSUME PInv, Parse!ResolveTerm
    PROVE  PInv'
<1>1. /\ phase = "terms" /\ text' = text /\ text \in Seq(Lines) /\ pending_terms # <<>>
      /\ result = "none" /\ args # -1 /\ text # <<>> /\ pending_phis = <<>>
      /\ current = <<>> /\ current_terminated
  BY DEF Parse!ResolveTerm, PInv, PhaseFits
<1>2. PICK s \in Seq(Nat) : Read(s)
  BY <1>1 DEF PInv
<1>3. Head(pending_terms) \in Range(pending_terms)
  <2>1. pending_terms \in Seq(Range(pending_terms))
    BY <1>2 DEF Read, PutAside
  <2> QED
    BY <1>1, <2>1, OneLessAside
<1>4. PICK b \in DOMAIN s :
          /\ ~open(current_terminated, s, b)
          /\ Head(pending_terms) = <<b, text[last(text, s, b)]>>
  BY <1>2, <1>3 DEF Read, PutAside
<1>A. PICK line : line = text[last(text, s, b)]
  OBVIOUS
<1>5. last(text, s, b) \in DOMAIN text /\ is_terminator(line)
  <2>1. last(text, s, b) \in DOMAIN text
    BY <1>1, <1>2, InTheText
  <2>2. Starts(text, s) /\ LinesFit(text, current_terminated, s)
    BY <1>2 DEF Read
  <2>3. last(text, s, b) \in s[b]..last(text, s, b)
    <3>1. last(text, s, b) \in s[b]..Len(text) /\ s[b] \in 1..Len(text) /\ Len(text) \in Nat
      BY <1>1, <2>2, BlockPlaces
    <3> QED
      BY <3>1
  <2>4. is_terminator(line)
    BY <1>4, <1>A, <2>2, <2>3 DEF LinesFit
  <2> QED
    BY <2>1, <2>4
<1>6. Head(pending_terms) = <<b, line>>
  BY <1>4, <1>A
<1>7. Parse!known(Parse!targets(line)) <=> targets(line) \subseteq labels
  <2>1. Parse!targets(line) = targets(line)
    BY DEF Parse!targets, targets
  <2> QED
    BY <1>2, <2>1, KnownLabels DEF Parse!known
<1>8. CASE ~(line.op # "bad term" /\ Parse!known(Parse!targets(line))) /\ Parse!Fail
  <2>1. ~well_formed
    BY <1>5, <1>7, <1>8, <1>A, TermRefused
  <2>2. args' = args
    BY <1>8 DEF Parse!Fail
  <2>3. ~well_formed'
    BY <1>1, <2>1, <2>2, WellFormedKept
  <2> QED
    BY <1>1, <1>8, <2>3, Failing
<1>9. CASE /\ line.op # "bad term" /\ Parse!known(Parse!targets(line))
           /\ blocks' = [blocks EXCEPT ![b].term = Parse!resolved(line)]
           /\ pending_terms' = Tail(pending_terms)
           /\ UNCHANGED <<args, phase, current, current_terminated,
                          label_to_id, pending_phis, result>>
  <2>1. Parse!resolved(line) = ends_as(line)
    <3>1. CASE line.op = "ret"
      BY <3>1 DEF Parse!resolved, ends_as, Parse!Ret, Ret
    <3>2. CASE line.op = "jmp"
      <4>1. line.target \in labels
        BY <1>7, <1>9, <3>2 DEF targets
      <4>2. label_to_id[line.target] = parse_block_id[line.target]
        BY <1>2, <4>1, KnownLabels
      <4> QED
        BY <3>2, <4>2 DEF Parse!resolved, ends_as, Parse!Jmp, Jmp
    <3>3. CASE line.op = "br"
      <4>1. line.then_bb \in labels /\ line.else_bb \in labels
        BY <1>7, <1>9, <3>3 DEF targets
      <4>2. /\ label_to_id[line.then_bb] = parse_block_id[line.then_bb]
            /\ label_to_id[line.else_bb] = parse_block_id[line.else_bb]
        BY <1>2, <4>1, KnownLabels
      <4> QED
        BY <3>3, <4>2 DEF Parse!resolved, ends_as, Parse!Br, Br
    <3> QED
      BY <1>5, <1>9, <3>1, <3>2, <3>3 DEF is_terminator
  <2>2. blocks' = with_term(blocks, b, ends_as(line))
    BY <1>9, <2>1 DEF with_term
  <2>3. UNCHANGED <<text, current, current_terminated, label_to_id, pending_phis>>
    BY <1>1, <1>9
  <2>4. targets(line) \subseteq labels
    BY <1>7, <1>9
  <2>5. Read(s)'
    BY <1>1, <1>2, <1>6, <1>9, <1>A, <2>2, <2>3, <2>4, TermPut
  <2>6. PhaseFits'
    BY <1>1, <1>9 DEF PhaseFits
  <2>7. result' = "none" /\ text' \in Seq(Lines)
    BY <1>1, <1>9
  <2> QED
    BY <2>5, <2>6, <2>7 DEF PInv
<1>B. PICK resolves \in BOOLEAN :
          resolves <=> line.op # "bad term" /\ Parse!known(Parse!targets(line))
  OBVIOUS
<1>C. PICK at : at = Head(pending_terms)
  OBVIOUS
<1>D. at[1] = b /\ at[2] = line
  BY <1>6, <1>C
<1>E. \/ /\ resolves
         /\ blocks' = [blocks EXCEPT ![b].term = Parse!resolved(line)]
         /\ pending_terms' = Tail(pending_terms)
         /\ UNCHANGED <<args, phase, current, current_terminated,
                        label_to_id, pending_phis, result>>
      \/ ~resolves /\ Parse!Fail
  BY <1>B, <1>C, <1>D DEF Parse!ResolveTerm
<1> QED
  BY <1>8, <1>9, <1>B, <1>E

\* A step keeps the invariant.
LEMMA ParseStep ==
    ASSUME PInv, [Parse!Next]_(Parse!vars)
    PROVE  PInv'
<1>1. ASSUME NEW line \in Lines, Parse!ReadLine(line) PROVE PInv'
  BY <1>1, LineReads
<1>2. CASE UNCHANGED (Parse!vars)
  <2>1. /\ UNCHANGED <<text, blocks, current, current_terminated, tables>>
        /\ text' = text /\ blocks' = blocks /\ current' = current
        /\ current_terminated' = current_terminated /\ label_to_id' = label_to_id
        /\ pending_phis' = pending_phis /\ pending_terms' = pending_terms
        /\ phase' = phase /\ result' = result /\ args' = args
    BY <1>2 DEF Parse!vars, tables
  <2>2. PhaseFits'
    BY <2>1 DEF PInv, PhaseFits
  <2>3. result' = "error" => ~well_formed'
    BY <2>1, WellFormedKept DEF PInv
  <2>4. ASSUME NEW s \in Seq(Nat), Read(s) PROVE Read(s)'
    BY <2>1, <2>4, ReadKept
  <2>5. text' \in Seq(Lines)
    BY <2>1 DEF PInv
  <2> QED
    BY <2>1, <2>2, <2>3, <2>4, <2>5 DEF PInv
<1>3. CASE Parse!Next
  <2>1. CASE Parse!ReadHeader
    BY <2>1, HeaderReads
  <2>2. CASE Parse!EndOfText
    BY <2>2, EndReads
  <2>3. CASE Parse!ResolvePhi
    BY <2>3, PhiReads
  <2>4. CASE Parse!PhisDone
    BY <2>4, PhisDoneReads
  <2>5. CASE Parse!ResolveTerm
    BY <2>5, TermReads
  <2>6. CASE Parse!Finish
    BY <2>6, FinishReads
  <2> QED
    BY <1>1, <1>3, <2>1, <2>2, <2>3, <2>4, <2>5, <2>6 DEF Parse!Next
<1> QED
  BY <1>2, <1>3

\* As long as parse has not refused the text, the lines it has read are in
\* their places or put aside with the place they belong to; what it refuses is
\* not well formed.
THEOREM ParseInvariant == Parse!Spec => []PInv
<1>1. Parse!Init => PInv
  BY InitReads
<1>2. PInv /\ [Parse!Next]_(Parse!vars) => PInv'
  BY ParseStep
<1> QED
  BY <1>1, <1>2, PTL DEF Parse!Spec

-----------------------------------------------------------------------------
(* What parse returns.                                                     *)

\* The lines that start a block are those of s.
LEMMA StartsAreBlocks ==
    ASSUME NEW t \in Seq(Lines), NEW closed, NEW s, Starts(t, s), LinesFit(t, closed, s)
    PROVE  \A m \in starts_in(t) : \E b \in DOMAIN s : m = s[b]
<1>1. ASSUME NEW m \in starts_in(t) PROVE \E b \in DOMAIN s : m = s[b]
  <2>1. m \in DOMAIN t /\ t[m].op = "block" /\ m \in Nat
    BY StartsIn DEF starts_in
  <2>2. PICK b \in DOMAIN s : s[b] <= m /\ m <= last(t, s, b)
    BY <2>1 DEF Starts
  <2>3. s[b] \in Nat /\ last(t, s, b) \in Nat
    <3>1. /\ Len(t) \in Nat /\ s[b] \in 1..Len(t) /\ last(t, s, b) \in s[b]..Len(t)
      BY BlockPlaces
    <3> QED
      BY <3>1
  <2>4. m \in s[b]..last(t, s, b)
    BY <2>1, <2>2, <2>3
  <2>5. m = s[b]
    BY <2>1, <2>4 DEF LinesFit
  <2> QED
    BY <2>5
<1> QED
  BY <1>1

\* The first n blocks start at n lines.
LEMMA CountUpTo ==
    ASSUME NEW t \in Seq(Lines), NEW s, Starts(t, s), NEW n \in 0..Len(s),
           NEW T, T = {m \in starts_in(t) : \E a \in 1..n : m = s[a]}
    PROVE  Cardinality(T) = n
<1>1. Len(s) \in Nat /\ DOMAIN s = 1..Len(s)
  BY BlockPlaces
<1>2. \A a \in 1..n : a \in DOMAIN s
  BY <1>1
<1>3. \A a \in 1..n : s[a] \in T
  BY <1>2 DEF Starts
<1>4. ASSUME NEW a \in 1..n, NEW b \in 1..n, s[a] = s[b] PROVE a = b
  <2>1. a \in DOMAIN s /\ b \in DOMAIN s /\ a \in Nat /\ b \in Nat
    BY <1>2
  <2>2. s[a] \in Nat /\ s[b] \in Nat
    <3>1. Len(t) \in Nat /\ s[a] \in 1..Len(t) /\ s[b] \in 1..Len(t)
      BY <2>1, BlockPlaces
    <3> QED
      BY <3>1
  <2>3. ~(a < b) /\ ~(b < a)
    <3>1. \A x, y \in DOMAIN s : x < y => s[x] < s[y]
      BY DEF Starts
    <3>2. ~(s[a] < s[b]) /\ ~(s[b] < s[a])
      BY ONLY <1>4, <2>2
    <3> QED
      BY ONLY <2>1, <3>1, <3>2
  <2> QED
    BY <2>1, <2>3
<1>A. PICK g : g = [a \in 1..n |-> s[a]]
  OBVIOUS
<1>5. g \in Bijection(1..n, T)
  <2>1. g \in [1..n -> T]
    BY <1>3, <1>A
  <2>2. \A a, b \in 1..n : g[a] = g[b] => a = b
    BY <1>4, <1>A
  <2>3. \A m \in T : \E a \in 1..n : g[a] = m
    BY <1>A
  <2> QED
    BY <2>1, <2>2, <2>3 DEF Bijection, Injection, Surjection, IsInjective
<1>6. IsFiniteSet(1..n) /\ Cardinality(1..n) = n
  <2>1. n \in Int /\ n \in Nat /\ 1 \in Int
    BY <1>1
  <2>2. IsFiniteSet(1..n) /\ Cardinality(1..n) = IF 1 > n THEN 0 ELSE n - 1 + 1
    BY <2>1, FS_Interval
  <2> QED
    BY <2>1, <2>2
<1>7. ExistsBijection(1..n, T)
  BY <1>5 DEF ExistsBijection
<1> QED
  BY <1>6, <1>7, FS_Bijection

\* The b-th block line is where the b-th block starts.
LEMMA StartOfBlock ==
    ASSUME text \in Seq(Lines), NEW s, Read(s)
    PROVE  /\ block_lines = starts_in(text)
           /\ Cardinality(block_lines) = Len(s)
           /\ \A b \in DOMAIN s : start_of(b) = s[b]
<1>1. block_lines = starts_in(text)
  BY DEF block_lines, starts_in
<1>2. Starts(text, s) /\ LinesFit(text, current_terminated, s)
  BY DEF Read
<1>3. Len(s) \in Nat /\ DOMAIN s = 1..Len(s)
  BY <1>2, BlockPlaces
<1>4. \A b \in DOMAIN s : s[b] \in Nat /\ s[b] \in starts_in(text)
  <2>1. \A b \in DOMAIN s : s[b] \in starts_in(text)
    BY <1>2 DEF Starts
  <2> QED
    BY <2>1, StartsIn
<1>5. \A m \in starts_in(text) : \E b \in DOMAIN s : m = s[b]
  BY <1>2, StartsAreBlocks
<1>6. Cardinality(block_lines) = Len(s)
  <2>1. block_lines = {m \in starts_in(text) : \E a \in 1..Len(s) : m = s[a]}
    BY <1>1, <1>3, <1>5
  <2>2. Len(s) \in 0..Len(s)
    BY <1>3
  <2> QED
    BY <1>2, <2>1, <2>2, CountUpTo
<1>7. ASSUME NEW b \in DOMAIN s
      PROVE  Cardinality({m \in block_lines : m < s[b]}) = b - 1
  <2>A. PICK T : T = {m \in starts_in(text) : \E a \in 1..(b - 1) : m = s[a]}
    OBVIOUS
  <2>1. b - 1 \in 0..Len(s) /\ b \in 1..Len(s)
    BY <1>3
  <2>2. Cardinality(T) = b - 1
    BY <1>2, <2>1, <2>A, CountUpTo
  <2>3. ASSUME NEW m \in starts_in(text) PROVE m < s[b] <=> \E a \in 1..(b - 1) : m = s[a]
    <3>1. PICK c \in DOMAIN s : m = s[c]
      BY <1>5
    <3>2. c \in 1..Len(s)
      BY <1>3
    <3>3. c < b => s[c] < s[b]
      BY <1>2 DEF Starts
    <3>4. b < c => s[b] < s[c]
      BY <1>2 DEF Starts
    <3>5. s[b] \in Nat /\ s[c] \in Nat
      BY <1>4
    <3>6. s[c] < s[b] <=> c < b
      BY <1>3, <2>1, <3>2, <3>3, <3>4, <3>5
    <3>7. c < b => c \in 1..(b - 1)
      BY <1>3, <2>1, <3>2
    <3>8. ASSUME NEW a \in 1..(b - 1), m = s[a] PROVE m < s[b]
      <4>1. a \in DOMAIN s /\ a < b
        BY <1>3, <2>1
      <4> QED
        BY <1>2, <3>8, <4>1 DEF Starts
    <3> QED
      BY <3>1, <3>6, <3>7, <3>8
  <2>4. {m \in block_lines : m < s[b]} = T
    BY <1>1, <2>3, <2>A
  <2> QED
    BY <2>2, <2>4
<1>8. ASSUME NEW b \in DOMAIN s PROVE start_of(b) = s[b]
  <2>1. s[b] \in block_lines /\ Cardinality({m \in block_lines : m < s[b]}) = b - 1
    BY <1>1, <1>4, <1>7
  <2>2. ASSUME NEW n \in block_lines, Cardinality({m \in block_lines : m < n}) = b - 1
        PROVE  n = s[b]
    <3>1. PICK a \in DOMAIN s : n = s[a]
      BY <1>1, <1>5
    <3>2. a - 1 = b - 1
      BY <1>7, <2>2, <3>1
    <3>3. a = b
      <4>1. a \in Int /\ b \in Int
        BY <1>3
      <4> QED
        BY <3>2, <4>1
    <3> QED
      BY <3>1, <3>3
  <2> QED
    BY <2>1, <2>2 DEF start_of
<1> QED
  BY <1>1, <1>6, <1>8

\* Once parse has returned a function, nothing is open and nothing put aside.
LEMMA NothingAside ==
    ASSUME PInv, result = "ok"
    PROVE  /\ text \in Seq(Lines) /\ text # <<>> /\ args # -1
           /\ current = <<>> /\ current_terminated
           /\ Range(pending_phis) = {} /\ Range(pending_terms) = {}
           /\ \E s \in Seq(Nat) : Read(s)
<1>1. pending_phis = <<>> /\ pending_terms = <<>>
  BY DEF PInv, PhaseFits
<1>2. Range(<<>>) = {}
  BY DEF Range
<1> QED
  BY <1>1, <1>2 DEF PInv, PhaseFits

\* Then every instruction is as its line says,
LEMMA InstIsRead ==
    ASSUME PInv, result = "ok", NEW s, Read(s), NEW b \in DOMAIN s, NEW j \in insts_of(s, b),
           NEW line, line = text[s[b] + j]
    PROVE  /\ blocks[b].insts[j] = read_as(line)
           /\ ~is_terminator(line)
           /\ line.op = "phi" => line.incoming # <<>>
           /\ named(line) \subseteq labels
<1>1. /\ text \in Seq(Lines) /\ current = <<>> /\ current_terminated
      /\ Range(pending_phis) = {}
  BY NothingAside
<1>2. block_at(b) = blocks[b]
  <2>1. b \in 1..Len(blocks) /\ Len(blocks) \in Nat
    BY <1>1, InTheText
  <2>2. b <= Len(blocks)
    BY <2>1
  <2> QED
    BY <2>2 DEF block_at
<1>3. InstRead(s, b, j)
  BY DEF Read, BlocksRead, BlockRead
<1>4. /\ blocks[b].insts[j] = read_as(line)
      /\ line.op = "phi" => line.incoming # <<>> /\ named(line) \subseteq labels
  BY <1>1, <1>2, <1>3 DEF InstRead
<1>5. s[b] + j \in s[b]..last(text, s, b) /\ s[b] + j # last(text, s, b)
  <2>1. ~open(current_terminated, s, b)
    BY <1>1 DEF open
  <2> QED
    BY <1>1, <2>1, InTheText
<1>6. ~is_terminator(line)
  BY <1>5 DEF Read, LinesFit
<1>7. line.op # "phi" => named(line) = {}
  BY <1>6 DEF named, targets, is_terminator
<1> QED
  BY <1>4, <1>6, <1>7

\* and so is every terminator.
LEMMA TermIsRead ==
    ASSUME PInv, result = "ok", NEW s, Read(s), NEW b \in DOMAIN s,
           NEW line, line = text[last(text, s, b)]
    PROVE  /\ blocks[b].term = ends_as(line)
           /\ is_terminator(line) /\ line.op # "bad term"
           /\ named(line) \subseteq labels
<1>1. /\ text \in Seq(Lines) /\ current = <<>> /\ current_terminated
      /\ Range(pending_terms) = {}
  BY NothingAside
<1>2. block_at(b) = blocks[b]
  <2>1. b \in 1..Len(blocks) /\ Len(blocks) \in Nat
    BY <1>1, InTheText
  <2>2. b <= Len(blocks)
    BY <2>1
  <2> QED
    BY <2>2 DEF block_at
<1>3. ~open(current_terminated, s, b)
  BY <1>1 DEF open
<1>4. TermRead(s, b)
  BY <1>3 DEF Read, BlocksRead, BlockRead
<1>5. /\ line.op # "bad term" /\ targets(line) \subseteq labels
      /\ blocks[b].term = ends_as(line)
  BY <1>1, <1>2, <1>4 DEF TermRead
<1>6. last(text, s, b) \in s[b]..last(text, s, b)
  <2>1. Starts(text, s)
    BY DEF Read
  <2>2. last(text, s, b) \in s[b]..Len(text) /\ s[b] \in 1..Len(text) /\ Len(text) \in Nat
    BY <1>1, <2>1, BlockPlaces
  <2> QED
    BY <2>2
<1>7. is_terminator(line)
  BY <1>3, <1>6 DEF Read, LinesFit
<1>8. named(line) = targets(line)
  BY <1>7 DEF named, is_terminator
<1> QED
  BY <1>5, <1>7, <1>8

\* So every block is what its lines say,
LEMMA BlockIsRead ==
    ASSUME PInv, result = "ok", NEW s, Read(s), NEW b \in DOMAIN s
    PROVE  blocks[b] = block_read(s[b])
<1>1. text \in Seq(Lines) /\ current = <<>> /\ current_terminated
  BY NothingAside
<1>2. end_of(s[b]) = last(text, s, b)
  <2>1. Starts(text, s) /\ LinesFit(text, current_terminated, s)
    BY DEF Read
  <2>2. stop_in(text, s[b]) = last(text, s, b)
    BY <1>1, <2>1, EndOfBlock
  <2>3. block_lines = starts_in(text)
    BY DEF block_lines, starts_in
  <2> QED
    BY <2>2, <2>3 DEF end_of, stop_in
<1>3. size(text, current_terminated, s, b) = end_of(s[b]) - s[b] - 1
  BY <1>1, <1>2 DEF size, open
<1>A. PICK sz : sz = end_of(s[b]) - s[b] - 1
  OBVIOUS
<1>4. insts_of(s, b) = 1..sz
  BY <1>3, <1>A DEF insts_of
<1>5. block_at(b) = blocks[b]
  <2>1. b \in 1..Len(blocks) /\ Len(blocks) \in Nat
    BY <1>1, InTheText
  <2>2. b <= Len(blocks)
    BY <2>1
  <2> QED
    BY <2>2 DEF block_at
<1>B. PICK c : c = blocks[b]
  OBVIOUS
<1>C. PICK g : g = c.insts
  OBVIOUS
<1>D. PICK e : e = c.term
  OBVIOUS
<1>6. /\ c = [id |-> parse_block_id[text[s[b]].label], insts |-> g, term |-> e]
      /\ g = [j \in 1..sz |-> g[j]]
  <2>1. BlockRead(s, b)
    BY DEF Read, BlocksRead
  <2> QED
    BY <1>4, <1>5, <1>B, <1>C, <1>D, <2>1 DEF BlockRead
<1>7. \A j \in 1..sz : g[j] = read_as(text[s[b] + j])
  <2>1. ASSUME NEW j \in 1..sz PROVE g[j] = read_as(text[s[b] + j])
    <3>1. PICK line : line = text[s[b] + j]
      OBVIOUS
    <3>2. j \in insts_of(s, b)
      BY <1>4
    <3>3. blocks[b].insts[j] = read_as(line)
      BY <3>1, <3>2, InstIsRead
    <3> QED
      BY <1>B, <1>C, <3>1, <3>3
  <2> QED
    BY <2>1
<1>8. g = [m \in 1..sz |-> read_as(text[s[b] + m])]
  BY <1>6, <1>7
<1>9. e = ends_as(text[end_of(s[b])])
  BY <1>2, <1>B, <1>D, TermIsRead
<1> QED
  BY <1>6, <1>8, <1>9, <1>A, <1>B DEF block_read

\* and the text is well formed.
LEMMA AcceptedIsWellFormed ==
    ASSUME PInv, result = "ok", NEW s, Read(s)
    PROVE  well_formed
<1>1. /\ text \in Seq(Lines) /\ text # <<>> /\ args # -1
      /\ current = <<>> /\ current_terminated
  BY NothingAside
<1>2. Starts(text, s) /\ LinesFit(text, current_terminated, s) /\ LabelsRead
  BY DEF Read
<1>A. \A m \in starts_in(text) : \E b \in DOMAIN s : m = s[b]
  <2>1. text \in Seq(Lines) /\ Starts(text, s) /\ LinesFit(text, current_terminated, s)
    BY <1>1 DEF Read
  <2> QED
    BY <2>1, StartsAreBlocks
<1>3. block_lines = starts_in(text)
  BY DEF block_lines, starts_in
<1>4. text[1].op = "block"
  <2>1. s # <<>> /\ s[1] = 1
    BY <1>1, <1>2 DEF Starts
  <2>2. 1 \in DOMAIN s
    <3>1. Len(s) \in Nat /\ DOMAIN s = 1..Len(s) /\ s \in Seq(Nat)
      BY <1>1, InTheText
    <3>2. Len(s) # 0
      BY <2>1, <3>1, EmptySeq
    <3> QED
      BY <3>1, <3>2
  <2> QED
    BY <1>2, <2>1, <2>2 DEF Starts, starts_in
<1>5. ASSUME NEW n \in block_lines
      PROVE  \A m \in n..end_of(n) : is_terminator(text[m]) <=> m = end_of(n)
  <2>1. PICK b \in DOMAIN s : n = s[b]
    <3>1. n \in starts_in(text)
      BY <1>3
    <3> QED
      BY <1>A, <3>1
  <2>2. end_of(n) = last(text, s, b)
    <3>1. stop_in(text, s[b]) = last(text, s, b)
      BY <1>1, <1>2, EndOfBlock
    <3> QED
      BY <1>3, <2>1, <3>1 DEF end_of, stop_in
  <2>3. ~open(current_terminated, s, b)
    BY <1>1 DEF open
  <2> QED
    BY <1>2, <2>1, <2>2, <2>3 DEF LinesFit
<1>6. ASSUME NEW n \in DOMAIN text
      PROVE  /\ text[n].op \notin {"bad", "bad term"}
             /\ text[n].op = "phi" => text[n].incoming # <<>>
             /\ named(text[n]) \subseteq labels
  <2>1. PICK b \in DOMAIN s : s[b] <= n /\ n <= last(text, s, b)
    BY <1>2 DEF Starts
  <2>2. /\ Len(text) \in Nat /\ DOMAIN text = 1..Len(text)
        /\ s[b] \in 1..Len(text) /\ last(text, s, b) \in s[b]..Len(text)
    BY <1>1, <1>2, BlockPlaces
  <2>3. n \in Nat /\ s[b] \in Nat /\ last(text, s, b) \in Nat /\ n \in s[b]..last(text, s, b)
    BY <2>1, <2>2
  <2>4. /\ text[n].op = "block" <=> n = s[b]
        /\ text[n].op # "bad"
    BY <1>2, <2>3 DEF LinesFit
  <2>5. CASE n = s[b]
    BY <2>4, <2>5 DEF named, targets
  <2>6. CASE n = last(text, s, b)
    <3>1. PICK line : line = text[n]
      OBVIOUS
    <3>2. is_terminator(line) /\ line.op # "bad term" /\ named(line) \subseteq labels
      BY <2>6, <3>1, TermIsRead
    <3>3. line.op # "phi"
      BY <3>2 DEF is_terminator
    <3> QED
      BY <2>4, <3>1, <3>2, <3>3
  <2>7. CASE n # s[b] /\ n # last(text, s, b)
    <3>1. PICK j : j = n - s[b]
      OBVIOUS
    <3>2. PICK line : line = text[n]
      OBVIOUS
    <3>3. j \in insts_of(s, b)
      <4>1. size(text, current_terminated, s, b) = last(text, s, b) - s[b] - 1
        BY <1>1 DEF size, open
      <4>2. j \in 1..(last(text, s, b) - s[b] - 1)
        BY <2>3, <2>7, <3>1
      <4> QED
        BY <4>1, <4>2 DEF insts_of
    <3>4. s[b] + j = n
      BY <2>3, <3>1
    <3>5. line = text[s[b] + j]
      BY <3>2, <3>4
    <3>6. /\ ~is_terminator(line) /\ line.op = "phi" => line.incoming # <<>>
          /\ named(line) \subseteq labels
      BY <3>3, <3>5, InstIsRead
    <3>7. ~is_terminator(line)
      BY <3>3, <3>5, InstIsRead
    <3>8. line.op = "phi" => line.incoming # <<>>
      BY <3>3, <3>5, InstIsRead
    <3>9. line.op # "bad term"
      BY <3>7 DEF is_terminator
    <3> QED
      BY <2>4, <3>2, <3>6, <3>8, <3>9
  <2> QED
    BY <2>5, <2>6, <2>7
<1>7. \A n \in block_lines :
        /\ parse_block_id[text[n].label] # NoId
        /\ \A m \in block_lines : text[m].label = text[n].label => m = n
  BY <1>2 DEF LabelsRead
<1> QED
  BY <1>1, <1>4, <1>5, <1>6, <1>7 DEF well_formed

\* parse accepts the well-formed texts and no others, and returns what they say.
LEMMA ParseAnswers == PInv => ReadsTheText
<1> SUFFICES ASSUME PInv PROVE ReadsTheText
  OBVIOUS
<1>1. result = "error" => ~well_formed
  BY DEF PInv
<1>2. CASE result = "ok"
  <2>1. PICK s \in Seq(Nat) : Read(s)
    BY <1>2, NothingAside
  <2>2. well_formed
    BY <1>2, <2>1, AcceptedIsWellFormed
  <2>3. /\ text \in Seq(Lines) /\ text # <<>> /\ current = <<>>
    BY <1>2, NothingAside
  <2>4. /\ Cardinality(block_lines) = Len(s)
        /\ \A b \in DOMAIN s : start_of(b) = s[b]
    BY <2>1, <2>3, StartOfBlock
  <2>5. DOMAIN s = 1..Len(s) /\ Len(blocks) = Len(s) /\ DOMAIN blocks = 1..Len(blocks)
        /\ Len(s) \in Nat
    BY <2>1, <2>3, InTheText
  <2>6. \A b \in DOMAIN s : blocks[b] = block_read(start_of(b))
    <3>1. \A b \in DOMAIN s : blocks[b] = block_read(s[b])
      BY <1>2, <2>1, BlockIsRead
    <3> QED
      BY <2>4, <3>1
  <2>A. PICK bs : bs = blocks
    OBVIOUS
  <2>7. bs = [b \in 1..Len(s) |-> block_read(start_of(b))]
    <3>1. bs \in Seq(Range(bs)) /\ DOMAIN bs = 1..Len(s)
      BY <2>1, <2>5, <2>A DEF Read, BlocksRead
    <3>2. bs = [b \in 1..Len(s) |-> bs[b]]
      BY <3>1
    <3> QED
      BY <2>5, <2>6, <2>A, <3>2
  <2>8. function.blocks = blocks /\ function.entry = blocks[1].id
    BY DEF function
  <2>9. blocks[1].id = parse_block_id[text[1].label]
    <3>1. s # <<>> /\ s[1] = 1
      BY <2>1, <2>3 DEF Read, Starts
    <3>2. 1 \in DOMAIN s
      <4>1. Len(s) # 0
        BY <2>1, <2>5, <3>1, EmptySeq
      <4> QED
        BY <2>5, <4>1
    <3>3. blocks[1] = block_read(1)
      BY <1>2, <2>1, <3>1, <3>2, BlockIsRead
    <3> QED
      BY <3>3 DEF block_read
  <2>10. function.blocks = [b \in 1..Cardinality(block_lines) |-> block_read(start_of(b))]
    BY <2>4, <2>7, <2>8, <2>A
  <2> QED
    BY <1>2, <2>2, <2>8, <2>9, <2>10 DEF ReadsTheText
<1> QED
  BY <1>1, <1>2 DEF ReadsTheText

\* parse (ir/src/parser.rs) refuses exactly the texts that are not well formed;
\* in the function it returns every phi and terminator stands where it was
\* written and names the blocks its labels name.
THEOREM ReadsTheTextAlways == Parse!Spec => []ReadsTheText
BY ParseInvariant, ParseAnswers, PTL

\* Two labels of a text that parse accepts may have one id, but then two of its
\* blocks have it too, and validate_function refuses the function.
LEMMA ValidLabels == PInv => LabelsNameBlocks
<1> SUFFICES ASSUME PInv, result = "ok", validate_function(function),
                    NEW l \in DOMAIN label_to_id, NEW m \in DOMAIN label_to_id,
                    label_to_id[l] = label_to_id[m]
             PROVE  l = m
  BY DEF LabelsNameBlocks
<1>1. PICK s \in Seq(Nat) : Read(s)
  BY NothingAside
<1>2. text \in Seq(Lines) /\ current = <<>>
  BY NothingAside
<1>3. DOMAIN s = 1..Len(s) /\ Len(blocks) = Len(s) /\ DOMAIN blocks = 1..Len(blocks)
  BY <1>1, <1>2, InTheText
<1>4. function.blocks = blocks
  BY DEF function
<1>5. \A a, b \in DOMAIN blocks : blocks[a].id = blocks[b].id => a = b
  BY <1>4 DEF validate_function, blocks_are_valid
<1>6. \A b \in DOMAIN s : blocks[b].id = parse_block_id[text[s[b]].label]
  <2>1. \A b \in DOMAIN s : blocks[b] = block_read(s[b])
    BY <1>1, BlockIsRead
  <2>2. \A n : block_read(n).id = parse_block_id[text[n].label]
    BY DEF block_read
  <2> QED
    BY <2>1, <2>2
<1>7. ASSUME NEW x \in DOMAIN label_to_id
      PROVE  \E b \in DOMAIN s : x = text[s[b]].label /\ blocks[b].id = label_to_id[x]
  <2>1. x \in labels /\ label_to_id[x] = parse_block_id[x]
    BY <1>1, KnownLabels
  <2>2. PICK n \in block_lines : x = text[n].label
    BY <2>1 DEF labels
  <2>3. n \in starts_in(text)
    BY DEF block_lines, starts_in
  <2>4. PICK b \in DOMAIN s : n = s[b]
    BY <1>1, <1>2, <2>3, StartsAreBlocks DEF Read
  <2> QED
    BY <1>6, <2>1, <2>2, <2>4
<1>8. PICK a \in DOMAIN s : l = text[s[a]].label /\ blocks[a].id = label_to_id[l]
  BY <1>7
<1>9. PICK b \in DOMAIN s : m = text[s[b]].label /\ blocks[b].id = label_to_id[m]
  BY <1>7
<1>10. a = b
  BY <1>3, <1>5, <1>8, <1>9
<1> QED
  BY <1>8, <1>9, <1>10

\* In a function that validate_function accepts every label of the text names a
\* block of its own.
THEOREM LabelsNameBlocksAlways == Parse!Spec => []LabelsNameBlocks
BY ParseInvariant, ValidLabels, PTL

-----------------------------------------------------------------------------
(* What parse refuses stays wrong.                                         *)

\* A block goes on to the last line or to the next block.
LEMMA StopIsEnd ==
    ASSUME NEW t \in Seq(Lines), NEW n \in starts_in(t)
    PROVE  /\ stop_in(t, n) \in n..Len(t)
           /\ \A m \in (n + 1)..stop_in(t, n) : t[m].op # "block"
           /\ stop_in(t, n) = Len(t) \/ t[stop_in(t, n) + 1].op = "block"
<1> DEFINE T == {m \in starts_in(t) : m > n}
<1>1. Len(t) \in Nat /\ DOMAIN t = 1..Len(t)
  BY LenProperties
<1>2. \A m \in starts_in(t) : m \in 1..Len(t) /\ t[m].op = "block"
  BY <1>1 DEF starts_in
<1>3. n \in Nat /\ n <= Len(t) /\ n \in 1..Len(t)
  BY <1>1, <1>2
<1>4. CASE T = {}
  <2>1. stop_in(t, n) = Len(t)
    BY <1>4 DEF stop_in
  <2>2. ASSUME NEW m \in (n + 1)..Len(t) PROVE t[m].op # "block"
    <3>1. m \in DOMAIN t /\ m > n
      BY <1>1, <1>3
    <3> QED
      BY <1>4, <3>1 DEF starts_in
  <2> QED
    BY <1>1, <1>3, <2>1, <2>2
<1>5. CASE T # {}
  <2>1. PICK e : e = Min(T)
    OBVIOUS
  <2>2. T \subseteq Nat
    BY <1>2
  <2>3. e \in T /\ \A y \in T : e <= y
    <3> HIDE DEF T
    <3>1. PICK x \in T : \A y \in T : x <= y
      BY <1>5, <2>2, LeastNatural
    <3> QED
      BY <2>1, <3>1 DEF Min
  <2>4. stop_in(t, n) = e - 1
    BY <1>5, <2>1 DEF stop_in
  <2>5. e \in 1..Len(t) /\ e > n /\ t[e].op = "block" /\ e \in Nat
    BY <1>2, <2>3
  <2>6. ASSUME NEW m \in (n + 1)..(e - 1) PROVE t[m].op # "block"
    <3>1. m \in DOMAIN t /\ m > n /\ ~(e <= m)
      BY <1>1, <1>3, <2>5
    <3> QED
      BY <2>3, <3>1 DEF starts_in
  <2>7. e - 1 \in n..Len(t) /\ (e - 1) + 1 = e
    BY <1>1, <1>3, <2>5
  <2> QED
    BY <2>4, <2>5, <2>6, <2>7
<1> QED
  BY <1>4, <1>5

\* The lines t are the first of v.
first_of(t, v) == Len(t) <= Len(v) /\ \A n \in 1..Len(t) : v[n] = t[n]

\* A block is the same in both, or it is the last of t.
LEMMA StopInBoth ==
    ASSUME NEW t \in Seq(Lines), NEW v \in Seq(Lines), first_of(t, v),
           NEW n \in starts_in(t)
    PROVE  /\ n \in starts_in(v) /\ stop_in(v, n) \in n..Len(v)
           /\ stop_in(t, n) \in n..Len(t)
           /\ stop_in(v, n) <= Len(t) => stop_in(t, n) = stop_in(v, n)
           /\ stop_in(v, n) > Len(t) => stop_in(t, n) = Len(t)
<1>1. /\ Len(t) \in Nat /\ DOMAIN t = 1..Len(t) /\ Len(v) \in Nat /\ DOMAIN v = 1..Len(v)
      /\ Len(t) <= Len(v)
  BY LenProperties DEF first_of
<1>2. n \in starts_in(v) /\ n \in 1..Len(t) /\ n \in Nat
  BY <1>1 DEF starts_in, first_of
<1>A. PICK e : e = stop_in(v, n)
  OBVIOUS
<1>3. /\ e \in n..Len(v)
      /\ \A m \in (n + 1)..e : v[m].op # "block"
      /\ e = Len(v) \/ v[e + 1].op = "block"
  BY <1>2, <1>A, StopIsEnd
<1>B. e \in Nat /\ n \in Nat /\ Len(t) \in Nat /\ n <= e /\ 1 <= n /\ n <= Len(t)
  <2>1. n \in 1..Len(t) /\ Len(t) \in Nat /\ e \in n..Len(v) /\ Len(v) \in Nat
    BY <1>1, <1>2, <1>3
  <2> QED
    BY ONLY <2>1
<1>4. stop_in(t, n) \in n..Len(t)
  BY StopIsEnd
<1>5. ASSUME NEW d \in Nat, d <= e, n <= d, d <= Len(t), d = Len(t) \/ t[d + 1].op = "block"
      PROVE  stop_in(t, n) = d
  <2>1. ASSUME NEW m \in (n + 1)..d PROVE t[m].op # "block"
    <3>1. m \in (n + 1)..e /\ m \in 1..Len(t)
      <4>1. m \in Int /\ n + 1 <= m /\ m <= d
        BY <1>2, <1>5
      <4>2. m <= e /\ m <= Len(t) /\ 1 <= m
        BY <1>B, <1>5, <4>1
      <4> QED
        BY <1>B, <4>1, <4>2
    <3> QED
      BY <1>3, <3>1 DEF first_of
  <2> QED
    BY <1>2, <1>5, <2>1, StopOfBlock
<1>6. ASSUME e <= Len(t) PROVE stop_in(t, n) = e
  <2>1. e \in Nat /\ n <= e
    BY <1>2, <1>3
  <2>2. e = Len(t) \/ t[e + 1].op = "block"
    <3>1. CASE e # Len(t)
      <4>1. e < Len(t)
        BY <1>6, <1>B, <3>1
      <4>2. e + 1 \in 1..Len(t) /\ e # Len(v)
        <5>1. Len(v) \in Nat /\ Len(t) <= Len(v)
          BY <1>1
        <5> QED
          BY ONLY <1>B, <4>1, <5>1
      <4> QED
        BY <1>3, <4>2 DEF first_of
    <3> QED
      BY <3>1
  <2> QED
    BY <1>5, <1>6, <2>1, <2>2
<1>7. ASSUME e > Len(t) PROVE stop_in(t, n) = Len(t)
  <2>1. Len(t) <= e /\ n <= Len(t)
    BY <1>7, <1>B
  <2> QED
    BY <1>5, <1>B, <2>1
<1> QED
  BY <1>2, <1>3, <1>4, <1>6, <1>7, <1>A

\* So the first lines of a whole text begin well: what does not begin well is
\* wrong whatever lines follow it.
LEMMA WholeTextsBeginWell ==
    ASSUME NEW t \in Seq(Lines), NEW v \in Seq(Lines), first_of(t, v), whole(v)
    PROVE  begun(t)
<1>1. /\ Len(t) \in Nat /\ DOMAIN t = 1..Len(t) /\ Len(v) \in Nat /\ DOMAIN v = 1..Len(v)
      /\ Len(t) <= Len(v)
  BY LenProperties DEF first_of
<1>2. ASSUME t # <<>> PROVE t[1].op = "block"
  <2>1. Len(t) # 0
    BY <1>2, EmptySeq
  <2>2. 1 \in 1..Len(t)
    BY <1>1, <2>1
  <2> QED
    BY <2>2 DEF first_of, whole
<1>3. ASSUME NEW n \in DOMAIN t PROVE t[n] = v[n] /\ n \in DOMAIN v
  BY <1>1, <1>3 DEF first_of
<1>4. ASSUME NEW n \in DOMAIN t PROVE t[n].op # "bad"
  BY <1>3 DEF whole
<1>5. ASSUME NEW n \in starts_in(t) PROVE n \in starts_in(v) /\ n \in DOMAIN t
  BY <1>3 DEF starts_in
<1>6. ASSUME NEW n \in starts_in(t)
      PROVE  /\ parse_block_id[t[n].label] # NoId
             /\ \A m \in starts_in(t) : t[m].label = t[n].label => m = n
  BY <1>3, <1>5 DEF whole
<1>7. ASSUME NEW n \in starts_in(t), NEW m \in n..stop_in(t, n)
      PROVE  /\ is_terminator(t[m]) => m = stop_in(t, n)
             /\ m = stop_in(t, n) /\ m # Len(t) => is_terminator(t[m])
  <2>A. PICK e : e = stop_in(v, n)
    OBVIOUS
  <2>B. PICK d : d = stop_in(t, n)
    OBVIOUS
  <2>1. /\ n \in starts_in(v) /\ e \in n..Len(v) /\ d \in n..Len(t)
        /\ e <= Len(t) => d = e
        /\ e > Len(t) => d = Len(t)
    BY <2>A, <2>B, StopInBoth
  <2>2. n \in 1..Len(t) /\ m \in n..d
    BY <1>1, <1>5, <2>B
  <2>C. /\ Len(t) \in Nat /\ n \in Nat /\ e \in Nat /\ d \in Nat /\ m \in Nat
        /\ 1 <= n /\ n <= m /\ m <= d /\ d <= Len(t)
    <3>1. Len(t) \in Nat /\ Len(v) \in Nat /\ d \in n..Len(t) /\ e \in n..Len(v)
      BY <1>1, <2>1
    <3> QED
      BY ONLY <2>2, <3>1
  <2>D. m <= e
    BY <2>1, <2>C
  <2>3. m \in 1..Len(t) /\ m \in n..e
    BY <2>C, <2>D
  <2>4. t[m] = v[m]
    BY <1>1, <1>3, <2>3
  <2>5. is_terminator(v[m]) <=> m = e
    BY <2>1, <2>3, <2>A DEF whole
  <2>6. m = e => m = d
    BY <2>1, <2>C
  <2>7. m = d /\ m # Len(t) => m = e
    BY <2>1, <2>C
  <2> QED
    BY <2>4, <2>5, <2>6, <2>7, <2>B
<1> QED
  BY <1>2, <1>4, <1>6, <1>7 DEF begun

\* A line that parse refuses does not begin well.
LEMMA RefusalStep ==
    ASSUME PInv, [Parse!Next]_(Parse!vars),
           result' = "error", phase = "header" \/ text' # text,
           <<text, result>>' # <<text, result>>
    PROVE  ~begins_well'
<1>1. CASE UNCHANGED (Parse!vars)
  <2>1. text' = text /\ result' = result
    BY <1>1 DEF Parse!vars
  <2> QED
    BY <2>1
<1>2. CASE Parse!ReadHeader
  <2>1. result # "error"
    BY <1>2 DEF Parse!ReadHeader, PInv, PhaseFits
  <2>2. args = -1 /\ args' = args
    BY <1>2, <2>1 DEF Parse!ReadHeader, Parse!Fail
  <2> QED
    BY <2>2 DEF begins_well
<1>3. ASSUME NEW line \in Lines, Parse!ReadLine(line) PROVE ~begins_well'
  <2>1. phase = "lines" /\ text' = more(text, line) /\ result # "error"
    BY <1>3 DEF Parse!ReadLine, PInv, PhaseFits, more
  <2>2. CASE line.op = "block"
    <3>1. Parse!read_block(line)
      BY <1>3, <2>2 DEF Parse!ReadLine
    <3>2. \/ ~Parse!can_finish
          \/ parse_block_id[line.label] = NoId
          \/ line.label \in DOMAIN label_to_id
      BY <2>1, <3>1 DEF Parse!read_block
    <3> QED
      BY <2>1, <2>2, <3>2, BlockRefused
  <2>3. CASE line.op # "block"
    <3>1. \/ current = <<>>
          \/ Parse!read_term(line)
          \/ Parse!read_inst(line)
      BY <1>3, <2>3 DEF Parse!ReadLine
    <3>2. Parse!read_term(line) => current_terminated
      BY <2>1 DEF Parse!read_term
    <3>3. Parse!read_inst(line) => current_terminated \/ line.op = "bad"
      BY <2>1 DEF Parse!read_inst
    <3> QED
      BY <2>1, <2>3, <3>1, <3>2, <3>3, LineRefused
  <2> QED
    BY <2>2, <2>3
<1>4. CASE Parse!EndOfText \/ Parse!ResolvePhi \/ Parse!PhisDone \/ Parse!ResolveTerm \/ Parse!Finish
  <2>1. phase # "header" /\ text' = text
    BY <1>4 DEF Parse!EndOfText, Parse!ResolvePhi, Parse!PhisDone, Parse!ResolveTerm,
                Parse!Finish
  <2> QED
    BY <2>1
<1> QED
  BY <1>1, <1>2, <1>3, <1>4 DEF Parse!Next

\* parse refuses a text before its end only when no further line could make it
\* well formed.
THEOREM RefusalsAreFinalAlways == Parse!Spec => RefusalsAreFinal
<1>1. PInv /\ [Parse!Next]_(Parse!vars) =>
          [result' = "error" /\ (phase = "header" \/ text' # text)
              => ~begins_well']_<<text, result>>
  BY RefusalStep
<1> QED
  BY <1>1, ParseInvariant, PTL DEF Parse!Spec, RefusalsAreFinal
=============================================================================
