--------------------------- MODULE ExecutionProofs --------------------------
(***************************************************************************)
(* Running a function: a function that validate_function accepts never     *)
(* fails in the reference interpreter, the code emit_function_i64          *)
(* generates for it does what the interpreter does, and RunnerClient::run, *)
(* which has another process execute the code, keeps its promises.         *)
(***************************************************************************)
EXTENDS Codegen, RunnerState, OperatorProofs, SequenceTheorems

-----------------------------------------------------------------------------
(* The interpreter reads functions as the analyses do.                     *)

\* The operators of the instance are those of Analysis.
LEMMA SameReading ==
    /\ \A g : Interpreter!block_ids(g) = block_ids(g)
    /\ \A g, b : Interpreter!try_block(g, b) = try_block(g, b)
    /\ \A t : /\ Interpreter!successors(t) = successors(t)
              /\ Interpreter!term_uses(t) = term_uses(t)
    /\ \A i : /\ Interpreter!uses(i) = uses(i)
              /\ Interpreter!is_phi(i) = is_phi(i)
    /\ \A b : Interpreter!phis(b) = phis(b)
    /\ \A i, b : /\ Interpreter!has_incoming(i, b) = has_incoming(i, b)
                 /\ Interpreter!incoming_from(i, b) = incoming_from(i, b)
<1>1. \A s : Interpreter!Range(s) = Range(s)
  BY DEF Interpreter!Range, Range
<1>2. \A g : Interpreter!block_ids(g) = block_ids(g)
  BY DEF Interpreter!block_ids, block_ids
<1>3. \A g, b : Interpreter!try_block(g, b) = try_block(g, b)
  BY DEF Interpreter!try_block, try_block
<1>4. \A t : /\ Interpreter!successors(t) = successors(t)
             /\ Interpreter!term_uses(t) = term_uses(t)
  BY DEF Interpreter!successors, successors, Interpreter!term_uses, term_uses
<1>5. \A i : Interpreter!is_phi(i) = is_phi(i)
  BY DEF Interpreter!is_phi, is_phi
<1>6. \A i : Interpreter!uses(i) = uses(i)
  BY <1>1 DEF Interpreter!uses, uses
<1>7. \A b : Interpreter!phis(b) = phis(b)
  BY <1>5 DEF Interpreter!phis, phis
<1>8. \A i, b : Interpreter!has_incoming(i, b) = has_incoming(i, b)
  BY <1>1 DEF Interpreter!has_incoming, has_incoming
<1>9. \A i, b : Interpreter!incoming_from(i, b) = incoming_from(i, b)
  BY DEF Interpreter!incoming_from, incoming_from
<1> QED
  BY <1>2, <1>3, <1>4, <1>5, <1>6, <1>7, <1>8, <1>9

\* The validation of the instance is that of Analysis.
LEMMA SameValidation ==
    ASSUME NEW g
    PROVE  Interpreter!validate_function(g) = validate_function(g)
<1>1. /\ Interpreter!reachable(g) = reachable(g)
      /\ Interpreter!blocks_are_valid(g) <=> blocks_are_valid(g)
  <2>1. Interpreter!reachable(g) = reachable(g)
    BY DEF reachable, Interpreter!reachable, try_block, Interpreter!try_block,
           successors, Interpreter!successors
  <2> QED
    BY <2>1, SameReading DEF blocks_are_valid, Interpreter!blocks_are_valid
<1>2. \A v : Interpreter!definitions(g, v) = definitions(g, v)
  BY DEF Interpreter!definitions, definitions
<1>3. Interpreter!definitions_are_valid(g) <=> definitions_are_valid(g)
  BY DEF Interpreter!definitions_are_valid, definitions_are_valid,
         Interpreter!definitions, definitions, Interpreter!is_phi, is_phi,
         Interpreter!Cardinality, Cardinality
<1>4. Interpreter!compute_dominators(g) = compute_dominators(g)
  BY DEF compute_dominators, Interpreter!compute_dominators,
         dominator_sweep, Interpreter!dominator_sweep,
         build_predecessors, Interpreter!build_predecessors,
         block_ids, Interpreter!block_ids, successors, Interpreter!successors
<1>5. Interpreter!build_predecessors(g) = build_predecessors(g)
  BY DEF build_predecessors, Interpreter!build_predecessors,
         block_ids, Interpreter!block_ids, successors, Interpreter!successors
<1>6. \A b, i : Interpreter!used_at(b, i) = used_at(b, i)
  BY SameReading DEF Interpreter!used_at, used_at
<1>7. \A D, v, k, i : Interpreter!is_dominated(g, D, v, k, i) <=> is_dominated(g, D, v, k, i)
  BY <1>2 DEF Interpreter!is_dominated, is_dominated
<1>8. \A D, p, b, i : Interpreter!phi_is_valid(g, D, p, b, i) <=> phi_is_valid(g, D, p, b, i)
  BY DEF Interpreter!phi_is_valid, phi_is_valid, Interpreter!definitions, definitions,
         Interpreter!Range, Range, Interpreter!IsInjective, IsInjective,
         Interpreter!Cardinality, Cardinality
<1>9. \A D : Interpreter!uses_are_valid(g, D) <=> uses_are_valid(g, D)
  BY <1>5, <1>6, <1>7, <1>8, SameReading DEF Interpreter!uses_are_valid, uses_are_valid
<1>10. Interpreter!validate_function(g) <=> validate_function(g)
  BY <1>1, <1>3, <1>4, <1>9 DEF Interpreter!validate_function, validate_function
<1> QED
  BY <1>10 DEF Interpreter!validate_function, validate_function

\* A function of the right type that passes validate_function is as the
\* lemmas about the operators assume.
LEMMA ValidatedFunction ==
    ASSUME NEW g, is_function(g), validate_function(g)
    PROVE  validated(g)
BY DEF is_function, is_block, validate_function, validated, has_valid_blocks

-----------------------------------------------------------------------------
(* Phis and instructions of a valid function.                              *)

\* A phi of a valid function has an input for every edge into its block.
LEMMA PhiInput ==
    ASSUME NEW g, is_function(g), validated(g),
           NEW k \in DOMAIN g.blocks, NEW i \in DOMAIN g.blocks[k].insts,
           is_phi(g.blocks[k].insts[i])
    PROVE  LET phi == g.blocks[k].insts[i]
               b == g.blocks[k].id
           IN  /\ b # g.entry
               /\ \A p : flows(g, p, b) =>
                     /\ has_incoming(phi, p)
                     /\ incoming_from(phi, p) \in phi_uses(g, p, b)
<1> DEFINE phi == g.blocks[k].insts[i]
           b == g.blocks[k].id
           P == build_predecessors(g)[b]
           n == Len(phi.incoming)
           h == [j \in DOMAIN phi.incoming |-> phi.incoming[j][1]]
<1>1. /\ phi.incoming \in Seq(Range(phi.incoming))
      /\ n \in Nat /\ DOMAIN phi.incoming = 1..n
  <2>1. phi.incoming \in Seq(Range(phi.incoming))
    BY DEF is_function, is_block, is_inst, is_phi
  <2> QED
    BY <2>1
<1>2. phi_is_valid(g, compute_dominators(g), build_predecessors(g), g.blocks[k], phi)
  <2>1. /\ uses_are_valid(g, compute_dominators(g))
        /\ Len(g.blocks[k].insts) \in Nat /\ i \in 1..Len(g.blocks[k].insts)
    BY Validated, ValidBlocks DEF validated
  <2>2. i \in 1..(Len(g.blocks[k].insts) + 1) /\ i <= Len(g.blocks[k].insts)
    BY <2>1
  <2> QED
    BY <2>1, <2>2 DEF uses_are_valid
<1>3. /\ b # g.entry /\ n = Cardinality(P)
      /\ \A j, m \in 1..n : h[j] = h[m] => j = m
      /\ \A e \in Range(phi.incoming) : e[1] \in P
  BY <1>1, <1>2 DEF phi_is_valid, IsInjective
<1>4. b \in block_ids(g) /\ try_block(g, b) = g.blocks[k] /\ IsFiniteSet(block_ids(g))
  <2>1. b \in block_ids(g) /\ try_block(g, b) = g.blocks[k]
    BY ValidBlocks DEF validated
  <2>2. IsFiniteSet(block_ids(g) \ {b})
    BY <2>1, FewIds DEF validated
  <2>3. block_ids(g) = (block_ids(g) \ {b}) \cup {b}
    BY <2>1
  <2> QED
    BY <2>1, <2>2, <2>3, FS_AddElement
<1>5. P = {p \in block_ids(g) : flows(g, p, b)} /\ IsFiniteSet(P)
  <2>1. \A p : p \in P <=> flows(g, p, b)
    BY <1>4 DEF build_predecessors, flows
  <2>2. P \in SUBSET block_ids(g)
    BY <2>1, ValidBlocks DEF validated
  <2> HIDE DEF P
  <2>3. IsFiniteSet(P)
    BY <1>4, <2>2, FS_Subset
  <2> QED
    BY <2>1, <2>2, <2>3
<1>6. IsFiniteSet(1..n) /\ Cardinality(1..n) = n
  <2> HIDE DEF n
  <2> QED
    BY <1>1, FS_Interval
<1>7. h \in Injection(1..n, P)
  <2>1. h \in [1..n -> P]
    BY <1>1, <1>3 DEF Range
  <2> HIDE DEF h
  <2> QED
    BY <1>3, <2>1 DEF Injection, IsInjective
<1>8. h \in Surjection(1..n, P)
  <2> HIDE DEF h, P, n
  <2> QED
    BY <1>3, <1>5, <1>6, <1>7, FS_Injection
<1>9. ASSUME NEW p, flows(g, p, b)
      PROVE  has_incoming(phi, p) /\ incoming_from(phi, p) \in phi_uses(g, p, b)
  <2>1. p \in P
    BY <1>5, <1>9, ValidBlocks DEF validated
  <2>2. PICK j \in 1..n : h[j] = p
    <3> HIDE DEF h, P, n
    <3> QED
      BY <1>8, <2>1 DEF Surjection
  <2>3. phi.incoming[j] \in Range(phi.incoming) /\ phi.incoming[j][1] = p
    BY <1>1, <2>2 DEF Range
  <2> DEFINE first(m) == /\ phi.incoming[m][1] = p
                         /\ \A q \in 1..(m - 1) : phi.incoming[q][1] # p
  <2>4. ASSUME NEW m \in 1..n PROVE phi.incoming[m][1] = p <=> m = j
    BY <1>1, <1>3, <2>2
  <2>5. (CHOOSE m \in DOMAIN phi.incoming : first(m)) = j
    <3>1. first(j)
      <4>1. \A q \in 1..(j - 1) : q \in 1..n /\ q # j
        BY <1>1
      <4> QED
        BY <2>3, <2>4, <4>1
    <3>2. \A m \in DOMAIN phi.incoming : first(m) => m = j
      BY <1>1, <2>4
    <3> HIDE DEF first
    <3> QED
      BY <1>1, <3>1, <3>2
  <2>6. incoming_from(phi, p) = phi.incoming[j][2]
    BY <2>5 DEF incoming_from
  <2>7. phi \in phis(try_block(g, b))
    BY <1>4 DEF phis
  <2>8. has_incoming(phi, p)
    <3> HIDE DEF phi
    <3> QED
      BY <2>3 DEF has_incoming
  <2>9. phi.incoming[j][2] \in phi_uses(g, p, b)
    <3> DEFINE from(x) == {e[2] : e \in {d \in Range(x.incoming) : d[1] = p}}
    <3> HIDE DEF phi
    <3>1. phi.incoming[j][2] \in from(phi)
      BY ONLY <2>3
    <3>2. phi_uses(g, p, b) = UNION {from(x) : x \in phis(try_block(g, b))}
      BY ONLY DEF phi_uses
    <3> HIDE DEF from
    <3> QED
      BY ONLY <2>7, <3>1, <3>2
  <2> HIDE DEF phi
  <2> QED
    BY ONLY <2>6, <2>8, <2>9
<1> QED
  BY <1>3, <1>9

\* A value an instruction reads has been computed, if the blocks that dominate
\* its block and the instructions before it have computed theirs.
LEMMA ReadIsComputed ==
    ASSUME NEW g, validated(g), NEW k \in DOMAIN g.blocks,
           NEW i \in 1..(Len(g.blocks[k].insts) + 1), NEW R,
           \A d \in compute_dominators(g)[g.blocks[k].id] \ {g.blocks[k].id} :
               def_set(try_block(g, d)) \subseteq R,
           \A j \in 1..(i - 1) : g.blocks[k].insts[j].dst \in R,
           NEW v \in used_at(g.blocks[k], i)
    PROVE  v \in R
<1>1. is_dominated(g, compute_dominators(g), v, k, i)
  BY Validated DEF uses_are_valid
<1>2. PICK q \in definitions(g, v) :
        IF q[1] = k THEN q[2] < i
        ELSE g.blocks[q[1]].id \in compute_dominators(g)[g.blocks[k].id]
  BY <1>1 DEF is_dominated
<1>3. /\ q[1] \in DOMAIN g.blocks /\ q[2] \in DOMAIN g.blocks[q[1]].insts
      /\ g.blocks[q[1]].insts[q[2]].dst = v
      /\ DOMAIN g.blocks[q[1]].insts = 1..Len(g.blocks[q[1]].insts)
      /\ Len(g.blocks[q[1]].insts) \in Nat /\ Len(g.blocks[k].insts) \in Nat
      /\ try_block(g, g.blocks[q[1]].id) = g.blocks[q[1]]
      /\ g.blocks[q[1]].id = g.blocks[k].id => q[1] = k
  BY DefinitionFields, ValidBlocks DEF validated
<1>4. CASE q[1] = k
  <2>1. q[2] \in 1..(i - 1)
    BY <1>2, <1>3, <1>4
  <2> QED
    BY <1>3, <1>4, <2>1
<1>5. CASE q[1] # k
  BY <1>2, <1>3, <1>5 DEF def_set
<1> QED
  BY <1>4, <1>5

\* The same of a value a phi reads on an edge.
LEMMA PhiReadIsComputed ==
    ASSUME NEW g, validated(g), NEW p \in block_ids(g), NEW b \in block_ids(g), NEW R,
           \A d \in compute_dominators(g)[p] : def_set(try_block(g, d)) \subseteq R,
           NEW v \in phi_uses(g, p, b)
    PROVE  v \in R
<1>1. has_valid_blocks(g) /\ uses_are_valid(g, compute_dominators(g))
  BY Validated DEF validated
<1>2. PICK q \in definitions(g, v) : g.blocks[q[1]].id \in compute_dominators(g)[p] \cup {p}
  BY <1>1, PhiUseDominated
<1>3. p \in compute_dominators(g)[p]
  BY <1>1, DominatorsAreFixed DEF dom_maps
<1>4. /\ q[1] \in DOMAIN g.blocks /\ q[2] \in DOMAIN g.blocks[q[1]].insts
      /\ g.blocks[q[1]].insts[q[2]].dst = v
      /\ try_block(g, g.blocks[q[1]].id) = g.blocks[q[1]]
  BY <1>1, DefinitionFields, ValidBlocks
<1> QED
  BY <1>2, <1>3, <1>4 DEF def_set

-----------------------------------------------------------------------------
(* The reference interpreter.                                              *)

here == try_block(f, current)

\* Control comes to a block from the entry or along an edge.
OnAnEdge ==
    /\ current \in block_ids(f)
    /\ predecessor = Interpreter!NoBlock => current = f.entry
    /\ predecessor # Interpreter!NoBlock => flows(f, predecessor, current)

\* What the blocks that dominate the end of the edge define has been
\* computed, and in the block its phis and the instructions before index.
Computed ==
    LET computed(b) == def_set(try_block(f, b)) \subseteq DOMAIN regs
        dominators == compute_dominators(f)
    IN  /\ index = 0 /\ predecessor # Interpreter!NoBlock =>
              \A b \in dominators[predecessor] : computed(b)
        /\ index > 0 =>
              /\ \A b \in dominators[current] \ {current} : computed(b)
              /\ \A j \in DOMAIN here.insts :
                    j < index \/ is_phi(here.insts[j]) => here.insts[j].dst \in DOMAIN regs

RunInv ==
    /\ f \in Programs
    /\ validate_function(f) =>
          /\ args = [n \in 1..f.args |-> args[n]]
          /\ outcome \in {"running", "returned", "step limit exceeded"}
          /\ index \in 0..(Len(here.insts) + 1)
          /\ OnAnEdge
          /\ Computed

\* The interpreter's block and instruction.
LEMMA InterpreterReads ==
    /\ Interpreter!block = here
    /\ Interpreter!inst = here.insts[index]
    /\ Interpreter!known_block <=> current \in block_ids(f)
    /\ Interpreter!at_instruction <=> index > 0 /\ index \in DOMAIN here.insts
    /\ Interpreter!at_terminator <=> index > 0 /\ index = Len(here.insts) + 1
<1>1. Interpreter!block = here
  BY SameReading DEF Interpreter!block, here
<1> QED
  BY <1>1, SameReading DEF Interpreter!inst, Interpreter!known_block,
     Interpreter!at_instruction, Interpreter!at_terminator

\* The block control is at, in the list of the blocks.
LEMMA HereIsABlock ==
    ASSUME f \in Programs, ProgramsAssumption, validate_function(f), current \in block_ids(f)
    PROVE  /\ is_function(f) /\ validated(f) /\ has_valid_blocks(f)
           /\ \E k \in DOMAIN f.blocks : f.blocks[k].id = current /\ here = f.blocks[k]
           /\ is_block(here)
           /\ Len(here.insts) \in Nat /\ DOMAIN here.insts = 1..Len(here.insts)
<1>1. is_function(f) /\ validated(f) /\ has_valid_blocks(f)
  BY ValidatedFunction DEF ProgramsAssumption, validated
<1>2. PICK k \in DOMAIN f.blocks : f.blocks[k].id = current
  BY DEF block_ids
<1>3. here = f.blocks[k] /\ Len(here.insts) \in Nat /\ DOMAIN here.insts = 1..Len(here.insts)
  BY <1>1, <1>2, ValidBlocks DEF here
<1>4. is_block(here)
  BY <1>1, <1>3 DEF is_function
<1> QED
  BY <1>1, <1>2, <1>3, <1>4

\* At the start no value has been computed, and none is needed.
LEMMA InitRunInv ==
    ASSUME ProgramsAssumption, Interpreter!Init
    PROVE  RunInv
<1>1. /\ f \in Programs /\ args \in [1..f.args -> Inputs] /\ current = f.entry
      /\ predecessor = Interpreter!NoBlock /\ index = 0 /\ outcome = "running"
  BY DEF Interpreter!Init
<1> SUFFICES ASSUME validate_function(f)
             PROVE  /\ args = [n \in 1..f.args |-> args[n]]
                    /\ outcome \in {"running", "returned", "step limit exceeded"}
                    /\ index \in 0..(Len(here.insts) + 1)
                    /\ OnAnEdge
                    /\ Computed
  BY <1>1 DEF RunInv
<1>2. validated(f) /\ current \in block_ids(f)
  BY <1>1, ValidatedFunction, ValidBlocks DEF ProgramsAssumption, validated
<1>3. Len(here.insts) \in Nat
  BY <1>1, <1>2, HereIsABlock
<1>4. index \in 0..(Len(here.insts) + 1)
  BY <1>1, <1>3
<1> QED
  BY <1>1, <1>2, <1>4 DEF OnAnEdge, Computed

\* The phis of a block are evaluated without an error.
LEMMA PhisAreComputed ==
    ASSUME ProgramsAssumption, RunInv, validate_function(f), index = 0,
           NEW phi \in phis(here)
    PROVE  /\ predecessor # Interpreter!NoBlock
           /\ has_incoming(phi, predecessor)
           /\ incoming_from(phi, predecessor) \in phi_uses(f, predecessor, current)
           /\ incoming_from(phi, predecessor) \in DOMAIN regs
<1>1. f \in Programs /\ OnAnEdge /\ Computed
  BY DEF RunInv
<1>2. is_function(f) /\ validated(f) /\ has_valid_blocks(f)
  BY <1>1, HereIsABlock DEF OnAnEdge
<1>3. PICK k \in DOMAIN f.blocks : f.blocks[k].id = current /\ here = f.blocks[k]
  BY <1>1, HereIsABlock DEF OnAnEdge
<1>4. PICK i \in DOMAIN here.insts : phi = here.insts[i] /\ is_phi(phi)
  BY DEF phis
<1>5. current # f.entry /\ predecessor # Interpreter!NoBlock
  BY <1>1, <1>2, <1>3, <1>4, PhiInput DEF OnAnEdge
<1>6. flows(f, predecessor, current)
  BY <1>1, <1>5 DEF OnAnEdge
<1>7. /\ has_incoming(phi, predecessor)
      /\ incoming_from(phi, predecessor) \in phi_uses(f, predecessor, current)
  BY <1>2, <1>3, <1>4, <1>6, PhiInput
<1>8. predecessor \in block_ids(f) /\ current \in block_ids(f)
  BY <1>2, <1>6, ValidBlocks
<1>9. \A b \in compute_dominators(f)[predecessor] : def_set(try_block(f, b)) \subseteq DOMAIN regs
  BY <1>1, <1>5 DEF Computed
<1>10. incoming_from(phi, predecessor) \in DOMAIN regs
  BY <1>2, <1>7, <1>8, <1>9, PhiReadIsComputed
<1> QED
  BY <1>5, <1>7, <1>10

\* What the phis of a block leave in the table of values.
LEMMA PhiResults ==
    /\ DOMAIN Interpreter!phi_results = DOMAIN regs \cup {p.dst : p \in phis(here)}
    /\ Interpreter!phi_errors = {} <=>
          \A p \in phis(here) : /\ predecessor # Interpreter!NoBlock
                                /\ has_incoming(p, predecessor)
                                /\ incoming_from(p, predecessor) \in DOMAIN regs
<1>1. Interpreter!phis(Interpreter!block) = phis(here)
  BY SameReading, InterpreterReads
<1> QED
  BY <1>1, SameReading DEF Interpreter!phi_results, Interpreter!phi_errors

\* Entering a block along an edge, the blocks that dominate it have computed
\* their values: they dominate the end of the edge.
LEMMA EnterBlockKeeps ==
    ASSUME ProgramsAssumption, RunInv, Interpreter!EnterBlock
    PROVE  RunInv'
<1>1. /\ f' = f /\ args' = args /\ current' = current /\ predecessor' = predecessor
      /\ outcome = "running" /\ index = 0 /\ f \in Programs
  BY DEF Interpreter!EnterBlock, RunInv
<1> SUFFICES ASSUME validate_function(f)
             PROVE  /\ (args = [n \in 1..f.args |-> args[n]])'
                    /\ outcome' \in {"running", "returned", "step limit exceeded"}
                    /\ index' \in 0..(Len(here'.insts) + 1)
                    /\ OnAnEdge'
                    /\ Computed'
  BY <1>1 DEF RunInv
<1>2. OnAnEdge /\ Computed /\ current \in block_ids(f)
  BY DEF RunInv, OnAnEdge
<1>3. Interpreter!phi_errors = {}
  BY <1>1, PhisAreComputed, PhiResults
<1>4. Interpreter!known_block
  BY <1>2, InterpreterReads
<1>5. regs' = Interpreter!phi_results /\ index' = 1 /\ outcome' = outcome
  BY <1>3, <1>4 DEF Interpreter!EnterBlock
<1>6. DOMAIN regs' = DOMAIN regs \cup {p.dst : p \in phis(here)}
  BY <1>5, PhiResults
<1>7. has_valid_blocks(f) /\ Len(here.insts) \in Nat /\ DOMAIN here.insts = 1..Len(here.insts)
  BY <1>1, <1>2, HereIsABlock
<1>8. here' = here /\ OnAnEdge'
  BY <1>1, <1>2 DEF here, OnAnEdge
<1>9. \A j \in DOMAIN here.insts :
        j < 1 \/ is_phi(here.insts[j]) => here.insts[j].dst \in DOMAIN regs'
  BY <1>6, <1>7 DEF phis
<1>10. ASSUME NEW b \in compute_dominators(f)[current] \ {current}
       PROVE  def_set(try_block(f, b)) \subseteq DOMAIN regs'
  <2>1. predecessor # Interpreter!NoBlock
    <3>1. compute_dominators(f)[f.entry] = {f.entry}
      BY <1>7, DominatorsAreFixed DEF dom_maps
    <3> QED
      BY <1>2, <3>1 DEF OnAnEdge
  <2>2. flows(f, predecessor, current)
    BY <1>2, <2>1 DEF OnAnEdge
  <2>3. b \in compute_dominators(f)[predecessor]
    BY <1>7, <2>2, DominatesPredecessors
  <2> QED
    BY <1>1, <1>2, <1>6, <2>1, <2>3 DEF Computed
<1>11. Computed'
  BY <1>1, <1>5, <1>8, <1>9, <1>10 DEF Computed
<1>12. index' \in 0..(Len(here'.insts) + 1)
  BY <1>5, <1>7, <1>8
<1>13. (args = [n \in 1..f.args |-> args[n]])'
  BY <1>1 DEF RunInv
<1> QED
  BY <1>1, <1>5, <1>8, <1>11, <1>12, <1>13

\* An instruction adds the value it defines.
LEMMA ExecuteKeeps ==
    ASSUME ProgramsAssumption, RunInv, Interpreter!Execute
    PROVE  RunInv'
<1>1. /\ f' = f /\ args' = args /\ current' = current /\ predecessor' = predecessor
      /\ outcome = "running" /\ f \in Programs
  BY DEF Interpreter!Execute, RunInv
<1> SUFFICES ASSUME validate_function(f)
             PROVE  /\ (args = [n \in 1..f.args |-> args[n]])'
                    /\ outcome' \in {"running", "returned", "step limit exceeded"}
                    /\ index' \in 0..(Len(here'.insts) + 1)
                    /\ OnAnEdge'
                    /\ Computed'
  BY <1>1 DEF RunInv
<1>2. /\ OnAnEdge /\ Computed /\ current \in block_ids(f)
      /\ args = [n \in 1..f.args |-> args[n]]
  BY DEF RunInv, OnAnEdge
<1>3. /\ is_function(f) /\ validated(f) /\ has_valid_blocks(f) /\ is_block(here)
      /\ Len(here.insts) \in Nat /\ DOMAIN here.insts = 1..Len(here.insts)
  BY <1>1, <1>2, HereIsABlock
<1>4. PICK k \in DOMAIN f.blocks : f.blocks[k].id = current /\ here = f.blocks[k]
  BY <1>1, <1>2, HereIsABlock
<1> DEFINE i == here.insts[index]
<1>5. index > 0 /\ index \in DOMAIN here.insts /\ index \in 1..Len(here.insts)
  BY <1>3, InterpreterReads DEF Interpreter!Execute
<1>6. here' = here /\ OnAnEdge'
  BY <1>1, <1>2 DEF here, OnAnEdge
<1>7. ASSUME ~is_phi(i) PROVE Interpreter!instruction_errors = {}
  <2>1. ASSUME NEW v \in uses(i) PROVE v \in DOMAIN regs
    <3>1. v \in used_at(here, index)
      BY <1>3, <1>5, <1>7, <2>1 DEF used_at
    <3>2. \A j \in 1..(index - 1) : j \in DOMAIN here.insts /\ j < index
      BY <1>3, <1>5
    <3>3. index \in 1..(Len(here.insts) + 1)
      BY <1>3, <1>5
    <3>4. \A j \in 1..(index - 1) : here.insts[j].dst \in DOMAIN regs
      BY <1>2, <1>5, <3>2 DEF Computed
    <3>5. \A b \in compute_dominators(f)[current] \ {current} :
             def_set(try_block(f, b)) \subseteq DOMAIN regs
      BY <1>2, <1>5 DEF Computed
    <3> QED
      BY <1>3, <1>4, <3>1, <3>3, <3>4, <3>5, ReadIsComputed
  <2>2. ASSUME i.op = "arg" PROVE ~(i.idx >= Len(args))
    <3>1. Len(args) = f.args /\ f.args \in Nat
      BY <1>2, <1>3 DEF is_function
    <3>2. i.idx < f.args
      BY <1>3, <1>4, <1>5, <2>2, Validated DEF definitions_are_valid
    <3>3. i.idx \in Nat
      BY <1>3, <1>5, <2>2 DEF is_block, is_inst
    <3> QED
      BY <3>1, <3>2, <3>3
  <2> QED
    BY <2>1, <2>2, SameReading, InterpreterReads DEF Interpreter!instruction_errors
<1>8. /\ index' = index + 1 /\ outcome' = outcome
      /\ is_phi(i) => regs' = regs
      /\ ~is_phi(i) => DOMAIN regs' = DOMAIN regs \cup {i.dst}
  <2>1. CASE Interpreter!ExecutePhi
    BY <2>1, SameReading, InterpreterReads DEF Interpreter!ExecutePhi
  <2>2. CASE Interpreter!ExecuteInst
    <3>1. ~is_phi(i)
      BY <2>2, SameReading, InterpreterReads DEF Interpreter!ExecuteInst
    <3>2. /\ regs' = Interpreter!put(regs, i.dst, Interpreter!result_of(i))
          /\ index' = index + 1 /\ outcome' = outcome
      BY <1>7, <2>2, <3>1, InterpreterReads DEF Interpreter!ExecuteInst
    <3> QED
      BY <3>1, <3>2 DEF Interpreter!put
  <2> QED
    BY <2>1, <2>2 DEF Interpreter!Execute
<1>9. DOMAIN regs \subseteq DOMAIN regs'
  BY <1>8
<1>10. ASSUME NEW j \in DOMAIN here.insts, j < index + 1 \/ is_phi(here.insts[j])
       PROVE  here.insts[j].dst \in DOMAIN regs'
  <2>1. j < index \/ is_phi(here.insts[j]) => here.insts[j].dst \in DOMAIN regs
    BY <1>2, <1>5 DEF Computed
  <2>2. j < index + 1 => j < index \/ j = index
    BY <1>3, <1>5
  <2> QED
    BY <1>8, <1>9, <1>10, <2>1, <2>2
<1>11. \A b \in compute_dominators(f)[current] \ {current} :
          def_set(try_block(f, b)) \subseteq DOMAIN regs'
  BY <1>2, <1>5, <1>9 DEF Computed
<1>12. index' # 0 /\ index' > 0 /\ index' \in 0..(Len(here.insts) + 1)
  BY <1>3, <1>5, <1>8
<1>13. Computed'
  BY <1>1, <1>6, <1>8, <1>10, <1>11, <1>12 DEF Computed
<1>14. (args = [n \in 1..f.args |-> args[n]])'
  BY <1>1, <1>2
<1> QED
  BY <1>1, <1>6, <1>8, <1>12, <1>13, <1>14

\* At the end of a block everything it defines has been computed.
LEMMA BlockIsComputed ==
    ASSUME ProgramsAssumption, RunInv, validate_function(f), Interpreter!at_terminator
    PROVE  /\ \A b \in compute_dominators(f)[current] :
                 def_set(try_block(f, b)) \subseteq DOMAIN regs
           /\ term_uses(here.term) \subseteq DOMAIN regs
<1>1. /\ f \in Programs /\ OnAnEdge /\ Computed /\ current \in block_ids(f)
      /\ index > 0 /\ index = Len(here.insts) + 1
  BY InterpreterReads DEF RunInv, OnAnEdge
<1>2. /\ validated(f) /\ Len(here.insts) \in Nat /\ DOMAIN here.insts = 1..Len(here.insts)
  BY <1>1, HereIsABlock
<1>3. PICK k \in DOMAIN f.blocks : f.blocks[k].id = current /\ here = f.blocks[k]
  BY <1>1, HereIsABlock
<1>4. \A j \in 1..Len(here.insts) : here.insts[j].dst \in DOMAIN regs
  BY <1>1, <1>2 DEF Computed
<1>5. def_set(here) \subseteq DOMAIN regs
  BY <1>2, <1>4 DEF def_set
<1>6. \A b \in compute_dominators(f)[current] \ {current} :
        def_set(try_block(f, b)) \subseteq DOMAIN regs
  BY <1>1 DEF Computed
<1>7. ASSUME NEW v \in term_uses(here.term) PROVE v \in DOMAIN regs
  <2> DEFINE n == Len(here.insts) + 1
  <2>1. n \in 1..(Len(here.insts) + 1) /\ n - 1 = Len(here.insts)
    BY <1>2
  <2>2. v \in used_at(here, n)
    BY <1>7 DEF used_at
  <2>3. \A j \in 1..(n - 1) : here.insts[j].dst \in DOMAIN regs
    BY <1>4, <2>1
  <2> HIDE DEF n
  <2> QED
    BY <1>2, <1>3, <1>6, <2>1, <2>2, <2>3, ReadIsComputed
<1> QED
  BY <1>5, <1>6, <1>7 DEF here

\* The terminator takes an edge to a block, or returns.
LEMMA TerminateKeeps ==
    ASSUME ProgramsAssumption, RunInv, Interpreter!Terminate
    PROVE  RunInv'
<1>1. f' = f /\ args' = args /\ regs' = regs /\ outcome = "running" /\ f \in Programs
  BY DEF Interpreter!Terminate, RunInv
<1> SUFFICES ASSUME validate_function(f)
             PROVE  /\ (args = [n \in 1..f.args |-> args[n]])'
                    /\ outcome' \in {"running", "returned", "step limit exceeded"}
                    /\ index' \in 0..(Len(here'.insts) + 1)
                    /\ OnAnEdge'
                    /\ Computed'
  BY <1>1 DEF RunInv
<1>2. /\ OnAnEdge /\ Computed /\ current \in block_ids(f) /\ Interpreter!at_terminator
      /\ args = [n \in 1..f.args |-> args[n]]
      /\ index \in 0..(Len(here.insts) + 1)
  BY DEF RunInv, OnAnEdge, Interpreter!Terminate
<1>3. is_function(f) /\ has_valid_blocks(f)
  BY <1>1, <1>2, HereIsABlock
<1>4. /\ \A b \in compute_dominators(f)[current] :
            def_set(try_block(f, b)) \subseteq DOMAIN regs
      /\ term_uses(here.term) \subseteq DOMAIN regs
  BY <1>2, BlockIsComputed
<1>5. ~Interpreter!fail_undefined
  BY <1>4, SameReading, InterpreterReads DEF Interpreter!fail_undefined
<1>6. (args = [n \in 1..f.args |-> args[n]])'
  BY <1>1, <1>2
<1>7. CASE Interpreter!Return
  <2>1. /\ outcome' = "returned" /\ current' = current /\ predecessor' = predecessor
        /\ index' = index
    BY <1>7 DEF Interpreter!Return
  <2>2. here' = here /\ OnAnEdge'
    BY <1>1, <1>2, <2>1 DEF here, OnAnEdge
  <2>3. Computed'
    BY <1>1, <1>2, <2>1, <2>2 DEF Computed
  <2> QED
    BY <1>2, <1>6, <2>1, <2>2, <2>3
<1>8. ASSUME NEW t \in successors(here.term), Interpreter!goto(t)
      PROVE  /\ outcome' \in {"running", "returned", "step limit exceeded"}
             /\ index' \in 0..(Len(here'.insts) + 1)
             /\ OnAnEdge'
             /\ Computed'
  <2>1. /\ predecessor' = current /\ current' = t /\ index' = 0 /\ outcome' = outcome
    BY <1>8 DEF Interpreter!goto
  <2>2. flows(f, current, t)
    BY <1>1, <1>2, HereIsABlock DEF flows
  <2>3. t \in block_ids(f) /\ current # Interpreter!NoBlock
    <3>1. PICK k \in DOMAIN f.blocks : f.blocks[k].id = current
      BY <1>2 DEF block_ids
    <3>2. current \in Nat
      BY <1>3, <3>1 DEF is_function, is_block
    <3> QED
      BY <1>3, <2>2, <3>2, ValidBlocks DEF Interpreter!NoBlock
  <2>4. OnAnEdge'
    BY <1>1, <2>1, <2>2, <2>3 DEF OnAnEdge
  <2>5. Computed'
    BY <1>1, <1>4, <2>1 DEF Computed
  <2>6. index' \in 0..(Len(here'.insts) + 1)
    <3>1. \E j \in DOMAIN f.blocks : f.blocks[j].id = t
      BY <2>3 DEF block_ids
    <3>2. Len(try_block(f, t).insts) \in Nat
      BY <1>3, <3>1, ValidBlocks
    <3>3. here' = try_block(f, t)
      BY <1>1, <2>1 DEF here
    <3> QED
      BY <2>1, <3>2, <3>3
  <2> QED
    BY <1>1, <2>1, <2>4, <2>5, <2>6
<1>9. CASE Interpreter!Jump
  <2>1. here.term.op = "jmp" /\ Interpreter!goto(here.term.target)
    BY <1>9, InterpreterReads DEF Interpreter!Jump
  <2>2. here.term.target \in successors(here.term)
    BY <2>1 DEF successors
  <2> QED
    BY <1>6, <1>8, <2>1, <2>2
<1>10. CASE Interpreter!Branch
  <2>1. /\ here.term.op = "br"
        /\ \/ Interpreter!goto(here.term.then_bb)
           \/ Interpreter!goto(here.term.else_bb)
    BY <1>10, InterpreterReads DEF Interpreter!Branch
  <2>2. here.term.then_bb \in successors(here.term) /\ here.term.else_bb \in successors(here.term)
    BY <2>1 DEF successors
  <2> QED
    BY <1>6, <1>8, <2>1, <2>2
<1> QED
  BY <1>5, <1>7, <1>9, <1>10 DEF Interpreter!Terminate

\* Every step of the interpreter keeps the invariant.
LEMMA InterpreterKeeps ==
    ASSUME ProgramsAssumption, RunInv, [Interpreter!Next]_(Interpreter!interp_vars)
    PROVE  RunInv'
<1>1. CASE Interpreter!StopAtLimit
  <2>1. /\ UNCHANGED <<f, args, current, predecessor, index, regs>>
        /\ outcome' = "step limit exceeded"
    BY <1>1 DEF Interpreter!StopAtLimit
  <2>2. here' = here /\ (OnAnEdge' <=> OnAnEdge)
    BY <2>1 DEF here, OnAnEdge
  <2>3. Computed' <=> Computed
    BY <2>1, <2>2 DEF Computed
  <2> QED
    BY <2>1, <2>2, <2>3 DEF RunInv
<1>2. CASE UNCHANGED (Interpreter!interp_vars)
  <2>1. UNCHANGED <<f, args, current, predecessor, index, regs, outcome>>
    BY <1>2 DEF Interpreter!interp_vars
  <2>2. here' = here /\ (OnAnEdge' <=> OnAnEdge)
    BY <2>1 DEF here, OnAnEdge
  <2>3. Computed' <=> Computed
    BY <2>1, <2>2 DEF Computed
  <2> QED
    BY <2>1, <2>2, <2>3 DEF RunInv
<1> QED
  BY <1>1, <1>2, EnterBlockKeeps, ExecuteKeeps, TerminateKeeps DEF Interpreter!Next

\* For every program and every run, a function that passes validate_function
\* fails in the interpreter by the step limit only: every value is computed
\* before it is read and every phi has an input for the edge.
THEOREM ValidatedRunsNeverFail == Interpreter!Spec => []ValidatedNeverFails
<1>0. ProgramsAssumption
  BY ProgramsAssumption DEF ProgramsAssumption
<1>1. Interpreter!Init => RunInv
  BY <1>0, InitRunInv
<1>2. RunInv /\ [Interpreter!Next]_(Interpreter!interp_vars) => RunInv'
  BY <1>0, InterpreterKeeps
<1>3. RunInv => ValidatedNeverFails
  BY SameValidation DEF RunInv, ValidatedNeverFails
<1> QED
  BY <1>1, <1>2, <1>3, PTL DEF Interpreter!Spec

-----------------------------------------------------------------------------
(* The assignment the emitter accepts, and where the values live.          *)

\* What the call of the emitter leaves behind: its inputs never change, and
\* it goes on only if they pass its checks.
CallInv ==
    /\ f \in Programs
    /\ intervals = compute_live_intervals(f)
    /\ map \in [DOMAIN intervals -> {Reg(r) : r \in Range(RegSet.regs)}
                                      \cup {Stack(i) : i \in SlotIndices[f]}]
    /\ emitted = "yes" => accepts

\* What the modules assume of the constants, in one piece.
CodegenAssumptions ==
    /\ ProgramsAssumption
    /\ RegistersAssumption
    /\ SlotIndicesAssumption
    /\ FrameAssumption

LEMMA AssumptionsHold == CodegenAssumptions
BY ProgramsAssumption, RegistersAssumption, SlotIndicesAssumption, FrameAssumption
   DEF CodegenAssumptions, ProgramsAssumption, RegistersAssumption, SlotIndicesAssumption,
       FrameAssumption

LEMMA InitCallInv == Init => CallInv
BY DEF Init, CallInv, Interpreter!Init

LEMMA CallKeeps ==
    ASSUME CallInv, [Next]_vars
    PROVE  /\ CallInv'
           /\ f' = f /\ map' = map /\ intervals' = intervals
           /\ emitted' = "yes" => emitted = "yes" \/ Emit
<1>1. f' = f /\ map' = map /\ intervals' = intervals
  <2>1. CASE Emit
    BY <2>1 DEF Emit, interp_vars
  <2>2. CASE EnterBlock
    BY <2>2 DEF EnterBlock, Interpreter!EnterBlock
  <2>3. CASE StopAtLimit
    BY <2>3 DEF StopAtLimit, Interpreter!StopAtLimit
  <2>4. CASE Execute
    BY <2>4 DEF Execute, Interpreter!Execute
  <2>5. CASE Terminate
    BY <2>5 DEF Terminate, Interpreter!Terminate
  <2>6. CASE MoveOnEdge
    BY <2>6 DEF MoveOnEdge, interp_vars
  <2>7. CASE UNCHANGED vars
    BY <2>7 DEF vars
  <2> QED
    BY <2>1, <2>2, <2>3, <2>4, <2>5, <2>6, <2>7 DEF Next
<1>2. accepts' <=> accepts
  BY <1>1 DEF accepts, frame_fits, assignment, total_slots, aligned_bytes
<1>3. emitted' = "yes" => emitted = "yes" \/ (Emit /\ accepts)
  <2>1. CASE Emit
    BY <2>1 DEF Emit
  <2>2. CASE UNCHANGED vars
    BY <2>2 DEF vars
  <2> QED
    BY <2>1, <2>2 DEF Next, EnterBlock, StopAtLimit, Execute, Terminate, MoveOnEdge
<1> QED
  BY <1>1, <1>2, <1>3 DEF CallInv

\* What the checks of the emitter say of the registers.
LEMMA RegisterFacts ==
    ASSUME CodegenAssumptions, validate_for_codegen(RegSet)
    PROVE  /\ scratch0 \in RegLocs /\ scratch1 \in RegLocs /\ scratch0 # scratch1
           /\ scratch0.kind = "reg" /\ scratch1.kind = "reg"
           /\ rax \in RegLocs /\ rax.kind = "reg"
           /\ \A l \in RegLocs : l.kind = "reg"
           /\ \A r \in Range(RegSet.regs) : /\ Reg(r) \in RegLocs
                                            /\ Reg(r) # scratch0 /\ Reg(r) # scratch1
<1>1. /\ RegSet.regs \in Seq(STRING) /\ RegSet.scratch \in Seq(STRING)
      /\ IsInjective(RegSet.regs \o RegSet.scratch) /\ Len(RegSet.scratch) >= 2
  BY DEF CodegenAssumptions, RegistersAssumption, validate_for_codegen
<1>2. 1 \in DOMAIN RegSet.scratch /\ 2 \in DOMAIN RegSet.scratch
  BY <1>1
<1>3. /\ RegSet.scratch[1] # RegSet.scratch[2]
      /\ \A i \in DOMAIN RegSet.regs : RegSet.regs[i] # RegSet.scratch[1]
                                       /\ RegSet.regs[i] # RegSet.scratch[2]
  BY <1>1, <1>2, PartsAreDisjoint
<1>4. /\ RegSet.scratch[1] \in Range(RegSet.scratch) /\ RegSet.scratch[2] \in Range(RegSet.scratch)
  BY <1>2 DEF Range
<1>5. \A r, s : Reg(r) = Reg(s) => r = s
  BY LocationFields
<1>6. \A r \in Range(RegSet.regs) : r # RegSet.scratch[1] /\ r # RegSet.scratch[2]
  BY <1>3 DEF Range
<1> QED
  BY <1>3, <1>4, <1>5, <1>6, LocationFields DEF RegLocs, scratch0, scratch1, rax

\* A slot lies below the number of slots verify_assignment expects, if that
\* number is not cut off.
LEMMA SlotsAreCounted ==
    ASSUME NEW m, \A v \in spilled(m) : m[v].slot \in 0..U32Max,
           expected_slots(m) < U32Max, NEW v \in spilled(m)
    PROVE  /\ expected_slots(m) \in Nat
           /\ m[v].slot + 1 <= expected_slots(m)
<1> DEFINE slots == {m[w].slot : w \in spilled(m)}
<1>1. /\ slots \in SUBSET Nat /\ m[v].slot \in slots /\ \A s \in slots : s <= U32Max
      /\ U32Max \in Nat
  BY U32MaxAssumption
<1> HIDE DEF slots
<1>2. Max(slots) \in Nat /\ m[v].slot <= Max(slots) /\ m[v].slot \in Nat
  BY <1>1, LeastAndGreatest
<1>3. expected_slots(m) = IF Max(slots) < U32Max THEN Max(slots) + 1 ELSE U32Max
  BY DEF expected_slots, slots
<1> QED
  BY <1>1, <1>2, <1>3

\* What the checks of the emitter say of an assignment.
LEMMA AcceptedAssignment ==
    ASSUME CodegenAssumptions, CallInv, accepts
    PROVE  /\ validate_function(f) /\ validate_for_codegen(RegSet)
           /\ f.args \in Nat
           /\ DOMAIN map = DOMAIN intervals
           /\ conflicts(intervals, map) = {}
           /\ aligned_bytes \in Nat /\ aligned_bytes <= MaxFrameBytes
           /\ 8 * f.args <= aligned_bytes
           /\ \A v \in DOMAIN map :
                 \/ ~is_spilled(v) /\ map[v] \in {Reg(r) : r \in Range(RegSet.regs)}
                 \/ /\ is_spilled(v) /\ map[v] = Stack(map[v].slot)
                    /\ map[v].slot \in Nat
                    /\ 8 * (f.args + map[v].slot + 1) <= aligned_bytes
<1>1. /\ validate_function(f) /\ validate_for_codegen(RegSet) /\ frame_fits
      /\ verify_assignment(intervals, RegSet, Len(RegSet.regs), assignment) = {"Ok"}
  BY DEF accepts
<1>2. f.args \in Nat
  BY DEF CodegenAssumptions, ProgramsAssumption, CallInv, is_function
<1>3. DOMAIN map = DOMAIN intervals
  BY DEF CallInv
<1>4. conflicts(intervals, map) = {}
  <2> SUFFICES ASSUME conflicts(intervals, map) # {} PROVE FALSE
    OBVIOUS
  <2>1. assignment.map = map
    BY DEF assignment
  <2>2. "Ok" \in verify_assignment(intervals, RegSet, Len(RegSet.regs), assignment)
    BY <1>1
  <2>3. "Ok" \notin location_errors(RegSet, allowed_regs(RegSet, Len(RegSet.regs)), map)
    BY DEF location_errors
  <2> QED
    BY <2>1, <2>2, <2>3 DEF verify_assignment
<1>5. \A v \in DOMAIN map :
         \/ ~is_spilled(v) /\ map[v] \in {Reg(r) : r \in Range(RegSet.regs)}
         \/ is_spilled(v) /\ map[v] = Stack(map[v].slot) /\ map[v].slot \in 0..U32Max
  <2> SUFFICES ASSUME NEW v \in DOMAIN map, map[v] \notin {Reg(r) : r \in Range(RegSet.regs)}
               PROVE  is_spilled(v) /\ map[v] = Stack(map[v].slot) /\ map[v].slot \in 0..U32Max
    BY <1>3, LocationFields DEF is_spilled
  <2>1. PICK i \in SlotIndices[f] : map[v] = Stack(i)
    BY <1>3 DEF CallInv
  <2>2. i \in 0..U32Max
    BY <2>1 DEF CallInv, CodegenAssumptions, SlotIndicesAssumption
  <2> QED
    BY <2>1, <2>2, LocationFields DEF is_spilled
<1>6. expected_slots(map) <= I32Max /\ total_slots = f.args + expected_slots(map)
  BY <1>1 DEF frame_fits, assignment, total_slots
<1>7. expected_slots(map) \in Nat
  <2>1. CASE spilled(map) = {}
    BY <2>1 DEF expected_slots
  <2>2. CASE spilled(map) # {}
    <3> DEFINE slots == {map[w].slot : w \in spilled(map)}
    <3>1. PICK v : v \in spilled(map)
      BY <2>2
    <3>2. /\ slots \in SUBSET Nat /\ map[v].slot \in slots /\ \A s \in slots : s <= U32Max
          /\ U32Max \in Nat
      BY <1>5, <3>1, U32MaxAssumption DEF spilled, is_spilled
    <3>3. expected_slots(map) = IF Max(slots) < U32Max THEN Max(slots) + 1 ELSE U32Max
      BY <2>2 DEF expected_slots
    <3> HIDE DEF slots
    <3>4. Max(slots) \in Nat
      BY <3>2, LeastAndGreatest
    <3> QED
      BY <3>2, <3>3, <3>4
  <2> QED
    BY <2>1, <2>2
<1>8. /\ total_slots \in Nat /\ aligned_bytes \in Nat
      /\ 8 * total_slots <= aligned_bytes /\ aligned_bytes <= MaxFrameBytes
  <2>1. total_slots \in Nat
    BY <1>2, <1>6, <1>7
  <2>2. aligned_bytes = ((total_slots * 8 + 15) \div 16) * 16
    BY DEF aligned_bytes
  <2>3. aligned_bytes <= MaxFrameBytes
    BY <1>1 DEF frame_fits
  <2> QED
    BY <2>1, <2>2, <2>3
<1>9. ASSUME NEW v \in DOMAIN map, is_spilled(v)
      PROVE  map[v].slot \in Nat /\ 8 * (f.args + map[v].slot + 1) <= aligned_bytes
  <2>1. v \in spilled(map) /\ \A w \in spilled(map) : map[w].slot \in 0..U32Max
    BY <1>5, <1>9 DEF spilled, is_spilled
  <2>2. expected_slots(map) < U32Max
    BY <1>6, <1>7, U32MaxAssumption DEF CodegenAssumptions, FrameAssumption
  <2>3. map[v].slot + 1 <= expected_slots(map) /\ map[v].slot \in Nat
    BY <2>1, <2>2, SlotsAreCounted
  <2> QED
    BY <1>2, <1>6, <1>7, <1>8, <2>3
<1>10. 8 * f.args <= aligned_bytes
  BY <1>2, <1>6, <1>7, <1>8
<1> QED
  BY <1>1, <1>2, <1>3, <1>4, <1>5, <1>8, <1>9, <1>10

\* Once the emitter has accepted the assignment, every value's slot lies inside
\* the frame the prologue reserves and above the saved arguments, whatever the
\* slot numbers, the number of arguments and the limits are.
THEOREM FrameHoldsEverySlotAlways == Spec => []FrameHoldsEverySlot
<1>0. CodegenAssumptions
  BY AssumptionsHold
<1>1. Init => CallInv
  BY InitCallInv
<1>2. CallInv /\ [Next]_vars => CallInv'
  BY CallKeeps
<1>3. CallInv => FrameHoldsEverySlot
  <2> SUFFICES ASSUME CallInv, emitted = "yes", NEW v \in spilled(map)
               PROVE  /\ 8 * (home(v).slot + 1) <= aligned_bytes
                      /\ home(v) \notin {arg_shadow_addr(i) : i \in 0..(f.args - 1)}
    BY DEF FrameHoldsEverySlot
  <2>1. v \in DOMAIN map /\ is_spilled(v) /\ accepts
    BY DEF spilled, is_spilled, CallInv
  <2>2. /\ map[v].slot \in Nat /\ f.args \in Nat /\ aligned_bytes \in Nat
        /\ 8 * (f.args + map[v].slot + 1) <= aligned_bytes
    BY <1>0, <2>1, AcceptedAssignment
  <2>3. home(v) = Stack(f.args + map[v].slot)
    BY <2>1 DEF home, is_spilled, stack_addr_with_base
  <2>4. home(v).slot = f.args + map[v].slot /\ \A i : arg_shadow_addr(i).slot = i
    BY <2>3, LocationFields DEF arg_shadow_addr
  <2> QED
    BY <2>2, <2>4
<1> QED
  BY <1>1, <1>2, <1>3, PTL DEF Spec

-----------------------------------------------------------------------------
(* Which values are read later in a block, and what their intervals meet.  *)

\* v is read at or after instruction i of block k, or live after the block,
\* and no instruction in between sets it; the phis are set on entry.
still_read(g, k, v, i) ==
    LET b == g.blocks[k]
        n == Len(b.insts)
        unset(e) == \A j \in i..(e - 1) : is_phi(b.insts[j]) \/ b.insts[j].dst # v
    IN  \/ \E e \in i..(n + 1) : v \in used_at(b, e) /\ unset(e)
        \/ v \in compute_liveness(g).live_out[b.id] /\ unset(n + 1)

\* Every phi in front of another phi is read.
phis_are_read(g) ==
    \A k \in DOMAIN g.blocks :
        LET b == g.blocks[k] IN
        \A i \in DOMAIN b.insts :
            is_phi(b.insts[i]) /\ i < Len(b.insts) /\ is_phi(b.insts[i + 1]) =>
                \/ b.insts[i].dst \in compute_liveness(g).live_out[b.id]
                \/ \E e \in 1..(Len(b.insts) + 1) : b.insts[i].dst \in used_at(b, e)

touches(g, k, v, e) == v \in touched_at(g, compute_liveness(g), <<k, e>>)

\* The facts of a valid function about the instructions of block k.
LEMMA BlockFacts ==
    ASSUME NEW g, validated(g), NEW k \in DOMAIN g.blocks
    PROVE  LET b == g.blocks[k]
               n == Len(b.insts)
               l == compute_liveness(g)
           IN  /\ n \in Nat /\ DOMAIN b.insts = 1..n
               /\ \A e \in 1..(n + 1) : <<k, e>> \in places(g)
               /\ \A i \in 1..n : is_phi(b.insts[i]) => \A j \in 1..(i - 1) : is_phi(b.insts[j])
               /\ \A i, j \in 1..n : b.insts[i].dst = b.insts[j].dst => i = j
               /\ l.live_out[b.id] = live_out_of(g, l.live_in, b)
               /\ l.live_in[b.id] = use_set(b) \cup (l.live_out[b.id] \ def_set(b))
               /\ \A i \in 1..n : touches(g, k, b.insts[i].dst, i)
               /\ \A e \in 1..(n + 1) : \A v \in used_at(b, e) : touches(g, k, v, e)
               /\ \A v \in l.live_in[b.id] : touches(g, k, v, 1)
               /\ \A v \in l.live_out[b.id] : touches(g, k, v, n + 1)
<1> DEFINE b == g.blocks[k]
           n == Len(b.insts)
           l == compute_liveness(g)
<1>1. /\ has_valid_blocks(g) /\ definitions_are_valid(g) /\ defines_uses(g)
      /\ n \in Nat /\ DOMAIN b.insts = 1..n
      /\ \A e \in 1..(n + 1) : <<k, e>> \in places(g)
  BY Validated, PlacesOf DEF validated
<1>2. \A i \in 1..n : is_phi(b.insts[i]) => \A j \in 1..(i - 1) : is_phi(b.insts[j])
  BY <1>1 DEF definitions_are_valid
<1>3. ASSUME NEW i \in 1..n, NEW j \in 1..n, b.insts[i].dst = b.insts[j].dst
      PROVE  i = j
  <2>1. /\ definitions(g, b.insts[i].dst) = {<<k, i>>}
        /\ definitions(g, b.insts[j].dst) = {<<k, j>>}
    BY <1>1, OnlyDefinition
  <2>2. <<k, i>> = <<k, j>>
    BY <1>3, <2>1
  <2> QED
    BY <2>2
<1>4. live_stable(g, l)
  BY <1>1, LivenessIsFixed
<1>5. /\ l.live_out[b.id] = live_out_of(g, l.live_in, b)
      /\ l.live_in[b.id] = use_set(b) \cup (l.live_out[b.id] \ def_set(b))
  BY <1>4 DEF live_stable, live_in_of
<1>6. ASSUME NEW e \in 1..(n + 1), NEW v
      PROVE  touches(g, k, v, e) <=>
               \/ v \in used_at(b, e)
               \/ e = n + 1 /\ v \in UNION {phi_uses(g, b.id, s) : s \in block_ids(g)}
               \/ e = n + 1 /\ v \in l.live_out[b.id]
               \/ e # n + 1 /\ v = b.insts[e].dst
               \/ e = 1 /\ v \in l.live_in[b.id]
  <2> DEFINE p == <<k, e>>
             U == UNION {phi_uses(g, b.id, s) : s \in block_ids(g)}
  <2>1. p[1] = k /\ p[2] = e
    OBVIOUS
  <2> HIDE DEF p
  <2>2. touched_at(g, l, p) =
          used_at(b, e) \cup (IF e = n + 1 THEN U \cup l.live_out[b.id] ELSE {b.insts[e].dst})
                        \cup (IF e = 1 THEN l.live_in[b.id] ELSE {})
    BY <2>1 DEF touched_at
  <2> HIDE DEF U, n, l, b
  <2>3. v \in touched_at(g, l, p) <=>
               \/ v \in used_at(b, e)
               \/ e = n + 1 /\ v \in U
               \/ e = n + 1 /\ v \in l.live_out[b.id]
               \/ e # n + 1 /\ v = b.insts[e].dst
               \/ e = 1 /\ v \in l.live_in[b.id]
    BY <2>2
  <2> QED
    BY <2>3 DEF touches, U, p, l, n, b
<1> HIDE DEF b, n, l
<1>7. \A i \in 1..n : touches(g, k, b.insts[i].dst, i)
  <2>1. \A i \in 1..n : i \in 1..(n + 1) /\ i # n + 1
    BY <1>1
  <2> QED
    BY <1>6, <2>1
<1>8. /\ \A e \in 1..(n + 1) : \A v \in used_at(b, e) : touches(g, k, v, e)
      /\ \A v \in l.live_in[b.id] : touches(g, k, v, 1)
      /\ \A v \in l.live_out[b.id] : touches(g, k, v, n + 1)
  <2>1. 1 \in 1..(n + 1) /\ n + 1 \in 1..(n + 1)
    BY <1>1
  <2> QED
    BY <1>6, <2>1
<1> QED
  BY <1>1, <1>2, <1>3, <1>5, <1>7, <1>8 DEF b, n, l

\* The interval of a value.
interval(g, v) == compute_live_intervals(g)[v]

LEMMA TouchesMeet ==
    ASSUME NEW g, validated(g), NEW k \in DOMAIN g.blocks, NEW v, NEW w,
           NEW i \in 1..(Len(g.blocks[k].insts) + 1),
           \E a \in 1..i : touches(g, k, v, a),
           \E e \in i..(Len(g.blocks[k].insts) + 1) : touches(g, k, v, e),
           \E a \in 1..i : touches(g, k, w, a),
           \E e \in i..(Len(g.blocks[k].insts) + 1) : touches(g, k, w, e)
    PROVE  overlaps(interval(g, v), interval(g, w))
<1> DEFINE m == Len(g.blocks[k].insts) + 1
<1>1. m \in Nat /\ has_valid_blocks(g) /\ \A e \in 1..m : <<k, e>> \in places(g)
  <2>1. has_valid_blocks(g)
    BY DEF validated
  <2>2. /\ Len(g.blocks[k].insts) \in Nat
        /\ \A e \in 1..(Len(g.blocks[k].insts) + 1) : <<k, e>> \in places(g)
    BY ONLY validated(g), k \in DOMAIN g.blocks, BlockFacts
  <2> QED
    BY <2>1, <2>2
<1>2. PICK a \in 1..i : touches(g, k, v, a)
  OBVIOUS
<1>3. PICK b \in i..m : touches(g, k, v, b)
  OBVIOUS
<1>4. PICK c \in 1..i : touches(g, k, w, c)
  OBVIOUS
<1>5. PICK d \in i..m : touches(g, k, w, d)
  OBVIOUS
<1> HIDE DEF m
<1>6. i \in 1..m
  BY DEF m
<1>7. /\ a \in 1..m /\ b \in 1..m /\ c \in 1..m /\ d \in 1..m
      /\ a <= i /\ i <= b /\ c <= i /\ i <= d
  BY <1>1, <1>6
<1>8. /\ <<k, i>> \in places(g) /\ <<k, a>> \in places(g) /\ <<k, b>> \in places(g)
      /\ <<k, c>> \in places(g) /\ <<k, d>> \in places(g)
  BY <1>1, <1>6, <1>7
<1> QED
  BY <1>1, <1>2, <1>3, <1>4, <1>5, <1>7, <1>8, IntervalsMeet
     DEF touches, interval, compute_live_intervals

\* A value that is touched has an interval.
LEMMA TouchedHasInterval ==
    ASSUME NEW g, validated(g), NEW k \in DOMAIN g.blocks,
           NEW e \in 1..(Len(g.blocks[k].insts) + 1), NEW v, touches(g, k, v, e)
    PROVE  v \in DOMAIN compute_live_intervals(g)
BY BlockFacts, IntervalSpans DEF touches, compute_live_intervals, validated

\* A value that is still read is touched later, and was set before: by a phi,
\* by an earlier instruction, or outside the block.
LEMMA StillReadIsTouched ==
    ASSUME NEW g, validated(g), NEW k \in DOMAIN g.blocks,
           NEW i \in 1..(Len(g.blocks[k].insts) + 1), NEW v, still_read(g, k, v, i)
    PROVE  /\ \E e \in i..(Len(g.blocks[k].insts) + 1) : touches(g, k, v, e)
           /\ \/ \E j \in 1..Len(g.blocks[k].insts) :
                    /\ g.blocks[k].insts[j].dst = v
                    /\ j < i \/ is_phi(g.blocks[k].insts[j])
              \/ v \in compute_liveness(g).live_in[g.blocks[k].id]
<1> DEFINE b == g.blocks[k]
           n == Len(b.insts)
           l == compute_liveness(g)
           unset(e) == \A j \in i..(e - 1) : is_phi(b.insts[j]) \/ b.insts[j].dst # v
           known(j) == b.insts[j].dst = v /\ (j < i \/ is_phi(b.insts[j]))
<1>1. /\ n \in Nat /\ DOMAIN b.insts = 1..n
      /\ l.live_in[b.id] = use_set(b) \cup (l.live_out[b.id] \ def_set(b))
      /\ \A e \in 1..(n + 1) : \A u \in used_at(b, e) : touches(g, k, u, e)
      /\ \A u \in l.live_out[b.id] : touches(g, k, u, n + 1)
  BY BlockFacts
<1>2. \/ \E e \in i..(n + 1) : v \in used_at(b, e) /\ unset(e)
      \/ v \in l.live_out[b.id] /\ unset(n + 1)
  BY DEF still_read
<1>3. ASSUME NEW e \in i..(n + 1), unset(e), \A j \in 1..n : ~known(j)
      PROVE  \A j \in 1..(e - 1) : j \in 1..n /\ b.insts[j].dst # v
  <2> SUFFICES ASSUME NEW j \in 1..(e - 1), b.insts[j].dst = v PROVE FALSE
    <3>1. \A j \in 1..(e - 1) : j \in 1..n
      BY <1>1
    <3> QED
      BY <3>1
  <2>1. j \in 1..n
    BY <1>1
  <2>2. CASE j < i
    BY <1>3, <2>1, <2>2
  <2>3. CASE ~(j < i)
    <3>1. j \in i..(e - 1)
      BY <1>1, <2>3
    <3> QED
      BY <1>3, <2>1, <3>1
  <2> QED
    BY <2>2, <2>3
<1>4. CASE \E e \in i..(n + 1) : v \in used_at(b, e) /\ unset(e)
  <2>1. PICK e \in i..(n + 1) : v \in used_at(b, e) /\ unset(e)
    BY <1>4
  <2>2. e \in 1..(n + 1)
    BY <1>1
  <2>3. touches(g, k, v, e)
    BY <1>1, <2>1, <2>2
  <2>4. ASSUME \A j \in 1..n : ~known(j) PROVE v \in l.live_in[b.id]
    <3>1. \A j \in 1..(e - 1) : b.insts[j].dst # v
      BY <1>3, <2>1, <2>4
    <3> DEFINE R(x) == {u \in used_at(b, x) : \A j \in 1..(x - 1) : b.insts[j].dst # u}
    <3>2. use_set(b) = UNION {R(x) : x \in 1..(n + 1)}
      BY DEF use_set
    <3>3. v \in R(e)
      BY <2>1, <3>1
    <3> HIDE DEF R
    <3>4. v \in use_set(b)
      BY <2>2, <3>2, <3>3
    <3> QED
      BY <1>1, <3>4
  <2> QED
    BY <2>3, <2>4
<1>5. CASE v \in l.live_out[b.id] /\ unset(n + 1)
  <2>1. n + 1 \in i..(n + 1) /\ (n + 1) - 1 = n
    BY <1>1
  <2>2. touches(g, k, v, n + 1)
    BY <1>1, <1>5
  <2>3. ASSUME \A j \in 1..n : ~known(j) PROVE v \in l.live_in[b.id]
    <3>1. \A j \in 1..n : b.insts[j].dst # v
      BY <1>3, <1>5, <2>1, <2>3
    <3>2. v \notin def_set(b)
      BY <1>1, <3>1 DEF def_set
    <3> QED
      BY <1>1, <1>5, <3>2
  <2> QED
    BY <2>1, <2>2, <2>3
<1> QED
  BY <1>2, <1>4, <1>5

\* Where two positions of a block stand, the second perhaps its terminator's.
LEMMA Positions ==
    ASSUME NEW n \in Nat, NEW i \in 1..n, NEW e \in 1..(n + 1)
    PROVE  /\ e <= i => e # n + 1 /\ e \in 1..n /\ (e = i \/ e \in 1..(i - 1))
           /\ ~(e <= i) => i \in 1..(e - 1) /\ e \in i..(n + 1)
  OBVIOUS

\* It was touched before, unless one of the phis ahead sets it.
LEMMA ReadAcrossMeets ==
    ASSUME NEW g, validated(g), NEW k \in DOMAIN g.blocks,
           NEW i \in 1..Len(g.blocks[k].insts), ~is_phi(g.blocks[k].insts[i]),
           NEW v, still_read(g, k, v, i + 1), v # g.blocks[k].insts[i].dst
    PROVE  /\ overlaps(interval(g, v), interval(g, g.blocks[k].insts[i].dst))
           /\ still_read(g, k, v, i)
<1> DEFINE b == g.blocks[k]
           n == Len(b.insts)
           l == compute_liveness(g)
<1>1. /\ n \in Nat /\ DOMAIN b.insts = 1..n
      /\ \A j \in 1..n : is_phi(b.insts[j]) => \A m \in 1..(j - 1) : is_phi(b.insts[m])
      /\ \A j \in 1..n : touches(g, k, b.insts[j].dst, j)
      /\ \A u \in l.live_in[b.id] : touches(g, k, u, 1)
  BY ONLY validated(g), k \in DOMAIN g.blocks, BlockFacts
<1>2. i \in 1..(n + 1) /\ i + 1 \in 1..(n + 1) /\ 1 \in 1..i
  BY <1>1
<1>3. /\ \E e \in (i + 1)..(n + 1) : touches(g, k, v, e)
      /\ \/ \E j \in 1..n : b.insts[j].dst = v /\ (j < i + 1 \/ is_phi(b.insts[j]))
         \/ v \in l.live_in[b.id]
  BY <1>2, StillReadIsTouched
<1>4. \E e \in i..(n + 1) : touches(g, k, v, e)
  <2>1. PICK e \in (i + 1)..(n + 1) : touches(g, k, v, e)
    BY <1>3
  <2>2. e \in i..(n + 1)
    BY ONLY n \in Nat, i \in 1..n, <1>1, <2>1
  <2> QED
    BY <2>1, <2>2
<1>5. \E a \in 1..i : touches(g, k, v, a)
  <2>1. CASE \E j \in 1..n : b.insts[j].dst = v /\ (j < i + 1 \/ is_phi(b.insts[j]))
    <3>1. PICK j \in 1..n : b.insts[j].dst = v /\ (j < i + 1 \/ is_phi(b.insts[j]))
      BY <2>1
    <3>2. j < i + 1
      <4> SUFFICES ASSUME ~(j < i + 1) PROVE FALSE
        OBVIOUS
      <4>1. i \in 1..(j - 1) /\ is_phi(b.insts[j])
        BY <1>1, <3>1
      <4> QED
        BY <1>1, <4>1
    <3>3. j \in 1..i /\ touches(g, k, v, j)
      BY <1>1, <3>1, <3>2
    <3> QED
      BY <3>3
  <2>2. CASE v \in l.live_in[b.id]
    BY <1>1, <1>2, <2>2
  <2> QED
    BY <1>3, <2>1, <2>2
<1>6. i \in 1..i /\ i \in i..(n + 1) /\ touches(g, k, b.insts[i].dst, i)
  BY <1>1
<1>7. overlaps(interval(g, v), interval(g, b.insts[i].dst))
  BY <1>2, <1>4, <1>5, <1>6, TouchesMeet
<1>8. still_read(g, k, v, i)
  <2> DEFINE unset(x, e) == \A j \in x..(e - 1) : is_phi(b.insts[j]) \/ b.insts[j].dst # v
  <2>1. \A e \in (i + 1)..(n + 1) : unset(i + 1, e) => e \in i..(n + 1) /\ unset(i, e)
    <3>1. ASSUME NEW e \in (i + 1)..(n + 1) PROVE e \in i..(n + 1)
      BY ONLY n \in Nat, i \in 1..n, <1>1
    <3>2. ASSUME NEW e \in (i + 1)..(n + 1), unset(i + 1, e), NEW j \in i..(e - 1)
          PROVE  is_phi(b.insts[j]) \/ b.insts[j].dst # v
      <4>1. j = i \/ j \in (i + 1)..(e - 1)
        BY ONLY n \in Nat, i \in 1..n, <1>1
      <4> QED
        BY <3>2, <4>1
    <3> QED
      BY <3>1, <3>2
  <2>2. n + 1 \in (i + 1)..(n + 1)
    BY <1>1
  <2> QED
    BY <2>1, <2>2 DEF still_read
<1> QED
  BY <1>7, <1>8

\* An instruction reads no value that shares its destination's positions.
LEMMA OperandMeets ==
    ASSUME NEW g, validated(g), NEW k \in DOMAIN g.blocks,
           NEW i \in 1..Len(g.blocks[k].insts), NEW v \in used_at(g.blocks[k], i)
    PROVE  /\ overlaps(interval(g, v), interval(g, g.blocks[k].insts[i].dst))
           /\ v # g.blocks[k].insts[i].dst
           /\ still_read(g, k, v, i)
<1> DEFINE b == g.blocks[k]
           n == Len(b.insts)
<1>1. /\ n \in Nat /\ DOMAIN b.insts = 1..n
      /\ \A e \in 1..(n + 1) : \A u \in used_at(b, e) : touches(g, k, u, e)
      /\ \A j \in 1..n : touches(g, k, b.insts[j].dst, j)
  BY BlockFacts
<1>2. i \in 1..(n + 1) /\ i \in i..(n + 1) /\ i \in 1..i
  BY <1>1
<1>3. v # b.insts[i].dst
  <2> SUFFICES ASSUME v = b.insts[i].dst PROVE FALSE
    OBVIOUS
  <2>1. is_dominated(g, compute_dominators(g), v, k, i)
    BY <1>2, Validated DEF uses_are_valid
  <2>2. definitions(g, v) = {<<k, i>>}
    BY <1>1, OnlyDefinition, Validated DEF validated
  <2>3. PICK d \in definitions(g, v) : d[1] = k => d[2] < i
    BY <2>1 DEF is_dominated
  <2>4. d[1] = k /\ d[2] = i
    BY <2>2, <2>3
  <2> QED
    BY <1>1, <2>3, <2>4
<1>4. still_read(g, k, v, i)
  <2>1. \A j \in i..(i - 1) : FALSE
    BY <1>1
  <2> QED
    BY <1>2, <2>1 DEF still_read
<1>5. touches(g, k, v, i) /\ touches(g, k, b.insts[i].dst, i)
  BY <1>1, <1>2
<1> QED
  BY <1>2, <1>3, <1>4, <1>5, TouchesMeet

\* A value that is live on entry is not set by a phi of the block, and meets
\* what the phis set.
LEMMA LiveInMeetsPhis ==
    ASSUME NEW g, validated(g), NEW k \in DOMAIN g.blocks,
           NEW v \in compute_liveness(g).live_in[g.blocks[k].id],
           NEW j \in 1..Len(g.blocks[k].insts), is_phi(g.blocks[k].insts[j])
    PROVE  /\ v # g.blocks[k].insts[j].dst
           /\ overlaps(interval(g, v), interval(g, g.blocks[k].insts[j].dst))
<1> DEFINE b == g.blocks[k]
           n == Len(b.insts)
           l == compute_liveness(g)
           later(e) == e \in j..(n + 1) /\ touches(g, k, v, e)
<1>1. /\ n \in Nat /\ DOMAIN b.insts = 1..n
      /\ \A x \in 1..n : is_phi(b.insts[x]) => \A y \in 1..(x - 1) : is_phi(b.insts[y])
      /\ l.live_in[b.id] = use_set(b) \cup (l.live_out[b.id] \ def_set(b))
      /\ \A x \in 1..n : touches(g, k, b.insts[x].dst, x)
      /\ \A e \in 1..(n + 1) : \A u \in used_at(b, e) : touches(g, k, u, e)
      /\ \A u \in l.live_in[b.id] : touches(g, k, u, 1)
      /\ \A u \in l.live_out[b.id] : touches(g, k, u, n + 1)
  <2>1. /\ n \in Nat /\ DOMAIN b.insts = 1..n
        /\ \A x \in 1..n : is_phi(b.insts[x]) => \A y \in 1..(x - 1) : is_phi(b.insts[y])
        /\ l.live_in[b.id] = use_set(b) \cup (l.live_out[b.id] \ def_set(b))
    BY ONLY validated(g), k \in DOMAIN g.blocks, BlockFacts
  <2>2. /\ \A x \in 1..n : touches(g, k, b.insts[x].dst, x)
        /\ \A e \in 1..(n + 1) : \A u \in used_at(b, e) : touches(g, k, u, e)
    BY ONLY validated(g), k \in DOMAIN g.blocks, BlockFacts
  <2>3. /\ \A u \in l.live_in[b.id] : touches(g, k, u, 1)
        /\ \A u \in l.live_out[b.id] : touches(g, k, u, n + 1)
    BY ONLY validated(g), k \in DOMAIN g.blocks, BlockFacts
  <2> HIDE DEF b, n, l
  <2> QED
    BY ONLY <2>1, <2>2, <2>3
<1>2. j \in 1..(n + 1) /\ 1 \in 1..j /\ j \in 1..j /\ j \in j..(n + 1) /\ n + 1 \in j..(n + 1)
  <2>1. n \in Nat
    BY <1>1
  <2>2. j \in 1..n
    OBVIOUS
  <2> HIDE DEF n
  <2> QED
    BY ONLY <2>1, <2>2
<1>3. v # b.insts[j].dst /\ \E e : later(e)
  <2>1. CASE v \in use_set(b)
    <3> DEFINE R(x) == {u \in used_at(b, x) : \A y \in 1..(x - 1) : b.insts[y].dst # u}
    <3>1. use_set(b) = UNION {R(x) : x \in 1..(n + 1)}
      BY DEF use_set
    <3> HIDE DEF R
    <3>2. PICK e \in 1..(n + 1) : v \in R(e)
      BY <2>1, <3>1
    <3>3. v \in used_at(b, e) /\ \A y \in 1..(e - 1) : b.insts[y].dst # v
      BY <3>2 DEF R
    <3>4. ~(e <= j)
      <4> SUFFICES ASSUME e <= j PROVE FALSE
        OBVIOUS
      <4>1. e # n + 1 /\ e \in 1..n /\ (e = j \/ e \in 1..(j - 1))
        BY ONLY <1>1, j \in 1..n, e \in 1..(n + 1), e <= j, Positions
      <4>2. is_phi(b.insts[e])
        BY <1>1, <4>1
      <4> QED
        BY <3>3, <4>1, <4>2 DEF used_at
    <3>5. j \in 1..(e - 1) /\ e \in j..(n + 1)
      BY ONLY <1>1, j \in 1..n, e \in 1..(n + 1), <3>4, Positions
    <3> QED
      BY <1>1, <3>3, <3>5
  <2>2. CASE v \in l.live_out[b.id] \ def_set(b)
    BY <1>1, <1>2, <2>2 DEF def_set
  <2> QED
    BY <1>1, <2>1, <2>2
<1>4. overlaps(interval(g, v), interval(g, b.insts[j].dst))
  <2>1. /\ \E a \in 1..j : touches(g, k, v, a)
        /\ \E e \in j..(n + 1) : touches(g, k, v, e)
        /\ \E a \in 1..j : touches(g, k, b.insts[j].dst, a)
        /\ \E e \in j..(n + 1) : touches(g, k, b.insts[j].dst, e)
    BY <1>1, <1>2, <1>3
  <2> HIDE DEF later
  <2> QED
    BY <1>2, <2>1, TouchesMeet
<1> QED
  BY <1>3, <1>4

\* Two phis of a block meet, if every phi in front of another is read.
LEMMA PhisMeet ==
    ASSUME NEW g, validated(g), phis_are_read(g), NEW k \in DOMAIN g.blocks,
           NEW i \in 1..Len(g.blocks[k].insts), NEW j \in 1..Len(g.blocks[k].insts),
           i < j, is_phi(g.blocks[k].insts[j])
    PROVE  /\ g.blocks[k].insts[i].dst # g.blocks[k].insts[j].dst
           /\ overlaps(interval(g, g.blocks[k].insts[i].dst),
                       interval(g, g.blocks[k].insts[j].dst))
<1> DEFINE b == g.blocks[k]
           n == Len(b.insts)
           l == compute_liveness(g)
           v == b.insts[i].dst
<1>1. /\ n \in Nat /\ DOMAIN b.insts = 1..n
      /\ \A x \in 1..n : is_phi(b.insts[x]) => \A y \in 1..(x - 1) : is_phi(b.insts[y])
      /\ \A x, y \in 1..n : b.insts[x].dst = b.insts[y].dst => x = y
      /\ \A x \in 1..n : touches(g, k, b.insts[x].dst, x)
      /\ \A e \in 1..(n + 1) : \A u \in used_at(b, e) : touches(g, k, u, e)
      /\ \A u \in l.live_out[b.id] : touches(g, k, u, n + 1)
  BY BlockFacts
<1>2. /\ j \in 1..(n + 1) /\ i \in 1..j /\ j \in 1..j /\ j \in j..(n + 1) /\ n + 1 \in j..(n + 1)
      /\ i \in 1..(j - 1) /\ i < n /\ (i + 1 = j \/ i + 1 \in 1..(j - 1)) /\ i # j
      /\ i \in DOMAIN b.insts
  BY <1>1
<1>3. is_phi(b.insts[i]) /\ is_phi(b.insts[i + 1])
  BY <1>1, <1>2
<1>4. \/ v \in l.live_out[b.id]
      \/ \E e \in 1..(n + 1) : v \in used_at(b, e)
  BY <1>2, <1>3 DEF phis_are_read
<1>5. \E e \in j..(n + 1) : touches(g, k, v, e)
  <2>1. ASSUME NEW e \in 1..(n + 1), v \in used_at(b, e) PROVE e \in j..(n + 1)
    <3> SUFFICES ASSUME ~(e >= j) PROVE FALSE
      BY <1>1
    <3>1. e # n + 1 /\ e \in 1..(j - 1)
      BY <1>1
    <3>2. is_phi(b.insts[e])
      BY <1>1, <3>1
    <3> QED
      BY <2>1, <3>1, <3>2 DEF used_at
  <2> QED
    BY <1>1, <1>2, <1>4, <2>1
<1>6. /\ \E a \in 1..j : touches(g, k, v, a)
      /\ \E a \in 1..j : touches(g, k, b.insts[j].dst, a)
      /\ \E e \in j..(n + 1) : touches(g, k, b.insts[j].dst, e)
  BY <1>1, <1>2
<1> QED
  BY <1>1, <1>2, <1>5, <1>6, TouchesMeet

\* What a successor needs is live after the block.
LEMMA NeededIsLiveOut ==
    ASSUME NEW g, validated(g), NEW k \in DOMAIN g.blocks,
           NEW t \in successors(g.blocks[k].term), NEW v,
           \/ v \in compute_liveness(g).live_in[t] /\ v \notin phi_defs(g, t)
           \/ v \in phi_uses(g, g.blocks[k].id, t)
    PROVE  v \in compute_liveness(g).live_out[g.blocks[k].id]
<1> DEFINE l == compute_liveness(g)
<1>1. l.live_out[g.blocks[k].id] = live_out_of(g, l.live_in, g.blocks[k])
  BY BlockFacts
<1> HIDE DEF l
<1>2. v \in live_out_of(g, l.live_in, g.blocks[k])
  BY LiveOut DEF l
<1> QED
  BY <1>1, <1>2 DEF l

\* On entry to a block the values still read are live, or set by its phis.
LEMMA ReadOnEntry ==
    ASSUME NEW g, validated(g), NEW k \in DOMAIN g.blocks, NEW v, still_read(g, k, v, 1)
    PROVE  \/ v \in compute_liveness(g).live_in[g.blocks[k].id]
           \/ \E j \in 1..Len(g.blocks[k].insts) : /\ is_phi(g.blocks[k].insts[j])
                                                  /\ g.blocks[k].insts[j].dst = v
<1>1. Len(g.blocks[k].insts) \in Nat /\ 1 \in 1..(Len(g.blocks[k].insts) + 1)
  BY BlockFacts
<1>2. \A j \in 1..Len(g.blocks[k].insts) : ~(j < 1)
  BY <1>1
<1> QED
  BY <1>1, <1>2, StillReadIsTouched

-----------------------------------------------------------------------------
(* The machine code of an instruction.                                     *)

Memory == RegLocs \cup FrameLocs

\* The contents of the registers and of the frame.
contents(c) == c = [l \in Memory |-> c[l]]

Accepted == CodegenAssumptions /\ CallInv /\ accepts

\* A value lives in an allocatable register or in a slot of its own kind, and
\* never in a scratch register or in a saved argument.
LEMMA HomeOf ==
    ASSUME Accepted, NEW v \in DOMAIN map
    PROVE  /\ home(v) \in Memory
           /\ home(v) # scratch0 /\ home(v) # scratch1
           /\ \A i \in 0..(f.args - 1) : home(v) # arg_shadow_addr(i)
           /\ is_spilled(v) => home(v) \in FrameLocs /\ home(v) = Stack(f.args + map[v].slot)
           /\ ~is_spilled(v) => home(v) \in RegLocs /\ home(v) = map[v]
<1>1. /\ f.args \in Nat /\ aligned_bytes \in Nat /\ aligned_bytes <= MaxFrameBytes
      /\ \/ ~is_spilled(v) /\ map[v] \in {Reg(r) : r \in Range(RegSet.regs)}
         \/ /\ is_spilled(v) /\ map[v] = Stack(map[v].slot)
            /\ map[v].slot \in Nat
            /\ 8 * (f.args + map[v].slot + 1) <= aligned_bytes
  BY AcceptedAssignment DEF Accepted
<1>2. /\ scratch0.kind = "reg" /\ scratch1.kind = "reg"
      /\ \A r \in Range(RegSet.regs) : /\ Reg(r) \in RegLocs
                                       /\ Reg(r) # scratch0 /\ Reg(r) # scratch1
  BY AcceptedAssignment, RegisterFacts DEF Accepted
<1>3. CASE is_spilled(v)
  <2> DEFINE slot == map[v].slot
  <2>1. /\ slot \in Nat /\ 8 * (f.args + slot + 1) <= aligned_bytes
        /\ home(v) = Stack(f.args + slot)
    BY <1>1, <1>3 DEF home, is_spilled, stack_addr_with_base
  <2> HIDE DEF slot
  <2>2. f.args + slot \in 0..(MaxFrameBytes \div 8 - 1)
    <3>1. MaxFrameBytes \in Nat
      BY DEF Accepted, CodegenAssumptions, FrameAssumption
    <3>2. f.args + slot \in Nat /\ 8 * (f.args + slot + 1) <= MaxFrameBytes
      BY <1>1, <2>1, <3>1
    <3> QED
      BY <3>1, <3>2
  <2>3. home(v) \in FrameLocs
    BY <2>1, <2>2 DEF FrameLocs
  <2>4. \A i \in 0..(f.args - 1) : f.args + slot # i
    BY <1>1, <2>1
  <2>5. \A i \in 0..(f.args - 1) : home(v) # arg_shadow_addr(i)
    BY <2>1, <2>4, LocationFields DEF arg_shadow_addr
  <2> QED
    BY <1>2, <1>3, <2>1, <2>3, <2>5, LocationFields DEF Memory, slot
<1>4. CASE ~is_spilled(v)
  <2>1. home(v) = map[v]
    BY <1>1, <1>4, LocationFields DEF home
  <2>2. PICK r \in Range(RegSet.regs) : home(v) = Reg(r)
    BY <1>1, <1>4, <2>1
  <2>3. \A i : home(v) # arg_shadow_addr(i)
    BY <2>2, LocationFields DEF arg_shadow_addr
  <2> QED
    BY <1>2, <1>4, <2>1, <2>2, <2>3 DEF Memory
<1> QED
  BY <1>3, <1>4

\* Two values with intervals that overlap live in different places.
LEMMA HomesDiffer ==
    ASSUME Accepted, NEW v \in DOMAIN map, NEW w \in DOMAIN map, v # w,
           overlaps(interval(f, v), interval(f, w))
    PROVE  home(v) # home(w)
<1>1. /\ DOMAIN map = DOMAIN intervals /\ conflicts(intervals, map) = {}
      /\ f.args \in Nat
      /\ \A u \in DOMAIN map : is_spilled(u) => /\ map[u] = Stack(map[u].slot)
                                                /\ map[u].slot \in Nat
  BY AcceptedAssignment DEF Accepted
<1>2. overlaps(intervals[v], intervals[w])
  BY DEF interval, Accepted, CallInv
<1>3. map[v] # map[w]
  <2> SUFFICES ASSUME map[v] = map[w] PROVE FALSE
    OBVIOUS
  <2> DEFINE p == <<v, w>>
  <2>1. p \in (DOMAIN intervals) \X (DOMAIN intervals) /\ p[1] = v /\ p[2] = w
    BY <1>1
  <2>2. p \in conflicts(intervals, map)
    BY <1>2, <2>1 DEF conflicts
  <2> QED
    BY <1>1, <2>2
<1>4. CASE is_spilled(v) /\ is_spilled(w)
  <2>1. home(v) = Stack(f.args + map[v].slot) /\ home(w) = Stack(f.args + map[w].slot)
    BY <1>4, HomeOf
  <2>2. map[v].slot # map[w].slot /\ map[v].slot \in Nat /\ map[w].slot \in Nat
    BY <1>1, <1>3, <1>4
  <2>3. f.args + map[v].slot # f.args + map[w].slot
    BY <1>1, <2>2
  <2> QED
    BY <2>1, <2>3, LocationFields
<1>5. CASE ~is_spilled(v) /\ ~is_spilled(w)
  BY <1>3, <1>5, HomeOf
<1>6. RegLocs \cap FrameLocs = {}
  BY AcceptedAssignment, RegisterFacts, LocationFields DEF Accepted, FrameLocs
<1> QED
  BY <1>4, <1>5, <1>6, HomeOf

\* A saved argument is in the frame.
LEMMA ShadowInMemory ==
    ASSUME Accepted, NEW i \in 0..(f.args - 1)
    PROVE  arg_shadow_addr(i) \in FrameLocs /\ arg_shadow_addr(i) \in Memory
<1>1. f.args \in Nat /\ 8 * f.args <= MaxFrameBytes /\ MaxFrameBytes \in Nat
  BY AcceptedAssignment DEF Accepted, CodegenAssumptions, FrameAssumption
<1>2. i \in 0..(MaxFrameBytes \div 8 - 1)
  BY <1>1
<1> QED
  BY <1>2 DEF arg_shadow_addr, FrameLocs, Memory

\* get_val leaves the value in the register it names, and changes at most the
\* preferred one.
LEMMA GetVal ==
    ASSUME Accepted, NEW c, contents(c), NEW v \in DOMAIN map, NEW r \in RegLocs
    PROVE  /\ contents(get_val(c, v, r))
           /\ val_reg(v, r) \in Memory
           /\ val_reg(v, r) = IF is_spilled(v) THEN r ELSE home(v)
           /\ get_val(c, v, r)[val_reg(v, r)] = c[home(v)]
           /\ \A l \in Memory : l # r => get_val(c, v, r)[l] = c[l]
<1>1. r \in Memory /\ home(v) \in Memory
  BY HomeOf DEF Memory
<1>2. CASE is_spilled(v)
  <2>1. get_val(c, v, r) = [c EXCEPT ![r] = c[home(v)]] /\ val_reg(v, r) = r
    BY <1>2 DEF get_val, val_reg
  <2> QED
    BY <1>1, <1>2, <2>1 DEF contents
<1>3. CASE ~is_spilled(v)
  <2>1. get_val(c, v, r) = c /\ val_reg(v, r) = home(v)
    BY <1>3 DEF get_val, val_reg
  <2> QED
    BY <1>1, <1>3, <2>1
<1> QED
  BY <1>2, <1>3

\* A move changes its destination only.
LEMMA Mov ==
    ASSUME NEW c, contents(c), NEW d \in Memory, NEW s
    PROVE  /\ contents(mov(c, d, s))
           /\ mov(c, d, s)[d] = c[s]
           /\ \A l \in Memory : l # d => mov(c, d, s)[l] = c[l]
BY DEF mov, contents

LEMMA SetReg ==
    ASSUME NEW c, contents(c), NEW d \in Memory, NEW x
    PROVE  /\ contents([c EXCEPT ![d] = x])
           /\ [c EXCEPT ![d] = x][d] = x
           /\ \A l \in Memory : l # d => [c EXCEPT ![d] = x][l] = c[l]
BY DEF contents

\* What an instruction computes from the contents of its operands' homes.
machine_value(c, i) ==
    CASE i.op = "const" -> i.imm
      [] i.op = "arg" -> c[arg_shadow_addr(i.idx)]
      [] i.op = "add" -> wrap(c[home(i.a)] + c[home(i.b)])
      [] i.op = "mul" -> wrap(c[home(i.a)] * c[home(i.b)])
      [] i.op = "cmpgt" -> IF c[home(i.a)] > c[home(i.b)] THEN 1 ELSE 0
      [] i.op = "mov" -> c[home(i.src)]

\* c2 is c with x in the home of v, but for the scratch registers.
puts(c, v, x, c2) ==
    /\ contents(c2)
    /\ c2[home(v)] = x
    /\ \A l \in Memory : l \notin {home(v), scratch0, scratch1} => c2[l] = c[l]

\* The registers the emitter computes in.
LEMMA DestinationRegister ==
    ASSUME Accepted, NEW v \in DOMAIN map
    PROVE  /\ destination_register(v) \in RegLocs
           /\ destination_register(v) \in {home(v), scratch0}
           /\ destination_register(v) # scratch1
           /\ scratch0 \in RegLocs /\ scratch1 \in RegLocs /\ scratch0 # scratch1
<1>1. scratch0 \in RegLocs /\ scratch1 \in RegLocs /\ scratch0 # scratch1
  BY AcceptedAssignment, RegisterFacts DEF Accepted
<1> QED
  BY <1>1, HomeOf DEF destination_register

\* add and imul.
LEMMA BinaryPuts ==
    ASSUME Accepted, NEW c, contents(c), NEW i,
           i.a \in DOMAIN map, i.b \in DOMAIN map, i.dst \in DOMAIN map,
           home(i.b) # home(i.dst)
    PROVE  puts(c, i.dst, binary(i.op, c[home(i.a)], c[home(i.b)]), emit_binary(c, i))
<1> DEFINE d == destination_register(i.dst)
           g == get_val(c, i.a, d)
           c1 == mov(g, d, val_reg(i.a, d))
           r == val_reg(i.b, scratch1)
           c2 == get_val(c1, i.b, scratch1)
           x == binary(i.op, c2[d], c2[r])
           c3 == [c2 EXCEPT ![d] = x]
           e == set_val(c3, i.dst, d)
<1>1. emit_binary(c, i) = e
  BY DEF emit_binary
<1>2. /\ d \in RegLocs /\ d \in Memory /\ d \in {home(i.dst), scratch0} /\ d # scratch1
      /\ scratch0 \in Memory /\ scratch1 \in Memory /\ scratch1 \in RegLocs
  BY DestinationRegister DEF Memory
<1>3. /\ home(i.a) \in Memory /\ home(i.b) \in Memory /\ home(i.dst) \in Memory
      /\ home(i.b) # d /\ home(i.b) # scratch1 /\ home(i.dst) # scratch1
  BY <1>2, HomeOf
<1> HIDE DEF d
<1>4. /\ contents(g) /\ g[val_reg(i.a, d)] = c[home(i.a)]
      /\ \A l \in Memory : l # d => g[l] = c[l]
  BY <1>2, GetVal
<1> HIDE DEF g
<1>5. /\ contents(c1) /\ c1[d] = c[home(i.a)]
      /\ \A l \in Memory : l # d => c1[l] = c[l]
  BY <1>2, <1>4, Mov
<1> HIDE DEF c1
<1>6. /\ contents(c2) /\ c2[r] = c1[home(i.b)]
      /\ \A l \in Memory : l # scratch1 => c2[l] = c1[l]
  BY <1>2, <1>5, GetVal
<1> HIDE DEF c2, r
<1>7. x = binary(i.op, c[home(i.a)], c[home(i.b)])
  BY <1>2, <1>3, <1>5, <1>6
<1> HIDE DEF x
<1>8. /\ contents(c3) /\ c3[d] = x /\ \A l \in Memory : l # d => c3[l] = c2[l]
  BY <1>2, <1>6, SetReg
<1> HIDE DEF c3
<1>9. /\ contents(e) /\ e[home(i.dst)] = x
      /\ \A l \in Memory : l # home(i.dst) => e[l] = c3[l]
  <2>1. e = mov(c3, home(i.dst), d)
    BY DEF set_val, mov
  <2> HIDE DEF e
  <2>2. /\ contents(mov(c3, home(i.dst), d)) /\ mov(c3, home(i.dst), d)[home(i.dst)] = c3[d]
        /\ \A l \in Memory : l # home(i.dst) => mov(c3, home(i.dst), d)[l] = c3[l]
    <3>1. contents(c3)
      BY <1>8
    <3>2. home(i.dst) \in Memory
      BY <1>3
    <3> QED
      BY <3>1, <3>2, Mov
  <2> QED
    BY <1>8, <2>1, <2>2
<1> HIDE DEF e
<1>10. \A l \in Memory : l \notin {home(i.dst), scratch0, scratch1} => e[l] = c[l]
  BY <1>2, <1>5, <1>6, <1>8, <1>9
<1> QED
  BY <1>1, <1>7, <1>9, <1>10 DEF puts

\* Every instruction but a phi puts what it computes into its destination.
LEMMA InstructionPuts ==
    ASSUME Accepted, NEW c, contents(c), NEW i,
           i.op \in {"const", "arg", "add", "mul", "cmpgt", "mov"},
           i.dst \in DOMAIN map, uses(i) \subseteq DOMAIN map,
           \A u \in uses(i) : home(u) # home(i.dst)
    PROVE  puts(c, i.dst, machine_value(c, i), execute_inst(c, i))
<1>1. /\ scratch0 \in RegLocs /\ scratch1 \in RegLocs /\ scratch0 # scratch1
      /\ scratch0 \in Memory /\ scratch1 \in Memory
      /\ home(i.dst) \in Memory /\ home(i.dst) # scratch0 /\ home(i.dst) # scratch1
  BY DestinationRegister, HomeOf DEF Memory
<1> DEFINE set_is_mov == \A x : \A y : \A v : set_val(x, v, y) = mov(x, home(v), y)
<1>7. set_is_mov
  BY DEF set_val, mov
<1> HIDE DEF set_is_mov
<1>2. CASE i.op = "const"
  <2> DEFINE d == destination_register(i.dst)
             c1 == [c EXCEPT ![d] = i.imm]
             e == mov(c1, home(i.dst), d)
  <2>1. d \in Memory /\ d \in {home(i.dst), scratch0}
    BY DestinationRegister DEF Memory
  <2>2. execute_inst(c, i) = e /\ machine_value(c, i) = i.imm
    BY <1>7, <1>2 DEF set_is_mov, execute_inst, emit_const, machine_value
  <2> HIDE DEF d
  <2>3. contents(c1) /\ c1[d] = i.imm /\ \A l \in Memory : l # d => c1[l] = c[l]
    BY <2>1, SetReg
  <2> HIDE DEF c1
  <2>4. contents(e) /\ e[home(i.dst)] = c1[d] /\ \A l \in Memory : l # home(i.dst) => e[l] = c1[l]
    BY <1>1, <2>3, Mov
  <2> HIDE DEF e
  <2> QED
    BY <2>1, <2>2, <2>3, <2>4 DEF puts
<1>3. CASE i.op = "arg"
  <2> DEFINE c1 == mov(c, scratch0, arg_shadow_addr(i.idx))
             e == mov(c1, home(i.dst), scratch0)
  <2>1. execute_inst(c, i) = e /\ machine_value(c, i) = c[arg_shadow_addr(i.idx)]
    BY <1>7, <1>3 DEF set_is_mov, execute_inst, emit_arg, machine_value
  <2>2. /\ contents(c1) /\ c1[scratch0] = c[arg_shadow_addr(i.idx)]
        /\ \A l \in Memory : l # scratch0 => c1[l] = c[l]
    BY <1>1, Mov
  <2> HIDE DEF c1
  <2>3. contents(e) /\ e[home(i.dst)] = c1[scratch0] /\ \A l \in Memory : l # home(i.dst) => e[l] = c1[l]
    BY <1>1, <2>2, Mov
  <2> HIDE DEF e
  <2> QED
    BY <2>1, <2>2, <2>3 DEF puts
<1>4. CASE i.op \in {"add", "mul"}
  <2>1. i.a \in uses(i) /\ i.b \in uses(i)
    BY <1>4 DEF uses
  <2>2. execute_inst(c, i) = emit_binary(c, i)
    BY <1>4 DEF execute_inst
  <2>3. machine_value(c, i) = binary(i.op, c[home(i.a)], c[home(i.b)])
    BY <1>4 DEF machine_value, binary
  <2> QED
    BY <2>1, <2>2, <2>3, BinaryPuts
<1>5. CASE i.op = "cmpgt"
  <2> DEFINE c1 == get_val(c, i.a, scratch0)
             c2 == get_val(c1, i.b, scratch1)
             ra == val_reg(i.a, scratch0)
             rb == val_reg(i.b, scratch1)
             x == IF c2[ra] > c2[rb] THEN 1 ELSE 0
             c3 == [c2 EXCEPT ![scratch0] = x]
             e == mov(c3, home(i.dst), scratch0)
  <2>1. i.a \in DOMAIN map /\ i.b \in DOMAIN map
    BY <1>5 DEF uses
  <2>2. execute_inst(c, i) = e
    BY <1>7, <1>5 DEF set_is_mov, execute_inst, emit_cmp
  <2>3. /\ home(i.a) \in Memory /\ home(i.b) \in Memory
        /\ home(i.b) # scratch0 /\ home(i.a) # scratch1
    BY <2>1, HomeOf
  <2>4. /\ contents(c1) /\ c1[ra] = c[home(i.a)] /\ ra \in Memory /\ ra \in {scratch0, home(i.a)}
        /\ \A l \in Memory : l # scratch0 => c1[l] = c[l]
    BY <1>1, <2>1, GetVal
  <2> HIDE DEF c1, ra
  <2>5. /\ contents(c2) /\ c2[rb] = c1[home(i.b)]
        /\ \A l \in Memory : l # scratch1 => c2[l] = c1[l]
    BY <1>1, <2>1, <2>4, GetVal
  <2> HIDE DEF c2, rb
  <2>6. c2[ra] = c[home(i.a)] /\ c2[rb] = c[home(i.b)]
    BY <1>1, <2>3, <2>4, <2>5
  <2>7. machine_value(c, i) = x
    BY <1>5, <2>6 DEF machine_value
  <2> HIDE DEF x
  <2>8. contents(c3) /\ c3[scratch0] = x /\ \A l \in Memory : l # scratch0 => c3[l] = c2[l]
    BY <1>1, <2>5, SetReg
  <2> HIDE DEF c3
  <2>9. contents(e) /\ e[home(i.dst)] = c3[scratch0] /\ \A l \in Memory : l # home(i.dst) => e[l] = c3[l]
    <3>1. contents(c3)
      BY <2>8
    <3>2. home(i.dst) \in Memory
      BY <1>1
    <3> QED
      BY <3>1, <3>2, Mov
  <2> HIDE DEF e
  <2> QED
    BY <2>2, <2>4, <2>5, <2>7, <2>8, <2>9 DEF puts
<1>6. CASE i.op = "mov"
  <2> DEFINE c1 == get_val(c, i.src, scratch0)
             r == val_reg(i.src, scratch0)
             e == mov(c1, home(i.dst), r)
  <2>1. i.src \in DOMAIN map
    BY <1>6 DEF uses
  <2>2. execute_inst(c, i) = e /\ machine_value(c, i) = c[home(i.src)]
    BY <1>7, <1>6 DEF set_is_mov, execute_inst, emit_mov, machine_value
  <2>3. /\ contents(c1) /\ c1[r] = c[home(i.src)]
        /\ \A l \in Memory : l # scratch0 => c1[l] = c[l]
    BY <1>1, <2>1, GetVal
  <2> HIDE DEF c1, r
  <2>4. contents(e) /\ e[home(i.dst)] = c1[r] /\ \A l \in Memory : l # home(i.dst) => e[l] = c1[l]
    BY <1>1, <2>3, Mov
  <2> HIDE DEF e
  <2> QED
    BY <2>2, <2>3, <2>4 DEF puts
<1> QED
  BY <1>2, <1>3, <1>4, <1>5, <1>6

-----------------------------------------------------------------------------
(* Machine and interpreter in step: the invariant.                         *)

Moves == INSTANCE ParallelMovesProofs WITH
             Registers <- RegLocs \ {scratch0, scratch1},
             Slots <- FrameLocs,
             Temporary <- scratch0,
             Temporary2 <- scratch1,
             Sources <- (RegLocs \ {scratch0, scratch1}) \cup FrameLocs,
             MaxMoves <- U32Max

\* Each edge has at most two moves, or none of them reads a slot.
edges_are_safe ==
    \A p, t \in block_ids(f) :
        flows(f, p, t) =>
            LET m == phi_moves_for_edge(p, t)
            IN  Len(m) <= 2 \/ \A j \in DOMAIN m : m[j][2] \notin FrameLocs

\* The functions and assignments the emitter is right for.
SafePhis == phis_are_read(f) /\ edges_are_safe

\* The arguments the prologue has saved.
saved(c) == \A i \in 0..(f.args - 1) : c[arg_shadow_addr(i)] = args[i + 1]

\* In a block every value that is still read is in its home.
InBlock ==
    /\ moves = <<>>
    /\ saved(cell)
    /\ \A k \in DOMAIN f.blocks : f.blocks[k].id = current =>
          \A v \in DOMAIN map : still_read(f, k, v, index) => cell[home(v)] = regs[v]

\* On an edge the copies to be made leave every value that is live in its home,
\* and every phi the value it is to read.
BetweenBlocks ==
    /\ Moves!MInv
    /\ saved(want)
    /\ \A v \in compute_liveness(f).live_in[current] : want[home(v)] = regs[v]
    /\ \A p \in phis(here) : want[home(p.dst)] = regs[incoming_from(p, predecessor)]

\* Before the emitter is called nothing has run.
NotStarted ==
    /\ index = 0 /\ predecessor = Interpreter!NoBlock /\ outcome = "running"
    /\ moves = <<>> /\ m_current = current

InStep ==
    /\ contents(cell)
    /\ m_current = current
    /\ outcome = "returned" => m_returned = returned
    /\ outcome # "running" => moves = <<>>
    /\ outcome = "running" =>
          /\ index > 0 => InBlock
          /\ index = 0 /\ predecessor = Interpreter!NoBlock => moves = <<>> /\ saved(cell)
          /\ index = 0 /\ predecessor # Interpreter!NoBlock => BetweenBlocks

SimInv ==
    /\ RunInv
    /\ CallInv
    /\ emitted = "no" => NotStarted
    /\ emitted = "yes" /\ SafePhis => InStep

-----------------------------------------------------------------------------
(* The moves of an edge.                                                   *)

\* The locations of the moves are the registers and the frame.
LEMMA MovesLocations ==
    ASSUME CodegenAssumptions, validate_for_codegen(RegSet)
    PROVE  /\ Moves!LocationsAssumption /\ Moves!MaxMovesAssumption
           /\ Moves!Homes = Memory \ {scratch0, scratch1}
           /\ Moves!Locations = Memory
           /\ \A c, s : Edge!parallel_copy(c, s) = Moves!parallel_copy(c, s)
<1>1. /\ scratch0 \in RegLocs /\ scratch1 \in RegLocs /\ scratch0 # scratch1
      /\ scratch0.kind = "reg" /\ scratch1.kind = "reg"
      /\ \A l \in RegLocs : l.kind = "reg"
  BY RegisterFacts
<1>2. \A l \in FrameLocs : l.kind = "stack"
  BY LocationFields DEF FrameLocs
<1>3. RegLocs \cap FrameLocs = {} /\ scratch0 \notin FrameLocs /\ scratch1 \notin FrameLocs
  BY <1>1, <1>2
<1>4. Moves!Homes = Memory \ {scratch0, scratch1}
  BY <1>3 DEF Moves!Homes, Memory
<1>5. Moves!Locations = Memory
  BY <1>1, <1>4 DEF Moves!Locations, Memory
<1>6. Moves!LocationsAssumption
  BY <1>1, <1>3 DEF Moves!LocationsAssumption, Moves!Homes
<1>7. \A c, s : Edge!parallel_copy(c, s) = Moves!parallel_copy(c, s)
  BY DEF Edge!parallel_copy, Moves!parallel_copy, Edge!Locations, Moves!Locations,
         Edge!Homes, Moves!Homes, Edge!destination, Moves!destination,
         Edge!source, Moves!source
<1>8. Moves!MaxMovesAssumption
  BY U32MaxAssumption DEF Moves!MaxMovesAssumption
<1> QED
  BY <1>4, <1>5, <1>6, <1>7, <1>8

\* The moves of an edge and the contents they start from.
EdgeReady ==
    /\ CodegenAssumptions /\ validate_for_codegen(RegSet)
    /\ moves \in Seq(Moves!Homes \X Moves!Homes)
    /\ \A i, j \in DOMAIN moves : moves[i][1] = moves[j][1] => i = j
    /\ Len(moves) <= 2 \/ \A i \in DOMAIN moves : moves[i][2] \notin FrameLocs
    /\ contents(cell)
    /\ want = Edge!parallel_copy(cell, moves)

LEMMA EdgeStart == EdgeReady => Moves!MInv
<1> SUFFICES ASSUME EdgeReady PROVE Moves!MInv
  OBVIOUS
<1>1. /\ Moves!LocationsAssumption /\ Moves!MaxMovesAssumption
      /\ Moves!Locations = Memory
      /\ want = Moves!parallel_copy(cell, moves)
  BY MovesLocations DEF EdgeReady
<1>2. \A i, j \in DOMAIN moves :
          Moves!destination(moves[i]) = Moves!destination(moves[j]) => i = j
  BY DEF EdgeReady, Moves!destination
<1>3. Moves!FewOrRegisters
  BY DEF EdgeReady, Moves!FewOrRegisters, Moves!source
<1>4. cell = [l \in Moves!Locations |-> cell[l]]
  BY <1>1 DEF EdgeReady, contents
<1>5. moves \in Seq(Moves!Homes \X Moves!Homes)
  BY DEF EdgeReady
<1> QED
  BY <1>1, <1>2, <1>3, <1>4, <1>5, Moves!StartMInv

LEMMA EdgeStarts == EdgeReady' => Moves!MInv'
BY EdgeStart, PTL

\* A move of the edge keeps the invariant of the moves.
LEMMA MoveOnEdgeKeeps ==
    ASSUME CodegenAssumptions, validate_for_codegen(RegSet), Moves!MInv,
           Edge!MoveFree \/ Edge!BreakCycle
    PROVE  Moves!MInv' /\ want' = want /\ moves # <<>>
<1>1. Moves!LocationsAssumption /\ Moves!MaxMovesAssumption
  BY MovesLocations
<1>2. CASE Edge!MoveFree
  <2>1. Moves!MoveFree
    BY <1>2 DEF Edge!MoveFree, Moves!MoveFree, Edge!is_position, Moves!is_position,
       Edge!unblocked, Moves!unblocked, Edge!remove, Moves!remove, Edge!copy, Moves!copy,
       Edge!load, Moves!load, Edge!loaded, Moves!loaded,
       Edge!destination, Moves!destination, Edge!source, Moves!source
  <2>2. Moves!MInv'
    BY <1>1, <2>1, Moves!MoveFreeStep
  <2>3. DOMAIN moves # {} /\ want' = want
    BY <1>2 DEF Edge!MoveFree
  <2>4. DOMAIN <<>> = {}
    OBVIOUS
  <2> QED
    BY <2>2, <2>3, <2>4
<1>3. CASE Edge!BreakCycle
  <2>1. Moves!BreakCycle
    BY <1>3 DEF Edge!BreakCycle, Moves!BreakCycle, Edge!redirect, Moves!redirect,
       Edge!save, Moves!save,
       Edge!unblocked, Moves!unblocked, Edge!remove, Moves!remove, Edge!copy, Moves!copy,
       Edge!load, Moves!load, Edge!loaded, Moves!loaded,
       Edge!destination, Moves!destination, Edge!source, Moves!source
  <2>2. Moves!MInv'
    BY <1>1, <2>1, Moves!BreakCycleStep
  <2> QED
    BY <1>3, <2>2 DEF Edge!BreakCycle
<1> QED
  BY <1>2, <1>3

\* When the moves are done the homes hold what the parallel copy wants.
LEMMA MovesDone ==
    ASSUME CodegenAssumptions, validate_for_codegen(RegSet), Moves!MInv, moves = <<>>
    PROVE  \A l \in Memory \ {scratch0, scratch1} : cell[l] = want[l]
<1>1. Moves!Homes = Memory \ {scratch0, scratch1}
  BY MovesLocations
<1>2. \A l \in Moves!Homes : cell[l] = want[l]
  BY DEF Moves!MInv, Moves!RestIsDone
<1> QED
  BY <1>1, <1>2

\* What a parallel copy leaves in the memory.
LEMMA ParallelCopy ==
    ASSUME CodegenAssumptions, validate_for_codegen(RegSet),
           NEW c, NEW s, \A i, j \in DOMAIN s : s[i][1] = s[j][1] => i = j
    PROVE  /\ \A l \in Memory : (\A i \in DOMAIN s : s[i][1] # l)
                                  => Edge!parallel_copy(c, s)[l] = c[l]
           /\ \A i \in DOMAIN s : s[i][1] \in Memory
                                  => Edge!parallel_copy(c, s)[s[i][1]] = c[s[i][2]]
<1>1. Edge!Locations = Memory
  <2>1. Moves!Locations = Memory
    BY MovesLocations
  <2> QED
    BY <2>1 DEF Edge!Locations, Moves!Locations, Edge!Homes, Moves!Homes
<1>2. \A l \in Memory :
        Edge!parallel_copy(c, s)[l] =
            IF \E i \in DOMAIN s : s[i][1] = l
            THEN c[s[CHOOSE i \in DOMAIN s : s[i][1] = l][2]]
            ELSE c[l]
  BY <1>1 DEF Edge!parallel_copy, Edge!destination, Edge!source
<1>3. \A i \in DOMAIN s : (CHOOSE j \in DOMAIN s : s[j][1] = s[i][1]) = i
  OBVIOUS
<1> QED
  BY <1>2, <1>3

\* The move of a phi on the edge from pred, and whether there is one.
edge_move(i, pred) == <<home(i.dst), home(incoming_from(i, pred))>>
is_moved(i, pred) ==
    is_phi(i) /\ has_incoming(i, pred) /\ home(i.dst) # home(incoming_from(i, pred))

edge_chain(insts, pred, a, n) ==
    a = [m \in 0..n |-> IF m = 0 THEN <<>>
                        ELSE a[m - 1] \o (IF is_moved(insts[m], pred)
                                          THEN <<edge_move(insts[m], pred)>> ELSE <<>>)]

\* The recursion of phi_moves_for_edge defines it.
LEMMA EdgeMovesEquation ==
    ASSUME NEW pred, NEW succ, NEW n \in Nat, n = Len(try_block(f, succ).insts)
    PROVE  \E a : /\ edge_chain(try_block(f, succ).insts, pred, a, n)
                  /\ phi_moves_for_edge(pred, succ) = a[n]
<1> DEFINE insts == try_block(f, succ).insts
           T == {z \in Nat : \E a : edge_chain(insts, pred, a, z)}
           next(s, m) == s \o (IF is_moved(insts[m], pred)
                               THEN <<edge_move(insts[m], pred)>> ELSE <<>>)
<1>1. 0 \in T
  <2> DEFINE a == [m \in 0..0 |-> <<>>]
  <2>1. edge_chain(insts, pred, a, 0)
    BY DEF edge_chain
  <2> HIDE DEF a
  <2> QED
    BY <2>1
<1>2. ASSUME NEW z \in T PROVE z + 1 \in T
  <2>1. PICK b : edge_chain(insts, pred, b, z)
    OBVIOUS
  <2> DEFINE a == [m \in 0..(z + 1) |-> IF m <= z THEN b[m] ELSE next(b[z], z + 1)]
  <2>2. z \in Nat
    OBVIOUS
  <2> HIDE DEF next
  <2>3. b = [m \in 0..z |-> IF m = 0 THEN <<>> ELSE next(b[m - 1], m)]
    BY <2>1 DEF edge_chain, next
  <2>4. ASSUME NEW m \in 0..(z + 1)
        PROVE  a[m] = IF m = 0 THEN <<>> ELSE next(a[m - 1], m)
    <3>1. CASE m <= z
      <4>1. m \in 0..z /\ a[m] = b[m] /\ (m # 0 => a[m - 1] = b[m - 1])
        BY <2>2, <3>1
      <4> HIDE DEF a
      <4> QED
        BY <2>3, <4>1
    <3>2. CASE m = z + 1
      <4>1. m # 0 /\ m - 1 = z /\ a[m] = next(b[z], z + 1) /\ a[z] = b[z]
        BY <2>2, <3>2
      <4> HIDE DEF a
      <4> QED
        BY <3>2, <4>1
    <3> QED
      BY <2>2, <3>1, <3>2
  <2>5. a = [m \in 0..(z + 1) |-> a[m]]
    OBVIOUS
  <2> HIDE DEF a
  <2>6. a = [m \in 0..(z + 1) |-> IF m = 0 THEN <<>> ELSE next(a[m - 1], m)]
    BY <2>4, <2>5
  <2>7. edge_chain(insts, pred, a, z + 1)
    BY <2>6 DEF edge_chain, next
  <2> QED
    BY <2>2, <2>7
<1>3. T = Nat
  <2>1. T \in SUBSET Nat
    OBVIOUS
  <2> HIDE DEF T
  <2> QED
    BY <1>1, <1>2, <2>1, SetInduction
<1>4. \E a : edge_chain(insts, pred, a, n)
  BY <1>3
<1> DEFINE chain == CHOOSE a : edge_chain(insts, pred, a, n)
<1>5. edge_chain(insts, pred, chain, n)
  BY <1>4
<1>6. phi_moves_for_edge(pred, succ) = chain[n]
  BY DEF phi_moves_for_edge, edge_chain, is_moved, edge_move
<1> QED
  BY <1>5, <1>6

\* s lists the moves of the first m instructions.
lists(s, insts, pred, m) ==
    /\ s \in Seq({edge_move(insts[j], pred) : j \in {k \in 1..m : is_moved(insts[k], pred)}})
    /\ \A j \in 1..m : is_moved(insts[j], pred) =>
          \E x \in DOMAIN s : s[x] = edge_move(insts[j], pred)
    /\ (\A j, k \in 1..m : is_moved(insts[j], pred) /\ is_moved(insts[k], pred)
                           /\ edge_move(insts[j], pred)[1] = edge_move(insts[k], pred)[1]
                             => j = k)
         => \A x, y \in DOMAIN s : s[x][1] = s[y][1] => x = y

\* One more instruction.
LEMMA ListOneMore ==
    ASSUME NEW insts, NEW pred, NEW m \in Nat, NEW s, lists(s, insts, pred, m)
    PROVE  lists(s \o (IF is_moved(insts[m + 1], pred)
                       THEN <<edge_move(insts[m + 1], pred)>> ELSE <<>>),
                 insts, pred, m + 1)
<1> DEFINE e(j) == edge_move(insts[j], pred)
           P(j) == is_moved(insts[j], pred)
           E(k) == {e(j) : j \in {q \in 1..k : P(q)}}
           unique(k) == \A i, j \in 1..k : P(i) /\ P(j) /\ e(i)[1] = e(j)[1] => i = j
           L(t, k) == /\ t \in Seq(E(k))
                      /\ \A j \in 1..k : P(j) => \E x \in DOMAIN t : t[x] = e(j)
                      /\ unique(k) => \A x, y \in DOMAIN t : t[x][1] = t[y][1] => x = y
<1>1. \A t, k : lists(t, insts, pred, k) <=> L(t, k)
  BY DEF lists
<1>2. L(s, m)
  BY <1>1
<1> HIDE DEF e, P
<1>3. /\ \A j \in 1..m : j \in 1..(m + 1) /\ j # m + 1
      /\ \A j \in 1..(m + 1) : j = m + 1 \/ j \in 1..m
      /\ m + 1 \in 1..(m + 1)
  OBVIOUS
<1>4. E(m) \subseteq E(m + 1)
  BY <1>3
<1>5. unique(m + 1) => unique(m)
  BY <1>3
<1>6. CASE ~P(m + 1)
  <2>1. L(s, m + 1)
    <3>1. s \in Seq(E(m + 1))
      <4> HIDE DEF E
      <4> QED
        BY <1>2, <1>4
    <3>2. \A j \in 1..(m + 1) : P(j) => \E x \in DOMAIN s : s[x] = e(j)
      BY <1>2, <1>3, <1>6
    <3> QED
      BY <1>2, <1>5, <3>1, <3>2
  <2>2. s \o <<>> = s
    <3> DEFINE F == E(m)
    <3>1. s \in Seq(F)
      BY <1>2
    <3> HIDE DEF F
    <3> QED
      BY <3>1
  <2>3. lists(s, insts, pred, m + 1)
    BY <1>1, <2>1
  <2> QED
    BY <1>6, <2>2, <2>3 DEF P
<1>7. CASE P(m + 1)
  <2> DEFINE t == s \o <<e(m + 1)>>
             F == E(m + 1)
  <2>1. s \in Seq(F) /\ e(m + 1) \in F
    <3>1. s \in Seq(E(m)) /\ E(m) \subseteq F /\ e(m + 1) \in F
      BY <1>2, <1>3, <1>4, <1>7
    <3> HIDE DEF E, F
    <3> QED
      BY <3>1
  <2> HIDE DEF F
  <2>2. /\ t \in Seq(F) /\ Len(s) \in Nat /\ DOMAIN s = 1..Len(s)
        /\ DOMAIN t = 1..(Len(s) + 1)
        /\ \A x \in 1..Len(s) : t[x] = s[x]
        /\ t[Len(s) + 1] = e(m + 1)
    BY <2>1
  <2> HIDE DEF t
  <2>3. \A j \in 1..(m + 1) : P(j) => \E x \in DOMAIN t : t[x] = e(j)
    <3> SUFFICES ASSUME NEW j \in 1..(m + 1), P(j) PROVE \E x \in DOMAIN t : t[x] = e(j)
      OBVIOUS
    <3>1. CASE j = m + 1
      <4>1. Len(s) + 1 \in DOMAIN t
        BY <2>2
      <4> QED
        BY <2>2, <3>1, <4>1
    <3>2. CASE j # m + 1
      <4>1. j \in 1..m
        BY <1>3, <3>2
      <4>2. PICK x \in DOMAIN s : s[x] = e(j)
        BY <1>2, <4>1
      <4>3. x \in DOMAIN t /\ t[x] = s[x]
        BY <2>2
      <4> QED
        BY <4>2, <4>3
    <3> QED
      BY <3>1, <3>2
  <2>4. ASSUME unique(m + 1), NEW x \in DOMAIN t, NEW y \in DOMAIN t, t[x][1] = t[y][1]
        PROVE  x = y
    <3>1. \A z \in 1..Len(s) : \E j \in 1..m : P(j) /\ s[z] = e(j)
      BY <1>2, <2>2
    <3>2. \A z \in 1..Len(s) : s[z][1] # e(m + 1)[1]
      <4> SUFFICES ASSUME NEW z \in 1..Len(s), s[z][1] = e(m + 1)[1] PROVE FALSE
        OBVIOUS
      <4>1. PICK j \in 1..m : P(j) /\ s[z] = e(j)
        BY <3>1
      <4> QED
        BY <1>3, <1>7, <2>4, <4>1
    <3>3. \A z, w \in 1..Len(s) : s[z][1] = s[w][1] => z = w
      BY <1>2, <1>5, <2>2, <2>4
    <3>4. x \in 1..Len(s) \/ x = Len(s) + 1
      BY <2>2
    <3>5. y \in 1..Len(s) \/ y = Len(s) + 1
      BY <2>2
    <3> QED
      BY <2>2, <2>4, <3>2, <3>3, <3>4, <3>5
  <2>5. L(t, m + 1)
    BY <2>2, <2>3, <2>4 DEF F
  <2>6. lists(t, insts, pred, m + 1)
    BY <1>1, <2>5
  <2> QED
    BY <1>7, <2>6 DEF P, e, t
<1> QED
  BY <1>6, <1>7

\* The moves of an edge are those of the phis of the successor.
LEMMA EdgeMoves ==
    ASSUME NEW pred, NEW succ, Len(try_block(f, succ).insts) \in Nat
    PROVE  lists(phi_moves_for_edge(pred, succ), try_block(f, succ).insts, pred,
                 Len(try_block(f, succ).insts))
<1> DEFINE insts == try_block(f, succ).insts
           n == Len(insts)
           next(s, m) == s \o (IF is_moved(insts[m], pred)
                               THEN <<edge_move(insts[m], pred)>> ELSE <<>>)
<1>1. PICK a : edge_chain(insts, pred, a, n) /\ phi_moves_for_edge(pred, succ) = a[n]
  BY EdgeMovesEquation
<1> HIDE DEF n
<1>2. n \in Nat
  BY DEF n
<1>3. a[0] = <<>> /\ \A m \in 0..n : m + 1 <= n => a[m + 1] = next(a[m], m + 1)
  <2> HIDE DEF next
  <2>1. a = [m \in 0..n |-> IF m = 0 THEN <<>> ELSE next(a[m - 1], m)]
    BY <1>1 DEF edge_chain, next
  <2>2. \A m \in 0..n : a[m] = IF m = 0 THEN <<>> ELSE next(a[m - 1], m)
    BY <2>1
  <2>3. 0 \in 0..n
    BY <1>2
  <2>4. ASSUME NEW m \in 0..n, m + 1 <= n PROVE a[m + 1] = next(a[m], m + 1)
    <3>1. m + 1 \in 0..n /\ m + 1 # 0 /\ (m + 1) - 1 = m
      BY <1>2, <2>4
    <3> QED
      BY <2>2, <3>1
  <2> QED
    BY <2>2, <2>3, <2>4
<1> DEFINE T == {m \in Nat : m <= n => lists(a[m], insts, pred, m)}
<1>4. 0 \in T
  <2>1. lists(<<>>, insts, pred, 0)
    <3>1. 1..0 = {} /\ DOMAIN <<>> = {} /\ \A S : <<>> \in Seq(S)
      OBVIOUS
    <3> QED
      BY <3>1 DEF lists
  <2> QED
    BY <1>3, <2>1
<1>5. ASSUME NEW m \in T PROVE m + 1 \in T
  <2>1. m \in Nat /\ (m <= n => lists(a[m], insts, pred, m))
    OBVIOUS
  <2>2. ASSUME m + 1 <= n PROVE lists(a[m + 1], insts, pred, m + 1)
    <3>1. m \in 0..n
      BY <1>2, <2>1, <2>2
    <3>2. a[m + 1] = next(a[m], m + 1) /\ lists(a[m], insts, pred, m)
      <4>1. m <= n
        BY <1>2, <2>1, <2>2
      <4>2. lists(a[m], insts, pred, m)
        BY <2>1, <4>1
      <4> HIDE DEF next, insts
      <4>3. a[m + 1] = next(a[m], m + 1)
        BY <1>3, <2>2, <3>1
      <4> QED
        BY <4>2, <4>3
    <3> DEFINE s == a[m]
    <3>3. m \in Nat /\ lists(s, insts, pred, m)
      BY <2>1, <3>2
    <3> HIDE DEF s, insts
    <3>4. lists(next(s, m + 1), insts, pred, m + 1)
      BY <3>3, ListOneMore
    <3> QED
      BY <3>2, <3>4 DEF s
  <2> QED
    BY <2>1, <2>2
<1>6. T = Nat
  <2>1. T \in SUBSET Nat
    OBVIOUS
  <2> HIDE DEF T
  <2> QED
    BY <1>4, <1>5, <2>1, SetInduction
<1>7. lists(a[n], insts, pred, n)
  BY <1>2, <1>6
<1> QED
  BY <1>1, <1>7 DEF n

LEMMA AcceptedFunction ==
    ASSUME Accepted
    PROVE  /\ is_function(f) /\ validated(f) /\ has_valid_blocks(f) /\ validate_function(f)
           /\ validate_for_codegen(RegSet) /\ CodegenAssumptions /\ f.args \in Nat
<1>1. validate_function(f) /\ validate_for_codegen(RegSet) /\ f.args \in Nat
  BY AcceptedAssignment DEF Accepted
<1>2. is_function(f)
  BY DEF Accepted, CodegenAssumptions, ProgramsAssumption, CallInv
<1> QED
  BY <1>1, <1>2, ValidatedFunction DEF validated, Accepted

\* The values that are touched in a block have homes.
LEMMA Mapped ==
    ASSUME Accepted, NEW k \in DOMAIN f.blocks
    PROVE  LET b == f.blocks[k]
               n == Len(b.insts)
               l == compute_liveness(f)
           IN  /\ \A i \in 1..n : b.insts[i].dst \in DOMAIN map
               /\ \A e \in 1..(n + 1) : \A v \in used_at(b, e) : v \in DOMAIN map
               /\ \A v \in l.live_in[b.id] : v \in DOMAIN map
               /\ \A v \in l.live_out[b.id] : v \in DOMAIN map
<1> DEFINE b == f.blocks[k]
           n == Len(b.insts)
           l == compute_liveness(f)
<1>1. validated(f) /\ DOMAIN map = DOMAIN compute_live_intervals(f)
  BY AcceptedFunction DEF Accepted, CallInv
<1>2. /\ n \in Nat
      /\ \A i \in 1..n : touches(f, k, b.insts[i].dst, i)
      /\ \A e \in 1..(n + 1) : \A v \in used_at(b, e) : touches(f, k, v, e)
      /\ \A v \in l.live_in[b.id] : touches(f, k, v, 1)
      /\ \A v \in l.live_out[b.id] : touches(f, k, v, n + 1)
  BY <1>1, BlockFacts
<1>3. /\ \A i \in 1..n : i \in 1..(n + 1)
      /\ 1 \in 1..(n + 1) /\ n + 1 \in 1..(n + 1)
  BY <1>2
<1>4. \A e \in 1..(n + 1) : \A v : touches(f, k, v, e) => v \in DOMAIN map
  BY <1>1, TouchedHasInterval
<1> HIDE DEF b, n, l
<1> QED
  BY <1>2, <1>3, <1>4 DEF b, n, l

\* The phis of a block have homes of their own.
LEMMA PhiHomes ==
    ASSUME Accepted, SafePhis, NEW k \in DOMAIN f.blocks,
           NEW i \in 1..Len(f.blocks[k].insts), NEW j \in 1..Len(f.blocks[k].insts),
           is_phi(f.blocks[k].insts[i]), is_phi(f.blocks[k].insts[j]), i # j
    PROVE  home(f.blocks[k].insts[i].dst) # home(f.blocks[k].insts[j].dst)
<1>1. validated(f) /\ phis_are_read(f) /\ Len(f.blocks[k].insts) \in Nat
  BY AcceptedFunction, BlockFacts DEF SafePhis
<1>2. i < j \/ j < i
  BY <1>1
<1>3. f.blocks[k].insts[i].dst \in DOMAIN map /\ f.blocks[k].insts[j].dst \in DOMAIN map
  BY Mapped
<1>4. CASE i < j
  BY <1>1, <1>3, <1>4, PhisMeet, HomesDiffer
<1>5. CASE j < i
  BY <1>1, <1>3, <1>5, PhisMeet, HomesDiffer
<1> QED
  BY <1>2, <1>4, <1>5

\* On an edge the parallel copy gives each phi the value it is to read, and
\* moves nothing that is live in the successor.
LEMMA EdgeCopies ==
    ASSUME Accepted, SafePhis, NEW p, NEW t, flows(f, p, t), NEW c
    PROVE  LET m == phi_moves_for_edge(p, t)
               w == Edge!parallel_copy(c, m)
           IN  /\ m \in Seq(Moves!Homes \X Moves!Homes)
               /\ \A i, j \in DOMAIN m : m[i][1] = m[j][1] => i = j
               /\ Len(m) <= 2 \/ \A i \in DOMAIN m : m[i][2] \notin FrameLocs
               /\ \A v \in compute_liveness(f).live_in[t] : w[home(v)] = c[home(v)]
               /\ \A q \in phis(try_block(f, t)) :
                     w[home(q.dst)] = c[home(incoming_from(q, p))]
               /\ \A i \in 0..(f.args - 1) : w[arg_shadow_addr(i)] = c[arg_shadow_addr(i)]
<1> DEFINE m == phi_moves_for_edge(p, t)
           w == Edge!parallel_copy(c, m)
           b == try_block(f, t)
           n == Len(b.insts)
           phi(j) == b.insts[j]
           l == compute_liveness(f)
<1>1. /\ is_function(f) /\ validated(f) /\ has_valid_blocks(f)
      /\ validate_for_codegen(RegSet) /\ CodegenAssumptions
  BY AcceptedFunction
<1>2. PICK x \in DOMAIN f.blocks : f.blocks[x].id = p /\ t \in successors(f.blocks[x].term)
  BY DEF flows
<1>3. p \in block_ids(f) /\ t \in block_ids(f)
  BY <1>1, <1>2, ValidBlocks
<1>4. PICK k \in DOMAIN f.blocks : f.blocks[k].id = t
  BY <1>3 DEF block_ids
<1>5. b = f.blocks[k] /\ n \in Nat /\ DOMAIN b.insts = 1..n
  BY <1>1, <1>4, ValidBlocks
<1>6. ASSUME NEW j \in 1..n, is_phi(phi(j))
      PROVE  /\ has_incoming(phi(j), p)
             /\ incoming_from(phi(j), p) \in DOMAIN map
             /\ phi(j).dst \in DOMAIN map
  <2>1. j \in DOMAIN f.blocks[k].insts
    BY <1>5
  <2>2. has_incoming(phi(j), p) /\ incoming_from(phi(j), p) \in phi_uses(f, p, t)
    BY <1>1, <1>4, <1>5, <1>6, <2>1, PhiInput
  <2>3. incoming_from(phi(j), p) \in l.live_out[p]
    BY <1>1, <1>2, <2>2, NeededIsLiveOut
  <2>4. incoming_from(phi(j), p) \in DOMAIN map
    BY <1>2, <2>3, Mapped
  <2>5. phi(j).dst \in DOMAIN map
    BY <1>5, Mapped
  <2> QED
    BY <2>2, <2>4, <2>5
<1>7. \A i, j \in 1..n : is_phi(phi(i)) /\ is_phi(phi(j))
                           /\ home(phi(i).dst) = home(phi(j).dst) => i = j
  BY <1>5, PhiHomes
<1>8. \A j \in 1..n : edge_move(phi(j), p) = <<home(phi(j).dst), home(incoming_from(phi(j), p))>>
  BY DEF edge_move
<1>9. \A j \in 1..n : is_moved(phi(j), p) <=>
          is_phi(phi(j)) /\ home(phi(j).dst) # home(incoming_from(phi(j), p))
  BY <1>6 DEF is_moved
<1>10. /\ m \in Seq({edge_move(phi(j), p) : j \in {q \in 1..n : is_moved(phi(q), p)}})
       /\ \A j \in 1..n : is_moved(phi(j), p) => \E i \in DOMAIN m : m[i] = edge_move(phi(j), p)
       /\ \A i, j \in DOMAIN m : m[i][1] = m[j][1] => i = j
  <2>1. lists(m, b.insts, p, n)
    BY <1>5, EdgeMoves
  <2>2. \A i, j \in 1..n : is_moved(phi(i), p) /\ is_moved(phi(j), p)
                             /\ edge_move(phi(i), p)[1] = edge_move(phi(j), p)[1] => i = j
    BY <1>7, <1>8, <1>9
  <2> HIDE DEF m, b, n
  <2> QED
    BY <2>1, <2>2 DEF lists
<1> HIDE DEF m, b, n, phi, l
<1>11. \A i \in DOMAIN m : \E j \in 1..n : is_moved(phi(j), p) /\ m[i] = edge_move(phi(j), p)
  <2> DEFINE E == {edge_move(phi(j), p) : j \in {q \in 1..n : is_moved(phi(q), p)}}
  <2>1. \A e \in E : \E j \in 1..n : is_moved(phi(j), p) /\ e = edge_move(phi(j), p)
    OBVIOUS
  <2>2. m \in Seq(E)
    BY <1>10
  <2> HIDE DEF E
  <2> QED
    BY <2>1, <2>2
<1>12. m \in Seq(Moves!Homes \X Moves!Homes)
  <2> DEFINE E == {edge_move(phi(j), p) : j \in {q \in 1..n : is_moved(phi(q), p)}}
  <2>1. Moves!Homes = Memory \ {scratch0, scratch1}
    BY <1>1, MovesLocations
  <2>2. ASSUME NEW j \in 1..n, is_moved(phi(j), p)
        PROVE  edge_move(phi(j), p) \in Moves!Homes \X Moves!Homes
    <3>1. phi(j).dst \in DOMAIN map /\ incoming_from(phi(j), p) \in DOMAIN map
      BY <1>6, <1>9, <2>2
    <3>2. home(phi(j).dst) \in Moves!Homes /\ home(incoming_from(phi(j), p)) \in Moves!Homes
      BY <2>1, <3>1, HomeOf
    <3> QED
      BY <1>8, <3>2
  <2>3. E \subseteq Moves!Homes \X Moves!Homes
    BY <2>2
  <2>4. m \in Seq(E)
    BY <1>10
  <2> DEFINE HH == Moves!Homes \X Moves!Homes
  <2> HIDE DEF E, HH
  <2>5. m \in Seq(HH)
    BY <2>3, <2>4 DEF HH
  <2> QED
    BY <2>5 DEF HH
<1>13. Len(m) <= 2 \/ \A i \in DOMAIN m : m[i][2] \notin FrameLocs
  BY <1>3 DEF SafePhis, edges_are_safe, m
<1>14. /\ \A y \in Memory : (\A i \in DOMAIN m : m[i][1] # y) => w[y] = c[y]
       /\ \A i \in DOMAIN m : m[i][1] \in Memory => w[m[i][1]] = c[m[i][2]]
  BY <1>1, <1>10, ParallelCopy
<1> HIDE DEF w
<1>15. ASSUME NEW v \in l.live_in[t] PROVE w[home(v)] = c[home(v)]
  <2>1. v \in DOMAIN map /\ home(v) \in Memory
    BY <1>4, <1>15, Mapped, HomeOf DEF l
  <2>2. ASSUME NEW j \in 1..n, is_phi(phi(j)) PROVE home(phi(j).dst) # home(v)
    <3>1. /\ v # phi(j).dst
          /\ overlaps(interval(f, v), interval(f, phi(j).dst))
      BY <1>1, <1>4, <1>5, <1>15, <2>2, LiveInMeetsPhis DEF phi, n, b, l
    <3> QED
      BY <1>6, <2>1, <2>2, <3>1, HomesDiffer
  <2>3. \A i \in DOMAIN m : m[i][1] # home(v)
    BY <1>8, <1>9, <1>11, <2>2
  <2> QED
    BY <1>14, <2>1, <2>3
<1>16. ASSUME NEW q \in phis(b) PROVE w[home(q.dst)] = c[home(incoming_from(q, p))]
  <2>1. PICK j \in 1..n : q = phi(j) /\ is_phi(phi(j))
    BY <1>5, <1>16 DEF phis, phi
  <2>2. q.dst \in DOMAIN map /\ home(q.dst) \in Memory
    BY <1>6, <2>1, HomeOf
  <2>3. CASE is_moved(q, p)
    <3>1. PICK i \in DOMAIN m : m[i] = edge_move(q, p)
      BY <1>10, <2>1, <2>3
    <3>2. m[i][1] = home(q.dst) /\ m[i][2] = home(incoming_from(q, p))
      BY <3>1 DEF edge_move
    <3> QED
      BY <1>14, <2>2, <3>2
  <2>4. CASE ~is_moved(q, p)
    <3>1. home(q.dst) = home(incoming_from(q, p))
      BY <1>9, <2>1, <2>4
    <3>2. \A i \in DOMAIN m : m[i][1] # home(q.dst)
      <4> SUFFICES ASSUME NEW i \in DOMAIN m, m[i][1] = home(q.dst) PROVE FALSE
        OBVIOUS
      <4>1. PICK z \in 1..n : is_moved(phi(z), p) /\ m[i] = edge_move(phi(z), p)
        BY <1>11
      <4>2. home(phi(z).dst) = home(phi(j).dst) /\ is_phi(phi(z))
        BY <1>8, <1>9, <2>1, <4>1
      <4>3. z = j
        BY <1>7, <2>1, <4>2
      <4> QED
        BY <2>1, <2>4, <4>1, <4>3
    <3> QED
      BY <1>14, <2>2, <3>1, <3>2
  <2> QED
    BY <2>3, <2>4
<1>17. ASSUME NEW i \in 0..(f.args - 1)
       PROVE  w[arg_shadow_addr(i)] = c[arg_shadow_addr(i)]
  <2>1. arg_shadow_addr(i) \in Memory
    BY ShadowInMemory
  <2>2. \A j \in 1..n : is_phi(phi(j)) => home(phi(j).dst) # arg_shadow_addr(i)
    BY <1>6, HomeOf
  <2>3. \A j \in DOMAIN m : m[j][1] # arg_shadow_addr(i)
    BY <1>8, <1>9, <1>11, <2>2
  <2> QED
    BY <1>14, <2>1, <2>3
<1> QED
  BY <1>10, <1>12, <1>13, <1>15, <1>16, <1>17 DEF m, w, l, b

-----------------------------------------------------------------------------
(* What the interpreter has computed is what the rest of the block reads.  *)

\* A value that is live on entry to a block has been computed.
LEMMA LiveInIsComputed ==
    ASSUME ProgramsAssumption, RunInv, validate_function(f),
           NEW v \in compute_liveness(f).live_in[current]
    PROVE  /\ current # f.entry
           /\ v \in DOMAIN regs
<1>1. /\ f \in Programs /\ OnAnEdge /\ Computed /\ current \in block_ids(f)
  BY DEF RunInv, OnAnEdge
<1>2. validated(f) /\ has_valid_blocks(f)
  BY <1>1, HereIsABlock
<1>3. PICK d \in definitions(f, v) : /\ f.blocks[d[1]].id \in compute_dominators(f)[current]
                                     /\ f.blocks[d[1]].id # current
  BY <1>1, <1>2, LiveIsDominated
<1> DEFINE b == f.blocks[d[1]].id
<1>4. /\ d[1] \in DOMAIN f.blocks /\ d[2] \in DOMAIN f.blocks[d[1]].insts
      /\ f.blocks[d[1]].insts[d[2]].dst = v /\ try_block(f, b) = f.blocks[d[1]]
  BY <1>2, DefinitionFields, ValidBlocks
<1>5. v \in def_set(try_block(f, b))
  BY <1>4 DEF def_set
<1>6. current # f.entry
  <2>1. compute_dominators(f)[f.entry] = {f.entry}
    BY <1>2, DominatorsAreFixed DEF dom_maps
  <2> QED
    BY <1>3, <2>1
<1>7. predecessor # Interpreter!NoBlock /\ flows(f, predecessor, current)
  BY <1>1, <1>6 DEF OnAnEdge
<1>8. b \in compute_dominators(f)[predecessor]
  BY <1>2, <1>3, <1>7, DominatesPredecessors
<1> HIDE DEF b
<1>9. def_set(try_block(f, b)) \subseteq DOMAIN regs
  <2>1. index = 0 \/ index > 0
    <3>1. Len(here.insts) \in Nat /\ index \in 0..(Len(here.insts) + 1)
      BY <1>1, HereIsABlock DEF RunInv
    <3> QED
      BY <3>1
  <2>2. CASE index = 0
    BY <1>1, <1>7, <1>8, <2>2 DEF Computed
  <2>3. CASE index > 0
    <3>1. b \in compute_dominators(f)[current] \ {current}
      BY <1>3 DEF b
    <3> QED
      BY <1>1, <2>3, <3>1 DEF Computed
  <2> QED
    BY <2>1, <2>2, <2>3
<1> QED
  BY <1>5, <1>6, <1>9

\* A value that is still read has been computed, and has a home.
LEMMA StillReadIsComputed ==
    ASSUME Accepted, RunInv, index > 0, NEW k \in DOMAIN f.blocks, f.blocks[k].id = current,
           NEW v, still_read(f, k, v, index)
    PROVE  v \in DOMAIN regs /\ v \in DOMAIN map
<1>1. /\ validated(f) /\ has_valid_blocks(f) /\ validate_function(f) /\ ProgramsAssumption
  BY AcceptedFunction DEF CodegenAssumptions
<1>2. here = f.blocks[k]
  BY <1>1, ValidBlocks DEF here
<1>3. /\ Computed /\ index \in 0..(Len(here.insts) + 1)
      /\ Len(here.insts) \in Nat /\ DOMAIN here.insts = 1..Len(here.insts)
  BY <1>1, <1>2, BlockFacts DEF RunInv
<1>4. index \in 1..(Len(f.blocks[k].insts) + 1)
  BY <1>2, <1>3
<1>5. /\ \E e \in index..(Len(f.blocks[k].insts) + 1) : touches(f, k, v, e)
      /\ \/ \E j \in 1..Len(f.blocks[k].insts) :
               /\ f.blocks[k].insts[j].dst = v
               /\ j < index \/ is_phi(f.blocks[k].insts[j])
         \/ v \in compute_liveness(f).live_in[f.blocks[k].id]
  BY <1>1, <1>4, StillReadIsTouched
<1>6. v \in DOMAIN map
  <2>1. PICK e \in index..(Len(f.blocks[k].insts) + 1) : touches(f, k, v, e)
    BY <1>5
  <2>2. e \in 1..(Len(f.blocks[k].insts) + 1)
    BY <1>2, <1>3, <1>4
  <2>3. v \in DOMAIN compute_live_intervals(f)
    BY <1>1, <2>1, <2>2, TouchedHasInterval
  <2> QED
    BY <2>3 DEF Accepted, CallInv
<1>7. v \in DOMAIN regs
  <2>1. CASE v \in compute_liveness(f).live_in[current]
    BY <1>1, <2>1, LiveInIsComputed
  <2>2. CASE \E j \in 1..Len(f.blocks[k].insts) :
               /\ f.blocks[k].insts[j].dst = v
               /\ j < index \/ is_phi(f.blocks[k].insts[j])
    BY <1>2, <1>3, <2>2 DEF Computed
  <2> QED
    BY <1>5, <2>1, <2>2
<1> QED
  BY <1>6, <1>7

\* What the phis leave: the values from before the block.
LEMMA PhiValues ==
    ASSUME Accepted, NEW k \in DOMAIN f.blocks, f.blocks[k].id = current
    PROVE  /\ \A v \in DOMAIN regs :
                 (\A j \in 1..Len(f.blocks[k].insts) :
                     is_phi(f.blocks[k].insts[j]) => f.blocks[k].insts[j].dst # v)
                   => Interpreter!phi_results[v] = regs[v]
           /\ \A j \in 1..Len(f.blocks[k].insts) :
                 is_phi(f.blocks[k].insts[j]) =>
                    Interpreter!phi_results[f.blocks[k].insts[j].dst]
                      = regs[incoming_from(f.blocks[k].insts[j], predecessor)]
<1>1. validated(f) /\ has_valid_blocks(f)
  BY AcceptedFunction
<1>2. Interpreter!block = f.blocks[k]
  BY <1>1, InterpreterReads, ValidBlocks DEF here
<1> DEFINE b == f.blocks[k]
           n == Len(b.insts)
           writers(v) == {j \in 1..n : is_phi(b.insts[j]) /\ b.insts[j].dst = v}
           R == Interpreter!phi_results
<1>3. /\ n \in Nat /\ DOMAIN b.insts = 1..n
      /\ \A i, j \in 1..n : b.insts[i].dst = b.insts[j].dst => i = j
  BY <1>1, BlockFacts
<1>4. \A v \in DOMAIN regs \cup {p.dst : p \in phis(b)} :
        R[v] = IF writers(v) # {}
               THEN regs[incoming_from(b.insts[Interpreter!Max(writers(v))], predecessor)]
               ELSE regs[v]
  BY <1>2, <1>3, SameReading DEF Interpreter!phi_results
<1> HIDE DEF R, n
<1>5. ASSUME NEW v \in DOMAIN regs, \A j \in 1..n : is_phi(b.insts[j]) => b.insts[j].dst # v
      PROVE  R[v] = regs[v]
  <2>1. writers(v) = {}
    BY <1>5
  <2> HIDE DEF writers
  <2> QED
    BY <1>4, <2>1
<1>6. ASSUME NEW j \in 1..n, is_phi(b.insts[j])
      PROVE  R[b.insts[j].dst] = regs[incoming_from(b.insts[j], predecessor)]
  <2>1. writers(b.insts[j].dst) = {j}
    BY <1>3, <1>6
  <2>2. b.insts[j].dst \in {p.dst : p \in phis(b)}
    BY <1>3, <1>6 DEF phis
  <2>3. Interpreter!Max({j}) = j
    BY <1>3 DEF Interpreter!Max
  <2> HIDE DEF writers, b
  <2> QED
    BY <1>4, <2>1, <2>2, <2>3
<1> QED
  BY <1>5, <1>6 DEF R, n

\* What does not change while the function runs.
LEMMA NothingMoves ==
    ASSUME f' = f, map' = map
    PROVE  /\ \A v : home(v)' = home(v)
           /\ \A i : arg_shadow_addr(i)' = arg_shadow_addr(i)
           /\ (validate_function(f))' <=> validate_function(f)
           /\ SafePhis' <=> SafePhis
<1>1. \A v : home(v)' = home(v)
  BY DEF home, stack_addr_with_base
<1>2. \A i : arg_shadow_addr(i)' = arg_shadow_addr(i)
  BY DEF arg_shadow_addr
<1>3. \A p, t : phi_moves_for_edge(p, t)' = phi_moves_for_edge(p, t)
  BY DEF phi_moves_for_edge, home, stack_addr_with_base
<1>4. edges_are_safe' <=> edges_are_safe
  BY <1>3 DEF edges_are_safe
<1> QED
  BY <1>1, <1>2, <1>4 DEF SafePhis

-----------------------------------------------------------------------------
(* Machine and interpreter in step: every step keeps the invariant.        *)

\* The prologue saves the arguments.
LEMMA EmitInStep ==
    ASSUME Accepted, NotStarted, Emit
    PROVE  InStep'
<1>1. /\ cell' = [l \in Memory |-> IF l \in {arg_shadow_addr(i) : i \in 0..(f.args - 1)}
                                   THEN args[l.slot + 1] ELSE Garbage]
      /\ UNCHANGED <<f, args, current, predecessor, index, outcome, moves, m_current>>
  BY DEF Emit, interp_vars, Accepted, Memory
<1>2. contents(cell)'
  BY <1>1 DEF contents
<1>3. saved(cell)'
  <2>1. ASSUME NEW i \in 0..(f.args - 1) PROVE cell'[arg_shadow_addr(i)] = args[i + 1]
    <3>1. arg_shadow_addr(i) \in Memory
      BY ShadowInMemory
    <3>2. arg_shadow_addr(i).slot = i
      BY LocationFields DEF arg_shadow_addr
    <3> QED
      BY <1>1, <3>1, <3>2
  <2> QED
    BY <1>1, <2>1 DEF saved, arg_shadow_addr
<1> QED
  BY <1>1, <1>2, <1>3 DEF InStep, NotStarted

\* What is in a home or in a saved argument is safe from the scratch registers.
LEMMA NotScratch ==
    ASSUME Accepted
    PROVE  /\ scratch0 \in RegLocs /\ scratch1 \in RegLocs /\ rax \in RegLocs
           /\ RegLocs \cap FrameLocs = {}
           /\ \A v \in DOMAIN map : home(v) \in Memory \ {scratch0, scratch1}
           /\ \A i \in 0..(f.args - 1) : arg_shadow_addr(i) \in Memory \ {scratch0, scratch1}
<1>1. /\ scratch0 \in RegLocs /\ scratch1 \in RegLocs /\ rax \in RegLocs
      /\ \A l \in RegLocs : l.kind = "reg"
  BY AcceptedFunction, RegisterFacts
<1>2. RegLocs \cap FrameLocs = {}
  BY <1>1, LocationFields DEF FrameLocs
<1>3. \A i \in 0..(f.args - 1) : arg_shadow_addr(i) \in Memory \ {scratch0, scratch1}
  BY <1>1, <1>2, ShadowInMemory
<1> QED
  BY <1>1, <1>2, <1>3, HomeOf

\* Entering a block the phis read what the edge has put into their homes.
LEMMA EnterBlockInStep ==
    ASSUME Accepted, SafePhis, RunInv, InStep, EnterBlock
    PROVE  InStep'
<1>1. /\ f' = f /\ map' = map /\ args' = args /\ current' = current /\ cell' = cell
      /\ moves' = moves /\ m_current' = m_current /\ moves = <<>> /\ m_current = current
      /\ outcome = "running" /\ index = 0
  BY DEF EnterBlock, Interpreter!EnterBlock, together
<1>2. /\ validated(f) /\ is_function(f) /\ validate_for_codegen(RegSet)
      /\ validate_function(f) /\ CodegenAssumptions /\ ProgramsAssumption /\ f \in Programs
  BY AcceptedFunction DEF CodegenAssumptions, RunInv
<1>3. regs' = Interpreter!phi_results /\ index' = 1 /\ outcome' = outcome
  <2>1. Interpreter!phi_errors = {}
    BY <1>1, <1>2, PhisAreComputed, PhiResults
  <2>2. Interpreter!known_block
    BY <1>2, InterpreterReads DEF RunInv, OnAnEdge
  <2> QED
    BY <2>1, <2>2 DEF EnterBlock, Interpreter!EnterBlock
<1>4. /\ contents(cell)
      /\ predecessor = Interpreter!NoBlock => saved(cell)
      /\ predecessor # Interpreter!NoBlock => BetweenBlocks
  BY <1>1 DEF InStep
<1>5. OnAnEdge /\ current \in block_ids(f)
  BY <1>2 DEF RunInv, OnAnEdge
<1>6. predecessor # Interpreter!NoBlock =>
        \A l \in Memory \ {scratch0, scratch1} : cell[l] = want[l]
  BY <1>1, <1>2, <1>4, MovesDone DEF BetweenBlocks
<1>7. saved(cell)
  <2>1. CASE predecessor # Interpreter!NoBlock
    BY <1>4, <1>6, <2>1, NotScratch DEF BetweenBlocks, saved
  <2> QED
    BY <1>4, <2>1
<1>8. ASSUME NEW k \in DOMAIN f.blocks, f.blocks[k].id = current,
             NEW v \in DOMAIN map, still_read(f, k, v, 1)
      PROVE  cell[home(v)] = regs'[v]
  <2> DEFINE b == f.blocks[k]
             n == Len(b.insts)
  <2>1. here = b /\ n \in Nat /\ DOMAIN b.insts = 1..n
    BY <1>2, <1>8, BlockFacts, ValidBlocks DEF here, validated
  <2>2. \/ v \in compute_liveness(f).live_in[current]
        \/ \E j \in 1..n : is_phi(b.insts[j]) /\ b.insts[j].dst = v
    BY <1>2, <1>8, ReadOnEntry
  <2>3. home(v) \in Memory \ {scratch0, scratch1}
    BY NotScratch
  <2>4. CASE v \in compute_liveness(f).live_in[current]
    <3>1. current # f.entry /\ v \in DOMAIN regs
      BY <1>2, <2>4, LiveInIsComputed
    <3>2. predecessor # Interpreter!NoBlock
      BY <1>5, <3>1 DEF OnAnEdge
    <3>3. \A j \in 1..n : is_phi(b.insts[j]) => b.insts[j].dst # v
      BY <1>2, <1>8, <2>4, LiveInMeetsPhis
    <3>4. regs'[v] = regs[v]
      BY <1>3, <1>8, <3>1, <3>3, PhiValues
    <3>5. want[home(v)] = regs[v]
      BY <1>4, <2>4, <3>2 DEF BetweenBlocks
    <3> QED
      BY <1>6, <2>3, <3>2, <3>4, <3>5
  <2>5. CASE \E j \in 1..n : is_phi(b.insts[j]) /\ b.insts[j].dst = v
    <3>1. PICK j \in 1..n : is_phi(b.insts[j]) /\ b.insts[j].dst = v
      BY <2>5
    <3>2. b.insts[j] \in phis(here)
      BY <2>1, <3>1 DEF phis
    <3>3. predecessor # Interpreter!NoBlock
      BY <1>1, <1>2, <3>2, PhisAreComputed
    <3>4. regs'[v] = regs[incoming_from(b.insts[j], predecessor)]
      BY <1>3, <1>8, <3>1, PhiValues
    <3>5. want[home(v)] = regs[incoming_from(b.insts[j], predecessor)]
      BY <1>4, <3>1, <3>2, <3>3 DEF BetweenBlocks
    <3> QED
      BY <1>6, <2>3, <3>3, <3>4, <3>5
  <2> QED
    BY <2>2, <2>4, <2>5
<1>9. \A v : home(v)' = home(v)
  BY <1>1, NothingMoves
<1>10. saved(cell)'
  BY <1>1, <1>7 DEF saved, arg_shadow_addr
<1>11. InBlock'
  BY <1>1, <1>3, <1>8, <1>9, <1>10 DEF InBlock
<1>12. contents(cell)'
  BY <1>1, <1>4 DEF contents
<1> QED
  BY <1>1, <1>3, <1>11, <1>12 DEF InStep

\* The interpreter gives up.
LEMMA StopAtLimitInStep ==
    ASSUME InStep, StopAtLimit
    PROVE  InStep'
<1>1. /\ outcome' = "step limit exceeded"
      /\ moves = <<>> /\ UNCHANGED <<current, cell, moves, m_current>>
  BY DEF StopAtLimit, Interpreter!StopAtLimit
<1>2. contents(cell)'
  BY <1>1 DEF InStep, contents
<1> QED
  BY <1>1, <1>2 DEF InStep

\* A phi is not executed in its place, and reads nothing there.
LEMMA ReadAcrossPhi ==
    ASSUME NEW g, validated(g), NEW k \in DOMAIN g.blocks,
           NEW i \in 1..Len(g.blocks[k].insts), is_phi(g.blocks[k].insts[i]),
           NEW v, still_read(g, k, v, i + 1)
    PROVE  still_read(g, k, v, i)
<1> DEFINE b == g.blocks[k]
           n == Len(b.insts)
           unset(x, e) == \A j \in x..(e - 1) : is_phi(b.insts[j]) \/ b.insts[j].dst # v
<1>1. n \in Nat
  BY BlockFacts
<1>2. \A e \in (i + 1)..(n + 1) : unset(i + 1, e) => e \in i..(n + 1) /\ unset(i, e)
  <2> SUFFICES ASSUME NEW e \in (i + 1)..(n + 1), unset(i + 1, e), NEW j \in i..(e - 1)
               PROVE  e \in i..(n + 1) /\ (is_phi(b.insts[j]) \/ b.insts[j].dst # v)
    BY <1>1
  <2>1. j = i \/ j \in (i + 1)..(e - 1)
    BY <1>1
  <2> QED
    BY <1>1, <2>1
<1>3. n + 1 \in (i + 1)..(n + 1)
  BY <1>1
<1> QED
  BY <1>2, <1>3 DEF still_read

\* The machine computes what the interpreter computes from equal operands.
LEMMA SameResult ==
    ASSUME NEW i, i.op \in {"const", "arg", "add", "mul", "cmpgt", "mov"},
           \A u \in uses(i) : cell[home(u)] = regs[u],
           i.op = "arg" => cell[arg_shadow_addr(i.idx)] = args[i.idx + 1]
    PROVE  machine_value(cell, i) = Interpreter!result_of(i)
<1>1. \A x : Interpreter!wrap(x) = wrap(x)
  BY DEF Interpreter!wrap, wrap
<1>2. CASE i.op = "const"
  BY <1>2 DEF machine_value, Interpreter!result_of
<1>3. CASE i.op = "arg"
  BY <1>3 DEF machine_value, Interpreter!result_of
<1>4. CASE i.op \in {"add", "mul", "cmpgt"}
  <2>1. cell[home(i.a)] = regs[i.a] /\ cell[home(i.b)] = regs[i.b]
    BY <1>4 DEF uses
  <2> QED
    BY <1>1, <1>4, <2>1 DEF machine_value, Interpreter!result_of
<1>5. CASE i.op = "mov"
  <2>1. cell[home(i.src)] = regs[i.src]
    BY <1>5 DEF uses
  <2> QED
    BY <1>5, <2>1 DEF machine_value, Interpreter!result_of
<1> QED
  BY <1>2, <1>3, <1>4, <1>5

\* An instruction overwrites nothing that is still read, and reads its operands
\* before anything overwrites them.
LEMMA ExecuteInStep ==
    ASSUME Accepted, RunInv, InStep, Execute
    PROVE  InStep'
<1>1. /\ f' = f /\ map' = map /\ args' = args /\ current' = current
      /\ moves' = moves /\ m_current' = m_current /\ m_current = current
      /\ outcome = "running" /\ predecessor' = predecessor
      /\ index > 0 /\ index \in DOMAIN here.insts
      /\ cell' = execute_inst(cell, here.insts[index])
  BY InterpreterReads DEF Execute, Interpreter!Execute, together
<1>2. /\ validated(f) /\ is_function(f) /\ has_valid_blocks(f)
      /\ validate_function(f) /\ CodegenAssumptions /\ ProgramsAssumption /\ f \in Programs
      /\ f.args \in Nat
  BY AcceptedFunction DEF CodegenAssumptions, RunInv
<1>3. /\ contents(cell) /\ InBlock /\ moves = <<>>
  BY <1>1 DEF InStep, InBlock
<1>4. OnAnEdge /\ current \in block_ids(f)
  BY <1>2 DEF RunInv, OnAnEdge
<1>5. PICK k \in DOMAIN f.blocks : f.blocks[k].id = current /\ here = f.blocks[k]
  BY <1>2, <1>4, HereIsABlock
<1> DEFINE b == f.blocks[k]
           n == Len(b.insts)
           i == b.insts[index]
<1>6. /\ n \in Nat /\ DOMAIN b.insts = 1..n /\ index \in 1..n /\ is_inst(i)
      /\ \A q \in DOMAIN f.blocks : f.blocks[q].id = current => q = k
  BY <1>1, <1>2, <1>5, BlockFacts, ValidBlocks DEF is_function, is_block
<1>7. \A v \in DOMAIN map : still_read(f, k, v, index) => cell[home(v)] = regs[v]
  BY <1>3, <1>5 DEF InBlock
<1>8. \A v : still_read(f, k, v, index) => v \in DOMAIN regs /\ v \in DOMAIN map
  BY <1>1, <1>5, StillReadIsComputed
<1>9. \A v : home(v)' = home(v)
  BY <1>1, NothingMoves
<1>10. index' = index + 1 /\ outcome' = outcome
  <2>1. RunInv'
    BY <1>2, InterpreterKeeps DEF Execute, Interpreter!Next
  <2>2. outcome' \in {"running", "returned", "step limit exceeded"}
    <3>1. validate_function(f)'
      BY <1>1, <1>2, NothingMoves
    <3> QED
      BY <2>1, <3>1 DEF RunInv
  <2>3. CASE Interpreter!ExecutePhi
    BY <2>3 DEF Interpreter!ExecutePhi
  <2>4. CASE Interpreter!ExecuteInst
    <3>1. \/ index' = index + 1 /\ outcome' = outcome
          \/ outcome' \in Interpreter!instruction_errors
      BY <2>4 DEF Interpreter!ExecuteInst
    <3> QED
      BY <2>2, <3>1 DEF Interpreter!instruction_errors
  <2> QED
    BY <2>3, <2>4 DEF Execute, Interpreter!Execute
<1> SUFFICES /\ contents(cell') /\ saved(cell')
             /\ \A v \in DOMAIN map : still_read(f, k, v, index + 1) => cell'[home(v)] = regs'[v]
  <2>1. contents(cell)' /\ saved(cell)'
    BY <1>1 DEF contents, saved, arg_shadow_addr
  <2>2. InBlock'
    BY <1>1, <1>3, <1>6, <1>9, <1>10, <2>1 DEF InBlock
  <2>3. index' > 0 /\ index' # 0
    BY <1>6, <1>10
  <2> QED
    BY <1>1, <1>10, <2>1, <2>2, <2>3 DEF InStep
<1>11. CASE is_phi(i)
  <2>1. cell' = cell
    BY <1>1, <1>5, <1>11 DEF execute_inst, is_phi
  <2>2. regs' = regs
    <3>1. ~Interpreter!ExecuteInst
      BY <1>5, <1>11, SameReading, InterpreterReads DEF Interpreter!ExecuteInst
    <3> QED
      BY <3>1 DEF Execute, Interpreter!Execute, Interpreter!ExecutePhi
  <2>3. \A v : still_read(f, k, v, index + 1) => still_read(f, k, v, index)
    BY <1>2, <1>6, <1>11, ReadAcrossPhi
  <2> QED
    BY <1>3, <1>7, <2>1, <2>2, <2>3 DEF InBlock
<1>12. CASE ~is_phi(i)
  <2>1. i.op \in {"const", "arg", "add", "mul", "cmpgt", "mov"}
    BY <1>6, <1>12 DEF is_inst, is_phi
  <2>2. i.dst \in DOMAIN map
    BY <1>6, Mapped
  <2>3. ASSUME NEW u \in uses(i)
        PROVE  /\ u \in DOMAIN map /\ cell[home(u)] = regs[u]
               /\ home(u) # home(i.dst)
    <3>1. u \in used_at(b, index) /\ index \in 1..(n + 1)
      BY <1>6, <1>12, <2>3 DEF used_at
    <3>2. /\ overlaps(interval(f, u), interval(f, i.dst))
          /\ u # i.dst
          /\ still_read(f, k, u, index)
      BY <1>2, <1>6, <3>1, OperandMeets
    <3>3. u \in DOMAIN map
      BY <1>8, <3>2
    <3> QED
      BY <1>7, <2>2, <3>2, <3>3, HomesDiffer
  <2>4. ASSUME i.op = "arg" PROVE cell[arg_shadow_addr(i.idx)] = args[i.idx + 1]
    <3>1. i.idx < f.args
      BY <1>2, <1>6, <2>4, Validated DEF definitions_are_valid
    <3>2. i.idx \in Nat
      BY <1>6, <2>4 DEF is_inst
    <3>3. i.idx \in 0..(f.args - 1)
      BY <1>2, <3>1, <3>2
    <3> QED
      BY <1>3, <3>3 DEF InBlock, saved
  <2>5. /\ contents(cell') /\ cell'[home(i.dst)] = Interpreter!result_of(i)
        /\ \A l \in Memory : l \notin {home(i.dst), scratch0, scratch1} => cell'[l] = cell[l]
    <3>1. machine_value(cell, i) = Interpreter!result_of(i)
      BY <2>1, <2>3, <2>4, SameResult
    <3>2. puts(cell, i.dst, machine_value(cell, i), execute_inst(cell, i))
      <4>1. uses(i) \subseteq DOMAIN map /\ \A u \in uses(i) : home(u) # home(i.dst)
        BY <2>3
      <4> HIDE DEF i
      <4> QED
        BY <1>3, <2>1, <2>2, <4>1, InstructionPuts
    <3>3. cell' = execute_inst(cell, i)
      BY <1>1, <1>5
    <3> QED
      BY <3>1, <3>2, <3>3 DEF puts
  <2>6. regs' = [w \in DOMAIN regs \cup {i.dst} |->
                    IF w = i.dst THEN Interpreter!result_of(i) ELSE regs[w]]
    <3>1. ~Interpreter!ExecutePhi
      BY <1>5, <1>12, SameReading, InterpreterReads DEF Interpreter!ExecutePhi
    <3>2. Interpreter!ExecuteInst
      BY <3>1 DEF Execute, Interpreter!Execute
    <3>3. index' # index
      BY <1>6, <1>10
    <3>4. regs' = Interpreter!put(regs, Interpreter!inst.dst, Interpreter!result_of(Interpreter!inst))
      BY <3>2, <3>3 DEF Interpreter!ExecuteInst
    <3>5. Interpreter!inst = i
      BY <1>5, InterpreterReads
    <3> QED
      BY <3>4, <3>5 DEF Interpreter!put
  <2>7. saved(cell')
    <3>1. \A j \in 0..(f.args - 1) : /\ arg_shadow_addr(j) \in Memory \ {scratch0, scratch1}
                                     /\ home(i.dst) # arg_shadow_addr(j)
      BY <2>2, NotScratch, HomeOf
    <3> HIDE DEF i
    <3> QED
      BY <1>3, <2>5, <3>1 DEF InBlock, saved
  <2>8. ASSUME NEW v \in DOMAIN map, still_read(f, k, v, index + 1)
        PROVE  cell'[home(v)] = regs'[v]
    <3>1. CASE v = i.dst
      BY <2>5, <2>6, <3>1
    <3>2. CASE v # i.dst
      <4>1. /\ overlaps(interval(f, v), interval(f, i.dst))
            /\ still_read(f, k, v, index)
        BY <1>2, <1>6, <1>12, <2>8, <3>2, ReadAcrossMeets
      <4>2. home(v) # home(i.dst) /\ home(v) \in Memory \ {scratch0, scratch1}
        BY <2>2, <3>2, <4>1, HomesDiffer, NotScratch
      <4>3. v \in DOMAIN regs /\ cell[home(v)] = regs[v]
        BY <1>7, <1>8, <4>1
      <4> HIDE DEF i
      <4> QED
        BY <2>5, <2>6, <3>2, <4>2, <4>3
    <3> QED
      BY <3>1, <3>2
  <2> QED
    BY <2>5, <2>7, <2>8
<1> QED
  BY <1>11, <1>12

\* Taking an edge: what the successor reads is in its homes, before the moves.
LEMMA TakeEdge ==
    ASSUME Accepted, SafePhis, InBlock,
           NEW k \in DOMAIN f.blocks, f.blocks[k].id = current,
           index = Len(f.blocks[k].insts) + 1,
           NEW t \in successors(f.blocks[k].term),
           NEW c, contents(c),
           \A l \in Memory \ {scratch0, scratch1} : c[l] = cell[l],
           take_edge(c, t), Interpreter!goto(t),
           f' = f, map' = map, args' = args, regs' = regs
    PROVE  contents(cell') /\ BetweenBlocks'
<1>1. /\ validated(f) /\ is_function(f) /\ has_valid_blocks(f) /\ validate_for_codegen(RegSet)
      /\ CodegenAssumptions
  BY AcceptedFunction
<1>2. /\ cell' = c /\ moves' = phi_moves_for_edge(current, t)
      /\ want' = Edge!parallel_copy(c, phi_moves_for_edge(current, t))
      /\ current' = t /\ predecessor' = current
  BY DEF take_edge, Interpreter!goto
<1>3. flows(f, current, t)
  BY DEF flows
<1> DEFINE w == Edge!parallel_copy(c, phi_moves_for_edge(current, t))
           l == compute_liveness(f)
<1>4. /\ moves' \in Seq(Moves!Homes \X Moves!Homes)
      /\ \A i, j \in DOMAIN moves' : moves'[i][1] = moves'[j][1] => i = j
      /\ Len(moves') <= 2 \/ \A i \in DOMAIN moves' : moves'[i][2] \notin FrameLocs
      /\ \A v \in l.live_in[t] : w[home(v)] = c[home(v)]
      /\ \A q \in phis(try_block(f, t)) : w[home(q.dst)] = c[home(incoming_from(q, current))]
      /\ \A i \in 0..(f.args - 1) : w[arg_shadow_addr(i)] = c[arg_shadow_addr(i)]
  BY <1>1, <1>2, <1>3, EdgeCopies
<1>5. want' = w
  BY <1>2
<1> HIDE DEF w
<1>6. Moves!MInv'
  <2>1. contents(cell)'
    BY <1>2 DEF contents
  <2>2. (want = Edge!parallel_copy(cell, moves))'
    BY <1>2
  <2>3. EdgeReady'
    BY <1>1, <1>4, <2>1, <2>2 DEF EdgeReady
  <2> QED
    BY <2>3, EdgeStarts
<1>7. ASSUME NEW v \in DOMAIN map, v \in l.live_out[current] PROVE c[home(v)] = regs[v]
  <2>1. Len(f.blocks[k].insts) \in Nat
    BY <1>1, BlockFacts
  <2>2. still_read(f, k, v, index)
    <3>1. \A j \in index..(Len(f.blocks[k].insts) + 1 - 1) : FALSE
      BY <2>1
    <3> QED
      BY <1>7, <3>1 DEF still_read
  <2>3. cell[home(v)] = regs[v]
    BY <2>2 DEF InBlock
  <2> QED
    BY <2>3, NotScratch
<1>8. \A v \in l.live_out[current] : v \in DOMAIN map
  BY Mapped
<1>9. t \in block_ids(f)
  BY <1>1, <1>3, ValidBlocks
<1>10. PICK s \in DOMAIN f.blocks : f.blocks[s].id = t
  BY <1>9 DEF block_ids
<1>11. /\ try_block(f, t) = f.blocks[s]
       /\ DOMAIN f.blocks[s].insts = 1..Len(f.blocks[s].insts)
  BY <1>1, <1>10, ValidBlocks
<1>12. ASSUME NEW v \in l.live_in[t] PROVE w[home(v)] = regs[v]
  <2>1. v \notin phi_defs(f, t)
    <3>1. \A j \in 1..Len(f.blocks[s].insts) :
             is_phi(f.blocks[s].insts[j]) => v # f.blocks[s].insts[j].dst
      BY <1>1, <1>10, <1>12, LiveInMeetsPhis
    <3> QED
      BY <1>11, <3>1 DEF phi_defs, phis
  <2>2. v \in l.live_out[current]
    BY <1>1, <1>12, <2>1, NeededIsLiveOut
  <2> QED
    BY <1>4, <1>7, <1>8, <1>12, <2>2
<1>13. ASSUME NEW q \in phis(try_block(f, t)) PROVE w[home(q.dst)] = regs[incoming_from(q, current)]
  <2>1. PICK j \in 1..Len(f.blocks[s].insts) : q = f.blocks[s].insts[j] /\ is_phi(q)
    BY <1>11, <1>13 DEF phis
  <2>2. incoming_from(q, current) \in phi_uses(f, current, t)
    BY <1>1, <1>3, <1>10, <1>11, <2>1, PhiInput
  <2>3. incoming_from(q, current) \in l.live_out[current]
    BY <1>1, <2>2, NeededIsLiveOut
  <2> QED
    BY <1>4, <1>7, <1>8, <1>13, <2>3
<1>14. saved(want)'
  <2>1. \A i \in 0..(f.args - 1) : c[arg_shadow_addr(i)] = args[i + 1]
    BY NotScratch DEF InBlock, saved
  <2> QED
    BY <1>4, <1>5, <2>1 DEF saved, arg_shadow_addr
<1>15. \A v : home(v)' = home(v)
  BY NothingMoves
<1>16. here' = try_block(f, t)
  BY <1>2 DEF here
<1>17. \A v \in l.live_in[t] : want'[home(v)'] = regs'[v]
  BY <1>5, <1>12, <1>15
<1>18. \A q \in phis(try_block(f, t)) :
          want'[home(q.dst)'] = regs'[incoming_from(q, current)]
  BY <1>5, <1>13, <1>15
<1>19. BetweenBlocks'
  BY <1>2, <1>6, <1>14, <1>16, <1>17, <1>18 DEF BetweenBlocks
<1> QED
  BY <1>2, <1>19

\* The machine takes the branch the interpreter takes, or returns its value.
LEMMA TerminateInStep ==
    ASSUME Accepted, SafePhis, RunInv, InStep, Terminate
    PROVE  InStep'
<1>1. /\ f' = f /\ map' = map /\ args' = args /\ regs' = regs /\ m_current = current
      /\ outcome = "running" /\ index > 0 /\ index = Len(here.insts) + 1
      /\ MachineRet \/ MachineJmp \/ MachineBr
      /\ Interpreter!Return \/ Interpreter!Jump \/ Interpreter!Branch
                            \/ Interpreter!fail_undefined
      /\ Interpreter!at_terminator
  BY InterpreterReads DEF Terminate, Interpreter!Terminate, together
<1>2. /\ validated(f) /\ is_function(f) /\ has_valid_blocks(f)
      /\ validate_function(f) /\ CodegenAssumptions /\ ProgramsAssumption /\ f \in Programs
  BY AcceptedFunction DEF CodegenAssumptions, RunInv
<1>3. contents(cell) /\ InBlock
  BY <1>1 DEF InStep
<1>4. OnAnEdge /\ current \in block_ids(f)
  BY <1>2 DEF RunInv, OnAnEdge
<1>5. PICK k \in DOMAIN f.blocks : f.blocks[k].id = current /\ here = f.blocks[k]
  BY <1>2, <1>4, HereIsABlock
<1> DEFINE term == f.blocks[k].term
           n == Len(f.blocks[k].insts)
<1>6. Interpreter!block.term = term /\ index = n + 1 /\ n \in Nat
  BY <1>1, <1>2, <1>5, InterpreterReads, BlockFacts
<1>7. term_uses(term) \subseteq DOMAIN regs
  BY <1>1, <1>2, <1>5, BlockIsComputed
<1>8. ~Interpreter!fail_undefined
  BY <1>6, <1>7, SameReading DEF Interpreter!fail_undefined
<1>9. ASSUME NEW v \in term_uses(term)
      PROVE  v \in DOMAIN map /\ cell[home(v)] = regs[v]
  <2>1. v \in used_at(f.blocks[k], n + 1) /\ n + 1 \in 1..(n + 1)
    BY <1>6, <1>9 DEF used_at
  <2>2. v \in DOMAIN map
    BY <2>1, Mapped
  <2>3. still_read(f, k, v, index)
    <3>1. n + 1 \in index..(n + 1) /\ \A j \in index..(n + 1 - 1) : FALSE
      BY <1>6
    <3> QED
      BY <2>1, <3>1 DEF still_read
  <2> QED
    BY <1>3, <1>5, <2>2, <2>3 DEF InBlock
<1>10. current # Interpreter!NoBlock
  <2>1. current \in Nat
    BY <1>2, <1>5 DEF is_function, is_block
  <2> QED
    BY <2>1 DEF Interpreter!NoBlock
<1>11. ASSUME NEW t \in successors(term), NEW c, contents(c),
              \A l \in Memory \ {scratch0, scratch1} : c[l] = cell[l],
              take_edge(c, t), Interpreter!goto(t)
       PROVE  InStep'
  <2>1. contents(cell') /\ BetweenBlocks'
    BY <1>1, <1>3, <1>5, <1>6, <1>11, TakeEdge
  <2>2. /\ m_current' = t /\ current' = t /\ index' = 0 /\ predecessor' = current
        /\ outcome' = outcome
    BY <1>11 DEF take_edge, Interpreter!goto
  <2>3. contents(cell)'
    BY <2>1 DEF contents
  <2>4. (index > 0)' <=> FALSE
    BY <2>2
  <2>5. (predecessor = Interpreter!NoBlock)' <=> FALSE
    BY <1>10, <2>2 DEF Interpreter!NoBlock
  <2> QED
    BY <1>1, <2>1, <2>2, <2>3, <2>4, <2>5 DEF InStep
<1>12. CASE MachineRet
  <2> DEFINE v == term.value
             c == get_val(cell, v, rax)
             r == val_reg(v, rax)
  <2>1. term.op = "ret" /\ cell' = mov(c, rax, r) /\ m_returned' = cell'[rax]
        /\ UNCHANGED <<moves, m_current>>
    BY <1>6, <1>12 DEF MachineRet
  <2>2. /\ outcome' = "returned" /\ returned' = regs[v] /\ current' = current
    BY <1>1, <1>6, <1>8, <2>1 DEF Interpreter!Return, Interpreter!Jump, Interpreter!Branch
  <2>3. v \in DOMAIN map /\ cell[home(v)] = regs[v]
    BY <1>9, <2>1 DEF term_uses
  <2>4. rax \in RegLocs /\ rax \in Memory
    BY NotScratch DEF Memory
  <2>5. contents(c) /\ c[r] = cell[home(v)]
    BY <1>3, <2>3, <2>4, GetVal
  <2> HIDE DEF c, r
  <2>6. contents(mov(c, rax, r)) /\ mov(c, rax, r)[rax] = c[r]
    BY <2>4, <2>5, Mov
  <2>7. contents(cell)' /\ m_returned' = returned'
    <3>1. contents(cell') /\ cell'[rax] = c[r]
      BY <2>1, <2>6
    <3> QED
      BY <2>1, <2>2, <2>3, <2>5, <3>1 DEF contents
  <2> QED
    BY <1>1, <1>3, <2>1, <2>2, <2>7 DEF InStep, InBlock
<1>13. CASE MachineJmp
  <2>1. term.op = "jmp" /\ take_edge(cell, term.target)
    BY <1>6, <1>13 DEF MachineJmp
  <2>2. Interpreter!goto(term.target)
    BY <1>1, <1>6, <1>8, <2>1 DEF Interpreter!Return, Interpreter!Jump, Interpreter!Branch
  <2>3. term.target \in successors(term)
    BY <2>1 DEF successors
  <2> QED
    BY <1>3, <1>11, <2>1, <2>2, <2>3
<1>14. CASE MachineBr
  <2> DEFINE v == term.cond
             c == get_val(cell, v, scratch0)
             r == val_reg(v, scratch0)
             t == IF c[r] # 0 THEN term.then_bb ELSE term.else_bb
  <2>1. term.op = "br" /\ take_edge(c, t)
    BY <1>6, <1>14 DEF MachineBr
  <2>2. v \in DOMAIN map /\ cell[home(v)] = regs[v]
    BY <1>9, <2>1 DEF term_uses
  <2>3. scratch0 \in RegLocs
    BY NotScratch
  <2>4. contents(c) /\ c[r] = cell[home(v)] /\ \A l \in Memory : l # scratch0 => c[l] = cell[l]
    BY <1>3, <2>2, <2>3, GetVal
  <2>5. Interpreter!goto(t)
    <3>1. Interpreter!goto(IF regs[v] # 0 THEN term.then_bb ELSE term.else_bb)
      BY <1>1, <1>6, <1>8, <2>1 DEF Interpreter!Return, Interpreter!Jump, Interpreter!Branch
    <3> QED
      BY <2>2, <2>4, <3>1
  <2>6. t \in successors(term)
    BY <2>1 DEF successors
  <2> HIDE DEF c, t
  <2> QED
    BY <1>11, <2>1, <2>4, <2>5, <2>6
<1> QED
  BY <1>1, <1>12, <1>13, <1>14

\* A move of an edge.
LEMMA MoveOnEdgeInStep ==
    ASSUME Accepted, RunInv, InStep, MoveOnEdge
    PROVE  InStep'
<1>1. /\ f' = f /\ map' = map
      /\ UNCHANGED <<args, current, predecessor, index, regs, outcome, returned,
                     m_current, m_returned>>
      /\ Edge!MoveFree \/ Edge!BreakCycle
  BY DEF MoveOnEdge, interp_vars
<1>2. /\ CodegenAssumptions /\ validate_for_codegen(RegSet) /\ validate_function(f)
      /\ ProgramsAssumption
  BY AcceptedFunction DEF CodegenAssumptions
<1>3. moves # <<>>
  <2>1. DOMAIN <<>> = {}
    OBVIOUS
  <2>2. DOMAIN moves # {} \/ moves # <<>>
    BY <1>1 DEF Edge!MoveFree, Edge!BreakCycle
  <2> QED
    BY <2>1, <2>2
<1>4. outcome = "running" /\ index = 0 /\ predecessor # Interpreter!NoBlock /\ BetweenBlocks
  <2>1. outcome = "running"
    BY <1>3 DEF InStep
  <2>2. ~(index > 0)
    BY <1>3, <2>1 DEF InStep, InBlock
  <2>3. index \in 0..(Len(here.insts) + 1) /\ Len(here.insts) \in Nat
    BY <1>2, HereIsABlock DEF RunInv, OnAnEdge
  <2>4. index = 0
    BY <2>2, <2>3
  <2> QED
    BY <1>3, <2>1, <2>4 DEF InStep
<1>5. Moves!MInv' /\ want' = want
  BY <1>1, <1>2, <1>4, MoveOnEdgeKeeps DEF BetweenBlocks
<1>6. contents(cell)'
  <2>1. Moves!Locations = Memory
    BY <1>2, MovesLocations
  <2>2. cell' = [l \in Memory |-> cell'[l]]
    BY <1>5, <2>1 DEF Moves!MInv, Moves!Moving
  <2> QED
    BY <2>2 DEF contents
<1>7. \A v : home(v)' = home(v)
  BY <1>1, NothingMoves
<1>8. saved(want)'
  BY <1>1, <1>4, <1>5 DEF BetweenBlocks, saved, arg_shadow_addr
<1>9. here' = here
  BY <1>1 DEF here
<1>10. BetweenBlocks'
  BY <1>1, <1>4, <1>5, <1>7, <1>8, <1>9 DEF BetweenBlocks
<1> QED
  BY <1>1, <1>4, <1>6, <1>10 DEF InStep

\* Every step of machine and interpreter keeps the invariant.
LEMMA SimKeeps ==
    ASSUME CodegenAssumptions, SimInv, [Next]_vars
    PROVE  SimInv'
<1>1. ProgramsAssumption /\ RunInv /\ CallInv
  BY DEF SimInv, CodegenAssumptions
<1>2. [Interpreter!Next]_(Interpreter!interp_vars)
  BY DEF Next, vars, interp_vars, Interpreter!interp_vars, Interpreter!Next, Emit, EnterBlock,
         StopAtLimit, Execute, Terminate, MoveOnEdge
<1>3. RunInv'
  BY <1>1, <1>2, InterpreterKeeps
<1>4. /\ CallInv' /\ f' = f /\ map' = map
      /\ emitted' = "yes" => emitted = "yes" \/ Emit
  BY <1>1, CallKeeps
<1>5. CASE UNCHANGED vars
  <2>1. UNCHANGED <<f, args, current, predecessor, index, regs, steps, outcome, returned,
                    map, intervals, emitted, cell, moves, want, m_current, m_returned>>
    BY <1>5 DEF vars
  <2>2. /\ here' = here /\ \A v : home(v)' = home(v)
        /\ (contents(cell)' <=> contents(cell))
        /\ (saved(cell)' <=> saved(cell)) /\ (saved(want)' <=> saved(want))
        /\ (SafePhis' <=> SafePhis)
    BY <2>1, NothingMoves DEF here, contents, saved, arg_shadow_addr
  <2>3. Moves!MInv' <=> Moves!MInv
    BY <2>1 DEF Moves!MInv, Moves!Moving, Moves!DistinctDestinations,
       Moves!PendingReadsIntact, Moves!RestIsDone, Moves!TemporaryIsSafe, Moves!FewOrRegisters
  <2>4. InBlock' <=> InBlock
    BY <2>1, <2>2 DEF InBlock
  <2>5. BetweenBlocks' <=> BetweenBlocks
    BY <2>1, <2>2, <2>3 DEF BetweenBlocks
  <2>6. InStep' <=> InStep
    BY <2>1, <2>2, <2>4, <2>5 DEF InStep
  <2>7. NotStarted' <=> NotStarted
    BY <2>1 DEF NotStarted
  <2> QED
    BY <1>3, <1>4, <2>1, <2>2, <2>6, <2>7 DEF SimInv
<1>6. CASE Next
  <2>1. emitted' # "no"
    BY <1>6 DEF Next, Emit, EnterBlock, StopAtLimit, Execute, Terminate, MoveOnEdge, together
  <2>2. ASSUME emitted' = "yes", SafePhis' PROVE InStep'
    <3>1. SafePhis /\ accepts'
      BY <1>4, <2>2, NothingMoves DEF CallInv
    <3>2. Accepted
      <4>1. accepts
        BY <1>1, <1>4, <2>2 DEF CallInv, Emit
      <4> QED
        BY <1>1, <4>1 DEF Accepted
    <3>3. CASE Emit
      <4>1. NotStarted
        BY <3>3 DEF SimInv, Emit
      <4> QED
        BY <3>2, <3>3, <4>1, EmitInStep
    <3>4. CASE ~Emit
      <4>1. InStep
        BY <1>4, <2>2, <3>1, <3>4 DEF SimInv
      <4> QED
        BY <1>1, <1>6, <3>1, <3>2, <3>4, <4>1, EnterBlockInStep, StopAtLimitInStep,
           ExecuteInStep, TerminateInStep, MoveOnEdgeInStep DEF Next
    <3> QED
      BY <3>3, <3>4
  <2> QED
    BY <1>3, <1>4, <2>1, <2>2 DEF SimInv
<1> QED
  BY <1>5, <1>6

\* The machine and the interpreter stay in step.
THEOREM MachineInStep == Spec => []SimInv
<1>0. CodegenAssumptions
  BY AssumptionsHold
<1>1. Init => SimInv
  <2> SUFFICES ASSUME Init PROVE SimInv
    OBVIOUS
  <2>1. RunInv
    BY <1>0, InitRunInv DEF Init, CodegenAssumptions
  <2>2. CallInv
    BY InitCallInv
  <2> QED
    BY <2>1, <2>2 DEF SimInv, Init, NotStarted, Interpreter!Init
<1>2. SimInv /\ [Next]_vars => SimInv'
  BY <1>0, SimKeeps
<1> QED
  BY <1>1, <1>2, PTL DEF Spec

\* For every valid function, register set and assignment the emitter accepts,
\* every value that is still read is intact in its location, if every phi in
\* front of another is read and each edge has at most two moves or none from a
\* slot.  The model checker shows what goes wrong without the two conditions.
THEOREM LiveValuesAgreeAlways == Spec => [](SafePhis => LiveValuesAgree)
<1>0. CodegenAssumptions
  BY AssumptionsHold
<1>1. SimInv => (SafePhis => LiveValuesAgree)
  <2> SUFFICES ASSUME SimInv, SafePhis, emitted = "yes", outcome = "running", index >= 1,
                      m_current = current, NEW v \in live_before(index)
               PROVE  cell[home(v)] = regs[v]
    BY DEF LiveValuesAgree
  <2>1. RunInv /\ InStep /\ Accepted
    BY <1>0 DEF SimInv, CallInv, Accepted
  <2>2. /\ validated(f) /\ f \in Programs /\ validate_function(f) /\ ProgramsAssumption
        /\ current \in block_ids(f)
    BY <1>0, <2>1, AcceptedFunction DEF CodegenAssumptions, RunInv, OnAnEdge
  <2>3. PICK k \in DOMAIN f.blocks : f.blocks[k].id = current /\ here = f.blocks[k]
    BY <2>2, HereIsABlock
  <2> DEFINE b == f.blocks[k]
             n == Len(b.insts)
  <2>4. n \in Nat /\ index \in 0..(n + 1) /\ index > 0
    <3>1. n \in Nat
      BY ONLY <2>2, k \in DOMAIN f.blocks, BlockFacts
    <3>2. index \in 0..(Len(here.insts) + 1)
      BY <2>1, <2>2 DEF RunInv
    <3>3. index > 0
      BY <3>2
    <3> QED
      BY <2>3, <3>1, <3>2, <3>3
  <2>5. still_read(f, k, v, index)
    <3> DEFINE R(j) == {u \in used_at(b, j) : \A m \in index..(j - 1) : b.insts[m].dst # u}
               later == {u \in compute_liveness(f).live_out[current] :
                            \A j \in index..n : b.insts[j].dst # u}
               U == UNION {R(j) : j \in index..(n + 1)}
    <3>1. live_before(index) = later \cup U
      BY <2>3, InterpreterReads DEF live_before
    <3>2. CASE v \in later
      <4>1. (n + 1) - 1 = n
        BY <2>4
      <4> QED
        BY <2>3, <3>2, <4>1 DEF still_read
    <3>3. CASE v \in U
      <4>1. PICK j \in index..(n + 1) : v \in R(j)
        BY <3>3
      <4> QED
        BY <4>1 DEF still_read
    <3> HIDE DEF later, U
    <3> QED
      BY <3>1, <3>2, <3>3
  <2>6. v \in DOMAIN map
    BY <2>1, <2>3, <2>4, <2>5, StillReadIsComputed
  <2> QED
    BY <2>1, <2>3, <2>4, <2>5, <2>6 DEF InStep, InBlock
<1> QED
  BY <1>1, MachineInStep, PTL

\* Under the same conditions the generated code takes the branches the
\* interpreter takes and returns what it returns.
THEOREM ResultsAgreeAlways == Spec => [](SafePhis => ResultsAgree)
<1>1. SimInv => (SafePhis => ResultsAgree)
  BY DEF SimInv, InStep, ResultsAgree
<1> QED
  BY <1>1, MachineInStep, PTL
-----------------------------------------------------------------------------
(* Running it in another process: RunnerClient::run, with its child, its   *)
(* reader threads and the clock, for every list of cases, every pipe       *)
(* capacity, every interleaving and every failing call of the operating    *)
(* system.                                                                 *)

Client == INSTANCE RunnerClient

-----------------------------------------------------------------------------
(* The inductive invariant of run.                                         *)

BeforeSpawn == {"create", "write", "locate", "spawn"}
Joining == {"join_stdout", "join_stderr"}
Attending == {"read_stdout", "read_stderr", "poll", "check", "kill", "wait"} \cup Joining
HasReturned == {"done", "exited"}

ChildPlaces == {"unborn", "limits", "metadata", "read", "map", "call", "looping",
                "write", "error", "exited"}

\* The flags are Boolean by the way they are used; what matters is the rest.
PlacesOK ==
    /\ file \in {"absent", "empty", "complete"}
    /\ child \in ChildPlaces
    /\ status \in {"none", "ok", "failed", "signal"}
    /\ parent \in BeforeSpawn \cup Attending \cup HasReturned
    /\ result \in {"none", "Ok", "failed", "timed out", "error"}

CountersOK ==
    /\ spec \in Specs
    /\ case \in Nat
    /\ written \in Nat
    /\ pipe \in [Streams -> Nat]
    /\ got \in [Streams -> Nat]
    /\ DOMAIN read_end = Streams
    /\ reader \in [Streams -> {"none", "reading", "eof", "broken", "gone"}]

ClientTypeOK == PlacesOK /\ CountersOK

\* Where run is tells whether there is a child, a spec file and a result.
PhasesMatch ==
    /\ parent \in BeforeSpawn => child = "unborn"
    /\ parent \in Attending => child # "unborn" /\ file = "complete"
    /\ parent \in {"locate", "spawn"} => file = "complete"
    /\ result # "none" <=> parent \in HasReturned

\* The threads are started one after the other, and once run has joined the
\* first, that one has read to the end.
ReadersMatch ==
    /\ parent \in BeforeSpawn \cup {"read_stdout"} => reader["stdout"] = "none"
    /\ parent \in BeforeSpawn \cup {"read_stdout", "read_stderr"} => reader["stderr"] = "none"
    /\ parent = "join_stderr" => reader["stdout"] = "eof"
    /\ result = "Ok" => reader["stdout"] \in {"eof", "gone"}

\* A child is waited for only after its end, and always before run returns,
\* unless a call has failed.
ReapedIsOver ==
    /\ status # "none" <=> child = "exited"
    /\ reaped => child = "exited"
    /\ parent \in Joining => reaped
    /\ os_error => os_faults
    /\ parent \in HasReturned /\ child # "unborn" /\ ~os_error => reaped

\* Why a read end is closed.
ClosedEnds ==
    \A s \in Streams :
        /\ ~read_end[s] => reader[s] \in {"eof", "broken", "gone"}
        /\ reader[s] = "eof" => pipe[s] = 0 /\ child = "exited"
        /\ reader[s] = "broken" => os_faults
        /\ reader[s] = "gone" => parent = "exited"

\* What was written is in the pipe or has been read.
NothingLost == got["stdout"] + pipe["stdout"] = written

\* The child gets to the end only through all its cases.
ResultsAreWhole ==
    /\ \A i \in 1..case : spec.cases[i].code = "returns" /\ spec.cases[i].arity <= MaxArity
    /\ child = "write" => case = Len(spec.cases)
    /\ status = "ok" => case = Len(spec.cases) /\ written = result_chunks

\* Without faults, a harmless spec never leads to an error.
HarmlessStaysWell ==
    ~os_faults /\ harmless =>
        /\ child \notin {"error", "looping"}
        /\ status # "failed"
        /\ result # "error"

RInv ==
    /\ ClientTypeOK
    /\ PhasesMatch
    /\ ReadersMatch
    /\ ReapedIsOver
    /\ ClosedEnds
    /\ NothingLost
    /\ ResultsAreWhole
    /\ HarmlessStaysWell
    /\ OkMeansComplete
    /\ HarmlessCodeIsAnswered

-----------------------------------------------------------------------------
(* Every step keeps the invariant.                                         *)

\* Nobody moves.
LEMMA SamePlaces ==
    ASSUME PlacesOK, UNCHANGED <<file, child, status, parent, result>>
    PROVE  PlacesOK'
BY DEF PlacesOK

\* The tuples of variables and the sets of names are expanded throughout.
USE DEF Client!input, Client!child_vars, Client!parent_vars, Streams, Client!Streams,
   BeforeSpawn, Joining, Attending, HasReturned, ChildPlaces

\* run creates the temporary file, or fails to.
LEMMA CreateTempKeeps ==
    ASSUME RInv, Client!CreateTemp
    PROVE  RInv'
<1>1. ClientTypeOK'
  <2>1. PlacesOK'
        BY DEF Client!CreateTemp, Client!Return, Client!ParentOnly, RInv, ClientTypeOK,
           PlacesOK
  <2>2. CountersOK'
        BY DEF Client!CreateTemp, Client!Return, Client!ParentOnly, RInv, ClientTypeOK,
           CountersOK
  <2> QED
    BY <2>1, <2>2 DEF ClientTypeOK
<1>2. PhasesMatch' /\ ReadersMatch' /\ ReapedIsOver' /\ ClosedEnds'
    BY <1>1 DEF Client!CreateTemp, Client!Return, Client!ParentOnly, RInv, ClientTypeOK,
       PlacesOK, CountersOK, PhasesMatch, ReadersMatch, ClosedEnds, ReapedIsOver
<1>3. NothingLost' /\ ResultsAreWhole'
    BY <1>1 DEF Client!CreateTemp, Client!Return, Client!ParentOnly, RInv, ClientTypeOK,
       PlacesOK, CountersOK, NothingLost, ResultsAreWhole, ReapedIsOver, result_chunks,
       Client!result_chunks
<1>4. HarmlessStaysWell' /\ OkMeansComplete' /\ HarmlessCodeIsAnswered'
    BY <1>1 DEF Client!CreateTemp, Client!Return, Client!ParentOnly, RInv, ClientTypeOK,
       PlacesOK, CountersOK, PhasesMatch, ReadersMatch, ReapedIsOver, ClosedEnds,
       NothingLost, ResultsAreWhole, HarmlessStaysWell, OkMeansComplete,
       HarmlessCodeIsAnswered, harmless, result_chunks, Client!result_chunks
<1> QED
  BY <1>1, <1>2, <1>3, <1>4 DEF RInv

\* run writes the spec, or fails to.
LEMMA WriteSpecKeeps ==
    ASSUME RInv, Client!WriteSpec
    PROVE  RInv'
<1>1. ClientTypeOK'
  <2>1. PlacesOK'
        BY DEF Client!WriteSpec, Client!Return, Client!ParentOnly, RInv, ClientTypeOK,
           PlacesOK
  <2>2. CountersOK'
        BY DEF Client!WriteSpec, Client!Return, Client!ParentOnly, RInv, ClientTypeOK,
           CountersOK
  <2> QED
    BY <2>1, <2>2 DEF ClientTypeOK
<1>2. PhasesMatch' /\ ReadersMatch' /\ ReapedIsOver' /\ ClosedEnds'
    BY <1>1 DEF Client!WriteSpec, Client!Return, Client!ParentOnly, RInv, ClientTypeOK,
       PlacesOK, CountersOK, PhasesMatch, ReadersMatch, ClosedEnds, ReapedIsOver
<1>3. NothingLost' /\ ResultsAreWhole'
    BY <1>1 DEF Client!WriteSpec, Client!Return, Client!ParentOnly, RInv, ClientTypeOK,
       PlacesOK, CountersOK, NothingLost, ResultsAreWhole, ReapedIsOver, result_chunks,
       Client!result_chunks
<1>4. HarmlessStaysWell' /\ OkMeansComplete' /\ HarmlessCodeIsAnswered'
    BY <1>1 DEF Client!WriteSpec, Client!Return, Client!ParentOnly, RInv, ClientTypeOK,
       PlacesOK, CountersOK, PhasesMatch, ReadersMatch, ReapedIsOver, ClosedEnds,
       NothingLost, ResultsAreWhole, HarmlessStaysWell, OkMeansComplete,
       HarmlessCodeIsAnswered, harmless, result_chunks, Client!result_chunks
<1> QED
  BY <1>1, <1>2, <1>3, <1>4 DEF RInv

\* The runner executable is found or built, or it is not.
LEMMA find_or_build_runner_exeKeeps ==
    ASSUME RInv, Client!find_or_build_runner_exe
    PROVE  RInv'
<1>1. ClientTypeOK'
  <2>1. PlacesOK'
        BY DEF Client!find_or_build_runner_exe, Client!Return, Client!ParentOnly, RInv,
           ClientTypeOK, PlacesOK
  <2>2. CountersOK'
        BY DEF Client!find_or_build_runner_exe, Client!Return, Client!ParentOnly, RInv,
           ClientTypeOK, CountersOK
  <2> QED
    BY <2>1, <2>2 DEF ClientTypeOK
<1>2. PhasesMatch' /\ ReadersMatch' /\ ReapedIsOver' /\ ClosedEnds'
    BY <1>1 DEF Client!find_or_build_runner_exe, Client!Return, Client!ParentOnly, RInv,
       ClientTypeOK, PlacesOK, CountersOK, PhasesMatch, ReadersMatch, ClosedEnds,
       ReapedIsOver
<1>3. NothingLost' /\ ResultsAreWhole'
    BY <1>1 DEF Client!find_or_build_runner_exe, Client!Return, Client!ParentOnly, RInv,
       ClientTypeOK, PlacesOK, CountersOK, NothingLost, ResultsAreWhole, ReapedIsOver,
       result_chunks, Client!result_chunks
<1>4. HarmlessStaysWell' /\ OkMeansComplete' /\ HarmlessCodeIsAnswered'
    BY <1>1 DEF Client!find_or_build_runner_exe, Client!Return, Client!ParentOnly, RInv,
       ClientTypeOK, PlacesOK, CountersOK, PhasesMatch, ReadersMatch, ReapedIsOver,
       ClosedEnds, NothingLost, ResultsAreWhole, HarmlessStaysWell, OkMeansComplete,
       HarmlessCodeIsAnswered, harmless, result_chunks, Client!result_chunks
<1> QED
  BY <1>1, <1>2, <1>3, <1>4 DEF RInv

\* The child is started while the spec file is complete.
LEMMA SpawnKeeps ==
    ASSUME RInv, Client!Spawn
    PROVE  RInv'
<1>1. ClientTypeOK'
  <2>1. PlacesOK'
        BY DEF Client!Spawn, Client!Return, RInv, ClientTypeOK, PlacesOK
  <2>2. CountersOK'
        BY DEF Client!Spawn, Client!Return, RInv, ClientTypeOK, CountersOK
  <2> QED
    BY <2>1, <2>2 DEF ClientTypeOK
<1>2. PhasesMatch' /\ ReadersMatch' /\ ReapedIsOver' /\ ClosedEnds'
    BY <1>1 DEF Client!Spawn, Client!Return, RInv, ClientTypeOK, PlacesOK, CountersOK,
       PhasesMatch, ReadersMatch, ClosedEnds, ReapedIsOver
<1>3. NothingLost' /\ ResultsAreWhole'
    BY <1>1 DEF Client!Spawn, Client!Return, RInv, ClientTypeOK, PlacesOK, CountersOK,
       NothingLost, ResultsAreWhole, ReapedIsOver, result_chunks, Client!result_chunks
<1>4. HarmlessStaysWell' /\ OkMeansComplete' /\ HarmlessCodeIsAnswered'
    BY <1>1 DEF Client!Spawn, Client!Return, RInv, ClientTypeOK, PlacesOK, CountersOK,
       PhasesMatch, ReadersMatch, ReapedIsOver, ClosedEnds, NothingLost,
       ResultsAreWhole, HarmlessStaysWell, OkMeansComplete, HarmlessCodeIsAnswered,
       harmless, result_chunks, Client!result_chunks
<1> QED
  BY <1>1, <1>2, <1>3, <1>4 DEF RInv

\* A thread starts to read a pipe nobody has closed.
LEMMA ReadInBackgroundKeeps ==
    ASSUME RInv, Client!ReadInBackground
    PROVE  RInv'
<1>1. ClientTypeOK'
  <2>1. PlacesOK'
        BY DEF Client!ReadInBackground, RInv, ClientTypeOK, PlacesOK
  <2>2. CountersOK'
        BY DEF Client!ReadInBackground, RInv, ClientTypeOK, CountersOK
  <2> QED
    BY <2>1, <2>2 DEF ClientTypeOK
<1>2. PhasesMatch' /\ ReadersMatch' /\ ReapedIsOver' /\ ClosedEnds'
    BY <1>1 DEF Client!ReadInBackground, RInv, ClientTypeOK, PlacesOK, CountersOK,
       PhasesMatch, ReadersMatch, ClosedEnds, ReapedIsOver
<1>3. NothingLost' /\ ResultsAreWhole'
    BY <1>1 DEF Client!ReadInBackground, RInv, ClientTypeOK, PlacesOK, CountersOK,
       NothingLost, ResultsAreWhole, ReapedIsOver, result_chunks, Client!result_chunks
<1>4. HarmlessStaysWell' /\ OkMeansComplete' /\ HarmlessCodeIsAnswered'
    BY <1>1 DEF Client!ReadInBackground, RInv, ClientTypeOK, PlacesOK, CountersOK,
       PhasesMatch, ReadersMatch, ReapedIsOver, ClosedEnds, NothingLost,
       ResultsAreWhole, HarmlessStaysWell, OkMeansComplete, HarmlessCodeIsAnswered,
       harmless, result_chunks, Client!result_chunks
<1> QED
  BY <1>1, <1>2, <1>3, <1>4 DEF RInv

\* try_wait: a child that has ended is reaped; an error is recorded.
LEMMA PollKeeps ==
    ASSUME RInv, Client!Poll
    PROVE  RInv'
<1>1. ClientTypeOK'
  <2>1. PlacesOK'
    BY DEF Client!Poll, Client!Return, Client!ParentOnly, RInv, ClientTypeOK, PlacesOK
  <2>2. CountersOK'
    BY DEF Client!Poll, Client!Return, Client!ParentOnly, RInv, ClientTypeOK, CountersOK
  <2> QED
    BY <2>1, <2>2 DEF ClientTypeOK
<1>2. PhasesMatch' /\ ReadersMatch' /\ ClosedEnds'
  BY <1>1 DEF Client!Poll, Client!Return, Client!ParentOnly, RInv, ClientTypeOK,
     PlacesOK, CountersOK, PhasesMatch, ReadersMatch, ClosedEnds
<1>3. ReapedIsOver'
  <2>1. CASE /\ child = "exited" /\ reaped' = TRUE
             /\ parent' = "join_stdout" /\ UNCHANGED os_error
    BY <2>1 DEF Client!Poll, Client!ParentOnly, RInv, ReapedIsOver
  <2>2. CASE parent' = "check" /\ UNCHANGED <<reaped, os_error>>
    BY <2>2 DEF Client!Poll, Client!ParentOnly, RInv, ReapedIsOver
  <2>3. CASE os_faults /\ os_error' = TRUE /\ parent' = "done" /\ UNCHANGED reaped
    BY <2>3 DEF Client!Poll, Client!ParentOnly, RInv, ReapedIsOver
  <2> QED
    BY <2>1, <2>2, <2>3 DEF Client!Poll, Client!Return
<1>4. NothingLost' /\ ResultsAreWhole'
  BY <1>1 DEF Client!Poll, Client!ParentOnly, RInv, ClientTypeOK, CountersOK,
     NothingLost, ResultsAreWhole, result_chunks, Client!result_chunks
<1>5. HarmlessStaysWell' /\ OkMeansComplete' /\ HarmlessCodeIsAnswered'
  BY <1>1 DEF Client!Poll, Client!Return, Client!ParentOnly, RInv, ClientTypeOK,
     PlacesOK, CountersOK, PhasesMatch, ReapedIsOver, HarmlessStaysWell,
     OkMeansComplete, HarmlessCodeIsAnswered, harmless, result_chunks,
     Client!result_chunks
<1> QED
  BY <1>1, <1>2, <1>3, <1>4, <1>5 DEF RInv

\* run looks at the clock.
LEMMA CheckTimeoutKeeps ==
    ASSUME RInv, Client!CheckTimeout
    PROVE  RInv'
<1>1. ClientTypeOK'
  <2>1. PlacesOK'
        BY DEF Client!CheckTimeout, Client!ParentOnly, RInv, ClientTypeOK, PlacesOK,
           PhasesMatch
  <2>2. CountersOK'
        BY DEF Client!CheckTimeout, Client!ParentOnly, RInv, ClientTypeOK, CountersOK
  <2> QED
    BY <2>1, <2>2 DEF ClientTypeOK
<1>2. PhasesMatch' /\ ReadersMatch' /\ ReapedIsOver' /\ ClosedEnds'
    BY <1>1 DEF Client!CheckTimeout, Client!ParentOnly, RInv, ClientTypeOK, PlacesOK,
       CountersOK, PhasesMatch, ReadersMatch, ClosedEnds, ReapedIsOver
<1>3. NothingLost' /\ ResultsAreWhole'
    BY <1>1 DEF Client!CheckTimeout, Client!ParentOnly, RInv, ClientTypeOK, PlacesOK,
       CountersOK, NothingLost, ResultsAreWhole, ReapedIsOver, result_chunks,
       Client!result_chunks
<1>4. HarmlessStaysWell' /\ OkMeansComplete' /\ HarmlessCodeIsAnswered'
    BY <1>1 DEF Client!CheckTimeout, Client!ParentOnly, RInv, ClientTypeOK, PlacesOK,
       CountersOK, PhasesMatch, ReadersMatch, ReapedIsOver, ClosedEnds, NothingLost,
       ResultsAreWhole, HarmlessStaysWell, OkMeansComplete, HarmlessCodeIsAnswered,
       harmless, result_chunks, Client!result_chunks
<1> QED
  BY <1>1, <1>2, <1>3, <1>4 DEF RInv

\* The child is killed unless it has ended since the poll, or the kill fails.
LEMMA KillKeeps ==
    ASSUME RInv, Client!Kill
    PROVE  RInv'
<1>1. ClientTypeOK'
  <2>1. PlacesOK'
    BY DEF Client!Kill, Client!Return, Client!End, running, Client!running, RInv,
       ClientTypeOK, PlacesOK
  <2>2. CountersOK'
    BY DEF Client!Kill, Client!Return, Client!End, running, Client!running, RInv,
       ClientTypeOK, CountersOK
  <2> QED
    BY <2>1, <2>2 DEF ClientTypeOK
<1>2. PhasesMatch' /\ ReadersMatch' /\ ClosedEnds'
  BY <1>1 DEF Client!Kill, Client!Return, Client!End, running, Client!running, RInv,
     ClientTypeOK, PlacesOK, CountersOK, PhasesMatch, ReadersMatch, ClosedEnds
<1>3. ReapedIsOver'
  <2>1. CASE parent' = "wait" /\ UNCHANGED os_error
    BY <2>1 DEF Client!Kill, Client!End, running, Client!running, RInv, PhasesMatch,
       ReapedIsOver
  <2>2. CASE os_faults /\ os_error' = TRUE /\ parent' = "done" /\ UNCHANGED Client!child_vars
    BY <2>2 DEF Client!Kill, RInv, ReapedIsOver
  <2> QED
    BY <2>1, <2>2 DEF Client!Kill, Client!Return
<1>4. NothingLost' /\ ResultsAreWhole'
  BY <1>1 DEF Client!Kill, Client!End, running, Client!running, RInv, ClientTypeOK,
     CountersOK, NothingLost, ResultsAreWhole, ReapedIsOver, result_chunks,
     Client!result_chunks
<1>5. HarmlessStaysWell' /\ OkMeansComplete' /\ HarmlessCodeIsAnswered'
  BY <1>1 DEF Client!Kill, Client!Return, Client!End, running, Client!running, RInv,
     ClientTypeOK, PlacesOK, CountersOK, PhasesMatch, ReapedIsOver, HarmlessStaysWell,
     OkMeansComplete, HarmlessCodeIsAnswered, harmless, result_chunks,
     Client!result_chunks
<1> QED
  BY <1>1, <1>2, <1>3, <1>4, <1>5 DEF RInv

\* run waits for the child it has killed.
LEMMA WaitKeeps ==
    ASSUME RInv, Client!Wait
    PROVE  RInv'
<1>1. ClientTypeOK'
  <2>1. PlacesOK'
        BY DEF Client!Wait, Client!ParentOnly, RInv, ClientTypeOK, PlacesOK
  <2>2. CountersOK'
        BY DEF Client!Wait, Client!ParentOnly, RInv, ClientTypeOK, CountersOK
  <2> QED
    BY <2>1, <2>2 DEF ClientTypeOK
<1>2. PhasesMatch' /\ ReadersMatch' /\ ReapedIsOver' /\ ClosedEnds'
    BY <1>1 DEF Client!Wait, Client!ParentOnly, RInv, ClientTypeOK, PlacesOK,
       CountersOK, PhasesMatch, ReadersMatch, ClosedEnds, ReapedIsOver
<1>3. NothingLost' /\ ResultsAreWhole'
    BY <1>1 DEF Client!Wait, Client!ParentOnly, RInv, ClientTypeOK, PlacesOK,
       CountersOK, NothingLost, ResultsAreWhole, ReapedIsOver, result_chunks,
       Client!result_chunks
<1>4. HarmlessStaysWell' /\ OkMeansComplete' /\ HarmlessCodeIsAnswered'
    BY <1>1 DEF Client!Wait, Client!ParentOnly, RInv, ClientTypeOK, PlacesOK,
       CountersOK, PhasesMatch, ReadersMatch, ReapedIsOver, ClosedEnds, NothingLost,
       ResultsAreWhole, HarmlessStaysWell, OkMeansComplete, HarmlessCodeIsAnswered,
       harmless, result_chunks, Client!result_chunks
<1> QED
  BY <1>1, <1>2, <1>3, <1>4 DEF RInv

\* The first thread is joined when it has read to the end.
LEMMA finish_stdoutKeeps ==
    ASSUME RInv, Client!finish_stdout
    PROVE  RInv'
<1>1. ClientTypeOK'
  <2>1. PlacesOK'
        BY DEF Client!finish_stdout, Client!Return, Client!ParentOnly, RInv,
           ClientTypeOK, PlacesOK
  <2>2. CountersOK'
        BY DEF Client!finish_stdout, Client!Return, Client!ParentOnly, RInv,
           ClientTypeOK, CountersOK
  <2> QED
    BY <2>1, <2>2 DEF ClientTypeOK
<1>2. PhasesMatch' /\ ReadersMatch' /\ ReapedIsOver' /\ ClosedEnds'
    BY <1>1 DEF Client!finish_stdout, Client!Return, Client!ParentOnly, RInv,
       ClientTypeOK, PlacesOK, CountersOK, PhasesMatch, ReadersMatch, ClosedEnds,
       ReapedIsOver
<1>3. NothingLost' /\ ResultsAreWhole'
    BY <1>1 DEF Client!finish_stdout, Client!Return, Client!ParentOnly, RInv,
       ClientTypeOK, PlacesOK, CountersOK, NothingLost, ResultsAreWhole, ReapedIsOver,
       result_chunks, Client!result_chunks
<1>4. HarmlessStaysWell' /\ OkMeansComplete' /\ HarmlessCodeIsAnswered'
    BY <1>1 DEF Client!finish_stdout, Client!Return, Client!ParentOnly, RInv,
       ClientTypeOK, PlacesOK, CountersOK, PhasesMatch, ReadersMatch, ReapedIsOver,
       ClosedEnds, NothingLost, ResultsAreWhole, HarmlessStaysWell, OkMeansComplete,
       HarmlessCodeIsAnswered, harmless, result_chunks, Client!result_chunks
<1> QED
  BY <1>1, <1>2, <1>3, <1>4 DEF RInv

\* The second thread is joined and run returns its verdict.  "Ok" is the answer
\* for a child that has written all its results, and they have all been read.
LEMMA finish_stderrKeeps ==
    ASSUME RInv, Client!finish_stderr
    PROVE  RInv'
<1>1. ClientTypeOK'
  <2>1. PlacesOK'
    BY DEF Client!finish_stderr, Client!Return, Client!ParentOnly, Client!verdict, RInv,
       ClientTypeOK, PlacesOK
  <2>2. CountersOK'
    BY DEF Client!finish_stderr, Client!Return, Client!ParentOnly, RInv, ClientTypeOK,
       CountersOK
  <2> QED
    BY <2>1, <2>2 DEF ClientTypeOK
<1>2. PhasesMatch' /\ ReadersMatch' /\ ReapedIsOver' /\ ClosedEnds'
  BY <1>1 DEF Client!finish_stderr, Client!Return, Client!ParentOnly, Client!verdict,
     RInv, ClientTypeOK, PlacesOK, CountersOK, PhasesMatch, ReadersMatch, ClosedEnds,
     ReapedIsOver
<1>3. NothingLost' /\ ResultsAreWhole'
  BY <1>1 DEF Client!finish_stderr, Client!ParentOnly, RInv, ClientTypeOK, CountersOK,
     NothingLost, ResultsAreWhole, result_chunks, Client!result_chunks
<1>4. OkMeansComplete'
  <2> SUFFICES ASSUME result' = "Ok"
               PROVE  /\ case = Len(spec.cases)
                      /\ got["stdout"] = result_chunks
    BY <1>1, SpecsAssumption DEF Client!finish_stderr, Client!ParentOnly, RInv,
       ClientTypeOK, CountersOK, ResultsAreWhole, OkMeansComplete, result_chunks,
       Client!result_chunks
  <2>1. status = "ok" /\ parent = "join_stderr"
    BY DEF Client!finish_stderr, Client!Return, Client!verdict
  <2>2. reader["stdout"] = "eof" /\ pipe["stdout"] = 0
    BY <2>1 DEF RInv, ReadersMatch, ClosedEnds
  <2>3. case = Len(spec.cases) /\ written = result_chunks
    BY <2>1 DEF RInv, ResultsAreWhole
  <2> QED
    BY <2>2, <2>3 DEF RInv, ClientTypeOK, CountersOK, NothingLost
<1>5. HarmlessStaysWell' /\ HarmlessCodeIsAnswered'
  <2>1. reaped /\ child = "exited" /\ status # "none"
    BY DEF Client!finish_stderr, RInv, ReapedIsOver
  <2>2. reader["stderr"] = "broken" => os_faults
    BY DEF RInv, ClosedEnds
  <2>3. status \in {"none", "ok", "failed", "signal"}
    BY DEF RInv, ClientTypeOK, PlacesOK
  <2> QED
    BY <2>1, <2>2, <2>3 DEF Client!finish_stderr, Client!Return, Client!ParentOnly,
       Client!verdict, RInv, HarmlessStaysWell, HarmlessCodeIsAnswered, harmless
<1> QED
  BY <1>1, <1>2, <1>3, <1>4, <1>5 DEF RInv

\* The command line ends after run has returned.
LEMMA CliExitKeeps ==
    ASSUME RInv, Client!CliExit
    PROVE  RInv'
<1>1. ClientTypeOK'
  <2>1. PlacesOK'
        BY DEF Client!CliExit, RInv, ClientTypeOK, PlacesOK
  <2>2. CountersOK'
        BY DEF Client!CliExit, RInv, ClientTypeOK, CountersOK
  <2> QED
    BY <2>1, <2>2 DEF ClientTypeOK
<1>2. PhasesMatch' /\ ReadersMatch' /\ ReapedIsOver' /\ ClosedEnds'
    BY <1>1 DEF Client!CliExit, RInv, ClientTypeOK, PlacesOK, CountersOK, PhasesMatch,
       ReadersMatch, ClosedEnds, ReapedIsOver
<1>3. NothingLost' /\ ResultsAreWhole'
    BY <1>1 DEF Client!CliExit, RInv, ClientTypeOK, PlacesOK, CountersOK, NothingLost,
       ResultsAreWhole, ReapedIsOver, result_chunks, Client!result_chunks
<1>4. HarmlessStaysWell' /\ OkMeansComplete' /\ HarmlessCodeIsAnswered'
    BY <1>1 DEF Client!CliExit, RInv, ClientTypeOK, PlacesOK, CountersOK, PhasesMatch,
       ReadersMatch, ReapedIsOver, ClosedEnds, NothingLost, ResultsAreWhole,
       HarmlessStaysWell, OkMeansComplete, HarmlessCodeIsAnswered, harmless,
       result_chunks, Client!result_chunks
<1> QED
  BY <1>1, <1>2, <1>3, <1>4 DEF RInv

\* The child limits itself, or fails to.
LEMMA apply_limitsKeeps ==
    ASSUME RInv, Client!apply_limits,
           UNCHANGED <<Client!input, file, read_end, Client!parent_vars,
                       reader, got, deadline>>
    PROVE  RInv'
<1>1. ClientTypeOK'
  <2>1. PlacesOK'
        BY DEF Client!apply_limits, Client!Goto, RInv, ClientTypeOK, PlacesOK
  <2>2. CountersOK'
        BY DEF Client!apply_limits, Client!Goto, RInv, ClientTypeOK, CountersOK
  <2> QED
    BY <2>1, <2>2 DEF ClientTypeOK
<1>2. PhasesMatch' /\ ReadersMatch' /\ ReapedIsOver' /\ ClosedEnds'
    BY <1>1 DEF Client!apply_limits, Client!Goto, RInv, ClientTypeOK, PlacesOK,
       CountersOK, PhasesMatch, ReadersMatch, ClosedEnds, ReapedIsOver
<1>3. NothingLost' /\ ResultsAreWhole'
    BY <1>1 DEF Client!apply_limits, Client!Goto, RInv, ClientTypeOK, PlacesOK,
       CountersOK, NothingLost, ResultsAreWhole, ReapedIsOver, result_chunks,
       Client!result_chunks
<1>4. HarmlessStaysWell' /\ OkMeansComplete' /\ HarmlessCodeIsAnswered'
    BY <1>1 DEF Client!apply_limits, Client!Goto, RInv, ClientTypeOK, PlacesOK,
       CountersOK, PhasesMatch, ReadersMatch, ReapedIsOver, ClosedEnds, NothingLost,
       ResultsAreWhole, HarmlessStaysWell, OkMeansComplete, HarmlessCodeIsAnswered,
       harmless, result_chunks, Client!result_chunks
<1> QED
  BY <1>1, <1>2, <1>3, <1>4 DEF RInv

\* The child looks at the size of the spec file, which is there if no call has
\* failed.
LEMMA ReadMetadataKeeps ==
    ASSUME RInv, Client!ReadMetadata,
           UNCHANGED <<Client!input, file, read_end, Client!parent_vars,
                       reader, got, deadline>>
    PROVE  RInv'
<1>1. ClientTypeOK'
  <2>1. PlacesOK'
        BY DEF Client!ReadMetadata, Client!Goto, RInv, ClientTypeOK, PlacesOK
  <2>2. CountersOK'
        BY DEF Client!ReadMetadata, Client!Goto, RInv, ClientTypeOK, CountersOK
  <2> QED
    BY <2>1, <2>2 DEF ClientTypeOK
<1>2. PhasesMatch' /\ ReadersMatch' /\ ReapedIsOver' /\ ClosedEnds'
    BY <1>1 DEF Client!ReadMetadata, Client!Goto, RInv, ClientTypeOK, PlacesOK,
       CountersOK, PhasesMatch, ReadersMatch, ClosedEnds, ReapedIsOver
<1>3. NothingLost' /\ ResultsAreWhole'
    BY <1>1 DEF Client!ReadMetadata, Client!Goto, RInv, ClientTypeOK, PlacesOK,
       CountersOK, NothingLost, ResultsAreWhole, ReapedIsOver, result_chunks,
       Client!result_chunks
<1>4. HarmlessStaysWell' /\ OkMeansComplete' /\ HarmlessCodeIsAnswered'
    BY <1>1 DEF Client!ReadMetadata, Client!Goto, RInv, ClientTypeOK, PlacesOK,
       CountersOK, PhasesMatch, ReadersMatch, ReapedIsOver, ClosedEnds, NothingLost,
       ResultsAreWhole, HarmlessStaysWell, OkMeansComplete, HarmlessCodeIsAnswered,
       harmless, result_chunks, Client!result_chunks
<1> QED
  BY <1>1, <1>2, <1>3, <1>4 DEF RInv

\* The child reads the spec file.
LEMMA ReadSpecKeeps ==
    ASSUME RInv, Client!ReadSpec,
           UNCHANGED <<Client!input, file, read_end, Client!parent_vars,
                       reader, got, deadline>>
    PROVE  RInv'
<1>1. ClientTypeOK'
  <2>1. PlacesOK'
        BY DEF Client!ReadSpec, Client!Goto, RInv, ClientTypeOK, PlacesOK
  <2>2. CountersOK'
        BY DEF Client!ReadSpec, Client!Goto, RInv, ClientTypeOK, CountersOK
  <2> QED
    BY <2>1, <2>2 DEF ClientTypeOK
<1>2. PhasesMatch' /\ ReadersMatch' /\ ReapedIsOver' /\ ClosedEnds'
    BY <1>1 DEF Client!ReadSpec, Client!Goto, RInv, ClientTypeOK, PlacesOK, CountersOK,
       PhasesMatch, ReadersMatch, ClosedEnds, ReapedIsOver
<1>3. NothingLost' /\ ResultsAreWhole'
    BY <1>1 DEF Client!ReadSpec, Client!Goto, RInv, ClientTypeOK, PlacesOK, CountersOK,
       NothingLost, ResultsAreWhole, ReapedIsOver, result_chunks, Client!result_chunks
<1>4. HarmlessStaysWell' /\ OkMeansComplete' /\ HarmlessCodeIsAnswered'
    BY <1>1 DEF Client!ReadSpec, Client!Goto, RInv, ClientTypeOK, PlacesOK, CountersOK,
       PhasesMatch, ReadersMatch, ReapedIsOver, ClosedEnds, NothingLost,
       ResultsAreWhole, HarmlessStaysWell, OkMeansComplete, HarmlessCodeIsAnswered,
       harmless, result_chunks, Client!result_chunks
<1> QED
  BY <1>1, <1>2, <1>3, <1>4 DEF RInv

\* The child maps the code.
LEMMA MapKeeps ==
    ASSUME RInv, Client!Map,
           UNCHANGED <<Client!input, file, read_end, Client!parent_vars,
                       reader, got, deadline>>
    PROVE  RInv'
<1>1. ClientTypeOK'
  <2>1. PlacesOK'
        BY DEF Client!Map, Client!Goto, Client!mappable, RInv, ClientTypeOK, PlacesOK
  <2>2. CountersOK'
        BY DEF Client!Map, Client!Goto, Client!mappable, RInv, ClientTypeOK, CountersOK
  <2> QED
    BY <2>1, <2>2 DEF ClientTypeOK
<1>2. PhasesMatch' /\ ReadersMatch' /\ ReapedIsOver' /\ ClosedEnds'
    BY <1>1 DEF Client!Map, Client!Goto, Client!mappable, RInv, ClientTypeOK, PlacesOK,
       CountersOK, PhasesMatch, ReadersMatch, ClosedEnds, ReapedIsOver
<1>3. NothingLost' /\ ResultsAreWhole'
    BY <1>1 DEF Client!Map, Client!Goto, Client!mappable, RInv, ClientTypeOK, PlacesOK,
       CountersOK, NothingLost, ResultsAreWhole, ReapedIsOver, result_chunks,
       Client!result_chunks
<1>4. HarmlessStaysWell' /\ OkMeansComplete' /\ HarmlessCodeIsAnswered'
    BY <1>1 DEF Client!Map, Client!Goto, Client!mappable, RInv, ClientTypeOK, PlacesOK,
       CountersOK, PhasesMatch, ReadersMatch, ReapedIsOver, ClosedEnds, NothingLost,
       ResultsAreWhole, HarmlessStaysWell, OkMeansComplete, HarmlessCodeIsAnswered,
       harmless, result_chunks, Client!result_chunks
<1> QED
  BY <1>1, <1>2, <1>3, <1>4 DEF RInv

\* A case is called: it is counted only when its code has returned.
LEMMA ClientCallKeeps ==
    ASSUME RInv, Client!Call,
           UNCHANGED <<Client!input, file, read_end, Client!parent_vars,
                       reader, got, deadline>>
    PROVE  RInv'
<1> DEFINE now == spec.cases[case + 1]
<1>1. /\ spec \in Specs /\ case \in Nat /\ Len(spec.cases) \in Nat
      /\ DOMAIN spec.cases = 1..Len(spec.cases)
      /\ case + 1 \in 1..Len(spec.cases)
  BY SpecsAssumption DEF Client!Call, RInv, ClientTypeOK, CountersOK
<1>2. /\ UNCHANGED <<pipe, written, limited>>
      /\ \/ now.arity > MaxArity /\ child' = "error" /\ UNCHANGED <<status, case>>
         \/ /\ now.arity <= MaxArity /\ now.code = "returns"
            /\ case' = case + 1 /\ UNCHANGED <<child, status>>
         \/ /\ now.code = "crashes" /\ child' = "exited" /\ status' = "signal"
            /\ UNCHANGED case
         \/ now.code = "loops" /\ child' = "looping" /\ UNCHANGED <<status, case>>
  BY DEF Client!Call, Client!Goto, Client!End
<1>3. child = "call"
  BY DEF Client!Call
<1> HIDE DEF now
<1>4. case' \in Nat
  BY <1>1, <1>2 DEF RInv, ClientTypeOK, CountersOK
<1>5. ClientTypeOK'
  <2>1. PlacesOK'
    BY <1>1, <1>2, <1>4 DEF RInv, ClientTypeOK, PlacesOK
  <2>2. CountersOK'
    BY <1>1, <1>2, <1>4 DEF RInv, ClientTypeOK, CountersOK
  <2> QED
    BY <2>1, <2>2 DEF ClientTypeOK
<1>6. PhasesMatch' /\ ReadersMatch' /\ ReapedIsOver' /\ ClosedEnds'
  BY <1>2, <1>3 DEF RInv, ClientTypeOK, PlacesOK, CountersOK, PhasesMatch, ReadersMatch,
     ReapedIsOver, ClosedEnds
<1>7. \A i \in 1..case' : spec.cases[i].code = "returns" /\ spec.cases[i].arity <= MaxArity
  <2>1. CASE UNCHANGED case
    BY <2>1 DEF RInv, ResultsAreWhole
  <2>2. CASE case' = case + 1 /\ now.arity <= MaxArity /\ now.code = "returns"
    <3>1. \A i \in 1..case' : i \in 1..case \/ i = case + 1
      BY <1>1, <2>2
    <3> QED
      BY <2>2, <3>1 DEF now, RInv, ResultsAreWhole
  <2> QED
    BY <1>2, <2>1, <2>2
<1>8. NothingLost' /\ ResultsAreWhole'
  BY <1>2, <1>3, <1>7 DEF RInv, NothingLost, ReapedIsOver, ResultsAreWhole
<1>9. harmless => now.arity <= MaxArity /\ now.code = "returns"
  BY <1>1 DEF now, harmless
<1>10. now.arity \in Nat /\ MaxArity \in Nat
  <2>1. spec.cases \in Seq([arity : Nat, code : {"returns", "crashes", "loops"}])
    BY <1>1, SpecsAssumption
  <2>2. now \in [arity : Nat, code : {"returns", "crashes", "loops"}]
    BY <1>1, <2>1, ElementOfSeq DEF now
  <2>3. MaxArity \in Nat
    BY RunnerAssumption
  <2> QED
    BY <2>2, <2>3
<1>11. HarmlessStaysWell' /\ OkMeansComplete' /\ HarmlessCodeIsAnswered'
  BY <1>2, <1>3, <1>9, <1>10 DEF RInv, PhasesMatch, ReapedIsOver, HarmlessStaysWell,
     OkMeansComplete, HarmlessCodeIsAnswered, harmless, result_chunks,
     Client!result_chunks
<1> QED
  BY <1>5, <1>6, <1>8, <1>11 DEF RInv

\* All cases have returned.
LEMMA FinishCallsKeeps ==
    ASSUME RInv, Client!FinishCalls,
           UNCHANGED <<Client!input, file, read_end, Client!parent_vars,
                       reader, got, deadline>>
    PROVE  RInv'
<1>1. ClientTypeOK'
  <2>1. PlacesOK'
        BY DEF Client!FinishCalls, Client!Goto, RInv, ClientTypeOK, PlacesOK
  <2>2. CountersOK'
        BY DEF Client!FinishCalls, Client!Goto, RInv, ClientTypeOK, CountersOK
  <2> QED
    BY <2>1, <2>2 DEF ClientTypeOK
<1>2. PhasesMatch' /\ ReadersMatch' /\ ReapedIsOver' /\ ClosedEnds'
    BY <1>1 DEF Client!FinishCalls, Client!Goto, RInv, ClientTypeOK, PlacesOK,
       CountersOK, PhasesMatch, ReadersMatch, ClosedEnds, ReapedIsOver
<1>3. NothingLost' /\ ResultsAreWhole'
    BY <1>1 DEF Client!FinishCalls, Client!Goto, RInv, ClientTypeOK, PlacesOK,
       CountersOK, NothingLost, ResultsAreWhole, ReapedIsOver, result_chunks,
       Client!result_chunks
<1>4. HarmlessStaysWell' /\ OkMeansComplete' /\ HarmlessCodeIsAnswered'
    BY <1>1 DEF Client!FinishCalls, Client!Goto, RInv, ClientTypeOK, PlacesOK,
       CountersOK, PhasesMatch, ReadersMatch, ReapedIsOver, ClosedEnds, NothingLost,
       ResultsAreWhole, HarmlessStaysWell, OkMeansComplete, HarmlessCodeIsAnswered,
       harmless, result_chunks, Client!result_chunks
<1> QED
  BY <1>1, <1>2, <1>3, <1>4 DEF RInv

\* A chunk goes into the pipe, or nobody can read it any more.
LEMMA WriteResultsKeeps ==
    ASSUME RInv, Client!WriteResults,
           UNCHANGED <<Client!input, file, read_end, Client!parent_vars,
                       reader, got, deadline>>
    PROVE  RInv'
<1>1. /\ child = "write" /\ UNCHANGED <<status, limited, case>>
      /\ \/ /\ pipe' = [pipe EXCEPT !["stdout"] = pipe["stdout"] + 1]
            /\ written' = written + 1
            /\ UNCHANGED child
         \/ ~read_end["stdout"] /\ child' = "error" /\ UNCHANGED <<pipe, written>>
  BY DEF Client!WriteResults, Client!Goto
<1>2. pipe' \in [Streams -> Nat] /\ written' \in Nat
  BY <1>1 DEF RInv, ClientTypeOK, CountersOK
<1>3. ClientTypeOK'
  <2>1. PlacesOK'
    BY <1>1, <1>2 DEF RInv, ClientTypeOK, PlacesOK
  <2>2. CountersOK'
    BY <1>1, <1>2 DEF RInv, ClientTypeOK, CountersOK
  <2> QED
    BY <2>1, <2>2 DEF ClientTypeOK
<1>4. PhasesMatch' /\ ReadersMatch' /\ ReapedIsOver' /\ ClosedEnds'
  BY <1>1 DEF RInv, ClientTypeOK, PlacesOK, CountersOK, PhasesMatch, ReadersMatch,
     ReapedIsOver, ClosedEnds
<1>5. NothingLost'
  <2>1. got["stdout"] \in Nat /\ pipe["stdout"] \in Nat /\ written \in Nat
    BY DEF RInv, ClientTypeOK, CountersOK
  <2>2. got["stdout"] + pipe["stdout"] = written
    BY DEF RInv, NothingLost
  <2>3. CASE pipe' = [pipe EXCEPT !["stdout"] = pipe["stdout"] + 1] /\ written' = written + 1
    <3>1. pipe'["stdout"] = pipe["stdout"] + 1
      BY <2>3 DEF RInv, ClientTypeOK, CountersOK
    <3> QED
      BY <2>1, <2>2, <2>3, <3>1 DEF NothingLost
  <2>4. CASE UNCHANGED <<pipe, written>>
    BY <2>2, <2>4 DEF NothingLost
  <2> QED
    BY <1>1, <2>3, <2>4
<1>6. ResultsAreWhole'
  BY <1>1 DEF RInv, ReapedIsOver, ResultsAreWhole
<1>7. ~os_faults /\ harmless => read_end["stdout"]
  BY <1>1 DEF RInv, ClientTypeOK, PlacesOK, CountersOK, PhasesMatch, ReapedIsOver,
     ClosedEnds
<1>8. HarmlessStaysWell' /\ OkMeansComplete' /\ HarmlessCodeIsAnswered'
  BY <1>1, <1>7 DEF RInv, HarmlessStaysWell, OkMeansComplete, HarmlessCodeIsAnswered,
     harmless, result_chunks, Client!result_chunks
<1> QED
  BY <1>3, <1>4, <1>5, <1>6, <1>8 DEF RInv

\* The child writes its message and ends with a failure.
LEMMA ReportErrorKeeps ==
    ASSUME RInv, Client!ReportError,
           UNCHANGED <<Client!input, file, read_end, Client!parent_vars,
                       reader, got, deadline>>
    PROVE  RInv'
<1>1. /\ child = "error" /\ child' = "exited" /\ status' = "failed"
      /\ UNCHANGED <<limited, case, written>>
      /\ \/ pipe' = [pipe EXCEPT !["stderr"] = pipe["stderr"] + 1]
         \/ UNCHANGED pipe
  BY DEF Client!ReportError
<1>2. pipe' \in [Streams -> Nat] /\ pipe'["stdout"] = pipe["stdout"]
  BY <1>1 DEF RInv, ClientTypeOK, CountersOK
<1>3. ClientTypeOK'
  <2>1. PlacesOK'
    BY <1>1, <1>2 DEF RInv, ClientTypeOK, PlacesOK
  <2>2. CountersOK'
    BY <1>1, <1>2 DEF RInv, ClientTypeOK, CountersOK
  <2> QED
    BY <2>1, <2>2 DEF ClientTypeOK
<1>4. PhasesMatch' /\ ReadersMatch' /\ ReapedIsOver' /\ ClosedEnds'
  BY <1>1 DEF RInv, ClientTypeOK, PlacesOK, CountersOK, PhasesMatch, ReadersMatch,
     ReapedIsOver, ClosedEnds
<1>5. NothingLost' /\ ResultsAreWhole'
  BY <1>1, <1>2 DEF RInv, NothingLost, ReapedIsOver, ResultsAreWhole
<1>6. HarmlessStaysWell' /\ OkMeansComplete' /\ HarmlessCodeIsAnswered'
  BY <1>1 DEF RInv, PhasesMatch, ReapedIsOver, HarmlessStaysWell, OkMeansComplete,
     HarmlessCodeIsAnswered, harmless, result_chunks, Client!result_chunks
<1> QED
  BY <1>3, <1>4, <1>5, <1>6 DEF RInv

\* The child ends when all results are written.
LEMMA ExitKeeps ==
    ASSUME RInv, Client!Exit,
           UNCHANGED <<Client!input, file, read_end, Client!parent_vars,
                       reader, got, deadline>>
    PROVE  RInv'
<1>1. ClientTypeOK'
  <2>1. PlacesOK'
        BY DEF Client!Exit, Client!End, RInv, ClientTypeOK, PlacesOK
  <2>2. CountersOK'
        BY DEF Client!Exit, Client!End, RInv, ClientTypeOK, CountersOK
  <2> QED
    BY <2>1, <2>2 DEF ClientTypeOK
<1>2. PhasesMatch' /\ ReadersMatch' /\ ReapedIsOver' /\ ClosedEnds'
    BY <1>1 DEF Client!Exit, Client!End, RInv, ClientTypeOK, PlacesOK, CountersOK,
       PhasesMatch, ReadersMatch, ClosedEnds, ReapedIsOver
<1>3. NothingLost' /\ ResultsAreWhole'
    BY <1>1 DEF Client!Exit, Client!End, RInv, ClientTypeOK, PlacesOK, CountersOK,
       NothingLost, ResultsAreWhole, ReapedIsOver, result_chunks, Client!result_chunks
<1>4. HarmlessStaysWell' /\ OkMeansComplete' /\ HarmlessCodeIsAnswered'
    BY <1>1 DEF Client!Exit, Client!End, RInv, ClientTypeOK, PlacesOK, CountersOK,
       PhasesMatch, ReadersMatch, ReapedIsOver, ClosedEnds, NothingLost,
       ResultsAreWhole, HarmlessStaysWell, OkMeansComplete, HarmlessCodeIsAnswered,
       harmless, result_chunks, Client!result_chunks
<1> QED
  BY <1>1, <1>2, <1>3, <1>4 DEF RInv

\* The child has used up its processor time.
LEMMA CpuLimitKeeps ==
    ASSUME RInv, Client!CpuLimit,
           UNCHANGED <<Client!input, file, read_end, Client!parent_vars,
                       reader, got, deadline>>
    PROVE  RInv'
<1>1. ClientTypeOK'
  <2>1. PlacesOK'
        BY DEF Client!CpuLimit, Client!End, running, Client!running, RInv, ClientTypeOK,
           PlacesOK
  <2>2. CountersOK'
        BY DEF Client!CpuLimit, Client!End, running, Client!running, RInv, ClientTypeOK,
           CountersOK
  <2> QED
    BY <2>1, <2>2 DEF ClientTypeOK
<1>2. PhasesMatch' /\ ReadersMatch' /\ ReapedIsOver' /\ ClosedEnds'
    BY <1>1 DEF Client!CpuLimit, Client!End, running, Client!running, RInv,
       ClientTypeOK, PlacesOK, CountersOK, PhasesMatch, ReadersMatch, ClosedEnds,
       ReapedIsOver
<1>3. NothingLost' /\ ResultsAreWhole'
    BY <1>1 DEF Client!CpuLimit, Client!End, running, Client!running, RInv,
       ClientTypeOK, PlacesOK, CountersOK, NothingLost, ResultsAreWhole, ReapedIsOver,
       result_chunks, Client!result_chunks
<1>4. HarmlessStaysWell' /\ OkMeansComplete' /\ HarmlessCodeIsAnswered'
    BY <1>1 DEF Client!CpuLimit, Client!End, running, Client!running, RInv,
       ClientTypeOK, PlacesOK, CountersOK, PhasesMatch, ReadersMatch, ReapedIsOver,
       ClosedEnds, NothingLost, ResultsAreWhole, HarmlessStaysWell, OkMeansComplete,
       HarmlessCodeIsAnswered, harmless, result_chunks, Client!result_chunks
<1> QED
  BY <1>1, <1>2, <1>3, <1>4 DEF RInv

\* A thread reads a chunk, comes to the end of the stream, or fails.
LEMMA ReaderKeeps ==
    ASSUME RInv, NEW stream \in Streams, Client!ReaderStep(stream)
    PROVE  RInv'
<1>1. /\ reader[stream] = "reading"
      /\ UNCHANGED <<Client!input, file, child, status, limited, case, written,
                     Client!parent_vars, deadline>>
  BY DEF Client!ReaderStep
<1>2. CASE /\ pipe[stream] > 0
           /\ pipe' = [pipe EXCEPT ![stream] = pipe[stream] - 1]
           /\ got' = [got EXCEPT ![stream] = got[stream] + 1]
           /\ UNCHANGED <<reader, read_end>>
  <2>1. /\ pipe[stream] \in Nat /\ got[stream] \in Nat
        /\ pipe' \in [Streams -> Nat] /\ got' \in [Streams -> Nat]
    BY <1>2 DEF RInv, ClientTypeOK, CountersOK
  <2>2. ClientTypeOK'
    <3>1. PlacesOK'
      BY <1>1, SamePlaces DEF RInv, ClientTypeOK
    <3>2. CountersOK'
      BY <1>1, <1>2, <2>1 DEF RInv, ClientTypeOK, CountersOK
    <3> QED
      BY <3>1, <3>2 DEF ClientTypeOK
  <2>3. PhasesMatch' /\ ReadersMatch' /\ ReapedIsOver'
    BY <1>1, <1>2 DEF RInv, PhasesMatch, ReadersMatch, ReapedIsOver
  <2>4. ClosedEnds'
    BY <1>1, <1>2 DEF RInv, ClientTypeOK, CountersOK, ClosedEnds
  <2>5. NothingLost'
    <3>1. got["stdout"] + pipe["stdout"] = written /\ written \in Nat
      BY DEF RInv, ClientTypeOK, CountersOK, NothingLost
    <3>2. CASE stream = "stdout"
      <4>1. got'["stdout"] = got["stdout"] + 1 /\ pipe'["stdout"] = pipe["stdout"] - 1
        BY <1>2, <3>2 DEF RInv, ClientTypeOK, CountersOK
      <4> QED
        BY <1>1, <2>1, <3>1, <3>2, <4>1 DEF NothingLost
    <3>3. CASE stream # "stdout"
      <4>1. got'["stdout"] = got["stdout"] /\ pipe'["stdout"] = pipe["stdout"]
        BY <1>2, <3>3 DEF RInv, ClientTypeOK, CountersOK
      <4> QED
        BY <1>1, <3>1, <4>1 DEF NothingLost
    <3> QED
      BY <3>2, <3>3
  <2>6. ResultsAreWhole' /\ HarmlessStaysWell' /\ HarmlessCodeIsAnswered'
    BY <1>1 DEF RInv, ResultsAreWhole, HarmlessStaysWell, HarmlessCodeIsAnswered,
       harmless, result_chunks, Client!result_chunks
  <2>7. OkMeansComplete'
    <3>1. result = "Ok" => got'["stdout"] = got["stdout"]
      BY <1>1, <1>2 DEF RInv, ClientTypeOK, CountersOK, ReadersMatch
    <3> QED
      BY <1>1, <3>1 DEF RInv, OkMeansComplete, result_chunks, Client!result_chunks
  <2> QED
    BY <2>2, <2>3, <2>4, <2>5, <2>6, <2>7 DEF RInv
<1>3. CASE /\ UNCHANGED <<pipe, got>>
           /\ read_end' = [read_end EXCEPT ![stream] = FALSE]
           /\ \/ Client!at_end(stream) /\ reader' = [reader EXCEPT ![stream] = "eof"]
              \/ os_faults /\ reader' = [reader EXCEPT ![stream] = "broken"]
  <2>1. ClientTypeOK'
    <3>1. PlacesOK'
      BY <1>1, SamePlaces DEF RInv, ClientTypeOK
    <3>2. CountersOK'
      BY <1>1, <1>3 DEF RInv, ClientTypeOK, CountersOK
    <3> QED
      BY <3>1, <3>2 DEF ClientTypeOK
  <2>2. PhasesMatch' /\ ReapedIsOver' /\ NothingLost' /\ ResultsAreWhole'
    BY <1>1, <1>3 DEF RInv, PhasesMatch, ReapedIsOver, NothingLost, ResultsAreWhole,
       result_chunks, Client!result_chunks
  <2>3. ReadersMatch'
    BY <1>1, <1>3 DEF RInv, ClientTypeOK, CountersOK, ReadersMatch
  <2>4. ClosedEnds'
    <3> SUFFICES ASSUME NEW s \in Streams
                 PROVE  /\ ~read_end'[s] => reader'[s] \in {"eof", "broken", "gone"}
                        /\ reader'[s] = "eof" => pipe[s] = 0 /\ child = "exited"
                        /\ reader'[s] = "broken" => os_faults
                        /\ reader'[s] = "gone" => parent = "exited"
      BY <1>1, <1>3 DEF ClosedEnds
    <3>1. CASE s = stream
      BY <1>3, <3>1 DEF RInv, ClientTypeOK, CountersOK, Client!at_end
    <3>2. CASE s # stream
      BY <1>3, <3>2 DEF RInv, ClientTypeOK, CountersOK, ClosedEnds
    <3> QED
      BY <3>1, <3>2
  <2>5. HarmlessStaysWell' /\ OkMeansComplete' /\ HarmlessCodeIsAnswered'
    BY <1>1, <1>3 DEF RInv, HarmlessStaysWell, OkMeansComplete, HarmlessCodeIsAnswered,
       harmless, result_chunks, Client!result_chunks
  <2> QED
    BY <2>1, <2>2, <2>3, <2>4, <2>5 DEF RInv
<1> QED
  BY <1>2, <1>3 DEF Client!ReaderStep

\* The timeout passes.
LEMMA ClockPassesKeeps ==
    ASSUME RInv, Client!ClockPasses
    PROVE  RInv'
<1>1. ClientTypeOK'
  <2>1. PlacesOK'
        BY DEF Client!ClockPasses, RInv, ClientTypeOK, PlacesOK
  <2>2. CountersOK'
        BY DEF Client!ClockPasses, RInv, ClientTypeOK, CountersOK
  <2> QED
    BY <2>1, <2>2 DEF ClientTypeOK
<1>2. PhasesMatch' /\ ReadersMatch' /\ ReapedIsOver' /\ ClosedEnds'
    BY <1>1 DEF Client!ClockPasses, RInv, ClientTypeOK, PlacesOK, CountersOK,
       PhasesMatch, ReadersMatch, ClosedEnds, ReapedIsOver
<1>3. NothingLost' /\ ResultsAreWhole'
    BY <1>1 DEF Client!ClockPasses, RInv, ClientTypeOK, PlacesOK, CountersOK,
       NothingLost, ResultsAreWhole, ReapedIsOver, result_chunks, Client!result_chunks
<1>4. HarmlessStaysWell' /\ OkMeansComplete' /\ HarmlessCodeIsAnswered'
    BY <1>1 DEF Client!ClockPasses, RInv, ClientTypeOK, PlacesOK, CountersOK,
       PhasesMatch, ReadersMatch, ReapedIsOver, ClosedEnds, NothingLost,
       ResultsAreWhole, HarmlessStaysWell, OkMeansComplete, HarmlessCodeIsAnswered,
       harmless, result_chunks, Client!result_chunks
<1> QED
  BY <1>1, <1>2, <1>3, <1>4 DEF RInv

-----------------------------------------------------------------------------
(* The theorems.                                                           *)

\* Before run starts there is no file, no child and no result.
LEMMA InitRInv == Client!Init => RInv
<1> SUFFICES ASSUME Client!Init PROVE RInv
  OBVIOUS
<1>1. ClientTypeOK
  <2>1. PlacesOK
    BY SpecsAssumption DEF Client!Init, ClientTypeOK, PlacesOK
  <2>2. CountersOK
    BY SpecsAssumption DEF Client!Init, ClientTypeOK, CountersOK
  <2> QED
    BY <2>1, <2>2 DEF ClientTypeOK
<1>2. PhasesMatch /\ ReadersMatch /\ ReapedIsOver /\ ClosedEnds
  BY DEF Client!Init, PhasesMatch, ReadersMatch, ReapedIsOver, ClosedEnds
<1>3. NothingLost /\ ResultsAreWhole
  BY DEF Client!Init, NothingLost, ResultsAreWhole
<1>4. HarmlessStaysWell /\ OkMeansComplete /\ HarmlessCodeIsAnswered
  BY DEF Client!Init, HarmlessStaysWell, OkMeansComplete, HarmlessCodeIsAnswered
<1> QED
  BY <1>1, <1>2, <1>3, <1>4 DEF RInv

\* The invariant holds in every state of parent, child and threads.
THEOREM RunInvariant == Client!Spec => []RInv
<1>1. RInv /\ [Client!Next]_(Client!vars) => RInv'
  <2> SUFFICES ASSUME RInv, [Client!Next]_(Client!vars) PROVE RInv'
    OBVIOUS
  <2>1. CASE Client!ParentStep
    BY <2>1, CreateTempKeeps, WriteSpecKeeps, find_or_build_runner_exeKeeps, SpawnKeeps,
       ReadInBackgroundKeeps, PollKeeps, CheckTimeoutKeeps, KillKeeps, WaitKeeps,
       finish_stdoutKeeps, finish_stderrKeeps DEF Client!ParentStep
  <2>2. CASE Client!CliExit
    BY <2>2, CliExitKeeps
  <2>3. CASE Client!Runner
    <3>1. UNCHANGED <<Client!input, file, read_end, Client!parent_vars, reader, got, deadline>>
      BY <2>3 DEF Client!Runner
    <3> QED
      BY <2>3, <3>1, apply_limitsKeeps, ReadMetadataKeeps, ReadSpecKeeps, MapKeeps,
         ClientCallKeeps, FinishCallsKeeps, WriteResultsKeeps, ReportErrorKeeps,
         ExitKeeps DEF Client!Runner, Client!ChildStep
  <2>4. CASE Client!Xcpu
    <3>1. /\ Client!CpuLimit
          /\ UNCHANGED <<Client!input, file, read_end, Client!parent_vars,
                         reader, got, deadline>>
      BY <2>4 DEF Client!Xcpu
    <3> QED
      BY <3>1, CpuLimitKeeps
  <2>5. CASE \E stream \in Streams : Client!ReaderStep(stream)
    BY <2>5, ReaderKeeps
  <2>6. CASE Client!ClockPasses
    BY <2>6, ClockPassesKeeps
  <2>7. CASE UNCHANGED (Client!vars)
    <3>1. PlacesOK' /\ PhasesMatch'
      BY <2>7, SamePlaces DEF Client!vars, RInv, ClientTypeOK, PhasesMatch
    <3>2. ReadersMatch'
      BY <2>7 DEF Client!vars, RInv, ReadersMatch
    <3>3. ReapedIsOver' /\ ClosedEnds'
      BY <2>7 DEF Client!vars, RInv, ReapedIsOver, ClosedEnds
    <3>4. CountersOK' /\ NothingLost' /\ ResultsAreWhole'
      BY <2>7 DEF Client!vars, RInv, ClientTypeOK, CountersOK, NothingLost,
         ResultsAreWhole, result_chunks, Client!result_chunks
    <3>5. HarmlessStaysWell' /\ OkMeansComplete' /\ HarmlessCodeIsAnswered'
      BY <2>7 DEF Client!vars, RInv, HarmlessStaysWell, OkMeansComplete,
         HarmlessCodeIsAnswered, harmless, result_chunks, Client!result_chunks
    <3> QED
      BY <3>1, <3>2, <3>3, <3>4, <3>5 DEF RInv, ClientTypeOK
  <2> QED
    BY <2>1, <2>2, <2>3, <2>4, <2>5, <2>6, <2>7 DEF Client!Next
<1> QED
  BY <1>1, InitRInv, PTL DEF Client!Spec

\* run answers Ok only when every case has returned and all of the child's
\* output has been read, however small the pipes are.
THEOREM RunOkMeansComplete == Client!Spec => []OkMeansComplete
BY RunInvariant, PTL DEF RInv

\* run leaves no child behind, running or unreaped, unless try_wait or kill
\* has failed.
THEOREM RunLeavesNothingBehind == Client!Spec => []NothingLeftBehind
<1>1. RInv => NothingLeftBehind
  BY DEF RInv, ClientTypeOK, PlacesOK, CountersOK, PhasesMatch, ReapedIsOver,
     NothingLeftBehind, running, Client!running
<1> QED
  BY <1>1, RunInvariant, PTL

\* The temporary file is complete as long as the child may still read it,
\* unless try_wait or kill has failed.
THEOREM RunKeepsSpecFile == Client!Spec => []SpecFileOutlivesRead
<1>1. RInv => SpecFileOutlivesRead
  BY DEF RInv, ClientTypeOK, PlacesOK, CountersOK, PhasesMatch, ReapedIsOver,
     SpecFileOutlivesRead
<1> QED
  BY <1>1, RunInvariant, PTL

\* Code within the limits that returns is answered with its results, unless
\* the operating system, the timeout or the processor limit interferes.
THEOREM RunAnswersHarmlessCode == Client!Spec => []HarmlessCodeIsAnswered
BY RunInvariant, PTL DEF RInv
=============================================================================
