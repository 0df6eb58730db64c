--------------------------------- MODULE IR ---------------------------------
(***************************************************************************)
(* The SSA intermediate representation of crates/ir.                       *)
(*                                                                         *)
(*   function    [args, entry, blocks]   blocks is the Vec<Block>          *)
(*   block       [id, insts, term]                                         *)
(*   value       a natural number (VReg)                                   *)
(*   integer     i64 with the width left open: HalfRange is 2^63           *)
(*                                                                         *)
(* The name of a function is left out: nothing reads it but messages.      *)
(***************************************************************************)
EXTENDS Integers, Sequences, FiniteSets, SequencesExt

CONSTANT HalfRange      \* integers are -HalfRange .. HalfRange - 1

ASSUME HalfRangeAssumption == HalfRange \in Nat \ {0}

wrap(x) == ((x + HalfRange) % (2 * HalfRange)) - HalfRange

-----------------------------------------------------------------------------
(* Instructions and terminators.                                           *)

ConstI64(d, imm) == [op |-> "const", dst |-> d, imm |-> imm]
ArgI64(d, idx) == [op |-> "arg", dst |-> d, idx |-> idx]
AddI64(d, a, b) == [op |-> "add", dst |-> d, a |-> a, b |-> b]
MulI64(d, a, b) == [op |-> "mul", dst |-> d, a |-> a, b |-> b]
CmpGtI64(d, a, b) == [op |-> "cmpgt", dst |-> d, a |-> a, b |-> b]
MovI64(d, src) == [op |-> "mov", dst |-> d, src |-> src]
\* incoming is a sequence of pairs <<predecessor, value>>.
PhiI64(d, incoming) == [op |-> "phi", dst |-> d, incoming |-> incoming]

Ret(v) == [op |-> "ret", value |-> v]
Jmp(t) == [op |-> "jmp", target |-> t]
Br(c, t, e) == [op |-> "br", cond |-> c, then_bb |-> t, else_bb |-> e]

is_phi(inst) == inst.op = "phi"

-----------------------------------------------------------------------------
(* Types: what a value of the structs and enums of the code can be.         *)

is_inst(inst) ==
    /\ inst.op \in {"const", "arg", "add", "mul", "cmpgt", "mov", "phi"}
    /\ inst.op = "arg" => inst.idx \in Nat
    /\ inst.op = "phi" => inst.incoming \in Seq(Range(inst.incoming))

is_block(block) ==
    /\ block.id \in Nat
    /\ block.insts \in Seq(Range(block.insts))
    /\ \A i \in DOMAIN block.insts : is_inst(block.insts[i])
    /\ block.term.op \in {"ret", "jmp", "br"}

is_function(f) ==
    /\ f.args \in Nat
    /\ f.blocks \in Seq(Range(f.blocks))
    /\ \A k \in DOMAIN f.blocks : is_block(f.blocks[k])

-----------------------------------------------------------------------------
(* Queries.  The code returns small vectors; every caller uses them as sets. *)

block_ids(f) == {f.blocks[k].id : k \in DOMAIN f.blocks}

\* try_block: the first block with this id.
try_block(f, id) ==
    f.blocks[CHOOSE k \in DOMAIN f.blocks :
                /\ f.blocks[k].id = id
                /\ \A j \in 1..(k - 1) : f.blocks[j].id # id]

successors(term) ==
    CASE term.op = "ret" -> {}
      [] term.op = "jmp" -> {term.target}
      [] term.op = "br" -> {term.then_bb, term.else_bb}

uses(inst) ==
    CASE inst.op \in {"const", "arg"} -> {}
      [] inst.op \in {"add", "mul", "cmpgt"} -> {inst.a, inst.b}
      [] inst.op = "mov" -> {inst.src}
      [] inst.op = "phi" -> {p[2] : p \in Range(inst.incoming)}

term_uses(term) ==
    CASE term.op = "ret" -> {term.value}
      [] term.op = "jmp" -> {}
      [] term.op = "br" -> {term.cond}

\* The value a phi takes on the edge from block pred: the first entry for it.
has_incoming(inst, pred) == \E p \in Range(inst.incoming) : p[1] = pred
incoming_from(inst, pred) ==
    LET i == CHOOSE k \in DOMAIN inst.incoming :
                /\ inst.incoming[k][1] = pred
                /\ \A j \in 1..(k - 1) : inst.incoming[j][1] # pred
    IN  inst.incoming[i][2]
=============================================================================
