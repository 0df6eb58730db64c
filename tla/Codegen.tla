------------------------------- MODULE Codegen ------------------------------
(***************************************************************************)
(* emit_function_i64 of crates/codegen against the reference interpreter.  *)
(*                                                                         *)
(* Emit is the call of the emitter: its checks, and the start of the run.  *)
(* Afterwards the emitted code is executed in step with the interpreter:   *)
(* one step executes an IR instruction in Interp and the machine           *)
(* instructions emitted for it on cell, the registers and the stack frame. *)
(* The moves of an edge are steps of ParallelMoves between the interpreter's *)
(* terminator and its evaluation of the phis.                              *)
(*                                                                         *)
(* Left out: encoding, labels, flags (each test or cmp is next to its      *)
(* jump) and the load and store counters.                                  *)
(***************************************************************************)
EXTENDS Alloc, InterpState

CONSTANTS
    RegSet,         \* the PhysRegSet
    SlotIndices,    \* function -> the slot indices its assignments may use
    I32Max,         \* the largest i32
    MaxFrameBytes,  \* MAX_STACK_FRAME_BYTES, a multiple of 16
    Garbage         \* what registers and the frame hold on entry

ASSUME RegistersAssumption == RegSet.regs \in Seq(STRING) /\ RegSet.scratch \in Seq(STRING)
ASSUME SlotIndicesAssumption == \A g \in Programs : SlotIndices[g] \subseteq 0..U32Max
ASSUME FrameAssumption ==
    /\ I32Max \in Nat /\ I32Max < U32Max
    /\ MaxFrameBytes \in Nat /\ MaxFrameBytes % 16 = 0

VARIABLES
    map,            \* the assignment handed to the emitter
    intervals,      \* compute_live_intervals(f), which the emitter recomputes
    emitted,        \* "no", "yes" or "rejected"
    cell,           \* the contents of registers and frame
    moves,          \* the moves of the edge still to execute
    want,           \* ghost: the parallel copy of the edge
    m_current,      \* the block the machine is in
    m_returned      \* rax at the ret instruction

vars == <<f, args, current, predecessor, index, regs, steps, outcome, returned,
          map, intervals, emitted, cell, moves, want, m_current, m_returned>>

-----------------------------------------------------------------------------
(* Locations.  The frame holds the saved arguments first, then the slots.  *)

RegLocs == {Reg(r) : r \in Range(RegSet.regs) \cup Range(RegSet.scratch) \cup {"Rax"}}
MaxArgs == 6
FrameLocs == {Stack(i) : i \in 0..(MaxFrameBytes \div 8 - 1)}
scratch0 == Reg(RegSet.scratch[1])
scratch1 == Reg(RegSet.scratch[2])
rax == Reg("Rax")

arg_shadow_addr(i) == Stack(i)

stack_addr_with_base(slot) == Stack(f.args + slot)

\* Where value v lives while the function runs.
home(v) == IF map[v].kind = "reg" THEN map[v] ELSE stack_addr_with_base(map[v].slot)
is_spilled(v) == map[v].kind = "stack"

-----------------------------------------------------------------------------
(* get_val and set_val, on the contents c.                                 *)

\* The register the value is in after get_val, and the contents then.
val_reg(v, preferred) == IF is_spilled(v) THEN preferred ELSE home(v)
get_val(c, v, preferred) ==
    IF is_spilled(v) THEN [c EXCEPT ![preferred] = c[home(v)]] ELSE c

set_val(c, v, src) == [c EXCEPT ![home(v)] = c[src]]

mov(c, dst, src) == [c EXCEPT ![dst] = c[src]]

-----------------------------------------------------------------------------
(* The machine code of an instruction.                                     *)

\* Constants, sums and products are computed in the destination's register.
destination_register(v) == IF is_spilled(v) THEN scratch0 ELSE home(v)

\* The machine's add and imul.
binary(op, x, y) == wrap(IF op = "add" THEN x + y ELSE x * y)

\* Wrong variant: a spilled right operand is loaded first, into scratch0, where
\* the left operand of a spilled destination goes too.
emit_binary_right_first(c, i) ==
    LET d == destination_register(i.dst)
        c1 == get_val(c, i.b, scratch0)
        right == val_reg(i.b, scratch0)
        c2 == mov(get_val(c1, i.a, d), d, val_reg(i.a, d))
        c3 == [c2 EXCEPT ![d] = binary(i.op, c2[d], c2[right])]
    IN  set_val(c3, i.dst, d)

\* add and imul: the left operand moves to the destination's register before
\* the right one is read.
emit_binary(c, i) ==
    LET d == destination_register(i.dst)
        c1 == mov(get_val(c, i.a, d), d, val_reg(i.a, d))
        c2 == get_val(c1, i.b, scratch1)
        c3 == [c2 EXCEPT ![d] = binary(i.op, c2[d], c2[val_reg(i.b, scratch1)])]
    IN  set_val(c3, i.dst, d)

emit_const(c, i) ==
    LET d == destination_register(i.dst)
    IN  set_val([c EXCEPT ![d] = i.imm], i.dst, d)

emit_mov(c, i) == set_val(get_val(c, i.src, scratch0), i.dst, val_reg(i.src, scratch0))

emit_arg(c, i) == set_val(mov(c, scratch0, arg_shadow_addr(i.idx)), i.dst, scratch0)

emit_cmp(c, i) ==
    LET c1 == get_val(c, i.a, scratch0)
        c2 == get_val(c1, i.b, scratch1)
        gt == c2[val_reg(i.a, scratch0)] > c2[val_reg(i.b, scratch1)]
    IN  set_val([c2 EXCEPT ![scratch0] = IF gt THEN 1 ELSE 0], i.dst, scratch0)

execute_inst(c, i) ==
    CASE i.op = "const" -> emit_const(c, i)
      [] i.op \in {"add", "mul"} -> emit_binary(c, i)
      [] i.op = "mov" -> emit_mov(c, i)
      [] i.op = "cmpgt" -> emit_cmp(c, i)
      [] i.op = "arg" -> emit_arg(c, i)
      [] i.op = "phi" -> c

-----------------------------------------------------------------------------
(* The edge moves.                                                         *)

\* phi_moves_for_edge: the phis of the successor in order, without the moves
\* of a location to itself.
phi_moves_for_edge(pred, succ) ==
    LET insts == try_block(f, succ).insts
        move(i) == <<home(i.dst), home(incoming_from(i, pred))>>
        moves_of(i) == IF is_phi(i) /\ has_incoming(i, pred) /\ move(i)[1] # move(i)[2]
                       THEN <<move(i)>> ELSE <<>>
        after[n \in 0..Len(insts)] ==
            IF n = 0 THEN <<>> ELSE after[n - 1] \o moves_of(insts[n])
    IN  after[Len(insts)]

Interpreter == INSTANCE Interp

Edge == INSTANCE ParallelMoves WITH
            Registers <- RegLocs \ {scratch0, scratch1},
            Slots <- FrameLocs,
            Temporary <- scratch0,
            Temporary2 <- scratch1,
            Sources <- (RegLocs \ {scratch0, scratch1}) \cup FrameLocs,
            MaxMoves <- U32Max

-----------------------------------------------------------------------------
(* The call of emit_function_i64.                                          *)

assignment ==
    [map |-> map, spills |-> Cardinality(spilled(map)), stack_slots |-> expected_slots(map)]

\* Wrong variant: the saved arguments are not counted.
total_slots_without_args == assignment.stack_slots

\* The frame in bytes, a multiple of 16; each step is a checked i32 operation.
total_slots == f.args + assignment.stack_slots
aligned_bytes == ((total_slots * 8 + 15) \div 16) * 16
frame_fits ==
    /\ assignment.stack_slots <= I32Max
    /\ total_slots <= I32Max
    /\ total_slots * 8 + 15 <= I32Max
    /\ aligned_bytes <= MaxFrameBytes

accepts ==
    /\ validate_function(f)
    /\ validate_for_codegen(RegSet)
    /\ f.args <= MaxArgs
    /\ verify_assignment(intervals, RegSet, Len(RegSet.regs), assignment) = {"Ok"}
    /\ frame_fits

\* The prologue saves the arguments in the frame.
Emit ==
    /\ emitted = "no"
    /\ \/ /\ accepts
          /\ emitted' = "yes"
          /\ cell' = [l \in RegLocs \cup FrameLocs |->
                        IF l \in {arg_shadow_addr(i) : i \in 0..(f.args - 1)}
                        THEN args[l.slot + 1] ELSE Garbage]
       \/ /\ ~accepts
          /\ emitted' = "rejected"
          /\ UNCHANGED cell
    /\ UNCHANGED <<interp_vars, map, intervals, moves, want, m_current, m_returned>>

-----------------------------------------------------------------------------
(* Running in step.                                                        *)

together == emitted = "yes" /\ m_current = current

\* The machine does nothing on entry: the phis were executed on the edge.
EnterBlock ==
    /\ together
    /\ moves = <<>>
    /\ Interpreter!EnterBlock
    /\ UNCHANGED <<map, intervals, emitted, cell, moves, want, m_current, m_returned>>

\* The interpreter gives up; what the machine goes on to do is not compared.
StopAtLimit ==
    /\ together
    /\ moves = <<>>
    /\ Interpreter!StopAtLimit
    /\ UNCHANGED <<map, intervals, emitted, cell, moves, want, m_current, m_returned>>

Execute ==
    /\ together
    /\ Interpreter!Execute
    /\ cell' = execute_inst(cell, Interpreter!inst)
    /\ UNCHANGED <<map, intervals, emitted, moves, want, m_current, m_returned>>

MachineRet ==
    /\ Interpreter!block.term.op = "ret"
    /\ LET v == Interpreter!block.term.value IN
       /\ cell' = mov(get_val(cell, v, rax), rax, val_reg(v, rax))
       /\ m_returned' = cell'[rax]
    /\ UNCHANGED <<moves, want, m_current>>

\* The moves of the edge to target are next, and then the jump.
take_edge(c, target) ==
    /\ cell' = c
    /\ m_current' = target
    /\ moves' = phi_moves_for_edge(current, target)
    /\ want' = Edge!parallel_copy(c, moves')
    /\ UNCHANGED m_returned

MachineJmp ==
    /\ Interpreter!block.term.op = "jmp"
    /\ take_edge(cell, Interpreter!block.term.target)

MachineBr ==
    /\ Interpreter!block.term.op = "br"
    /\ LET term == Interpreter!block.term
           c == get_val(cell, term.cond, scratch0)
           condition == c[val_reg(term.cond, scratch0)]
       IN  take_edge(c, IF condition # 0 THEN term.then_bb ELSE term.else_bb)

Terminate ==
    /\ together
    /\ Interpreter!Terminate
    /\ MachineRet \/ MachineJmp \/ MachineBr
    /\ UNCHANGED <<map, intervals, emitted>>

\* The machine executes the next move of the edge.
MoveOnEdge ==
    /\ together
    /\ Edge!MoveFree \/ Edge!BreakCycle
    /\ UNCHANGED <<interp_vars, map, intervals, emitted, m_current, m_returned>>

\* Any assignment of the values to the registers and the slots offered, with
\* the spill and slot counts that verify_assignment expects.
Init ==
    /\ Interpreter!Init
    /\ intervals = compute_live_intervals(f)
    /\ map \in [DOMAIN intervals -> {Reg(r) : r \in Range(RegSet.regs)}
                                      \cup {Stack(i) : i \in SlotIndices[f]}]
    /\ emitted = "no"
    /\ cell = [l \in {} |-> Garbage]
    /\ moves = <<>>
    /\ want = [l \in {} |-> Garbage]
    /\ m_current = f.entry
    /\ m_returned = Garbage

Next == Emit \/ EnterBlock \/ StopAtLimit \/ Execute \/ Terminate \/ MoveOnEdge

Spec == Init /\ [][Next]_vars

-----------------------------------------------------------------------------
(* Properties.                                                             *)

\* The values some path from instruction i of the current block still reads.
live_before(i) ==
    LET b == Interpreter!block
        n == Len(b.insts)
        later == {v \in compute_liveness(f).live_out[current] :
                     \A j \in i..n : b.insts[j].dst # v}
    IN  later \cup UNION {{v \in used_at(b, j) : \A k \in i..(j - 1) : b.insts[k].dst # v} :
                             j \in i..(n + 1)}

\* Every value that is still read is intact in its location: no instruction,
\* no spill through a scratch register and no move of an edge has destroyed
\* it.  verify_assignment is what the emitter relies on for this.
LiveValuesAgree ==
    emitted = "yes" /\ outcome = "running" /\ index >= 1 /\ m_current = current =>
        \A v \in live_before(index) : cell[home(v)] = regs[v]

\* The generated code takes the branches the interpreter takes and returns
\* what it returns.
ResultsAgree ==
    emitted = "yes" =>
        /\ m_current = current
        /\ outcome = "returned" => m_returned = returned

\* Every value's slot lies inside the frame the prologue reserves, and none
\* lies on a saved argument.
FrameHoldsEverySlot ==
    emitted = "yes" =>
        \A v \in spilled(map) :
            /\ 8 * (home(v).slot + 1) <= aligned_bytes
            /\ home(v) \notin {arg_shadow_addr(i) : i \in 0..(f.args - 1)}
=============================================================================
