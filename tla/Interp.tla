------------------------------- MODULE Interp -------------------------------
(***************************************************************************)
(* The reference interpreter, Interpreter::eval_i64_with_limit of          *)
(* crates/ir.  A step enters a block (and evaluates its phis together),    *)
(* executes one instruction, or executes the terminator.                   *)
(***************************************************************************)
EXTENDS InterpState

NoBlock == -1

known_block == current \in block_ids(f)
block == try_block(f, current)
inst == block.insts[index]
at_instruction == index > 0 /\ index \in DOMAIN block.insts
at_terminator == index > 0 /\ index = Len(block.insts) + 1

-----------------------------------------------------------------------------
(* The step counter.                                                       *)

within_limit == steps + 1 <= StepLimit

\* The check at the head of a block and of an instruction fails.
StopAtLimit ==
    /\ outcome = "running"
    /\ index = 0 \/ at_instruction
    /\ ~within_limit
    /\ outcome' = "step limit exceeded"
    /\ UNCHANGED <<f, args, current, predecessor, index, regs, steps, returned>>

-----------------------------------------------------------------------------
(* Entering a block.                                                       *)

put(m, v, x) == [w \in DOMAIN m \cup {v} |-> IF w = v THEN x ELSE m[w]]

\* Why the evaluation of the phis fails, if it does.
phi_errors ==
    {CASE predecessor = NoBlock -> "phi in entry block"
       [] predecessor # NoBlock /\ ~has_incoming(p, predecessor) -> "phi missing incoming"
       [] OTHER -> "undefined value" :
     p \in {q \in phis(block) :
               \/ predecessor = NoBlock
               \/ ~has_incoming(q, predecessor)
               \/ incoming_from(q, predecessor) \notin DOMAIN regs}}

\* All phis read the values from before the block; the last one to write a
\* value sets it.
phi_results ==
    LET writers(v) == {j \in DOMAIN block.insts :
                          is_phi(block.insts[j]) /\ block.insts[j].dst = v}
        result(v) == regs[incoming_from(block.insts[Max(writers(v))], predecessor)]
    IN  [v \in DOMAIN regs \cup {p.dst : p \in phis(block)} |->
            IF writers(v) # {} THEN result(v) ELSE regs[v]]

\* Wrong variant: only instructions are counted.
EnterBlockUncounted ==
    /\ outcome = "running"
    /\ index = 0
    /\ known_block
    /\ phi_errors = {}
    /\ regs' = phi_results
    /\ index' = 1
    /\ UNCHANGED <<f, args, current, predecessor, steps, outcome, returned>>

EnterBlock ==
    /\ outcome = "running"
    /\ index = 0
    /\ within_limit
    /\ steps' = steps + 1
    /\ \/ /\ ~known_block
          /\ outcome' = "unknown block"
          /\ UNCHANGED <<regs, index>>
       \/ /\ known_block
          /\ phi_errors = {}
          /\ regs' = phi_results
          /\ index' = 1
          /\ UNCHANGED outcome
       \/ /\ known_block
          /\ phi_errors # {}
          /\ outcome' \in phi_errors
          /\ UNCHANGED <<regs, index>>
    /\ UNCHANGED <<f, args, current, predecessor, returned>>

-----------------------------------------------------------------------------
(* Executing an instruction.                                               *)

\* Two's complement arithmetic: wrapping_add and wrapping_mul.
result_of(i) ==
    CASE i.op = "const" -> i.imm
      [] i.op = "arg" -> args[i.idx + 1]
      [] i.op = "add" -> wrap(regs[i.a] + regs[i.b])
      [] i.op = "mul" -> wrap(regs[i.a] * regs[i.b])
      [] i.op = "cmpgt" -> IF regs[i.a] > regs[i.b] THEN 1 ELSE 0
      [] i.op = "mov" -> regs[i.src]

instruction_errors ==
    (IF inst.op = "arg" /\ inst.idx >= Len(args) THEN {"argument out of range"} ELSE {})
      \cup (IF uses(inst) \subseteq DOMAIN regs THEN {} ELSE {"undefined value"})

ExecutePhi ==
    /\ is_phi(inst)
    /\ index' = index + 1
    /\ UNCHANGED <<regs, outcome>>

ExecuteInst ==
    /\ ~is_phi(inst)
    /\ \/ /\ instruction_errors = {}
          /\ regs' = put(regs, inst.dst, result_of(inst))
          /\ index' = index + 1
          /\ UNCHANGED outcome
       \/ /\ instruction_errors # {}
          /\ outcome' \in instruction_errors
          /\ UNCHANGED <<regs, index>>

Execute ==
    /\ outcome = "running"
    /\ at_instruction
    /\ within_limit
    /\ steps' = steps + 1
    /\ ExecutePhi \/ ExecuteInst
    /\ UNCHANGED <<f, args, current, predecessor, returned>>

-----------------------------------------------------------------------------
(* Executing the terminator.                                               *)

goto(target) ==
    /\ predecessor' = current
    /\ current' = target
    /\ index' = 0
    /\ UNCHANGED <<outcome, returned>>

fail_undefined ==
    /\ ~(term_uses(block.term) \subseteq DOMAIN regs)
    /\ outcome' = "undefined value"
    /\ UNCHANGED <<predecessor, current, index, returned>>

Return ==
    /\ block.term.op = "ret"
    /\ block.term.value \in DOMAIN regs
    /\ outcome' = "returned"
    /\ returned' = regs[block.term.value]
    /\ UNCHANGED <<predecessor, current, index>>

Jump == block.term.op = "jmp" /\ goto(block.term.target)

Branch ==
    /\ block.term.op = "br"
    /\ block.term.cond \in DOMAIN regs
    /\ goto(IF regs[block.term.cond] # 0 THEN block.term.then_bb ELSE block.term.else_bb)

Terminate ==
    /\ outcome = "running"
    /\ at_terminator
    /\ Return \/ Jump \/ Branch \/ fail_undefined
    /\ UNCHANGED <<f, args, regs, steps>>

-----------------------------------------------------------------------------

Init ==
    /\ f \in Programs
    /\ args \in [1..f.args -> Inputs]
    /\ current = f.entry
    /\ predecessor = NoBlock
    /\ index = 0
    /\ regs = [v \in {} |-> 0]
    /\ steps = 0
    /\ outcome = "running"
    /\ returned = 0

Next == StopAtLimit \/ EnterBlock \/ Execute \/ Terminate

Spec == Init /\ [][Next]_interp_vars /\ WF_interp_vars(Next)

-----------------------------------------------------------------------------
(* Properties.                                                             *)

\* The interpreter stops, at the latest when the step limit is reached.
Terminates == <>(outcome # "running")
=============================================================================
