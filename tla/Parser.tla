------------------------------- MODULE Parser -------------------------------
(***************************************************************************)
(* ir::parser::parse: the lines of a program are read one by one into      *)
(* blocks.  A label may be used before its block comes, so phis and        *)
(* terminators are put aside with the place they belong to and resolved    *)
(* after the last line.  One step reads a line or resolves an entry.       *)
(***************************************************************************)
EXTENDS ParserState

vars == <<text, args, phase, blocks, current, current_terminated, label_to_id,
          pending_phis, pending_terms, result>>

tables == <<label_to_id, pending_phis, pending_terms>>

\* ? and bail!: parse returns the error.
Fail ==
    /\ phase' = "done"
    /\ result' = "error"
    /\ UNCHANGED <<args, blocks, current, current_terminated, tables>>

-----------------------------------------------------------------------------
(* The header and the lines.                                               *)

ReadHeader ==
    /\ phase = "header"
    /\ \/ /\ args # -1
          /\ phase' = "lines"
          /\ UNCHANGED <<args, blocks, current, current_terminated, tables, result>>
       \/ args = -1 /\ Fail
    /\ UNCHANGED text

\* finish_current refuses a block without a terminator.
can_finish == current = <<>> \/ current_terminated

\* Wrong variant: a second spelling of a block id is taken for a second block.
read_block_by_id(line) ==
    LET id == parse_block_id[line.label]
        known_ids == {label_to_id[l] : l \in DOMAIN label_to_id}
    IN
    \/ /\ can_finish
       /\ id # NoId
       /\ id \notin known_ids
       /\ blocks' = blocks \o current
       /\ current' = <<[id |-> id, insts |-> <<>>, term |-> Jmp(id)]>>
       /\ current_terminated' = FALSE
       /\ label_to_id' = [l \in DOMAIN label_to_id \cup {line.label} |->
                             IF l = line.label THEN id ELSE label_to_id[l]]
       /\ UNCHANGED <<args, phase, pending_phis, pending_terms, result>>
    \/ ~can_finish /\ Fail
    \/ can_finish /\ id = NoId /\ Fail
    \/ can_finish /\ id \in known_ids /\ Fail

read_block(line) ==
    LET id == parse_block_id[line.label] IN
    \/ /\ can_finish
       /\ id # NoId
       /\ line.label \notin DOMAIN label_to_id
       /\ blocks' = blocks \o current
       /\ current' = <<[id |-> id, insts |-> <<>>, term |-> Jmp(id)]>>
       /\ current_terminated' = FALSE
       /\ label_to_id' = [l \in DOMAIN label_to_id \cup {line.label} |->
                             IF l = line.label THEN id ELSE label_to_id[l]]
       /\ UNCHANGED <<args, phase, pending_phis, pending_terms, result>>
    \/ ~can_finish /\ Fail
    \/ can_finish /\ id = NoId /\ Fail
    \/ can_finish /\ line.label \in DOMAIN label_to_id /\ Fail

\* Wrong variant: the terminator is filed under the block before.
read_term_before(line) ==
    \/ /\ ~current_terminated
       /\ pending_terms' = Append(pending_terms, <<Len(blocks), line>>)
       /\ current_terminated' = TRUE
       /\ UNCHANGED <<args, phase, blocks, current, label_to_id, pending_phis, result>>
    \/ current_terminated /\ Fail

\* The block is not in blocks yet: it will come after those that are.
read_term(line) ==
    \/ /\ ~current_terminated
       /\ pending_terms' = Append(pending_terms, <<Len(blocks) + 1, line>>)
       /\ current_terminated' = TRUE
       /\ UNCHANGED <<args, phase, blocks, current, label_to_id, pending_phis, result>>
    \/ current_terminated /\ Fail

\* A phi leaves a constant in its place.
read_inst(line) ==
    \/ /\ ~current_terminated
       /\ line.op # "bad"
       /\ current' = [current EXCEPT ![1].insts =
              Append(@, IF line.op = "phi" THEN ConstI64(line.dst, 0) ELSE line.inst)]
       /\ pending_phis' =
              IF line.op # "phi" THEN pending_phis
              ELSE Append(pending_phis,
                          <<Len(blocks) + 1, Len(current[1].insts) + 1, line>>)
       /\ UNCHANGED <<args, phase, blocks, current_terminated, label_to_id,
                      pending_terms, result>>
    \/ current_terminated /\ Fail
    \/ ~current_terminated /\ line.op = "bad" /\ Fail

ReadLine(line) ==
    /\ phase = "lines"
    /\ Len(text) < MaxLines
    /\ text' = Append(text, line)
    /\ \/ line.op = "block" /\ read_block(line)
       \/ line.op # "block" /\ current = <<>> /\ Fail
       \/ /\ line.op # "block"
          /\ current # <<>>
          /\ \/ is_terminator(line) /\ read_term(line)
             \/ ~is_terminator(line) /\ read_inst(line)

\* The end of the text: the last block is finished, and there must be one.
EndOfText ==
    /\ phase = "lines"
    /\ \/ /\ current # <<>>
          /\ current_terminated
          /\ blocks' = blocks \o current
          /\ current' = <<>>
          /\ phase' = "phis"
          /\ UNCHANGED <<args, current_terminated, tables, result>>
       \/ (current = <<>> \/ ~current_terminated) /\ Fail
    /\ UNCHANGED text

-----------------------------------------------------------------------------
(* Resolving the labels.                                                   *)

known(names) == names \subseteq DOMAIN label_to_id

phi_resolves(line) ==
    /\ line.incoming # <<>>
    /\ known({line.incoming[n][1] : n \in DOMAIN line.incoming})

ResolvePhi ==
    /\ phase = "phis"
    /\ pending_phis # <<>>
    /\ LET at == Head(pending_phis)
           line == at[3]
       IN  \/ /\ phi_resolves(line)
              /\ blocks' = [blocks EXCEPT ![at[1]].insts[at[2]] =
                     PhiI64(@.dst, [n \in DOMAIN line.incoming |->
                         <<label_to_id[line.incoming[n][1]], line.incoming[n][2]>>])]
              /\ pending_phis' = Tail(pending_phis)
              /\ UNCHANGED <<args, phase, current, current_terminated,
                             label_to_id, pending_terms, result>>
           \/ ~phi_resolves(line) /\ Fail
    /\ UNCHANGED text

PhisDone ==
    /\ phase = "phis"
    /\ pending_phis = <<>>
    /\ phase' = "terms"
    /\ UNCHANGED <<text, args, blocks, current, current_terminated, tables, result>>

resolved(line) ==
    CASE line.op = "ret" -> Ret(line.value)
      [] line.op = "jmp" -> Jmp(label_to_id[line.target])
      [] line.op = "br" -> Br(line.cond, label_to_id[line.then_bb], label_to_id[line.else_bb])

ResolveTerm ==
    /\ phase = "terms"
    /\ pending_terms # <<>>
    /\ LET at == Head(pending_terms)
           line == at[2]
           resolves == line.op # "bad term" /\ known(targets(line))
       IN  \/ /\ resolves
              /\ blocks' = [blocks EXCEPT ![at[1]].term = resolved(line)]
              /\ pending_terms' = Tail(pending_terms)
              /\ UNCHANGED <<args, phase, current, current_terminated,
                             label_to_id, pending_phis, result>>
           \/ ~resolves /\ Fail
    /\ UNCHANGED text

Finish ==
    /\ phase = "terms"
    /\ pending_terms = <<>>
    /\ phase' = "done"
    /\ result' = "ok"
    /\ UNCHANGED <<text, args, blocks, current, current_terminated, tables>>

Init ==
    /\ text = <<>>
    /\ args \in {-1, 0, 1}
    /\ phase = "header"
    /\ blocks = <<>> /\ current = <<>> /\ current_terminated = FALSE
    /\ label_to_id = [l \in {} |-> NoId]
    /\ pending_phis = <<>> /\ pending_terms = <<>>
    /\ result = "none"

Next ==
    \/ ReadHeader
    \/ \E line \in Lines : ReadLine(line)
    \/ EndOfText \/ ResolvePhi \/ PhisDone \/ ResolveTerm \/ Finish

Spec == Init /\ [][Next]_vars /\ WF_vars(Next)
=============================================================================
