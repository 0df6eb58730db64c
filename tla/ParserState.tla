----------------------------- MODULE ParserState ----------------------------
(***************************************************************************)
(* The state of ir::parser::parse, the meaning of a text without an order  *)
(* of reading, and what parse promises.  Parser reads the text.            *)
(*                                                                         *)
(* Abstraction: a line is given as what its tokens say, a record of one of *)
(* the kinds below; "bad" and "bad term" stand for every line whose tokens *)
(* are wrong.  Blank lines and comments are left out.  Labels keep their   *)
(* spelling: b1 and b01 are two labels with one block id.                  *)
(*                                                                         *)
(*   [op: "block", label]      [op: "plain", inst]   [op: "bad"]           *)
(*   [op: "phi", dst, incoming]    incoming: pairs <<label, value>>        *)
(*   [op: "ret", value]        [op: "jmp", target]                         *)
(*   [op: "br", cond, then_bb, else_bb]              [op: "bad term"]      *)
(***************************************************************************)
EXTENDS Analysis

CONSTANTS
    Lines,          \* the lines a text is made of
    parse_block_id, \* label -> block id, or NoId where it has no number
    NoId,
    MaxLines        \* bound on the length of a text, its header aside

ASSUME MaxLinesAssumption == MaxLines \in Nat
ASSUME LinesAssumption ==
    \A line \in Lines :
        line.op \in {"block", "plain", "phi", "ret", "jmp", "br", "bad", "bad term"}

VARIABLES
    text,                   \* the lines read so far
    args,                   \* args=N of the header, or -1 if it is malformed
    phase,                  \* "header", "lines", "phis", "terms", "done"
    blocks,                 \* the finished blocks
    current,                \* <<>>, or the block being read
    current_terminated,
    label_to_id,            \* label -> block id
    pending_phis,           \* <<block index, instruction index, line>>
    pending_terms,          \* <<block index, line>>
    result                  \* "none", "error" or "ok"

is_terminator(line) == line.op \in {"ret", "jmp", "br", "bad term"}

\* The labels a terminator names.
targets(line) ==
    CASE line.op = "jmp" -> {line.target}
      [] line.op = "br" -> {line.then_bb, line.else_bb}
      [] OTHER -> {}

\* The function parse returns.
function == [args |-> args, entry |-> blocks[1].id, blocks |-> blocks]

-----------------------------------------------------------------------------
(* The meaning of a text, without an order of reading.                     *)

block_lines == {n \in DOMAIN text : text[n].op = "block"}
labels == {text[n].label : n \in block_lines}

\* The last line of the block that starts at line n.
end_of(n) == IF \E m \in block_lines : m > n
             THEN Min({m \in block_lines : m > n}) - 1
             ELSE Len(text)

named(line) ==
    IF line.op = "phi" THEN {line.incoming[n][1] : n \in DOMAIN line.incoming}
                       ELSE targets(line)

\* A text is a header and blocks; a block is a label of its own,
\* instructions, and one terminator at its end; every label named is there.
well_formed ==
    /\ args # -1
    /\ text # <<>> /\ text[1].op = "block"
    /\ \A n \in block_lines :
        /\ parse_block_id[text[n].label] # NoId
        /\ \A m \in block_lines : text[m].label = text[n].label => m = n
        /\ \A m \in n..end_of(n) : is_terminator(text[m]) <=> m = end_of(n)
    /\ \A n \in DOMAIN text :
        /\ text[n].op \notin {"bad", "bad term"}
        /\ text[n].op = "phi" => text[n].incoming # <<>>
        /\ named(text[n]) \subseteq labels

\* The lines so far can be the beginning of a well-formed text: what is wrong
\* with the others no further line can mend.
begins_well ==
    /\ args # -1
    /\ text # <<>> => text[1].op = "block"
    /\ \A n \in block_lines :
        /\ parse_block_id[text[n].label] # NoId
        /\ \A m \in block_lines : text[m].label = text[n].label => m = n
        /\ \A m \in n..end_of(n) :
            /\ is_terminator(text[m]) => m = end_of(n)
            /\ m = end_of(n) /\ m # Len(text) => is_terminator(text[m])
    /\ \A n \in DOMAIN text : text[n].op # "bad"

read_as(line) ==
    IF line.op = "plain" THEN line.inst
    ELSE PhiI64(line.dst, [n \in DOMAIN line.incoming |->
            <<parse_block_id[line.incoming[n][1]], line.incoming[n][2]>>])

ends_as(line) ==
    CASE line.op = "ret" -> Ret(line.value)
      [] line.op = "jmp" -> Jmp(parse_block_id[line.target])
      [] line.op = "br" -> Br(line.cond, parse_block_id[line.then_bb],
                              parse_block_id[line.else_bb])

block_read(n) ==
    [id |-> parse_block_id[text[n].label],
     insts |-> [m \in 1..(end_of(n) - n - 1) |-> read_as(text[n + m])],
     term |-> ends_as(text[end_of(n)])]

\* The k-th block line.
start_of(k) == CHOOSE n \in block_lines :
                  Cardinality({m \in block_lines : m < n}) = k - 1

-----------------------------------------------------------------------------
(* Properties.                                                             *)

\* parse accepts the well-formed texts and no others, and what it has put
\* aside ends up where it was written: each phi and each terminator in its
\* own block and place, with the blocks its labels name, wherever those stand.
ReadsTheText ==
    /\ result = "error" => ~well_formed
    /\ result = "ok" =>
        /\ well_formed
        /\ function.blocks = [k \in 1..Cardinality(block_lines) |-> block_read(start_of(k))]
        /\ function.entry = parse_block_id[text[1].label]

\* parse refuses a text before its end only when no further line could make it
\* well formed: what is not there yet is never taken for an error.
RefusalsAreFinal ==
    [][result' = "error" /\ (phase = "header" \/ text' # text) => ~begins_well']_<<text, result>>

\* parse lets two spellings of one block id pass as two labels.  Only the
\* validation that follows makes sure that every label names a block of its
\* own: otherwise jumps to one label would enter the block of the other.
LabelsNameBlocks ==
    result = "ok" /\ validate_function(function) =>
        \A l, m \in DOMAIN label_to_id : label_to_id[l] = label_to_id[m] => l = m
=============================================================================
