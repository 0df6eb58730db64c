---------------------------- MODULE ParallelMoves ---------------------------
(***************************************************************************)
(* emit_parallel_moves of crates/codegen: the moves of the phis on one edge *)
(* are put in an order in which they can be executed one after the other.  *)
(*                                                                         *)
(* The emitter runs when the function is compiled and its instructions when *)
(* it is executed.  The instructions of an edge are straight-line code, so *)
(* the model executes them as they are emitted: a step is one iteration of *)
(* the loop, and cell is the machine state after the instructions emitted  *)
(* so far.  The loads and stores counters are metrics and are left out.    *)
(***************************************************************************)
EXTENDS Integers, Sequences, FiniteSets, Functions

CONSTANTS
    Registers,      \* allocatable registers
    Slots,          \* stack slots
    Temporary,      \* scratch0
    Temporary2,     \* scratch1
    Sources,        \* the locations a phi's incoming value may be in
    MaxMoves        \* bound on the number of moves of an edge

Homes == Registers \cup Slots
Locations == Homes \cup {Temporary, Temporary2}

ASSUME LocationsAssumption ==
    /\ Registers \cap Slots = {}
    /\ {Temporary, Temporary2} \cap Homes = {}
    /\ Temporary # Temporary2
    /\ Sources \subseteq Homes
ASSUME MaxMovesAssumption == MaxMoves \in Nat

VARIABLES
    moves,      \* Vec<(destination, source)>
    cell,       \* what each location holds
    want        \* ghost: what each location holds after a parallel copy

move_vars == <<moves, cell, want>>

-----------------------------------------------------------------------------
(* Operations on the vector of moves.                                      *)

destination(m) == m[1]
source(m) == m[2]

\* moves.remove(index).
remove(s, index) ==
    [i \in 1..(Len(s) - 1) |-> IF i < index THEN s[i] ELSE s[i + 1]]

\* Wrong variant: a move may overwrite a location another one still reads.
unblocked_always(s, i) == TRUE

\* The destination of move i is not a source of any move.
unblocked(s, i) == \A j \in DOMAIN s : source(s[j]) # destination(s[i])

\* index is what the search for an unblocked move returns: the first one.
is_position(s, index) ==
    unblocked(s, index) /\ \A j \in 1..(index - 1) : ~unblocked(s, j)

\* Wrong variant: the remaining reads are left as they are.
redirect_nothing(s, d) == s

\* Wrong variant: the other half of the pair is replaced.
redirect_destination(s, d) ==
    [i \in DOMAIN s |-> IF source(s[i]) = d THEN <<Temporary, source(s[i])>>
                                           ELSE s[i]]

\* Redirects the remaining reads of location d to the temporary.
redirect(s, d) ==
    [i \in DOMAIN s |-> IF source(s[i]) = d THEN <<destination(s[i]), Temporary>>
                                           ELSE s[i]]

-----------------------------------------------------------------------------
(* Executing instructions on the cells.                                    *)

\* read_move_location: a stack slot is first loaded into the register t.
load(c, src, t) == IF src \in Slots THEN [c EXCEPT ![t] = c[src]] ELSE c
loaded(src, t) == IF src \in Slots THEN t ELSE src

\* read_move_location followed by write_move_location.
copy(c, dst, src, t) ==
    LET c1 == load(c, src, t)
    IN  [c1 EXCEPT ![dst] = c1[loaded(src, t)]]

\* Reads the old destination into the temporary; a register is then moved
\* there.
save(c, dst) == [c EXCEPT ![Temporary] = c[dst]]

\* The locations after the moves of s are done at once.
parallel_copy(c, s) ==
    [l \in Locations |->
        IF \E i \in DOMAIN s : destination(s[i]) = l
        THEN c[source(s[CHOOSE i \in DOMAIN s : destination(s[i]) = l])]
        ELSE c[l]]

-----------------------------------------------------------------------------
(* The loop.                                                               *)

\* Some destination is not a source: its move is done, through the temporary
\* if its source is on the stack.
MoveFree ==
    /\ \E index \in DOMAIN moves :
        LET m == moves[index] IN
        /\ is_position(moves, index)
        /\ moves' = remove(moves, index)
        /\ cell' = copy(cell, destination(m), source(m), Temporary)
    /\ UNCHANGED want

\* Every destination is a source: the first move is done after its
\* destination has been saved in the temporary.
BreakCycle ==
    /\ moves # <<>>
    /\ \A i \in DOMAIN moves : ~unblocked(moves, i)
    /\ LET m == moves[1] IN
       /\ moves' = redirect(remove(moves, 1), destination(m))
       /\ cell' = copy(save(cell, destination(m)), destination(m), source(m), Temporary2)
    /\ UNCHANGED want

\* phi_moves_for_edge passes no move from a location to itself, and two phis
\* that are both live after the edge have different locations.
edge_moves(n) ==
    {s \in [1..n -> Homes \X Sources] :
        /\ \A i \in 1..n : destination(s[i]) # source(s[i])
        /\ \A i, j \in 1..n : i # j => destination(s[i]) # destination(s[j])}

Init ==
    /\ \E n \in 0..MaxMoves : moves \in edge_moves(n)
    /\ cell = [l \in Locations |-> l]
    /\ want = parallel_copy(cell, moves)

Next == MoveFree \/ BreakCycle

Spec == Init /\ [][Next]_move_vars /\ WF_move_vars(Next)

-----------------------------------------------------------------------------
(* Properties.                                                             *)

\* The vector holds moves between homes; only the temporary joins them as a
\* source.
TypeOK ==
    /\ moves \in Seq(Homes \X (Homes \cup {Temporary}))
    /\ Len(moves) <= MaxMoves
    /\ cell \in [Locations -> Locations]
    /\ want \in [Locations -> Locations]

\* Every location but the two scratch registers ends with what a parallel
\* copy leaves in it: the moves of the phis on an edge act as if done at once.
ActsInParallel ==
    moves = <<>> => \A l \in Homes : cell[l] = want[l]

\* Nothing a pending move reads has been overwritten, neither by a move that
\* was done nor by the saving of another destination in the temporary.
PendingReadsIntact ==
    \A i \in DOMAIN moves : cell[source(moves[i])] = want[destination(moves[i])]
=============================================================================
