------------------------- MODULE ParallelMovesProofs ------------------------
(***************************************************************************)
(* When emit_parallel_moves is right: if no source is a stack slot, or an  *)
(* edge has at most two moves, the emitted sequence is a parallel copy.    *)
(* With three moves and a stack source it is not; the model checker shows  *)
(* the case.                                                               *)
(***************************************************************************)
EXTENDS ParallelMoves, FiniteSetTheorems, TLAPS

-----------------------------------------------------------------------------
(* The inductive invariant.  It says nothing of what the locations hold.   *)

Moving ==
    /\ moves \in Seq(Homes \X (Homes \cup {Temporary}))
    /\ cell = [l \in Locations |-> cell[l]]

DistinctDestinations ==
    \A i, j \in DOMAIN moves :
        destination(moves[i]) = destination(moves[j]) => i = j

\* A location no pending move writes already has its final contents.
RestIsDone ==
    \A l \in Homes :
        (\A i \in DOMAIN moves : destination(moves[i]) # l) => cell[l] = want[l]

\* While a saved destination waits in the temporary, no pending move has to
\* be loaded through it.
TemporaryIsSafe ==
    (\E i \in DOMAIN moves : source(moves[i]) = Temporary) =>
        \A j \in DOMAIN moves : source(moves[j]) \notin Slots

\* What makes breaking a cycle safe: at most two moves, or no slot to load from.
FewOrRegisters ==
    Len(moves) <= 2 \/ \A i \in DOMAIN moves : source(moves[i]) \notin Slots

MInv ==
    /\ Moving
    /\ DistinctDestinations
    /\ PendingReadsIntact
    /\ RestIsDone
    /\ TemporaryIsSafe
    /\ FewOrRegisters

\* The inputs for which the algorithm is right.
RegistersOrPair == Sources \cap Slots = {} \/ MaxMoves <= 2

-----------------------------------------------------------------------------
(* Lemmas.                                                                 *)

\* The positions of a sequence are natural numbers.
LEMMA PositionsAreNatural ==
    ASSUME NEW S, NEW s \in Seq(S)
    PROVE  DOMAIN s \subseteq Nat
OBVIOUS

\* If every destination is also a source, then every source is also a
\* destination: the moves are a permutation of their destinations.
LEMMA StuckIsPermutation ==
    ASSUME NEW S, NEW s \in Seq(S),
           \A i, j \in DOMAIN s : destination(s[i]) = destination(s[j]) => i = j,
           \A i \in DOMAIN s : ~unblocked(s, i),
           NEW k \in DOMAIN s
    PROVE  \E i \in DOMAIN s : destination(s[i]) = source(s[k])
<1> DEFINE n == Len(s)
           D == {destination(s[i]) : i \in 1..n}
           T == {source(s[i]) : i \in 1..n}
           f == [i \in 1..n |-> destination(s[i])]
           g == [i \in 1..n |-> source(s[i])]
<1>1. n \in Nat /\ DOMAIN s = 1..n
  OBVIOUS
<1>2. IsFiniteSet(1..n) /\ Cardinality(1..n) = n
  <2> HIDE DEF n
  <2> QED
    BY <1>1, FS_Interval
<1>3. g \in Surjection(1..n, T)
  BY DEF Surjection
<1>4. IsFiniteSet(T) /\ Cardinality(T) <= n
  BY <1>2, <1>3, FS_Surjection
<1>5. D \subseteq T
  BY <1>1 DEF unblocked
<1>6. IsFiniteSet(D)
  BY <1>4, <1>5, FS_Subset
<1>7. f \in Injection(1..n, D)
  BY <1>1 DEF Injection, IsInjective
<1>8. n <= Cardinality(D)
  BY <1>2, <1>6, <1>7, FS_Injection
<1>9. Cardinality(D) \in Nat /\ Cardinality(T) \in Nat
  BY <1>4, <1>6, FS_CardinalityType
<1>10. Cardinality(T) = Cardinality(D)
  <2>1. Cardinality(D) <= Cardinality(T)
    BY <1>4, <1>5, FS_Subset
  <2> QED
    BY <1>1, <1>4, <1>8, <1>9, <2>1
<1>11. D = T
  BY <1>4, <1>5, <1>10, FS_Subset
<1> QED
  BY <1>1, <1>11

\* A function on 1..n is a sequence of length n.
LEMMA FunctionIsSequence ==
    ASSUME NEW S, NEW n \in Nat, NEW r \in [1..n -> S]
    PROVE  r \in Seq(S) /\ Len(r) = n
OBVIOUS

\* What removing a move leaves: every other one, and nothing else.
LEMMA RemoveKeepsOthers ==
    ASSUME NEW S, NEW s \in Seq(S), NEW k \in DOMAIN s
    PROVE  /\ remove(s, k) \in Seq(S)
           /\ Len(remove(s, k)) = Len(s) - 1
           /\ DOMAIN remove(s, k) = 1..(Len(s) - 1)
           /\ \A i \in DOMAIN remove(s, k) :
                  \E j \in DOMAIN s : /\ j # k
                                      /\ j = (IF i < k THEN i ELSE i + 1)
                                      /\ remove(s, k)[i] = s[j]
           /\ \A j \in DOMAIN s :
                  j # k => \E i \in DOMAIN remove(s, k) : remove(s, k)[i] = s[j]
<1> DEFINE r == remove(s, k)
<1>1. Len(s) \in Nat /\ DOMAIN s = 1..Len(s) /\ Len(s) - 1 \in Nat
  OBVIOUS
<1>2. DOMAIN r = 1..(Len(s) - 1)
  BY DEF remove
<1>3. \A i \in 1..(Len(s) - 1) : r[i] = IF i < k THEN s[i] ELSE s[i + 1]
  BY DEF remove
<1>4. r \in [1..(Len(s) - 1) -> S]
  BY <1>1 DEF remove
<1>5. r \in Seq(S) /\ Len(r) = Len(s) - 1
  BY <1>1, <1>4, FunctionIsSequence
<1>6. ASSUME NEW i \in DOMAIN r
      PROVE  \E j \in DOMAIN s : /\ j # k
                                 /\ j = (IF i < k THEN i ELSE i + 1)
                                 /\ r[i] = s[j]
  BY <1>1, <1>2, <1>3
<1>7. ASSUME NEW j \in DOMAIN s, j # k
      PROVE  \E i \in DOMAIN r : r[i] = s[j]
  <2>1. CASE j < k
    BY <1>1, <1>2, <1>3, <2>1
  <2>2. CASE j > k
    <3>1. j - 1 \in DOMAIN r /\ ~(j - 1 < k) /\ (j - 1) + 1 = j
      BY <1>1, <1>2, <2>2
    <3>2. r[j - 1] = s[j]
      BY <1>2, <1>3, <3>1
    <3> QED
      BY <3>1, <3>2
  <2> QED
    BY <1>1, <1>7, <2>1, <2>2
<1> QED
  BY <1>2, <1>5, <1>6, <1>7

\* What a copy through the scratch register t changes: the destination, which
\* gets the contents of the source, and t if the source is on the stack.
LEMMA CopyEffect ==
    ASSUME NEW c, c = [l \in Locations |-> c[l]], NEW d \in Homes,
           NEW src \in Locations, NEW t \in {Temporary, Temporary2}
    PROVE  /\ copy(c, d, src, t) = [l \in Locations |-> copy(c, d, src, t)[l]]
           /\ \A S : c \in [Locations -> S] => copy(c, d, src, t) \in [Locations -> S]
           /\ copy(c, d, src, t)[d] = c[src]
           /\ \A l \in Locations :
                  l # d /\ (l # t \/ src \notin Slots) => copy(c, d, src, t)[l] = c[l]
<1>1. d \in Locations /\ t \in Locations /\ t # d
  BY LocationsAssumption DEF Locations
<1>2. CASE src \in Slots
  <2>1. load(c, src, t) = [c EXCEPT ![t] = c[src]] /\ loaded(src, t) = t
    BY <1>2 DEF load, loaded
  <2>2. copy(c, d, src, t) = [[c EXCEPT ![t] = c[src]] EXCEPT ![d] = c[src]]
    BY <1>1, <2>1 DEF copy
  <2> QED
    BY <1>1, <1>2, <2>2
<1>3. CASE src \notin Slots
  <2>1. copy(c, d, src, t) = [c EXCEPT ![d] = c[src]]
    BY <1>3 DEF copy, load, loaded
  <2> QED
    BY <1>1, <2>1
<1> QED
  BY <1>2, <1>3

-----------------------------------------------------------------------------
(* The invariant is inductive.                                             *)

\* It holds before the first instruction, whatever the locations hold.
LEMMA StartMInv ==
    ASSUME LocationsAssumption,
           moves \in Seq(Homes \X Homes),
           \A i, j \in DOMAIN moves :
               destination(moves[i]) = destination(moves[j]) => i = j,
           FewOrRegisters,
           cell = [l \in Locations |-> cell[l]],
           want = parallel_copy(cell, moves)
    PROVE  MInv
<1>1. /\ \A i \in DOMAIN moves : /\ source(moves[i]) \in Homes
                                 /\ destination(moves[i]) \in Homes
      /\ Temporary \notin Homes /\ Homes \subseteq Locations
      /\ moves \in Seq(Homes \X (Homes \cup {Temporary}))
  BY LocationsAssumption DEF source, destination, Locations
<1>2. DistinctDestinations
  BY DEF DistinctDestinations
<1>3. ASSUME NEW i \in DOMAIN moves
      PROVE  want[destination(moves[i])] = cell[source(moves[i])]
  <2>1. (CHOOSE j \in DOMAIN moves :
             destination(moves[j]) = destination(moves[i])) = i
    BY <1>2 DEF DistinctDestinations
  <2> QED
    BY <1>1, <2>1 DEF parallel_copy
<1>4. ASSUME NEW l \in Locations,
             \A i \in DOMAIN moves : destination(moves[i]) # l
      PROVE  want[l] = cell[l]
  BY <1>4 DEF parallel_copy
<1>5. PendingReadsIntact /\ RestIsDone
  BY <1>1, <1>3, <1>4 DEF PendingReadsIntact, RestIsDone
<1>6. TemporaryIsSafe
  BY <1>1 DEF TemporaryIsSafe
<1> QED
  BY <1>1, <1>2, <1>5, <1>6 DEF MInv, Moving

\* The moves of an edge are as the lemma asks, and the vector is well-formed.
LEMMA InitMoves ==
    ASSUME Init
    PROVE  /\ TypeOK
           /\ RegistersOrPair => MInv
<1>1. PICK n \in 0..MaxMoves : moves \in edge_moves(n)
  BY DEF Init
<1>2. /\ n \in Nat /\ n <= MaxMoves
      /\ moves \in [1..n -> Homes \X Sources]
      /\ \A i, j \in 1..n : i # j => destination(moves[i]) # destination(moves[j])
  BY <1>1, MaxMovesAssumption DEF edge_moves
<1>3. /\ DOMAIN moves = 1..n /\ Len(moves) = n
      /\ moves \in Seq(Homes \X Homes)
      /\ moves \in Seq(Homes \X (Homes \cup {Temporary}))
  <2>1. moves \in [1..n -> Homes \X Homes]
    BY <1>2, LocationsAssumption
  <2>2. moves \in [1..n -> Homes \X (Homes \cup {Temporary})]
    BY <2>1
  <2> QED
    BY <1>2, <2>1, <2>2, FunctionIsSequence
<1>4. \A i \in DOMAIN moves : /\ source(moves[i]) \in Sources
                             /\ source(moves[i]) \in Locations
  BY <1>2, <1>3, LocationsAssumption DEF source, Locations
<1>5. cell = [l \in Locations |-> l] /\ want = parallel_copy(cell, moves)
  BY DEF Init
<1>6. cell = [l \in Locations |-> cell[l]]
  BY <1>5
<1>7. want \in [Locations -> Locations]
  <2>1. ASSUME NEW l \in Locations PROVE want[l] \in Locations
    <3>1. CASE \E i \in DOMAIN moves : destination(moves[i]) = l
      BY <1>4, <1>5, <3>1 DEF parallel_copy
    <3>2. CASE \A i \in DOMAIN moves : destination(moves[i]) # l
      BY <1>5, <3>2 DEF parallel_copy
    <3> QED
      BY <3>1, <3>2
  <2>2. want = [l \in Locations |-> want[l]]
    BY <1>5 DEF parallel_copy
  <2> QED
    BY <2>1, <2>2
<1>8. TypeOK
  BY <1>2, <1>3, <1>5, <1>7 DEF TypeOK
<1>9. ASSUME RegistersOrPair PROVE MInv
  <2>1. FewOrRegisters
    BY <1>2, <1>3, <1>4, <1>9, MaxMovesAssumption DEF RegistersOrPair, FewOrRegisters
  <2> QED
    BY <1>2, <1>3, <1>5, <1>6, <2>1, StartMInv, LocationsAssumption
<1> QED
  BY <1>8, <1>9

\* A pending move has its destination in a home and its source in a home or
\* in the temporary.
LEMMA MoveFields ==
    ASSUME Moving, NEW i \in DOMAIN moves
    PROVE  /\ destination(moves[i]) \in Homes
           /\ destination(moves[i]) \in Locations
           /\ source(moves[i]) \in Homes \cup {Temporary}
           /\ source(moves[i]) \in Locations
           /\ destination(moves[i]) # Temporary
           /\ destination(moves[i]) # Temporary2
           /\ source(moves[i]) # Temporary2
<1>1. moves[i] \in Homes \X (Homes \cup {Temporary})
  BY DEF Moving
<1> QED
  BY <1>1, LocationsAssumption DEF destination, source, Locations

\* An unblocked move is done.
LEMMA MoveFreeStep ==
    ASSUME MInv, MoveFree
    PROVE  MInv'
<1>1. PICK k \in DOMAIN moves :
        /\ is_position(moves, k)
        /\ moves' = remove(moves, k)
        /\ cell' = copy(cell, destination(moves[k]), source(moves[k]), Temporary)
        /\ want' = want
  BY DEF MoveFree
<1> DEFINE d == destination(moves[k])
           src == source(moves[k])
           M == Homes \X (Homes \cup {Temporary})
<1>2. Moving /\ moves \in Seq(M) /\ cell = [l \in Locations |-> cell[l]]
  BY DEF MInv, Moving
<1>3. \A i \in DOMAIN moves : source(moves[i]) # d
  BY <1>1 DEF is_position, unblocked
<1>4. d \in Homes /\ src \in Locations
  BY <1>2, MoveFields
<1>5. /\ cell' = [l \in Locations |-> cell'[l]]
      /\ cell'[d] = cell[src]
      /\ \A l \in Locations : l # d /\ (l # Temporary \/ src \notin Slots) => cell'[l] = cell[l]
  BY <1>1, <1>2, <1>4, CopyEffect
<1>6. /\ moves' \in Seq(M)
      /\ Len(moves') = Len(moves) - 1
      /\ \A i \in DOMAIN moves' :
             \E j \in DOMAIN moves : /\ j # k
                                     /\ j = (IF i < k THEN i ELSE i + 1)
                                     /\ moves'[i] = moves[j]
      /\ \A j \in DOMAIN moves :
             j # k => \E i \in DOMAIN moves' : moves'[i] = moves[j]
  BY <1>1, <1>2, RemoveKeepsOthers
<1>7. Moving'
  BY <1>5, <1>6 DEF Moving
<1>8. DistinctDestinations'
  <2> SUFFICES ASSUME NEW i \in DOMAIN moves', NEW j \in DOMAIN moves',
                      destination(moves'[i]) = destination(moves'[j])
               PROVE  i = j
    BY DEF DistinctDestinations
  <2>1. i \in Nat /\ j \in Nat /\ k \in Nat
    BY <1>2, <1>6, PositionsAreNatural
  <2>2. PICK a \in DOMAIN moves : a = (IF i < k THEN i ELSE i + 1) /\ moves'[i] = moves[a]
                                   /\ a # k
    BY <1>6
  <2>3. PICK b \in DOMAIN moves : b = (IF j < k THEN j ELSE j + 1) /\ moves'[j] = moves[b]
                                   /\ b # k
    BY <1>6
  <2>4. a = b
    BY <2>2, <2>3 DEF MInv, DistinctDestinations
  <2> QED
    BY <2>1, <2>2, <2>3, <2>4
<1>9. PendingReadsIntact'
  <2> SUFFICES ASSUME NEW i \in DOMAIN moves'
               PROVE  cell'[source(moves'[i])] = want[destination(moves'[i])]
    BY <1>1 DEF PendingReadsIntact
  <2>1. PICK j \in DOMAIN moves : moves'[i] = moves[j]
    BY <1>6
  <2>2. source(moves[j]) # d /\ source(moves[j]) \in Locations
    BY <1>2, <1>3, MoveFields
  <2>3. source(moves[j]) # Temporary \/ src \notin Slots
    BY DEF MInv, TemporaryIsSafe
  <2> QED
    BY <1>5, <2>1, <2>2, <2>3 DEF MInv, PendingReadsIntact
<1>10. RestIsDone'
  <2> SUFFICES ASSUME NEW l \in Homes,
                      \A i \in DOMAIN moves' : destination(moves'[i]) # l
               PROVE  cell'[l] = want[l]
    BY <1>1 DEF RestIsDone
  <2>1. CASE l = d
    BY <1>5, <2>1 DEF MInv, PendingReadsIntact
  <2>2. CASE l # d
    <3>1. \A j \in DOMAIN moves : destination(moves[j]) # l
      BY <1>6, <2>2
    <3>2. l \in Locations /\ l # Temporary
      BY LocationsAssumption DEF Locations
    <3> QED
      BY <1>5, <2>2, <3>1, <3>2 DEF MInv, RestIsDone
  <2> QED
    BY <2>1, <2>2
<1>11. TemporaryIsSafe'
  BY <1>6 DEF MInv, TemporaryIsSafe
<1>12. FewOrRegisters'
  <2>1. Len(moves) \in Nat
    BY <1>2
  <2>2. CASE Len(moves) <= 2
    BY <1>6, <2>1, <2>2 DEF FewOrRegisters
  <2>3. CASE \A i \in DOMAIN moves : source(moves[i]) \notin Slots
    BY <1>6, <2>3 DEF FewOrRegisters
  <2> QED
    BY <2>2, <2>3 DEF MInv, FewOrRegisters
<1> QED
  BY <1>7, <1>8, <1>9, <1>10, <1>11, <1>12 DEF MInv

\* A cycle is broken: its first destination is saved in the temporary, which
\* no pending move reads at that moment.
LEMMA BreakCycleStep ==
    ASSUME MInv, BreakCycle
    PROVE  MInv'
<1> DEFINE d == destination(moves[1])
           src == source(moves[1])
           r == remove(moves, 1)
           M == Homes \X (Homes \cup {Temporary})
<1>1. /\ moves # <<>>
      /\ \A i \in DOMAIN moves : ~unblocked(moves, i)
      /\ moves' = redirect(r, d)
      /\ cell' = copy(save(cell, d), d, src, Temporary2)
      /\ want' = want
  BY DEF BreakCycle
<1>2. /\ Moving /\ moves \in Seq(M) /\ cell = [l \in Locations |-> cell[l]]
      /\ 1 \in DOMAIN moves /\ Len(moves) \in Nat
  BY <1>1 DEF MInv, Moving
<1>3. \A j \in DOMAIN moves : source(moves[j]) # Temporary
  <2> SUFFICES ASSUME NEW j \in DOMAIN moves PROVE source(moves[j]) # Temporary
    OBVIOUS
  <2>1. \E i \in DOMAIN moves : destination(moves[i]) = source(moves[j])
    BY <1>1, <1>2, StuckIsPermutation DEF MInv, DistinctDestinations
  <2> QED
    BY <1>2, <2>1, MoveFields
<1>4. d \in Homes /\ d \in Locations /\ src \in Locations /\ src # Temporary
      /\ d # Temporary /\ src # Temporary2
  BY <1>2, <1>3, MoveFields
<1>5. /\ cell' = [l \in Locations |-> cell'[l]]
      /\ cell'[d] = cell[src]
      /\ cell'[Temporary] = cell[d]
      /\ \A l \in Homes : l # d => cell'[l] = cell[l]
  <2> DEFINE c == save(cell, d)
  <2>1. /\ c = [l \in Locations |-> c[l]]
        /\ c[Temporary] = cell[d]
        /\ \A l \in Locations : l # Temporary => c[l] = cell[l]
    BY <1>2, <1>4 DEF save, Locations
  <2> HIDE DEF c
  <2>2. /\ cell' = [l \in Locations |-> cell'[l]]
        /\ cell'[d] = c[src]
        /\ \A l \in Locations : l # d /\ l # Temporary2 => cell'[l] = c[l]
    <3>1. cell' = copy(c, d, src, Temporary2)
      BY <1>1 DEF c
    <3> QED
      BY <1>4, <2>1, <3>1, CopyEffect
  <2>3. Temporary \in Locations /\ Temporary # Temporary2
        /\ \A l \in Homes : l \in Locations /\ l # Temporary /\ l # Temporary2
    BY LocationsAssumption DEF Locations
  <2> QED
    BY <1>4, <2>1, <2>2, <2>3
<1>6. /\ r \in Seq(M)
      /\ Len(r) = Len(moves) - 1
      /\ DOMAIN r = 1..(Len(moves) - 1)
      /\ \A i \in DOMAIN r :
             \E j \in DOMAIN moves : /\ j # 1
                                     /\ j = (IF i < 1 THEN i ELSE i + 1)
                                     /\ r[i] = moves[j]
      /\ \A j \in DOMAIN moves : j # 1 => \E i \in DOMAIN r : r[i] = moves[j]
  BY <1>2, RemoveKeepsOthers
<1>7. /\ DOMAIN moves' = DOMAIN r
      /\ \A i \in DOMAIN r :
             /\ destination(moves'[i]) = destination(r[i])
             /\ source(moves'[i]) = IF source(r[i]) = d THEN Temporary ELSE source(r[i])
             /\ moves'[i] \in M
  <2>1. DOMAIN moves' = DOMAIN r
    BY <1>1 DEF redirect
  <2> SUFFICES ASSUME NEW i \in DOMAIN r
               PROVE  /\ destination(moves'[i]) = destination(r[i])
                      /\ source(moves'[i]) = IF source(r[i]) = d THEN Temporary ELSE source(r[i])
                      /\ moves'[i] \in M
    BY <2>1
  <2>2. r[i] \in M
    BY <1>6
  <2>3. moves'[i] = IF source(r[i]) = d THEN <<destination(r[i]), Temporary>> ELSE r[i]
    BY <1>1 DEF redirect
  <2> QED
    BY <2>2, <2>3 DEF destination, source
<1>8. moves' \in Seq(M) /\ Len(moves') = Len(moves) - 1
  <2>1. Len(moves) - 1 \in Nat
    BY <1>2
  <2>2. moves' = [i \in 1..(Len(moves) - 1) |-> moves'[i]]
    BY <1>1, <1>6 DEF redirect
  <2>3. moves' \in [1..(Len(moves) - 1) -> M]
    BY <1>6, <1>7, <2>2
  <2> QED
    BY <2>1, <2>3, FunctionIsSequence
<1>9. Moving'
  BY <1>5, <1>8 DEF Moving
<1>10. DistinctDestinations'
  <2> SUFFICES ASSUME NEW i \in DOMAIN r, NEW j \in DOMAIN r,
                      destination(r[i]) = destination(r[j])
               PROVE  i = j
    BY <1>7 DEF DistinctDestinations
  <2>1. i \in Nat /\ j \in Nat /\ ~(i < 1) /\ ~(j < 1)
    <3>1. Len(moves) \in Nat
      BY <1>2
    <3>2. i \in 1..(Len(moves) - 1) /\ j \in 1..(Len(moves) - 1)
      BY <1>6
    <3> QED
      BY <3>1, <3>2
  <2>2. i + 1 \in DOMAIN moves /\ r[i] = moves[i + 1]
    BY <1>6, <2>1
  <2>3. j + 1 \in DOMAIN moves /\ r[j] = moves[j + 1]
    BY <1>6, <2>1
  <2>4. i + 1 = j + 1
    BY <2>2, <2>3 DEF MInv, DistinctDestinations
  <2> QED
    BY <2>1, <2>4
<1>11. PendingReadsIntact'
  <2> SUFFICES ASSUME NEW i \in DOMAIN r
               PROVE  cell'[source(moves'[i])] = want[destination(moves'[i])]
    BY <1>1, <1>7 DEF PendingReadsIntact
  <2>1. PICK j \in DOMAIN moves : r[i] = moves[j]
    BY <1>6
  <2>2. cell[source(moves[j])] = want[destination(moves[j])]
    BY DEF MInv, PendingReadsIntact
  <2>3. CASE source(moves[j]) = d
    BY <1>5, <1>7, <2>1, <2>2, <2>3
  <2>4. CASE source(moves[j]) # d
    <3>1. source(moves[j]) \in Homes
      BY <1>2, <1>3, MoveFields
    <3> QED
      BY <1>5, <1>7, <2>1, <2>2, <2>4, <3>1
  <2> QED
    BY <2>3, <2>4
<1>12. RestIsDone'
  <2> SUFFICES ASSUME NEW l \in Homes,
                      \A i \in DOMAIN r : destination(r[i]) # l
               PROVE  cell'[l] = want[l]
    BY <1>1, <1>7 DEF RestIsDone
  <2>1. CASE l = d
    BY <1>2, <1>5, <2>1 DEF MInv, PendingReadsIntact
  <2>2. CASE l # d
    <3>1. \A j \in DOMAIN moves : destination(moves[j]) # l
      BY <1>6, <2>2
    <3> QED
      BY <1>5, <2>2, <3>1 DEF MInv, RestIsDone
  <2> QED
    BY <2>1, <2>2
<1>13. Temporary \notin Slots
  BY LocationsAssumption DEF Homes
<1>14. ASSUME \A i \in DOMAIN moves : source(moves[i]) \notin Slots,
              NEW i \in DOMAIN r
       PROVE  source(moves'[i]) \notin Slots
  <2>1. source(r[i]) \notin Slots
    BY <1>6, <1>14
  <2> QED
    BY <1>7, <1>13, <2>1
<1>15. TemporaryIsSafe' /\ FewOrRegisters'
  <2>1. CASE \A i \in DOMAIN moves : source(moves[i]) \notin Slots
    BY <1>7, <1>14, <2>1 DEF TemporaryIsSafe, FewOrRegisters
  <2>2. CASE Len(moves) <= 2
    <3>1. (\A i, j \in DOMAIN moves' : i = j) /\ Len(moves') <= 2
      BY <1>2, <1>6, <1>7, <1>8, <2>2
    <3> QED
      BY <1>13, <3>1 DEF TemporaryIsSafe, FewOrRegisters
  <2> QED
    BY <2>1, <2>2 DEF MInv, FewOrRegisters
<1> QED
  BY <1>9, <1>10, <1>11, <1>12, <1>15 DEF MInv

-----------------------------------------------------------------------------
(* The theorems.                                                           *)

\* The inductive invariant holds while the moves of an edge are emitted.
THEOREM MoveInvariant ==
    ASSUME RegistersOrPair
    PROVE  Spec => []MInv
<1>1. MInv /\ [Next]_move_vars => MInv'
  <2> SUFFICES ASSUME MInv, [Next]_move_vars PROVE MInv'
    OBVIOUS
  <2>1. CASE MoveFree
    BY <2>1, MoveFreeStep
  <2>2. CASE BreakCycle
    BY <2>2, BreakCycleStep
  <2>3. CASE UNCHANGED move_vars
    BY <2>3 DEF move_vars, MInv, Moving, DistinctDestinations, PendingReadsIntact,
           RestIsDone, TemporaryIsSafe, FewOrRegisters
  <2> QED
    BY <2>1, <2>2, <2>3 DEF Next
<1>2. Init => MInv
  BY InitMoves
<1> QED
  BY <1>1, <1>2, PTL DEF Spec

\* emit_parallel_moves implements a parallel copy for any number of moves
\* whose sources are registers, and for any two moves.
THEOREM MovesActInParallel ==
    ASSUME RegistersOrPair
    PROVE  Spec => []ActsInParallel
<1>1. MInv => ActsInParallel
  BY DEF MInv, RestIsDone, ActsInParallel
<1> QED
  BY <1>1, MoveInvariant, PTL

\* Under the same condition no pending read is ever overwritten.
THEOREM ReadsStayIntact ==
    ASSUME RegistersOrPair
    PROVE  Spec => []PendingReadsIntact
BY MoveInvariant, PTL DEF MInv

-----------------------------------------------------------------------------
(* What holds of every edge, stack sources or not.                         *)

\* An iteration keeps the vector well-formed and one move shorter.
LEMMA IterationTyped ==
    ASSUME TypeOK, Next
    PROVE  TypeOK' /\ Len(moves') = Len(moves) - 1
<1> DEFINE M == Homes \X (Homes \cup {Temporary})
<1>1. /\ Moving /\ moves \in Seq(M) /\ cell \in [Locations -> Locations]
      /\ Len(moves) \in Nat /\ DOMAIN moves = 1..Len(moves)
  BY DEF TypeOK, Moving
<1>2. CASE MoveFree
  <2>1. PICK k \in DOMAIN moves :
          /\ moves' = remove(moves, k)
          /\ cell' = copy(cell, destination(moves[k]), source(moves[k]), Temporary)
          /\ want' = want
    BY <1>2 DEF MoveFree
  <2>2. moves' \in Seq(M) /\ Len(moves') = Len(moves) - 1
    BY <1>1, <2>1, RemoveKeepsOthers
  <2>3. cell' \in [Locations -> Locations]
    BY <1>1, <2>1, MoveFields, CopyEffect
  <2> QED
    BY <1>1, <2>1, <2>2, <2>3, MaxMovesAssumption DEF TypeOK
<1>3. CASE BreakCycle
  <2> DEFINE d == destination(moves[1])
             r == remove(moves, 1)
  <2>1. /\ moves # <<>> /\ moves' = redirect(r, d)
        /\ cell' = copy(save(cell, d), d, source(moves[1]), Temporary2)
        /\ want' = want
    BY <1>3 DEF BreakCycle
  <2>2. 1 \in DOMAIN moves
    BY <1>1, <2>1
  <2>3. r \in Seq(M) /\ Len(r) = Len(moves) - 1 /\ DOMAIN r = 1..(Len(moves) - 1)
    BY <1>1, <2>2, RemoveKeepsOthers
  <2> HIDE DEF r
  <2>4. \A i \in DOMAIN r : r[i] \in M
    BY <2>3
  <2>5. redirect(r, d) \in [1..(Len(moves) - 1) -> M]
    BY <2>3, <2>4 DEF redirect, destination
  <2>6. Len(moves) - 1 \in Nat
    BY <1>1, <2>2
  <2>7. moves' \in Seq(M) /\ Len(moves') = Len(moves) - 1
    BY <2>1, <2>5, <2>6, FunctionIsSequence
  <2>8. d \in Homes /\ d \in Locations /\ source(moves[1]) \in Locations
    BY <1>1, <2>2, MoveFields
  <2>9. save(cell, d) \in [Locations -> Locations]
    BY <1>1, <2>8 DEF save
  <2>10. cell' \in [Locations -> Locations]
    BY <2>1, <2>8, <2>9, CopyEffect
  <2>11. Len(moves') <= MaxMoves
    BY <2>6, <2>7, MaxMovesAssumption DEF TypeOK
  <2>12. want' \in [Locations -> Locations]
    BY <2>1 DEF TypeOK
  <2> QED
    BY <2>7, <2>10, <2>11, <2>12 DEF TypeOK
<1> QED
  BY <1>2, <1>3 DEF Next

\* The vector only ever holds moves between homes, with the temporary as a
\* source besides: redirecting the reads of a saved location never lets the
\* temporary become a destination.
THEOREM MovesAreTyped == Spec => []TypeOK
<1>1. Init => TypeOK
  BY InitMoves
<1>2. TypeOK /\ [Next]_move_vars => TypeOK'
  <2> SUFFICES ASSUME TypeOK, [Next]_move_vars PROVE TypeOK'
    OBVIOUS
  <2>1. CASE Next
    BY <2>1, IterationTyped
  <2>2. CASE UNCHANGED move_vars
    BY <2>2 DEF move_vars, TypeOK
  <2> QED
    BY <2>1, <2>2
<1> QED
  BY <1>1, <1>2, PTL DEF Spec

\* Every iteration of the loop does one of the moves: an edge with n moves is
\* emitted in n iterations, cycles included.
THEOREM EveryIterationDoesAMove ==
    Spec => [][Len(moves') = Len(moves) - 1]_move_vars
<1>1. TypeOK /\ [Next]_move_vars => [Len(moves') = Len(moves) - 1]_move_vars
  BY IterationTyped
<1> QED
  BY <1>1, MovesAreTyped, PTL DEF Spec
=============================================================================
