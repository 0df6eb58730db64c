------------------------ MODULE LinearScanVecProofs -------------------------
(***************************************************************************)
(* LinearScanVec implements LinearScan for every interval list, register   *)
(* set and budget: the stable sorts, the stack of free registers and the   *)
(* visiting order of the code are choices LinearScan allows.  What is      *)
(* proved of LinearScan therefore holds of the code's vectors.             *)
(***************************************************************************)
EXTENDS LinearScanVec, OperatorProofs, SequenceTheorems

-----------------------------------------------------------------------------
(* Sequences.                                                              *)

\* One more entry at the end.
LEMMA PushEntry ==
    ASSUME NEW S, NEW s \in Seq(S), NEW e \in S
    PROVE  /\ Append(s, e) \in Seq(S)
           /\ Range(Append(s, e)) = Range(s) \cup {e}
           /\ DOMAIN Append(s, e) = DOMAIN s \cup {Len(s) + 1}
           /\ Len(s) + 1 \notin DOMAIN s
           /\ Append(s, e)[Len(s) + 1] = e
           /\ \A i \in DOMAIN s : Append(s, e)[i] = s[i]
<1> DEFINE t == Append(s, e)
           n == Len(s)
<1>1. /\ t \in Seq(S) /\ n \in Nat /\ DOMAIN s = 1..n /\ DOMAIN t = 1..(n + 1)
      /\ \A i \in 1..n : t[i] = s[i]
      /\ t[n + 1] = e
  OBVIOUS
<1>2. 1..(n + 1) = 1..n \cup {n + 1} /\ n + 1 \notin 1..n
  BY <1>1
<1> HIDE DEF t, n
<1>3. Range(t) = Range(s) \cup {e}
  BY <1>1, <1>2 DEF Range
<1> QED
  BY <1>1, <1>2, <1>3 DEF t, n

\* The last entry taken away from a sequence without repetitions.
LEMMA PopEntry ==
    ASSUME NEW S, NEW s \in Seq(S), s # <<>>, IsInjective(s)
    PROVE  /\ s[Len(s)] \in Range(s) /\ Len(s) \in DOMAIN s
           /\ SubSeq(s, 1, Len(s) - 1) \in Seq(S)
           /\ DOMAIN SubSeq(s, 1, Len(s) - 1) = 1..(Len(s) - 1)
           /\ \A i \in 1..(Len(s) - 1) : /\ i \in DOMAIN s /\ i # Len(s)
                                         /\ SubSeq(s, 1, Len(s) - 1)[i] = s[i]
           /\ Range(SubSeq(s, 1, Len(s) - 1)) = Range(s) \ {s[Len(s)]}
           /\ IsInjective(SubSeq(s, 1, Len(s) - 1))
<1> DEFINE n == Len(s)
           t == SubSeq(s, 1, n - 1)
<1>1. n \in Nat /\ n # 0 /\ DOMAIN s = 1..n
  OBVIOUS
<1>2. /\ t \in Seq(S) /\ DOMAIN t = 1..(n - 1)
      /\ \A i \in 1..(n - 1) : t[i] = s[i]
  <2>1. 1 \in Nat /\ n - 1 \in Nat /\ n - 1 <= Len(s)
    BY <1>1
  <2> QED
    BY <1>1, <2>1
<1>3. 1..n = 1..(n - 1) \cup {n} /\ n \notin 1..(n - 1) /\ n \in 1..n
  BY <1>1
<1> HIDE DEF n, t
<1>4. Range(t) = Range(s) \ {s[n]} /\ s[n] \in Range(s)
  BY <1>1, <1>2, <1>3 DEF Range, IsInjective
<1>5. IsInjective(t)
  BY <1>1, <1>2, <1>3 DEF IsInjective
<1> QED
  BY <1>1, <1>2, <1>3, <1>4, <1>5 DEF n, t

-----------------------------------------------------------------------------
(* The stable sort.                                                        *)

Registers == {RegSet.regs[i] : i \in DOMAIN RegSet.regs}
Entries == Values \X Registers

end_of(e) == intervals[e[1]].end

\* Positions are natural numbers.
LEMMA SpanFields ==
    ASSUME intervals \in [Values -> Spans]
    PROVE  /\ \A v \in Values : intervals[v].start \in Nat /\ intervals[v].end \in Nat
           /\ \A e \in Entries : e[1] \in Values /\ e[2] \in Registers /\ end_of(e) \in Nat
           /\ \A v \in Values : v \in Nat
<1>1. \A v \in Values : intervals[v] \in Spans
  OBVIOUS
<1>2. \A v \in Values : intervals[v].start \in Nat /\ intervals[v].end \in Nat
  BY <1>1, VecMaxPosAssumption DEF Spans
<1>3. \A e \in Entries : e[1] \in Values /\ e[2] \in Registers
  BY DEF Entries
<1> QED
  BY <1>2, <1>3, VecValuesAssumption DEF end_of

\* The sort permutes its entries and leaves those that end last at the end.
LEMMA SortPermutes ==
    ASSUME intervals \in [Values -> Spans], NEW s \in Seq(Entries)
    PROVE  \E p \in [DOMAIN s -> DOMAIN s] :
              /\ \A k \in DOMAIN s : sort_by_end(s)[k] = s[p[k]]
              /\ \A k, l \in DOMAIN s : p[k] = p[l] => k = l
              /\ \A i \in DOMAIN s : \E k \in DOMAIN s : p[k] = i
              /\ \A k, l \in DOMAIN s : k < l => end_of(s[p[k]]) <= end_of(s[p[l]])
<1> DEFINE D == DOMAIN s
           n == Len(s)
           R == {x \in D \X D : end_before(s, x[1], x[2])}
           rank == [i \in D |-> Cardinality({j \in D : <<j, i>> \in R})]
           count(i) == Cardinality({j \in D : end_before(s, j, i)})
           p == [k \in D |-> CHOOSE i \in D : count(i) = k - 1]
<1>1. n \in Nat /\ D = 1..n
  OBVIOUS
<1>2. \A i \in D : i \in Nat /\ s[i] \in Entries /\ end_of(s[i]) \in Nat
  <2>1. \A i \in D : i \in Nat /\ s[i] \in Entries
    BY <1>1, ElementOfSeq
  <2> QED
    BY <2>1, SpanFields
<1>3. \A i, j \in D : <<j, i>> \in R <=> end_of(s[j]) < end_of(s[i])
                                          \/ (end_of(s[j]) = end_of(s[i]) /\ j < i)
  BY DEF end_before, end_of
<1>4. IsFiniteSet(D) /\ Cardinality(D) = n
  <2>1. \A k \in Nat : IsFiniteSet(1..k) /\ Cardinality(1..k) = k
    BY FS_Interval
  <2> QED
    BY <1>1, <2>1
<1>5. \A i \in D : count(i) = rank[i]
  <2>1. \A i \in D : {j \in D : end_before(s, j, i)} = {j \in D : <<j, i>> \in R}
    OBVIOUS
  <2> QED
    BY <2>1
<1>6. \A k \in D : sort_by_end(s)[k] = s[p[k]]
  BY DEF sort_by_end
<1> HIDE DEF D, R, n, count
<1>7. strict_order(D, R)
  BY <1>2, <1>3 DEF strict_order
<1>8. /\ \A x \in D : rank[x] \in 0..(n - 1)
      /\ \A x, y \in D : <<x, y>> \in R => rank[x] < rank[y]
      /\ \A x, y \in D : rank[x] = rank[y] => x = y
      /\ \A k \in 0..(n - 1) : \E x \in D : rank[x] = k
  <2>1. counts_before(rank, D, R)
    BY DEF counts_before
  <2> HIDE DEF rank
  <2> QED
    BY <1>4, <1>7, <2>1, RankOfOrder
<1> HIDE DEF rank
<1>9. \A k \in D : k - 1 \in 0..(n - 1) /\ k \in Nat
  BY <1>1
<1>10. ASSUME NEW k \in D PROVE p[k] \in D /\ rank[p[k]] = k - 1
  <2>1. \E i \in D : count(i) = k - 1
    BY <1>5, <1>8, <1>9
  <2>2. p[k] \in D /\ count(p[k]) = k - 1
    BY <2>1
  <2> QED
    BY <1>5, <2>2
<1>11. p \in [D -> D]
  BY <1>10
<1> HIDE DEF p
<1>12. \A k, l \in D : p[k] = p[l] => k = l
  BY <1>9, <1>10
<1>13. \A i \in D : \E k \in D : p[k] = i
  <2> SUFFICES ASSUME NEW i \in D PROVE \E k \in D : p[k] = i
    OBVIOUS
  <2>1. rank[i] \in 0..(n - 1) /\ rank[i] + 1 \in D /\ (rank[i] + 1) - 1 = rank[i]
    BY <1>1, <1>8
  <2>2. rank[p[rank[i] + 1]] = rank[i] /\ p[rank[i] + 1] \in D
    BY <1>10, <2>1
  <2> QED
    BY <1>8, <2>1, <2>2
<1>14. ASSUME NEW k \in D, NEW l \in D, k < l PROVE end_of(s[p[k]]) <= end_of(s[p[l]])
  <2>1. ~(rank[p[l]] < rank[p[k]])
    BY <1>9, <1>10, <1>14
  <2>2. <<p[l], p[k]>> \notin R
    BY <1>8, <1>10, <2>1
  <2>3. ~(end_of(s[p[l]]) < end_of(s[p[k]]))
    BY <1>3, <1>10, <2>2
  <2> QED
    BY <1>2, <1>10, <2>3
<1> QED
  BY <1>6, <1>11, <1>12, <1>13, <1>14 DEF D

\* Two entries never hold the same register.
distinct_registers(s) == \A i, j \in DOMAIN s : s[i][2] = s[j][2] => i = j

\* So the sorted vector has the same entries, each once, and its last entry is
\* one that ends last.
LEMMA SortedVector ==
    ASSUME intervals \in [Values -> Spans], NEW s \in Seq(Entries), distinct_registers(s)
    PROVE  /\ sort_by_end(s) \in Seq(Entries)
           /\ Len(sort_by_end(s)) = Len(s)
           /\ Range(sort_by_end(s)) = Range(s)
           /\ distinct_registers(sort_by_end(s))
           /\ \A e \in Range(s) : end_of(e) <= end_of(sort_by_end(s)[Len(s)])
<1> DEFINE t == sort_by_end(s)
           D == DOMAIN s
           n == Len(s)
<1>1. n \in Nat /\ D = 1..n /\ \A i \in D : s[i] \in Entries
  <2>1. n \in Nat /\ D = 1..n
    OBVIOUS
  <2> QED
    BY <2>1, ElementOfSeq
<1>2. PICK p \in [D -> D] :
        /\ \A k \in D : t[k] = s[p[k]]
        /\ \A k, l \in D : p[k] = p[l] => k = l
        /\ \A i \in D : \E k \in D : p[k] = i
        /\ \A k, l \in D : k < l => end_of(s[p[k]]) <= end_of(s[p[l]])
  BY SortPermutes
<1>3. t = [k \in D |-> t[k]] /\ DOMAIN t = D
  BY DEF sort_by_end
<1> HIDE DEF t, D, n
<1>4. \A k \in D : p[k] \in D
  BY <1>2
<1>5. t \in [1..n -> Entries]
  BY <1>1, <1>2, <1>3, <1>4
<1>6. t \in Seq(Entries) /\ Len(t) = n
  BY <1>1, <1>5
<1>7. Range(t) = Range(s)
  BY <1>2, <1>3, <1>4 DEF Range, D
<1>8. distinct_registers(t)
  <2> SUFFICES ASSUME NEW k \in D, NEW l \in D, t[k][2] = t[l][2] PROVE k = l
    BY <1>3 DEF distinct_registers
  <2>1. p[k] = p[l]
    <3>1. p[k] \in DOMAIN s /\ p[l] \in DOMAIN s /\ s[p[k]][2] = s[p[l]][2]
      BY <1>2, <1>4 DEF D
    <3> QED
      BY <3>1 DEF distinct_registers
  <2> QED
    BY <1>2, <2>1
<1>9. ASSUME NEW e \in Range(s) PROVE end_of(e) <= end_of(t[n])
  <2>1. PICK i \in D : e = s[i]
    BY DEF Range, D
  <2>2. PICK k \in D : p[k] = i
    BY <1>2
  <2>3. n \in D /\ (k = n \/ k < n)
    BY <1>1
  <2>4. end_of(e) \in Nat
    BY <1>1, <2>1, SpanFields
  <2>5. CASE k = n
    BY <1>2, <2>1, <2>2, <2>4, <2>5
  <2>6. CASE k < n
    BY <1>2, <2>1, <2>2, <2>3, <2>6
  <2> QED
    BY <2>3, <2>5, <2>6
<1> QED
  BY <1>6, <1>7, <1>8, <1>9 DEF t, n

-----------------------------------------------------------------------------
(* The inductive invariant.                                                *)

TypeOK ==
    /\ intervals \in [Values -> Spans]
    /\ max_regs \in Nat
    /\ free \in Seq(Registers)
    /\ active \in Seq(Entries)
    /\ DOMAIN map \subseteq Values
    /\ \A e \in Range(active) : e[1] \in DOMAIN map

\* A register is in the two vectors at most once.
RegistersOnce ==
    /\ IsInjective(free)
    /\ distinct_registers(active)
    /\ \A e \in Range(active) : e[2] \notin Range(free)

\* The values still to visit are those without a location, in their order.
VisitsInOrder ==
    /\ ordered \in Seq(Values)
    /\ Range(ordered) = Values \ DOMAIN map
    /\ \A i, j \in DOMAIN ordered : i < j => key_before(ordered[i], ordered[j])

VInv == TypeOK /\ RegistersOnce /\ VisitsInOrder

-----------------------------------------------------------------------------
(* expire_old.                                                             *)

\* f[i] is what the loop of expire_old has after i entries of t.
scanned(f, t, start, n) ==
    f = [i \in 0..n |-> IF i = 0 THEN [active |-> <<>>, free |-> free]
                                 ELSE look_at(f[i - 1], t[i], start)]

\* The recursion of expire_old defines it.
LEMMA ScanEquation ==
    ASSUME NEW interval, Len(sort_by_end(active)) \in Nat
    PROVE  \E f : /\ scanned(f, sort_by_end(active), interval.start, Len(sort_by_end(active)))
                  /\ expire_old(interval) = f[Len(sort_by_end(active))]
<1> DEFINE t == sort_by_end(active)
           start == interval.start
           n == Len(t)
           T == {m \in Nat : \E f : scanned(f, t, start, m)}
<1> HIDE DEF t, start, n
<1>1. 0 \in T
  <2> DEFINE f == [i \in 0..0 |-> [active |-> <<>>, free |-> free]]
  <2>1. scanned(f, t, start, 0)
    BY DEF scanned
  <2> QED
    BY <2>1
<1>2. ASSUME NEW m \in T PROVE m + 1 \in T
  <2>1. PICK g : scanned(g, t, start, m)
    OBVIOUS
  <2> DEFINE f == [i \in 0..(m + 1) |->
                      IF i <= m THEN g[i] ELSE look_at(g[m], t[m + 1], start)]
  <2>2. m \in Nat
    OBVIOUS
  <2>3. ASSUME NEW i \in 0..(m + 1)
        PROVE  f[i] = IF i = 0 THEN [active |-> <<>>, free |-> free]
                               ELSE look_at(f[i - 1], t[i], start)
    <3>1. CASE i <= m
      <4>1. i \in 0..m /\ f[i] = g[i] /\ (i # 0 => f[i - 1] = g[i - 1])
        BY <2>2, <3>1
      <4> HIDE DEF f
      <4> QED
        BY <2>1, <4>1 DEF scanned
    <3>2. CASE i = m + 1
      <4>1. i # 0 /\ i - 1 = m /\ f[i] = look_at(g[m], t[m + 1], start) /\ f[m] = g[m]
        BY <2>2, <3>2
      <4> HIDE DEF f
      <4> QED
        BY <3>2, <4>1
    <3> QED
      BY <2>2, <3>1, <3>2
  <2>4. f = [i \in 0..(m + 1) |-> f[i]]
    OBVIOUS
  <2> HIDE DEF f
  <2>5. scanned(f, t, start, m + 1)
    BY <2>3, <2>4 DEF scanned
  <2> QED
    BY <2>2, <2>5
<1>3. T = Nat
  <2>1. T \in SUBSET Nat
    OBVIOUS
  <2> HIDE DEF T
  <2> QED
    BY <1>1, <1>2, <2>1, SetInduction
<1>4. \E f : scanned(f, t, start, n)
  BY <1>3 DEF t, n
<1> DEFINE seen == CHOOSE f : scanned(f, t, start, n)
<1>5. scanned(seen, t, start, n)
  BY <1>4
<1>6. expire_old(interval) = seen[n]
  BY DEF expire_old, scanned, t, start, n
<1> HIDE DEF seen
<1> QED
  BY <1>5, <1>6 DEF t, start, n

expired(e, v) == end_of(e) < intervals[v].start

\* What looking at the first i entries of t leaves: the entries that have not
\* expired, and the registers of the others on top of the free ones.
looked_at(seen, t, i, v) ==
    /\ seen = [active |-> seen.active, free |-> seen.free]
    /\ seen.active \in Seq(Entries) /\ seen.free \in Seq(Registers)
    /\ Range(seen.active) = {t[j] : j \in {j \in 1..i : ~expired(t[j], v)}}
    /\ Range(seen.free) = Range(free) \cup {t[j][2] : j \in {j \in 1..i : expired(t[j], v)}}
    /\ distinct_registers(seen.active)
    /\ IsInjective(seen.free)

\* One more entry.
LEMMA LookAtStep ==
    ASSUME TypeOK, NEW v \in Values, NEW t \in Seq(Entries), distinct_registers(t),
           \A j \in DOMAIN t : t[j][2] \notin Range(free),
           NEW i \in Nat, i + 1 \in DOMAIN t,
           NEW seen, looked_at(seen, t, i, v)
    PROVE  looked_at(look_at(seen, t[i + 1], intervals[v].start), t, i + 1, v)
<1> DEFINE e == t[i + 1]
           next == look_at(seen, e, intervals[v].start)
<1>1. e \in Entries /\ e[2] \in Registers
  <2>1. i + 1 \in 1..Len(t)
    OBVIOUS
  <2>2. e \in Entries
    BY <2>1, ElementOfSeq
  <2> QED
    BY <2>2, SpanFields DEF TypeOK
<1>2. 1..(i + 1) = 1..i \cup {i + 1} /\ i + 1 \notin 1..i /\ 1..i \subseteq DOMAIN t
  OBVIOUS
<1>3. /\ seen = [active |-> seen.active, free |-> seen.free]
      /\ seen.active \in Seq(Entries) /\ seen.free \in Seq(Registers)
      /\ Range(seen.active) = {t[j] : j \in {j \in 1..i : ~expired(t[j], v)}}
      /\ Range(seen.free) = Range(free) \cup {t[j][2] : j \in {j \in 1..i : expired(t[j], v)}}
      /\ distinct_registers(seen.active)
      /\ IsInjective(seen.free)
  BY DEF looked_at
<1>4. \A j \in 1..i : t[j][2] # e[2]
  BY <1>2 DEF distinct_registers
<1>5. CASE expired(e, v)
  <2> DEFINE f == Append(seen.free, e[2])
  <2>1. next = [active |-> seen.active, free |-> f]
    BY <1>3, <1>5 DEF look_at, expired, end_of
  <2>2. next.active = seen.active /\ next.free = f
    BY <2>1
  <2>3. e[2] \notin Range(seen.free)
    BY <1>3, <1>4
  <2>4. /\ f \in Seq(Registers) /\ Range(f) = Range(seen.free) \cup {e[2]}
        /\ DOMAIN f = DOMAIN seen.free \cup {Len(seen.free) + 1}
        /\ f[Len(seen.free) + 1] = e[2]
        /\ \A j \in DOMAIN seen.free : f[j] = seen.free[j]
    BY <1>1, <1>3, PushEntry
  <2> HIDE DEF f, e, next
  <2>5. IsInjective(f)
    <3>1. \A j \in DOMAIN seen.free : seen.free[j] # e[2]
      BY <2>3 DEF Range
    <3> QED
      BY <1>3, <2>4, <3>1 DEF IsInjective
  <2>6. /\ {t[j] : j \in {j \in 1..(i + 1) : ~expired(t[j], v)}}
             = {t[j] : j \in {j \in 1..i : ~expired(t[j], v)}}
        /\ {t[j][2] : j \in {j \in 1..(i + 1) : expired(t[j], v)}}
             = {t[j][2] : j \in {j \in 1..i : expired(t[j], v)}} \cup {e[2]}
    BY <1>2, <1>5 DEF e
  <2>7. looked_at(next, t, i + 1, v)
    BY <1>3, <2>1, <2>2, <2>4, <2>5, <2>6 DEF looked_at
  <2> QED
    BY <2>7 DEF next, e
<1>6. CASE ~expired(e, v)
  <2> DEFINE a == Append(seen.active, e)
  <2>1. next = [active |-> a, free |-> seen.free]
    BY <1>3, <1>6 DEF look_at, expired, end_of
  <2>2. next.active = a /\ next.free = seen.free
    BY <2>1
  <2>3. \A x \in Range(seen.active) : x[2] # e[2]
    BY <1>3, <1>4
  <2>4. /\ a \in Seq(Entries) /\ Range(a) = Range(seen.active) \cup {e}
        /\ DOMAIN a = DOMAIN seen.active \cup {Len(seen.active) + 1}
        /\ a[Len(seen.active) + 1] = e
        /\ \A j \in DOMAIN seen.active : a[j] = seen.active[j]
    BY <1>1, <1>3, PushEntry
  <2> HIDE DEF a, e, next
  <2>5. distinct_registers(a)
    <3>1. \A j \in DOMAIN seen.active : seen.active[j][2] # e[2]
      BY <2>3 DEF Range
    <3> QED
      BY <1>3, <2>4, <3>1 DEF distinct_registers
  <2>6. /\ {t[j] : j \in {j \in 1..(i + 1) : ~expired(t[j], v)}}
             = {t[j] : j \in {j \in 1..i : ~expired(t[j], v)}} \cup {e}
        /\ {t[j][2] : j \in {j \in 1..(i + 1) : expired(t[j], v)}}
             = {t[j][2] : j \in {j \in 1..i : expired(t[j], v)}}
    BY <1>2, <1>6 DEF e
  <2>7. looked_at(next, t, i + 1, v)
    BY <1>3, <2>1, <2>2, <2>4, <2>5, <2>6 DEF looked_at
  <2> QED
    BY <2>7 DEF next, e
<1> QED
  BY <1>5, <1>6

\* expire_old splits the active entries into those that stay and those whose
\* registers are free again, and keeps every register once.
LEMMA ExpireOld ==
    ASSUME TypeOK, RegistersOnce, NEW v \in Values,
           NEW now, now = expire_old(intervals[v])
    PROVE  /\ now.active \in Seq(Entries) /\ now.free \in Seq(Registers)
           /\ Range(now.active) = {e \in Range(active) : ~expired(e, v)}
           /\ Range(now.free) = Range(free) \cup {e[2] : e \in {e \in Range(active) : expired(e, v)}}
           /\ distinct_registers(now.active)
           /\ IsInjective(now.free)
           /\ \A e \in Range(now.active) : e[2] \notin Range(now.free)
<1> DEFINE t == sort_by_end(active)
           n == Len(t)
<1>1. intervals \in [Values -> Spans] /\ active \in Seq(Entries) /\ free \in Seq(Registers)
  BY DEF TypeOK
<1>2. /\ t \in Seq(Entries) /\ n \in Nat /\ DOMAIN t = 1..n
      /\ Range(t) = Range(active) /\ distinct_registers(t)
  BY <1>1, SortedVector DEF RegistersOnce
<1>3. PICK f : scanned(f, t, intervals[v].start, n) /\ now = f[n]
  BY <1>2, ScanEquation
<1> HIDE DEF t, n
<1>4. \A j \in DOMAIN t : t[j][2] \notin Range(free)
  <2>1. \A j \in DOMAIN t : t[j] \in Range(active)
    BY <1>2 DEF Range
  <2> QED
    BY <2>1 DEF RegistersOnce
<1> DEFINE T == {i \in Nat : i <= n => looked_at(f[i], t, i, v)}
<1>5. 0 \in T
  <2>1. f[0] = [active |-> <<>>, free |-> free]
    BY <1>2, <1>3 DEF scanned
  <2>2. f[0].active = <<>> /\ f[0].free = free /\ f[0] = [active |-> f[0].active, free |-> f[0].free]
    BY <2>1
  <2>3. Range(<<>>) = {} /\ <<>> \in Seq(Entries) /\ distinct_registers(<<>>)
    BY DEF Range, distinct_registers
  <2>4. /\ {t[j] : j \in {j \in 1..0 : ~expired(t[j], v)}} = {}
        /\ {t[j][2] : j \in {j \in 1..0 : expired(t[j], v)}} = {}
    OBVIOUS
  <2>5. IsInjective(free)
    BY DEF RegistersOnce
  <2>6. looked_at(f[0], t, 0, v)
    BY <1>1, <2>2, <2>3, <2>4, <2>5 DEF looked_at
  <2> QED
    BY <2>6
<1>6. ASSUME NEW i \in T PROVE i + 1 \in T
  <2>1. i \in Nat
    OBVIOUS
  <2> SUFFICES ASSUME i + 1 <= n PROVE looked_at(f[i + 1], t, i + 1, v)
    BY <2>1
  <2>2. i + 1 \in DOMAIN t /\ i + 1 \in 0..n /\ i + 1 # 0 /\ (i + 1) - 1 = i /\ i <= n
    BY <1>2, <2>1
  <2>3. f[i + 1] = look_at(f[i], t[i + 1], intervals[v].start)
    BY <1>3, <2>2 DEF scanned
  <2>4. looked_at(f[i], t, i, v)
    BY <2>1, <2>2
  <2> QED
    BY <1>2, <1>4, <2>1, <2>2, <2>3, <2>4, LookAtStep
<1>7. T = Nat
  <2>1. T \in SUBSET Nat
    OBVIOUS
  <2> HIDE DEF T
  <2> QED
    BY <1>5, <1>6, <2>1, SetInduction
<1>8. looked_at(now, t, n, v)
  BY <1>2, <1>3, <1>7
<1>9. /\ {t[j] : j \in {j \in 1..n : ~expired(t[j], v)}} = {e \in Range(active) : ~expired(e, v)}
      /\ {t[j][2] : j \in {j \in 1..n : expired(t[j], v)}}
            = {e[2] : e \in {e \in Range(active) : expired(e, v)}}
  <2>1. \A e : e \in Range(active) <=> \E j \in 1..n : e = t[j]
    BY <1>2 DEF Range
  <2> QED
    BY <2>1
<1>10. ASSUME NEW e \in Range(now.active) PROVE e[2] \notin Range(now.free)
  <2>1. PICK j \in DOMAIN t : e = t[j] /\ ~expired(t[j], v)
    BY <1>2, <1>8 DEF looked_at
  <2>2. \A k \in DOMAIN t : expired(t[k], v) => t[k][2] # e[2]
    BY <1>2, <2>1 DEF distinct_registers
  <2> QED
    BY <1>2, <1>4, <1>8, <2>1, <2>2 DEF looked_at
<1> QED
  BY <1>8, <1>9, <1>10 DEF looked_at

-----------------------------------------------------------------------------
(* The order of the loop.                                                  *)

\* The sorted list has every value once, in the order of its key.
LEMMA SortedValues ==
    ASSUME intervals \in [Values -> Spans]
    PROVE  /\ sorted_values \in Seq(Values)
           /\ Range(sorted_values) = Values
           /\ \A i, j \in DOMAIN sorted_values :
                 i < j => key_before(sorted_values[i], sorted_values[j])
<1> DEFINE R == {x \in Values \X Values : key_before(x[1], x[2])}
           n == Cardinality(Values)
           count(v) == Cardinality({w \in Values : key_before(w, v)})
           rank == [v \in Values |-> Cardinality({w \in Values : <<w, v>> \in R})]
           t == sorted_values
<1>1. IsFiniteSet(Values) /\ n \in Nat /\ DOMAIN intervals = Values
  BY VecValuesAssumption, FS_CardinalityType
<1>2. \A v \in Values : count(v) = rank[v]
  <2>1. \A v \in Values : {w \in Values : key_before(w, v)} = {w \in Values : <<w, v>> \in R}
    OBVIOUS
  <2> QED
    BY <2>1
<1>3. t = [k \in 1..n |-> CHOOSE v \in Values : count(v) = k - 1]
  BY <1>1 DEF sorted_values
<1>4. \A v, w \in Values : <<v, w>> \in R <=> key_before(v, w)
  OBVIOUS
<1>5. strict_order(Values, R)
  <2> HIDE DEF R
  <2>1. \A v \in Values : v \in Nat /\ intervals[v].start \in Nat /\ intervals[v].end \in Nat
    BY SpanFields
  <2>2. \A x \in Values : <<x, x>> \notin R
    BY <1>4, <2>1 DEF key_before
  <2>3. \A x, y, z \in Values : <<x, y>> \in R /\ <<y, z>> \in R => <<x, z>> \in R
    BY <1>4, <2>1 DEF key_before
  <2>4. ASSUME NEW x \in Values, NEW y \in Values
        PROVE  x = y \/ <<x, y>> \in R \/ <<y, x>> \in R
    <3>1. x = y \/ key_before(x, y) \/ key_before(y, x)
      BY <2>1 DEF key_before
    <3> QED
      BY <1>4, <3>1
  <2> QED
    BY <2>2, <2>3, <2>4 DEF strict_order
<1>6. counts_before(rank, Values, R)
  BY DEF counts_before
<1> HIDE DEF rank, R, t, count, n
<1>7. /\ \A x \in Values : rank[x] \in 0..(n - 1)
      /\ \A x, y \in Values : <<x, y>> \in R => rank[x] < rank[y]
      /\ \A x, y \in Values : rank[x] = rank[y] => x = y
      /\ \A k \in 0..(n - 1) : \E x \in Values : rank[x] = k
  BY <1>1, <1>5, <1>6, RankOfOrder DEF n
<1>8. ASSUME NEW k \in 1..n PROVE t[k] \in Values /\ rank[t[k]] = k - 1
  <2>1. k - 1 \in 0..(n - 1)
    BY <1>1
  <2>2. \E v \in Values : count(v) = k - 1
    BY <1>2, <1>7, <2>1
  <2>3. t[k] \in Values /\ count(t[k]) = k - 1
    BY <1>3, <2>2
  <2> QED
    BY <1>2, <2>3
<1>9. t \in [1..n -> Values] /\ DOMAIN t = 1..n
  BY <1>3, <1>8
<1>10. t \in Seq(Values)
  BY <1>1, <1>9
<1>11. Range(t) = Values
  <2> SUFFICES ASSUME NEW v \in Values PROVE \E k \in 1..n : t[k] = v
    BY <1>9 DEF Range
  <2>1. rank[v] + 1 \in 1..n /\ (rank[v] + 1) - 1 = rank[v]
    BY <1>1, <1>7
  <2>2. t[rank[v] + 1] \in Values /\ rank[t[rank[v] + 1]] = rank[v]
    BY <1>8, <2>1
  <2> QED
    BY <1>7, <2>1, <2>2
<1>12. ASSUME NEW i \in 1..n, NEW j \in 1..n, i < j PROVE key_before(t[i], t[j])
  <2>1. /\ t[i] \in Values /\ t[j] \in Values
        /\ t[i] # t[j] /\ ~(rank[t[j]] < rank[t[i]])
    <3>1. rank[t[i]] = i - 1 /\ rank[t[j]] = j - 1 /\ i \in Nat /\ j \in Nat
      BY <1>1, <1>8
    <3> QED
      BY <1>8, <1>12, <3>1
  <2>2. <<t[i], t[j]>> \in R
    BY <1>5, <1>7, <2>1 DEF strict_order
  <2> QED
    BY <1>4, <2>1, <2>2
<1> QED
  BY <1>9, <1>10, <1>11, <1>12 DEF t

\* The head of the list is the value LinearScan visits next; afterwards the
\* tail holds what is left.
LEMMA HeadIsCurrent ==
    ASSUME VInv, ordered # <<>>
    PROVE  /\ Head(ordered) \in Values /\ Head(ordered) \notin DOMAIN map
           /\ Sets!is_current(Head(ordered))
           /\ Tail(ordered) \in Seq(Values)
           /\ Range(Tail(ordered)) = Range(ordered) \ {Head(ordered)}
           /\ \A i, j \in DOMAIN Tail(ordered) :
                 i < j => key_before(Tail(ordered)[i], Tail(ordered)[j])
<1> DEFINE v == Head(ordered)
           t == Tail(ordered)
           n == Len(ordered)
<1>1. /\ intervals \in [Values -> Spans] /\ ordered \in Seq(Values)
      /\ Range(ordered) = Values \ DOMAIN map
      /\ \A i, j \in DOMAIN ordered : i < j => key_before(ordered[i], ordered[j])
  BY DEF VInv, TypeOK, VisitsInOrder
<1>2. /\ n \in Nat /\ n # 0 /\ DOMAIN ordered = 1..n /\ v = ordered[1]
      /\ t \in Seq(Values) /\ Len(t) = n - 1 /\ DOMAIN t = 1..(n - 1)
      /\ \A i \in 1..(n - 1) : t[i] = ordered[i + 1]
  BY <1>1
<1> HIDE DEF v, t, n
<1>3. \A i \in 1..(n - 1) : i + 1 \in 1..n /\ i + 1 # 1 /\ 1 < i + 1
  BY <1>2
<1>4. 1 \in 1..n /\ \A i \in 1..n : i = 1 \/ (1 < i /\ i - 1 \in 1..(n - 1) /\ (i - 1) + 1 = i)
  BY <1>2
<1>5. v \in Values /\ v \notin DOMAIN map
  BY <1>1, <1>2, <1>4 DEF Range
<1>6. \A i \in 1..n : i # 1 => key_before(v, ordered[i]) /\ ordered[i] \in Values
  BY <1>1, <1>2, <1>4 DEF Range
<1>7. \A w \in Values : ~key_before(w, w)
  BY <1>1, SpanFields DEF key_before
<1>8. Range(t) = Range(ordered) \ {v}
  <2>1. ASSUME NEW x \in Range(t) PROVE x \in Range(ordered) /\ x # v
    <3>1. PICK i \in 1..(n - 1) : x = t[i]
      BY <1>2 DEF Range
    <3>2. x = ordered[i + 1] /\ i + 1 \in 1..n /\ i + 1 # 1
      BY <1>2, <1>3, <3>1
    <3>3. x \in Range(ordered)
      BY <1>2, <3>2 DEF Range
    <3> QED
      BY <1>5, <1>6, <1>7, <3>2, <3>3
  <2>2. ASSUME NEW x \in Range(ordered), x # v PROVE x \in Range(t)
    <3>1. PICK i \in 1..n : x = ordered[i]
      BY <1>2 DEF Range
    <3>2. i - 1 \in 1..(n - 1) /\ (i - 1) + 1 = i
      BY <1>2, <1>4, <2>2, <3>1
    <3>3. t[i - 1] = x
      BY <1>2, <3>1, <3>2
    <3> QED
      BY <1>2, <3>2, <3>3 DEF Range
  <2> QED
    BY <2>1, <2>2
<1>9. Sets!is_current(v)
  <2>1. \A w \in Values \ DOMAIN map : w # v => key_before(v, w)
    BY <1>1, <1>2, <1>6 DEF Range
  <2> QED
    BY <1>5, <2>1 DEF Sets!is_current, Sets!pending, Sets!precedes, key_before
<1>10. ASSUME NEW i \in DOMAIN t, NEW j \in DOMAIN t, i < j PROVE key_before(t[i], t[j])
  <2>1. i + 1 \in DOMAIN ordered /\ j + 1 \in DOMAIN ordered /\ i + 1 < j + 1
    BY <1>2, <1>10
  <2> QED
    BY <1>1, <1>2, <2>1
<1> QED
  BY <1>2, <1>5, <1>8, <1>9, <1>10 DEF v, t

\* A value gets a location.
LEMMA Inserted ==
    ASSUME NEW m, NEW v, NEW loc
    PROVE  /\ DOMAIN insert(m, v, loc) = DOMAIN m \cup {v}
           /\ Sets!insert(m, v, loc) = insert(m, v, loc)
BY DEF insert, Sets!insert

\* What a visit does to the order.
LEMMA OrderKept ==
    ASSUME VInv, ordered # <<>>, ordered' = Tail(ordered), intervals' = intervals,
           DOMAIN map' = DOMAIN map \cup {Head(ordered)}
    PROVE  VisitsInOrder'
<1>1. /\ Tail(ordered) \in Seq(Values)
      /\ Range(Tail(ordered)) = Range(ordered) \ {Head(ordered)}
      /\ \A i, j \in DOMAIN Tail(ordered) :
            i < j => key_before(Tail(ordered)[i], Tail(ordered)[j])
  BY HeadIsCurrent
<1>2. Range(ordered') = Values \ DOMAIN map'
  BY <1>1 DEF VInv, VisitsInOrder
<1>3. \A i, j \in DOMAIN ordered' : i < j => key_before(ordered[i], ordered[j])'
  BY <1>1 DEF key_before
<1> QED
  BY <1>1, <1>2, <1>3 DEF VisitsInOrder

-----------------------------------------------------------------------------
(* The loop body: every branch keeps the invariant and is one LinearScan   *)
(* allows.                                                                 *)

\* What expire_old leaves is what LinearScan has left.
LEMMA SetsAgree ==
    ASSUME VInv, NEW v \in Values, NEW now, now = expire_old(intervals[v])
    PROVE  /\ Range(now.active) = Sets!still_active(v)
           /\ Range(now.free) = Sets!freed(v)
           /\ \A e \in Sets!still_active(v) : e \in Range(active) /\ e \in Entries
<1>1. TypeOK /\ RegistersOnce /\ intervals \in [Values -> Spans] /\ active \in Seq(Entries)
  BY DEF VInv, TypeOK
<1>2. \A e \in Range(active) : e \in Entries /\ end_of(e) \in Nat
  <2>1. \A i \in DOMAIN active : active[i] \in Entries
    BY <1>1, ElementOfSeq
  <2> QED
    BY <1>1, <2>1, SpanFields DEF Range
<1>3. intervals[v].start \in Nat
  BY <1>1, SpanFields
<1>4. Sets!still_active(v) = {e \in Range(active) : ~expired(e, v)}
  BY <1>2, <1>3 DEF Sets!still_active, expired, end_of
<1>5. Range(active) \ Sets!still_active(v) = {e \in Range(active) : expired(e, v)}
  BY <1>4
<1>6. /\ Range(now.active) = {e \in Range(active) : ~expired(e, v)}
      /\ Range(now.free) = Range(free) \cup {e[2] : e \in {e \in Range(active) : expired(e, v)}}
  BY <1>1, ExpireOld
<1> QED
  BY <1>2, <1>4, <1>5, <1>6 DEF Sets!freed

\* An entry for the current value is added to a vector that does not hold its
\* register.
LEMMA EntryAdded ==
    ASSUME NEW s \in Seq(Entries), distinct_registers(s), NEW e \in Entries,
           \A x \in Range(s) : x[2] # e[2]
    PROVE  /\ Append(s, e) \in Seq(Entries)
           /\ Range(Append(s, e)) = Range(s) \cup {e}
           /\ distinct_registers(Append(s, e))
<1>1. /\ Append(s, e) \in Seq(Entries)
      /\ Range(Append(s, e)) = Range(s) \cup {e}
      /\ DOMAIN Append(s, e) = DOMAIN s \cup {Len(s) + 1}
      /\ Append(s, e)[Len(s) + 1] = e
      /\ \A i \in DOMAIN s : Append(s, e)[i] = s[i]
  BY PushEntry
<1>2. \A i \in DOMAIN s : s[i][2] # e[2]
  BY DEF Range
<1>3. distinct_registers(Append(s, e))
  BY <1>1, <1>2 DEF distinct_registers
<1> QED
  BY <1>1, <1>3

\* A register is free.
LEMMA TakeRegisterStep ==
    ASSUME VInv, ordered # <<>>, NEW v, v = Head(ordered),
           NEW now, now = expire_old(intervals[v]), TakeRegister(v, now),
           ordered' = Tail(ordered), UNCHANGED <<intervals, max_regs, result>>
    PROVE  VInv' /\ Sets!TakeRegister(v)
<1> DEFINE r == now.free[Len(now.free)]
           e == <<v, r>>
<1>1. /\ now.free # <<>>
      /\ free' = SubSeq(now.free, 1, Len(now.free) - 1)
      /\ active' = Append(now.active, e)
      /\ map' = insert(map, v, Reg(r))
      /\ stack_slots' = stack_slots
  BY DEF TakeRegister
<1>2. v \in Values /\ v \notin DOMAIN map /\ Sets!is_current(v)
  BY HeadIsCurrent
<1>3. /\ now.active \in Seq(Entries) /\ now.free \in Seq(Registers)
      /\ distinct_registers(now.active) /\ IsInjective(now.free)
      /\ \A x \in Range(now.active) : x[2] \notin Range(now.free)
  BY <1>2, ExpireOld DEF VInv
<1>4. /\ Range(now.active) = Sets!still_active(v) /\ Range(now.free) = Sets!freed(v)
      /\ \A x \in Sets!still_active(v) : x \in Range(active)
  BY <1>2, SetsAgree
<1>5. /\ r \in Range(now.free) /\ free' \in Seq(Registers)
      /\ Range(free') = Range(now.free) \ {r} /\ IsInjective(free')
  BY <1>1, <1>3, PopEntry
<1>6. e \in Entries /\ e[1] = v /\ e[2] = r
  <2>1. r \in Registers
    <3>1. Len(now.free) \in 1..Len(now.free)
      <4>1. \A s \in Seq(Registers) : s # <<>> => Len(s) \in 1..Len(s)
        OBVIOUS
      <4> QED
        BY <1>1, <1>3, <4>1
    <3> QED
      BY <1>3, <3>1, ElementOfSeq
  <2> QED
    BY <1>2, <2>1 DEF Entries
<1> HIDE DEF r, e
<1>7. /\ active' \in Seq(Entries) /\ Range(active') = Range(now.active) \cup {e}
      /\ distinct_registers(active')
  BY <1>1, <1>3, <1>5, <1>6, EntryAdded
<1>8. DOMAIN map' = DOMAIN map \cup {v} /\ map' = Sets!insert(map, v, Reg(r))
  BY <1>1, Inserted
<1>9. TypeOK'
  BY <1>2, <1>4, <1>5, <1>6, <1>7, <1>8 DEF VInv, TypeOK
<1>10. RegistersOnce'
  BY <1>3, <1>5, <1>6, <1>7 DEF RegistersOnce, distinct_registers, IsInjective
<1>11. VisitsInOrder'
  BY <1>8, OrderKept
<1>12. Sets!TakeRegister(v)
  <2>1. r \in Sets!freed(v) /\ Range(free') = Sets!freed(v) \ {r}
    BY <1>4, <1>5
  <2>2. Range(active') = Sets!still_active(v) \cup {<<v, r>>}
    BY <1>4, <1>7 DEF e
  <2>3. map' = Sets!insert(map, v, Sets!Reg(r))
    BY <1>8 DEF Reg, Sets!Reg
  <2> QED
    BY <1>1, <1>2, <2>1, <2>2, <2>3 DEF Sets!TakeRegister
<1> QED
  BY <1>9, <1>10, <1>11, <1>12 DEF VInv

\* No register is free and nothing is active.
LEMMA SpillAloneStep ==
    ASSUME VInv, ordered # <<>>, NEW v, v = Head(ordered),
           NEW now, now = expire_old(intervals[v]), SpillAlone(v, now),
           ordered' = Tail(ordered), UNCHANGED <<intervals, max_regs, result>>
    PROVE  VInv' /\ Sets!SpillCurrent(v)
<1>1. /\ now.free = <<>> /\ now.active = <<>> /\ free' = <<>> /\ active' = <<>>
      /\ map' = insert(map, v, Stack(stack_slots))
      /\ stack_slots' = stack_slots + 1
  BY DEF SpillAlone
<1>2. v \in Values /\ v \notin DOMAIN map /\ Sets!is_current(v)
  BY HeadIsCurrent
<1>3. Range(<<>>) = {} /\ <<>> \in Seq(Entries) /\ <<>> \in Seq(Registers) /\ DOMAIN <<>> = {}
  BY DEF Range
<1>4. Sets!still_active(v) = {} /\ Sets!freed(v) = {}
  BY <1>1, <1>2, <1>3, SetsAgree
<1>5. DOMAIN map' = DOMAIN map \cup {v} /\ map' = Sets!insert(map, v, Stack(stack_slots))
  <2>1. map' = insert(map, v, Stack(stack_slots))
    BY <1>1
  <2> QED
    BY <2>1, Inserted
<1>6. TypeOK'
  BY <1>1, <1>2, <1>3, <1>5 DEF VInv, TypeOK
<1>7. RegistersOnce'
  BY <1>1, <1>3 DEF RegistersOnce, distinct_registers, IsInjective
<1>8. VisitsInOrder'
  BY <1>5, OrderKept
<1>9. Sets!SpillCurrent(v)
  <2>1. map' = Sets!insert(map, v, Sets!Stack(stack_slots))
    BY <1>5 DEF Stack, Sets!Stack
  <2> QED
    BY <1>1, <1>2, <1>3, <1>4, <2>1 DEF Sets!SpillCurrent
<1> QED
  BY <1>6, <1>7, <1>8, <1>9 DEF VInv

\* No register is free: the current interval or an active one is spilled.
LEMMA SpillLastStep ==
    ASSUME VInv, ordered # <<>>, NEW v, v = Head(ordered),
           NEW now, now = expire_old(intervals[v]), SpillLast(v, now),
           ordered' = Tail(ordered), UNCHANGED <<intervals, max_regs, result>>
    PROVE  VInv' /\ (Sets!SpillCurrent(v) \/ Sets!SpillFarthest(v))
<1> DEFINE t == sort_by_end(now.active)
           n == Len(t)
           x == t[n]
           e == <<v, x[2]>>
           rest == SubSeq(t, 1, n - 1)
<1>1. /\ now.free = <<>> /\ now.active # <<>> /\ free' = <<>>
      /\ stack_slots' = stack_slots + 1
      /\ \/ /\ intervals[x[1]].end > intervals[v].end
            /\ active' = Append(rest, e)
            /\ map' = insert(insert(map, x[1], Stack(stack_slots)), v, Reg(x[2]))
         \/ /\ intervals[x[1]].end <= intervals[v].end
            /\ active' = t
            /\ map' = insert(map, v, Stack(stack_slots))
  BY DEF SpillLast
<1>2. /\ v \in Values /\ v \notin DOMAIN map /\ Sets!is_current(v)
      /\ TypeOK /\ RegistersOnce /\ intervals \in [Values -> Spans]
  BY HeadIsCurrent DEF VInv, TypeOK
<1>3. now.active \in Seq(Entries) /\ distinct_registers(now.active)
  BY <1>2, ExpireOld
<1>4. /\ Range(now.active) = Sets!still_active(v) /\ Range(now.free) = Sets!freed(v)
      /\ \A y \in Sets!still_active(v) : y \in Range(active) /\ y \in Entries
  BY <1>2, SetsAgree
<1>5. /\ t \in Seq(Entries) /\ n = Len(now.active) /\ Range(t) = Sets!still_active(v)
      /\ distinct_registers(t)
      /\ \A y \in Sets!still_active(v) : end_of(y) <= end_of(x)
  BY <1>2, <1>3, <1>4, SortedVector
<1>6. t # <<>> /\ IsInjective(t)
  <2>1. \A s \in Seq(Entries) : s # <<>> <=> Len(s) # 0
    OBVIOUS
  <2> HIDE DEF t
  <2>2. n # 0
    BY <1>1, <1>3, <1>5, <2>1
  <2> QED
    BY <1>5, <2>1, <2>2 DEF distinct_registers, IsInjective
<1>7. Range(<<>>) = {} /\ <<>> \in Seq(Registers) /\ DOMAIN <<>> = {}
  BY DEF Range
<1>8. Sets!freed(v) = {} /\ IsInjective(free') /\ Range(free') = {} /\ free' \in Seq(Registers)
  BY <1>1, <1>4, <1>7 DEF IsInjective
<1>9. /\ x \in Range(t) /\ n \in DOMAIN t /\ rest \in Seq(Entries)
      /\ DOMAIN rest = 1..(n - 1)
      /\ \A i \in 1..(n - 1) : i \in DOMAIN t /\ i # n /\ rest[i] = t[i]
      /\ Range(rest) = Range(t) \ {x}
  <2>1. t \in Seq(Entries) /\ t # <<>> /\ IsInjective(t)
    BY <1>5, <1>6
  <2> HIDE DEF t
  <2> QED
    BY ONLY <2>1, PopEntry
<1>10. /\ x \in Range(active) /\ x \in Entries /\ x[1] \in DOMAIN map
       /\ x[1] \in Values /\ x[2] \in Registers
  BY <1>2, <1>4, <1>5, <1>9, SpanFields DEF TypeOK
<1>11. \A y \in Sets!still_active(v) : y[1] \in Values /\ y[1] \in DOMAIN map /\ end_of(y) \in Nat
  BY <1>2, <1>4, SpanFields DEF TypeOK
<1>12. intervals[v].end \in Nat /\ end_of(x) \in Nat
  BY <1>2, <1>10, SpanFields
<1> HIDE DEF t, n, x, rest
<1>13. CASE /\ intervals[x[1]].end <= intervals[v].end
            /\ active' = t
            /\ map' = insert(map, v, Stack(stack_slots))
  <2>1. DOMAIN map' = DOMAIN map \cup {v} /\ map' = Sets!insert(map, v, Sets!Stack(stack_slots))
    BY <1>13, Inserted DEF Stack, Sets!Stack
  <2>2. TypeOK'
    BY <1>2, <1>5, <1>8, <1>11, <1>13, <2>1 DEF TypeOK
  <2>3. RegistersOnce'
    BY <1>5, <1>8, <1>13 DEF RegistersOnce
  <2>4. VisitsInOrder'
    BY <2>1, OrderKept
  <2>5. \A y \in Sets!still_active(v) : intervals[y[1]].end <= intervals[v].end
    <3>1. end_of(x) <= intervals[v].end
      BY <1>13 DEF end_of
    <3>2. \A y \in Sets!still_active(v) : end_of(y) <= intervals[v].end
      BY <1>5, <1>11, <1>12, <3>1
    <3> QED
      BY <3>2 DEF end_of
  <2>6. Sets!SpillCurrent(v)
    BY <1>1, <1>2, <1>5, <1>8, <1>13, <2>1, <2>5 DEF Sets!SpillCurrent
  <2> QED
    BY <2>2, <2>3, <2>4, <2>6 DEF VInv
<1>14. CASE /\ intervals[x[1]].end > intervals[v].end
            /\ active' = Append(rest, e)
            /\ map' = insert(insert(map, x[1], Stack(stack_slots)), v, Reg(x[2]))
  <2>1. /\ DOMAIN map' = DOMAIN map \cup {v}
        /\ map' = Sets!insert(Sets!insert(map, x[1], Sets!Stack(stack_slots)), v, Sets!Reg(x[2]))
    <3> DEFINE w == x[1]
               l == Stack(stack_slots)
               r == Reg(x[2])
               m == insert(map, w, l)
    <3>1. r = Sets!Reg(x[2]) /\ l = Sets!Stack(stack_slots)
      BY DEF Reg, Stack, Sets!Reg, Sets!Stack
    <3>2. w \in DOMAIN map
      BY <1>10
    <3>3. map' = insert(m, v, r)
      BY <1>14
    <3> HIDE DEF w, l, r
    <3>4. DOMAIN m = DOMAIN map \cup {w} /\ m = Sets!insert(map, w, l)
      BY Inserted
    <3> HIDE DEF m
    <3>5. DOMAIN map' = DOMAIN m \cup {v} /\ map' = Sets!insert(m, v, r)
      BY <3>3, Inserted
    <3>6. DOMAIN map' = DOMAIN map \cup {v}
      BY <3>2, <3>4, <3>5
    <3>7. map' = Sets!insert(Sets!insert(map, w, l), v, r)
      BY <3>4, <3>5
    <3> QED
      BY <3>1, <3>6, <3>7 DEF w
  <2>2. e \in Entries /\ e[1] = v /\ e[2] = x[2]
    BY <1>2, <1>10 DEF Entries
  <2> HIDE DEF e
  <2>3. distinct_registers(rest) /\ \A y \in Range(rest) : y[2] # x[2]
    <3>1. \A i \in DOMAIN t : t[i][2] = x[2] => i = n
      BY <1>5, <1>9 DEF distinct_registers, x
    <3>2. \A i \in DOMAIN rest : i \in DOMAIN t /\ rest[i] = t[i] /\ rest[i][2] # x[2]
      BY <1>9, <3>1
    <3> QED
      BY <1>5, <3>2 DEF distinct_registers, Range
  <2>4. /\ active' \in Seq(Entries) /\ Range(active') = Range(rest) \cup {e}
        /\ distinct_registers(active')
    BY <1>9, <1>14, <2>2, <2>3, EntryAdded
  <2>5. TypeOK'
    BY <1>2, <1>5, <1>8, <1>9, <1>11, <2>1, <2>2, <2>4 DEF TypeOK
  <2>6. RegistersOnce'
    BY <1>8, <2>4 DEF RegistersOnce
  <2>7. VisitsInOrder'
    BY <2>1, OrderKept
  <2>8. /\ x \in Sets!still_active(v)
        /\ \A y \in Sets!still_active(v) : intervals[y[1]].end <= intervals[x[1]].end
        /\ Range(active') = (Sets!still_active(v) \ {x}) \cup {<<v, x[2]>>}
    BY <1>5, <1>9, <2>4 DEF end_of, e
  <2>9. Sets!SpillFarthest(v)
    BY <1>1, <1>2, <1>8, <1>14, <2>1, <2>8 DEF Sets!SpillFarthest
  <2> QED
    BY <2>5, <2>6, <2>7, <2>9 DEF VInv
<1> QED
  BY <1>1, <1>13, <1>14

\* At the start the free list is the allowed registers and nothing is visited.
LEMMA InitVInv == Init => VInv /\ Sets!Init
<1> SUFFICES ASSUME Init PROVE VInv /\ Sets!Init
  OBVIOUS
<1> DEFINE limit == register_limit(RegSet, max_regs)
<1>1. /\ intervals \in [Values -> Spans] /\ max_regs \in 0..(Len(RegSet.regs) + 1)
      /\ free = SubSeq(RegSet.regs, 1, limit) /\ active = <<>>
      /\ map = [v \in {} |-> Stack(0)] /\ stack_slots = 0
      /\ ordered = sorted_values /\ result = "none"
  BY DEF Init
<1>2. valid(RegSet) /\ RegSet.regs \in Seq(STRING) /\ RegSet.scratch \in Seq(STRING)
  BY VecRegSetAssumption DEF valid
<1>3. max_regs \in Nat
  BY <1>1, <1>2
<1>4. limit \in Nat /\ limit \in 0..Len(RegSet.regs)
  BY <1>2, <1>3, BudgetIsCutOnce
<1>5. \A i, j \in DOMAIN RegSet.regs : RegSet.regs[i] = RegSet.regs[j] => i = j
  BY <1>2, PartsAreDisjoint DEF valid, validate_for_codegen
<1> HIDE DEF limit
<1>6. /\ DOMAIN free = 1..limit /\ free \in Seq(STRING) /\ Len(free) = limit
      /\ \A i \in 1..limit : free[i] = RegSet.regs[i] /\ i \in DOMAIN RegSet.regs
  <2>1. 1 \in Nat /\ limit <= Len(RegSet.regs) /\ Len(RegSet.regs) \in Nat
        /\ DOMAIN RegSet.regs = 1..Len(RegSet.regs)
    BY <1>2, <1>4
  <2> QED
    BY <1>1, <1>2, <1>4, <2>1
<1>7. free \in Seq(Registers)
  <2>1. free = [i \in 1..limit |-> free[i]]
    BY <1>6
  <2>2. \A i \in 1..limit : free[i] \in Registers
    BY <1>6 DEF Registers
  <2> QED
    BY <1>4, <2>1, <2>2
<1>8. IsInjective(free) /\ Range(free) = {RegSet.regs[i] : i \in 1..limit}
  BY <1>5, <1>6 DEF IsInjective, Range
<1>9. Range(<<>>) = {} /\ <<>> \in Seq(Entries) /\ DOMAIN <<>> = {} /\ DOMAIN map = {}
  BY <1>1 DEF Range
<1>10. TypeOK
  BY <1>1, <1>3, <1>7, <1>9 DEF TypeOK
<1>11. RegistersOnce
  BY <1>1, <1>8, <1>9 DEF RegistersOnce, distinct_registers
<1>12. VisitsInOrder
  BY <1>1, <1>9, SortedValues DEF VisitsInOrder
<1>13. Sets!Init
  <2>1. Range(free) = Sets!allowed_regs(RegSet, max_regs)
    BY <1>8 DEF Sets!allowed_regs, Sets!register_limit, register_limit, limit
  <2>2. intervals \in [Values -> Sets!Spans]
    BY <1>1 DEF Spans, Sets!Spans
  <2>3. map = [v \in {} |-> Sets!Stack(0)]
    BY <1>1
  <2> QED
    BY <1>1, <1>9, <2>1, <2>2, <2>3 DEF Sets!Init
<1> QED
  BY <1>10, <1>11, <1>12, <1>13 DEF VInv

-----------------------------------------------------------------------------
(* The refinement.                                                         *)

\* The verifier LinearScan calls is the one the code calls.
LEMMA SameVerifier ==
    ASSUME NEW list, NEW rs, NEW n, NEW a
    PROVE  Sets!verify_assignment(list, rs, n, a) = verify_assignment(list, rs, n, a)
<1>1. /\ \A S : Sets!Cardinality(S) = Cardinality(S)
      /\ \A S : Sets!Max(S) = Max(S)
      /\ \A f : Sets!Range(f) = Range(f)
      /\ \A m : Sets!spilled(m) = spilled(m)
      /\ \A i, j : Sets!overlaps(i, j) = overlaps(i, j)
      /\ \A r, k : Sets!register_limit(r, k) = register_limit(r, k)
  BY DEF Cardinality, Sets!Cardinality, Max, Sets!Max, Range, Sets!Range, spilled, Sets!spilled,
         overlaps, Sets!overlaps, register_limit, Sets!register_limit
<1>2. \A r, k : Sets!allowed_regs(r, k) = allowed_regs(r, k)
  BY <1>1 DEF allowed_regs, Sets!allowed_regs
<1>3. \A r, l, m : Sets!location_errors(r, l, m) = location_errors(r, l, m)
  BY <1>1 DEF location_errors, Sets!location_errors
<1>4. \A m : Sets!expected_slots(m) = expected_slots(m)
  BY <1>1 DEF expected_slots, Sets!expected_slots
<1>5. \A l, m : Sets!conflicts(l, m) = conflicts(l, m)
  BY <1>1 DEF conflicts, Sets!conflicts
<1> QED
  BY <1>1, <1>2, <1>3, <1>4, <1>5 DEF verify_assignment, Sets!verify_assignment

\* Every step keeps the invariant and is a step of LinearScan or none.
LEMMA StepSimulation ==
    ASSUME VInv, [Next]_vars
    PROVE  VInv' /\ [Sets!Next]_(Sets!vars)
<1>1. CASE Iterate
  <2> DEFINE v == Head(ordered)
             now == expire_old(intervals[v])
  <2>1. /\ ordered # <<>> /\ ordered' = Tail(ordered)
        /\ UNCHANGED <<intervals, max_regs, result>>
        /\ TakeRegister(v, now) \/ SpillAlone(v, now) \/ SpillLast(v, now)
    BY <1>1 DEF Iterate
  <2>2. v \in Values /\ v = Head(ordered) /\ now = expire_old(intervals[v])
    BY <2>1, HeadIsCurrent
  <2> HIDE DEF v, now
  <2>3. CASE TakeRegister(v, now)
    BY <2>1, <2>2, <2>3, TakeRegisterStep DEF Sets!Next
  <2>4. CASE SpillAlone(v, now)
    BY <2>1, <2>2, <2>4, SpillAloneStep DEF Sets!Next
  <2>5. CASE SpillLast(v, now)
    BY <2>1, <2>2, <2>5, SpillLastStep DEF Sets!Next
  <2> QED
    BY <2>1, <2>3, <2>4, <2>5
<1>2. CASE Verify
  <2>1. /\ ordered = <<>> /\ result = "none"
        /\ UNCHANGED <<intervals, max_regs, free, active, map, stack_slots, ordered>>
    BY <1>2 DEF Verify
  <2>2. VInv'
    BY <2>1 DEF VInv, TypeOK, RegistersOnce, VisitsInOrder, key_before
  <2>3. Sets!pending = {}
    <3>1. Range(<<>>) = {}
      BY DEF Range
    <3> QED
      BY <2>1, <3>1 DEF VInv, TypeOK, VisitsInOrder, Sets!pending
  <2>4. register_limit(RegSet, max_regs) = Sets!register_limit(RegSet, max_regs)
    BY DEF register_limit, Sets!register_limit
  <2>5. result' \in Sets!verify_assignment(intervals, RegSet,
                        Sets!register_limit(RegSet, max_regs), Sets!assignment)
    BY <1>2, <2>4, SameVerifier DEF Verify, Sets!assignment
  <2>6. Sets!Verify
    BY <2>1, <2>3, <2>5 DEF Sets!Verify
  <2> QED
    BY <2>2, <2>6 DEF Sets!Next
<1>3. CASE UNCHANGED vars
  <2>1. UNCHANGED <<intervals, max_regs, free, active, map, stack_slots, ordered, result>>
    BY <1>3 DEF vars
  <2>2. VInv'
    BY <2>1 DEF VInv, TypeOK, RegistersOnce, VisitsInOrder, key_before
  <2>3. UNCHANGED Sets!vars
    BY <2>1 DEF Sets!vars
  <2> QED
    BY <2>2, <2>3
<1> QED
  BY <1>1, <1>2, <1>3 DEF Next

\* The invariant holds throughout the loop.
THEOREM VecInvariant == Spec => []VInv
<1>1. VInv /\ [Next]_vars => VInv'
  BY StepSimulation
<1> QED
  BY <1>1, InitVInv, PTL DEF Spec

\* No register is in the free list twice, or free and active at once, or
\* active for two values: the pushes of expire_old and the pops and pushes of
\* the loop keep the two vectors apart.
THEOREM VecFreeListIsExact == Spec => []FreeListIsExact
<1>1. VInv => FreeListIsExact
  BY DEF VInv, RegistersOnce, FreeListIsExact, distinct_registers, IsInjective, Range
<1> QED
  BY <1>1, VecInvariant, PTL

\* Safety of the refinement: whatever the vectors do, it is a behaviour of
\* LinearScan, for every list, register set and budget.
THEOREM VecImplementsLinearScan == Spec => Sets!Init /\ [][Sets!Next]_(Sets!vars)
<1>1. VInv /\ [Next]_vars => [Sets!Next]_(Sets!vars)
  BY StepSimulation
<1> QED
  BY <1>1, InitVInv, VecInvariant, PTL DEF Spec

-----------------------------------------------------------------------------
(* What is proved of LinearScan, of the code's vectors.                    *)

Proved == INSTANCE LinearScanProofs WITH free <- Range(free), active <- Range(active)

\* The operators of the two instances are the same.
LEMMA SameOperators ==
    /\ \A v, w : Sets!precedes(v, w) <=> Proved!precedes(v, w)
    /\ Sets!pending = Proved!pending
    /\ \A v : Sets!is_current(v) <=> Proved!is_current(v)
    /\ \A v : Sets!still_active(v) = Proved!still_active(v)
    /\ \A v : Sets!freed(v) = Proved!freed(v)
    /\ \A m, v, loc : Sets!insert(m, v, loc) = Proved!insert(m, v, loc)
    /\ \A r : Sets!Reg(r) = Proved!Reg(r) /\ Sets!Stack(r) = Proved!Stack(r)
    /\ Sets!assignment = Proved!assignment
    /\ \A rs, n : Sets!register_limit(rs, n) = Proved!register_limit(rs, n)
    /\ \A rs, n : Sets!allowed_regs(rs, n) = Proved!allowed_regs(rs, n)
<1>1. \A v, w : Sets!precedes(v, w) <=> Proved!precedes(v, w)
  BY DEF Sets!precedes, Proved!precedes
<1>2. Sets!pending = Proved!pending
  BY DEF Sets!pending, Proved!pending
<1>3. \A v : Sets!still_active(v) = Proved!still_active(v)
  BY DEF Sets!still_active, Proved!still_active
<1>4. \A rs, n : Sets!register_limit(rs, n) = Proved!register_limit(rs, n)
  BY DEF Sets!register_limit, Proved!register_limit
<1>5. \A v : Sets!is_current(v) <=> Proved!is_current(v)
  BY <1>1, <1>2 DEF Sets!is_current, Proved!is_current
<1>6. \A v : Sets!freed(v) = Proved!freed(v)
  BY <1>3 DEF Sets!freed, Proved!freed
<1>7. /\ \A m, v, loc : Sets!insert(m, v, loc) = Proved!insert(m, v, loc)
      /\ \A r : Sets!Reg(r) = Proved!Reg(r) /\ Sets!Stack(r) = Proved!Stack(r)
      /\ Sets!assignment = Proved!assignment
  BY DEF Sets!insert, Proved!insert, Sets!Reg, Proved!Reg, Sets!Stack, Proved!Stack,
         Sets!assignment, Proved!assignment
<1>8. \A rs, n : Sets!allowed_regs(rs, n) = Proved!allowed_regs(rs, n)
  BY <1>4 DEF Sets!allowed_regs, Proved!allowed_regs
<1> QED
  BY <1>1, <1>2, <1>3, <1>4, <1>5, <1>6, <1>7, <1>8

\* So is the verifier they call.
LEMMA SameVerifierProved ==
    ASSUME NEW list, NEW rs, NEW n, NEW a
    PROVE  Proved!verify_assignment(list, rs, n, a) = Sets!verify_assignment(list, rs, n, a)
<1>1. /\ \A S : Proved!Cardinality(S) = Sets!Cardinality(S)
      /\ \A S : Proved!Max(S) = Sets!Max(S)
      /\ \A f : Proved!Range(f) = Sets!Range(f)
      /\ \A m : Proved!spilled(m) = Sets!spilled(m)
      /\ \A i, j : Proved!overlaps(i, j) = Sets!overlaps(i, j)
  BY DEF Sets!Cardinality, Proved!Cardinality, Sets!Max, Proved!Max, Sets!Range, Proved!Range,
         Sets!spilled, Proved!spilled, Sets!overlaps, Proved!overlaps
<1>2. \A r, l, m : Proved!location_errors(r, l, m) = Sets!location_errors(r, l, m)
  BY <1>1 DEF Sets!location_errors, Proved!location_errors
<1>3. \A m : Proved!expected_slots(m) = Sets!expected_slots(m)
  BY <1>1 DEF Sets!expected_slots, Proved!expected_slots
<1>4. \A l, m : Proved!conflicts(l, m) = Sets!conflicts(l, m)
  BY <1>1 DEF Sets!conflicts, Proved!conflicts
<1> QED
  BY <1>1, <1>2, <1>3, <1>4, SameOperators DEF Sets!verify_assignment, Proved!verify_assignment

\* The constants satisfy what LinearScan assumes of them.
LEMMA ProvedAssumptions ==
    /\ Proved!validate_for_codegen(RegSet)
    /\ Proved!IsFiniteSet(Values)
    /\ Proved!Cardinality(Values) <= U32Max
<1>1. Proved!IsFiniteSet(Values) /\ Proved!Cardinality(Values) = Cardinality(Values)
  BY VecValuesAssumption DEF IsFiniteSet, Proved!IsFiniteSet, Cardinality, Proved!Cardinality
<1>2. Proved!validate_for_codegen(RegSet)
  BY VecRegSetAssumption DEF validate_for_codegen, Proved!validate_for_codegen,
         IsInjective, Proved!IsInjective, Range, Proved!Range
<1> QED
  BY <1>1, <1>2, VecValuesAssumption

\* A step of LinearScan is a step of the module the proofs are about.
LEMMA StepsAreProved == [Sets!Next]_(Sets!vars) => [Proved!Next]_(Proved!vars)
<1>1. \A v : Sets!TakeRegister(v) => Proved!TakeRegister(v)
  BY SameOperators DEF Sets!TakeRegister, Proved!TakeRegister
<1>2. \A v : Sets!SpillCurrent(v) => Proved!SpillCurrent(v)
  BY SameOperators DEF Sets!SpillCurrent, Proved!SpillCurrent
<1>3. \A v : Sets!SpillFarthest(v) => Proved!SpillFarthest(v)
  BY SameOperators DEF Sets!SpillFarthest, Proved!SpillFarthest
<1>4. Sets!Verify => Proved!Verify
  BY SameOperators, SameVerifierProved DEF Sets!Verify, Proved!Verify
<1>5. UNCHANGED Sets!vars => UNCHANGED Proved!vars
  BY DEF Sets!vars, Proved!vars
<1> QED
  BY <1>1, <1>2, <1>3, <1>4, <1>5 DEF Sets!Next, Proved!Next

\* The start of LinearScan too.
LEMMA InitIsProved == Sets!Init => Proved!Init
BY SameOperators DEF Sets!Init, Proved!Init, Sets!Spans, Proved!Spans

\* Hence the invariants of LinearScan hold of the vectors, seen as sets.
LEMMA LinearScanHolds == Spec => [](Proved!IInv /\ Proved!SpillsAreMinimal)
<1>1. VInv /\ [Next]_vars => [Proved!Next]_(Proved!vars)
  BY StepSimulation, StepsAreProved
<1>2. Init => Proved!Init
  BY InitVInv, InitIsProved
<1>3. Proved!Init /\ [][Proved!Next]_(Proved!vars) => []Proved!SInv
  BY VecValuesAssumption, VecMaxPosAssumption, VecRegSetAssumption, ProvedAssumptions,
     U32MaxAssumption, HalfRangeAssumption, Proved!SpillInvariant
<1>4. Proved!SInv => Proved!SpillsAreMinimal
  BY VecValuesAssumption, VecMaxPosAssumption, VecRegSetAssumption, ProvedAssumptions,
     U32MaxAssumption, HalfRangeAssumption, Proved!MinimalAtTheEnd
<1>5. Proved!SInv => Proved!IInv
  BY DEF Proved!SInv
<1> QED
  BY <1>1, <1>2, <1>3, <1>4, <1>5, VecInvariant, PTL DEF Spec

\* verify_assignment never rejects what allocate computed with its vectors:
\* no run of the code returns an allocation error.
THEOREM VecIsAccepted == Spec => []Sets!VerifierAccepts
<1>1. Proved!IInv => Sets!VerifierAccepts
  BY DEF Proved!IInv, Proved!VerifierAccepts, Sets!VerifierAccepts
<1> QED
  BY <1>1, LinearScanHolds, PTL

\* The stable sort by end picks a victim that keeps the number of spills
\* least: no set of values that fits is larger than the set allocate keeps.
THEOREM VecSpillsLeast == Spec => []Sets!SpillsAreMinimal
<1>1. Proved!SpillsAreMinimal => Sets!SpillsAreMinimal
  <2>1. \A S : Proved!Cardinality(S) = Sets!Cardinality(S)
    BY DEF Sets!Cardinality, Proved!Cardinality
  <2>2. \A S : Proved!fits(S) <=> Sets!fits(S)
    BY <2>1, SameOperators DEF Sets!fits, Proved!fits
  <2> QED
    BY <2>1, <2>2 DEF Sets!SpillsAreMinimal, Proved!SpillsAreMinimal
<1> QED
  BY <1>1, LinearScanHolds, PTL
=============================================================================
