--------------------------- MODULE MachineProofs ---------------------------
(***************************************************************************)
(* Parts of the machine that keep to themselves, for any sizes of theirs:  *)
(* an HDMA channel walks any table as HdmaTable says, a patch that is all  *)
(* there is applied as it reads, and the MSU-1 keeps its three promises    *)
(* about its position.  The first two are said with functions that call    *)
(* themselves, so the module begins with what such a function is.          *)
(***************************************************************************)
EXTENDS Msu1, Hdma, Patch, SequenceTheorems, FiniteSetTheorems, TLAPS


-----------------------------------------------------------------------------
(* Functions that are computed step by step. *)

(* Induction over the naturals, for a set of them. *)
LEMMA Induct ==
    ASSUME NEW S \in SUBSET Nat, 0 \in S, \A n \in S : n + 1 \in S
    PROVE  S = Nat
<1>1. SUFFICES ASSUME NEW x \in Nat, x \notin S PROVE FALSE
  OBVIOUS
<1> DEFINE A == {y \in 0 .. x : y \in S}
           up == [y \in A |-> y + 1]
<1>2. IsFiniteSet(A) /\ 0 \in A
  <2>1. IsFiniteSet(0 .. x) /\ A \in SUBSET (0 .. x)
    BY FS_Interval
  <2> QED
    BY <2>1, FS_Subset
<1>3. IsFiniteSet(A \ {0}) /\ Cardinality(A \ {0}) < Cardinality(A)
  <2> HIDE DEF A
  <2>1. Cardinality(A) \in Nat
    BY <1>2, FS_CardinalityType
  <2>2. IsFiniteSet(A \ {0}) /\ Cardinality(A \ {0}) = Cardinality(A) - 1
    BY <1>2, FS_RemoveElement
  <2> QED
    BY <2>1, <2>2
<1>4. up \in [A -> A \ {0}]
  <2>1. ASSUME NEW y \in A PROVE y + 1 \in A \ {0}
    BY <1>1
  <2> QED
    BY <2>1
<1>5. PICK y \in A, z \in A : y # z /\ up[y] = up[z]
  <2> HIDE DEF up, A
  <2> QED
    BY <1>2, <1>3, <1>4, FS_PigeonHole
<1> QED
  <2>1. up[y] = y + 1 /\ up[z] = z + 1 /\ y \in Nat /\ z \in Nat
    OBVIOUS
  <2> HIDE DEF up, A
  <2>2. y + 1 = z + 1
    BY <1>5, <2>1
  <2> QED
    BY <1>5, <2>1, <2>2

LEMMA UpTo ==
    ASSUME NEW n \in Nat, NEW S, 0 \in S, \A m \in 0 .. n - 1 : m \in S => m + 1 \in S
    PROVE  \A m \in 0 .. n : m \in S
<1> DEFINE T == {m \in Nat : m <= n => m \in S}
<1>1. T \in SUBSET Nat /\ 0 \in T
  OBVIOUS
<1>2. ASSUME NEW m \in T PROVE m + 1 \in T
  OBVIOUS
<1>3. T = Nat
  <2> HIDE DEF T
  <2> QED
    BY <1>1, <1>2, Induct
<1> QED
  BY <1>3

(* What is computed step by step from a first value. *)
Iterates(g, V, first, n, step) ==
    /\ g \in [0 .. n -> V] /\ g[0] = first
    /\ \A i \in 1 .. n : g[i] = step[i][g[i - 1]]

LEMMA Iterated ==
    ASSUME NEW V, NEW first \in V, NEW n \in Nat, NEW step,
           \A i \in 1 .. n : \A v \in V : step[i][v] \in V
    PROVE  \E g : Iterates(g, V, first, n, step)
<1> DEFINE Goes(m, g) == g[0] = first /\ \A i \in 1 .. m : g[i] = step[i][g[i - 1]]
           S == {m \in 0 .. n : \E g \in [0 .. m -> V] : Goes(m, g)}
<1>1. 0 \in S
  <2>1. [i \in 0 .. 0 |-> first] \in [0 .. 0 -> V] /\ Goes(0, [i \in 0 .. 0 |-> first])
    OBVIOUS
  <2> HIDE DEF Goes
  <2> QED
    BY <2>1
<1>2. ASSUME NEW m \in 0 .. n - 1, NEW g \in [0 .. m -> V], Goes(m, g)
      PROVE  \E h \in [0 .. m + 1 -> V] : Goes(m + 1, h)
  <2>1. m \in Nat /\ m + 1 \in 1 .. n /\ g[m] \in V
    OBVIOUS
  <2>3. m \in Nat /\ m + 1 \in 1 .. n /\ g[m] \in V /\ step[m + 1][g[m]] \in V
    BY <2>1
  <2> DEFINE h == [i \in 0 .. m + 1 |-> IF i <= m THEN g[i] ELSE step[m + 1][g[m]]]
  <2>4. h \in [0 .. m + 1 -> V]
    BY <2>3
  <2>5. h[0] = first
    BY <1>2, <2>3
  <2>6. ASSUME NEW i \in 1 .. m + 1 PROVE h[i] = step[i][h[i - 1]]
    <3>1. CASE i <= m
      <4>1. i \in 1 .. m /\ h[i] = g[i] /\ h[i - 1] = g[i - 1]
        BY <2>3, <3>1
      <4> QED
        BY <1>2, <4>1
    <3>2. CASE ~ (i <= m)
      <4>1. i = m + 1 /\ i \in 0 .. m + 1
        BY <2>3, <3>2
      <4>2. h[i] = step[m + 1][g[m]]
        BY <3>2, <4>1
      <4>3. m \in 0 .. m + 1 /\ h[m] = g[m] /\ i - 1 = m
        BY <2>3, <4>1
      <4> QED
        BY <4>1, <4>2, <4>3
    <3> QED
      BY <3>1, <3>2
  <2> HIDE DEF h
  <2> QED
    BY <2>4, <2>5, <2>6
<1> HIDE DEF Goes
<1>3. n \in S
  <2>1. \A m \in 0 .. n - 1 : m \in S => m + 1 \in S
    BY <1>2
  <2> HIDE DEF S
  <2>2. \A m \in 0 .. n : m \in S
    BY <1>1, <2>1, UpTo
  <2> QED
    BY <2>2
<1>4. \E g \in [0 .. n -> V] : Goes(n, g)
  BY <1>3
<1> QED
  BY <1>4 DEF Goes, Iterates

(* A function that is defined by what it is further up. *)
Climbs(f, n, V, step) == f \in [1 .. n -> V] /\ step[f] = f

LEMMA Climbing ==
    ASSUME NEW n \in Nat, NEW V, NEW v \in V, NEW step,
           \A f \in [1 .. n -> V] : step[f] \in [1 .. n -> V],
           \A f, g \in [1 .. n -> V] : \A p \in 1 .. n :
              (\A q \in p + 1 .. n : f[q] = g[q]) => step[f][p] = step[g][p]
    PROVE  \E f : Climbs(f, n, V, step)
<1> DEFINE F == [1 .. n -> V]
           again == [i \in 1 .. n + 1 |-> step]
<1>1. PICK first \in F : first = [p \in 1 .. n |-> v]
  OBVIOUS
<1>2. PICK g : Iterates(g, F, first, n + 1, again)
  <2>1. n + 1 \in Nat /\ \A i \in 1 .. n + 1 : \A f \in F : again[i][f] \in F
    OBVIOUS
  <2> HIDE DEF F, again
  <2> QED
    BY <2>1, Iterated
<1>3. /\ \A m \in 0 .. n + 1 : g[m] \in F
      /\ \A m \in 0 .. n : g[m + 1] = step[g[m]]
  <2>1. ASSUME NEW m \in 0 .. n PROVE g[m + 1] = step[g[m]]
    <3>1. PICK i \in 1 .. n + 1 : i = m + 1
      OBVIOUS
    <3>2. i - 1 = m /\ again[i] = step
      BY <3>1
    <3> QED
      BY <1>2, <3>1, <3>2 DEF Iterates
  <2> QED
    BY <1>2, <2>1 DEF Iterates
<1> DEFINE S == {m \in 0 .. n : \A p \in n - m + 1 .. n : g[m + 1][p] = g[m][p]}
<1>4. 0 \in S
  OBVIOUS
<1>5. ASSUME NEW m \in 0 .. n - 1, m \in S PROVE m + 1 \in S
  <2>1. PICK k \in 1 .. n : k = m + 1
    OBVIOUS
  <2>2. ASSUME NEW p \in n - k + 1 .. n PROVE g[k + 1][p] = g[k][p]
    <3>1. p \in 1 .. n /\ \A q \in p + 1 .. n : q \in n - m + 1 .. n
      BY <2>1
    <3>2. \A q \in p + 1 .. n : g[k][q] = g[m][q]
      BY <1>5, <2>1, <3>1
    <3>3. g[k] \in F /\ g[m] \in F /\ k \in 0 .. n /\ g[k + 1] = step[g[k]] /\ g[k] = step[g[m]]
      <4>1. k \in 0 .. n + 1 /\ m \in 0 .. n + 1 /\ k \in 0 .. n /\ m \in 0 .. n
        BY <2>1
      <4> QED
        BY <1>3, <2>1, <4>1
    <3>4. step[g[k]][p] = step[g[m]][p]
      <4> HIDE DEF F
      <4>1. \A a, b \in F : \A x \in 1 .. n :
               (\A q \in x + 1 .. n : a[q] = b[q]) => step[a][x] = step[b][x]
        BY DEF F
      <4> QED
        BY <3>1, <3>2, <3>3, <4>1
    <3> QED
      BY <3>3, <3>4
  <2> QED
    BY <2>1, <2>2
<1>6. n \in S
  <2>1. \A m \in 0 .. n : m \in S
    <3> HIDE DEF S
    <3> QED
      BY <1>4, <1>5, UpTo
  <2>2. n \in 0 .. n
    OBVIOUS
  <2> HIDE DEF S
  <2> QED
    BY <2>1, <2>2
<1>7. g[n] \in F /\ g[n + 1] \in F /\ g[n + 1] = step[g[n]]
  BY <1>3
<1>8. \A p \in 1 .. n : g[n + 1][p] = g[n][p]
  <2>1. n - n + 1 = 1
    OBVIOUS
  <2> QED
    BY <1>6, <2>1
<1>9. step[g[n]] = g[n]
  BY <1>7, <1>8
<1> QED
  BY <1>7, <1>9 DEF Climbs

(* One sequence after another: where the i-th of them starts, and what all   *)
(* of them make.                                                             *)
Laid(start, seqs, X, all) ==
    /\ start[1] = 0 /\ start \in [1 .. Len(seqs) + 1 -> Nat]
    /\ \A i \in 1 .. Len(seqs) : start[i + 1] = start[i] + Len(seqs[i])
    /\ all \in Seq(X) /\ Len(all) = start[Len(seqs) + 1]
    /\ \A i \in 1 .. Len(seqs) : \A k \in 1 .. Len(seqs[i]) :
          start[i] + k \in 1 .. Len(all) /\ all[start[i] + k] = seqs[i][k]

LEMMA Flattened ==
    ASSUME NEW X, NEW seqs \in Seq(Seq(X))
    PROVE  \E start : Laid(start, seqs, X, FlattenSeq(seqs))
<1> DEFINE n == Len(seqs)
           step == [i \in 1 .. n |-> [s \in Seq(X) |-> s \o seqs[i]]]
           Body(f) == [i \in 1 .. n |-> IF i = 1 THEN seqs[i] ELSE f[i - 1] \o seqs[i]]
<1>1. n \in Nat /\ \A i \in 1 .. n : seqs[i] \in Seq(X)
  BY ElementOfSeq, LenProperties
<1> HIDE DEF n
<1>2. << >> \in Seq(X) /\ \A i \in 1 .. n : \A s \in Seq(X) : step[i][s] \in Seq(X)
  <2>1. ASSUME NEW i \in 1 .. n, NEW s \in Seq(X) PROVE s \o seqs[i] \in Seq(X)
    BY <1>1, <2>1, ConcatProperties
  <2> QED
    BY <2>1
<1>3. PICK g \in [0 .. n -> Seq(X)] : g[0] = << >> /\ \A i \in 1 .. n : g[i] = step[i][g[i - 1]]
  <2> HIDE DEF step
  <2> DEFINE V == Seq(X)
  <2>1. << >> \in V /\ \A i \in 1 .. n : \A v \in V : step[i][v] \in V
    BY <1>2
  <2> HIDE DEF V
  <2>2. PICK none \in V : none = << >>
    BY <2>1
  <2>3. \E g : Iterates(g, V, none, n, step)
    BY <1>1, <2>1, <2>2, Iterated
  <2> QED
    BY <2>2, <2>3 DEF V, Iterates
<1>4. ASSUME NEW i \in 1 .. n, NEW m, m = i - 1 PROVE g[m] \in Seq(X) /\ g[i] = g[m] \o seqs[i]
  <2>1. m \in 0 .. n
    BY <1>1, <1>4
  <2> QED
    BY <1>3, <1>4, <2>1
<1> HIDE DEF step
<1>5. n # 0 => FlattenSeq(seqs) = g[n]
  <2>1. SUFFICES ASSUME n # 0 PROVE FlattenSeq(seqs) = g[n]
    OBVIOUS
  <2> DEFINE h == [i \in 1 .. n |-> g[i]]
  <2>2. h = Body(h)
    <3>1. ASSUME NEW i \in 1 .. n PROVE g[i] = IF i = 1 THEN seqs[i] ELSE h[i - 1] \o seqs[i]
      <4>1. CASE i = 1
        <5>1. g[i] = g[0] \o seqs[i]
          <6>1. 0 = i - 1
            BY <4>1
          <6> QED
            BY <1>4, <6>1
        <5>2. << >> \o seqs[i] = seqs[i]
          BY <1>1, ConcatEmptySeq
        <5> QED
          BY <1>3, <4>1, <5>1, <5>2
      <4>2. CASE i # 1
        <5>1. PICK m : m = i - 1
          OBVIOUS
        <5>2. h[m] = g[m]
          BY <1>1, <4>2, <5>1
        <5>3. g[i] = g[m] \o seqs[i]
          BY <1>4, <5>1
        <5> QED
          BY <4>2, <5>1, <5>2, <5>3
      <4> QED
        BY <4>1, <4>2
    <3> QED
      BY <3>1
  <2> HIDE DEF h
  <2> DEFINE flatten == CHOOSE f : f = Body(f)
  <2>3. flatten = Body(flatten)
    BY <2>2, Zenon
  <2>4. FlattenSeq(seqs) = flatten[n]
    BY <2>1 DEF FlattenSeq, n
  <2> HIDE DEF flatten
  <2> DEFINE S == {m \in 0 .. n : m # 0 => flatten[m] = g[m]}
  <2>5. 0 \in S
    BY <1>1
  <2>6. ASSUME NEW m \in 0 .. n - 1, m # 0 => flatten[m] = g[m] PROVE flatten[m + 1] = g[m + 1]
    <3>1. PICK i \in 1 .. n : i = m + 1
      BY <1>1
    <3>2. flatten[i] = IF i = 1 THEN seqs[i] ELSE flatten[i - 1] \o seqs[i]
      BY <2>3
    <3>6. i - 1 = m /\ i \in Nat
      BY <1>1, <3>1
    <3>3. g[i] = g[m] \o seqs[i]
      BY <1>4, <3>6
    <3>4. CASE m = 0
      <4>1. << >> \o seqs[i] = seqs[i]
        BY <1>1, ConcatEmptySeq
      <4>3. g[i] = seqs[i]
        BY <1>3, <3>3, <3>4, <4>1
      <4>4. i = 1
        BY <3>1, <3>4
      <4>2. flatten[i] = seqs[i] /\ g[i] = seqs[i]
        BY <3>2, <4>3, <4>4
      <4> QED
        BY <3>1, <4>2
    <3>5. CASE m # 0
      <4>1. i # 1
        BY <1>1, <3>1, <3>5
      <4>2. flatten[i] = g[i]
        BY <2>6, <3>2, <3>3, <3>5, <3>6, <4>1
      <4> QED
        BY <3>1, <4>2
    <3> QED
      BY <3>4, <3>5
  <2>7. \A m \in 0 .. n : m \in S
    <3>1. ASSUME NEW m \in 0 .. n - 1, m \in S PROVE m + 1 \in S
      <4>1. flatten[m + 1] = g[m + 1]
        BY <2>6, <3>1
      <4>2. m + 1 \in 0 .. n
        BY <1>1
      <4> QED
        BY <4>1, <4>2
    <3> HIDE DEF S
    <3> QED
      BY <1>1, <2>5, <3>1, UpTo
  <2>8. n \in 0 .. n
    BY <1>1
  <2>9. flatten[n] = g[n]
    BY <2>1, <2>7, <2>8
  <2> QED
    BY <2>4, <2>9
<1>6. FlattenSeq(seqs) = g[n]
  <2>1. CASE n = 0
    <3>1. FlattenSeq(seqs) = seqs
      BY <2>1 DEF FlattenSeq, n
    <3>2. seqs = << >>
      BY <2>1, EmptySeq DEF n
    <3> QED
      BY <1>3, <2>1, <3>1, <3>2
  <2> QED
    BY <1>5, <2>1
<1> DEFINE start == [i \in 1 .. n + 1 |-> Len(g[i - 1])]
<1>7. \A m \in 0 .. n : start[m + 1] = Len(g[m])
  <2>1. ASSUME NEW m \in 0 .. n PROVE start[m + 1] = Len(g[m])
    <3>1. m + 1 \in 1 .. n + 1 /\ m + 1 - 1 = m
      BY <1>1
    <3> QED
      BY <3>1
  <2> QED
    BY <2>1
<1>8. start \in [1 .. n + 1 -> Nat] /\ start[1] = 0
  <2>1. ASSUME NEW i \in 1 .. n + 1 PROVE Len(g[i - 1]) \in Nat
    <3>1. i - 1 \in 0 .. n
      BY <1>1
    <3> QED
      BY <1>3, <3>1, LenProperties
  <2>2. start[1] = Len(g[0])
    <3>1. 0 \in 0 .. n
      BY <1>1
    <3> QED
      BY <1>7, <3>1
  <2> QED
    BY <1>3, <2>1, <2>2
<1> HIDE DEF start
<1>9. ASSUME NEW m \in 0 .. n - 1
      PROVE  /\ g[m] \in Seq(X) /\ seqs[m + 1] \in Seq(X)
             /\ g[m + 1] = g[m] \o seqs[m + 1]
             /\ start[m + 1] = Len(g[m]) /\ start[m + 2] = Len(g[m]) + Len(seqs[m + 1])
  <2>1. PICK i \in 1 .. n : i = m + 1
    BY <1>1
  <2>2. m = i - 1 /\ m \in 0 .. n /\ i \in 0 .. n /\ i + 1 = m + 2
    BY <1>1, <2>1
  <2>3. g[m] \in Seq(X) /\ g[i] = g[m] \o seqs[i] /\ seqs[i] \in Seq(X)
    BY <1>1, <1>4, <2>2
  <2>4. Len(g[i]) = Len(g[m]) + Len(seqs[i])
    BY <2>3, ConcatProperties
  <2>5. start[m + 1] = Len(g[m]) /\ start[i + 1] = Len(g[i])
    BY <1>7, <2>2
  <2> QED
    BY <2>1, <2>2, <2>3, <2>4, <2>5
<1> DEFINE Placed(m) == \A i \in 1 .. m : \A k \in 1 .. Len(seqs[i]) :
                           start[i] + k \in 1 .. Len(g[m]) /\ g[m][start[i] + k] = seqs[i][k]
           S == {m \in 0 .. n : Placed(m)}
<1>10. 0 \in S
  BY <1>1
<1>11. ASSUME NEW m \in 0 .. n - 1, Placed(m) PROVE Placed(m + 1)
  <2>1. SUFFICES ASSUME NEW i \in 1 .. m + 1, NEW k \in 1 .. Len(seqs[i])
                 PROVE  start[i] + k \in 1 .. Len(g[m + 1]) /\ g[m + 1][start[i] + k] = seqs[i][k]
    OBVIOUS
  <2>2. /\ g[m] \in Seq(X) /\ seqs[m + 1] \in Seq(X) /\ g[m + 1] = g[m] \o seqs[m + 1]
        /\ start[m + 1] = Len(g[m])
    BY <1>9
  <2>6. PICK p, q, r : p = g[m] /\ q = seqs[m + 1] /\ r = g[m + 1]
    OBVIOUS
  <2>7. PICK a, b : a = Len(p) /\ b = Len(q)
    OBVIOUS
  <2>3. /\ a \in Nat /\ b \in Nat /\ Len(r) = a + b
        /\ \A x \in 1 .. a + b : r[x] = IF x <= a THEN p[x] ELSE q[x - a]
    <3>1. p \in Seq(X) /\ q \in Seq(X) /\ r = p \o q
      BY <2>2, <2>6
    <3>2. a \in Nat /\ b \in Nat
      BY <2>7, <3>1, LenProperties
    <3>3. /\ Len(r) = a + b
          /\ \A x \in 1 .. a + b : r[x] = IF x <= a THEN p[x] ELSE q[x - a]
      BY <2>7, <3>1, ConcatProperties
    <3> QED
      BY <3>2, <3>3
  <2>4. CASE i <= m
    <3>1. i \in 1 .. m
      BY <1>1, <2>4
    <3>2. start[i] + k \in 1 .. a /\ p[start[i] + k] = seqs[i][k]
      BY <1>11, <2>6, <2>7, <3>1
    <3>3. \A x \in 1 .. a : x \in 1 .. a + b /\ x <= a
      BY <2>3
    <3>4. start[i] + k \in 1 .. a + b /\ r[start[i] + k] = p[start[i] + k]
      BY <2>3, <3>2, <3>3
    <3> QED
      BY <2>3, <2>6, <3>2, <3>4
  <2>5. CASE ~ (i <= m)
    <3>1. i = m + 1
      BY <1>1, <2>5
    <3>2. k \in 1 .. b
      BY <2>1, <2>6, <2>7, <3>1
    <3>3. PICK x : x = a + k
      OBVIOUS
    <3>4. x \in 1 .. a + b /\ ~ (x <= a) /\ x - a = k
      BY <2>3, <3>2, <3>3
    <3>5. r[x] = q[k]
      BY <2>3, <3>4
    <3>6. start[i] + k = x
      BY <2>2, <2>6, <2>7, <3>1, <3>3
    <3> QED
      BY <2>3, <2>6, <3>1, <3>4, <3>5, <3>6
  <2> QED
    BY <2>4, <2>5
<1>12. Placed(n)
  <2>1. ASSUME NEW m \in 0 .. n - 1, m \in S PROVE m + 1 \in S
    <3>1. Placed(m)
      BY <2>1
    <3> HIDE DEF Placed
    <3>2. Placed(m + 1) /\ m + 1 \in 0 .. n
      BY <1>1, <1>11, <3>1
    <3> QED
      BY <3>2
  <2>2. \A m \in 0 .. n : m \in S
    <3> HIDE DEF S
    <3> QED
      BY <1>1, <1>10, <2>1, UpTo
  <2>3. n \in 0 .. n
    BY <1>1
  <2> HIDE DEF Placed
  <2> QED
    BY <2>2, <2>3
<1>13. FlattenSeq(seqs) \in Seq(X) /\ Len(FlattenSeq(seqs)) = start[n + 1]
  <2>1. n \in 0 .. n
    BY <1>1
  <2> QED
    BY <1>3, <1>6, <1>7, <2>1
<1>14. ASSUME NEW i \in 1 .. n PROVE start[i + 1] = start[i] + Len(seqs[i])
  <2>1. PICK m \in 0 .. n - 1 : i = m + 1
    BY <1>1
  <2>2. start[m + 2] = start[m + 1] + Len(seqs[m + 1])
    BY <1>9
  <2>3. m + 2 = i + 1
    BY <2>1
  <2> QED
    BY <2>1, <2>2, <2>3
<1> HIDE DEF Placed
<1>15. /\ start[1] = 0 /\ start \in [1 .. n + 1 -> Nat]
       /\ \A i \in 1 .. n : start[i + 1] = start[i] + Len(seqs[i])
       /\ FlattenSeq(seqs) \in Seq(X) /\ Len(FlattenSeq(seqs)) = start[n + 1]
       /\ \A i \in 1 .. n : \A k \in 1 .. Len(seqs[i]) :
             start[i] + k \in 1 .. Len(FlattenSeq(seqs)) /\ FlattenSeq(seqs)[start[i] + k] = seqs[i][k]
  BY <1>6, <1>8, <1>12, <1>13, <1>14 DEF Placed
<1>16. Laid(start, seqs, X, FlattenSeq(seqs))
  BY <1>15, Zenon DEF Laid, n
<1> QED
  BY <1>16

-----------------------------------------------------------------------------
(* The HDMA channel.  At every scanline it is in line j of entry i: the      *)
(* counter, the address and the pointer are what i and j make them (AtLine). *)
(* Layout first: where the entries start, and what is read there.            *)

LineCounts == 1 .. 2 * Half - 1

LEMMA LinesAre ==
    ASSUME NEW c \in LineCounts
    PROVE  /\ Ref!LinesOf(c) \in Nat \ {0} /\ Ref!LinesOf(c) <= Half
           /\ Ref!Repeats(c) \in BOOLEAN
           /\ Ref!Repeats(c) => c = Half + Ref!LinesOf(c) /\ Ref!LinesOf(c) < Half
           /\ ~ Ref!Repeats(c) => c = Ref!LinesOf(c)
  BY HdmaAssumption DEF HdmaAssumption, LineCounts, Ref!LinesOf, Ref!Repeats

(* The sums of the line counts. *)
LEMMA Sums ==
    ASSUME NEW t \in Seq(LineCounts)
    PROVE  /\ Ref!Before(t) \in [1 .. Len(t) + 1 -> Nat] /\ Ref!Before(t)[1] = 0
           /\ \A i \in 1 .. Len(t) : Ref!Before(t)[i + 1] = Ref!Before(t)[i] + Ref!LinesOf(t[i])
<1> DEFINE n == Len(t)
           L(i) == Ref!LinesOf(t[i])
           Body(f) == [i \in 1 .. n + 1 |-> IF i = 1 THEN 0 ELSE f[i - 1] + L(i - 1)]
           step == [i \in 1 .. n |-> [v \in Nat |-> v + L(i)]]
<1>1. n \in Nat /\ \A i \in 1 .. n : L(i) \in Nat
  BY LenProperties, ElementOfSeq, LinesAre
<1> HIDE DEF n, L
<1>2. \A i \in 1 .. n : \A v \in Nat : step[i][v] = v + L(i) /\ step[i][v] \in Nat
  BY <1>1
<1> HIDE DEF step
<1>3. PICK g : Iterates(g, Nat, 0, n, step)
  BY <1>1, <1>2, Iterated
<1>4. /\ g[0] = 0 /\ \A m \in 0 .. n : g[m] \in Nat
      /\ \A i \in 1 .. n : g[i] = g[i - 1] + L(i)
  <2>1. ASSUME NEW i \in 1 .. n PROVE g[i] = g[i - 1] + L(i)
    <3>1. i - 1 \in 0 .. n
      BY <1>1
    <3> QED
      BY <1>2, <1>3, <3>1 DEF Iterates
  <2> QED
    BY <1>3, <2>1 DEF Iterates
<1> DEFINE h == [i \in 1 .. n + 1 |-> g[i - 1]]
<1>5. h = Body(h)
  <2>1. ASSUME NEW i \in 1 .. n + 1 PROVE g[i - 1] = IF i = 1 THEN 0 ELSE h[i - 1] + L(i - 1)
    <3>1. CASE i = 1
      BY <1>4, <3>1
    <3>2. CASE i # 1
      <4>1. PICK j \in 1 .. n : j = i - 1
        BY <1>1, <3>2
      <4>2. j \in 1 .. n + 1 /\ h[j] = g[j - 1]
        BY <1>1
      <4>3. g[j] = g[j - 1] + L(j)
        BY <1>4
      <4> QED
        BY <3>2, <4>1, <4>2, <4>3
    <3> QED
      BY <3>1, <3>2
  <2> QED
    BY <2>1
<1> HIDE DEF h
<1> DEFINE sum == CHOOSE f : f = Body(f)
<1>6. sum = Body(sum)
  BY <1>5, Zenon
<1>7. Ref!Before(t) = sum
  BY DEF Ref!Before, n, L
<1> HIDE DEF sum
<1>8. sum[1] = 0 /\ \A i \in 1 .. n : sum[i + 1] = sum[i] + L(i)
  <2>1. sum[1] = 0
    BY <1>1, <1>6
  <2>2. ASSUME NEW i \in 1 .. n PROVE sum[i + 1] = sum[i] + L(i)
    <3>1. PICK j \in 1 .. n + 1 : j = i + 1
      BY <1>1
    <3>2. j # 1 /\ j - 1 = i
      BY <3>1
    <3>3. sum[j] = IF j = 1 THEN 0 ELSE sum[j - 1] + L(j - 1)
      BY <1>6
    <3> QED
      BY <3>1, <3>2, <3>3
  <2> QED
    BY <2>1, <2>2
<1>9. \A i \in 1 .. n + 1 : sum[i] \in Nat
  <2> DEFINE S == {m \in 0 .. n : sum[m + 1] \in Nat}
  <2>1. 0 \in S
    BY <1>1, <1>8
  <2>2. ASSUME NEW m \in 0 .. n - 1, m \in S PROVE m + 1 \in S
    <3>1. PICK i \in 1 .. n : i = m + 1
      BY <1>1
    <3>2. sum[i] \in Nat /\ L(i) \in Nat /\ sum[i + 1] = sum[i] + L(i) /\ i \in 0 .. n
      BY <1>1, <1>8, <2>2, <3>1
    <3> QED
      BY <3>1, <3>2
  <2>3. \A m \in 0 .. n : m \in S
    <3> HIDE DEF S
    <3> QED
      BY <1>1, <2>1, <2>2, UpTo
  <2>4. ASSUME NEW i \in 1 .. n + 1 PROVE sum[i] \in Nat
    <3>1. PICK m \in 0 .. n : i = m + 1
      BY <1>1
    <3> QED
      BY <2>3, <3>1
  <2> QED
    BY <2>4
<1>10. sum = [i \in 1 .. n + 1 |-> sum[i]]
  BY <1>6
<1> QED
  BY <1>7, <1>8, <1>9, <1>10 DEF n, L

(* No entry begins before one that comes earlier. *)
LEMMA SumsGrow ==
    ASSUME NEW t \in Seq(LineCounts), NEW i \in 1 .. Len(t) + 1, NEW k \in 1 .. Len(t) + 1, i <= k
    PROVE  Ref!Before(t)[i] <= Ref!Before(t)[k]
<1> DEFINE n == Len(t)
           B == Ref!Before(t)
           S == {m \in 0 .. n : \A j \in 1 .. m + 1 : B[j] <= B[m + 1]}
<1>1. /\ n \in Nat /\ B \in [1 .. n + 1 -> Nat]
      /\ \A j \in 1 .. n : B[j] <= B[j + 1]
  <2>1. ASSUME NEW j \in 1 .. n PROVE B[j] <= B[j + 1]
    <3>1. t[j] \in LineCounts
      BY ElementOfSeq
    <3>2. Ref!LinesOf(t[j]) \in Nat
      BY <3>1, LinesAre
    <3>3. B[j] \in Nat /\ B[j + 1] = B[j] + Ref!LinesOf(t[j])
      <4>1. j \in 1 .. n + 1
        BY LenProperties
      <4> QED
        BY <4>1, Sums
    <3> QED
      BY <3>2, <3>3
  <2> QED
    BY <2>1, Sums, LenProperties
<1> HIDE DEF B, n
<1>2. 0 \in S
  <2>1. 1 \in 1 .. n + 1 /\ 0 \in 0 .. n
    BY <1>1
  <2>2. B[1] \in Nat
    BY <1>1, <2>1
  <2> QED
    BY <2>1, <2>2
<1>3. ASSUME NEW m \in 0 .. n - 1, m \in S PROVE m + 1 \in S
  <2>1. m + 1 \in 1 .. n /\ m + 1 \in 1 .. n + 1 /\ m + 2 \in 1 .. n + 1 /\ m + 1 + 1 = m + 2 /\ m \in Nat
    BY <1>1
  <2>2. B[m + 1] <= B[m + 2] /\ B[m + 1] \in Nat /\ B[m + 2] \in Nat
    BY <1>1, <2>1
  <2>3. ASSUME NEW j \in 1 .. m + 2 PROVE B[j] <= B[m + 2]
    <3>1. CASE j = m + 2
      BY <2>2, <3>1
    <3>2. CASE j # m + 2
      <4>3. j \in Nat /\ 1 <= j /\ j <= m + 1 /\ m + 1 <= n
        BY <2>1, <3>2
      <4>1. j \in 1 .. m + 1 /\ j \in 1 .. n + 1
        BY <1>1, <2>1, <4>3
      <4>2. B[j] <= B[m + 1] /\ B[j] \in Nat
        BY <1>1, <1>3, <4>1
      <4> QED
        BY <2>2, <4>2
    <3> QED
      BY <3>1, <3>2
  <2> QED
    BY <2>1, <2>3
<1>4. \A m \in 0 .. n : m \in S
  <2> HIDE DEF S
  <2> QED
    BY <1>1, <1>2, <1>3, UpTo
<1>5. PICK m \in 0 .. n : k = m + 1
  BY <1>1 DEF n
<1>6. i \in 1 .. m + 1
  BY <1>5
<1> QED
  BY <1>4, <1>5, <1>6 DEF B

(* The entry a line falls in, and whether the table lasts that long. *)
LEMMA DueIs ==
    ASSUME NEW t \in Seq(LineCounts), NEW i \in 1 .. Len(t), NEW j \in 0 .. Ref!LinesOf(t[i]) - 1,
           NEW l, l = Ref!Before(t)[i] + j + 1
    PROVE  /\ Ref!Lasts(t, l)
           /\ Ref!Due(t, l) = IF Ref!Repeats(t[i]) \/ j = 0 THEN Ref!Unit(i, j) ELSE << >>
<1> DEFINE n == Len(t)
           B == Ref!Before(t)
<1>1. /\ n \in Nat /\ B \in [1 .. n + 1 -> Nat]
      /\ \A a \in 1 .. n + 1, b \in 1 .. n + 1 : a <= b => B[a] <= B[b]
      /\ B[i + 1] = B[i] + Ref!LinesOf(t[i]) /\ Ref!LinesOf(t[i]) \in Nat
  <2>1. t[i] \in LineCounts /\ Len(t) \in Nat
    BY ElementOfSeq, LenProperties
  <2> QED
    BY <2>1, LinesAre, Sums, SumsGrow
<1> HIDE DEF n, B
<1>2. i \in 1 .. n /\ i \in 1 .. n + 1 /\ i + 1 \in 1 .. n + 1 /\ n + 1 \in 1 .. n + 1
  BY <1>1 DEF n
<1>3. B[i] \in Nat /\ B[i + 1] \in Nat /\ B[n + 1] \in Nat /\ l \in Nat /\ l = B[i] + j + 1
  <2>1. B[i] \in Nat /\ B[i + 1] \in Nat /\ B[n + 1] \in Nat
    BY <1>1, <1>2
  <2>2. l = B[i] + j + 1
    BY DEF B
  <2>3. j \in Nat
    BY <1>1
  <2> QED
    BY <2>1, <2>2, <2>3
<1>4. B[i] < l /\ l <= B[i + 1] /\ l - B[i] - 1 = j
  <2>1. PICK c \in Nat : c = Ref!LinesOf(t[i])
    BY <1>1
  <2>2. PICK b \in Nat : b = B[i]
    BY <1>3
  <2>3. j \in 0 .. c - 1 /\ l = b + j + 1 /\ B[i + 1] = b + c
    BY <1>1, <1>3, <2>1, <2>2
  <2>4. b < l
    BY <2>3
  <2>5. l <= b + c
    BY <2>3
  <2>6. l - b - 1 = j
    BY <2>3
  <2> QED
    BY <2>2, <2>3, <2>4, <2>5, <2>6
<1>5. B[i + 1] <= B[n + 1]
  BY <1>1, <1>2
<1>6. Ref!Lasts(t, l)
  <2>2. l \in Nat /\ B[i + 1] \in Nat /\ B[n + 1] \in Nat /\ l <= B[i + 1] /\ B[i + 1] <= B[n + 1]
    BY <1>3, <1>4, <1>5
  <2>1. l <= B[n + 1]
    BY <2>2
  <2> QED
    BY <2>1 DEF Ref!Lasts, B, n
<1>7. ASSUME NEW k \in 1 .. n, B[k] < l, l <= B[k + 1] PROVE k = i
  <2>1. k \in 1 .. n + 1 /\ k + 1 \in 1 .. n + 1 /\ k \in Nat /\ i \in Nat
    BY <1>1, <1>2
  <2>2. B[k] \in Nat /\ B[k + 1] \in Nat
    BY <1>1, <2>1
  <2>3. ~ (k + 1 <= i)
    <3>1. k + 1 <= i => B[k + 1] <= B[i]
      BY <1>1, <1>2, <2>1
    <3>2. ~ (B[k + 1] <= B[i])
      <4>1. l \in Nat /\ B[i] < l /\ l <= B[k + 1] /\ B[i] \in Nat /\ B[k + 1] \in Nat
        BY <1>3, <1>4, <1>7, <2>2
      <4> QED
        BY <4>1
    <3> QED
      BY <3>1, <3>2
  <2>4. ~ (i + 1 <= k)
    <3>1. i + 1 <= k => B[i + 1] <= B[k]
      BY <1>1, <1>2, <2>1
    <3> QED
      BY <1>3, <1>4, <1>7, <2>2, <3>1
  <2> QED
    BY <2>1, <2>3, <2>4
<1>8. (CHOOSE k \in 1 .. n : B[k] < l /\ l <= B[k + 1]) = i
  BY <1>2, <1>4, <1>7
<1>9. Ref!Due(t, l) = IF Ref!Repeats(t[i]) \/ l - B[i] - 1 = 0 THEN Ref!Unit(i, l - B[i] - 1) ELSE << >>
  <2> DEFINE f == CHOOSE k \in 1 .. n : B[k] < l /\ l <= B[k + 1]
  <2>1. Ref!Due(t, l) = IF Ref!Repeats(t[f]) \/ l - B[f] - 1 = 0 THEN Ref!Unit(f, l - B[f] - 1) ELSE << >>
    BY Zenon DEF Ref!Due, B, n
  <2>2. f = i
    BY <1>8
  <2> HIDE DEF f
  <2> QED
    BY <2>1, <2>2
<1> QED
  BY <1>4, <1>6, <1>9

(* The line after the last. *)
LEMMA TableOver ==
    ASSUME NEW t \in Seq(LineCounts), NEW l, l = Ref!Before(t)[Len(t) + 1] + 1
    PROVE  ~ Ref!Lasts(t, l)
<1>1. Len(t) + 1 \in 1 .. Len(t) + 1
  BY LenProperties
<1>2. Ref!Before(t)[Len(t) + 1] \in Nat
  BY <1>1, Sums
<1> QED
  BY <1>2 DEF Ref!Lasts

(* What is in the table: line counts, the two halves of a pointer, and data. *)
Byte == {<<c>> : c \in Nat} \cup (Nat \X {"low", "high"}) \cup (Nat \X Nat \X Nat)

GivenTable == table \in Seq(LineCounts) /\ indirect \in BOOLEAN

LEMMA Sizes ==
    /\ Half \in Nat \ {0} /\ Width \in Nat \ {0}
    /\ \A j \in Nat : j * Width \in Nat /\ (j + 1) * Width = j * Width + Width
<1>1. Half \in Nat \ {0} /\ Width \in Nat \ {0}
  BY HdmaAssumption DEF HdmaAssumption
<1>2. ASSUME NEW j \in Nat PROVE j * Width \in Nat /\ (j + 1) * Width = j * Width + Width
  BY <1>1
<1> QED
  BY <1>1, <1>2

LEMMA UnitIs ==
    ASSUME NEW i \in Nat, NEW j \in Nat
    PROVE  /\ Ref!Unit(i, j) \in Seq(Byte) /\ Len(Ref!Unit(i, j)) = Width
           /\ \A k \in 1 .. Width : Ref!Unit(i, j)[k] = <<i, j, k - 1>>
<1>1. Width \in Nat
  BY Sizes
<1>2. \A k \in 1 .. Width : <<i, j, k - 1>> \in Byte
  BY <1>1 DEF Byte
<1> QED
  BY <1>1, <1>2 DEF Ref!Unit

LEMMA EntryCount ==
    ASSUME GivenTable, NEW i \in 1 .. Len(table)
    PROVE  /\ i \in Nat /\ table[i] \in LineCounts /\ table[i] \in Nat \ {0}
           /\ Ref!LinesOf(table[i]) \in Nat \ {0}
<1>1. table[i] \in LineCounts /\ Len(table) \in Nat
  BY ElementOfSeq, LenProperties DEF GivenTable
<1>2. table[i] \in Nat \ {0}
  BY <1>1, Sizes DEF LineCounts
<1> QED
  BY <1>1, <1>2, LinesAre

LEMMA UnitsAre ==
    ASSUME GivenTable, NEW i \in 1 .. Len(table)
    PROVE  /\ Units(i) \in Seq(Byte) /\ Len(Units(i)) = Ref!LinesOf(table[i]) * Width
           /\ \A j \in 0 .. Ref!LinesOf(table[i]) - 1 : \A k \in 1 .. Width :
                 /\ j * Width + k \in 1 .. Len(Units(i))
                 /\ Units(i)[j * Width + k] = <<i, j, k - 1>>
<1> DEFINE n == Ref!LinesOf(table[i])
           seqs == [j \in 1 .. n |-> Ref!Unit(i, j - 1)]
<1>1. n \in Nat /\ i \in Nat
  BY EntryCount
<1> HIDE DEF n
<1>2. ASSUME NEW j \in 1 .. n
      PROVE  /\ seqs[j] \in Seq(Byte) /\ Len(seqs[j]) = Width
             /\ \A k \in 1 .. Width : seqs[j][k] = <<i, j - 1, k - 1>>
  <2>1. j - 1 \in Nat /\ seqs[j] = Ref!Unit(i, j - 1)
    BY <1>1
  <2> HIDE DEF seqs
  <2> QED
    BY <1>1, <2>1, UnitIs
<1>3. seqs \in Seq(Seq(Byte)) /\ Len(seqs) = n
  <2>1. seqs \in [1 .. n -> Seq(Byte)]
    BY <1>2
  <2> HIDE DEF seqs
  <2> QED
    BY <1>1, <2>1
<1>4. Units(i) = FlattenSeq(seqs)
  BY DEF Units, n
<1> HIDE DEF seqs
<1>5. PICK start : Laid(start, seqs, Byte, Units(i))
  BY <1>3, <1>4, Flattened
<1>6. /\ start[1] = 0 /\ start \in [1 .. n + 1 -> Nat]
      /\ \A j \in 1 .. n : start[j + 1] = start[j] + Width
      /\ Units(i) \in Seq(Byte) /\ Len(Units(i)) = start[n + 1]
      /\ \A j \in 1 .. n : \A k \in 1 .. Width :
            start[j] + k \in 1 .. Len(Units(i)) /\ Units(i)[start[j] + k] = <<i, j - 1, k - 1>>
  <2> DEFINE all == Units(i)
  <2>1. /\ start[1] = 0 /\ start \in [1 .. n + 1 -> Nat]
        /\ \A j \in 1 .. n : start[j + 1] = start[j] + Len(seqs[j])
        /\ all \in Seq(Byte) /\ Len(all) = start[n + 1]
        /\ \A j \in 1 .. n : \A k \in 1 .. Len(seqs[j]) :
              start[j] + k \in 1 .. Len(all) /\ all[start[j] + k] = seqs[j][k]
    <3> HIDE DEF all
    <3>1. Laid(start, seqs, Byte, all)
      BY <1>5 DEF all
    <3> QED
      BY <1>3, <3>1 DEF Laid
  <2> HIDE DEF all
  <2>2. \A j \in 1 .. n : start[j + 1] = start[j] + Width
    BY <1>2, <2>1
  <2>3. ASSUME NEW j \in 1 .. n, NEW k \in 1 .. Width
        PROVE  start[j] + k \in 1 .. Len(all) /\ all[start[j] + k] = <<i, j - 1, k - 1>>
    <3>1. k \in 1 .. Len(seqs[j]) /\ seqs[j][k] = <<i, j - 1, k - 1>>
      BY <1>2
    <3> QED
      BY <2>1, <3>1
  <2> QED
    BY <2>1, <2>2, <2>3 DEF all
<1> DEFINE S == {m \in 0 .. n : start[m + 1] = m * Width}
<1>7. 0 \in S
  BY <1>1, <1>6, Sizes
<1>8. ASSUME NEW m \in 0 .. n - 1, m \in S PROVE m + 1 \in S
  <2>1. PICK j \in 1 .. n : j = m + 1
    BY <1>1
  <2>2. start[j] = m * Width /\ start[j + 1] = start[j] + Width /\ j \in 0 .. n /\ m \in Nat
    BY <1>1, <1>6, <1>8, <2>1
  <2>3. j * Width = m * Width + Width
    BY <2>1, <2>2, Sizes
  <2>4. start[j + 1] = j * Width
    BY <2>2, <2>3
  <2> QED
    BY <2>1, <2>2, <2>4
<1>9. \A m \in 0 .. n : start[m + 1] = m * Width
  <2>1. \A m \in 0 .. n : m \in S
    <3> HIDE DEF S
    <3> QED
      BY <1>1, <1>7, <1>8, UpTo
  <2> QED
    BY <2>1
<1>10. Len(Units(i)) = n * Width
  <2>1. n \in 0 .. n
    BY <1>1
  <2> QED
    BY <1>6, <1>9, <2>1
<1>11. ASSUME NEW j \in 0 .. n - 1, NEW k \in 1 .. Width
       PROVE  j * Width + k \in 1 .. Len(Units(i)) /\ Units(i)[j * Width + k] = <<i, j, k - 1>>
  <2>1. PICK m \in 1 .. n : m = j + 1
    BY <1>1
  <2>2. j \in 0 .. n /\ m - 1 = j
    BY <1>1, <2>1
  <2>3. start[m] = j * Width
    BY <1>9, <2>1, <2>2
  <2>4. start[m] + k \in 1 .. Len(Units(i)) /\ Units(i)[start[m] + k] = <<i, j, k - 1>>
    BY <1>6, <2>2
  <2> QED
    BY <2>3, <2>4
<1> QED
  BY <1>6, <1>10, <1>11 DEF n

(* How many units an entry has in the table itself. *)
Stored(i) == IF Ref!Repeats(table[i]) THEN Ref!LinesOf(table[i]) ELSE 1

LEMMA EntryIs ==
    ASSUME GivenTable, NEW i \in 1 .. Len(table)
    PROVE  /\ Entry(i) \in Seq(Byte) /\ Len(Entry(i)) \in Nat \ {0}
           /\ Entry(i)[1] = <<table[i]>>
           /\ indirect => Len(Entry(i)) = 3 /\ Entry(i)[2] = <<i, "low">>
           /\ ~ indirect =>
                /\ Stored(i) \in Nat \ {0}
                /\ Len(Entry(i)) = Stored(i) * Width + 1
                /\ \A j \in 0 .. Stored(i) - 1 : \A k \in 1 .. Width :
                      /\ j * Width + k + 1 \in 1 .. Len(Entry(i))
                      /\ Entry(i)[j * Width + k + 1] = <<i, j, k - 1>>
<1>1. i \in Nat /\ table[i] \in Nat /\ Ref!LinesOf(table[i]) \in Nat \ {0}
  BY EntryCount
<1>2. CASE indirect
  <2>1. Entry(i) = <<<<table[i]>>, <<i, "low">>, <<i, "high">>>>
    BY <1>2 DEF Entry
  <2>2. <<table[i]>> \in Byte /\ <<i, "low">> \in Byte /\ <<i, "high">> \in Byte
    BY <1>1 DEF Byte
  <2>3. Entry(i) \in Seq(Byte) /\ Len(Entry(i)) = 3
    BY <2>1, <2>2
  <2>4. Entry(i)[1] = <<table[i]>> /\ Entry(i)[2] = <<i, "low">>
    BY <2>1
  <2> QED
    BY <1>2, <2>3, <2>4
<1>3. CASE ~ indirect
  <2> DEFINE head == <<<<table[i]>>>>
             rest == IF Ref!Repeats(table[i]) THEN Units(i) ELSE Ref!Unit(i, 0)
  <2>1. Entry(i) = head \o rest
    BY <1>3 DEF Entry
  <2>2. head \in Seq(Byte) /\ Len(head) = 1 /\ head[1] = <<table[i]>>
    BY <1>1 DEF Byte
  <2>3. Stored(i) \in Nat \ {0}
    BY <1>1 DEF Stored
  <2>4. /\ rest \in Seq(Byte) /\ Len(rest) = Stored(i) * Width
        /\ \A j \in 0 .. Stored(i) - 1 : \A k \in 1 .. Width :
              j * Width + k \in 1 .. Len(rest) /\ rest[j * Width + k] = <<i, j, k - 1>>
    <3>1. CASE Ref!Repeats(table[i])
      <4>1. rest = Units(i) /\ Stored(i) = Ref!LinesOf(table[i])
        BY <3>1 DEF Stored
      <4> HIDE DEF rest
      <4> QED
        BY <4>1, UnitsAre
    <3>2. CASE ~ Ref!Repeats(table[i])
      <4>1. rest = Ref!Unit(i, 0) /\ Stored(i) = 1
        BY <3>2 DEF Stored
      <4> HIDE DEF rest
      <4>2. /\ rest \in Seq(Byte) /\ Len(rest) = Width
            /\ \A k \in 1 .. Width : rest[k] = <<i, 0, k - 1>>
        BY <1>1, <4>1, UnitIs
      <4>3. Width \in Nat /\ 1 * Width = Width /\ \A k \in 1 .. Width : 0 * Width + k = k
        BY Sizes
      <4>4. \A j \in 0 .. Stored(i) - 1 : j = 0
        BY <4>1
      <4> QED
        BY <4>1, <4>2, <4>3, <4>4
    <3> QED
      BY <3>1, <3>2
  <2> HIDE DEF head, rest
  <2>5. PICK m \in Nat : m = Stored(i) * Width
    BY <2>3, Sizes
  <2>6. /\ Entry(i) \in Seq(Byte) /\ Len(Entry(i)) = m + 1
        /\ Entry(i)[1] = <<table[i]>>
        /\ \A x \in 1 .. m : x + 1 \in 1 .. Len(Entry(i)) /\ Entry(i)[x + 1] = rest[x]
    <3>1. Len(Entry(i)) = 1 + m /\ Entry(i) \in Seq(Byte)
          /\ \A y \in 1 .. 1 + m : Entry(i)[y] = IF y <= 1 THEN head[y] ELSE rest[y - 1]
      <4>1. PICK e, h, r : e = Entry(i) /\ h = head /\ r = rest
        OBVIOUS
      <4>2. /\ e = h \o r /\ h \in Seq(Byte) /\ r \in Seq(Byte)
            /\ Len(h) = 1 /\ Len(r) = m
        BY <2>1, <2>2, <2>4, <2>5, <4>1
      <4>3. /\ h \o r \in Seq(Byte) /\ Len(h \o r) = Len(h) + Len(r)
            /\ \A y \in 1 .. Len(h) + Len(r) :
                  (h \o r)[y] = IF y <= Len(h) THEN h[y] ELSE r[y - Len(h)]
        BY <4>2, ConcatProperties
      <4>4. /\ e \in Seq(Byte) /\ Len(e) = 1 + m
            /\ \A y \in 1 .. 1 + m : e[y] = IF y <= 1 THEN h[y] ELSE r[y - 1]
        BY <4>2, <4>3
      <4> QED
        BY <4>1, <4>4
    <3>2. ASSUME NEW x \in 1 .. m PROVE x + 1 \in 1 .. Len(Entry(i)) /\ Entry(i)[x + 1] = rest[x]
      <4>1. PICK y : y = x + 1
        OBVIOUS
      <4>2. y \in 1 .. 1 + m /\ ~ (y <= 1) /\ y - 1 = x
        BY <2>5, <4>1
      <4> QED
        BY <3>1, <4>1, <4>2
    <3>3. 1 \in 1 .. 1 + m
      BY <2>5
    <3> QED
      BY <2>2, <2>5, <3>1, <3>2, <3>3
  <2>7. ASSUME NEW j \in 0 .. Stored(i) - 1, NEW k \in 1 .. Width
        PROVE  /\ j * Width + k + 1 \in 1 .. Len(Entry(i))
               /\ Entry(i)[j * Width + k + 1] = <<i, j, k - 1>>
    <3>1. PICK x : x = j * Width + k
      OBVIOUS
    <3>2. x \in 1 .. m /\ rest[x] = <<i, j, k - 1>>
      BY <2>4, <2>5, <3>1
    <3>3. x + 1 \in 1 .. Len(Entry(i)) /\ Entry(i)[x + 1] = <<i, j, k - 1>>
      BY <2>6, <3>2
    <3>4. j * Width \in Nat /\ k \in Nat
      BY <2>3, Sizes
    <3>5. j * Width + k + 1 = x + 1
      BY <3>1, <3>4
    <3> QED
      BY <3>3, <3>5
  <2> QED
    BY <1>3, <2>3, <2>5, <2>6, <2>7
<1> QED
  BY <1>2, <1>3

Entries == [i \in 1 .. Len(table) |-> Entry(i)]

(* Where the entries start in the bytes of the table. *)
Start == CHOOSE start : Laid(start, Entries, Byte, FlattenSeq(Entries))

LEMMA Starts ==
    ASSUME GivenTable
    PROVE  /\ Len(table) \in Nat /\ Start \in [1 .. Len(table) + 1 -> Nat] /\ Start[1] = 0
           /\ \A i \in 1 .. Len(table) :
                 /\ Start[i] \in Nat /\ Start[i + 1] = Start[i] + Len(Entry(i))
                 /\ \A k \in 1 .. Len(Entry(i)) : memr8(Start[i] + k - 1) = Entry(i)[k]
           /\ memr8(Start[Len(table) + 1]) = <<0>>
<1> DEFINE n == Len(table)
           flat == FlattenSeq(Entries)
<1>1. n \in Nat
  BY LenProperties DEF GivenTable
<1> HIDE DEF n
<1>2. ASSUME NEW i \in 1 .. n
      PROVE  Entries[i] = Entry(i) /\ Entries[i] \in Seq(Byte) /\ Len(Entry(i)) \in Nat
  <2>1. Entries[i] = Entry(i)
    BY DEF Entries, n
  <2> QED
    BY <2>1, EntryIs DEF n
<1>3. Entries \in Seq(Seq(Byte)) /\ Len(Entries) = n
  <2>1. Entries = [i \in 1 .. n |-> Entries[i]]
    BY DEF Entries, n
  <2>2. Entries \in [1 .. n -> Seq(Byte)]
    BY <1>2, <2>1
  <2> QED
    BY <1>1, <2>2
<1>4. Laid(Start, Entries, Byte, flat)
  <2>1. \E start : Laid(start, Entries, Byte, flat)
    BY <1>3, Flattened
  <2> QED
    BY <2>1, Zenon DEF Start
<1> HIDE DEF flat
<1>5. /\ Start[1] = 0 /\ Start \in [1 .. n + 1 -> Nat]
      /\ \A i \in 1 .. n : Start[i + 1] = Start[i] + Len(Entries[i])
      /\ flat \in Seq(Byte) /\ Len(flat) = Start[n + 1]
      /\ \A i \in 1 .. n : \A k \in 1 .. Len(Entries[i]) :
            Start[i] + k \in 1 .. Len(flat) /\ flat[Start[i] + k] = Entries[i][k]
  BY <1>3, <1>4 DEF Laid
<1>6. PICK m \in Nat : m = Len(flat)
  BY <1>5, LenProperties
<1>7. /\ Len(TableBytes) = m + 1 /\ DOMAIN TableBytes = 1 .. m + 1
      /\ TableBytes[m + 1] = <<0>>
      /\ \A x \in 1 .. m : TableBytes[x] = flat[x]
  <2>1. PICK tail : tail = <<<<0>>>>
    OBVIOUS
  <2>2. <<0>> \in Byte
    BY DEF Byte
  <2>3. tail \in Seq(Byte) /\ Len(tail) = 1 /\ tail[1] = <<0>>
    BY <2>1, <2>2
  <2>4. TableBytes = flat \o tail
    BY <2>1 DEF TableBytes, flat, Entries
  <2>5. /\ flat \o tail \in Seq(Byte) /\ Len(flat \o tail) = Len(flat) + Len(tail)
        /\ \A y \in 1 .. Len(flat) + Len(tail) :
              (flat \o tail)[y] = IF y <= Len(flat) THEN flat[y] ELSE tail[y - Len(flat)]
    <3>1. flat \in Seq(Byte) /\ tail \in Seq(Byte)
      BY <1>5, <2>3
    <3> QED
      BY ONLY <3>1, ConcatProperties
  <2>6. PICK b : b = TableBytes
    OBVIOUS
  <2>7. /\ b \in Seq(Byte) /\ Len(b) = m + 1
        /\ \A y \in 1 .. m + 1 : b[y] = IF y <= m THEN flat[y] ELSE tail[y - m]
    BY <1>6, <2>3, <2>4, <2>5, <2>6
  <2>8. DOMAIN b = 1 .. m + 1
    BY <2>7
  <2>9. m + 1 \in 1 .. m + 1 /\ ~ (m + 1 <= m) /\ m + 1 - m = 1
    BY <1>6
  <2>10. b[m + 1] = <<0>>
    BY <2>3, <2>7, <2>9
  <2>11. \A x \in 1 .. m : b[x] = flat[x]
    BY <2>7
  <2> QED
    BY <2>6, <2>7, <2>8, <2>10, <2>11
<1>8. ASSUME NEW i \in 1 .. n, NEW k \in 1 .. Len(Entry(i))
      PROVE  memr8(Start[i] + k - 1) = Entry(i)[k]
  <2>1. PICK x \in 1 .. m : x = Start[i] + k /\ flat[x] = Entry(i)[k]
    BY <1>2, <1>5, <1>6
  <2>2. Start[i] \in Nat /\ k \in Nat
    <3>1. i \in 1 .. n + 1
      BY <1>1
    <3> QED
      BY <1>2, <1>5, <3>1
  <2>3. Start[i] + k - 1 + 1 = x
    BY <2>1, <2>2
  <2>4. x \in DOMAIN TableBytes /\ TableBytes[x] = Entry(i)[k]
    BY <1>6, <1>7, <2>1
  <2> QED
    BY <2>3, <2>4 DEF memr8
<1>9. memr8(Start[n + 1]) = <<0>>
  <2>1. Start[n + 1] = m /\ m + 1 \in DOMAIN TableBytes
    BY <1>5, <1>6, <1>7
  <2> QED
    BY <1>7, <2>1 DEF memr8
<1>10. ASSUME NEW i \in 1 .. n PROVE Start[i] \in Nat /\ Start[i + 1] = Start[i] + Len(Entry(i))
  <2>1. i \in 1 .. n + 1
    BY <1>1
  <2> QED
    BY <1>2, <1>5, <2>1
<1> QED
  BY <1>1, <1>5, <1>8, <1>9, <1>10 DEF n

(* What the channel reads where an entry starts, and where the table ends. *)
LEMMA EntryRead ==
    ASSUME GivenTable, NEW i \in 1 .. Len(table)
    PROVE  /\ LineCount(Start[i]) = table[i]
           /\ indirect => Pointer(Start[i] + 1) = <<i, 0>> /\ Start[i + 1] = Start[i] + 3
           /\ ~ indirect => Start[i + 1] = Start[i] + 1 + Stored(i) * Width
<1>1. PICK e, s : e = Entry(i) /\ s = Start[i] /\ s \in Nat /\ Len(e) \in Nat \ {0} /\ e[1] = <<table[i]>>
  BY Starts, EntryIs
<1>2. Start[i + 1] = s + Len(e) /\ \A k \in 1 .. Len(e) : memr8(s + k - 1) = e[k]
  BY <1>1, Starts
<1>3. memr8(s) = <<table[i]>>
  <2>1. 1 \in 1 .. Len(e) /\ s + 1 - 1 = s
    BY <1>1
  <2> QED
    BY <1>1, <1>2, <2>1
<1>4. LineCount(s) = table[i]
  BY <1>3 DEF LineCount
<1>5. ASSUME indirect PROVE Pointer(s + 1) = <<i, 0>> /\ Start[i + 1] = s + 3
  <2>1. Len(e) = 3 /\ e[2] = <<i, "low">>
    BY <1>1, <1>5, EntryIs
  <2>2. 2 \in 1 .. Len(e) /\ s + 2 - 1 = s + 1
    BY <1>1, <2>1
  <2>3. memr8(s + 1) = <<i, "low">>
    BY <1>2, <2>1, <2>2
  <2> QED
    BY <1>2, <2>1, <2>3 DEF Pointer
<1>6. ASSUME ~ indirect PROVE Start[i + 1] = s + 1 + Stored(i) * Width
  <2>1. Stored(i) \in Nat /\ Len(e) = Stored(i) * Width + 1
    BY <1>1, <1>6, EntryIs
  <2>2. PICK m \in Nat : m = Stored(i) * Width
    BY <2>1, Sizes
  <2>3. Start[i + 1] = s + Len(e) /\ Len(e) = m + 1
    BY <1>2, <2>1, <2>2
  <2>4. Start[i + 1] = s + 1 + m
    <3>1. s \in Nat
      BY <1>1
    <3>2. s + (m + 1) = s + 1 + m
      BY ONLY <3>1, m \in Nat
    <3> QED
      BY <2>3, <3>2
  <2> QED
    BY <2>2, <2>4
<1> QED
  BY <1>1, <1>4, <1>5, <1>6

LEMMA EndRead ==
    ASSUME GivenTable
    PROVE  LineCount(Start[Len(table) + 1]) = 0
  BY Starts DEF LineCount

LEMMA UnitRead ==
    ASSUME GivenTable, ~ indirect, NEW i \in 1 .. Len(table), NEW j \in 0 .. Stored(i) - 1,
           NEW a, a = Start[i] + 1 + j * Width
    PROVE  FromTable(a) = Ref!Unit(i, j)
<1>1. PICK e, s : e = Entry(i) /\ s = Start[i] /\ s \in Nat
  BY Starts
<1>2. \A k \in 1 .. Len(e) : memr8(s + k - 1) = e[k]
  BY <1>1, Starts
<1>3. j \in Nat /\ Stored(i) \in Nat
  BY EntryIs
<1>4. PICK o \in Nat : o = j * Width
  BY <1>3, Sizes
<1>5. ASSUME NEW k \in 1 .. Width PROVE memr8(a + k - 1) = <<i, j, k - 1>>
  <2>1. o + k + 1 \in 1 .. Len(e) /\ e[o + k + 1] = <<i, j, k - 1>>
    BY <1>1, <1>4, EntryIs
  <2>2. a + k - 1 = s + (o + k + 1) - 1
    <3>1. a = s + 1 + o
      BY <1>1, <1>4
    <3>2. k \in Nat /\ s \in Nat
      BY <1>1
    <3>3. (s + 1 + o) + k - 1 = s + (o + k + 1) - 1
      BY <3>2
    <3> QED
      BY <3>1, <3>3
  <2> QED
    BY <1>2, <2>1, <2>2
<1> QED
  BY <1>5 DEF FromTable, Ref!Unit

LEMMA Divides ==
    ASSUME NEW j \in Nat, NEW k \in 1 .. Width
    PROVE  (j * Width + k - 1) \div Width = j /\ (j * Width + k - 1) % Width = k - 1
<1>1. Width \in Nat \ {0} /\ k \in 1 .. Width
  BY Sizes
<1>2. PICK r \in 0 .. Width - 1 : r = k - 1
  BY <1>1
<1>3. j * Width \in Nat
  BY Sizes
<1>4. PICK a \in Nat : a = j * Width + r
  BY <1>1, <1>2, <1>3
<1>5. PICK q, m : q = a \div Width /\ m = a % Width
  OBVIOUS
<1>6. q \in Int /\ m \in 0 .. Width - 1 /\ a = Width * q + m
  BY <1>1, <1>4, <1>5
<1>7. Width * (q - j) = r - m
  BY <1>1, <1>2, <1>4, <1>6
<1>8. q = j
  <2>1. ~ (q - j >= 1)
    BY <1>1, <1>2, <1>6, <1>7
  <2>2. ~ (q - j <= -1)
    BY <1>1, <1>2, <1>6, <1>7
  <2> QED
    BY <1>6, <2>1, <2>2
<1>9. m = r
  BY <1>1, <1>2, <1>6, <1>7, <1>8
<1>10. j * Width + k - 1 = a
  BY <1>1, <1>2, <1>3, <1>4
<1> QED
  BY <1>2, <1>5, <1>8, <1>9, <1>10

LEMMA DataRead ==
    ASSUME NEW i \in Nat, NEW j \in Nat
    PROVE  FromData(<<i, j * Width>>) = Ref!Unit(i, j)
<1>1. ASSUME NEW k \in 1 .. Width PROVE Data(<<i, j * Width>>, k - 1) = <<i, j, k - 1>>
  <2>1. j * Width \in Nat /\ k \in Nat
    BY Sizes
  <2>2. j * Width + (k - 1) = j * Width + k - 1
    BY <2>1
  <2> QED
    BY <2>2, Divides DEF Data
<1> QED
  BY <1>1 DEF FromData, Ref!Unit

Gone(i, m) == IF Ref!Repeats(table[i]) THEN m * Width ELSE 0

(* The channel has had j lines of entry i. *)
AtLine(i, j) ==
    /\ lines = Ref!Before(table)[i] + j
    /\ line_counter = table[i] - j
    /\ addr_inc = Start[i] + 1 + (IF indirect THEN 0 ELSE Gone(i, j))
    /\ indirect => count = <<i, Gone(i, j)>>

WalkInv ==
    /\ GivenTable /\ curhdma \in BOOLEAN /\ nexthdma \in BOOLEAN /\ hdmatype \in BOOLEAN
    /\ nexthdma /\ hdmatype => lines = 0 /\ addr_inc = 0 /\ line_counter = 0
    /\ nexthdma /\ ~ hdmatype =>
          \E i \in 1 .. Len(table) : \E j \in 1 .. Ref!LinesOf(table[i]) : AtLine(i, j)

LEMMA Settled ==
    ASSUME UNCHANGED <<table, indirect>>
    PROVE  Start' = Start /\ GivenTable' = GivenTable
<1>1. Entries' = Entries
  BY DEF Entries, Entry, Units
<1> QED
  BY <1>1 DEF Start, GivenTable

(* The line counter within an entry. *)
LEMMA CounterIs ==
    ASSUME GivenTable, NEW i \in 1 .. Len(table), NEW j \in 1 .. Ref!LinesOf(table[i]),
           line_counter = table[i] - j
    PROVE  /\ NeedsEntry <=> j = Ref!LinesOf(table[i])
           /\ Repeating(line_counter) <=> Ref!Repeats(table[i])
<1>1. PICK c, l, h \in Nat : c = table[i] /\ l = Ref!LinesOf(table[i]) /\ h = Half /\ h # 0
  BY EntryCount, Sizes
<1>2. l <= h /\ j \in 1 .. l
  BY <1>1, EntryCount, LinesAre
<1>3. PICK r : r = l - j
  OBVIOUS
<1>4. r \in 0 .. h - 1 /\ (r = 0 <=> j = l)
  BY ONLY <1>1, <1>2, <1>3, l \in Nat, h \in Nat
<1>5. r % h = r /\ (h + r) % h = r
  BY ONLY <1>1, <1>4, h \in Nat
<1>6. CASE Ref!Repeats(table[i])
  <2>1. c = h + l
    BY <1>1, <1>6, EntryCount, LinesAre
  <2>2. line_counter = h + r
    BY <1>1, <1>2, <1>3, <2>1
  <2>3. h + r >= h
    BY <1>1, <1>4
  <2> QED
    BY <1>1, <1>4, <1>5, <1>6, <2>2, <2>3 DEF NeedsEntry, Repeating
<1>7. CASE ~ Ref!Repeats(table[i])
  <2>1. c = l
    BY <1>1, <1>7, EntryCount, LinesAre
  <2>2. line_counter = r
    BY <1>1, <1>2, <1>3, <2>1
  <2>3. ~ (r >= h)
    BY <1>1, <1>4
  <2> QED
    BY <1>1, <1>4, <1>5, <1>7, <2>2, <2>3 DEF NeedsEntry, Repeating
<1> QED
  BY <1>6, <1>7

(* An entry is over: the next starts, or the table ends, where the channel   *)
(* reads on.                                                                 *)
LEMMA EntryOver ==
    ASSUME WalkInv, nexthdma, NeedsEntry
    PROVE  \E x \in 1 .. Len(table) + 1 :
              /\ lines = Ref!Before(table)[x]
              /\ IF indirect THEN SkipsPointer = Start[x] ELSE SkipsUnit = Start[x]
<1>1. GivenTable /\ Len(table) \in Nat /\ Start[1] = 0
  BY Starts DEF WalkInv
<1>2. CASE hdmatype
  <2>1. 1 \in 1 .. Len(table) + 1 /\ Ref!Before(table)[1] = 0
    BY <1>1, Sums DEF GivenTable
  <2>2. lines = 0 /\ addr_inc = 0
    BY <1>2 DEF WalkInv
  <2> QED
    BY <1>1, <1>2, <2>1, <2>2 DEF SkipsPointer, SkipsUnit
<1>3. CASE ~ hdmatype
  <2>0. PICK i \in 1 .. Len(table) : \E j \in 1 .. Ref!LinesOf(table[i]) : AtLine(i, j)
    BY <1>3 DEF WalkInv
  <2>1. PICK j \in 1 .. Ref!LinesOf(table[i]) : AtLine(i, j)
    BY <2>0
  <2>2. j = Ref!LinesOf(table[i]) /\ (Repeating(line_counter) <=> Ref!Repeats(table[i]))
    BY <1>1, <2>1, CounterIs DEF AtLine
  <2>3. i + 1 \in 1 .. Len(table) + 1 /\ lines = Ref!Before(table)[i + 1]
    BY <1>1, <2>1, <2>2, Sums DEF AtLine, GivenTable
  <2>4. PICK s \in Nat : s = Start[i]
    BY <1>1, Starts
  <2>5. ASSUME indirect PROVE SkipsPointer = Start[i + 1]
    <3>1. addr_inc = s + 1 + 0
      BY <2>1, <2>4, <2>5 DEF AtLine
    <3>2. Start[i + 1] = s + 3
      BY <1>1, <2>4, <2>5, EntryRead
    <3> QED
      BY <1>3, <2>4, <3>1, <3>2 DEF SkipsPointer
  <2>6. ASSUME ~ indirect PROVE SkipsUnit = Start[i + 1]
    <3>1. addr_inc = s + 1 + Gone(i, j) /\ Start[i + 1] = s + 1 + Stored(i) * Width
      BY <1>1, <2>1, <2>4, <2>6, EntryRead DEF AtLine
    <3>2. CASE Ref!Repeats(table[i])
      <4>1. SkipsUnit = addr_inc /\ Gone(i, j) = Stored(i) * Width
        BY <2>2, <3>2 DEF SkipsUnit, Gone, Stored
      <4> QED
        BY <3>1, <4>1
    <3>3. CASE ~ Ref!Repeats(table[i])
      <4>1. SkipsUnit = addr_inc + Width /\ Gone(i, j) = 0 /\ Stored(i) = 1
        BY <1>3, <2>2, <3>3 DEF SkipsUnit, Gone, Stored
      <4>2. Width \in Nat
        BY Sizes
      <4> QED
        BY <2>4, <3>1, <4>1, <4>2
    <3> QED
      BY <3>2, <3>3
  <2> QED
    BY <2>3, <2>5, <2>6
<1> QED
  BY <1>2, <1>3

(* An entry goes on. *)
LEMMA EntryGoesOn ==
    ASSUME WalkInv, nexthdma, ~ NeedsEntry
    PROVE  /\ hdmatype = FALSE
           /\ \E i \in 1 .. Len(table) : \E j \in 1 .. Ref!LinesOf(table[i]) - 1 :
                 AtLine(i, j) /\ (Repeating(line_counter) <=> Ref!Repeats(table[i]))
<1>1. CASE hdmatype
  <2>1. line_counter = 0
    BY <1>1 DEF WalkInv
  <2>2. 0 % Half = 0
    BY Sizes
  <2> QED
    BY <2>1, <2>2 DEF NeedsEntry
<1>2. CASE ~ hdmatype
  <2>0. PICK i \in 1 .. Len(table) : \E j \in 1 .. Ref!LinesOf(table[i]) : AtLine(i, j)
    BY <1>2 DEF WalkInv
  <2>1. PICK j \in 1 .. Ref!LinesOf(table[i]) : AtLine(i, j)
    BY <2>0
  <2>2. j # Ref!LinesOf(table[i]) /\ (Repeating(line_counter) <=> Ref!Repeats(table[i]))
    BY <2>1, CounterIs DEF AtLine, WalkInv
  <2>3. Ref!LinesOf(table[i]) \in Nat
    BY EntryCount DEF WalkInv
  <2>4. j \in 1 .. Ref!LinesOf(table[i]) - 1
    BY <2>1, <2>2, <2>3
  <2> QED
    BY <1>2, <2>1, <2>2, <2>4 DEF WalkInv
<1> QED
  BY <1>1, <1>2

(* The line after the j-th of entry i. *)
LEMMA LineMoved ==
    ASSUME WalkInv, nexthdma, UNCHANGED <<table, indirect, curhdma>>,
           lines' = lines + 1, nexthdma' = nexthdma, hdmatype' = FALSE,
           NEW i \in 1 .. Len(table), NEW j \in 0 .. Ref!LinesOf(table[i]) - 1,
           lines = Ref!Before(table)[i] + j,
           moved' = IF Ref!Repeats(table[i]) \/ j = 0 THEN Ref!Unit(i, j) ELSE <<>>,
           line_counter' = table[i] - j - 1,
           addr_inc' = Start[i] + 1 + (IF indirect THEN 0 ELSE Gone(i, j + 1)),
           indirect => count' = <<i, Gone(i, j + 1)>>
    PROVE  WalkInv' /\ Ref!Scanline
<1>1. GivenTable /\ table[i] \in Nat /\ Ref!LinesOf(table[i]) \in Nat
  BY EntryCount DEF WalkInv
<1>2. i \in 1 .. Len(table) + 1 /\ Ref!Before(table)[i] \in Nat
  <2>1. Len(table) \in Nat
    BY <1>1, LenProperties DEF GivenTable
  <2>2. i \in 1 .. Len(table) + 1
    BY <2>1
  <2> QED
    BY <1>1, <2>2, Sums DEF GivenTable
<1>3. lines' = Ref!Before(table)[i] + j + 1
  BY <1>2
<1>4. Ref!Lasts(table, lines') /\ Ref!Due(table, lines') = moved'
  BY <1>1, <1>3, DueIs DEF GivenTable
<1>5. Ref!Scanline
  BY <1>4 DEF Ref!Scanline
<1>6. WalkInv'
  <2>1. PICK m \in Nat : m = j + 1
    BY <1>1
  <2>2. m \in 1 .. Ref!LinesOf(table[i])
    BY <1>1, <2>1
  <2>3. lines' = Ref!Before(table)[i] + m
    <3>1. PICK b \in Nat : b = Ref!Before(table)[i]
      BY <1>2
    <3>2. j \in Nat
      BY <1>1
    <3>3. b + j + 1 = b + m
      BY ONLY <2>1, <3>2, b \in Nat, m \in Nat
    <3> QED
      BY <1>3, <3>1, <3>3
  <2>4. line_counter' = table[i] - m
    <3>1. PICK c \in Nat : c = table[i]
      BY <1>1
    <3>2. j \in Nat
      BY <1>1
    <3>3. c - j - 1 = c - m
      BY ONLY <2>1, <3>1, <3>2, c \in Nat, m \in Nat
    <3> QED
      BY <3>1, <3>3
  <2>5. Start' = Start /\ GivenTable'
    BY <1>1, Settled
  <2>6. Gone(i, m)' = Gone(i, m)
    BY DEF Gone
  <2>7. AtLine(i, m)'
    BY <2>1, <2>3, <2>4, <2>5, <2>6 DEF AtLine
  <2> QED
    BY <2>2, <2>5, <2>7 DEF WalkInv
<1> QED
  BY <1>5, <1>6

LEMMA TableEnded ==
    ASSUME WalkInv, nexthdma, UNCHANGED <<table, indirect, curhdma>>,
           lines' = lines + 1, hdmatype' = FALSE,
           NEW x \in 1 .. Len(table) + 1, lines = Ref!Before(table)[x], TableEnds(Start[x])
    PROVE  WalkInv' /\ Ref!Scanline
<1>1. GivenTable /\ Len(table) \in Nat
  BY LenProperties DEF WalkInv, GivenTable
<1>2. x = Len(table) + 1
  <2>1. SUFFICES ASSUME x # Len(table) + 1 PROVE FALSE
    OBVIOUS
  <2>2. x \in 1 .. Len(table)
    BY <1>1, <2>1
  <2> QED
    BY <1>1, <2>2, EntryRead, EntryCount DEF TableEnds
<1>3. nexthdma' = FALSE /\ moved' = <<>>
  BY DEF TableEnds, WalkInv
<1>4. ~ Ref!Lasts(table, lines')
  BY <1>1, <1>2, TableOver DEF GivenTable
<1>5. Ref!Lasts(table, lines') \in BOOLEAN
  BY DEF Ref!Lasts
<1> QED
  BY <1>1, <1>3, <1>4, <1>5, Settled DEF WalkInv, Ref!Scanline

LEMMA EntryTaken ==
    ASSUME WalkInv, exechdma, NeedsEntry
    PROVE  WalkInv' /\ Ref!Scanline
<1>1. /\ nexthdma /\ UNCHANGED <<table, indirect, curhdma>> /\ lines' = lines + 1
      /\ GivenTable /\ Len(table) \in Nat
  BY LenProperties DEF exechdma, WalkInv, GivenTable
<1>2. PICK x \in 1 .. Len(table) + 1 :
         /\ lines = Ref!Before(table)[x]
         /\ IF indirect THEN SkipsPointer = Start[x] ELSE SkipsUnit = Start[x]
  BY <1>1, EntryOver
<1>3. PICK a : a = Start[x]
  OBVIOUS
<1>4. hdmatype' = FALSE
  BY DEF exechdma, Direct, Indirect
<1>5. CASE TableEnds(a)
  BY <1>1, <1>2, <1>3, <1>4, <1>5, TableEnded
<1>6. ASSUME LineCount(a) # 0
      PROVE  /\ x \in 1 .. Len(table) /\ LineCount(a) = table[x] /\ table[x] \in Nat
             /\ a \in Nat /\ Ref!LinesOf(table[x]) \in Nat \ {0} /\ lines = Ref!Before(table)[x] + 0
             /\ 0 \in 0 .. Ref!LinesOf(table[x]) - 1 /\ 1 * Width = Width /\ 0 * Width = 0 /\ Width \in Nat
  <2>1. x # Len(table) + 1
    BY <1>1, <1>3, <1>6, EndRead
  <2>2. x \in 1 .. Len(table)
    BY <1>1, <2>1
  <2>3. table[x] \in Nat /\ Ref!LinesOf(table[x]) \in Nat \ {0}
    BY <1>1, <2>2, EntryCount
  <2>4. lines \in Nat
    BY <1>1, <1>2, Sums DEF GivenTable
  <2>5. LineCount(a) = table[x] /\ a \in Nat
    BY <1>1, <1>3, <2>2, EntryRead, Starts
  <2>6. 1 * Width = Width /\ 0 * Width = 0 /\ Width \in Nat
    BY Sizes
  <2>7. lines = Ref!Before(table)[x] + 0
    BY <1>2, <2>4
  <2>8. 0 \in 0 .. Ref!LinesOf(table[x]) - 1
    BY <2>3
  <2> QED
    BY <2>2, <2>3, <2>5, <2>6, <2>7, <2>8
<1>7. ASSUME LineCount(a) # 0
      PROVE  Gone(x, 1) = (IF TakesUnitALine(LineCount(a)) THEN Width ELSE 0)
  BY <1>6, <1>7 DEF Gone, TakesUnitALine, Ref!Repeats
<1>8. ASSUME LineCount(a) # 0, nexthdma' = nexthdma, CountsFrom(LineCount(a)), moved' = Ref!Unit(x, 0),
             addr_inc' = a + 1 + (IF indirect THEN 0 ELSE Gone(x, 1)), indirect => count' = <<x, Gone(x, 1)>>
      PROVE  WalkInv' /\ Ref!Scanline
  <2>1. PICK j : j = 0
    OBVIOUS
  <2>2. j \in 0 .. Ref!LinesOf(table[x]) - 1 /\ j + 1 = 1 /\ lines = Ref!Before(table)[x] + j
        /\ x \in 1 .. Len(table)
    BY <1>6, <1>8, <2>1
  <2>3. line_counter' = table[x] - j - 1
    BY <1>6, <1>8, <2>1 DEF CountsFrom
  <2>4. moved' = IF Ref!Repeats(table[x]) \/ j = 0 THEN Ref!Unit(x, j) ELSE <<>>
    BY <1>8, <2>1
  <2>5. /\ addr_inc' = Start[x] + 1 + (IF indirect THEN 0 ELSE Gone(x, j + 1))
        /\ indirect => count' = <<x, Gone(x, j + 1)>>
    BY <1>3, <1>8, <2>2
  <2> QED
    BY <1>1, <1>4, <1>8, <2>2, <2>3, <2>4, <2>5, LineMoved
<1>9. CASE ~ indirect
  <2>1. /\ UNCHANGED count
        /\ \/ TableEnds(a)
           \/ /\ LineCount(a) # 0 /\ nexthdma' = nexthdma /\ CountsFrom(LineCount(a))
              /\ moved' = FromTable(a + 1)
              /\ addr_inc' = a + 1 + (IF TakesUnitALine(LineCount(a)) THEN Width ELSE 0)
    BY <1>2, <1>3, <1>9 DEF exechdma, Direct, Indirect
  <2>2. CASE LineCount(a) # 0
    <3>1. 0 \in 0 .. Stored(x) - 1
      BY <1>1, <1>6, <1>9, <2>2, EntryIs
    <3>2. a + 1 = Start[x] + 1 + 0 * Width
      BY <1>3, <1>6, <2>2
    <3>3. FromTable(a + 1) = Ref!Unit(x, 0)
      BY <1>1, <1>6, <1>9, <2>2, <3>1, <3>2, UnitRead
    <3> QED
      BY <1>5, <1>7, <1>8, <1>9, <2>1, <2>2, <3>3
  <2> QED
    BY <1>5, <2>1, <2>2
<1>10. CASE indirect
  <2>1. \/ TableEnds(a)
        \/ /\ LineCount(a) # 0 /\ nexthdma' = nexthdma /\ CountsFrom(LineCount(a))
           /\ moved' = FromData(Pointer(a + 1)) /\ addr_inc' = a + 1
           /\ count' = On(Pointer(a + 1), IF TakesUnitALine(LineCount(a)) THEN Width ELSE 0)
    BY <1>2, <1>3, <1>10 DEF exechdma, Direct, Indirect
  <2>2. CASE LineCount(a) # 0
    <3>1. Pointer(a + 1) = <<x, 0 * Width>> /\ x \in Nat
      BY <1>1, <1>3, <1>6, <1>10, <2>2, EntryRead
    <3>2. FromData(Pointer(a + 1)) = Ref!Unit(x, 0)
      BY <3>1, DataRead
    <3>3. PICK r \in Nat : r = Gone(x, 1)
      BY <1>6, <2>2 DEF Gone
    <3>4. On(Pointer(a + 1), r) = <<x, r>>
      BY <1>6, <2>2, <3>1, <3>3 DEF On
    <3>5. a + 1 = a + 1 + 0
      BY <1>6, <2>2
    <3> QED
      BY <1>5, <1>7, <1>8, <1>10, <2>1, <2>2, <3>2, <3>3, <3>4, <3>5
  <2> QED
    BY <1>5, <2>1, <2>2
<1> QED
  BY <1>9, <1>10

LEMMA EntryContinued ==
    ASSUME WalkInv, exechdma, ~ NeedsEntry
    PROVE  WalkInv' /\ Ref!Scanline
<1>1. /\ nexthdma /\ UNCHANGED <<table, indirect, curhdma>> /\ lines' = lines + 1
      /\ GivenTable
  BY DEF exechdma, WalkInv
<1>2. hdmatype = FALSE
  BY <1>1, EntryGoesOn
<1>0. PICK i \in 1 .. Len(table) : \E j \in 1 .. Ref!LinesOf(table[i]) - 1 :
         AtLine(i, j) /\ (Repeating(line_counter) <=> Ref!Repeats(table[i]))
  BY <1>1, EntryGoesOn
<1>3. PICK j \in 1 .. Ref!LinesOf(table[i]) - 1 :
         AtLine(i, j) /\ (Repeating(line_counter) <=> Ref!Repeats(table[i]))
  BY <1>0
<1>4. /\ table[i] \in Nat /\ Ref!LinesOf(table[i]) \in Nat /\ i \in Nat /\ j \in Nat /\ j # 0
      /\ j \in 0 .. Ref!LinesOf(table[i]) - 1
  BY <1>1, EntryCount
<1>5. Gone(i, j) \in Nat /\ Gone(i, j + 1) = (IF Ref!Repeats(table[i]) THEN Gone(i, j) + Width ELSE 0)
  BY <1>4, Sizes DEF Gone
<1>6. PICK s \in Nat : s = Start[i]
  BY <1>1, Starts
<1>7. nexthdma' = nexthdma /\ hdmatype' = FALSE /\ line_counter' = table[i] - j - 1
  <2>1. nexthdma' = nexthdma /\ hdmatype' = hdmatype /\ CountsFrom(line_counter)
    BY DEF exechdma, Direct, Indirect
  <2> QED
    BY <1>2, <1>3, <2>1 DEF CountsFrom, AtLine
<1>8. ASSUME moved' = (IF Ref!Repeats(table[i]) THEN Ref!Unit(i, j) ELSE <<>>),
             addr_inc' = s + 1 + (IF indirect THEN 0 ELSE Gone(i, j + 1)),
             indirect => count' = <<i, Gone(i, j + 1)>>
      PROVE  WalkInv' /\ Ref!Scanline
  <2>1. moved' = IF Ref!Repeats(table[i]) \/ j = 0 THEN Ref!Unit(i, j) ELSE <<>>
    BY <1>4, <1>8
  <2>2. lines = Ref!Before(table)[i] + j
    BY <1>3 DEF AtLine
  <2> QED
    BY <1>1, <1>4, <1>6, <1>7, <1>8, <2>1, <2>2, LineMoved
<1>9. CASE ~ indirect
  <2>1. \/ Repeating(line_counter) /\ moved' = FromTable(addr_inc) /\ addr_inc' = addr_inc + Width
        \/ ~ Repeating(line_counter) /\ moved' = <<>> /\ UNCHANGED addr_inc
    BY <1>9 DEF exechdma, Direct, Indirect
  <2>2. addr_inc = s + 1 + Gone(i, j)
    BY <1>3, <1>6, <1>9 DEF AtLine
  <2>3. CASE Ref!Repeats(table[i])
    <3>1. Gone(i, j) = j * Width /\ Stored(i) = Ref!LinesOf(table[i])
      BY <2>3 DEF Gone, Stored
    <3>2. addr_inc = Start[i] + 1 + j * Width /\ j \in 0 .. Stored(i) - 1
      BY <1>4, <1>6, <2>2, <3>1
    <3>3. FromTable(addr_inc) = Ref!Unit(i, j)
      BY <1>1, <1>9, <3>2, UnitRead
    <3>4. addr_inc + Width = s + 1 + Gone(i, j + 1)
      <4>1. PICK g, w \in Nat : g = Gone(i, j) /\ w = Width
        BY <1>5, Sizes
      <4>2. (s + 1 + g) + w = s + 1 + (g + w)
        BY ONLY s \in Nat, g \in Nat, w \in Nat
      <4> QED
        BY <1>5, <2>2, <2>3, <4>1, <4>2
    <3> QED
      BY <1>3, <1>8, <1>9, <2>1, <2>3, <3>3, <3>4
  <2>4. CASE ~ Ref!Repeats(table[i])
    <3>1. Gone(i, j) = 0 /\ Gone(i, j + 1) = 0
      BY <2>4 DEF Gone
    <3> QED
      BY <1>3, <1>8, <1>9, <2>1, <2>2, <2>4, <3>1
  <2> QED
    BY <2>3, <2>4
<1>10. CASE indirect
  <2>1. /\ UNCHANGED addr_inc
        /\ \/ Repeating(line_counter) /\ moved' = FromData(count) /\ count' = On(count, Width)
           \/ ~ Repeating(line_counter) /\ moved' = <<>> /\ UNCHANGED count
    BY <1>10 DEF exechdma, Direct, Indirect
  <2>2. addr_inc = s + 1 + 0 /\ count = <<i, Gone(i, j)>>
    BY <1>3, <1>6, <1>10 DEF AtLine
  <2>3. CASE Ref!Repeats(table[i])
    <3>1. FromData(count) = Ref!Unit(i, j)
      BY <1>4, <2>2, <2>3, DataRead DEF Gone
    <3>2. On(count, Width) = <<i, Gone(i, j + 1)>>
      BY <1>5, <2>2, <2>3 DEF On
    <3> QED
      BY <1>3, <1>8, <1>10, <2>1, <2>2, <2>3, <3>1, <3>2
  <2>4. CASE ~ Ref!Repeats(table[i])
    <3>1. Gone(i, j) = 0 /\ Gone(i, j + 1) = 0
      BY <2>4 DEF Gone
    <3> QED
      BY <1>3, <1>8, <1>10, <2>1, <2>2, <2>4, <3>1
  <2> QED
    BY <2>3, <2>4
<1> QED
  BY <1>9, <1>10

LEMMA ChannelSetUp ==
    ASSUME WalkInv, NEW bit \in BOOLEAN, SetUp(bit), curhdma' \in BOOLEAN
    PROVE  WalkInv' /\ Ref!SetUp
<1>1. GivenTable'
  BY Settled DEF SetUp, WalkInv
<1> QED
  BY <1>1 DEF SetUp, setuphdma, WalkInv, Ref!SetUp

LEMMA ChannelSteps ==
    ASSUME WalkInv, [HdmaNext]_hdmaVars
    PROVE  WalkInv' /\ [Ref!SetUp \/ Ref!Scanline]_Ref!tableVars
<1>1. CASE starthdma
  BY <1>1, ChannelSetUp DEF starthdma, WalkInv
<1>2. CASE reg420Cw
  <2>1. PICK bit \in BOOLEAN :
           /\ curhdma' = bit
           /\ \/ SetUp(bit)
              \/ UNCHANGED <<table, indirect, nexthdma, line_counter, addr_inc, count, hdmatype, lines, moved>>
    BY <1>2 DEF reg420Cw
  <2>2. CASE SetUp(bit)
    BY <2>1, <2>2, ChannelSetUp
  <2>3. CASE UNCHANGED <<table, indirect, nexthdma, line_counter, addr_inc, count, hdmatype, lines, moved>>
    <3>1. GivenTable' /\ Start' = Start
      BY <2>3, Settled DEF WalkInv
    <3> QED
      BY <2>1, <2>3, <3>1 DEF WalkInv, AtLine, Gone, Ref!tableVars
  <2> QED
    BY <2>1, <2>2, <2>3
<1>3. CASE EndedByLoad
  <2>1. GivenTable'
    BY <1>3, Settled DEF EndedByLoad, WalkInv
  <2> QED
    BY <1>3, <2>1 DEF EndedByLoad, WalkInv, Ref!SetUp
<1>4. CASE exechdma
  BY <1>4, EntryTaken, EntryContinued
<1>5. CASE UNCHANGED hdmaVars
  <2>1. GivenTable' /\ Start' = Start
    BY <1>5, Settled DEF WalkInv, hdmaVars
  <2> QED
    BY <1>5, <2>1 DEF hdmaVars, WalkInv, AtLine, Gone, Ref!tableVars
<1> QED
  BY <1>1, <1>2, <1>3, <1>4, <1>5 DEF HdmaNext

(* On every scanline the channel (dohdma and indirectaddr, c_dma.c) moves    *)
(* what its table has for that line, and it is off once the table has ended, *)
(* whatever is in the table and however often the channel is set up again.   *)
THEOREM WalksItsTable == HdmaSpec => WalksTable
<1>1. HdmaInit => WalkInv /\ Ref!TableInit
  <2>1. SUFFICES ASSUME HdmaInit PROVE WalkInv /\ Ref!TableInit
    OBVIOUS
  <2>2. GivenTable
    BY <2>1, HdmaAssumption DEF HdmaInit, HdmaAssumption, GivenTable, LineCounts
  <2> QED
    BY <2>1, <2>2 DEF HdmaInit, WalkInv, Ref!TableInit
<1> QED
  BY <1>1, ChannelSteps, PTL DEF HdmaSpec, WalksTable, Ref!TableSpec

-----------------------------------------------------------------------------
(* The patch.  Said is what the records say from the first on; at every      *)
(* moment the ROM has the first c writes of it, and what is still to come is *)
(* what the rest of the file says (Left), or of the record under way.        *)

GivenPatch == file \in Seq(Nat \ {Original}) /\ sub \in Nat

Write == [place : Int, byte : Nat \ {Original}]
Here == 1 .. Len(file) + 1

(* Said and Whole are these of the first record. *)
FromStep(f) ==
    [p \in Here |-> IF p = Len(file) + 1 \/ file[p] = Marker \/ After(p) > Len(file) + 1 THEN <<>>
                    ELSE RecordAt(p) \o f[After(p)]]
FitsStep(f) ==
    [p \in Here |-> p = Len(file) + 1 \/ file[p] = Marker
                    \/ (After(p) <= Len(file) + 1 /\ f[After(p)])]
From == CHOOSE f : f = FromStep(f)
Fits == CHOOSE f : f = FitsStep(f)

Size(p) == IF file[p + 1] # 0 THEN file[p + 1] ELSE file[p + 2]
ByteOf(p, k) == IF file[p + 1] # 0 THEN file[p + 1 + k] ELSE file[p + 3]

LEMMA PatchIs ==
    ASSUME GivenPatch
    PROVE  /\ Len(file) \in Nat
           /\ \A p \in 1 .. Len(file) : file[p] \in Nat /\ file[p] # Original
           /\ \A p \in 1 .. Len(file) : After(p) \in Nat /\ p < After(p)
<1>1. Len(file) \in Nat /\ \A p \in 1 .. Len(file) : file[p] \in Nat /\ file[p] # Original
  BY LenProperties, ElementOfSeq DEF GivenPatch
<1>2. ASSUME NEW p \in 1 .. Len(file) PROVE After(p) \in Nat /\ p < After(p)
  <2>1. CASE p + 1 > Len(file)
    BY <2>1 DEF After
  <2>2. CASE ~ (p + 1 > Len(file))
    <3>1. p + 1 \in 1 .. Len(file)
      BY <1>1, <2>2
    <3>2. PICK c \in Nat : c = file[p + 1]
      BY <1>1, <3>1
    <3>3. After(p) = IF c # 0 THEN p + 2 + c ELSE p + 4
      BY <2>2, <3>2 DEF After
    <3> QED
      BY <3>3
  <2> QED
    BY <2>1, <2>2
<1> QED
  BY <1>1, <1>2

LEMMA RecordIs ==
    ASSUME GivenPatch, NEW p \in 1 .. Len(file), After(p) <= Len(file) + 1
    PROVE  /\ After(p) \in Here /\ p + 1 \in 1 .. Len(file) /\ Size(p) \in Nat
           /\ file[p + 1] # 0 => After(p) = p + 2 + Size(p)
           /\ file[p + 1] = 0 => After(p) = p + 4 /\ p + 2 \in 1 .. Len(file) /\ p + 3 \in 1 .. Len(file)
           /\ RecordAt(p) \in Seq(Write) /\ Len(RecordAt(p)) = Size(p)
           /\ \A k \in 1 .. Size(p) :
                 /\ RecordAt(p)[k] = [place |-> file[p] - sub + k - 1, byte |-> ByteOf(p, k)]
                 /\ ByteOf(p, k) \in Nat \ {Original}
                 /\ file[p + 1] # 0 => p + 1 + k \in 1 .. Len(file)
<1>1. /\ Len(file) \in Nat /\ p \in Nat /\ file[p] \in Nat /\ sub \in Nat
      /\ After(p) \in Nat /\ p < After(p)
      /\ \A q \in 1 .. Len(file) : file[q] \in Nat /\ file[q] # Original
  BY PatchIs DEF GivenPatch
<1>2. p + 1 \in 1 .. Len(file)
  <2>1. p + 1 > Len(file) => After(p) = p + 2
    BY DEF After
  <2> QED
    BY <1>1, <2>1
<1>3. After(p) = IF file[p + 1] # 0 THEN p + 2 + file[p + 1] ELSE p + 4
  BY <1>1, <1>2 DEF After
<1>4. RecordAt(p) = [k \in 1 .. Size(p) |-> [place |-> file[p] - sub + k - 1, byte |-> ByteOf(p, k)]]
  BY DEF RecordAt, Size, ByteOf
<1>5. CASE file[p + 1] # 0
  <2>1. PICK c \in Nat : c = file[p + 1] /\ Size(p) = c /\ After(p) = p + 2 + c
    BY <1>1, <1>2, <1>3, <1>5 DEF Size
  <2>2. ASSUME NEW k \in 1 .. c
        PROVE  p + 1 + k \in 1 .. Len(file) /\ ByteOf(p, k) = file[p + 1 + k]
    BY <1>1, <1>5, <2>1 DEF ByteOf
  <2> QED
    <3>1. ASSUME NEW k \in 1 .. c PROVE ByteOf(p, k) \in Nat \ {Original} /\ file[p] - sub + k - 1 \in Int
      <4>1. ByteOf(p, k) \in Nat \ {Original}
        BY <1>1, <2>2
      <4>2. file[p] - sub + k - 1 \in Int
        BY <1>1
      <4> QED
        BY <4>1, <4>2
    <3>2. \A k \in 1 .. c : [place |-> file[p] - sub + k - 1, byte |-> ByteOf(p, k)] \in Write
      BY <3>1 DEF Write
    <3>3. After(p) \in Here
      BY <1>1 DEF Here
    <3>4. RecordAt(p) \in Seq(Write) /\ Len(RecordAt(p)) = c
      BY <1>4, <2>1, <3>2
    <3> QED
      BY <1>2, <1>4, <1>5, <2>1, <2>2, <3>1, <3>3, <3>4
<1>6. CASE file[p + 1] = 0
  <2>1. After(p) = p + 4 /\ p + 2 \in 1 .. Len(file) /\ p + 3 \in 1 .. Len(file)
    BY <1>1, <1>3, <1>6
  <2>2. PICK c \in Nat : c = file[p + 2] /\ Size(p) = c
    BY <1>1, <1>6, <2>1 DEF Size
  <2>3. ASSUME NEW k \in 1 .. c PROVE ByteOf(p, k) \in Nat \ {Original} /\ file[p] - sub + k - 1 \in Int
    BY <1>1, <1>6, <2>1 DEF ByteOf
  <2>4. \A k \in 1 .. c : [place |-> file[p] - sub + k - 1, byte |-> ByteOf(p, k)] \in Write
    BY <2>3 DEF Write
  <2>5. After(p) \in Here
    BY <1>1 DEF Here
  <2>6. RecordAt(p) \in Seq(Write) /\ Len(RecordAt(p)) = c
    BY <1>4, <2>2, <2>4
  <2> QED
    BY <1>2, <1>4, <1>6, <2>1, <2>2, <2>3, <2>5, <2>6
<1> QED
  BY <1>5, <1>6

LEMMA FitsIs ==
    ASSUME GivenPatch
    PROVE  /\ Whole <=> Fits[1]
           /\ \A p \in Here : Fits[p] = (p = Len(file) + 1 \/ file[p] = Marker
                                         \/ (After(p) <= Len(file) + 1 /\ Fits[After(p)]))
<1> DEFINE n == Len(file) + 1
           F == [1 .. n -> BOOLEAN]
           climb == [f \in F |-> FitsStep(f)]
<1>1. n \in Nat /\ Here = 1 .. n
  BY PatchIs DEF Here
<1>2. \A f \in F : climb[f] = FitsStep(f) /\ climb[f] \in F
  BY <1>1 DEF FitsStep
<1>3. ASSUME NEW f \in F, NEW g \in F, NEW p \in 1 .. n, \A q \in p + 1 .. n : f[q] = g[q]
      PROVE  climb[f][p] = climb[g][p]
  <2>1. SUFFICES ASSUME p # n, file[p] # Marker, After(p) <= n PROVE f[After(p)] = g[After(p)]
    BY <1>1, <1>2 DEF FitsStep
  <2>2. p \in 1 .. Len(file)
    BY <1>1, <2>1, PatchIs
  <2>3. After(p) \in p + 1 .. n
    BY <1>1, <2>1, <2>2, PatchIs
  <2> QED
    BY <1>3, <2>3
<1>4. \E f : f = FitsStep(f)
  <2>1. PICK f : Climbs(f, n, BOOLEAN, climb)
    <3> HIDE DEF n, climb
    <3> QED
      BY <1>1, <1>2, <1>3, Climbing
  <2> QED
    BY <1>2, <2>1 DEF Climbs
<1>5. Fits = FitsStep(Fits)
  BY <1>4, Zenon DEF Fits
<1>6. Whole <=> Fits[1]
  BY DEF Whole, Fits, FitsStep, Here
<1>7. ASSUME NEW p \in Here
      PROVE  Fits[p] = (p = Len(file) + 1 \/ file[p] = Marker
                        \/ (After(p) <= Len(file) + 1 /\ Fits[After(p)]))
  <2>1. FitsStep(Fits)[p] = (p = Len(file) + 1 \/ file[p] = Marker
                             \/ (After(p) <= Len(file) + 1 /\ Fits[After(p)]))
    BY DEF FitsStep
  <2> QED
    BY <1>5, <2>1
<1> QED
  BY <1>6, <1>7

LEMMA FromIs ==
    ASSUME GivenPatch
    PROVE  /\ Said = From[1]
           /\ \A p \in Here :
                 /\ From[p] \in Seq(Write)
                 /\ From[p] = IF p = Len(file) + 1 \/ file[p] = Marker \/ After(p) > Len(file) + 1 THEN <<>>
                              ELSE RecordAt(p) \o From[After(p)]
<1> DEFINE n == Len(file) + 1
           V == Seq(Write)
           F == [1 .. n -> V]
           climb == [f \in F |-> FromStep(f)]
           Ends(p) == p = n \/ file[p] = Marker \/ After(p) > n
<1>1. n \in Nat /\ Here = 1 .. n /\ << >> \in V
  BY PatchIs DEF Here
<1>2. ASSUME NEW p \in 1 .. n, ~ Ends(p)
      PROVE  After(p) \in p + 1 .. n /\ RecordAt(p) \in V
  <2>1. p \in 1 .. Len(file) /\ After(p) <= Len(file) + 1
    BY <1>1, <1>2, PatchIs
  <2> QED
    BY <2>1, RecordIs, PatchIs DEF Here
<1>3. ASSUME NEW f \in F PROVE FromStep(f) \in F /\ climb[f] = FromStep(f)
  <2>1. ASSUME NEW p \in 1 .. n, ~ Ends(p) PROVE RecordAt(p) \o f[After(p)] \in V
    <3>1. RecordAt(p) \in V /\ f[After(p)] \in V
      BY <1>2, <2>1
    <3> QED
      BY <3>1, ConcatProperties
  <2> QED
    BY <1>1, <2>1 DEF FromStep
<1>4. ASSUME NEW f \in F, NEW g \in F, NEW p \in 1 .. n, \A q \in p + 1 .. n : f[q] = g[q]
      PROVE  climb[f][p] = climb[g][p]
  <2>1. ~ Ends(p) => f[After(p)] = g[After(p)]
    BY <1>2, <1>4
  <2> QED
    BY <1>1, <1>3, <2>1 DEF FromStep
<1>5. \E f : f = FromStep(f)
  <2>1. PICK f : Climbs(f, n, V, climb)
    <3> HIDE DEF n, V, climb
    <3> QED
      BY <1>1, <1>3, <1>4, Climbing
  <2> QED
    BY <1>3, <2>1 DEF Climbs
<1>6. From = FromStep(From)
  BY <1>5, Zenon DEF From
<1>7. Said = From[1]
  BY DEF Said, From, FromStep, Here
<1>8. ASSUME NEW p \in 1 .. n
      PROVE  From[p] = IF Ends(p) THEN <<>> ELSE RecordAt(p) \o From[After(p)]
  <2>1. FromStep(From)[p] = IF Ends(p) THEN <<>> ELSE RecordAt(p) \o From[After(p)]
    BY <1>1 DEF FromStep
  <2> QED
    BY <1>6, <2>1
<1> DEFINE S == {m \in 0 .. n : \A p \in n - m + 1 .. n : From[p] \in V}
<1>9. 0 \in S
  BY <1>1
<1>10. ASSUME NEW m \in 0 .. n - 1, m \in S PROVE m + 1 \in S
  <2>1. ASSUME NEW p \in n - m .. n PROVE From[p] \in V
    <3>1. p \in 1 .. n /\ \A q \in p + 1 .. n : q \in n - m + 1 .. n
      BY <1>1
    <3>2. CASE Ends(p)
      <4> HIDE DEF Ends
      <4> QED
        BY <1>1, <1>8, <3>1, <3>2
    <3>3. CASE ~ Ends(p)
      <4>1. After(p) \in p + 1 .. n /\ RecordAt(p) \in V
        BY <1>2, <3>1, <3>3
      <4>2. From[After(p)] \in V
        BY <1>10, <3>1, <4>1
      <4>3. From[p] = RecordAt(p) \o From[After(p)]
        <5> HIDE DEF Ends
        <5> QED
          BY <1>8, <3>1, <3>3
      <4> QED
        BY <4>1, <4>2, <4>3, ConcatProperties
    <3> QED
      BY <3>2, <3>3
  <2>2. n - (m + 1) + 1 = n - m /\ m + 1 \in 0 .. n
    BY <1>1
  <2> QED
    BY <2>1, <2>2
<1>11. ASSUME NEW p \in 1 .. n PROVE From[p] \in V
  <2>1. \A m \in 0 .. n : m \in S
    <3> HIDE DEF S, n
    <3> QED
      BY <1>1, <1>9, <1>10, UpTo
  <2>2. n \in 0 .. n /\ n - n + 1 = 1
    BY <1>1
  <2> QED
    BY <2>1, <2>2
<1> QED
  BY <1>1, <1>7, <1>8, <1>11

Sound == Whole /\ file_size = Len(file)
Roms == 0 .. maxromspace - 1

(* The first c of what the patch says has been written, and no more. *)
Latest(c, x) ==
    \/ rom[x] = Original /\ \A k \in 1 .. c : Said[k].place # x
    \/ \E k \in 1 .. c : /\ Said[k].place = x /\ rom[x] = Said[k].byte
                         /\ \A j \in k + 1 .. c : Said[j].place # x

Grown ==
    /\ last \in Roms /\ (last > 0 => rom[last] # Original)
    /\ \A x \in Roms : rom[x] # Original => x <= last

Taken(c) ==
    /\ c \in 0 .. Len(Said) /\ \A k \in 1 .. c : Said[k].place < maxromspace
    /\ \A x \in Roms : Latest(c, x)
    /\ Grown

(* What comes after that is what the records from p say. *)
Left(c, p) ==
    /\ p \in Here /\ Fits[p] /\ c \in Nat
    /\ Len(Said) = c + Len(From[p]) /\ \A k \in 1 .. Len(From[p]) : Said[c + k] = From[p][k]

Opens(p) == p \in 1 .. Len(file) /\ file[p] # Marker

(* m bytes of the record at p have been put. *)
InRecord(c, p, m) ==
    /\ Left(c, p) /\ Opens(p) /\ Taken(c + m)
    /\ m \in 0 .. Size(p) /\ left = Size(p) - m /\ location = file[p] - sub + m

Phase ==
    /\ at = "record" => \E c : Left(c, processed + 1) /\ Taken(c)
    /\ at = "length" =>
         \E c : Left(c, processed) /\ Opens(processed) /\ Taken(c) /\ location = file[processed] - sub
    /\ at = "run length" =>
         \E c : /\ Left(c, processed - 1) /\ Opens(processed - 1) /\ Taken(c)
                /\ file[processed] = 0 /\ location = file[processed - 1] - sub
    /\ at = "bytes" => \E c, p, m : InRecord(c, p, m) /\ file[p + 1] # 0 /\ processed = p + 1 + m
    /\ at = "run" => \E c, p, m : InRecord(c, p, m) /\ file[p + 1] = 0 /\ processed = p + 3
                                  /\ newVal = file[p + 3]
    /\ at \in {"done", "patched"} =>
         \E c : Taken(c) /\ (c < Len(Said) => Said[c + 1].place >= maxromspace)
    /\ at = "patched" => curromspace = last + 1

PatchBase ==
    /\ GivenPatch /\ DOMAIN rom = Roms /\ processed \in Nat
    /\ at \in {"off", "record", "length", "run length", "bytes", "run", "done", "patched"}
    /\ at = "off" => processed = 0 /\ last = 0 /\ \A x \in Roms : rom[x] = Original
    /\ at # "patched" => curromspace = 1

PatchInv == PatchBase /\ (at # "off" /\ Sound => Phase)

LEMMA RomIs == maxromspace \in Nat \ {0} /\ 0 \in Roms
  BY PatchAssumption DEF PatchAssumption, Roms

LEMMA SamePatch ==
    ASSUME Same
    PROVE  /\ Said' = Said /\ From' = From /\ Fits' = Fits /\ Here' = Here /\ GivenPatch' = GivenPatch
           /\ Sound' = Sound
           /\ \A p : Size(p)' = Size(p) /\ Opens(p)' = Opens(p)
           /\ \A c, p : Left(c, p)' = Left(c, p)
<1>1. UNCHANGED <<file, file_size, sub>>
  BY DEF Same
<1>2. Said' = Said /\ From' = From /\ Fits' = Fits /\ Here' = Here
  BY <1>1 DEF Said, From, Fits, FromStep, FitsStep, RecordAt, After, Here
<1>3. GivenPatch' = GivenPatch
  BY <1>1 DEF GivenPatch
<1>4. Sound' = Sound
  BY <1>1 DEF Sound, Whole, After
<1>5. ASSUME NEW p PROVE Size(p)' = Size(p) /\ Opens(p)' = Opens(p)
  BY <1>1 DEF Size, Opens
<1>6. ASSUME NEW c, NEW p PROVE Left(c, p)' = Left(c, p)
  BY <1>1, <1>2 DEF Left
<1> QED
  BY <1>2, <1>3, <1>4, <1>5, <1>6

LEMMA SameRom ==
    ASSUME Same, UNCHANGED <<rom, last>>
    PROVE  \A c : Taken(c) => Taken(c)'
<1>1. Said' = Said
  BY SamePatch
<1> QED
  BY <1>1 DEF Taken, Latest, Grown, Roms

(* A record that begins is all there, and is what comes next. *)
LEMMA RecordBegins ==
    ASSUME GivenPatch, NEW c, NEW p, Left(c, p), Opens(p)
    PROVE  /\ After(p) <= Len(file) + 1 /\ Left(c + Size(p), After(p)) /\ Size(p) \in Nat /\ c \in Nat
           /\ \A k \in 1 .. Size(p) :
                 /\ c + k \in 1 .. Len(Said)
                 /\ Said[c + k] = [place |-> file[p] - sub + k - 1, byte |-> ByteOf(p, k)]
<1>1. p \in 1 .. Len(file) /\ p \in Here /\ p # Len(file) + 1 /\ file[p] # Marker /\ c \in Nat
  BY PatchIs DEF Opens, Left
<1>2. After(p) <= Len(file) + 1 /\ Fits[After(p)]
  BY <1>1, FitsIs DEF Left
<1>3. /\ After(p) \in Here /\ Size(p) \in Nat /\ RecordAt(p) \in Seq(Write) /\ Len(RecordAt(p)) = Size(p)
      /\ \A k \in 1 .. Size(p) :
            RecordAt(p)[k] = [place |-> file[p] - sub + k - 1, byte |-> ByteOf(p, k)]
  BY <1>1, <1>2, RecordIs
<1>4. PICK r, t, f : r = RecordAt(p) /\ t = From[After(p)] /\ f = From[p]
  OBVIOUS
<1>5. PICK s \in Nat : s = Size(p)
  BY <1>3
<1>6. f = r \o t /\ r \in Seq(Write) /\ t \in Seq(Write) /\ Len(r) = s
  <2>1. After(p) \in Nat /\ Len(file) \in Nat
    BY <1>1, PatchIs
  <2>2. ~ (After(p) > Len(file) + 1)
    BY <1>2, <2>1
  <2> QED
    BY <1>1, <1>3, <1>4, <1>5, <2>2, FromIs
<1>7. PICK u \in Nat : u = Len(t)
  BY <1>6, LenProperties
<1>8. Len(f) = s + u /\ \A y \in 1 .. s + u : f[y] = IF y <= s THEN r[y] ELSE t[y - s]
  <2>1. /\ Len(r \o t) = Len(r) + Len(t)
        /\ \A y \in 1 .. Len(r) + Len(t) : (r \o t)[y] = IF y <= Len(r) THEN r[y] ELSE t[y - Len(r)]
    BY <1>6, ConcatProperties
  <2> QED
    BY <1>6, <1>7, <2>1
<1>9. Len(Said) = c + s + u /\ \A y \in 1 .. s + u : Said[c + y] = f[y]
  BY <1>1, <1>4, <1>8 DEF Left
<1>10. ASSUME NEW k \in 1 .. s
       PROVE  /\ c + k \in 1 .. Len(Said)
              /\ Said[c + k] = [place |-> file[p] - sub + k - 1, byte |-> ByteOf(p, k)]
  <2>1. k \in 1 .. s + u /\ k <= s /\ c + k \in 1 .. c + s + u
    BY <1>1
  <2> QED
    BY <1>3, <1>4, <1>5, <1>8, <1>9, <2>1
<1>11. ASSUME NEW k \in 1 .. u PROVE Said[c + s + k] = t[k]
  <2>1. PICK y \in 1 .. s + u : y = s + k /\ ~ (y <= s) /\ y - s = k
    OBVIOUS
  <2>2. Said[c + y] = t[k]
    BY <1>8, <1>9, <2>1
  <2>3. c + y = c + s + k
    BY <1>1, <2>1
  <2> QED
    BY <2>2, <2>3
<1>12. Left(c + s, After(p))
  <2>1. c + s \in Nat /\ Len(Said) = (c + s) + u
    BY <1>1, <1>9
  <2> QED
    BY <1>2, <1>3, <1>4, <1>7, <1>11, <2>1 DEF Left
<1> QED
  BY <1>1, <1>2, <1>5, <1>10, <1>12

LEMMA NothingLeft ==
    ASSUME GivenPatch, NEW c, NEW p, Left(c, p), p = Len(file) + 1 \/ file[p] = Marker
    PROVE  ~ (c < Len(Said))
<1>1. From[p] = << >> /\ c \in Nat /\ Len(Said) = c + Len(From[p])
  BY FromIs DEF Left
<1> QED
  BY <1>1

(* A file of the size it is said to have can be read to its end. *)
LEMMA Readable ==
    ASSUME GivenPatch, file_size = Len(file), NEW q \in Nat, q + 1 \in 1 .. Len(file)
    PROVE  Available(q) /\ IPSget(q) = file[q + 1] /\ IPSget(q) \in Nat /\ ~ CutOff(IPSget(q))
<1>1. Len(file) \in Nat /\ file[q + 1] \in Nat
  BY PatchIs
<1>2. Available(q)
  BY <1>1 DEF Available
<1> QED
  BY <1>1, <1>2 DEF IPSget, CutOff

(* The next byte is put where it goes. *)
LEMMA BytePut ==
    ASSUME PatchBase, NEW c, NEW byte, Same, Taken(c), c + 1 <= Len(Said),
           Said[c + 1].place = location, Said[c + 1].byte = byte, byte # Original,
           location \in Int, ~ Outside, Put(byte)
    PROVE  Taken(c + 1)'
<1>1. Said' = Said /\ Said \in Seq(Write) /\ Len(Said) \in Nat /\ c \in 0 .. Len(Said) /\ c \in Nat
  <2>3. GivenPatch
    BY DEF PatchBase
  <2>4. Len(file) \in Nat
    BY <2>3, PatchIs
  <2>1. 1 \in Here
    BY <2>4 DEF Here
  <2>2. Said \in Seq(Write)
    BY <2>1, <2>3, FromIs
  <2> QED
    BY <2>2, SamePatch, LenProperties DEF Taken
<1>2. PICK d \in Nat : d = c + 1
  BY <1>1
<1>3. location < maxromspace /\ maxromspace \in Nat \ {0}
  BY RomIs DEF Outside
<1>4. d \in 0 .. Len(Said) /\ \A k \in 1 .. d : Said[k].place < maxromspace
  BY <1>1, <1>2, <1>3 DEF Taken
<1>5. CASE location < 0
  <2>1. rom' = rom /\ last' = last
    BY <1>5 DEF Put
  <2>2. ASSUME NEW x \in Roms PROVE Latest(d, x)'
    <3>1. Latest(c, x) /\ Said[d].place # x
      BY <1>2, <1>5 DEF Taken, Roms
    <3> QED
      BY <1>1, <1>2, <2>1, <3>1 DEF Latest
  <2>3. Grown'
    BY <2>1 DEF Taken, Grown, Roms
  <2> QED
    BY <1>1, <1>2, <1>4, <2>2, <2>3 DEF Taken, Roms
<1>6. CASE ~ (location < 0)
  <2>1. location \in Roms
    BY <1>3, <1>6 DEF Roms
  <2>2. /\ rom' = [rom EXCEPT ![location] = byte]
        /\ last' = IF location > last THEN location ELSE last
    BY <1>6 DEF Put
  <2>3. rom'[location] = byte /\ \A x \in Roms : x # location => rom'[x] = rom[x]
    BY <2>1, <2>2 DEF PatchBase
  <2>4. ASSUME NEW x \in Roms PROVE Latest(d, x)'
    <3>1. Latest(c, x)
      BY DEF Taken
    <3>2. CASE x = location
      <4>1. d \in 1 .. d /\ \A j \in d + 1 .. d : FALSE
        BY <1>1, <1>2
      <4> QED
        BY <1>1, <1>2, <2>3, <3>2, <4>1 DEF Latest
    <3>3. CASE x # location
      <4>1. Said[d].place # x /\ rom'[x] = rom[x]
        BY <1>2, <2>3, <3>3
      <4> QED
        BY <1>1, <1>2, <3>1, <4>1 DEF Latest
    <3> QED
      BY <3>2, <3>3
  <2>5. Grown'
    <3>1. last' \in Roms /\ location <= last' /\ last <= last'
      BY <2>1, <2>2 DEF Taken, Grown, Roms
    <3>2. last' > 0 => rom'[last'] # Original
      BY <2>1, <2>2, <2>3 DEF Taken, Grown
    <3>3. ASSUME NEW x \in Roms, rom'[x] # Original PROVE x <= last'
      BY <2>1, <2>3, <3>1, <3>3 DEF Taken, Grown, Roms
    <3> QED
      BY <3>1, <3>2, <3>3 DEF Grown, Roms
  <2> QED
    BY <1>1, <1>2, <1>4, <2>4, <2>5 DEF Taken, Roms
<1> QED
  BY <1>5, <1>6

LEMMA BaseKept ==
    ASSUME PatchBase, PatchStep
    PROVE  PatchBase' /\ Same /\ at # "off"
<1>1. Same /\ at # "off" /\ at' # "off"
  BY DEF PatchStep, Location, RecordLength, RunLength, Literal, Run, RecordEnds, IPSDone, Same, Finish
<1>2. GivenPatch' = GivenPatch /\ Roms' = Roms
  BY <1>1, SamePatch DEF Roms
<1>3. processed' \in Nat
  <2>1. processed \in Nat
    BY DEF PatchBase
  <2>2. processed' = processed \/ processed' = processed + 1 \/ processed' = processed + 2
        \/ processed' = processed + 0
    <3>1. ReadOne => processed' = processed + 0 \/ processed' = processed + 1
      BY DEF ReadOne, Read
    <3> HIDE DEF ReadOne
    <3> QED
      BY <3>1 DEF PatchStep, Location, RecordLength, RunLength, Literal, Run, RecordEnds, IPSDone, Read
  <2> QED
    BY <2>1, <2>2
<1>4. DOMAIN rom' = Roms
  <2>1. \A b : Put(b) => DOMAIN rom' = DOMAIN rom
    BY DEF Put
  <2> QED
    BY <2>1 DEF PatchBase, PatchStep, Location, RecordLength, RunLength, Literal, Run, RecordEnds,
                IPSDone, Finish
<1>5. /\ at' \in {"off", "record", "length", "run length", "bytes", "run", "done", "patched"}
      /\ at' # "patched" => curromspace' = 1
  BY DEF PatchBase, PatchStep, Location, RecordLength, RunLength, Literal, Run, RecordEnds, IPSDone, Finish
<1> QED
  BY <1>1, <1>2, <1>3, <1>4, <1>5 DEF PatchBase

LEMMA LocationKeeps ==
    ASSUME PatchBase, Sound, Phase, Location
    PROVE  Phase'
<1>1. Same /\ UNCHANGED <<rom, last>> /\ at = "record" /\ GivenPatch /\ processed \in Nat
  BY DEF Location, Finish, PatchBase
<1>2. PICK c : Left(c, processed + 1) /\ Taken(c)
  BY <1>1 DEF Phase
<1>3. Taken(c)' /\ Said' = Said
  BY <1>1, <1>2, SameRom, SamePatch
<1>4. Len(file) \in Nat /\ file_size = Len(file) /\ processed + 1 \in 1 .. Len(file) + 1
  BY <1>1, <1>2, PatchIs DEF Left, Here, Sound
<1>5. ASSUME ~ (c < Len(Said)), Finish PROVE Phase'
  BY <1>3, <1>5 DEF Phase, Finish
<1>6. CASE processed >= file_size
  <2>1. processed + 1 = Len(file) + 1
    BY <1>1, <1>4, <1>6
  <2> QED
    BY <1>1, <1>2, <1>5, <1>6, <2>1, NothingLeft DEF Location
<1>7. CASE ~ (processed >= file_size)
  <2>1. processed + 1 \in 1 .. Len(file)
    BY <1>1, <1>4, <1>7
  <2>2. Available(processed) /\ IPSget(processed) = file[processed + 1] /\ ~ CutOff(IPSget(processed))
    BY <1>1, <1>4, <2>1, Readable
  <2>3. processed' = processed + 1
    BY <1>7, <2>2 DEF Location, ReadOne, Read
  <2>4. CASE file[processed + 1] = Marker
    BY <1>1, <1>2, <1>5, <1>7, <2>2, <2>4, NothingLeft DEF Location
  <2>5. CASE file[processed + 1] # Marker
    <3>1. location' = file[processed + 1] - sub /\ at' = "length"
      BY <1>7, <2>2, <2>5 DEF Location
    <3>2. file' = file /\ sub' = sub
      BY <1>1 DEF Same
    <3>3. Left(c, processed)' /\ Opens(processed)'
      <4>1. PICK p : p = processed + 1
        OBVIOUS
      <4>2. Left(c, p) /\ Opens(p)
        BY <1>2, <2>1, <2>5, <4>1 DEF Opens
      <4>3. Left(c, p)' /\ Opens(p)'
        BY <1>1, <4>2, SamePatch
      <4> QED
        BY <2>3, <4>1, <4>3 DEF Left, Opens
    <3> QED
      BY <1>3, <2>3, <3>1, <3>2, <3>3 DEF Phase
  <2> QED
    BY <2>4, <2>5
<1> QED
  BY <1>6, <1>7

LEMMA RecordLengthKeeps ==
    ASSUME PatchBase, Sound, Phase, RecordLength
    PROVE  Phase'
<1>1. Same /\ UNCHANGED <<rom, last>> /\ at = "length" /\ GivenPatch /\ processed \in Nat
  BY DEF RecordLength, Finish, PatchBase
<1>2. PICK c : Left(c, processed) /\ Opens(processed) /\ Taken(c) /\ location = file[processed] - sub
  BY <1>1 DEF Phase
<1>3. PICK p \in Nat : p = processed
  BY <1>1
<1>4. /\ p \in 1 .. Len(file) /\ After(p) <= Len(file) + 1 /\ Size(p) \in Nat /\ c \in Nat
      /\ p + 1 \in 1 .. Len(file) /\ file_size = Len(file) /\ file[p] \in Nat /\ sub \in Nat
  BY <1>1, <1>2, <1>3, RecordBegins, RecordIs, PatchIs DEF Opens, Sound, GivenPatch
<1>5. Available(p) /\ IPSget(p) = file[p + 1] /\ ~ CutOff(IPSget(p))
  BY <1>1, <1>4, Readable
<1>6. /\ processed' = p + 1 /\ left' = file[p + 1] /\ location' = location
      /\ at' = IF file[p + 1] = 0 THEN "run length" ELSE "bytes"
  BY <1>1, <1>3, <1>5 DEF RecordLength, ReadOne, Read
<1>7. Taken(c)' /\ Left(c, p)' /\ Opens(p)' /\ Size(p)' = Size(p) /\ file' = file /\ sub' = sub
  BY <1>1, <1>2, <1>3, SameRom, SamePatch DEF Same
<1>8. CASE file[p + 1] = 0
  <2>1. processed' - 1 = p
    <3>1. (p + 1) - 1 = p
      OBVIOUS
    <3> QED
      BY <1>6, <3>1
  <2>2. Left(c, processed - 1)' /\ Opens(processed - 1)'
    BY <1>7, <2>1 DEF Left, Opens
  <2> QED
    BY <1>2, <1>3, <1>6, <1>7, <1>8, <2>1, <2>2 DEF Phase
<1>9. CASE file[p + 1] # 0
  <2>1. PICK m : m = 0
    OBVIOUS
  <2>2. m \in 0 .. Size(p) /\ c + m = c /\ Size(p) - m = file[p + 1] /\ location = file[p] - sub + m
        /\ processed' = p + 1 + m
    BY <1>2, <1>3, <1>4, <1>6, <1>9, <2>1 DEF Size
  <2>3. InRecord(c, p, m)'
    BY <1>6, <1>7, <2>2 DEF InRecord
  <2> QED
    BY <1>6, <1>7, <1>9, <2>2, <2>3 DEF Phase
<1> QED
  BY <1>8, <1>9

LEMMA RunLengthKeeps ==
    ASSUME PatchBase, Sound, Phase, RunLength
    PROVE  Phase'
<1>1. Same /\ UNCHANGED <<rom, last>> /\ at = "run length" /\ GivenPatch /\ processed \in Nat
  BY DEF RunLength, Finish, PatchBase
<1>2. PICK c : /\ Left(c, processed - 1) /\ Opens(processed - 1) /\ Taken(c)
               /\ file[processed] = 0 /\ location = file[processed - 1] - sub
  BY <1>1 DEF Phase
<1>3. PICK p \in Nat : processed = p + 1
  <2>1. PICK n \in Nat : n = processed
    BY <1>1
  <2>2. Len(file) \in Nat /\ n - 1 \in 1 .. Len(file)
    BY <1>1, <1>2, <2>1, PatchIs DEF Opens
  <2>3. n - 1 \in Nat /\ n = (n - 1) + 1
    BY <2>2
  <2> QED
    BY <2>1, <2>3
<1>4. p = processed - 1
  BY <1>3
<1>5. /\ p \in 1 .. Len(file) /\ After(p) <= Len(file) + 1 /\ Size(p) \in Nat /\ c \in Nat
      /\ file[p + 1] = 0 /\ file_size = Len(file) /\ file[p] \in Nat /\ sub \in Nat
  BY <1>1, <1>2, <1>3, <1>4, RecordBegins, PatchIs DEF Opens, Sound, GivenPatch
<1>6. p + 2 \in 1 .. Len(file) /\ p + 3 \in 1 .. Len(file)
  BY <1>1, <1>5, RecordIs
<1>7. /\ Available(p + 1) /\ IPSget(p + 1) = file[p + 2] /\ ~ CutOff(IPSget(p + 1))
      /\ Available(p + 2) /\ IPSget(p + 2) = file[p + 3]
  <2>1. ASSUME NEW q \in Nat, q + 1 \in 1 .. Len(file)
        PROVE  Available(q) /\ IPSget(q) = file[q + 1] /\ ~ CutOff(IPSget(q))
    BY <1>1, <1>5, <2>1, Readable
  <2>2. PICK a, b \in Nat : a = p + 1 /\ b = p + 2
    BY <1>3
  <2>3. a + 1 = p + 2 /\ b + 1 = p + 3
    BY <1>3, <2>2
  <2>4. a + 1 \in 1 .. Len(file) /\ b + 1 \in 1 .. Len(file)
    BY <1>6, <2>3
  <2> QED
    BY <2>1, <2>2, <2>3, <2>4
<1>8. /\ processed' = p + 3 /\ left' = file[p + 2] /\ location' = location
      /\ newVal' = file[p + 3] /\ at' = "run"
  <2>1. processed + 1 = p + 2 /\ processed + 2 = p + 3
    BY <1>3
  <2> QED
    BY <1>3, <1>7, <2>1 DEF RunLength, Read
<1>9. Taken(c)' /\ Left(c, p)' /\ Opens(p)' /\ Size(p)' = Size(p) /\ file' = file /\ sub' = sub
  BY <1>1, <1>2, <1>4, SameRom, SamePatch DEF Same
<1>10. PICK m : m = 0
  OBVIOUS
<1>11. m \in 0 .. Size(p) /\ c + m = c /\ Size(p) - m = file[p + 2] /\ location = file[p] - sub + m
  BY <1>2, <1>4, <1>5, <1>10 DEF Size
<1>12. InRecord(c, p, m)'
  BY <1>8, <1>9, <1>11 DEF InRecord
<1> QED
  BY <1>5, <1>8, <1>9, <1>12 DEF Phase

(* A byte of a record: which of what the patch says it is. *)
LEMMA NextByte ==
    ASSUME GivenPatch, NEW c, NEW p, NEW m, InRecord(c, p, m), left > 0
    PROVE  /\ m \in Nat /\ c \in Nat /\ p \in Nat /\ location \in Int
           /\ c + m + 1 <= Len(Said) /\ c + m < Len(Said)
           /\ Said[c + m + 1].place = location /\ Said[c + m + 1].byte = ByteOf(p, m + 1)
           /\ ByteOf(p, m + 1) # Original /\ m + 1 \in 0 .. Size(p) /\ left - 1 = Size(p) - (m + 1)
           /\ location + 1 = file[p] - sub + (m + 1)
           /\ file[p + 1] # 0 => p + 1 + m + 1 \in 1 .. Len(file)
<1>1. Left(c, p) /\ Opens(p) /\ left = Size(p) - m /\ location = file[p] - sub + m /\ m \in 0 .. Size(p)
  BY DEF InRecord
<1>2. Size(p) \in Nat /\ c \in Nat /\ p \in 1 .. Len(file) /\ After(p) <= Len(file) + 1
  BY <1>1, RecordBegins DEF Opens
<1>3. m \in Nat /\ file[p] \in Nat /\ sub \in Nat /\ p \in Nat
  BY <1>1, <1>2, PatchIs DEF GivenPatch
<1>4. PICK k \in 1 .. Size(p) : k = m + 1
  BY <1>1, <1>2, <1>3
<1>5. /\ c + k \in 1 .. Len(Said)
      /\ Said[c + k] = [place |-> file[p] - sub + k - 1, byte |-> ByteOf(p, k)]
  BY <1>1, RecordBegins
<1>6. ByteOf(p, k) # Original /\ (file[p + 1] # 0 => p + 1 + k \in 1 .. Len(file))
  BY <1>2, RecordIs
<1>7. file[p] - sub + k - 1 = location
  BY <1>1, <1>3, <1>4
<1>8. c + k = c + m + 1 /\ p + 1 + k = p + 1 + m + 1
  BY <1>2, <1>3, <1>4
<1>9. c + m + 1 <= Len(Said) /\ c + m < Len(Said)
  <2>1. Len(Said) = c + Len(From[p]) /\ Len(From[p]) \in Nat
    BY <1>1, FromIs, LenProperties DEF Left
  <2>2. PICK l \in Nat : l = Len(Said)
    BY <1>2, <2>1
  <2>3. PICK a \in Nat : a = c + m
    BY <1>2, <1>3
  <2>4. a + 1 \in 1 .. l
    BY <1>5, <1>8, <2>2, <2>3
  <2>5. a + 1 <= l
    BY <2>4
  <2>6. a < l
    BY <2>5
  <2> QED
    BY <2>2, <2>3, <2>5, <2>6
<1>10. left - 1 = Size(p) - (m + 1)
  BY <1>1, <1>2, <1>3
<1>11. location \in Int /\ location + 1 = file[p] - sub + (m + 1)
  BY <1>1, <1>3
<1>12. Said[c + m + 1].place = location /\ Said[c + m + 1].byte = ByteOf(p, m + 1)
  BY <1>4, <1>5, <1>7, <1>8
<1>13. ByteOf(p, m + 1) # Original /\ (file[p + 1] # 0 => p + 1 + m + 1 \in 1 .. Len(file))
  BY <1>4, <1>6, <1>8
<1>14. m + 1 \in 0 .. Size(p)
  BY <1>2, <1>4
<1>15. m \in Nat /\ c \in Nat /\ p \in Nat
  BY <1>2, <1>3
<1> QED
  BY <1>9, <1>10, <1>11, <1>12, <1>13, <1>14, <1>15, Zenon

LEMMA LiteralKeeps ==
    ASSUME PatchBase, Sound, Phase, Literal
    PROVE  Phase'
<1>1. Same /\ at = "bytes" /\ GivenPatch /\ left > 0
  BY DEF Literal, PatchBase
<1>2. PICK c, p, m : InRecord(c, p, m) /\ file[p + 1] # 0 /\ processed = p + 1 + m
  BY <1>1 DEF Phase
<1>3. /\ m \in Nat /\ c \in Nat /\ p \in Nat /\ location \in Int
      /\ c + m + 1 <= Len(Said) /\ c + m < Len(Said)
      /\ Said[c + m + 1].place = location /\ Said[c + m + 1].byte = ByteOf(p, m + 1)
      /\ ByteOf(p, m + 1) # Original /\ m + 1 \in 0 .. Size(p) /\ left - 1 = Size(p) - (m + 1)
      /\ location + 1 = file[p] - sub + (m + 1) /\ processed + 1 \in 1 .. Len(file)
  BY <1>1, <1>2, NextByte
<1>4. /\ Left(c, p)' /\ Opens(p)' /\ Size(p)' = Size(p) /\ file' = file /\ sub' = sub /\ Said' = Said
  BY <1>1, <1>2, SamePatch DEF Same, InRecord
<1>5. CASE Outside
  <2>1. /\ UNCHANGED <<rom, last>> /\ at' = "done"
    BY <1>5 DEF Literal, Finish
  <2>2. Taken(c + m)'
    BY <1>1, <1>2, <2>1, SameRom DEF InRecord
  <2> QED
    BY <1>3, <1>4, <1>5, <2>1, <2>2 DEF Phase, Outside
<1>6. CASE ~ Outside
  <2>1. file_size = Len(file) /\ processed \in Nat
    BY DEF Sound, PatchBase
  <2>2. Available(processed) /\ IPSget(processed) = file[processed + 1]
    BY <1>1, <1>3, <2>1, Readable
  <2>3. ByteOf(p, m + 1) = file[processed + 1]
    <3>1. p + 1 + (m + 1) = processed + 1
      BY <1>2, <1>3
    <3> QED
      BY <1>2, <3>1 DEF ByteOf
  <2>4. /\ Put(ByteOf(p, m + 1)) /\ processed' = processed + 1 /\ location' = location + 1
        /\ left' = left - 1 /\ at' = "bytes"
    BY <1>1, <1>6, <2>2, <2>3 DEF Literal, ReadOne, Read
  <2>5. PICK l : l = c + m
    OBVIOUS
  <2>6. Taken(l + 1)'
    BY <1>1, <1>2, <1>3, <1>6, <2>4, <2>5, BytePut DEF InRecord
  <2>7. PICK k : k = m + 1
    OBVIOUS
  <2>8. l + 1 = c + k /\ processed' = p + 1 + k
    <3>1. l + 1 = c + k
      BY <1>3, <2>5, <2>7
    <3>2. processed' = p + 1 + k
      <4>1. (p + 1 + m) + 1 = p + 1 + (m + 1)
        BY ONLY <1>3
      <4> QED
        BY <1>2, <2>4, <2>7, <4>1
    <3> QED
      BY <3>1, <3>2
  <2>9. InRecord(c, p, k)'
    BY <1>3, <1>4, <2>4, <2>6, <2>7, <2>8 DEF InRecord
  <2> QED
    BY <1>2, <1>4, <2>4, <2>8, <2>9 DEF Phase
<1> QED
  BY <1>5, <1>6

LEMMA RunKeeps ==
    ASSUME PatchBase, Sound, Phase, Run
    PROVE  Phase'
<1>1. Same /\ at = "run" /\ GivenPatch /\ left > 0 /\ processed' = processed
  BY DEF Run, PatchBase
<1>2. PICK c, p, m : InRecord(c, p, m) /\ file[p + 1] = 0 /\ processed = p + 3 /\ newVal = file[p + 3]
  BY <1>1 DEF Phase
<1>3. /\ m \in Nat /\ c \in Nat /\ p \in Nat /\ location \in Int
      /\ c + m + 1 <= Len(Said) /\ c + m < Len(Said)
      /\ Said[c + m + 1].place = location /\ Said[c + m + 1].byte = ByteOf(p, m + 1)
      /\ ByteOf(p, m + 1) # Original /\ m + 1 \in 0 .. Size(p) /\ left - 1 = Size(p) - (m + 1)
      /\ location + 1 = file[p] - sub + (m + 1)
  BY <1>1, <1>2, NextByte
<1>4. /\ Left(c, p)' /\ Opens(p)' /\ Size(p)' = Size(p) /\ file' = file /\ sub' = sub /\ Said' = Said
  BY <1>1, <1>2, SamePatch DEF Same, InRecord
<1>5. CASE Outside
  <2>1. /\ UNCHANGED <<rom, last>> /\ at' = "done"
    BY <1>5 DEF Run, Finish
  <2>2. Taken(c + m)'
    BY <1>1, <1>2, <2>1, SameRom DEF InRecord
  <2> QED
    BY <1>3, <1>4, <1>5, <2>1, <2>2 DEF Phase, Outside
<1>6. CASE ~ Outside
  <2>1. newVal = ByteOf(p, m + 1)
    BY <1>2 DEF ByteOf
  <2>2. /\ Put(ByteOf(p, m + 1)) /\ location' = location + 1 /\ left' = left - 1
        /\ at' = "run" /\ newVal' = newVal
    BY <1>1, <1>6, <2>1 DEF Run
  <2>5. PICK l : l = c + m
    OBVIOUS
  <2>6. Taken(l + 1)'
    BY <1>1, <1>2, <1>3, <1>6, <2>2, <2>5, BytePut DEF InRecord
  <2>7. PICK k : k = m + 1
    OBVIOUS
  <2>8. l + 1 = c + k
    BY <1>3, <2>5, <2>7
  <2>9. InRecord(c, p, k)'
    BY <1>3, <1>4, <2>2, <2>6, <2>7, <2>8 DEF InRecord
  <2> QED
    BY <1>1, <1>2, <1>4, <2>2, <2>9 DEF Phase
<1> QED
  BY <1>5, <1>6

LEMMA RecordEndsKeeps ==
    ASSUME PatchBase, Sound, Phase, RecordEnds
    PROVE  Phase'
<1>1. /\ Same /\ UNCHANGED <<rom, last, processed>> /\ at \in {"bytes", "run"} /\ GivenPatch
      /\ left <= 0 /\ at' = "record"
  BY DEF RecordEnds, PatchBase, Same
<1>2. PICK c, p, m : /\ InRecord(c, p, m)
                     /\ \/ file[p + 1] # 0 /\ processed = p + 1 + m
                        \/ file[p + 1] = 0 /\ processed = p + 3
  <2>1. CASE at = "bytes"
    <3>1. \E c, p, m : InRecord(c, p, m) /\ file[p + 1] # 0 /\ processed = p + 1 + m
      BY <2>1 DEF Phase
    <3> QED
      BY <3>1
  <2>2. CASE at = "run"
    <3>1. \E c, p, m : InRecord(c, p, m) /\ file[p + 1] = 0 /\ processed = p + 3
      BY <2>2 DEF Phase
    <3> QED
      BY <3>1
  <2> QED
    BY <1>1, <2>1, <2>2
<1>3. Left(c, p) /\ Opens(p) /\ Taken(c + m) /\ m \in 0 .. Size(p) /\ left = Size(p) - m
  BY <1>2 DEF InRecord
<1>4. p \in 1 .. Len(file) /\ After(p) <= Len(file) + 1 /\ Left(c + Size(p), After(p)) /\ Size(p) \in Nat
  BY <1>1, <1>3, RecordBegins DEF Opens
<1>5. m = Size(p) /\ p \in Nat
  BY <1>1, <1>3, <1>4, PatchIs
<1>6. processed + 1 = After(p)
  <2>1. (file[p + 1] # 0 => After(p) = p + 2 + Size(p)) /\ (file[p + 1] = 0 => After(p) = p + 4)
    BY <1>1, <1>4, RecordIs
  <2>2. CASE file[p + 1] # 0
    BY <1>2, <1>4, <1>5, <2>1, <2>2
  <2>3. CASE file[p + 1] = 0
    BY <1>2, <1>5, <2>1, <2>3
  <2> QED
    BY <2>2, <2>3
<1>7. PICK l : l = c + m
  OBVIOUS
<1>8. Left(l, processed + 1) /\ Taken(l)
  BY <1>3, <1>4, <1>5, <1>6, <1>7
<1>9. Left(l, processed + 1)' /\ Taken(l)'
  <2>1. PICK q : q = processed + 1
    OBVIOUS
  <2>2. Left(l, q)' /\ Taken(l)'
    BY <1>1, <1>8, <2>1, SamePatch, SameRom
  <2> QED
    BY <1>1, <2>1, <2>2 DEF Left
<1> QED
  BY <1>1, <1>9 DEF Phase

LEMMA IPSDoneKeeps ==
    ASSUME PatchBase, Sound, Phase, IPSDone
    PROVE  Phase'
<1>1. /\ Same /\ UNCHANGED <<rom, last>> /\ at = "done" /\ at' = "patched" /\ curromspace = 1
      /\ curromspace' = Adjusted
  BY DEF IPSDone, PatchBase, Same
<1>2. PICK c : Taken(c) /\ (c < Len(Said) => Said[c + 1].place >= maxromspace)
  BY <1>1 DEF Phase
<1>3. last \in Nat
  BY <1>2, RomIs DEF Taken, Grown, Roms
<1>4. curromspace' = last + 1
  BY <1>1, <1>3 DEF Adjusted
<1> QED
  BY <1>1, <1>2, <1>4, SamePatch, SameRom DEF Phase

FirstIs ==
    GivenPatch => 1 \in Here /\ Said = From[1] /\ (Whole <=> Fits[1]) /\ From[1] \in Seq(Write)

LEMMA FirstRecord == FirstIs
<1>1. SUFFICES ASSUME GivenPatch
               PROVE  1 \in Here /\ Said = From[1] /\ (Whole <=> Fits[1]) /\ From[1] \in Seq(Write)
  BY DEF FirstIs
<1>2. Len(file) \in Nat
  BY <1>1, PatchIs
<1>3. 1 \in Here
  BY <1>2 DEF Here
<1> QED
  BY <1>1, <1>3, FromIs, FitsIs

LEMMA PatchBegins ==
    ASSUME PatchBase, PatchUsingIPS
    PROVE  PatchInv'
<1>1. /\ at = "off" /\ at' = "record" /\ processed' = 0 /\ last' = 0 /\ curromspace' = 1
      /\ rom' = rom /\ DOMAIN rom = Roms /\ \A x \in Roms : rom[x] = Original
  BY DEF PatchUsingIPS, PatchBase
<1>2. GivenPatch'
  BY PatchAssumption DEF PatchUsingIPS, PatchAssumption, GivenPatch
<1>3. PatchBase'
  BY <1>1, <1>2 DEF PatchBase, Roms
<1>4. ASSUME Sound' PROVE Phase'
  <2>1. (1 \in Here)' /\ Said' = From'[1] /\ Fits'[1] /\ From'[1] \in Seq(Write)
    <3>1. FirstIs'
      BY FirstRecord, PTL
    <3> QED
      BY <1>2, <1>4, <3>1 DEF FirstIs, Sound, Write
  <2>2. Len(From'[1]) \in Nat
    BY <2>1, LenProperties
  <2>3. Left(0, 1)'
    <3>1. 0 + Len(From'[1]) = Len(From'[1]) /\ \A k \in 1 .. Len(From'[1]) : 0 + k = k
      BY <2>2
    <3> QED
      BY <1>4, <2>1, <3>1 DEF Left, Sound
  <2>4. Taken(0)'
    <3>1. 0 \in 0 .. Len(Said') /\ \A x : ~ (x \in 1 .. 0)
      BY <2>1, <2>2
    <3>2. Grown'
      BY <1>1, RomIs DEF Grown, Roms
    <3> QED
      BY <1>1, <3>1, <3>2 DEF Taken, Latest, Roms
  <2>5. \E c : Left(c, processed + 1)' /\ Taken(c)'
    <3>1. processed' + 1 = 1
      BY <1>1
    <3>2. Left(0, processed + 1)'
      BY <2>3, <3>1 DEF Left
    <3> QED
      BY <2>4, <3>2
  <2> QED
    BY <1>1, <2>5 DEF Phase
<1> QED
  BY <1>3, <1>4 DEF PatchInv

LEMMA PatchInvKept ==
    ASSUME PatchInv, [PatchNext]_patchVars
    PROVE  PatchInv'
<1>1. CASE PatchUsingIPS
  BY <1>1, PatchBegins DEF PatchInv
<1>2. CASE PatchStep
  <2>1. PatchBase' /\ Same /\ at # "off"
    BY <1>2, BaseKept DEF PatchInv
  <2>2. Sound' = Sound
    BY <2>1, SamePatch
  <2>3. ASSUME Sound PROVE Phase'
    <3>1. PatchBase /\ Phase
      BY <2>1, <2>3 DEF PatchInv
    <3> QED
      BY <1>2, <2>3, <3>1, LocationKeeps, RecordLengthKeeps, RunLengthKeeps, LiteralKeeps, RunKeeps,
         RecordEndsKeeps, IPSDoneKeeps DEF PatchStep
  <2> QED
    BY <2>1, <2>2, <2>3 DEF PatchInv
<1>3. CASE UNCHANGED patchVars
  <2>1. UNCHANGED <<file, file_size, sub, processed, at, location, left, newVal, rom, last, curromspace>>
    BY <1>3 DEF patchVars
  <2>2. Same
    BY <2>1 DEF Same
  <2>3. PatchBase'
    BY <2>1, <2>2, SamePatch DEF PatchInv, PatchBase, Roms
  <2>4. Sound' = Sound /\ at' = at /\ Said' = Said
    BY <2>1, <2>2, SamePatch
  <2>5. ASSUME Phase PROVE Phase'
    <3>1. \A c : Taken(c) => Taken(c)'
      BY <2>1, <2>2, SameRom
    <3>2. \A c : Left(c, processed + 1)' = Left(c, processed + 1)
      BY <2>1, <2>4 DEF Left, Here, From, Fits, FromStep, FitsStep, RecordAt, After
    <3>3. \A c : Left(c, processed)' = Left(c, processed) /\ Left(c, processed - 1)' = Left(c, processed - 1)
      BY <2>1, <2>4 DEF Left, Here, From, Fits, FromStep, FitsStep, RecordAt, After
    <3>4. Opens(processed)' = Opens(processed) /\ Opens(processed - 1)' = Opens(processed - 1)
      BY <2>1 DEF Opens
    <3>5. \A c, p, m : InRecord(c, p, m) => InRecord(c, p, m)'
      BY <2>1, <2>2, <3>1, SamePatch DEF InRecord
    <3> QED
      BY <2>1, <2>4, <2>5, <3>1, <3>2, <3>3, <3>4, <3>5 DEF Phase
  <2> QED
    BY <2>3, <2>4, <2>5 DEF PatchInv
<1> QED
  BY <1>1, <1>2, <1>3 DEF PatchNext

LEMMA PatchInvIs ==
    ASSUME PatchInv
    PROVE  PatchedAsSaid
<1>1. SUFFICES ASSUME at = "patched", Whole, file_size = Len(file)
               PROVE  /\ \A x \in DOMAIN rom : rom[x] = AsSaid(x)
                      /\ \A x \in 1 .. maxromspace :
                            x < curromspace <=> \E y \in DOMAIN rom : y >= x /\ AsSaid(y) # Original
  BY DEF PatchedAsSaid
<1>2. /\ GivenPatch /\ DOMAIN rom = Roms /\ Phase
  BY <1>1 DEF PatchInv, PatchBase, Sound
<1>3. PICK c : Taken(c) /\ (c < Len(Said) => Said[c + 1].place >= maxromspace)
  BY <1>1, <1>2 DEF Phase
<1>4. curromspace = last + 1 /\ last \in Nat /\ maxromspace \in Nat
  BY <1>1, <1>2, <1>3, RomIs DEF Phase, Taken, Grown, Roms
<1>5. /\ Len(Said) \in Nat /\ DOMAIN Said = 1 .. Len(Said) /\ c \in 0 .. Len(Said)
      /\ \A k \in DOMAIN Said : Said[k].place \in Int
      /\ \A k \in DOMAIN Said : Said[k].byte # Original
  <2>1. 1 \in Here
    <3>1. Len(file) \in Nat
      BY <1>2, PatchIs
    <3> QED
      BY <3>1 DEF Here
  <2>2. Said \in Seq(Write)
    BY <1>2, <2>1, FromIs
  <2>3. Len(Said) \in Nat /\ DOMAIN Said = 1 .. Len(Said)
    BY <2>2, LenProperties
  <2>4. \A k \in DOMAIN Said : Said[k] \in Write
    BY <2>2, <2>3, ElementOfSeq
  <2> QED
    BY <1>3, <2>3, <2>4 DEF Taken, Write
<1>6. ASSUME NEW k \in DOMAIN Said PROVE Counts(k) <=> k <= c
  <2>1. CASE k <= c
    <3>1. \A j \in 1 .. k : j \in 1 .. c
      BY <1>5, <2>1
    <3> QED
      BY <1>3, <2>1, <3>1 DEF Counts, Taken
  <2>2. CASE ~ (k <= c)
    <3>1. c + 1 \in 1 .. k /\ c < Len(Said) /\ c + 1 \in DOMAIN Said
      BY <1>5, <2>2
    <3>2. ~ (Said[c + 1].place < maxromspace)
      BY <1>3, <1>4, <1>5, <3>1
    <3> QED
      BY <2>2, <3>1, <3>2 DEF Counts
  <2> QED
    BY <2>1, <2>2
<1>7. ASSUME NEW x \in Roms PROVE rom[x] = AsSaid(x)
  <2> DEFINE writes == {k \in DOMAIN Said : Said[k].place = x /\ Counts(k)}
  <2>1. AsSaid(x) = IF writes = {} THEN Original
                    ELSE Said[CHOOSE k \in writes : \A j \in writes : j <= k].byte
    BY DEF AsSaid
  <2>2. writes = {k \in 1 .. c : Said[k].place = x}
    <3>1. \A k : k \in 1 .. c <=> k \in DOMAIN Said /\ k <= c
      BY <1>5
    <3> QED
      BY <1>6, <3>1
  <2> HIDE DEF writes
  <2>3. CASE rom[x] = Original /\ \A k \in 1 .. c : Said[k].place # x
    BY <2>1, <2>2, <2>3
  <2>4. ASSUME NEW k \in 1 .. c, Said[k].place = x, rom[x] = Said[k].byte,
               \A j \in k + 1 .. c : Said[j].place # x
        PROVE  rom[x] = AsSaid(x)
    <3>1. k \in writes /\ \A j \in writes : j \in 1 .. c /\ j <= k
      BY <1>5, <2>2, <2>4
    <3>2. \A i \in writes : (\A j \in writes : j <= i) => i = k
      BY <1>5, <3>1
    <3>3. (CHOOSE i \in writes : \A j \in writes : j <= i) = k
      BY <3>1, <3>2
    <3> QED
      BY <2>1, <2>4, <3>1, <3>3
  <2> QED
    BY <1>3, <2>3, <2>4 DEF Taken, Latest
<1>8. ASSUME NEW x \in 1 .. maxromspace
      PROVE  x < curromspace <=> \E y \in DOMAIN rom : y >= x /\ AsSaid(y) # Original
  <2>1. x < curromspace <=> x <= last
    BY <1>4
  <2>2. ASSUME x <= last PROVE last \in Roms /\ last >= x /\ AsSaid(last) # Original
    BY <1>3, <1>4, <1>7, <2>2 DEF Taken, Grown
  <2>3. ASSUME NEW y \in Roms, y >= x, AsSaid(y) # Original PROVE x <= last
    <3>1. y <= last
      BY <1>3, <1>7, <2>3 DEF Taken, Grown
    <3> QED
      BY <1>4, <2>3, <3>1 DEF Roms
  <2> QED
    BY <1>2, <2>1, <2>2, <2>3
<1> QED
  BY <1>2, <1>7, <1>8

(* Whatever a patch says, if all of it is there then PatchUsingIPS (patch.c) *)
(* leaves the ROM as its records say, with the size they make it.            *)
THEOREM PatchesAreApplied == PatchSpec => []PatchedAsSaid
<1>1. PatchInit => PatchInv
  <2>1. SUFFICES ASSUME PatchInit PROVE PatchInv
    OBVIOUS
  <2>2. GivenPatch
    BY <2>1 DEF PatchInit, GivenPatch
  <2>3. DOMAIN rom = Roms /\ \A x \in Roms : rom[x] = Original
    BY <2>1 DEF PatchInit, Roms
  <2> QED
    BY <2>1, <2>2, <2>3 DEF PatchInit, PatchInv, PatchBase
<1> QED
  BY <1>1, PatchInvKept, PatchInvIs, PTL DEF PatchSpec

-----------------------------------------------------------------------------
(* The MSU-1.  What makes its promises inductive: the position counts whole *)
(* pairs and so do the places it is set to (EvenPlaces), the buffer holds    *)
(* what the file it was read from says (BufferIsTrack), and every position   *)
(* remembered is known to belong to one track (Owners).                      *)

Even(n) == \E k \in Nat : n = 2 * k

Registers ==
    /\ MSU_Track \in TrackBytes \X TrackBytes
    /\ status \in [error : BOOLEAN, play : BOOLEAN, loop : BOOLEAN]
    /\ Rate_Add \in 0 .. Rate - 1 /\ heard \in BOOLEAN

EvenPlaces ==
    /\ Even(Track_Position) /\ Even(Resume_Position)
    /\ \A s \in saved : Even(s.pos) /\ s.status \in [error : BOOLEAN, play : BOOLEAN, loop : BOOLEAN]

BufferIsTrack ==
    IF inMemory = NoTrack THEN Track_Length = 0 /\ Loop_Point \in Nat
    ELSE /\ inMemory \in DOMAIN Tracks
         /\ Track_Length = LengthOf(inMemory) /\ Loop_Point = LoopOf(inMemory)

Owners ==
    /\ Resume_Track \in (TrackBytes \X TrackBytes) \cup {NoTrack}
    /\ Resume_Track # NoTrack => suspended \in {NoTrack, Resume_Track}
    /\ inMemory # NoTrack => owner \in {NoTrack, inMemory}
    /\ inMemory = NoTrack => owner = NoTrack \/ status.error

MsuInv == Registers /\ EvenPlaces /\ BufferIsTrack

LEMMA NotATrack == NoTrack \notin TrackBytes \X TrackBytes
BY DEF NoTrack

LEMMA EvenSums == \A m, n : Even(m) /\ Even(n) => Even(m + n)
<1> SUFFICES ASSUME NEW m, NEW n, Even(m), Even(n) PROVE Even(m + n)
  OBVIOUS
<1>1. PICK i \in Nat : m = 2 * i
  BY DEF Even
<1>2. PICK j \in Nat : n = 2 * j
  BY DEF Even
<1>3. m + n = 2 * (i + j) /\ i + j \in Nat
  BY <1>1, <1>2
<1> QED
  BY <1>3 DEF Even

LEMMA StatusOf ==
    \A a, b, c \in BOOLEAN :
        [error |-> a, play |-> b, loop |-> c] \in [error : BOOLEAN, play : BOOLEAN, loop : BOOLEAN]
OBVIOUS

LEMMA Quotient == \A m \in Nat, n \in Nat \ {0} : m \div n \in Nat
OBVIOUS

LEMMA EvenNat == \A n : Even(n) => n \in Nat
BY DEF Even

LEMMA EvenZero == Even(0)
<1>1. 0 = 2 * 0 /\ 0 \in Nat
  OBVIOUS
<1> QED
  BY <1>1 DEF Even

(* What is read of a file: whole pairs of it, and a loop point in it. *)
LEMMA TrackFacts ==
    ASSUME NEW t \in DOMAIN Tracks
    PROVE  /\ LengthOf(t) \in Nat /\ Even(LengthOf(t))
           /\ LengthOf(t) <= Tracks[t].samples
           /\ LoopOf(t) \in Nat /\ 2 * LoopOf(t) <= LengthOf(t)
           /\ 2 * LoopOf(t) = LengthOf(t) => LengthOf(t) = 0 \/ Tracks[t].loop = LengthOf(t) \div 2
<1> DEFINE s == Tracks[t].samples
           h == s \div 2
<1>1. s \in Nat /\ Tracks[t].loop \in Int
  BY MsuAssumption
<1>2. h \in Nat /\ 2 * h <= s
  BY <1>1
<1>3. LengthOf(t) = 2 * h
  BY DEF LengthOf
<1>4. LengthOf(t) \div 2 = h
  BY <1>2, <1>3
<1> HIDE DEF h
<1>5. LoopOf(t) = IF Tracks[t].loop < 0 \/ Tracks[t].loop > h THEN 0 ELSE Tracks[t].loop
  BY <1>4 DEF LoopOf
<1>6. LoopOf(t) \in Nat /\ LoopOf(t) <= h
  BY <1>1, <1>2, <1>5
<1>7. Even(LengthOf(t))
  BY <1>2, <1>3 DEF Even
<1>8. 2 * LoopOf(t) = LengthOf(t) => LengthOf(t) = 0 \/ Tracks[t].loop = h
  BY <1>1, <1>2, <1>3, <1>5
<1> QED
  BY <1>1, <1>2, <1>3, <1>4, <1>6, <1>7, <1>8

LEMMA LoopIsNat == BufferIsTrack => Loop_Point \in Nat
BY TrackFacts DEF BufferIsTrack

(* The mixer goes on by whole pairs. *)
LEMMA AdvancedEven == ASSUME MsuInv PROVE Even(Advanced)
<1>1. (Rate_Add + Step) \div Rate \in Nat
  <2>1. Rate_Add + Step \in Nat /\ Rate \in Nat \ {0}
    BY MsuAssumption DEF MsuInv, Registers
  <2> QED
    BY <2>1, Quotient
<1>2. Even(2 * ((Rate_Add + Step) \div Rate))
  BY <1>1 DEF Even
<1> QED
  BY <1>2, EvenSums DEF Advanced, MsuInv, EvenPlaces

LEMMA MsuInvInit == ASSUME MsuInit PROVE MsuInv /\ Owners
<1>1. Registers
  BY MsuAssumption DEF MsuInit, Registers
<1> QED
  BY <1>1, EvenZero DEF MsuInit, MsuInv, EvenPlaces, BufferIsTrack, Owners

LEMMA TrackWritten ==
    ASSUME NEW b \in TrackBytes, Registers, NEW i \in {1, 2}
    PROVE  [MSU_Track EXCEPT ![i] = b] \in TrackBytes \X TrackBytes
BY DEF Registers

LEMMA ChangeTrackKeeps ==
    ASSUME MsuInv, ChangeTrack(MSU_Track'), MSU_Track' \in TrackBytes \X TrackBytes,
           heard' = TRUE, UNCHANGED saved
    PROVE  MsuInv'
<1>1. Registers'
  <2>1. Rate_Add' \in 0 .. Rate - 1
    BY MsuAssumption DEF ChangeTrack
  <2>2. status' \in [error : BOOLEAN, play : BOOLEAN, loop : BOOLEAN]
    <3>1. \/ status' = [error |-> FALSE, play |-> FALSE, loop |-> FALSE]
          \/ status' = [error |-> TRUE, play |-> FALSE, loop |-> FALSE]
      BY Zenon DEF ChangeTrack
    <3> QED
      BY <3>1, StatusOf
  <2> QED
    BY <2>1, <2>2 DEF Registers
<1>2. Even(Track_Position') /\ Even(Resume_Position')
  BY EvenZero DEF ChangeTrack, MsuInv, EvenPlaces, resumeVars
<1>3. EvenPlaces'
  BY <1>2 DEF MsuInv, EvenPlaces
<1>4. BufferIsTrack'
  <2>1. CASE MSU_Track' \in DOMAIN Tracks
    <3>1. MSU_Track' # NoTrack
      BY NotATrack
    <3> QED
      BY <2>1, <3>1 DEF ChangeTrack, BufferIsTrack, LengthOf, LoopOf
  <2>2. CASE MSU_Track' \notin DOMAIN Tracks
    <3>1. Loop_Point \in Nat
      BY LoopIsNat DEF MsuInv
    <3> QED
      BY <2>2, <3>1 DEF ChangeTrack, BufferIsTrack
  <2> QED
    BY <2>1, <2>2
<1> QED
  BY <1>1, <1>3, <1>4 DEF MsuInv

LEMMA MsuInvNext == ASSUME MsuInv, [MsuNext]_msuVars PROVE MsuInv'
<1> USE DEF MsuInv
<1>1. CASE msu1track0
  <2>1. MSU_Track' \in TrackBytes \X TrackBytes
    BY <1>1, TrackWritten DEF msu1track0
  <2> QED
    BY <1>1, <2>1 DEF msu1track0, trackVars, resumeVars, Registers, EvenPlaces, BufferIsTrack, LengthOf, LoopOf
<1>2. CASE msu1track1
  <2>1. MSU_Track' \in TrackBytes \X TrackBytes
    BY <1>2, TrackWritten DEF msu1track1
  <2> QED
    BY <1>2, <2>1, ChangeTrackKeeps DEF msu1track1
<1>3. CASE msu1statecontrol
  <2>1. status' \in [error : BOOLEAN, play : BOOLEAN, loop : BOOLEAN]
    <3>1. CASE status.error
      BY <1>3, <3>1 DEF msu1statecontrol, Registers
    <3>2. CASE ~status.error
      <4>1. PICK control \in SUBSET {"play", "loop", "resume"} :
              status' = [error |-> FALSE, play |-> "play" \in control, loop |-> "loop" \in control]
        BY <1>3, <3>2, Zenon DEF msu1statecontrol
      <4> QED
        BY <4>1, StatusOf, SMT
    <3> QED
      BY <3>1, <3>2
  <2>2. Registers'
    BY <1>3, <2>1 DEF msu1statecontrol, Registers
  <2>3. EvenPlaces'
    BY <1>3 DEF msu1statecontrol, resumeVars, EvenPlaces
  <2>4. BufferIsTrack'
    BY <1>3 DEF msu1statecontrol, trackVars, BufferIsTrack, LengthOf, LoopOf
  <2> QED
    BY <2>2, <2>3, <2>4
<1>4. CASE MixSample
  <2>1. Registers'
    <3>1. Rate_Add' \in 0 .. Rate - 1
      BY <1>4, MsuAssumption DEF MixSample, Registers
    <3>2. heard' \in BOOLEAN
      BY <1>4 DEF MixSample, Sounds
    <3>3. status' \in [error : BOOLEAN, play : BOOLEAN, loop : BOOLEAN]
      BY <1>4 DEF MixSample, Registers
    <3> QED
      BY <1>4, <3>1, <3>2, <3>3 DEF MixSample, Registers
  <2>2. Even(Track_Position')
    <3>1. Even(2 * Loop_Point)
      BY LoopIsNat DEF Even
    <3> QED
      BY <1>4, <3>1, AdvancedEven DEF MixSample
  <2>3. EvenPlaces'
    BY <1>4, <2>2 DEF MixSample, resumeVars, EvenPlaces
  <2>4. BufferIsTrack'
    BY <1>4 DEF MixSample, trackVars, BufferIsTrack, LengthOf, LoopOf
  <2> QED
    BY <2>1, <2>3, <2>4
<1>5. CASE MsuSaved
  BY <1>5 DEF MsuSaved, trackVars, resumeVars, Registers, EvenPlaces, BufferIsTrack, LengthOf, LoopOf
<1>6. CASE MsuRestored
  BY <1>6 DEF MsuRestored, trackVars, resumeVars, Registers, EvenPlaces, BufferIsTrack, LengthOf, LoopOf
<1>7. CASE UNCHANGED msuVars
  BY <1>7 DEF msuVars, trackVars, resumeVars, Registers, EvenPlaces, BufferIsTrack, LengthOf, LoopOf
<1> QED
  BY <1>1, <1>2, <1>3, <1>4, <1>5, <1>6, <1>7 DEF MsuNext, Port

(* Whatever the game, the mixer and the save states do, the two samples    *)
(* mixed next are inside the buffer that holds the track.                  *)
THEOREM PairsAreInTheTrack == MsuSpec => []PairsInTrack
<1>1. MsuInit => MsuInv
  BY MsuInvInit
<1>2. MsuInv /\ [MsuNext]_msuVars => MsuInv'
  BY MsuInvNext
<1>3. MsuInv => PairsInTrack
  <2> SUFFICES ASSUME MsuInv, Sounds PROVE inMemory # NoTrack /\ Track_Position + 1 < Tracks[inMemory].samples
    BY DEF PairsInTrack
  <2>1. inMemory \in DOMAIN Tracks /\ Track_Length = LengthOf(inMemory) /\ inMemory # NoTrack
    BY EvenNat DEF MsuInv, BufferIsTrack, Sounds, EvenPlaces
  <2>2. PICK i \in Nat : Track_Position = 2 * i
    BY DEF MsuInv, EvenPlaces, Even
  <2>3. PICK j \in Nat : Track_Length = 2 * j
    BY <2>1, TrackFacts DEF Even
  <2>4. Track_Position + 1 < Track_Length
    BY <2>2, <2>3 DEF Sounds
  <2>5. Track_Length <= Tracks[inMemory].samples /\ Tracks[inMemory].samples \in Nat
    BY <2>1, TrackFacts, MsuAssumption
  <2> QED
    BY <2>1, <2>2, <2>3, <2>4, <2>5
<1> QED
  BY <1>1, <1>2, <1>3, PTL DEF MsuSpec

-----------------------------------------------------------------------------
(* A loop goes on because a sample of silence ends with the position put   *)
(* back, and what may put it elsewhere counts as having been heard.        *)
LEMMA LoopGoesOnNext == ASSUME MsuInv, LoopGoesOn, [MsuNext]_msuVars PROVE LoopGoesOn'
<1>1. CASE msu1track0 \/ MsuSaved \/ UNCHANGED msuVars
  BY <1>1 DEF msu1track0, MsuSaved, msuVars, trackVars, LoopGoesOn, Sounds
<1>2. CASE msu1track1 \/ msu1statecontrol \/ MsuRestored
  BY <1>2 DEF msu1track1, msu1statecontrol, MsuRestored, LoopGoesOn
<1>3. CASE MixSample
  <2> SUFFICES ASSUME status'.play, status'.loop, ~heard'
               PROVE  Sounds' \/ Tracks[inMemory].loop = Track_Length \div 2
    BY <1>3 DEF LoopGoesOn, MixSample, trackVars
  <2>1. ~Sounds /\ Advanced = Track_Position
    BY <1>3 DEF MixSample, Advanced
  <2>2. Track_Position \in Nat
    BY EvenNat DEF MsuInv, EvenPlaces
  <2>3. inMemory \in DOMAIN Tracks /\ Track_Length = LengthOf(inMemory) /\ Loop_Point = LoopOf(inMemory)
    BY <1>3 DEF MixSample, MsuInv, BufferIsTrack
  <2>4. Track_Length \in Nat \ {0}
    BY <1>3, <2>3, TrackFacts DEF MixSample
  <2>5. Track_Position >= Track_Length
    BY <2>1, <2>2, <2>4 DEF Sounds
  <2>6. status'.play => status.loop
    BY <1>3, <2>1, <2>2, <2>4, <2>5 DEF MixSample, MsuInv, Registers
  <2>7. Track_Position' = 2 * Loop_Point
    BY <1>3, <2>1, <2>2, <2>4, <2>5, <2>6 DEF MixSample
  <2>8. /\ Loop_Point \in Nat /\ 2 * Loop_Point <= Track_Length
        /\ 2 * Loop_Point = Track_Length => Tracks[inMemory].loop = Track_Length \div 2
    BY <2>3, <2>4, TrackFacts
  <2>9. Track_Length' = Track_Length
    BY <1>3 DEF MixSample, trackVars
  <2> QED
    BY <2>4, <2>7, <2>8, <2>9 DEF Sounds
<1> QED
  BY <1>1, <1>2, <1>3 DEF MsuNext, Port

(* A track that loops is heard again after at most one sample of silence,  *)
(* unless its file puts the loop point at its very end.                    *)
THEOREM LoopsGoOn == MsuSpec => []LoopGoesOn
<1>1. MsuInit => MsuInv /\ LoopGoesOn
  BY MsuInvInit DEF MsuInit, LoopGoesOn
<1>2. (MsuInv /\ LoopGoesOn) /\ [MsuNext]_msuVars => (MsuInv /\ LoopGoesOn)'
  BY MsuInvNext, LoopGoesOnNext
<1> QED
  BY <1>1, <1>2, PTL DEF MsuSpec

-----------------------------------------------------------------------------
LEMMA OwnersNext == ASSUME ~Halves, MsuInv, Owners, [MsuNext]_msuVars PROVE Owners'
<1>1. CASE msu1track0 \/ MsuSaved \/ UNCHANGED msuVars
  BY <1>1 DEF msu1track0, MsuSaved, msuVars, trackVars, resumeVars, Owners
<1>2. CASE msu1track1
  <2>1. MSU_Track' \in TrackBytes \X TrackBytes /\ MSU_Track' # NoTrack
    BY <1>2, TrackWritten, NotATrack DEF msu1track1, MsuInv
  <2>2. /\ Resume_Track' \in (TrackBytes \X TrackBytes) \cup {NoTrack}
        /\ Resume_Track' # NoTrack => suspended' \in {NoTrack, Resume_Track'}
        /\ owner' \in {NoTrack, MSU_Track'}
    BY <1>2, <2>1 DEF msu1track1, ChangeTrack, Resumes, Owners, resumeVars
  <2>3. inMemory' = MSU_Track' \/ (inMemory' = NoTrack /\ status'.error)
    BY <1>2 DEF msu1track1, ChangeTrack
  <2> QED
    BY <2>1, <2>2, <2>3 DEF Owners
<1>3. CASE msu1statecontrol
  <2>1. CASE status.error
    BY <1>3, <2>1 DEF msu1statecontrol, Owners, resumeVars, trackVars
  <2>2. CASE ~status.error
    <3>1. owner \in {NoTrack, MSU_Track}
      BY <1>3, <2>2 DEF msu1statecontrol, Owners
    <3>2. /\ Resume_Track' \in (TrackBytes \X TrackBytes) \cup {NoTrack}
          /\ Resume_Track' # NoTrack => suspended' \in {NoTrack, Resume_Track'}
      BY <1>3, <2>2, <3>1 DEF msu1statecontrol, Owners, resumeVars, MsuInv, Registers
    <3>3. inMemory' = NoTrack => owner' = NoTrack
      BY <1>3, <2>2 DEF msu1statecontrol, Owners, trackVars
    <3>4. inMemory' # NoTrack => owner' \in {NoTrack, inMemory'}
      BY <1>3 DEF msu1statecontrol, Owners, trackVars
    <3> QED
      BY <3>2, <3>3, <3>4 DEF Owners
  <2> QED
    BY <2>1, <2>2
<1>4. CASE MixSample
  <2>1. status'.error = status.error
    BY <1>4 DEF MixSample, MsuInv, Registers
  <2> QED
    BY <1>4, <2>1 DEF MixSample, trackVars, resumeVars, Owners
<1>5. CASE MsuRestored
  BY <1>5 DEF MsuRestored, trackVars, resumeVars, Owners
<1> QED
  BY <1>1, <1>2, <1>3, <1>4, <1>5 DEF MsuNext, Port

(* A game that writes both halves of a track number before it touches the  *)
(* control register has every track resumed where it left that track; with *)
(* the two theorems above, what is mixed is the track it should be.        *)
THEOREM TracksStaySound == ~Halves => (MsuSpec => []TracksSound)
<1> SUFFICES ASSUME ~Halves PROVE MsuSpec => []TracksSound
  OBVIOUS
<1>1. MsuInit => MsuInv /\ Owners
  BY MsuInvInit
<1>2. (MsuInv /\ Owners) /\ [MsuNext]_msuVars => (MsuInv /\ Owners)'
  BY MsuInvNext, OwnersNext
<1>3. MsuInv /\ Owners => PositionOfTrack
  BY EvenNat DEF MsuInv, EvenPlaces, BufferIsTrack, Owners, PositionOfTrack, Sounds
<1>4. PairsInTrack /\ PositionOfTrack /\ LoopGoesOn => TracksSound
  BY DEF TracksSound
<1> QED
  BY <1>1, <1>2, <1>3, <1>4, PairsAreInTheTrack, LoopsGoOn, PTL DEF MsuSpec
=============================================================================
