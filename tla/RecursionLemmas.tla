--------------------------- MODULE RecursionLemmas ---------------------------
(***************************************************************************)
(* What the proofs about recursive functions on numbers and sequences      *)
(* stand on: the least number of a set, which is how they do induction,    *)
(* the existence of a function that is defined by its value one before,    *)
(* and FlattenSeq of the community modules: what is in it, what its        *)
(* elements have in common, and that it loses nothing but the lengths.     *)
(***************************************************************************)
EXTENDS Integers, SequencesExt, Functions, SequenceTheorems, WellFoundedInduction, TLAPS

\* Some numbers have a least one among them.
LEMMA Least ==
    ASSUME NEW T, T \subseteq Nat, T # {}
    PROVE  \E m \in T : \A n \in T : m <= n
<1>1. \E m \in T : \A n \in T : ~ (<<n, m>> \in OpToRel(<, Nat))
  BY NatLessThanWellFounded, WFMin
<1>2. PICK m \in T : \A n \in T : ~ (<<n, m>> \in OpToRel(<, Nat))
  BY <1>1
<1>3. \A n \in T : ~ (n < m)
  BY <1>2 DEF OpToRel
<1> QED
  BY <1>3

\* A set that has 0, and with each number below N the next one, has all to N.
LEMMA UpTo ==
    ASSUME NEW N \in Nat, NEW T,
           0 \in T,
           \A n \in 0 .. N - 1 : n \in T => n + 1 \in T
    PROVE  0 .. N \subseteq T
<1> SUFFICES ASSUME NEW k \in 0 .. N, k \notin T PROVE FALSE
  OBVIOUS
<1> DEFINE out == { n \in 0 .. N : n \notin T }
<1>1. out \subseteq Nat /\ out # {}
  OBVIOUS
<1> HIDE DEF out
<1>2. PICK m \in out : \A n \in out : m <= n
  BY <1>1, Least
<1>3. m \in 0 .. N /\ m \notin T
  BY <1>2 DEF out
<1>4. m # 0
  BY <1>3
<1>5. m - 1 \in 0 .. N - 1 /\ m - 1 + 1 = m
  BY <1>3, <1>4
<1>6. m - 1 \notin T
  BY <1>3, <1>5
<1>7. m - 1 \in out
  BY <1>5, <1>6 DEF out
<1>8. m <= m - 1
  BY <1>2, <1>7
<1> QED
  BY <1>5, <1>8

\* A function of the numbers to N that goes on from its value one before.
Iterated(f, N, U, start, next) ==
    /\ f \in [0 .. N -> U]
    /\ f[0] = start
    /\ \A n \in 1 .. N : f[n] = next[n][f[n - 1]]

\* A start and a step make such a function.
LEMMA Iterates ==
    ASSUME NEW N \in Nat, NEW U, NEW start \in U, NEW next \in [1 .. N -> [U -> U]]
    PROVE  \E f : Iterated(f, N, U, start, next)
<1> DEFINE good(f, n) == f[0] = start /\ \A k \in 1 .. n : f[k] = next[k][f[k - 1]]
           T == { n \in 0 .. N : \E f \in [0 .. n -> U] : good(f, n) }
<1>1. 0 \in T
  <2> DEFINE f == [k \in 0 .. 0 |-> start]
  <2>1. f \in [0 .. 0 -> U] /\ good(f, 0)
    OBVIOUS
  <2> HIDE DEF f, good
  <2>2. 0 \in 0 .. N
    OBVIOUS
  <2> QED
    BY <2>1, <2>2
<1>2. ASSUME NEW n \in 0 .. N - 1, n \in T PROVE n + 1 \in T
  <2>1. PICK f \in [0 .. n -> U] : good(f, n)
    BY <1>2
  <2> DEFINE g == [k \in 0 .. n + 1 |-> IF k = n + 1 THEN next[n + 1][f[n]] ELSE f[k]]
  <2>2. f[n] \in U /\ next[n + 1][f[n]] \in U
    OBVIOUS
  <2>3. g \in [0 .. n + 1 -> U]
    BY <2>2
  <2>4. g[0] = start
    BY <2>1
  <2>5. ASSUME NEW k \in 1 .. n + 1 PROVE g[k] = next[k][g[k - 1]]
    <3>1. CASE k = n + 1
      <4>1. k - 1 = n /\ n \in 0 .. n + 1 /\ n # n + 1
        BY <3>1
      <4>2. g[k] = next[n + 1][f[n]] /\ g[k - 1] = f[n]
        BY <3>1, <4>1
      <4> QED
        BY <3>1, <4>2
    <3>2. CASE k # n + 1
      <4>1. k \in 1 .. n /\ k - 1 \in 0 .. n
        BY <3>2
      <4>2. g[k] = f[k] /\ g[k - 1] = f[k - 1]
        BY <4>1
      <4> QED
        BY <2>1, <4>1, <4>2
    <3> QED
      BY <3>1, <3>2
  <2> HIDE DEF g
  <2>6. good(g, n + 1)
    BY <2>4, <2>5
  <2>7. n + 1 \in 0 .. N
    OBVIOUS
  <2> QED
    BY <2>3, <2>6, <2>7
<1> HIDE DEF T
<1>3. 0 .. N \subseteq T
  BY <1>1, <1>2, UpTo
<1>4. N \in T
  BY <1>3
<1> QED
  BY <1>4 DEF T, Iterated

\* FlattenSeq appends one sequence after the other to the empty one.
LEMMA FlattenSteps ==
    ASSUME NEW S, NEW seqs \in Seq(Seq(S))
    PROVE  \E f \in [0 .. Len(seqs) -> Seq(S)] :
              /\ f[0] = <<>>
              /\ \A n \in 1 .. Len(seqs) : f[n] = f[n - 1] \o seqs[n]
              /\ FlattenSeq(seqs) = f[Len(seqs)]
<1> DEFINE N == Len(seqs)
           next == [n \in 1 .. N |-> [s \in Seq(S) |-> s \o seqs[n]]]
<1>1. N \in Nat /\ \A n \in 1 .. N : seqs[n] \in Seq(S)
  OBVIOUS
<1>2. next \in [1 .. N -> [Seq(S) -> Seq(S)]]
  BY <1>1
<1>3. PICK f : Iterated(f, N, Seq(S), <<>>, next)
  <2>1. N \in Nat /\ <<>> \in Seq(S)
    OBVIOUS
  <2> HIDE DEF next, N
  <2> QED
    BY <1>2, <2>1, Iterates
<1>4. \A n \in 1 .. N : f[n - 1] \in Seq(S) /\ f[n] = f[n - 1] \o seqs[n]
  <2> SUFFICES ASSUME NEW n \in 1 .. N
               PROVE  f[n - 1] \in Seq(S) /\ f[n] = f[n - 1] \o seqs[n]
    OBVIOUS
  <2>1. N \in Nat
    OBVIOUS
  <2>2. f[n - 1] \in Seq(S)
    <3> HIDE DEF N, next
    <3> QED
      BY <1>3, <2>1 DEF Iterated
  <2> QED
    BY <1>3, <2>2 DEF Iterated
<1>5. FlattenSeq(seqs) = f[N]
  <2>1. CASE N = 0
    BY <1>3, <2>1 DEF FlattenSeq, Iterated
  <2>2. CASE N # 0
    <3> DEFINE flatten == CHOOSE g : g = [i \in 1 .. N |-> IF i = 1 THEN seqs[i] ELSE g[i - 1] \o seqs[i]]
               known == [i \in 1 .. N |-> f[i]]
               T == {0} \cup { i \in 1 .. N : flatten[i] = f[i] }
    <3>1. FlattenSeq(seqs) = flatten[N]
      BY <2>2 DEF FlattenSeq
    <3>2. f[1] = seqs[1]
      <4>1. 1 \in 1 .. N /\ 1 - 1 = 0
        BY <1>1, <2>2
      <4> HIDE DEF N, next
      <4>3. f[1] = f[0] \o seqs[1] /\ seqs[1] \in Seq(S)
        BY <1>1, <1>4, <4>1
      <4>2. f[1] = <<>> \o seqs[1] /\ seqs[1] \in Seq(S)
        BY <1>3, <4>3 DEF Iterated
      <4> QED
        BY <4>2, ConcatEmptySeq
    <3>3. ASSUME NEW i \in 1 .. N
          PROVE  known[i] = IF i = 1 THEN seqs[i] ELSE known[i - 1] \o seqs[i]
      <4>1. CASE i = 1
        BY <3>2, <4>1
      <4>2. CASE i # 1
        <5>1. i - 1 \in 1 .. N
          BY <1>1, <4>2
        <5> QED
          BY <1>4, <4>2, <5>1
      <4> QED
        BY <4>1, <4>2
    <3>4. known = [i \in 1 .. N |-> IF i = 1 THEN seqs[i] ELSE known[i - 1] \o seqs[i]]
      <4> DEFINE other == [i \in 1 .. N |-> IF i = 1 THEN seqs[i] ELSE known[i - 1] \o seqs[i]]
      <4> HIDE DEF N, next
      <4>1. \A i \in 1 .. N : known[i] = other[i]
        <5> HIDE DEF known
        <5> QED
          BY <3>3
      <4>2. DOMAIN known = 1 .. N /\ DOMAIN other = 1 .. N
        OBVIOUS
      <4>3. known = [i \in 1 .. N |-> known[i]] /\ other = [i \in 1 .. N |-> other[i]]
        OBVIOUS
      <4> QED
        BY <4>1, <4>3
    <3>5. \E g : g = [i \in 1 .. N |-> IF i = 1 THEN seqs[i] ELSE g[i - 1] \o seqs[i]]
      <4> HIDE DEF known, N
      <4> QED
        BY <3>4
    <3>6. flatten = [i \in 1 .. N |-> IF i = 1 THEN seqs[i] ELSE flatten[i - 1] \o seqs[i]]
      <4> HIDE DEF known, N
      <4> QED
        BY <3>5
    <3> HIDE DEF flatten, N, next, known
    <3>7. \A i \in 1 .. N : flatten[i] = IF i = 1 THEN seqs[i] ELSE flatten[i - 1] \o seqs[i]
      BY <3>6
    <3>8. ASSUME NEW i \in 0 .. N - 1, i \in T PROVE i + 1 \in T
      <4>1. i + 1 \in 1 .. N /\ (i + 1) - 1 = i
        BY <1>1
      <4>2. flatten[i + 1] = IF i = 0 THEN seqs[1] ELSE flatten[i] \o seqs[i + 1]
        BY <3>7, <4>1
      <4>3. CASE i = 0
        BY <3>2, <4>1, <4>2, <4>3
      <4>4. CASE i # 0
        <5>1. flatten[i] = f[i]
          BY <3>8, <4>4
        <5>2. f[i + 1] = f[i] \o seqs[i + 1]
          BY <1>4, <4>1
        <5> QED
          BY <4>1, <4>2, <4>4, <5>1, <5>2
      <4> QED
        BY <4>3, <4>4
    <3> HIDE DEF T
    <3>9. 0 \in T
      BY DEF T
    <3>10. 0 .. N \subseteq T
      BY <1>1, <3>8, <3>9, UpTo
    <3>11. N \in T
      BY <1>1, <3>10
    <3> QED
      BY <2>2, <3>1, <3>11 DEF T
  <2> QED
    BY <2>1, <2>2
<1> QED
  BY <1>3, <1>4, <1>5 DEF Iterated

\* The elements of two sequences one after the other.
LEMMA ConcatToSet ==
    ASSUME NEW S, NEW s \in Seq(S), NEW t \in Seq(S)
    PROVE  ToSet(s \o t) = ToSet(s) \cup ToSet(t)
<1>1. \A u : ToSet(u) = Range(u)
  BY DEF ToSet, Range
<1> QED
  BY <1>1, RangeConcatenation

\* The elements of a sequence and one more.
LEMMA AppendToSet ==
    ASSUME NEW S, NEW s \in Seq(S), NEW e \in S
    PROVE  /\ Append(s, e) \in Seq(S)
           /\ ToSet(Append(s, e)) = ToSet(s) \cup {e}
<1>1. Append(s, e) = s \o <<e>>
  BY AppendIsConcat
<1>2. <<e>> \in Seq(S) /\ ToSet(<<e>>) = {e}
  BY DEF ToSet
<1>3. s \o <<e>> \in Seq(S)
  BY <1>2, ConcatProperties
<1>4. ToSet(s \o <<e>>) = ToSet(s) \cup ToSet(<<e>>)
  <2> DEFINE last == <<e>>
  <2>1. last \in Seq(S)
    BY <1>2
  <2> HIDE DEF last
  <2>2. ToSet(s \o last) = ToSet(s) \cup ToSet(last)
    BY <2>1, ConcatToSet
  <2> QED
    BY <2>2 DEF last
<1> QED
  BY <1>1, <1>2, <1>3, <1>4

\* FlattenSeq has the elements of all its sequences and no others.
LEMMA FlattenToSet ==
    ASSUME NEW S, NEW seqs \in Seq(Seq(S))
    PROVE  /\ FlattenSeq(seqs) \in Seq(S)
           /\ ToSet(FlattenSeq(seqs)) = UNION { ToSet(seqs[i]) : i \in DOMAIN seqs }
<1> DEFINE N == Len(seqs)
<1>1. N \in Nat /\ DOMAIN seqs = 1 .. N /\ \A n \in 1 .. N : seqs[n] \in Seq(S)
  OBVIOUS
<1>2. PICK f \in [0 .. N -> Seq(S)] :
        /\ f[0] = <<>>
        /\ \A n \in 1 .. N : f[n] = f[n - 1] \o seqs[n]
        /\ FlattenSeq(seqs) = f[N]
  BY FlattenSteps
<1> HIDE DEF N
<1> DEFINE T == { n \in 0 .. N : ToSet(f[n]) = UNION { ToSet(seqs[i]) : i \in 1 .. n } }
<1>3. 0 \in T
  <2>1. ToSet(f[0]) = {} /\ 1 .. 0 = {}
    BY <1>2 DEF ToSet
  <2> QED
    BY <1>1, <2>1
<1>4. ASSUME NEW n \in 0 .. N - 1, n \in T PROVE n + 1 \in T
  <2>1. n + 1 \in 1 .. N /\ n + 1 \in 0 .. N /\ (n + 1) - 1 = n /\ n \in 0 .. N
    BY <1>1
  <2>2. f[n + 1] = f[n] \o seqs[n + 1]
    BY <1>2, <2>1
  <2>3. f[n] \in Seq(S) /\ seqs[n + 1] \in Seq(S)
    BY <1>1, <1>2, <2>1
  <2>4. ToSet(f[n + 1]) = ToSet(f[n]) \cup ToSet(seqs[n + 1])
    BY <2>2, <2>3, ConcatToSet
  <2>5. ToSet(f[n]) = UNION { ToSet(seqs[i]) : i \in 1 .. n }
    BY <1>4
  <2>6. 1 .. n + 1 = (1 .. n) \cup {n + 1}
    BY <1>1
  <2>7. UNION { ToSet(seqs[i]) : i \in 1 .. n + 1 }
          = (UNION { ToSet(seqs[i]) : i \in 1 .. n }) \cup ToSet(seqs[n + 1])
    BY <2>6
  <2> QED
    BY <2>1, <2>4, <2>5, <2>7
<1>5. N \in T
  <2> HIDE DEF T
  <2>1. 0 .. N \subseteq T
    BY <1>1, <1>3, <1>4, UpTo
  <2> QED
    BY <1>1, <2>1
<1> QED
  BY <1>1, <1>2, <1>5

\* A function of the numbers that goes on from its value one before.
Unending(f, U, start, next) ==
    /\ f \in [Nat -> U]
    /\ f[0] = start
    /\ \A n \in Nat : f[n + 1] = next[f[n]]

\* A start and a step that never ends make such a function.
LEMMA IteratesForever ==
    ASSUME NEW U, NEW start \in U, NEW next \in [U -> U]
    PROVE  \E f : Unending(f, U, start, next)
<1> DEFINE steps(n) == [k \in 1 .. n |-> next]
           upto(n) == CHOOSE g : Iterated(g, n, U, start, steps(n))
           f == [n \in Nat |-> upto(n)[n]]
<1>1. ASSUME NEW n \in Nat PROVE Iterated(upto(n), n, U, start, steps(n))
  <2>1. steps(n) \in [1 .. n -> [U -> U]]
    OBVIOUS
  <2> HIDE DEF steps
  <2>2. \E g : Iterated(g, n, U, start, steps(n))
    BY <2>1, Iterates
  <2> QED
    BY <2>2
<1> HIDE DEF upto
<1>2. ASSUME NEW n \in Nat
      PROVE  /\ upto(n) \in [0 .. n -> U] /\ upto(n)[0] = start
             /\ \A k \in 0 .. n - 1 : upto(n)[k + 1] = next[upto(n)[k]]
  <2>1. Iterated(upto(n), n, U, start, steps(n))
    BY <1>1
  <2>2. \A k \in 1 .. n : upto(n)[k] = next[upto(n)[k - 1]]
    BY <2>1 DEF Iterated
  <2>3. ASSUME NEW k \in 0 .. n - 1 PROVE upto(n)[k + 1] = next[upto(n)[k]]
    <3>1. k + 1 \in 1 .. n /\ (k + 1) - 1 = k
      OBVIOUS
    <3> QED
      BY <2>2, <3>1
  <2> QED
    BY <2>1, <2>3 DEF Iterated
<1>3. ASSUME NEW n \in Nat PROVE upto(n + 1)[n] = upto(n)[n]
  <2> DEFINE T == { k \in 0 .. n : upto(n + 1)[k] = upto(n)[k] }
  <2>1. 0 \in T
    BY <1>2
  <2>2. ASSUME NEW k \in 0 .. n - 1, k \in T PROVE k + 1 \in T
    <3>1. k \in 0 .. (n + 1) - 1 /\ k + 1 \in 0 .. n /\ n + 1 \in Nat
      OBVIOUS
    <3>2. upto(n + 1)[k + 1] = next[upto(n + 1)[k]] /\ upto(n)[k + 1] = next[upto(n)[k]]
      BY <1>2, <3>1
    <3> QED
      BY <2>2, <3>1, <3>2
  <2> HIDE DEF T
  <2>3. 0 .. n \subseteq T
    BY <2>1, <2>2, UpTo
  <2>4. n \in T
    BY <2>3
  <2> QED
    BY <2>4 DEF T
<1>4. f \in [Nat -> U]
  <2>1. \A n \in Nat : upto(n)[n] \in U
    BY <1>2
  <2> QED
    BY <2>1
<1>5. f[0] = start
  BY <1>2
<1>6. ASSUME NEW n \in Nat PROVE f[n + 1] = next[f[n]]
  <2>1. n + 1 \in Nat /\ n \in 0 .. (n + 1) - 1
    OBVIOUS
  <2>2. upto(n + 1)[n + 1] = next[upto(n + 1)[n]]
    BY <1>2, <2>1
  <2>3. f[n + 1] = upto(n + 1)[n + 1] /\ f[n] = upto(n)[n]
    BY <2>1
  <2> QED
    BY <1>3, <2>2, <2>3
<1> HIDE DEF f
<1>7. Unending(f, U, start, next)
  BY <1>4, <1>5, <1>6 DEF Unending
<1> QED
  BY <1>7

\* Two sequences, each in two parts of the same lengths.
LEMMA ConcatParts ==
    ASSUME NEW S, NEW a \in Seq(S), NEW b \in Seq(S), NEW c \in Seq(S), NEW d \in Seq(S),
           Len(a) = Len(c), Len(b) = Len(d), a \o b = c \o d
    PROVE  a = c /\ b = d
<1>1. /\ Len(a) \in Nat /\ Len(b) \in Nat
      /\ \A i \in 1 .. Len(a) + Len(b) :
            (IF i <= Len(a) THEN a[i] ELSE b[i - Len(a)]) = (IF i <= Len(a) THEN c[i] ELSE d[i - Len(a)])
  BY ConcatProperties
<1>2. \A i \in 1 .. Len(a) : a[i] = c[i]
  BY <1>1
<1>3. ASSUME NEW i \in 1 .. Len(b) PROVE b[i] = d[i]
  <2>1. /\ Len(a) + i \in 1 .. Len(a) + Len(b) /\ ~ (Len(a) + i <= Len(a))
        /\ (Len(a) + i) - Len(a) = i
    BY <1>1
  <2> QED
    BY <1>1, <2>1
<1> QED
  BY <1>2, <1>3, SeqEqual

\* What FlattenSeq makes of sequences of known lengths says what they were.
LEMMA FlattenParts ==
    ASSUME NEW S, NEW s \in Seq(Seq(S)), NEW t \in Seq(Seq(S)),
           Len(s) = Len(t), \A i \in 1 .. Len(s) : Len(s[i]) = Len(t[i]),
           FlattenSeq(s) = FlattenSeq(t)
    PROVE  s = t
<1> DEFINE N == Len(s)
<1>1. /\ N \in Nat /\ Len(t) = N
      /\ \A n \in 1 .. N : s[n] \in Seq(S) /\ t[n] \in Seq(S) /\ Len(s[n]) = Len(t[n])
  OBVIOUS
<1>2. PICK f \in [0 .. N -> Seq(S)] :
        /\ f[0] = <<>>
        /\ \A n \in 1 .. N : f[n] = f[n - 1] \o s[n]
        /\ FlattenSeq(s) = f[N]
  BY FlattenSteps
<1>3. PICK g \in [0 .. N -> Seq(S)] :
        /\ g[0] = <<>>
        /\ \A n \in 1 .. N : g[n] = g[n - 1] \o t[n]
        /\ FlattenSeq(t) = g[N]
  BY FlattenSteps
<1> HIDE DEF N
<1> DEFINE T == { n \in 0 .. N : Len(f[n]) = Len(g[n]) }
           D == { n \in 0 .. N : f[N - n] = g[N - n] /\ \A k \in N - n + 1 .. N : s[k] = t[k] }
<1>4. 0 .. N \subseteq T
  <2>1. 0 \in T
    BY <1>1, <1>2, <1>3
  <2>2. ASSUME NEW n \in 0 .. N - 1, n \in T PROVE n + 1 \in T
    <3>1. n + 1 \in 1 .. N /\ n + 1 \in 0 .. N /\ (n + 1) - 1 = n /\ n \in 0 .. N
      BY <1>1
    <3>2. f[n + 1] = f[n] \o s[n + 1] /\ g[n + 1] = g[n] \o t[n + 1]
      BY <1>2, <1>3, <3>1
    <3>3. /\ f[n] \in Seq(S) /\ g[n] \in Seq(S) /\ s[n + 1] \in Seq(S) /\ t[n + 1] \in Seq(S)
          /\ Len(s[n + 1]) = Len(t[n + 1]) /\ Len(f[n]) = Len(g[n])
      BY <1>1, <1>2, <1>3, <2>2, <3>1
    <3>4. /\ Len(f[n + 1]) = Len(f[n]) + Len(s[n + 1])
          /\ Len(g[n + 1]) = Len(g[n]) + Len(t[n + 1])
      <4>1. Len(f[n] \o s[n + 1]) = Len(f[n]) + Len(s[n + 1])
        BY <3>3, ConcatProperties
      <4>2. Len(g[n] \o t[n + 1]) = Len(g[n]) + Len(t[n + 1])
        BY <3>3, ConcatProperties
      <4> QED
        BY <3>2, <4>1, <4>2
    <3>5. Len(f[n + 1]) = Len(g[n + 1])
      BY <3>3, <3>4
    <3> QED
      BY <3>1, <3>5
  <2> HIDE DEF T
  <2> QED
    BY <1>1, <2>1, <2>2, UpTo
<1>5. 0 .. N \subseteq D
  <2>1. 0 \in D
    <3>1. 0 \in 0 .. N /\ N - 0 = N /\ \A k \in N - 0 + 1 .. N : FALSE
      BY <1>1
    <3>2. f[N] = g[N]
      BY <1>2, <1>3
    <3> QED
      BY <3>1, <3>2
  <2>2. ASSUME NEW n \in 0 .. N - 1, n \in D PROVE n + 1 \in D
    <3> DEFINE m == N - n
    <3>1. m \in 1 .. N /\ m \in 0 .. N /\ m - 1 \in 0 .. N /\ N - (n + 1) = m - 1 /\ n + 1 \in 0 .. N
      BY <1>1
    <3>2. f[m] = g[m] /\ \A k \in m + 1 .. N : s[k] = t[k]
      BY <2>2
    <3> HIDE DEF m
    <3>3. f[m] = f[m - 1] \o s[m] /\ g[m] = g[m - 1] \o t[m]
      BY <1>2, <1>3, <3>1
    <3>4. /\ f[m - 1] \in Seq(S) /\ g[m - 1] \in Seq(S) /\ s[m] \in Seq(S) /\ t[m] \in Seq(S)
          /\ Len(s[m]) = Len(t[m])
      BY <1>1, <1>2, <1>3, <3>1
    <3>5. Len(f[m - 1]) = Len(g[m - 1])
      BY <1>4, <3>1
    <3>6. f[m - 1] = g[m - 1] /\ s[m] = t[m]
      <4> DEFINE a == f[m - 1]
                 b == s[m]
                 c == g[m - 1]
                 d == t[m]
      <4>1. a \in Seq(S) /\ b \in Seq(S) /\ c \in Seq(S) /\ d \in Seq(S)
        BY <3>4
      <4>2. Len(a) = Len(c) /\ Len(b) = Len(d)
        BY <3>4, <3>5
      <4>3. a \o b = c \o d
        BY <3>2, <3>3
      <4> HIDE DEF a, b, c, d
      <4>4. a = c /\ b = d
        BY <4>1, <4>2, <4>3, ConcatParts
      <4> QED
        BY <4>4 DEF a, b, c, d
    <3>7. \A k \in m .. N : s[k] = t[k]
      <4>1. \A k \in m .. N : k = m \/ k \in m + 1 .. N
        BY <1>1, <3>1
      <4> QED
        BY <3>2, <3>6, <4>1
    <3>8. N - (n + 1) + 1 = m
      BY <3>1, <1>1
    <3> QED
      BY <3>1, <3>6, <3>7, <3>8
  <2> HIDE DEF D
  <2> QED
    BY <1>1, <2>1, <2>2, UpTo
<1>6. \A k \in 1 .. N : s[k] = t[k]
  <2>1. N \in D /\ N - N + 1 = 1
    BY <1>1, <1>5
  <2> QED
    BY <2>1
<1> QED
  BY <1>1, <1>6, SeqEqual DEF N

\* Each two elements of a sequence are related, in both orders.
Apart(s, R) == \A i, j \in DOMAIN s : i # j => <<s[i], s[j]>> \in R

\* Two sequences whose elements are related within and across, one after the
\* other.
LEMMA ConcatApart ==
    ASSUME NEW S, NEW R, NEW s \in Seq(S), NEW t \in Seq(S), Apart(s, R), Apart(t, R),
           \A x \in ToSet(s), y \in ToSet(t) : <<x, y>> \in R /\ <<y, x>> \in R
    PROVE  Apart(s \o t, R)
<1> DEFINE u == s \o t
<1>1. /\ Len(s) \in Nat /\ Len(t) \in Nat /\ DOMAIN u = 1 .. Len(s) + Len(t)
      /\ DOMAIN s = 1 .. Len(s) /\ DOMAIN t = 1 .. Len(t)
      /\ \A i \in 1 .. Len(s) + Len(t) : u[i] = IF i <= Len(s) THEN s[i] ELSE t[i - Len(s)]
  BY ConcatProperties
<1> HIDE DEF u
<1>2. SUFFICES ASSUME NEW i \in DOMAIN u, NEW j \in DOMAIN u, i # j PROVE <<u[i], u[j]>> \in R
  BY DEF Apart, u
<1>3. \A k \in DOMAIN u : k <= Len(s) => k \in DOMAIN s /\ u[k] = s[k] /\ u[k] \in ToSet(s)
  BY <1>1 DEF ToSet
<1>4. \A k \in DOMAIN u : ~(k <= Len(s)) =>
         k - Len(s) \in DOMAIN t /\ u[k] = t[k - Len(s)] /\ u[k] \in ToSet(t)
  BY <1>1 DEF ToSet
<1>5. CASE i <= Len(s) /\ j <= Len(s)
  BY <1>2, <1>3, <1>5 DEF Apart
<1>6. CASE ~(i <= Len(s)) /\ ~(j <= Len(s))
  <2>1. i - Len(s) # j - Len(s)
    BY <1>1, <1>2
  <2> QED
    BY <1>4, <1>6, <2>1 DEF Apart
<1>7. CASE i <= Len(s) /\ ~(j <= Len(s))
  BY <1>3, <1>4, <1>7
<1>8. CASE ~(i <= Len(s)) /\ j <= Len(s)
  BY <1>3, <1>4, <1>8
<1> QED
  BY <1>5, <1>6, <1>7, <1>8

\* FlattenSeq of sequences whose elements are related within and across.
LEMMA FlattenApart ==
    ASSUME NEW S, NEW R, NEW seqs \in Seq(Seq(S)),
           \A i \in DOMAIN seqs : Apart(seqs[i], R),
           \A i, j \in DOMAIN seqs : i # j =>
              \A x \in ToSet(seqs[i]), y \in ToSet(seqs[j]) : <<x, y>> \in R
    PROVE  Apart(FlattenSeq(seqs), R)
<1> DEFINE N == Len(seqs)
<1>1. N \in Nat /\ DOMAIN seqs = 1 .. N /\ \A n \in 1 .. N : seqs[n] \in Seq(S)
  OBVIOUS
<1>2. PICK f \in [0 .. N -> Seq(S)] :
        /\ f[0] = <<>>
        /\ \A n \in 1 .. N : f[n] = f[n - 1] \o seqs[n]
        /\ FlattenSeq(seqs) = f[N]
  BY FlattenSteps
<1> HIDE DEF N
<1> DEFINE T == { n \in 0 .. N : Apart(f[n], R) /\ ToSet(f[n]) = UNION { ToSet(seqs[i]) : i \in 1 .. n } }
<1>3. 0 \in T
  <2>1. Apart(f[0], R) /\ ToSet(f[0]) = {} /\ 1 .. 0 = {}
    BY <1>2 DEF Apart, ToSet
  <2> QED
    BY <1>1, <2>1
<1>4. ASSUME NEW n \in 0 .. N - 1, n \in T PROVE n + 1 \in T
  <2>1. n + 1 \in 1 .. N /\ n + 1 \in 0 .. N /\ (n + 1) - 1 = n /\ n \in 0 .. N
    BY <1>1
  <2>2. f[n + 1] = f[n] \o seqs[n + 1]
    BY <1>2, <2>1
  <2>3. f[n] \in Seq(S) /\ seqs[n + 1] \in Seq(S)
    BY <1>1, <1>2, <2>1
  <2>4. ToSet(f[n + 1]) = ToSet(f[n]) \cup ToSet(seqs[n + 1])
    BY <2>2, <2>3, ConcatToSet
  <2>5. Apart(f[n], R) /\ ToSet(f[n]) = UNION { ToSet(seqs[i]) : i \in 1 .. n }
    BY <1>4
  <2>6. 1 .. n + 1 = (1 .. n) \cup {n + 1}
    BY <1>1
  <2>7. UNION { ToSet(seqs[i]) : i \in 1 .. n + 1 }
          = (UNION { ToSet(seqs[i]) : i \in 1 .. n }) \cup ToSet(seqs[n + 1])
    BY <2>6
  <2>8. ASSUME NEW x \in ToSet(f[n]), NEW y \in ToSet(seqs[n + 1])
        PROVE  <<x, y>> \in R /\ <<y, x>> \in R
    <3>1. PICK i \in 1 .. n : x \in ToSet(seqs[i])
      BY <2>5
    <3>2. i \in 1 .. N /\ i # n + 1
      BY <1>1
    <3> QED
      BY <1>1, <2>1, <3>1, <3>2
  <2>9. Apart(f[n + 1], R)
    <3>1. Apart(seqs[n + 1], R)
      BY <1>1, <2>1
    <3>2. Apart(f[n] \o seqs[n + 1], R)
      BY <2>3, <2>5, <2>8, <3>1, ConcatApart
    <3> QED
      BY <2>2, <3>2
  <2> QED
    BY <2>1, <2>4, <2>5, <2>7, <2>9
<1>5. N \in T
  <2> HIDE DEF T
  <2>1. 0 .. N \subseteq T
    BY <1>1, <1>3, <1>4, UpTo
  <2> QED
    BY <1>1, <2>1
<1> QED
  BY <1>2, <1>5
=============================================================================
