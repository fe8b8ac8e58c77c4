---------------------------- MODULE ValuesProofs -----------------------------
(***************************************************************************)
(* What the operators of Values do, for values of any kinds, nested to any *)
(* depth: Equal values are alike, Diff answers mutations that part, and    *)
(* ApplyEach takes the values before to values like the ones after.        *)
(***************************************************************************)
EXTENDS Values, RecursionLemmas

-----------------------------------------------------------------------------
(* Values and what is inside them.                                         *)

\* A set of values with nothing in it but finite trees, such as the set of all of
\* them: each a kind and its content, the content of a list a list of them, a
\* list of them one of them, and of no kind but the ones there are.
Universe(V) ==
    /\ \A v \in V : v = [kind |-> v.kind, of |-> v.of]
    /\ \A v \in V : IsList(v) => v.of \in Seq(V)
    /\ \A v \in V : v.kind \notin ScalarKinds \cup {"list"} => v \in {NoKind, NilValue}
    /\ \A values \in Seq(V) : List(values) \in V
    /\ \A values \in Seq(V) : \E n \in Nat : Levels(values)[n] = <<>>

\* What Inside flattens.
Contents(values) == [i \in DOMAIN values |-> IF IsList(values[i]) THEN values[i].of ELSE <<>>]

\* Inside takes values to values, as long as the lists among them hold some.
LEMMA InsideIn ==
    ASSUME NEW V, NEW W, \A v \in V : IsList(v) => v.of \in Seq(W), NEW values \in Seq(V)
    PROVE  Inside(values) \in Seq(W)
<1> DEFINE contents == Contents(values)
<1>1. Len(values) \in Nat /\ DOMAIN values = 1 .. Len(values) /\ \A i \in DOMAIN values : values[i] \in V
  OBVIOUS
<1>2. \A i \in DOMAIN values : (IF IsList(values[i]) THEN values[i].of ELSE <<>>) \in Seq(W)
  BY <1>1, EmptySeq
<1>3. contents \in Seq(Seq(W))
  BY <1>1, <1>2 DEF Contents
<1>4. Inside(values) = FlattenSeq(contents)
  BY DEF Inside, Contents
<1> HIDE DEF contents
<1> QED
  BY <1>3, <1>4, FlattenToSet

\* What Inside holds: what the lists among the values hold, and nothing when they
\* are all empty.
LEMMA InsideHas ==
    ASSUME NEW V, Universe(V), NEW values \in Seq(V)
    PROVE  /\ Contents(values) \in Seq(Seq(V)) /\ Len(Contents(values)) = Len(values)
           /\ Inside(values) = FlattenSeq(Contents(values))
           /\ Inside(values) \in Seq(V)
           /\ \A i \in DOMAIN values : IsList(values[i]) =>
                 ToSet(values[i].of) \subseteq ToSet(Inside(values))
           /\ Inside(values) = <<>> <=>
                 \A i \in DOMAIN values : IsList(values[i]) => values[i].of = <<>>
<1> DEFINE contents == Contents(values)
<1>1. Len(values) \in Nat /\ DOMAIN values = 1 .. Len(values) /\ \A i \in DOMAIN values : values[i] \in V
  OBVIOUS
<1>2. \A i \in DOMAIN values : (IF IsList(values[i]) THEN values[i].of ELSE <<>>) \in Seq(V)
  BY <1>1, EmptySeq DEF Universe
<1>3. contents \in Seq(Seq(V)) /\ Len(contents) = Len(values) /\ DOMAIN contents = DOMAIN values
  BY <1>1, <1>2 DEF Contents
<1>4. Inside(values) = FlattenSeq(contents)
  BY DEF Inside, Contents
<1>5. \A i \in DOMAIN values : contents[i] = IF IsList(values[i]) THEN values[i].of ELSE <<>>
  BY DEF Contents
<1> HIDE DEF contents
<1>6. /\ FlattenSeq(contents) \in Seq(V)
      /\ ToSet(FlattenSeq(contents)) = UNION { ToSet(contents[i]) : i \in DOMAIN contents }
  BY <1>3, FlattenToSet
<1>7. \A i \in DOMAIN values : IsList(values[i]) => ToSet(values[i].of) \subseteq ToSet(Inside(values))
  BY <1>3, <1>4, <1>5, <1>6
<1>8. \A s \in Seq(V) : s = <<>> <=> ToSet(s) = {}
  <2> SUFFICES ASSUME NEW s \in Seq(V) PROVE s = <<>> <=> ToSet(s) = {}
    OBVIOUS
  <2>1. s = <<>> => ToSet(s) = {}
    BY DEF ToSet
  <2>2. ASSUME s # <<>> PROVE ToSet(s) # {}
    <3>1. 1 \in DOMAIN s
      BY <2>2
    <3> QED
      BY <3>1 DEF ToSet
  <2> QED
    BY <2>1, <2>2
<1>9. Inside(values) = <<>> <=> \A i \in DOMAIN values : contents[i] = <<>>
  <2>1. Inside(values) = <<>> <=> \A i \in DOMAIN values : ToSet(contents[i]) = {}
    <3>1. Inside(values) = <<>> <=> ToSet(Inside(values)) = {}
      BY <1>4, <1>6, <1>8
    <3>2. ToSet(Inside(values)) = {} <=> \A i \in DOMAIN contents : ToSet(contents[i]) = {}
      BY <1>4, <1>6
    <3> QED
      BY <1>3, <3>1, <3>2
  <2>2. \A i \in DOMAIN values : contents[i] \in Seq(V)
    BY <1>3
  <2> QED
    BY <1>8, <2>1, <2>2
<1>10. Inside(values) = <<>> <=> \A i \in DOMAIN values : IsList(values[i]) => values[i].of = <<>>
  BY <1>5, <1>9
<1> QED
  BY <1>3, <1>4, <1>6, <1>7, <1>10 DEF contents

\* The levels are lists of values, each inside the one before, whenever what
\* the lists hold are values again.
LEMMA LevelsOf ==
    ASSUME NEW V, \A v \in V : IsList(v) => v.of \in Seq(V), NEW values \in Seq(V)
    PROVE  /\ Levels(values) \in [Nat -> Seq(V)]
           /\ Levels(values)[0] = values
           /\ \A n \in Nat : Levels(values)[n + 1] = Inside(Levels(values)[n])
<1> DEFINE next == [s \in Seq(V) |-> Inside(s)]
           level == CHOOSE f : f = [n \in Nat |-> IF n = 0 THEN values ELSE Inside(f[n - 1])]
<1>1. next \in [Seq(V) -> Seq(V)]
  BY InsideIn
<1>2. PICK f : Unending(f, Seq(V), values, next)
  <2> HIDE DEF next
  <2> QED
    BY <1>1, IteratesForever
<1>3. f \in [Nat -> Seq(V)] /\ f[0] = values /\ \A n \in Nat : f[n + 1] = Inside(f[n])
  <2>1. f \in [Nat -> Seq(V)] /\ f[0] = values /\ \A n \in Nat : f[n + 1] = next[f[n]]
    BY <1>2 DEF Unending
  <2> QED
    BY <2>1
<1> HIDE DEF next
<1>4. f = [n \in Nat |-> IF n = 0 THEN values ELSE Inside(f[n - 1])]
  <2>1. ASSUME NEW n \in Nat PROVE f[n] = IF n = 0 THEN values ELSE Inside(f[n - 1])
    <3>1. CASE n = 0
      BY <1>3, <3>1
    <3>2. CASE n # 0
      <4>1. n - 1 \in Nat /\ (n - 1) + 1 = n
        BY <3>2
      <4>2. f[(n - 1) + 1] = Inside(f[n - 1])
        BY <1>3, <4>1
      <4> QED
        BY <3>2, <4>1, <4>2
    <3> QED
      BY <3>1, <3>2
  <2>2. f = [n \in Nat |-> f[n]]
    BY <1>3
  <2> QED
    BY <2>1, <2>2
<1>5. level = [n \in Nat |-> IF n = 0 THEN values ELSE Inside(level[n - 1])]
  BY <1>4
<1>6. Levels(values) = level
  BY DEF Levels
<1> HIDE DEF level
<1>7. level[0] = values /\ \A n \in Nat : level[n + 1] = Inside(level[n])
  <2>1. \A n \in Nat : level[n] = IF n = 0 THEN values ELSE Inside(level[n - 1])
    BY <1>5
  <2>2. \A n \in Nat : n + 1 \in Nat /\ n + 1 # 0 /\ (n + 1) - 1 = n
    OBVIOUS
  <2> QED
    BY <2>1, <2>2
<1>8. ASSUME NEW n \in Nat PROVE level[n] = f[n]
  <2> DEFINE T == { k \in 0 .. n : level[k] = f[k] }
  <2>1. 0 \in T
    <3>1. 0 \in 0 .. n /\ level[0] = f[0]
      BY <1>3, <1>7
    <3> QED
      BY <3>1
  <2>2. ASSUME NEW k \in 0 .. n - 1, k \in T PROVE k + 1 \in T
    <3>1. k \in Nat /\ k + 1 \in 0 .. n /\ level[k] = f[k]
      BY <2>2
    <3>2. level[k + 1] = Inside(level[k]) /\ f[k + 1] = Inside(f[k])
      BY <1>3, <1>7, <3>1
    <3> QED
      BY <3>1, <3>2
  <2> HIDE DEF T
  <2>3. 0 .. n \subseteq T
    BY <2>1, <2>2, UpTo
  <2>4. n \in T
    BY <2>3
  <2> QED
    BY <2>4 DEF T
<1>9. level \in [Nat -> Seq(V)]
  <2>1. level = [n \in Nat |-> level[n]]
    BY <1>5
  <2>2. \A n \in Nat : level[n] \in Seq(V)
    BY <1>3, <1>8
  <2> QED
    BY <2>1, <2>2
<1> QED
  BY <1>6, <1>7, <1>9

\* So they are in a universe.
LEMMA LevelsAre ==
    ASSUME NEW V, Universe(V), NEW values \in Seq(V)
    PROVE  /\ Levels(values) \in [Nat -> Seq(V)]
           /\ Levels(values)[0] = values
           /\ \A n \in Nat : Levels(values)[n + 1] = Inside(Levels(values)[n])
BY LevelsOf DEF Universe

\* Depth is the first level with nothing in it.
LEMMA DepthIs ==
    ASSUME NEW V, Universe(V), NEW values \in Seq(V)
    PROVE  /\ Depth(values) \in Nat
           /\ Levels(values)[Depth(values)] = <<>>
           /\ \A n \in 0 .. Depth(values) - 1 : Levels(values)[n] # <<>>
<1> DEFINE empty == { n \in Nat : Levels(values)[n] = <<>> }
           first(n) == CHOOSE m \in empty : n <= m /\ \A k \in empty : n <= k => m <= k
           f == [n \in Nat |-> first(n)]
           from == CHOOSE g : g = [n \in Nat |-> IF Levels(values)[n] = <<>> THEN n ELSE g[n + 1]]
<1>1. empty \subseteq Nat /\ empty # {}
  BY DEF Universe
<1>2. \A n \in Nat : Levels(values)[n] = <<>> <=> n \in empty
  OBVIOUS
<1>3. \A n \in empty : n + 1 \in empty
  <2>1. Inside(<<>>) = <<>>
    <3>1. <<>> \in Seq(V) /\ DOMAIN <<>> = {}
      BY EmptySeq
    <3>2. Inside(<<>>) = <<>> <=> \A i \in DOMAIN <<>> : IsList(<<>>[i]) => <<>>[i].of = <<>>
      BY <3>1, InsideHas
    <3> QED
      BY <3>1, <3>2
  <2>2. ASSUME NEW n \in empty PROVE n + 1 \in empty
    <3>1. n \in Nat /\ Levels(values)[n] = <<>>
      OBVIOUS
    <3>2. Levels(values)[n + 1] = Inside(Levels(values)[n])
      BY <3>1, LevelsAre
    <3> QED
      BY <2>1, <3>1, <3>2
  <2> QED
    BY <2>2
<1>4. from = CHOOSE g : g = [n \in Nat |-> IF Levels(values)[n] = <<>> THEN n ELSE g[n + 1]]
  OBVIOUS
<1>5. Depth(values) = from[0]
  BY DEF Depth
<1> HIDE DEF empty, from
<1>6. PICK least \in empty : \A n \in empty : least <= n
  BY <1>1, Least
<1>7. ASSUME NEW n \in Nat PROVE \E m \in empty : n <= m
  <2> DEFINE T == { k \in 0 .. n : \E m \in empty : k <= m }
  <2>1. 0 \in T
    BY <1>1
  <2>2. ASSUME NEW k \in 0 .. n - 1, k \in T PROVE k + 1 \in T
    <3>1. PICK m \in empty : k <= m
      BY <2>2
    <3>2. m + 1 \in empty /\ k + 1 <= m + 1
      BY <1>1, <1>3, <3>1
    <3> QED
      BY <3>2
  <2> HIDE DEF T
  <2>3. 0 .. n \subseteq T
    BY <2>1, <2>2, UpTo
  <2>4. n \in T
    BY <2>3
  <2> QED
    BY <2>4 DEF T
<1>8. ASSUME NEW n \in Nat
      PROVE  first(n) \in empty /\ n <= first(n) /\ \A k \in empty : n <= k => first(n) <= k
  <2> DEFINE above == { m \in empty : n <= m }
  <2>1. above \subseteq Nat /\ above # {}
    BY <1>1, <1>7
  <2> HIDE DEF above
  <2>2. PICK m \in above : \A k \in above : m <= k
    BY <2>1, Least
  <2>3. m \in empty /\ n <= m /\ \A k \in empty : n <= k => m <= k
    BY <2>2 DEF above
  <2> QED
    BY <2>3
<1> HIDE DEF first
<1>9. ASSUME NEW n \in Nat PROVE first(n) = IF n \in empty THEN n ELSE first(n + 1)
  <2>1. first(n) \in Nat /\ first(n + 1) \in Nat /\ n + 1 \in Nat
    <3>1. n + 1 \in Nat
      OBVIOUS
    <3>2. first(n) \in empty /\ first(n + 1) \in empty
      BY <1>8, <3>1
    <3> QED
      BY <1>1, <3>1, <3>2
  <2>2. CASE n \in empty
    <3>1. n <= first(n) /\ first(n) <= n
      BY <1>8, <2>2
    <3> QED
      BY <2>1, <2>2, <3>1
  <2>3. CASE n \notin empty
    <3>1. first(n) # n
      BY <1>8, <2>3
    <3>2. n + 1 <= first(n)
      BY <1>8, <2>1, <3>1
    <3>3. first(n + 1) <= first(n)
      BY <1>8, <2>1, <3>2
    <3>4. n + 1 <= first(n + 1) /\ first(n + 1) \in empty
      BY <1>8, <2>1
    <3>5. n <= first(n + 1)
      BY <2>1, <3>4
    <3>6. first(n) <= first(n + 1)
      BY <1>8, <3>4, <3>5
    <3> QED
      BY <2>1, <2>3, <3>3, <3>6
  <2> QED
    BY <2>2, <2>3
<1>10. f = [n \in Nat |-> IF Levels(values)[n] = <<>> THEN n ELSE f[n + 1]]
  BY <1>2, <1>9
<1>11. from = [n \in Nat |-> IF Levels(values)[n] = <<>> THEN n ELSE from[n + 1]]
  <2> HIDE DEF f
  <2> QED
    BY <1>4, <1>10
<1>12. \A n \in Nat : from[n] = IF n \in empty THEN n ELSE from[n + 1]
  BY <1>2, <1>11
<1>13. least \in Nat
  BY <1>1
<1>14. from[0] = least
  <2> DEFINE T == { k \in 0 .. least : from[least - k] = least }
  <2>1. 0 \in T
    <3>1. least - 0 = least
      BY <1>13
    <3> QED
      BY <1>6, <1>12, <1>13, <3>1
  <2>2. ASSUME NEW k \in 0 .. least - 1, k \in T PROVE k + 1 \in T
    <3> DEFINE n == least - (k + 1)
    <3>1. n \in Nat /\ n + 1 = least - k /\ n < least /\ k + 1 \in 0 .. least
      BY <1>13
    <3>2. n \notin empty
      BY <1>6, <1>13, <3>1
    <3>3. from[n] = from[n + 1]
      BY <1>12, <3>1, <3>2
    <3> QED
      BY <2>2, <3>1, <3>3
  <2> HIDE DEF T
  <2>3. 0 .. least \subseteq T
    BY <1>13, <2>1, <2>2, UpTo
  <2>4. least \in T /\ least - least = 0
    BY <1>13, <2>3
  <2> QED
    BY <2>4 DEF T
<1>15. \A n \in 0 .. least - 1 : n \notin empty
  BY <1>6, <1>13
<1> QED
  BY <1>2, <1>5, <1>6, <1>13, <1>14, <1>15

-----------------------------------------------------------------------------
(* Sequences, element by element.                                          *)

\* FlattenSeq of what a function makes of each element.
Flat(F, s) == FlattenSeq([i \in DOMAIN s |-> F[s[i]]])

\* Its value for no element, for one, and for a sequence in two parts.
LEMMA FlatParts ==
    ASSUME NEW S, NEW T, NEW F \in [S -> Seq(T)]
    PROVE  /\ Flat(F, <<>>) = <<>>
           /\ \A x \in S : Flat(F, <<x>>) = F[x]
           /\ \A s, t \in Seq(S) : Flat(F, s) \in Seq(T) /\ Flat(F, s \o t) = Flat(F, s) \o Flat(F, t)
<1> DEFINE seqs(s) == [i \in DOMAIN s |-> F[s[i]]]
<1>1. ASSUME NEW s \in Seq(S)
      PROVE  /\ seqs(s) \in Seq(Seq(T)) /\ Len(seqs(s)) = Len(s)
             /\ \A i \in 1 .. Len(s) : seqs(s)[i] = F[s[i]]
             /\ FlattenSeq(seqs(s)) = Flat(F, s)
  <2>1. Len(s) \in Nat /\ DOMAIN s = 1 .. Len(s) /\ \A i \in 1 .. Len(s) : F[s[i]] \in Seq(T)
    OBVIOUS
  <2> QED
    BY <2>1 DEF Flat
<1> HIDE DEF seqs
<1>2. ASSUME NEW s \in Seq(S)
      PROVE  \E f \in [0 .. Len(s) -> Seq(T)] :
                /\ f[0] = <<>> /\ f[Len(s)] = Flat(F, s)
                /\ \A n \in 1 .. Len(s) : f[n] = f[n - 1] \o F[s[n]]
  <2>1. PICK f \in [0 .. Len(seqs(s)) -> Seq(T)] :
          /\ f[0] = <<>>
          /\ \A n \in 1 .. Len(seqs(s)) : f[n] = f[n - 1] \o seqs(s)[n]
          /\ FlattenSeq(seqs(s)) = f[Len(seqs(s))]
    BY <1>1, FlattenSteps
  <2>2. Len(seqs(s)) = Len(s) /\ FlattenSeq(seqs(s)) = Flat(F, s)
    BY <1>1
  <2>3. f \in [0 .. Len(s) -> Seq(T)] /\ f[0] = <<>> /\ f[Len(s)] = Flat(F, s)
    BY <2>1, <2>2
  <2>4. \A n \in 1 .. Len(s) : f[n] = f[n - 1] \o F[s[n]]
    BY <1>1, <2>1, <2>2
  <2> QED
    BY <2>3, <2>4
<1>3. Flat(F, <<>>) = <<>>
  <2> DEFINE s == <<>>
  <2>1. s \in Seq(S) /\ Len(s) = 0
    OBVIOUS
  <2> HIDE DEF s
  <2>2. Flat(F, s) = <<>>
    BY <1>2, <2>1
  <2> QED
    BY <2>2 DEF s
<1>4. ASSUME NEW x \in S PROVE Flat(F, <<x>>) = F[x]
  <2> DEFINE s == <<x>>
  <2>1. s \in Seq(S) /\ Len(s) = 1 /\ s[1] = x
    OBVIOUS
  <2> HIDE DEF s
  <2>2. PICK f \in [0 .. Len(s) -> Seq(T)] :
                /\ f[0] = <<>> /\ f[Len(s)] = Flat(F, s)
                /\ \A n \in 1 .. Len(s) : f[n] = f[n - 1] \o F[s[n]]
    BY <1>2, <2>1
  <2>3. f[1] = f[0] \o F[x]
    BY <2>1, <2>2
  <2> QED
    BY <2>1, <2>2, <2>3, ConcatEmptySeq DEF s
<1>5. ASSUME NEW s \in Seq(S), NEW t \in Seq(S)
      PROVE  Flat(F, s) \in Seq(T) /\ Flat(F, s \o t) = Flat(F, s) \o Flat(F, t)
  <2> DEFINE u == s \o t
             m == Len(s)
             n == Len(t)
  <2>1. /\ u \in Seq(S) /\ Len(u) = m + n /\ m \in Nat /\ n \in Nat
        /\ \A i \in 1 .. m : u[i] = s[i] /\ s[i] \in S
        /\ \A i \in 1 .. n : u[m + i] = t[i] /\ t[i] \in S
    <3>1. /\ u \in Seq(S) /\ Len(u) = m + n
          /\ \A i \in 1 .. m + n : u[i] = IF i <= m THEN s[i] ELSE t[i - m]
      BY ConcatProperties
    <3>2. m \in Nat /\ n \in Nat
      OBVIOUS
    <3>3. \A i \in 1 .. n : m + i \in 1 .. m + n /\ ~(m + i <= m) /\ (m + i) - m = i
      BY <3>2
    <3>4. \A i \in 1 .. m : i \in 1 .. m + n /\ i <= m
      BY <3>2
    <3>5. (\A i \in 1 .. m : s[i] \in S) /\ (\A i \in 1 .. n : t[i] \in S)
      OBVIOUS
    <3> HIDE DEF u, m, n
    <3>6. \A i \in 1 .. n : u[m + i] = t[i]
      BY <3>1, <3>3
    <3> QED
      BY <3>1, <3>2, <3>4, <3>5, <3>6
  <2> HIDE DEF u, m, n
  <2>2. PICK f \in [0 .. m -> Seq(T)] :
                /\ f[0] = <<>> /\ f[m] = Flat(F, s)
                /\ \A i \in 1 .. m : f[i] = f[i - 1] \o F[s[i]]
    BY <1>2 DEF m
  <2>3. PICK g \in [0 .. n -> Seq(T)] :
                /\ g[0] = <<>> /\ g[n] = Flat(F, t)
                /\ \A i \in 1 .. n : g[i] = g[i - 1] \o F[t[i]]
    BY <1>2 DEF n
  <2>4. PICK h \in [0 .. m + n -> Seq(T)] :
                /\ h[0] = <<>> /\ h[m + n] = Flat(F, u)
                /\ \A i \in 1 .. m + n : h[i] = h[i - 1] \o F[u[i]]
    <3>1. u \in Seq(S)
      BY <2>1
    <3>2. PICK h \in [0 .. Len(u) -> Seq(T)] :
                /\ h[0] = <<>> /\ h[Len(u)] = Flat(F, u)
                /\ \A i \in 1 .. Len(u) : h[i] = h[i - 1] \o F[u[i]]
      BY <1>2, <3>1
    <3> QED
      BY <2>1, <3>2
  <2> DEFINE A == { i \in 0 .. m : h[i] = f[i] }
             B == { i \in 0 .. n : h[m + i] = f[m] \o g[i] }
  <2>5. 0 \in A
    BY <2>1, <2>2, <2>4
  <2>6. ASSUME NEW i \in 0 .. m - 1, i \in A PROVE i + 1 \in A
    <3>1. i + 1 \in 1 .. m /\ i + 1 \in 1 .. m + n /\ (i + 1) - 1 = i /\ i + 1 \in 0 .. m
      BY <2>1
    <3>2. h[i + 1] = h[i] \o F[u[i + 1]] /\ f[i + 1] = f[i] \o F[s[i + 1]]
      BY <2>2, <2>4, <3>1
    <3>3. h[i] = f[i] /\ u[i + 1] = s[i + 1]
      BY <2>1, <2>6, <3>1
    <3> QED
      BY <3>1, <3>2, <3>3
  <2>7. h[m] = f[m] /\ f[m] \in Seq(T)
    <3> HIDE DEF A
    <3>1. 0 .. m \subseteq A
      BY <2>1, <2>5, <2>6, UpTo
    <3>2. m \in A
      BY <2>1, <3>1
    <3> QED
      BY <2>1, <3>2 DEF A
  <2>8. 0 \in B
    <3>1. m + 0 = m /\ 0 \in 0 .. n
      BY <2>1
    <3>2. f[m] \o g[0] = f[m]
      BY <2>3, <2>7, ConcatEmptySeq
    <3> QED
      BY <2>7, <3>1, <3>2
  <2>9. ASSUME NEW i \in 0 .. n - 1, i \in B PROVE i + 1 \in B
    <3>1. /\ i \in 0 .. n /\ i + 1 \in 1 .. n /\ m + i + 1 \in 1 .. m + n
          /\ (i + 1) - 1 = i /\ i + 1 \in 0 .. n /\ (m + i + 1) - 1 = m + i /\ m + (i + 1) = m + i + 1
      BY <2>1
    <3>2. h[m + i + 1] = h[m + i] \o F[t[i + 1]] /\ g[i + 1] = g[i] \o F[t[i + 1]]
      <4>1. h[m + i + 1] = h[m + i] \o F[u[m + i + 1]]
        BY <2>4, <3>1
      <4>2. u[m + i + 1] = t[i + 1]
        BY <2>1, <3>1
      <4>3. g[i + 1] = g[i] \o F[t[i + 1]]
        BY <2>3, <3>1
      <4> QED
        BY <4>1, <4>2, <4>3
    <3>3. g[i] \in Seq(T) /\ F[t[i + 1]] \in Seq(T)
      BY <2>1, <2>3, <3>1
    <3>4. (f[m] \o g[i]) \o F[t[i + 1]] = f[m] \o (g[i] \o F[t[i + 1]])
      <4> DEFINE a == f[m]
                 b == g[i]
                 c == F[t[i + 1]]
      <4>1. a \in Seq(T) /\ b \in Seq(T) /\ c \in Seq(T)
        BY <2>7, <3>3
      <4> HIDE DEF a, b, c
      <4>2. (a \o b) \o c = a \o (b \o c)
        BY <4>1, ConcatAssociative, SMTT(30)
      <4> QED
        BY <4>2 DEF a, b, c
    <3>5. h[m + i] = f[m] \o g[i]
      BY <2>9
    <3> QED
      BY <3>1, <3>2, <3>4, <3>5
  <2>10. n \in B
    <3> HIDE DEF B
    <3>1. 0 .. n \subseteq B
      BY <2>1, <2>8, <2>9, UpTo
    <3> QED
      BY <2>1, <3>1
  <2> QED
    BY <2>1, <2>2, <2>3, <2>4, <2>7, <2>10 DEF u
<1> QED
  BY <1>3, <1>4, <1>5

-----------------------------------------------------------------------------
(* Levels side by side.                                                    *)

\* What is in each value.
Holding(V) == [v \in V |-> IF IsList(v) THEN v.of ELSE <<>>]

\* What is inside of no value, of one, and of values in two parts.
LEMMA InsideParts ==
    ASSUME NEW V, Universe(V)
    PROVE  /\ Inside(<<>>) = <<>>
           /\ \A v \in V : Inside(<<v>>) = IF IsList(v) THEN v.of ELSE <<>>
           /\ \A s, t \in Seq(V) : Inside(s \o t) = Inside(s) \o Inside(t)
<1> DEFINE F == Holding(V)
<1>1. ASSUME NEW s \in Seq(V) PROVE Inside(s) = Flat(F, s)
  <2>1. \A i \in DOMAIN s : s[i] \in V
    OBVIOUS
  <2>2. [i \in DOMAIN s |-> F[s[i]]] = Contents(s)
    BY <2>1 DEF Contents, Holding
  <2>3. Inside(s) = FlattenSeq(Contents(s))
    BY InsideHas
  <2> QED
    BY <2>2, <2>3 DEF Flat
<1>2. \A v \in V : F[v] = IF IsList(v) THEN v.of ELSE <<>>
  BY DEF Holding
<1>3. F \in [V -> Seq(V)]
  <2>1. \A v \in V : (IF IsList(v) THEN v.of ELSE <<>>) \in Seq(V)
    BY EmptySeq DEF Universe
  <2> QED
    BY <2>1 DEF Holding
<1> HIDE DEF F
<1>4. /\ Flat(F, <<>>) = <<>>
      /\ \A v \in V : Flat(F, <<v>>) = F[v]
      /\ \A s, t \in Seq(V) : Flat(F, s) \in Seq(V) /\ Flat(F, s \o t) = Flat(F, s) \o Flat(F, t)
  <2>1. \A T : F \in [V -> Seq(T)] =>
          /\ Flat(F, <<>>) = <<>>
          /\ \A v \in V : Flat(F, <<v>>) = F[v]
          /\ \A s, t \in Seq(V) : Flat(F, s) \in Seq(T) /\ Flat(F, s \o t) = Flat(F, s) \o Flat(F, t)
    BY FlatParts
  <2> QED
    BY <1>3, <2>1
<1>5. <<>> \in Seq(V) /\ (\A v \in V : <<v>> \in Seq(V)) /\ \A s, t \in Seq(V) : s \o t \in Seq(V)
  <2>1. \A s, t \in Seq(V) : s \o t \in Seq(V)
    BY ConcatProperties
  <2> QED
    BY <2>1
<1>6. Inside(<<>>) = <<>>
  BY <1>1, <1>4, <1>5
<1>7. \A v \in V : Inside(<<v>>) = IF IsList(v) THEN v.of ELSE <<>>
  BY <1>1, <1>2, <1>4, <1>5
<1>8. \A s, t \in Seq(V) : Inside(s \o t) = Inside(s) \o Inside(t)
  <2> SUFFICES ASSUME NEW s \in Seq(V), NEW t \in Seq(V)
               PROVE  Inside(s \o t) = Inside(s) \o Inside(t)
    OBVIOUS
  <2>1. s \o t \in Seq(V)
    BY <1>5
  <2>2. Inside(s) = Flat(F, s) /\ Inside(t) = Flat(F, t) /\ Inside(s \o t) = Flat(F, s \o t)
    BY <1>1, <2>1
  <2>3. Flat(F, s \o t) = Flat(F, s) \o Flat(F, t)
    BY <1>4
  <2> QED
    BY <2>2, <2>3
<1> QED
  BY <1>6, <1>7, <1>8

\* (A name for an equation: the provers do not find a use of one with \o in it.)
IsConcat(u, s, t) == u = s \o t

\* Every sequence is made from the empty one, one element after the other.
LEMMA OneByOne ==
    ASSUME NEW S, NEW s \in Seq(S), NEW N, N = Len(s), NEW f, f = [n \in 0 .. N |-> SubSeq(s, 1, n)]
    PROVE  /\ f[0] = <<>> /\ f[N] = s /\ \A n \in 0 .. N : f[n] \in Seq(S)
           /\ \A n \in 1 .. N : IsConcat(f[n], f[n - 1], <<s[n]>>)
<1>1. N \in Nat /\ \A i \in 1 .. N : s[i] \in S
  OBVIOUS
<1>2. \A n \in 0 .. N : f[n] = SubSeq(s, 1, n)
  OBVIOUS
<1>3. SubSeq(s, 1, 0) = <<>>
  BY SubSeqEmpty
<1>4. SubSeq(s, 1, N) = s
  BY SubSeqFull
<1>5. ASSUME NEW n \in 0 .. N PROVE SubSeq(s, 1, n) \in Seq(S)
  <2>1. n \in Int /\ \A i \in 1 .. n : i \in 1 .. N
    BY <1>1
  <2>2. \A i \in 1 .. n : s[i] \in S
    BY <1>1, <2>1
  <2>3. 1 \in Int
    OBVIOUS
  <2> QED
    BY <2>1, <2>2, <2>3, SubSeqProperties
<1>6. ASSUME NEW n \in 1 .. N PROVE IsConcat(SubSeq(s, 1, n), SubSeq(s, 1, n - 1), <<s[n]>>)
  <2>1. 1 \in 1 .. Len(s) /\ n \in 1 .. Len(s)
    BY <1>1
  <2>2. SubSeq(s, 1, n) = SubSeq(s, 1, n - 1) \o <<s[n]>>
    BY <2>1, SubSeqRecursiveSecond
  <2> QED
    BY <2>2 DEF IsConcat
<1>7. 0 \in 0 .. N /\ N \in 0 .. N /\ \A n \in 1 .. N : n \in 0 .. N /\ n - 1 \in 0 .. N
  BY <1>1
<1> QED
  BY <1>2, <1>3, <1>4, <1>5, <1>6, <1>7

\* The levels of two parts are side by side.
LEMMA LevelsParts ==
    ASSUME NEW V, Universe(V), NEW s \in Seq(V), NEW t \in Seq(V), NEW u \in Seq(V), IsConcat(u, s, t)
    PROVE  \A n \in Nat : IsConcat(Levels(u)[n], Levels(s)[n], Levels(t)[n])
<1> DEFINE f == Levels(s)
           g == Levels(t)
           h == Levels(u)
<1>1. /\ f \in [Nat -> Seq(V)] /\ f[0] = s /\ \A n \in Nat : f[n + 1] = Inside(f[n])
      /\ g \in [Nat -> Seq(V)] /\ g[0] = t /\ \A n \in Nat : g[n + 1] = Inside(g[n])
      /\ h[0] = u /\ \A n \in Nat : h[n + 1] = Inside(h[n])
  BY LevelsAre
<1> HIDE DEF f, g, h
<1> SUFFICES ASSUME NEW N \in Nat PROVE IsConcat(h[N], f[N], g[N])
  BY DEF f, g, h
<1> DEFINE T == { n \in 0 .. N : IsConcat(h[n], f[n], g[n]) }
<1>2. 0 \in T
  <2>1. h[0] = f[0] \o g[0]
    BY <1>1 DEF IsConcat
  <2>2. IsConcat(h[0], f[0], g[0])
    BY <2>1 DEF IsConcat
  <2> QED
    BY <2>2
<1>3. ASSUME NEW n \in 0 .. N - 1, n \in T PROVE n + 1 \in T
  <2>1. n \in Nat /\ n + 1 \in 0 .. N
    OBVIOUS
  <2> DEFINE p == f[n]
             q == g[n]
  <2>2. p \in Seq(V) /\ q \in Seq(V) /\ h[n] = p \o q
    BY <1>1, <1>3, <2>1 DEF IsConcat
  <2>3. f[n + 1] = Inside(p) /\ g[n + 1] = Inside(q) /\ h[n + 1] = Inside(h[n])
    BY <1>1, <2>1
  <2> HIDE DEF p, q
  <2>4. Inside(p \o q) = Inside(p) \o Inside(q)
    BY <2>2, InsideParts
  <2>5. h[n + 1] = f[n + 1] \o g[n + 1]
    BY <2>2, <2>3, <2>4
  <2> QED
    BY <2>1, <2>5 DEF IsConcat
<1> HIDE DEF T
<1>4. 0 .. N \subseteq T
  BY <1>2, <1>3, UpTo
<1>5. N \in T
  BY <1>4
<1> QED
  BY <1>5 DEF T

\* The levels of a list begin one above the levels of what it holds.
LEMMA LevelsOne ==
    ASSUME NEW V, Universe(V), NEW v \in V, IsList(v)
    PROVE  v.of \in Seq(V) /\ \A n \in Nat : Levels(<<v>>)[n + 1] = Levels(v.of)[n]
<1>1. v.of \in Seq(V) /\ <<v>> \in Seq(V)
  BY DEF Universe
<1> DEFINE f == Levels(<<v>>)
           g == Levels(v.of)
<1>2. /\ f[0] = <<v>> /\ \A n \in Nat : f[n + 1] = Inside(f[n])
      /\ g[0] = v.of /\ \A n \in Nat : g[n + 1] = Inside(g[n])
  BY <1>1, LevelsAre
<1>3. Inside(<<v>>) = v.of
  BY InsideParts
<1> HIDE DEF f, g
<1> SUFFICES ASSUME NEW N \in Nat PROVE f[N + 1] = g[N]
  BY <1>1 DEF f, g
<1> DEFINE T == { n \in 0 .. N : f[n + 1] = g[n] }
<1>4. 0 \in T
  <2>1. f[0 + 1] = Inside(f[0]) /\ 0 + 1 = 1
    BY <1>2
  <2> QED
    BY <1>2, <1>3, <2>1
<1>5. ASSUME NEW n \in 0 .. N - 1, n \in T PROVE n + 1 \in T
  <2>1. n \in Nat /\ n + 1 \in Nat /\ n + 1 \in 0 .. N
    OBVIOUS
  <2>2. f[(n + 1) + 1] = Inside(f[n + 1]) /\ g[n + 1] = Inside(g[n])
    BY <1>2, <2>1
  <2> QED
    BY <1>5, <2>1, <2>2
<1> HIDE DEF T
<1>6. 0 .. N \subseteq T
  BY <1>4, <1>5, UpTo
<1>7. N \in T
  BY <1>6
<1> QED
  BY <1>7 DEF T

\* Below an empty level there are empty levels.
LEMMA EmptyBelow ==
    ASSUME NEW V, Universe(V), NEW s \in Seq(V), NEW m \in Nat, Levels(s)[m] = <<>>,
           NEW N \in Nat, m <= N
    PROVE  Levels(s)[N] = <<>>
<1> DEFINE f == Levels(s)
           T == { k \in 0 .. N - m : f[m + k] = <<>> }
<1>1. f[m] = <<>> /\ \A n \in Nat : f[n + 1] = Inside(f[n])
  BY LevelsAre
<1>2. Inside(<<>>) = <<>>
  BY InsideParts
<1> HIDE DEF f
<1>3. N - m \in Nat /\ m + 0 = m /\ m + (N - m) = N
  OBVIOUS
<1>4. 0 \in T
  BY <1>1, <1>3
<1>5. ASSUME NEW k \in 0 .. (N - m) - 1, k \in T PROVE k + 1 \in T
  <2>1. m + k \in Nat /\ (m + k) + 1 = m + (k + 1) /\ k + 1 \in 0 .. N - m
    BY <1>3
  <2>2. f[(m + k) + 1] = Inside(f[m + k])
    BY <1>1, <2>1
  <2> QED
    BY <1>2, <1>5, <2>1, <2>2
<1> HIDE DEF T
<1>6. 0 .. N - m \subseteq T
  BY <1>3, <1>4, <1>5, UpTo
<1>7. N - m \in T
  BY <1>3, <1>6
<1> QED
  BY <1>3, <1>7 DEF T, f

-----------------------------------------------------------------------------
(* Alike and Equal.                                                        *)

\* One level and another.
LevelsAlike(l, r) == Len(l) = Len(r) /\ \A i \in DOMAIN l : NodesAlike(l[i], r[i])

\* What Alike says of the levels down to the first that is empty is so of all.
LEMMA AlikeIs ==
    ASSUME NEW V, Universe(V), NEW s \in Seq(V), NEW t \in Seq(V)
    PROVE  Alike(s, t) <=> \A n \in Nat : LevelsAlike(Levels(s)[n], Levels(t)[n])
<1> DEFINE D == Depth(s)
<1>1. D \in Nat /\ Levels(s)[D] = <<>>
  BY DepthIs
<1>2. Alike(s, t) <=> \A n \in 0 .. D : LevelsAlike(Levels(s)[n], Levels(t)[n])
  BY DEF Alike, LevelsAlike
<1> HIDE DEF D
<1>3. ASSUME \A n \in 0 .. D : LevelsAlike(Levels(s)[n], Levels(t)[n]), NEW n \in Nat
      PROVE  LevelsAlike(Levels(s)[n], Levels(t)[n])
  <2>1. CASE n <= D
    BY <1>1, <1>3, <2>1
  <2>2. CASE ~(n <= D)
    <3>1. Levels(t)[D] \in Seq(V)
      BY <1>1, LevelsAre
    <3>2. Len(Levels(s)[D]) = Len(Levels(t)[D])
      BY <1>1, <1>3 DEF LevelsAlike
    <3>3. Levels(t)[D] = <<>>
      BY <1>1, <3>1, <3>2
    <3>4. Levels(s)[n] = <<>> /\ Levels(t)[n] = <<>>
      BY <1>1, <2>2, <3>3, EmptyBelow
    <3> QED
      BY <3>4 DEF LevelsAlike
  <2> QED
    BY <2>1, <2>2
<1> QED
  BY <1>1, <1>2, <1>3

\* Values are alike themselves.
LEMMA AlikeSelf ==
    ASSUME NEW V, Universe(V), NEW s \in Seq(V)
    PROVE  Alike(s, s)
BY DEF Alike, NodesAlike

\* Values in two parts that are alike.
LEMMA AlikeJoin ==
    ASSUME NEW V, Universe(V), NEW s \in Seq(V), NEW t \in Seq(V), Alike(s, t),
           NEW u \in Seq(V), NEW w \in Seq(V), Alike(u, w),
           NEW su \in Seq(V), IsConcat(su, s, u), NEW tw \in Seq(V), IsConcat(tw, t, w)
    PROVE  Alike(su, tw)
<1> SUFFICES ASSUME NEW n \in Nat PROVE LevelsAlike(Levels(su)[n], Levels(tw)[n])
  BY AlikeIs
<1> DEFINE a == Levels(s)[n]
           b == Levels(t)[n]
           c == Levels(u)[n]
           d == Levels(w)[n]
<1>1. /\ Levels(s) \in [Nat -> Seq(V)] /\ Levels(t) \in [Nat -> Seq(V)]
      /\ Levels(u) \in [Nat -> Seq(V)] /\ Levels(w) \in [Nat -> Seq(V)]
  BY LevelsAre
<1>2. a \in Seq(V) /\ b \in Seq(V) /\ c \in Seq(V) /\ d \in Seq(V)
  BY <1>1
<1>3. LevelsAlike(a, b) /\ LevelsAlike(c, d)
  BY AlikeIs
<1>4. IsConcat(Levels(su)[n], a, c)
  BY LevelsParts
<1>5. IsConcat(Levels(tw)[n], b, d)
  BY LevelsParts
<1> HIDE DEF a, b, c, d
<1>6. /\ Len(a \o c) = Len(a) + Len(c)
      /\ \A i \in 1 .. Len(a) + Len(c) : (a \o c)[i] = IF i <= Len(a) THEN a[i] ELSE c[i - Len(a)]
  BY <1>2, ConcatProperties
<1>7. /\ Len(b \o d) = Len(b) + Len(d)
      /\ \A i \in 1 .. Len(b) + Len(d) : (b \o d)[i] = IF i <= Len(b) THEN b[i] ELSE d[i - Len(b)]
  BY <1>2, ConcatProperties
<1>8. /\ Len(a) = Len(b) /\ Len(c) = Len(d) /\ Len(a) \in Nat /\ Len(c) \in Nat
      /\ \A i \in 1 .. Len(a) : NodesAlike(a[i], b[i])
      /\ \A i \in 1 .. Len(c) : NodesAlike(c[i], d[i])
  <2>1. /\ Len(a) \in Nat /\ DOMAIN a = 1 .. Len(a)
        /\ Len(c) \in Nat /\ DOMAIN c = 1 .. Len(c)
    BY <1>2
  <2> QED
    BY <1>3, <2>1 DEF LevelsAlike
<1>9. a \o c \in Seq(V)
  BY <1>2, ConcatProperties
<1> DEFINE x == a \o c
           y == b \o d
<1>10. ASSUME NEW i \in 1 .. Len(a) + Len(c) PROVE NodesAlike(x[i], y[i])
  <2>1. CASE i <= Len(a)
    BY <1>6, <1>7, <1>8, <2>1
  <2>2. CASE ~(i <= Len(a))
    <3>1. i - Len(a) \in 1 .. Len(c)
      BY <1>8, <2>2
    <3> QED
      BY <1>6, <1>7, <1>8, <2>2, <3>1
  <2> QED
    BY <2>1, <2>2
<1>11. Len(x) = Len(y) /\ DOMAIN x = 1 .. Len(a) + Len(c)
  BY <1>6, <1>7, <1>8, <1>9
<1> HIDE DEF x, y
<1>12. LevelsAlike(x, y)
  BY <1>10, <1>11 DEF LevelsAlike
<1> QED
  BY <1>4, <1>5, <1>12 DEF x, y, IsConcat

\* Values that are alike one by one.
LEMMA AlikeEach ==
    ASSUME NEW V, Universe(V), NEW s \in Seq(V), NEW t \in Seq(V), Len(s) = Len(t),
           \A i \in DOMAIN s : Alike(<<s[i]>>, <<t[i]>>)
    PROVE  Alike(s, t)
<1> DEFINE N == Len(s)
           f == [n \in 0 .. N |-> SubSeq(s, 1, n)]
           g == [n \in 0 .. N |-> SubSeq(t, 1, n)]
<1>1. N \in Nat /\ Len(t) = N /\ \A i \in 1 .. N : s[i] \in V /\ t[i] \in V /\ Alike(<<s[i]>>, <<t[i]>>)
  OBVIOUS
<1>2. /\ f[0] = <<>> /\ f[N] = s /\ \A n \in 0 .. N : f[n] \in Seq(V)
      /\ \A n \in 1 .. N : IsConcat(f[n], f[n - 1], <<s[n]>>)
  BY <1>1, OneByOne
<1>3. /\ g[0] = <<>> /\ g[N] = t /\ \A n \in 0 .. N : g[n] \in Seq(V)
      /\ \A n \in 1 .. N : IsConcat(g[n], g[n - 1], <<t[n]>>)
  BY <1>1, OneByOne
<1> HIDE DEF f, g, N
<1> DEFINE T == { n \in 0 .. N : Alike(f[n], g[n]) }
<1>4. 0 \in T
  <2>1. 0 \in 0 .. N /\ f[0] \in Seq(V) /\ f[0] = g[0]
    BY <1>1, <1>2, <1>3
  <2> QED
    BY <2>1, AlikeSelf
<1>5. ASSUME NEW n \in 0 .. N - 1, n \in T PROVE n + 1 \in T
  <2>1. n \in 0 .. N /\ n + 1 \in 0 .. N /\ n + 1 \in 1 .. N /\ (n + 1) - 1 = n
    BY <1>1
  <2> DEFINE u == <<s[n + 1]>>
             w == <<t[n + 1]>>
  <2>2. u \in Seq(V) /\ w \in Seq(V) /\ Alike(u, w)
    BY <1>1, <2>1
  <2>3. IsConcat(f[n + 1], f[n], u) /\ IsConcat(g[n + 1], g[n], w)
    BY <1>2, <1>3, <2>1
  <2>4. f[n] \in Seq(V) /\ g[n] \in Seq(V) /\ f[n + 1] \in Seq(V) /\ g[n + 1] \in Seq(V)
    BY <1>2, <1>3, <2>1
  <2>5. Alike(f[n], g[n])
    BY <1>5
  <2> HIDE DEF u, w
  <2>6. Alike(f[n + 1], g[n + 1])
    BY <2>2, <2>3, <2>4, <2>5, AlikeJoin
  <2> QED
    BY <2>1, <2>6
<1> HIDE DEF T
<1>6. 0 .. N \subseteq T
  BY <1>1, <1>4, <1>5, UpTo
<1>7. N \in T
  BY <1>1, <1>6
<1> QED
  BY <1>2, <1>3, <1>7 DEF T

\* Lists are alike when what they hold is.
LEMMA AlikeLists ==
    ASSUME NEW V, Universe(V), NEW l \in V, NEW r \in V, IsList(l), IsList(r), Alike(l.of, r.of)
    PROVE  Alike(<<l>>, <<r>>)
<1>1. <<l>> \in Seq(V) /\ <<r>> \in Seq(V) /\ l.of \in Seq(V) /\ r.of \in Seq(V)
  BY DEF Universe
<1> SUFFICES ASSUME NEW n \in Nat PROVE LevelsAlike(Levels(<<l>>)[n], Levels(<<r>>)[n])
  BY <1>1, AlikeIs
<1>2. \A k \in Nat : LevelsAlike(Levels(l.of)[k], Levels(r.of)[k])
  BY <1>1, AlikeIs
<1>3. CASE n = 0
  <2>1. Levels(l.of)[0] = l.of /\ Levels(r.of)[0] = r.of
    BY <1>1, LevelsAre
  <2>2. Len(l.of) = Len(r.of)
    BY <1>2, <2>1 DEF LevelsAlike
  <2>3. NodesAlike(l, r)
    BY <2>2 DEF NodesAlike, IsList
  <2>4. Levels(<<l>>)[n] = <<l>> /\ Levels(<<r>>)[n] = <<r>>
    BY <1>1, <1>3, LevelsAre
  <2>5. LevelsAlike(<<l>>, <<r>>)
    BY <2>3 DEF LevelsAlike
  <2> QED
    BY <2>4, <2>5
<1>4. CASE n # 0
  <2>1. n - 1 \in Nat /\ (n - 1) + 1 = n
    BY <1>4
  <2>2. Levels(<<l>>)[n] = Levels(l.of)[n - 1]
    BY <2>1, LevelsOne
  <2>3. Levels(<<r>>)[n] = Levels(r.of)[n - 1]
    BY <2>1, LevelsOne
  <2> QED
    BY <1>2, <2>1, <2>2, <2>3
<1> QED
  BY <1>3, <1>4

\* A universe that has one zero at most.
OneZero(V) == \A v, w \in V : v.kind = "double" /\ w.kind = "double" /\ {v.of, w.of} \subseteq Zeros => v = w

\* Two levels that are alike with one zero at most, and what is inside of them
\* the same.
LEMMA AlikeNodesSame ==
    ASSUME NEW V, Universe(V), OneZero(V), NEW s \in Seq(V), NEW t \in Seq(V),
           LevelsAlike(s, t), Inside(s) = Inside(t)
    PROVE  s = t
<1>0. Len(s) = Len(t) /\ \A i \in DOMAIN s : NodesAlike(s[i], t[i])
  BY DEF LevelsAlike
<1>1. /\ Len(s) \in Nat /\ DOMAIN s = 1 .. Len(s) /\ DOMAIN t = 1 .. Len(s)
      /\ \A i \in DOMAIN s : s[i] \in V /\ t[i] \in V
  BY <1>0
<1>2. /\ Contents(s) \in Seq(Seq(V)) /\ Len(Contents(s)) = Len(s)
      /\ Contents(t) \in Seq(Seq(V)) /\ Len(Contents(t)) = Len(s)
      /\ FlattenSeq(Contents(s)) = FlattenSeq(Contents(t))
  BY <1>0, InsideHas
<1>3. \A i \in 1 .. Len(s) : Len(Contents(s)[i]) = Len(Contents(t)[i])
  BY <1>0, <1>1 DEF Contents, NodesAlike, IsList
<1>4. Contents(s) = Contents(t)
  BY <1>2, <1>3, FlattenParts
<1>5. ASSUME NEW i \in DOMAIN s PROVE s[i] = t[i]
  <2> DEFINE l == s[i]
             r == t[i]
  <2> SUFFICES l = r
    OBVIOUS
  <2>1. /\ l \in V /\ r \in V /\ NodesAlike(l, r)
        /\ l = [kind |-> l.kind, of |-> l.of] /\ r = [kind |-> r.kind, of |-> r.of]
    BY <1>0, <1>1 DEF Universe
  <2>2. IsList(l) /\ IsList(r) => l.of = r.of
    BY <1>1, <1>4 DEF Contents
  <2> HIDE DEF l, r
  <2>3. l.kind = r.kind
    BY <2>1 DEF NodesAlike
  <2>4. l.of = r.of => l = r
    <3> SUFFICES ASSUME l.of = r.of PROVE l = r
      OBVIOUS
    <3>1. [kind |-> l.kind, of |-> l.of] = [kind |-> r.kind, of |-> r.of]
      BY <2>3
    <3> QED
      BY <2>1, <3>1, Zenon
  <2>5. CASE IsList(l)
    <3>1. IsList(r)
      BY <2>3, <2>5 DEF IsList
    <3> QED
      BY <2>2, <2>4, <2>5, <3>1
  <2>6. CASE ~IsList(l)
    <3>1. l.of = r.of \/ (l.kind = "double" /\ {l.of, r.of} \subseteq Zeros)
      BY <2>1, <2>6 DEF NodesAlike
    <3>2. l.kind = "double" /\ {l.of, r.of} \subseteq Zeros => l = r
      BY <2>1, <2>3 DEF OneZero
    <3> QED
      BY <2>4, <3>1, <3>2
  <2> QED
    BY <2>5, <2>6
<1> QED
  BY <1>0, <1>1, <1>5, SeqEqual

\* With one zero at most, values that are alike are the same.
LEMMA AlikeIsSame ==
    ASSUME NEW V, Universe(V), OneZero(V), NEW s \in Seq(V), NEW t \in Seq(V), Alike(s, t)
    PROVE  s = t
<1> DEFINE D == Depth(s)
           left == Levels(s)
           right == Levels(t)
<1>1. /\ left \in [Nat -> Seq(V)] /\ left[0] = s
      /\ \A n \in Nat : left[n + 1] = Inside(left[n])
  BY LevelsAre
<1>2. /\ right \in [Nat -> Seq(V)] /\ right[0] = t
      /\ \A n \in Nat : right[n + 1] = Inside(right[n])
  BY LevelsAre
<1>3. D \in Nat /\ left[D] = <<>>
  BY DepthIs
<1>4. \A n \in Nat : LevelsAlike(left[n], right[n])
  BY AlikeIs
<1> HIDE DEF D, left, right
<1>5. right[D] = <<>>
  <2>1. right[D] \in Seq(V) /\ Len(right[D]) = 0
    BY <1>2, <1>3, <1>4 DEF LevelsAlike
  <2> QED
    BY <2>1
<1> DEFINE T == { k \in 0 .. D : left[D - k] = right[D - k] }
<1>6. 0 \in T
  <2>1. D - 0 = D /\ 0 \in 0 .. D
    BY <1>3
  <2> QED
    BY <1>3, <1>5, <2>1
<1>7. ASSUME NEW k \in 0 .. D - 1, k \in T PROVE k + 1 \in T
  <2> DEFINE n == D - (k + 1)
  <2>1. n \in Nat /\ n + 1 = D - k /\ k + 1 \in 0 .. D
    BY <1>3
  <2>2. left[n + 1] = right[n + 1]
    BY <1>7, <2>1
  <2>3. n = D - (k + 1)
    OBVIOUS
  <2> HIDE DEF n
  <2>4. left[n] \in Seq(V) /\ right[n] \in Seq(V) /\ Inside(left[n]) = Inside(right[n])
    BY <1>1, <1>2, <2>1, <2>2
  <2>5. left[n] = right[n]
    BY <1>4, <2>1, <2>4, AlikeNodesSame
  <2> QED
    BY <2>1, <2>3, <2>5
<1> HIDE DEF T
<1>8. 0 .. D \subseteq T
  BY <1>3, <1>6, <1>7, UpTo
<1>9. D \in T /\ D - D = 0
  BY <1>3, <1>8
<1> QED
  BY <1>1, <1>2, <1>9 DEF T

\* What Equal calls equal is the same at every depth but for the sign of a zero,
\* which == does not see (value.go:50): the same value, if there is one zero.
THEOREM EqualIsAlike ==
    ASSUME NEW V, Universe(V), NEW l \in V, NEW r \in V, Equal(l, r)
    PROVE  /\ Alike(<<l>>, <<r>>)
           /\ OneZero(V) => l = r
<1> DEFINE D == Depth(<<l>>)
           left == Levels(<<l>>)
           right == Levels(<<r>>)
<1>1. <<l>> \in Seq(V) /\ <<r>> \in Seq(V)
  OBVIOUS
<1>2. /\ left \in [Nat -> Seq(V)] /\ left[0] = <<l>>
      /\ \A n \in Nat : left[n + 1] = Inside(left[n])
  BY <1>1, LevelsAre
<1>3. /\ right \in [Nat -> Seq(V)] /\ right[0] = <<r>>
      /\ \A n \in Nat : right[n + 1] = Inside(right[n])
  BY <1>1, LevelsAre
<1>4. D \in Nat /\ left[D] = <<>>
  BY <1>1, DepthIs
<1>5. D # 0
  <2>1. left[0] = <<l>> /\ <<l>> # <<>>
    BY <1>2
  <2> QED
    BY <1>4, <2>1
<1>6. SameNode(l, r) /\ (IsList(l) => \A n \in 1 .. D - 1 :
        Len(left[n]) = Len(right[n]) /\ \A i \in DOMAIN left[n] : SameNode(left[n][i], right[n][i]))
  BY DEF Equal
<1>7. ~IsList(l) => D = 1
  <2> SUFFICES ASSUME ~IsList(l), D # 1 PROVE FALSE
    OBVIOUS
  <2>1. \A i \in DOMAIN <<l>> : <<l>>[i] = l
    OBVIOUS
  <2>2. Inside(<<l>>) = <<>>
    BY <1>1, <2>1, InsideHas
  <2>3. left[0 + 1] = <<>>
    BY <1>2, <2>2
  <2>4. 1 \in 0 .. Depth(<<l>>) - 1
    BY <1>4, <1>5
  <2>5. left[1] # <<>>
    BY <1>1, <2>4, DepthIs
  <2> QED
    BY <2>3, <2>5
<1> HIDE DEF D, left, right
<1>8. ASSUME NEW n \in 0 .. D - 1
      PROVE  /\ Len(left[n]) = Len(right[n])
             /\ \A i \in DOMAIN left[n] : SameNode(left[n][i], right[n][i])
  <2>1. CASE n = 0
    <3>1. left[n] = <<l>> /\ right[n] = <<r>>
      BY <1>2, <1>3, <2>1
    <3>2. Len(<<l>>) = 1 /\ Len(<<r>>) = 1 /\ \A i \in DOMAIN <<l>> : i = 1
      OBVIOUS
    <3>3. <<l>>[1] = l /\ <<r>>[1] = r
      OBVIOUS
    <3> QED
      BY <1>6, <3>1, <3>2, <3>3
  <2>2. CASE n # 0
    <3>1. n \in 1 .. D - 1 /\ D # 1
      BY <1>4, <2>2
    <3> QED
      BY <1>6, <1>7, <3>1
  <2> QED
    BY <2>1, <2>2
<1>9. right[D] = <<>>
  <2> DEFINE n == D - 1
  <2>1. n \in 0 .. D - 1 /\ n \in Nat /\ n + 1 = D
    BY <1>4, <1>5
  <2> HIDE DEF n
  <2>2. left[n] \in Seq(V) /\ right[n] \in Seq(V)
    BY <1>2, <1>3, <2>1
  <2>3. Inside(left[n]) = <<>>
    BY <1>2, <1>4, <2>1
  <2>4. \A i \in DOMAIN left[n] : IsList(left[n][i]) => left[n][i].of = <<>>
    BY <2>2, <2>3, InsideHas
  <2>5. \A i \in DOMAIN right[n] : IsList(right[n][i]) => right[n][i].of = <<>>
    <3> SUFFICES ASSUME NEW i \in DOMAIN right[n], IsList(right[n][i])
                 PROVE  right[n][i].of = <<>>
      OBVIOUS
    <3>1. i \in DOMAIN left[n]
      BY <1>8, <2>1, <2>2
    <3>2. SameNode(left[n][i], right[n][i])
      BY <1>8, <2>1, <3>1
    <3>3. IsList(left[n][i]) /\ Len(left[n][i].of) = Len(right[n][i].of)
      BY <3>2 DEF SameNode, IsList
    <3>4. Len(right[n][i].of) = 0
      BY <2>4, <3>1, <3>3
    <3>5. right[n][i].of \in Seq(V)
      BY <2>2 DEF Universe
    <3> QED
      BY <3>4, <3>5
  <2>6. Inside(right[n]) = <<>>
    BY <2>2, <2>5, InsideHas
  <2> QED
    BY <1>3, <2>1, <2>6
<1>10. ASSUME NEW p \in V, NEW q \in V, SameNode(p, q) PROVE NodesAlike(p, q)
  <2>1. p.kind = q.kind
    BY <1>10 DEF SameNode
  <2>2. CASE IsList(p)
    BY <1>10, <2>2 DEF SameNode, NodesAlike
  <2>3. CASE p.kind \in ScalarKinds
    BY <1>10, <2>1, <2>3 DEF SameNode, NodesAlike, SameScalar, IsList, ScalarKinds
  <2>4. CASE p.kind \notin ScalarKinds \cup {"list"}
    <3>1. p \in {NoKind, NilValue} /\ q \in {NoKind, NilValue}
      BY <2>1, <2>4 DEF Universe
    <3>2. NoKind.of = NilValue.of
      BY DEF NoKind, NilValue
    <3>3. p.of = q.of
      BY <3>1, <3>2
    <3>4. ~IsList(p)
      BY <2>4 DEF IsList
    <3> QED
      BY <2>1, <3>3, <3>4 DEF NodesAlike
  <2> QED
    BY <2>2, <2>3, <2>4 DEF IsList
<1>11. ASSUME NEW n \in 0 .. D - 1 PROVE LevelsAlike(left[n], right[n])
  <2>0. n \in Nat
    BY <1>4
  <2>1. left[n] \in Seq(V) /\ right[n] \in Seq(V)
    BY <1>2, <1>3, <2>0
  <2>2. \A i \in DOMAIN left[n] : left[n][i] \in V /\ right[n][i] \in V
    BY <1>8, <2>1
  <2> QED
    BY <1>8, <1>10, <2>2 DEF LevelsAlike
<1>12. LevelsAlike(left[D], right[D])
  BY <1>4, <1>9 DEF LevelsAlike
<1>13. \A n \in 0 .. D : LevelsAlike(left[n], right[n])
  <2>1. \A n \in 0 .. D : n \in 0 .. D - 1 \/ n = D
    BY <1>4
  <2> QED
    BY <1>11, <1>12, <2>1
<1>14. Alike(<<l>>, <<r>>)
  BY <1>13 DEF Alike, LevelsAlike, D, left, right
<1>15. ASSUME OneZero(V) PROVE l = r
  <2>1. <<l>> = <<r>>
    BY <1>1, <1>14, <1>15, AlikeIsSame
  <2> QED
    BY <2>1
<1> QED
  BY <1>14, <1>15

\* Of the values with nothing inside, only NaN differs from itself.
LEMMA SelfUnequalIsNaN ==
    ASSUME NEW V, Universe(V), NEW l \in V, ~IsList(l), ~Equal(l, l)
    PROVE  l = Scalar("double", NaN)
<1>1. ~SameNode(l, l)
  BY DEF Equal
<1>2. l.kind = "double" /\ l.of = NaN
  BY <1>1 DEF SameNode, SameScalar
<1> QED
  BY <1>2 DEF Universe, Scalar

-----------------------------------------------------------------------------
(* Walk and Replace, along the path.                                       *)

\* The paths ApplyPath takes: they have an index.
Path == Seq(Nat) \ {<<>>}

\* What is at an index is a list of values.
LEMMA ListAtTyped ==
    ASSUME NEW V, Universe(V), NEW values \in Seq(V), NEW index \in Nat
    PROVE  ListAt(values, index) \in Seq(V)
<1>1. InRange(values, index) => values[index + 1] \in V
  BY DEF InRange
<1> QED
  BY <1>1, EmptySeq DEF ListAt, Universe

\* The lists a path leads through: the values, then what is at each index.
LEMMA WalkIs ==
    ASSUME NEW V, Universe(V), NEW values \in Seq(V), NEW path \in Seq(Nat)
    PROVE  /\ Walk(values, path) \in [0 .. Len(path) -> Seq(V)]
           /\ Walk(values, path)[0] = values
           /\ \A k \in 1 .. Len(path) :
                 Walk(values, path)[k] = ListAt(Walk(values, path)[k - 1], path[k])
<1> DEFINE N == Len(path)
           next == [k \in 1 .. N |-> [list \in Seq(V) |-> ListAt(list, path[k])]]
           walk == CHOOSE f : f = [k \in 0 .. N |->
                                     IF k = 0 THEN values ELSE ListAt(f[k - 1], path[k])]
<1>1. N \in Nat /\ \A k \in 1 .. N : path[k] \in Nat
  OBVIOUS
<1>2. next \in [1 .. N -> [Seq(V) -> Seq(V)]]
  BY <1>1, ListAtTyped
<1>3. Walk(values, path) = walk
  BY DEF Walk
<1>4. walk = CHOOSE f : f = [k \in 0 .. N |->
                                IF k = 0 THEN values ELSE ListAt(f[k - 1], path[k])]
  OBVIOUS
<1>5. PICK f : Iterated(f, N, Seq(V), values, next)
  <2> HIDE DEF next, N
  <2> QED
    BY <1>1, <1>2, Iterates
<1>6. /\ f \in [0 .. N -> Seq(V)] /\ f[0] = values
      /\ \A k \in 1 .. N : f[k] = ListAt(f[k - 1], path[k])
  <2>1. /\ f \in [0 .. N -> Seq(V)] /\ f[0] = values
        /\ \A k \in 1 .. N : f[k] = next[k][f[k - 1]]
    BY <1>5 DEF Iterated
  <2>2. \A k \in 1 .. N : k - 1 \in 0 .. N
    BY <1>1
  <2> QED
    BY <2>1, <2>2
<1> HIDE DEF N, next, walk
<1>7. f = [k \in 0 .. N |-> IF k = 0 THEN values ELSE ListAt(f[k - 1], path[k])]
  <2>1. \A k \in 0 .. N : f[k] = IF k = 0 THEN values ELSE ListAt(f[k - 1], path[k])
    BY <1>1, <1>6
  <2>2. f = [k \in 0 .. N |-> f[k]]
    BY <1>6
  <2> QED
    BY <2>1, <2>2
<1>8. walk = [k \in 0 .. N |-> IF k = 0 THEN values ELSE ListAt(walk[k - 1], path[k])]
  BY <1>4, <1>7
<1> DEFINE T == { k \in 0 .. N : walk[k] = f[k] }
<1>9. 0 \in T
  <2>1. 0 \in 0 .. N
    BY <1>1
  <2>2. walk[0] = values
    BY <1>8, <2>1
  <2> QED
    BY <1>6, <2>1, <2>2
<1>10. ASSUME NEW k \in 0 .. N - 1, k \in T PROVE k + 1 \in T
  <2>1. k + 1 \in 1 .. N /\ k + 1 \in 0 .. N /\ k + 1 # 0 /\ (k + 1) - 1 = k
    BY <1>1
  <2>2. f[k + 1] = ListAt(f[k], path[k + 1])
    BY <1>6, <2>1
  <2>3. walk[k + 1] = ListAt(walk[k], path[k + 1])
    BY <1>8, <2>1
  <2> QED
    BY <1>10, <2>1, <2>2, <2>3
<1> HIDE DEF T
<1>11. 0 .. N \subseteq T
  BY <1>1, <1>9, <1>10, UpTo
<1>12. walk = f
  <2>1. \A k \in 0 .. N : walk[k] = f[k]
    BY <1>11 DEF T
  <2>2. f = [k \in 0 .. N |-> f[k]] /\ walk = [k \in 0 .. N |-> walk[k]]
    BY <1>6, <1>8
  <2> QED
    BY <2>1, <2>2
<1> QED
  BY <1>3, <1>6, <1>12 DEF N

\* How far two paths agree, they lead through the same lists.
LEMMA WalkAgrees ==
    ASSUME NEW V, Universe(V), NEW values \in Seq(V), NEW p \in Seq(Nat), NEW q \in Seq(Nat),
           NEW c \in Nat, c <= Len(p), c <= Len(q), \A i \in 1 .. c : p[i] = q[i]
    PROVE  \A k \in 0 .. c : Walk(values, p)[k] = Walk(values, q)[k]
<1> DEFINE P == Walk(values, p)
           Q == Walk(values, q)
           T == { k \in 0 .. c : P[k] = Q[k] }
<1>1. Len(p) \in Nat /\ Len(q) \in Nat
  OBVIOUS
<1>2. /\ P[0] = values /\ Q[0] = values
      /\ \A k \in 1 .. Len(p) : P[k] = ListAt(P[k - 1], p[k])
      /\ \A k \in 1 .. Len(q) : Q[k] = ListAt(Q[k - 1], q[k])
  BY WalkIs
<1> HIDE DEF P, Q
<1>3. 0 \in T
  BY <1>2
<1>4. ASSUME NEW k \in 0 .. c - 1, k \in T PROVE k + 1 \in T
  <2>1. /\ k + 1 \in 1 .. Len(p) /\ k + 1 \in 1 .. Len(q) /\ k + 1 \in 1 .. c
        /\ k + 1 \in 0 .. c /\ (k + 1) - 1 = k
    BY <1>1
  <2>2. P[k + 1] = ListAt(P[k], p[k + 1]) /\ Q[k + 1] = ListAt(Q[k], q[k + 1])
    BY <1>2, <2>1
  <2>3. p[k + 1] = q[k + 1]
    BY <2>1
  <2> QED
    BY <1>4, <2>1, <2>2, <2>3
<1> HIDE DEF T
<1>5. 0 .. c \subseteq T
  BY <1>3, <1>4, UpTo
<1> QED
  BY <1>5 DEF T, P, Q

\* One index along a path that reaches: the value there is in range, and on the
\* way to another it is a list.
LEMMA OnTheWay ==
    ASSUME NEW V, Universe(V), NEW values \in Seq(V), NEW path \in Seq(Nat), Reaches(values, path),
           NEW k \in 1 .. Len(path)
    PROVE  LET list == Walk(values, path)[k - 1] IN
           /\ list \in Seq(V)
           /\ path[k] + 1 \in DOMAIN list
           /\ list[path[k] + 1] \in V
           /\ k < Len(path) => /\ IsList(list[path[k] + 1])
                               /\ Walk(values, path)[k] = list[path[k] + 1].of
<1> DEFINE list == Walk(values, path)[k - 1]
<1>1. Len(path) \in Nat /\ k - 1 \in 0 .. Len(path) /\ path[k] \in Nat
  OBVIOUS
<1>2. list \in Seq(V) /\ Walk(values, path)[k] = ListAt(list, path[k])
  <2>1. Walk(values, path) \in [0 .. Len(path) -> Seq(V)]
    BY WalkIs
  <2>2. Walk(values, path)[k] = ListAt(list, path[k])
    BY WalkIs
  <2> QED
    BY <1>1, <2>1, <2>2
<1>3. InRange(list, path[k]) /\ (k < Len(path) => IsList(list[path[k] + 1]))
  BY DEF Reaches
<1> HIDE DEF list
<1>4. path[k] + 1 \in DOMAIN list /\ list[path[k] + 1] \in V
  BY <1>1, <1>2, <1>3 DEF InRange
<1>5. k < Len(path) => Walk(values, path)[k] = list[path[k] + 1].of
  BY <1>2, <1>3 DEF ListAt
<1> QED
  BY <1>2, <1>3, <1>4, <1>5 DEF list

\* Another value at an index leaves a list as long as it was.
LEMMA ExceptTyped ==
    ASSUME NEW V, NEW s \in Seq(V), NEW e \in V, NEW i
    PROVE  /\ [s EXCEPT ![i] = e] \in Seq(V)
           /\ Len([s EXCEPT ![i] = e]) = Len(s)
           /\ DOMAIN [s EXCEPT ![i] = e] = DOMAIN s
<1>1. CASE i \in 1 .. Len(s)
  BY <1>1, ExceptSeq
<1>2. CASE i \notin 1 .. Len(s)
  <2>1. [s EXCEPT ![i] = e] = s
    BY <1>2
  <2> QED
    BY <2>1
<1> QED
  BY <1>1, <1>2

\* The lists Replace puts together, from the inside out.
Rebuilt(made, values, path, replacement) ==
    LET n == Len(path) IN
    /\ made[0] = replacement
    /\ \A k \in 1 .. n :
          made[k] = List([Walk(values, path)[n - k] EXCEPT ![path[n - k + 1] + 1] = made[k - 1]])
    /\ Replace(values, path, replacement) = made[n].of

\* The lists that Replace rebuilds, from the last one of the path up.
LEMMA ReplaceIs ==
    ASSUME NEW V, Universe(V), NEW values \in Seq(V), NEW path \in Seq(Nat), NEW replacement \in V
    PROVE  \E made \in [0 .. Len(path) -> V] : Rebuilt(made, values, path, replacement)
<1> DEFINE N == Len(path)
           list == Walk(values, path)
           next == [k \in 1 .. N |-> [v \in V |->
                      List([list[N - k] EXCEPT ![path[N - k + 1] + 1] = v])]]
           made == CHOOSE f : f = [k \in 0 .. N |->
                      IF k = 0
                      THEN replacement
                      ELSE List([list[N - k] EXCEPT ![path[N - k + 1] + 1] = f[k - 1]])]
<1>1. N \in Nat /\ list \in [0 .. N -> Seq(V)]
  BY WalkIs
<1>2. next \in [1 .. N -> [V -> V]]
  <2> SUFFICES ASSUME NEW k \in 1 .. N, NEW v \in V
               PROVE  List([list[N - k] EXCEPT ![path[N - k + 1] + 1] = v]) \in V
    OBVIOUS
  <2>1. list[N - k] \in Seq(V)
    <3>1. N - k \in 0 .. N
      BY <1>1
    <3> HIDE DEF N, list
    <3> QED
      BY <1>1, <3>1
  <2> HIDE DEF list, N
  <2>2. [list[N - k] EXCEPT ![path[N - k + 1] + 1] = v] \in Seq(V)
    BY <2>1, ExceptTyped
  <2> QED
    BY <2>2 DEF Universe
<1>3. Replace(values, path, replacement) = made[N].of
  BY DEF Replace
<1>4. made = CHOOSE f : f = [k \in 0 .. N |->
                      IF k = 0
                      THEN replacement
                      ELSE List([list[N - k] EXCEPT ![path[N - k + 1] + 1] = f[k - 1]])]
  OBVIOUS
<1>5. PICK f : Iterated(f, N, V, replacement, next)
  <2> HIDE DEF next, N
  <2> QED
    BY <1>1, <1>2, Iterates
<1>6. /\ f \in [0 .. N -> V] /\ f[0] = replacement
      /\ \A k \in 1 .. N : f[k] = List([list[N - k] EXCEPT ![path[N - k + 1] + 1] = f[k - 1]])
  <2>1. /\ f \in [0 .. N -> V] /\ f[0] = replacement
        /\ \A k \in 1 .. N : f[k] = next[k][f[k - 1]]
    BY <1>5 DEF Iterated
  <2>2. \A k \in 1 .. N : k - 1 \in 0 .. N
    BY <1>1
  <2> HIDE DEF list, N
  <2> QED
    BY <2>1, <2>2
<1> HIDE DEF N, next, made, list
<1>7. f = [k \in 0 .. N |->
             IF k = 0
             THEN replacement
             ELSE List([list[N - k] EXCEPT ![path[N - k + 1] + 1] = f[k - 1]])]
  <2>1. \A k \in 0 .. N : f[k] =
             IF k = 0
             THEN replacement
             ELSE List([list[N - k] EXCEPT ![path[N - k + 1] + 1] = f[k - 1]])
    <3> SUFFICES ASSUME NEW k \in 0 .. N
                 PROVE  f[k] = IF k = 0
                               THEN replacement
                               ELSE List([list[N - k] EXCEPT ![path[N - k + 1] + 1] = f[k - 1]])
      OBVIOUS
    <3>1. CASE k = 0
      BY <1>6, <3>1
    <3>2. CASE k # 0
      <4>1. k \in 1 .. N
        BY <1>1, <3>2
      <4>2. f[k] = List([list[N - k] EXCEPT ![path[N - k + 1] + 1] = f[k - 1]])
        BY <1>6, <4>1
      <4> QED
        BY <3>2, <4>2
    <3> QED
      BY <3>1, <3>2
  <2>2. f = [k \in 0 .. N |-> f[k]]
    BY <1>6
  <2> QED
    BY <2>1, <2>2
<1>8. made = [k \in 0 .. N |->
             IF k = 0
             THEN replacement
             ELSE List([list[N - k] EXCEPT ![path[N - k + 1] + 1] = made[k - 1]])]
  BY <1>4, <1>7
<1> DEFINE T == { k \in 0 .. N : made[k] = f[k] }
<1>9. 0 \in T
  <2>1. 0 \in 0 .. N
    BY <1>1
  <2> QED
    BY <1>6, <1>8, <2>1
<1>10. ASSUME NEW k \in 0 .. N - 1, k \in T PROVE k + 1 \in T
  <2>1. k + 1 \in 1 .. N /\ k + 1 \in 0 .. N /\ k + 1 # 0 /\ (k + 1) - 1 = k
    BY <1>1
  <2>2. f[k + 1] = List([list[N - (k + 1)] EXCEPT ![path[N - (k + 1) + 1] + 1] = f[k]])
    BY <1>6, <2>1
  <2>3. made[k + 1] = List([list[N - (k + 1)] EXCEPT ![path[N - (k + 1) + 1] + 1] = made[k]])
    BY <1>8, <2>1
  <2> QED
    BY <1>10, <2>1, <2>2, <2>3
<1> HIDE DEF T
<1>11. 0 .. N \subseteq T
  BY <1>1, <1>9, <1>10, UpTo
<1>12. made[N] = f[N]
  <2>1. N \in 0 .. N
    BY <1>1
  <2> QED
    BY <1>11, <2>1 DEF T
<1>13. Rebuilt(f, values, path, replacement)
  BY <1>3, <1>6, <1>12 DEF Rebuilt, N, list
<1> QED
  BY <1>6, <1>13 DEF N

\* After Replace, each list along the path is the list that was there, with
\* one element replaced: by the list below, and at the end by the replacement.
Spine(pieces, old, new, path, replacement) ==
    LET n == Len(path) IN
    /\ \A j \in 1 .. n :
          /\ pieces[j] = IF j = n THEN replacement ELSE List(Walk(new, path)[j])
          /\ Walk(new, path)[j - 1] = [Walk(old, path)[j - 1] EXCEPT ![path[j] + 1] = pieces[j]]

\* The lists a path leads through after Replace are the ones before, each with
\* one element replaced.
LEMMA ReplaceSpine ==
    ASSUME NEW V, Universe(V), NEW old \in Seq(V), NEW path \in Path, NEW replacement \in V,
           Reaches(old, path)
    PROVE  /\ Replace(old, path, replacement) \in Seq(V)
           /\ Len(Replace(old, path, replacement)) = Len(old)
           /\ \E pieces \in [1 .. Len(path) -> V] :
                 Spine(pieces, old, Replace(old, path, replacement), path, replacement)
<1> DEFINE n == Len(path)
           W == Walk(old, path)
           new == Replace(old, path, replacement)
           N == Walk(new, path)
           at(j) == path[j] + 1
<1>1. path \in Seq(Nat) /\ n \in Nat /\ n # 0
  BY DEF Path
<1>2. /\ W \in [0 .. n -> Seq(V)] /\ W[0] = old
      /\ \A j \in 1 .. n : W[j] = ListAt(W[j - 1], path[j])
  BY <1>1, WalkIs
<1>3. PICK made \in [0 .. n -> V] : Rebuilt(made, old, path, replacement)
  BY <1>1, ReplaceIs
<1> DEFINE pieces == [j \in 1 .. n |-> made[n - j]]
           lists == [j \in 0 .. n - 1 |-> [W[j] EXCEPT ![at(j + 1)] = made[n - (j + 1)]]]
<1>4. /\ made[0] = replacement /\ new = made[n].of
      /\ \A k \in 1 .. n : made[k] = List([W[n - k] EXCEPT ![path[n - k + 1] + 1] = made[k - 1]])
  BY <1>3 DEF Rebuilt
<1> HIDE DEF n, W, new
<1>5. ASSUME NEW j \in 0 .. n - 1
      PROVE  made[n - j] = List(lists[j]) /\ lists[j] \in Seq(V) /\ Len(lists[j]) = Len(W[j])
  <2>1. n - j \in 1 .. n /\ n - (n - j) = j /\ (n - j) - 1 = n - (j + 1) /\ j \in 0 .. n
        /\ n - (j + 1) \in 0 .. n
    BY <1>1
  <2>2. made[n - j] = List([W[n - (n - j)] EXCEPT ![path[n - (n - j) + 1] + 1] = made[(n - j) - 1]])
    BY <1>4, <2>1
  <2>3. W[j] \in Seq(V) /\ made[n - (j + 1)] \in V
    BY <1>2, <2>1
  <2>4. [W[j] EXCEPT ![at(j + 1)] = made[n - (j + 1)]] \in Seq(V)
        /\ Len([W[j] EXCEPT ![at(j + 1)] = made[n - (j + 1)]]) = Len(W[j])
    BY <2>3, ExceptTyped
  <2> QED
    BY <2>1, <2>2, <2>4
<1> HIDE DEF lists
<1>6. 0 \in 0 .. n - 1 /\ n - 0 = n
  BY <1>1
<1>7. new = lists[0] /\ new \in Seq(V) /\ Len(new) = Len(old)
  <2>1. made[n] = List(lists[0]) /\ lists[0] \in Seq(V) /\ Len(lists[0]) = Len(W[0])
    BY <1>5, <1>6
  <2> QED
    BY <1>2, <1>4, <2>1 DEF List
<1>8. /\ N[0] = new /\ \A j \in 1 .. n : N[j] = ListAt(N[j - 1], path[j])
  BY <1>1, <1>7, WalkIs DEF n
<1> HIDE DEF N
<1> DEFINE T == { j \in 0 .. n - 1 : N[j] = lists[j] }
<1>9. 0 \in T
  BY <1>6, <1>7, <1>8
<1>10. ASSUME NEW j \in 0 .. n - 1 - 1, j \in T PROVE j + 1 \in T
  <2>1. /\ j + 1 \in 1 .. n /\ j + 1 < n /\ (j + 1) - 1 = j /\ j + 1 \in 0 .. n - 1
        /\ j \in 0 .. n - 1 /\ j \in 0 .. n
    BY <1>1
  <2>2. N[j + 1] = ListAt(lists[j], path[j + 1])
    BY <1>8, <1>10, <2>1
  <2>3. W[j] \in Seq(V) /\ at(j + 1) \in DOMAIN W[j]
    <3>1. W[(j + 1) - 1] \in Seq(V) /\ path[j + 1] + 1 \in DOMAIN W[(j + 1) - 1]
      BY <1>1, <2>1, OnTheWay DEF W, n
    <3> QED
      BY <2>1, <3>1
  <2>4. lists[j] = [W[j] EXCEPT ![at(j + 1)] = made[n - (j + 1)]]
    BY <2>1 DEF lists
  <2>5. lists[j][at(j + 1)] = made[n - (j + 1)] /\ DOMAIN lists[j] = DOMAIN W[j]
    BY <2>3, <2>4
  <2>6. made[n - (j + 1)] = List(lists[j + 1])
    BY <1>5, <2>1
  <2>7. InRange(lists[j], path[j + 1])
    <3>1. lists[j] \in Seq(V) /\ path[j + 1] \in Nat
      BY <1>1, <1>5, <2>1 DEF n
    <3>2. path[j + 1] + 1 \in DOMAIN lists[j]
      BY <2>3, <2>5
    <3> QED
      BY <3>1, <3>2 DEF InRange
  <2>8. IsList(lists[j][path[j + 1] + 1]) /\ lists[j][path[j + 1] + 1].of = lists[j + 1]
    BY <2>5, <2>6 DEF List, IsList
  <2>9. N[j + 1] = lists[j + 1]
    BY <2>2, <2>7, <2>8 DEF ListAt
  <2> QED
    BY <2>1, <2>9
<1> HIDE DEF T
<1>11. 0 .. n - 1 \subseteq T
  <2>1. n - 1 \in Nat
    BY <1>1
  <2> QED
    BY <2>1, <1>9, <1>10, UpTo
<1>12. \A j \in 0 .. n - 1 : N[j] = lists[j]
  BY <1>11 DEF T
<1>13. pieces \in [1 .. n -> V]
  <2>1. \A j \in 1 .. n : n - j \in 0 .. n
    BY <1>1
  <2> QED
    BY <2>1
<1>14. ASSUME NEW j \in 1 .. n
       PROVE  /\ pieces[j] = IF j = n THEN replacement ELSE List(N[j])
              /\ N[j - 1] = [W[j - 1] EXCEPT ![at(j)] = pieces[j]]
  <2>1. j - 1 \in 0 .. n - 1 /\ (j - 1) + 1 = j /\ pieces[j] = made[n - j]
    BY <1>1
  <2>2. lists[j - 1] = [W[j - 1] EXCEPT ![at(j)] = made[n - j]]
    BY <2>1 DEF lists
  <2>3. N[j - 1] = [W[j - 1] EXCEPT ![at(j)] = pieces[j]]
    BY <1>12, <2>1, <2>2
  <2>4. CASE j = n
    <3>1. n - j = 0
      BY <1>1, <2>4
    <3> QED
      BY <1>4, <2>1, <2>3, <2>4, <3>1
  <2>5. CASE j # n
    <3>1. j \in 0 .. n - 1
      BY <1>1, <2>5
    <3>2. made[n - j] = List(N[j])
      BY <1>5, <1>12, <3>1
    <3> QED
      BY <2>1, <2>3, <2>5, <3>2
  <2> QED
    BY <2>4, <2>5
<1> HIDE DEF pieces
<1>15. Spine(pieces, old, new, path, replacement)
  BY <1>14 DEF Spine, n, W, N
<1> QED
  BY <1>7, <1>13, <1>15 DEF n, new

-----------------------------------------------------------------------------
(* Replace, seen from another path.                                        *)

\* Two paths part at some index, and neither leads past the other.
Diverge(p, q) ==
    \E c \in 1 .. Len(p) : c <= Len(q) /\ p[c] # q[c] /\ \A i \in 1 .. c - 1 : p[i] = q[i]

\* One path leads past the end of the other.
Above(p, q) == Len(p) < Len(q) /\ \A i \in 1 .. Len(p) : p[i] = q[i]

\* What Replace leaves of the lists that its path q and another path p share.
Shared(V, old, new, q, replacement, p, c) ==
    /\ new \in Seq(V)
    /\ \A k \in 0 .. c : /\ Walk(old, p)[k] \in Seq(V) /\ Walk(new, p)[k] \in Seq(V)
                         /\ Len(Walk(new, p)[k]) = Len(Walk(old, p)[k])
    /\ \A k \in 1 .. c :
          /\ p[k] + 1 \in DOMAIN Walk(new, p)[k - 1]
          /\ IsList(Walk(new, p)[k - 1][p[k] + 1])
          /\ Walk(new, p)[k - 1][p[k] + 1].of = Walk(new, p)[k]
          /\ IsList(Walk(old, p)[k - 1][p[k] + 1])
          /\ Walk(old, p)[k - 1][p[k] + 1].of = Walk(old, p)[k]
    /\ \A i \in DOMAIN Walk(old, p)[c] :
          Walk(new, p)[c][i] = IF i # q[c + 1] + 1 THEN Walk(old, p)[c][i]
                               ELSE IF c + 1 = Len(q) THEN replacement
                               ELSE List(Walk(new, q)[c + 1])

\* As far as a path goes along with the one of Replace, the lists it leads
\* through keep their lengths.
LEMMA ReplaceShared ==
    ASSUME NEW V, Universe(V), NEW old \in Seq(V), NEW q \in Path, NEW replacement \in V,
           Reaches(old, q), NEW p \in Path,
           NEW c \in Nat, c < Len(q), c <= Len(p), \A i \in 1 .. c : p[i] = q[i]
    PROVE  Shared(V, old, Replace(old, q, replacement), q, replacement, p, c)
<1> DEFINE n == Len(q)
           new == Replace(old, q, replacement)
           O == Walk(old, p)
           W == Walk(new, p)
           Oq == Walk(old, q)
           Wq == Walk(new, q)
<1>1. /\ q \in Seq(Nat) /\ p \in Seq(Nat) /\ n \in Nat /\ Len(p) \in Nat
      /\ new \in Seq(V)
  BY ReplaceSpine DEF Path
<1>2. PICK pieces \in [1 .. n -> V] : Spine(pieces, old, new, q, replacement)
  BY ReplaceSpine
<1>3. \A j \in 1 .. n :
        /\ pieces[j] = IF j = n THEN replacement ELSE List(Wq[j])
        /\ Wq[j - 1] = [Oq[j - 1] EXCEPT ![q[j] + 1] = pieces[j]]
  BY <1>2 DEF Spine
<1>4. \A k \in 0 .. c : O[k] = Oq[k] /\ W[k] = Wq[k]
  <2>1. c <= Len(p) /\ c <= Len(q)
    BY <1>1
  <2>2. ASSUME NEW values \in Seq(V)
        PROVE  \A k \in 0 .. c : Walk(values, p)[k] = Walk(values, q)[k]
    <3>1. p \in Seq(Nat) /\ q \in Seq(Nat)
      BY <1>1
    <3> HIDE DEF n, new
    <3> QED
      BY <2>1, <3>1, WalkAgrees
  <2>3. /\ \A k \in 0 .. c : O[k] = Oq[k]
        /\ \A k \in 0 .. c : W[k] = Wq[k]
    BY <1>1, <2>2
  <2> QED
    BY <2>3
<1>5. ASSUME NEW k \in 1 .. n
      PROVE  /\ Oq[k - 1] \in Seq(V) /\ q[k] + 1 \in DOMAIN Oq[k - 1]
             /\ k < n => IsList(Oq[k - 1][q[k] + 1]) /\ Oq[k - 1][q[k] + 1].of = Oq[k]
  BY <1>1, OnTheWay
<1> HIDE DEF n, new, O, W, Oq, Wq
<1>6. ASSUME NEW k \in 1 .. n
      PROVE  /\ Wq[k - 1] \in Seq(V) /\ Len(Wq[k - 1]) = Len(Oq[k - 1])
             /\ DOMAIN Wq[k - 1] = DOMAIN Oq[k - 1]
             /\ \A i \in DOMAIN Oq[k - 1] :
                   Wq[k - 1][i] = IF i = q[k] + 1 THEN pieces[k] ELSE Oq[k - 1][i]
  <2>1. Oq[k - 1] \in Seq(V) /\ pieces[k] \in V
    BY <1>5
  <2>2. Wq[k - 1] = [Oq[k - 1] EXCEPT ![q[k] + 1] = pieces[k]]
    BY <1>3
  <2> QED
    BY <2>1, <2>2, ExceptTyped
<1>7. ASSUME NEW k \in 0 .. c
      PROVE  O[k] \in Seq(V) /\ W[k] \in Seq(V) /\ Len(W[k]) = Len(O[k])
  <2>1. k + 1 \in 1 .. n /\ (k + 1) - 1 = k
    BY <1>1 DEF n
  <2>2. /\ Oq[(k + 1) - 1] \in Seq(V) /\ Wq[(k + 1) - 1] \in Seq(V)
        /\ Len(Wq[(k + 1) - 1]) = Len(Oq[(k + 1) - 1])
    BY <1>5, <1>6, <2>1
  <2> QED
    BY <1>4, <2>1, <2>2
<1>8. ASSUME NEW k \in 1 .. c
      PROVE  /\ p[k] + 1 \in DOMAIN W[k - 1]
             /\ IsList(W[k - 1][p[k] + 1]) /\ W[k - 1][p[k] + 1].of = W[k]
             /\ IsList(O[k - 1][p[k] + 1]) /\ O[k - 1][p[k] + 1].of = O[k]
  <2>1. k \in 1 .. n /\ k < n /\ k # n /\ k - 1 \in 0 .. c /\ k \in 0 .. c
    BY <1>1 DEF n
  <2>2. p[k] = q[k]
    OBVIOUS
  <2>3. O[k - 1] = Oq[k - 1] /\ W[k - 1] = Wq[k - 1] /\ O[k] = Oq[k] /\ W[k] = Wq[k]
    BY <1>4, <2>1
  <2>4. /\ q[k] + 1 \in DOMAIN Oq[k - 1]
        /\ IsList(Oq[k - 1][q[k] + 1]) /\ Oq[k - 1][q[k] + 1].of = Oq[k]
    BY <1>5, <2>1
  <2>5. q[k] + 1 \in DOMAIN Wq[k - 1] /\ Wq[k - 1][q[k] + 1] = List(Wq[k])
    BY <1>3, <1>6, <2>1, <2>4
  <2>6. IsList(List(Wq[k])) /\ List(Wq[k]).of = Wq[k]
    BY DEF List, IsList
  <2> QED
    BY <2>2, <2>3, <2>4, <2>5, <2>6
<1>9. ASSUME NEW i \in DOMAIN O[c]
      PROVE  W[c][i] = IF i # q[c + 1] + 1 THEN O[c][i]
                       ELSE IF c + 1 = n THEN replacement ELSE List(Wq[c + 1])
  <2>1. c + 1 \in 1 .. n /\ (c + 1) - 1 = c /\ c \in 0 .. c
    BY <1>1 DEF n
  <2>2. O[c] = Oq[(c + 1) - 1] /\ W[c] = Wq[(c + 1) - 1]
    BY <1>4, <2>1
  <2>3. Wq[(c + 1) - 1][i] = IF i = q[c + 1] + 1 THEN pieces[c + 1] ELSE Oq[(c + 1) - 1][i]
    BY <1>6, <2>1, <2>2
  <2>4. pieces[c + 1] = IF c + 1 = n THEN replacement ELSE List(Wq[c + 1])
    BY <1>3, <2>1
  <2> QED
    BY <2>2, <2>3, <2>4
<1> QED
  BY <1>1, <1>7, <1>8, <1>9 DEF Shared, n, new, O, W, Wq

\* At its path, Replace leaves the replacement.
LEMMA ReplaceHere ==
    ASSUME NEW V, Universe(V), NEW old \in Seq(V), NEW q \in Path, NEW replacement \in V,
           Reaches(old, q)
    PROVE  /\ Reaches(Replace(old, q, replacement), q)
           /\ ValueAt(Replace(old, q, replacement), q) = replacement
<1> DEFINE n == Len(q)
           c == n - 1
           new == Replace(old, q, replacement)
           O == Walk(old, q)
           W == Walk(new, q)
<1>1. q \in Seq(Nat) /\ n \in Nat /\ n # 0
  BY DEF Path
<1>2. c \in Nat /\ c < n /\ c <= n /\ c + 1 = n /\ c \in 0 .. c
  BY <1>1
<1>3. /\ \A k \in 0 .. c : O[k] \in Seq(V) /\ W[k] \in Seq(V) /\ Len(W[k]) = Len(O[k])
      /\ \A k \in 1 .. c : q[k] + 1 \in DOMAIN W[k - 1] /\ IsList(W[k - 1][q[k] + 1])
      /\ \A i \in DOMAIN O[c] :
            W[c][i] = IF i # q[c + 1] + 1 THEN O[c][i]
                      ELSE IF c + 1 = n THEN replacement ELSE List(W[c + 1])
  <2>1. Shared(V, old, new, q, replacement, q, c)
    <3> HIDE DEF c
    <3> QED
      BY <1>2, ReplaceShared
  <2> QED
    BY <2>1 DEF Shared
<1>4. q[n] + 1 \in DOMAIN O[n - 1]
  <2>1. n \in 1 .. n
    BY <1>1
  <2> QED
    BY <1>1, <2>1, OnTheWay
<1> HIDE DEF W, O, new, c
<1>5. O[n - 1] \in Seq(V) /\ W[n - 1] \in Seq(V) /\ Len(W[n - 1]) = Len(O[n - 1])
  BY <1>2, <1>3 DEF c
<1>6. q[n] + 1 \in DOMAIN W[n - 1]
  BY <1>4, <1>5
<1>7. W[n - 1][q[n] + 1] = replacement
  BY <1>2, <1>3, <1>4 DEF c
<1>8. ASSUME NEW k \in 1 .. n
      PROVE  InRange(W[k - 1], q[k]) /\ (k < n => IsList(W[k - 1][q[k] + 1]))
  <2>1. k - 1 \in 0 .. c /\ q[k] \in Nat
    BY <1>1, <1>2
  <2>2. W[k - 1] \in Seq(V)
    BY <1>3, <2>1
  <2>3. CASE k = n
    BY <1>1, <1>6, <2>1, <2>2, <2>3 DEF InRange
  <2>4. CASE k # n
    <3>1. k \in 1 .. c
      BY <1>1, <1>2, <2>4
    <3> QED
      BY <1>3, <2>1, <2>2, <3>1 DEF InRange
  <2> QED
    BY <2>3, <2>4
<1>9. Reaches(new, q)
  <2>1. DOMAIN q = 1 .. n
    BY <1>1
  <2> QED
    BY <1>8, <2>1 DEF Reaches, W
<1> QED
  BY <1>7, <1>9 DEF ValueAt, W, new

\* Above its path, Replace leaves lists of the same lengths.
LEMMA ReplaceInside ==
    ASSUME NEW V, Universe(V), NEW old \in Seq(V), NEW q \in Path, NEW replacement \in V,
           Reaches(old, q), NEW p \in Path, Above(p, q)
    PROVE  LET new == Replace(old, q, replacement) IN
           /\ Reaches(new, p)
           /\ IsList(ValueAt(old, p)) /\ IsList(ValueAt(new, p))
           /\ Len(ValueAt(new, p).of) = Len(ValueAt(old, p).of)
<1> DEFINE c == Len(p)
           new == Replace(old, q, replacement)
           O == Walk(old, p)
           W == Walk(new, p)
<1>1. p \in Seq(Nat) /\ c \in Nat /\ c # 0 /\ c < Len(q) /\ c <= Len(p)
      /\ \A i \in 1 .. c : p[i] = q[i]
  BY DEF Path, Above
<1>2. /\ \A k \in 0 .. c : O[k] \in Seq(V) /\ W[k] \in Seq(V) /\ Len(W[k]) = Len(O[k])
      /\ \A k \in 1 .. c :
            /\ p[k] + 1 \in DOMAIN W[k - 1]
            /\ IsList(W[k - 1][p[k] + 1]) /\ W[k - 1][p[k] + 1].of = W[k]
            /\ IsList(O[k - 1][p[k] + 1]) /\ O[k - 1][p[k] + 1].of = O[k]
  <2>1. Shared(V, old, new, q, replacement, p, c)
    <3> HIDE DEF c
    <3> QED
      BY <1>1, ReplaceShared
  <2> QED
    BY <2>1 DEF Shared
<1> HIDE DEF W, O, new
<1>3. ASSUME NEW k \in 1 .. c
      PROVE  InRange(W[k - 1], p[k]) /\ (k < c => IsList(W[k - 1][p[k] + 1]))
  <2>1. k - 1 \in 0 .. c /\ p[k] \in Nat
    BY <1>1
  <2>2. W[k - 1] \in Seq(V)
    BY <1>2, <2>1
  <2> QED
    BY <1>2, <2>1, <2>2 DEF InRange
<1>4. Reaches(new, p)
  <2>1. DOMAIN p = 1 .. c
    BY <1>1
  <2> QED
    BY <1>3, <2>1 DEF Reaches, W
<1>5. c \in 1 .. c /\ c \in 0 .. c
  BY <1>1
<1>6. /\ IsList(O[c - 1][p[c] + 1]) /\ IsList(W[c - 1][p[c] + 1])
      /\ Len(W[c - 1][p[c] + 1].of) = Len(O[c - 1][p[c] + 1].of)
  BY <1>2, <1>5
<1> QED
  BY <1>4, <1>6 DEF ValueAt, O, W, new

\* Where a path parts from its own, Replace leaves everything as it was.
LEMMA ReplaceElsewhere ==
    ASSUME NEW V, Universe(V), NEW old \in Seq(V), NEW q \in Path, NEW replacement \in V,
           Reaches(old, q), NEW p \in Path, Diverge(p, q), Reaches(old, p)
    PROVE  /\ Reaches(Replace(old, q, replacement), p)
           /\ ValueAt(Replace(old, q, replacement), p) = ValueAt(old, p)
<1> DEFINE m == Len(p)
           new == Replace(old, q, replacement)
           O == Walk(old, p)
           W == Walk(new, p)
<1>1. p \in Seq(Nat) /\ q \in Seq(Nat) /\ m \in Nat /\ Len(q) \in Nat /\ m # 0
  BY DEF Path
<1>2. PICK d \in 1 .. m : d <= Len(q) /\ p[d] # q[d] /\ \A i \in 1 .. d - 1 : p[i] = q[i]
  BY DEF Diverge
<1> DEFINE c == d - 1
<1>3. /\ c \in Nat /\ c < Len(q) /\ c <= Len(p) /\ \A i \in 1 .. c : p[i] = q[i]
      /\ c + 1 = d
  BY <1>1, <1>2
<1>4. /\ new \in Seq(V)
      /\ \A k \in 0 .. c : O[k] \in Seq(V) /\ W[k] \in Seq(V) /\ Len(W[k]) = Len(O[k])
      /\ \A k \in 1 .. c : p[k] + 1 \in DOMAIN W[k - 1] /\ IsList(W[k - 1][p[k] + 1])
      /\ \A i \in DOMAIN O[c] :
            W[c][i] = IF i # q[c + 1] + 1 THEN O[c][i]
                      ELSE IF c + 1 = Len(q) THEN replacement ELSE List(Walk(new, q)[c + 1])
  <2>1. Shared(V, old, new, q, replacement, p, c)
    <3> HIDE DEF c
    <3> QED
      BY <1>3, ReplaceShared
  <2> QED
    BY <2>1 DEF Shared
<1>5. /\ W \in [0 .. m -> Seq(V)] /\ O \in [0 .. m -> Seq(V)]
      /\ \A k \in 1 .. m : W[k] = ListAt(W[k - 1], p[k])
      /\ \A k \in 1 .. m : O[k] = ListAt(O[k - 1], p[k])
  BY <1>1, <1>4, WalkIs
<1>6. \A k \in 1 .. m : InRange(O[k - 1], p[k]) /\ (k < m => IsList(O[k - 1][p[k] + 1]))
  BY DEF Reaches
<1> HIDE DEF W, O, new, c
<1>7. /\ Len(W[d - 1]) = Len(O[d - 1]) /\ W[d - 1] \in Seq(V)
      /\ p[d] + 1 \in DOMAIN O[d - 1] /\ W[d - 1][p[d] + 1] = O[d - 1][p[d] + 1]
  <2>1. d - 1 = c /\ c \in 0 .. c
    BY <1>3
  <2>2. O[c] \in Seq(V) /\ W[c] \in Seq(V) /\ Len(W[c]) = Len(O[c])
    BY <1>4, <2>1
  <2>3. p[d] \in Nat /\ q[d] \in Nat
    BY <1>1, <1>2
  <2>4. InRange(O[c], p[d])
    BY <1>6, <2>1
  <2>5. p[d] + 1 \in DOMAIN O[c] /\ p[d] + 1 # q[d] + 1
    BY <1>2, <2>2, <2>3, <2>4 DEF InRange
  <2>6. W[c][p[d] + 1] = O[c][p[d] + 1]
    BY <1>3, <1>4, <2>5
  <2> QED
    BY <2>1, <2>2, <2>5, <2>6
<1>8. \A k \in 0 .. m - d : W[d + k] = O[d + k]
  <2> DEFINE T == { k \in 0 .. m - d : W[d + k] = O[d + k] }
  <2>1. 0 \in T
    <3>1. W[d] = ListAt(W[d - 1], p[d]) /\ O[d] = ListAt(O[d - 1], p[d])
      BY <1>5
    <3>2. W[d] = O[d]
      BY <1>7, <3>1 DEF ListAt, InRange
    <3>3. d + 0 = d /\ 0 \in 0 .. m - d
      BY <1>1
    <3> QED
      BY <3>2, <3>3
  <2>2. ASSUME NEW k \in 0 .. (m - d) - 1, k \in T PROVE k + 1 \in T
    <3>1. /\ d + (k + 1) \in 1 .. m /\ (d + (k + 1)) - 1 = d + k /\ k + 1 \in 0 .. m - d
      BY <1>1
    <3>2. /\ W[d + (k + 1)] = ListAt(W[d + k], p[d + (k + 1)])
          /\ O[d + (k + 1)] = ListAt(O[d + k], p[d + (k + 1)])
      BY <1>5, <3>1
    <3> QED
      BY <2>2, <3>1, <3>2
  <2> HIDE DEF T
  <2>3. m - d \in Nat
    BY <1>1
  <2>4. 0 .. m - d \subseteq T
    BY <2>1, <2>2, <2>3, UpTo
  <2> QED
    BY <2>4 DEF T
<1>9. \A k \in d .. m : W[k] = O[k]
  <2> SUFFICES ASSUME NEW k \in d .. m PROVE W[k] = O[k]
    OBVIOUS
  <2>1. k - d \in 0 .. m - d /\ d + (k - d) = k
    BY <1>1
  <2> QED
    BY <1>8, <2>1
<1>10. ASSUME NEW k \in 1 .. m
       PROVE  InRange(W[k - 1], p[k]) /\ (k < m => IsList(W[k - 1][p[k] + 1]))
  <2>1. k - 1 \in 0 .. m /\ p[k] \in Nat /\ d - 1 = c
    BY <1>1, <1>3
  <2>2. W[k - 1] \in Seq(V)
    BY <1>5, <2>1
  <2>3. CASE k < d
    <3>1. k \in 1 .. c
      BY <1>1, <1>3, <2>3
    <3> QED
      BY <1>4, <2>1, <2>2, <3>1 DEF InRange
  <2>4. CASE k = d
    BY <1>6, <1>7, <2>4 DEF InRange
  <2>5. CASE k > d
    <3>1. k - 1 \in d .. m
      BY <1>1, <2>5
    <3> QED
      BY <1>6, <1>9, <3>1
  <2> QED
    BY <1>1, <2>3, <2>4, <2>5
<1>11. Reaches(new, p)
  <2>1. DOMAIN p = 1 .. m
    BY <1>1
  <2>2. \A k \in DOMAIN p : InRange(W[k - 1], p[k]) /\ (k < m => IsList(W[k - 1][p[k] + 1]))
    BY <1>10, <2>1
  <2> QED
    BY <2>2 DEF Reaches, W
<1>12. W[m - 1][p[m] + 1] = O[m - 1][p[m] + 1]
  <2>1. CASE m = d
    BY <1>7, <2>1
  <2>2. CASE m # d
    <3>1. m - 1 \in d .. m
      BY <1>1, <2>2
    <3> QED
      BY <1>9, <3>1
  <2> QED
    BY <2>1, <2>2
<1> QED
  BY <1>11, <1>12 DEF ValueAt, O, W, new

-----------------------------------------------------------------------------
(* ApplyEach.                                                              *)

\* Replace leaves as many values as there were.
LEMMA ReplaceTyped ==
    ASSUME NEW V, Universe(V), NEW values \in Seq(V), NEW path \in Path, NEW replacement \in V
    PROVE  /\ Replace(values, path, replacement) \in Seq(V)
           /\ Len(Replace(values, path, replacement)) = Len(values)
<1> DEFINE n == Len(path)
           W == Walk(values, path)
<1>1. path \in Seq(Nat) /\ n \in Nat /\ n # 0
  BY DEF Path
<1>2. PICK made \in [0 .. n -> V] : Rebuilt(made, values, path, replacement)
  BY <1>1, ReplaceIs
<1>3. W[0] = values
  BY <1>1, WalkIs
<1>4. /\ Replace(values, path, replacement) = made[n].of
      /\ made[n] = List([W[n - n] EXCEPT ![path[n - n + 1] + 1] = made[n - 1]])
  <2>1. n \in 1 .. n
    BY <1>1
  <2> QED
    BY <1>2, <2>1 DEF Rebuilt
<1>5. n - n = 0 /\ made[n - 1] \in V
  BY <1>1
<1> HIDE DEF W
<1>6. /\ [values EXCEPT ![path[0 + 1] + 1] = made[n - 1]] \in Seq(V)
      /\ Len([values EXCEPT ![path[0 + 1] + 1] = made[n - 1]]) = Len(values)
  BY <1>5, ExceptTyped
<1>7. Replace(values, path, replacement) = [values EXCEPT ![path[0 + 1] + 1] = made[n - 1]]
  BY <1>3, <1>4, <1>5 DEF List
<1> QED
  BY <1>6, <1>7

\* Mutations with a path each.
Mutations(V, changes) ==
    /\ Len(changes) \in Nat
    /\ DOMAIN changes = 1 .. Len(changes)
    /\ \A i \in 1 .. Len(changes) : changes[i].path \in Path /\ changes[i].value \in V

\* What the values are after each of the mutations.
Applied(applied, V, values, changes) ==
    LET N == Len(changes) IN
    /\ applied \in [0 .. N -> Seq(V)]
    /\ applied[0] = values
    /\ \A n \in 1 .. N : applied[n] = ApplyPath(applied[n - 1], changes[n])
    /\ ApplyEach(values, changes) = applied[N]

\* ApplyEach goes through such lists of values.
LEMMA ApplyEachIs ==
    ASSUME NEW V, Universe(V), NEW values \in Seq(V), NEW changes, Mutations(V, changes)
    PROVE  \E applied : Applied(applied, V, values, changes)
<1> DEFINE N == Len(changes)
           next == [n \in 1 .. N |-> [s \in Seq(V) |-> ApplyPath(s, changes[n])]]
           rec == CHOOSE f : f = [n \in 0 .. N |->
                                    IF n = 0 THEN values ELSE ApplyPath(f[n - 1], changes[n])]
<1>1. N \in Nat /\ \A n \in 1 .. N : changes[n].path \in Path /\ changes[n].value \in V
  BY DEF Mutations
<1>2. next \in [1 .. N -> [Seq(V) -> Seq(V)]]
  <2> HIDE DEF N
  <2> SUFFICES ASSUME NEW n \in 1 .. N, NEW s \in Seq(V) PROVE ApplyPath(s, changes[n]) \in Seq(V)
    OBVIOUS
  <2> QED
    BY <1>1, ReplaceTyped DEF ApplyPath
<1>3. ApplyEach(values, changes) = rec[N]
  BY DEF ApplyEach
<1>4. rec = CHOOSE f : f = [n \in 0 .. N |->
                              IF n = 0 THEN values ELSE ApplyPath(f[n - 1], changes[n])]
  OBVIOUS
<1>5. PICK f : Iterated(f, N, Seq(V), values, next)
  <2> HIDE DEF next, N
  <2> QED
    BY <1>1, <1>2, Iterates
<1>6. /\ f \in [0 .. N -> Seq(V)] /\ f[0] = values
      /\ \A n \in 1 .. N : f[n] = ApplyPath(f[n - 1], changes[n])
  <2>1. /\ f \in [0 .. N -> Seq(V)] /\ f[0] = values
        /\ \A n \in 1 .. N : f[n] = next[n][f[n - 1]]
    BY <1>5 DEF Iterated
  <2>2. \A n \in 1 .. N : n - 1 \in 0 .. N
    BY <1>1
  <2> HIDE DEF N
  <2> QED
    BY <2>1, <2>2
<1> HIDE DEF N, next, rec
<1>7. f = [n \in 0 .. N |-> IF n = 0 THEN values ELSE ApplyPath(f[n - 1], changes[n])]
  <2>1. \A n \in 0 .. N : f[n] = IF n = 0 THEN values ELSE ApplyPath(f[n - 1], changes[n])
    BY <1>1, <1>6
  <2>2. f = [n \in 0 .. N |-> f[n]]
    BY <1>6
  <2> QED
    BY <2>1, <2>2
<1>8. rec = [n \in 0 .. N |-> IF n = 0 THEN values ELSE ApplyPath(rec[n - 1], changes[n])]
  BY <1>4, <1>7
<1> DEFINE T == { n \in 0 .. N : rec[n] = f[n] }
<1>9. 0 \in T
  <2>1. 0 \in 0 .. N
    BY <1>1
  <2>2. rec[0] = values
    BY <1>8, <2>1
  <2> QED
    BY <1>6, <2>1, <2>2
<1>10. ASSUME NEW n \in 0 .. N - 1, n \in T PROVE n + 1 \in T
  <2>1. n + 1 \in 1 .. N /\ n + 1 \in 0 .. N /\ n + 1 # 0 /\ (n + 1) - 1 = n
    BY <1>1
  <2>2. f[n + 1] = ApplyPath(f[n], changes[n + 1])
    BY <1>6, <2>1
  <2>3. rec[n + 1] = ApplyPath(rec[n], changes[n + 1])
    BY <1>8, <2>1
  <2> QED
    BY <1>10, <2>1, <2>2, <2>3
<1> HIDE DEF T
<1>11. 0 .. N \subseteq T
  BY <1>1, <1>9, <1>10, UpTo
<1>12. rec[N] = f[N]
  <2>1. N \in 0 .. N
    BY <1>1
  <2> QED
    BY <1>11, <2>1 DEF T
<1>13. Applied(f, V, values, changes)
  BY <1>3, <1>6, <1>12 DEF Applied, N
<1> QED
  BY <1>13

\* No mutation of the list is at or above the path.
Clear(p, changes) ==
    \A i \in DOMAIN changes : Diverge(p, changes[i].path) \/ Above(p, changes[i].path)
Away(p, changes) == \A i \in DOMAIN changes : Diverge(p, changes[i].path)

\* What one value list has in common with another that some mutations, none
\* inside another, made of it.
Intact(V, old, new, changes) ==
    /\ new \in Seq(V) /\ Len(new) = Len(old)
    /\ \A p \in Path : Reaches(old, p) /\ Away(p, changes) =>
          Reaches(new, p) /\ ValueAt(new, p) = ValueAt(old, p)
    /\ \A p \in Path : Reaches(old, p) /\ IsList(ValueAt(old, p)) /\ Clear(p, changes) =>
          /\ Reaches(new, p) /\ IsList(ValueAt(new, p))
          /\ Len(ValueAt(new, p).of) = Len(ValueAt(old, p).of)

\* Mutations of places there are, none inside another, all take effect, in
\* whatever order they stand, and change nothing else.
LEMMA ChangesApply ==
    ASSUME NEW V, Universe(V), NEW values \in Seq(V), NEW changes, Mutations(V, changes),
           \A i \in DOMAIN changes : Reaches(values, changes[i].path),
           \A i, j \in DOMAIN changes : i # j => Diverge(changes[i].path, changes[j].path)
    PROVE  /\ Intact(V, values, ApplyEach(values, changes), changes)
           /\ \A i \in DOMAIN changes :
                 ValueAt(ApplyEach(values, changes), changes[i].path) = changes[i].value
<1> DEFINE N == Len(changes)
<1>1. /\ N \in Nat /\ DOMAIN changes = 1 .. N
      /\ \A i \in 1 .. N : changes[i].path \in Path /\ changes[i].value \in V
  BY DEF Mutations
<1>2. PICK applied : Applied(applied, V, values, changes)
  BY ApplyEachIs
<1>3. /\ applied \in [0 .. N -> Seq(V)] /\ applied[0] = values
      /\ \A n \in 1 .. N : applied[n] = ApplyPath(applied[n - 1], changes[n])
      /\ ApplyEach(values, changes) = applied[N]
  BY <1>2 DEF Applied
<1> HIDE DEF N
<1> DEFINE here(n) == \A i \in 1 .. n : ValueAt(applied[n], changes[i].path) = changes[i].value
           reach(n) == \A i \in 1 .. N : Reaches(applied[n], changes[i].path)
           T == { n \in 0 .. N : Intact(V, values, applied[n], changes) /\ reach(n) /\ here(n) }
<1>4. 0 \in T
  <2>1. 0 \in 0 .. N /\ 1 .. 0 = {}
    BY <1>1
  <2>2. Intact(V, values, values, changes)
    BY DEF Intact
  <2> QED
    BY <1>1, <1>3, <2>1, <2>2
<1>5. ASSUME NEW n \in 0 .. N - 1, n \in T PROVE n + 1 \in T
  <2> DEFINE q == changes[n + 1].path
             x == changes[n + 1].value
             v == applied[n]
             w == applied[n + 1]
  <2>1. n + 1 \in 1 .. N /\ n + 1 \in 0 .. N /\ (n + 1) - 1 = n /\ n \in 0 .. N
    BY <1>1
  <2>2. w = Replace(v, q, x)
    BY <1>3, <2>1 DEF ApplyPath
  <2>3. q \in Path /\ x \in V /\ v \in Seq(V) /\ Reaches(v, q)
    BY <1>1, <1>3, <1>5, <2>1
  <2>4. Intact(V, values, v, changes) /\ here(n) /\ reach(n)
    BY <1>5
  <2>5. /\ \A p \in Path : Away(p, changes) => Diverge(p, q)
        /\ \A p \in Path : Clear(p, changes) => Diverge(p, q) \/ Above(p, q)
    BY <1>1, <2>1 DEF Away, Clear
  <2>6. \A i \in 1 .. N : i # n + 1 => Diverge(changes[i].path, q)
    BY <1>1, <2>1
  <2> HIDE DEF v, w, q, x
  <2>7. w \in Seq(V) /\ Len(w) = Len(v)
    BY <2>2, <2>3, ReplaceTyped
  <2>8. Reaches(w, q) /\ ValueAt(w, q) = x
    BY <2>2, <2>3, ReplaceHere
  <2>9. \A p \in Path : Diverge(p, q) /\ Reaches(v, p) =>
           Reaches(w, p) /\ ValueAt(w, p) = ValueAt(v, p)
    BY <2>2, <2>3, ReplaceElsewhere
  <2>10. \A p \in Path : Above(p, q) =>
            /\ Reaches(w, p) /\ IsList(ValueAt(v, p)) /\ IsList(ValueAt(w, p))
            /\ Len(ValueAt(w, p).of) = Len(ValueAt(v, p).of)
    BY <2>2, <2>3, ReplaceInside
  <2>11. Intact(V, values, w, changes)
    <3>1. Len(v) = Len(values)
      BY <2>4 DEF Intact
    <3>2. ASSUME NEW p \in Path, Reaches(values, p), Away(p, changes)
          PROVE  Reaches(w, p) /\ ValueAt(w, p) = ValueAt(values, p)
      <4>1. Reaches(v, p) /\ ValueAt(v, p) = ValueAt(values, p)
        BY <2>4, <3>2 DEF Intact
      <4> QED
        BY <2>5, <2>9, <3>2, <4>1
    <3>3. ASSUME NEW p \in Path, Reaches(values, p), IsList(ValueAt(values, p)), Clear(p, changes)
          PROVE  /\ Reaches(w, p) /\ IsList(ValueAt(w, p))
                 /\ Len(ValueAt(w, p).of) = Len(ValueAt(values, p).of)
      <4>1. /\ Reaches(v, p) /\ IsList(ValueAt(v, p))
            /\ Len(ValueAt(v, p).of) = Len(ValueAt(values, p).of)
        BY <2>4, <3>3 DEF Intact
      <4>2. CASE Diverge(p, q)
        BY <2>9, <4>1, <4>2
      <4>3. CASE Above(p, q)
        BY <2>10, <4>1, <4>3
      <4> QED
        BY <2>5, <3>3, <4>2, <4>3
    <3> QED
      BY <2>7, <3>1, <3>2, <3>3 DEF Intact
  <2>12. ASSUME NEW i \in 1 .. N PROVE Reaches(w, changes[i].path)
    <3>1. CASE i = n + 1
      BY <2>8, <3>1 DEF q
    <3>2. CASE i # n + 1
      <4>1. Reaches(v, changes[i].path) /\ changes[i].path \in Path
        BY <1>1, <2>4 DEF v
      <4> QED
        BY <2>6, <2>9, <3>2, <4>1
    <3> QED
      BY <3>1, <3>2
  <2>13. ASSUME NEW i \in 1 .. n + 1 PROVE ValueAt(w, changes[i].path) = changes[i].value
    <3>1. CASE i = n + 1
      BY <2>8, <3>1 DEF q, x
    <3>2. CASE i # n + 1
      <4>1. i \in 1 .. n /\ i \in 1 .. N
        BY <1>1, <3>2
      <4>2. Reaches(v, changes[i].path) /\ changes[i].path \in Path
        BY <1>1, <2>4, <4>1 DEF v
      <4>3. ValueAt(v, changes[i].path) = changes[i].value
        BY <2>4, <4>1 DEF v
      <4> QED
        BY <2>6, <2>9, <3>2, <4>1, <4>2, <4>3
    <3> QED
      BY <3>1, <3>2
  <2> QED
    BY <2>1, <2>11, <2>12, <2>13 DEF w
<1>6. N \in T
  <2> HIDE DEF T
  <2>1. 0 .. N \subseteq T
    BY <1>1, <1>4, <1>5, UpTo
  <2> QED
    BY <1>1, <2>1
<1> QED
  BY <1>1, <1>3, <1>6

-----------------------------------------------------------------------------
(* Paths.                                                                  *)

\* A path with one more index.
LEMMA AppendPath ==
    ASSUME NEW p \in Seq(Nat), NEW i \in Nat
    PROVE  /\ Append(p, i) \in Path /\ Len(Append(p, i)) = Len(p) + 1
           /\ Append(p, i)[Len(p) + 1] = i
           /\ \A k \in 1 .. Len(p) : Append(p, i)[k] = p[k]
BY AppendProperties DEF Path

\* When one path parts from another, the other parts from it.
LEMMA DivergeSymmetric ==
    ASSUME NEW p \in Seq(Nat), NEW q \in Seq(Nat), Diverge(p, q)
    PROVE  Diverge(q, p)
<1>1. PICK c \in 1 .. Len(p) : c <= Len(q) /\ p[c] # q[c] /\ \A i \in 1 .. c - 1 : p[i] = q[i]
  BY DEF Diverge
<1>2. Len(p) \in Nat /\ Len(q) \in Nat
  OBVIOUS
<1>3. c \in 1 .. Len(q) /\ c <= Len(p)
  BY <1>1, <1>2
<1> QED
  BY <1>1, <1>3 DEF Diverge

\* What parts, or leads past the end, still does so one index further.
LEMMA FurtherDown ==
    ASSUME NEW p \in Seq(Nat), NEW q \in Seq(Nat), NEW i \in Nat
    PROVE  /\ Diverge(p, q) => Diverge(p, Append(q, i)) /\ Diverge(Append(q, i), p)
           /\ Above(p, q) => Above(p, Append(q, i))
           /\ Above(q, Append(q, i))
<1>1. Len(p) \in Nat /\ Len(q) \in Nat
  OBVIOUS
<1>2. /\ Append(q, i) \in Seq(Nat) /\ Len(Append(q, i)) = Len(q) + 1
      /\ \A k \in 1 .. Len(q) : Append(q, i)[k] = q[k]
  BY AppendPath DEF Path
<1>3. ASSUME Diverge(p, q) PROVE Diverge(p, Append(q, i))
  <2>1. PICK c \in 1 .. Len(p) : c <= Len(q) /\ p[c] # q[c] /\ \A k \in 1 .. c - 1 : p[k] = q[k]
    BY <1>3 DEF Diverge
  <2>2. c <= Len(Append(q, i)) /\ c \in 1 .. Len(q)
    BY <1>1, <1>2, <2>1
  <2>3. \A k \in 1 .. c - 1 : k \in 1 .. Len(q)
    BY <1>1, <2>1
  <2> QED
    BY <1>2, <2>1, <2>2, <2>3 DEF Diverge
<1>4. Above(p, q) => Above(p, Append(q, i))
  <2> SUFFICES ASSUME Above(p, q) PROVE Above(p, Append(q, i))
    OBVIOUS
  <2>1. Len(p) < Len(q) /\ \A k \in 1 .. Len(p) : p[k] = q[k] /\ k \in 1 .. Len(q)
    BY <1>1 DEF Above
  <2> QED
    BY <1>1, <1>2, <2>1 DEF Above
<1>5. Above(q, Append(q, i))
  BY <1>1, <1>2 DEF Above
<1> QED
  BY <1>2, <1>3, <1>4, <1>5, DivergeSymmetric

\* Two indices of one list are on paths that part.
LEMMA SiblingsDiverge ==
    ASSUME NEW p \in Seq(Nat), NEW i \in Nat, NEW j \in Nat, i # j
    PROVE  Diverge(Append(p, i), Append(p, j))
<1> DEFINE P == Append(p, i)
           Q == Append(p, j)
           c == Len(p) + 1
<1>1. /\ Len(p) \in Nat /\ Len(P) = c /\ Len(Q) = c /\ P[c] = i /\ Q[c] = j
      /\ \A k \in 1 .. Len(p) : P[k] = p[k] /\ Q[k] = p[k]
  BY AppendPath
<1> HIDE DEF P, Q
<1>2. c \in 1 .. Len(P) /\ c <= Len(Q) /\ P[c] # Q[c] /\ \A k \in 1 .. c - 1 : P[k] = Q[k]
  BY <1>1
<1> HIDE DEF c
<1>3. Diverge(P, Q)
  BY <1>2 DEF Diverge
<1> QED
  BY <1>3 DEF P, Q

\* Neither of two paths that part is a prefix of the other.
LEMMA DivergeNoPrefix ==
    ASSUME NEW p \in Seq(Nat), NEW q \in Seq(Nat), Diverge(p, q)
    PROVE  ~IsPrefix(p, q)
<1>1. PICK c \in 1 .. Len(p) : c <= Len(q) /\ p[c] # q[c]
  BY DEF Diverge
<1>2. SUFFICES ASSUME Len(p) <= Len(q), SubSeq(p, 1, Len(p)) = SubSeq(q, 1, Len(p)) PROVE FALSE
  BY DEF IsPrefix
<1>3. Len(p) \in Nat /\ Len(q) \in Nat /\ Len(p) \in Int /\ 1 \in Int
  OBVIOUS
<1>4. \A k \in 1 .. Len(p) : p[k] \in Nat /\ q[k] \in Nat
  BY <1>2, <1>3
<1>5. c \in 1 .. Len(p) - 1 + 1 /\ 1 + c - 1 = c
  BY <1>3
<1>6. SubSeq(p, 1, Len(p))[c] = p[1 + c - 1]
  BY <1>3, <1>4, <1>5, SubSeqProperties
<1>7. SubSeq(q, 1, Len(p))[c] = q[1 + c - 1]
  BY <1>3, <1>4, <1>5, SubSeqProperties
<1> QED
  BY <1>1, <1>2, <1>5, <1>6, <1>7

-----------------------------------------------------------------------------
(* Where paths lead.                                                       *)

\* A path of one index leads to the value there.
LEMMA OneIndex ==
    ASSUME NEW V, Universe(V), NEW values \in Seq(V), NEW i \in DOMAIN values
    PROVE  /\ Append(<<>>, i - 1) \in Path
           /\ Reaches(values, Append(<<>>, i - 1))
           /\ ValueAt(values, Append(<<>>, i - 1)) = values[i]
<1> DEFINE p == Append(<<>>, i - 1)
<1>1. i - 1 \in Nat /\ (i - 1) + 1 = i /\ i - 1 < Len(values)
  OBVIOUS
<1>2. p = <<i - 1>>
  OBVIOUS
<1>3. p \in Path /\ Len(p) = 1 /\ p[1] = i - 1 /\ DOMAIN p = 1 .. 1
  BY <1>1, <1>2 DEF Path
<1>4. Walk(values, p)[0] = values
  BY <1>3, WalkIs DEF Path
<1> HIDE DEF p
<1>5. \A k \in 1 .. 1 : k = 1 /\ k - 1 = 0 /\ ~(k < 1)
  OBVIOUS
<1>6. Reaches(values, p)
  BY <1>1, <1>3, <1>4, <1>5 DEF Reaches, InRange
<1>7. ValueAt(values, p) = values[i]
  BY <1>1, <1>3, <1>4 DEF ValueAt
<1> QED
  BY <1>3, <1>6, <1>7 DEF p

\* What a path leads to is a value.
LEMMA ReachedTyped ==
    ASSUME NEW V, Universe(V), NEW values \in Seq(V), NEW p \in Path, Reaches(values, p)
    PROVE  ValueAt(values, p) \in V
<1>1. p \in Seq(Nat) /\ Len(p) \in 1 .. Len(p)
  BY DEF Path
<1> QED
  BY <1>1, OnTheWay DEF ValueAt

\* One more index leads into the list that a path leads to.
LEMMA OneFurther ==
    ASSUME NEW V, Universe(V), NEW values \in Seq(V), NEW p \in Path,
           Reaches(values, p), IsList(ValueAt(values, p)),
           NEW i \in DOMAIN ValueAt(values, p).of
    PROVE  /\ Append(p, i - 1) \in Path
           /\ Reaches(values, Append(p, i - 1))
           /\ ValueAt(values, Append(p, i - 1)) = ValueAt(values, p).of[i]
<1> DEFINE n == Len(p)
           q == Append(p, i - 1)
           list == ValueAt(values, p).of
           W == Walk(values, p)
           U == Walk(values, q)
<1>1. list \in Seq(V)
  BY ReachedTyped DEF Universe
<1>2. p \in Seq(Nat) /\ n \in Nat /\ n # 0 /\ i - 1 \in Nat /\ (i - 1) + 1 = i /\ i - 1 < Len(list)
  BY <1>1 DEF Path
<1>3. /\ q \in Path /\ q \in Seq(Nat) /\ Len(q) = n + 1 /\ q[n + 1] = i - 1 /\ DOMAIN q = 1 .. n + 1
      /\ \A k \in 1 .. n : q[k] = p[k]
  <2>1. q \in Path /\ q \in Seq(Nat) /\ Len(q) = n + 1 /\ q[n + 1] = i - 1
        /\ \A k \in 1 .. n : q[k] = p[k]
    BY <1>2, AppendPath DEF Path
  <2>2. DOMAIN q = 1 .. Len(q)
    BY <2>1
  <2> QED
    BY <2>1, <2>2
<1>4. n \in 1 .. n /\ DOMAIN p = 1 .. n
  BY <1>2
<1>5. /\ InRange(W[n - 1], p[n]) /\ W[n] = ListAt(W[n - 1], p[n])
      /\ \A k \in 1 .. n : InRange(W[k - 1], p[k]) /\ (k < n => IsList(W[k - 1][p[k] + 1]))
  <2>1. \A k \in 1 .. n : InRange(W[k - 1], p[k]) /\ (k < n => IsList(W[k - 1][p[k] + 1]))
    BY <1>4 DEF Reaches
  <2>2. \A k \in 1 .. Len(p) : W[k] = ListAt(W[k - 1], p[k])
    BY <1>2, WalkIs
  <2>3. W[n] = ListAt(W[n - 1], p[n])
    BY <1>4, <2>2
  <2> QED
    BY <1>4, <2>1, <2>3
<1>6. W[n] = list
  BY <1>5 DEF ListAt, ValueAt
<1>7. \A k \in 0 .. n : U[k] = W[k]
  <2>1. n <= Len(q) /\ n <= Len(p)
    BY <1>2, <1>3
  <2>2. p \in Seq(Nat) /\ q \in Seq(Nat) /\ n \in Nat /\ \A k \in 1 .. n : q[k] = p[k]
    BY <1>2, <1>3
  <2> HIDE DEF q, n
  <2> QED
    BY <2>1, <2>2, WalkAgrees
<1> HIDE DEF q, list, W, U, n
<1>8. IsList(W[n - 1][p[n] + 1])
  BY DEF ValueAt, W, n
<1>9. ASSUME NEW k \in 1 .. n + 1
      PROVE  InRange(U[k - 1], q[k]) /\ (k < n + 1 => IsList(U[k - 1][q[k] + 1]))
  <2>1. CASE k = n + 1
    <3>1. k - 1 = n /\ n \in 0 .. n /\ ~(k < n + 1)
      BY <1>2, <2>1
    <3>2. U[k - 1] = list /\ q[k] = i - 1
      BY <1>3, <1>6, <1>7, <2>1, <3>1
    <3> QED
      BY <1>2, <3>1, <3>2 DEF InRange
  <2>2. CASE k # n + 1
    <3>1. k \in 1 .. n /\ k - 1 \in 0 .. n
      BY <1>2, <2>2
    <3>2. U[k - 1] = W[k - 1] /\ q[k] = p[k]
      BY <1>3, <1>7, <3>1
    <3>3. k < n \/ k = n
      BY <1>2, <3>1
    <3> QED
      BY <1>5, <1>8, <3>1, <3>2, <3>3
  <2> QED
    BY <2>1, <2>2
<1>10. Reaches(values, q)
  BY <1>3, <1>9 DEF Reaches, U
<1>11. ValueAt(values, q) = list[i]
  <2>1. U[(n + 1) - 1] = list /\ q[n + 1] + 1 = i
    <3>1. (n + 1) - 1 = n /\ n \in 0 .. n
      BY <1>2
    <3> QED
      BY <1>2, <1>3, <1>6, <1>7, <3>1
  <2> QED
    BY <1>3, <2>1 DEF ValueAt, U
<1> QED
  BY <1>3, <1>10, <1>11 DEF q, list

-----------------------------------------------------------------------------
(* Diff, round by round.                                                   *)

\* The pairs diffInto compares.
PairSet(V) == [path : Path, before : V, after : V]

\* What becomes of each pair: itself, or the pairs inside.
Pieces(pairs) ==
    [i \in DOMAIN pairs |->
        IF Descends(pairs[i].before, pairs[i].after)
        THEN Pairs(pairs[i].path, pairs[i].before.of, pairs[i].after.of)
        ELSE <<pairs[i]>>]

\* A pair stands for an index of two lists.
PairOf(pair, path, before, after, i) ==
    /\ i \in DOMAIN before
    /\ pair.path = Append(path, i - 1)
    /\ pair.before = before[i] /\ pair.after = after[i]

\* The pairs of two lists stand index by index.
LEMMA PairsAre ==
    ASSUME NEW V, Universe(V), NEW path \in Seq(Nat), NEW before \in Seq(V), NEW after \in Seq(V)
    PROVE  /\ Pairs(path, before, after) \in Seq(PairSet(V))
           /\ Len(before) = Len(after) => DOMAIN Pairs(path, before, after) = DOMAIN before
           /\ \A i \in DOMAIN Pairs(path, before, after) :
                 PairOf(Pairs(path, before, after)[i], path, before, after, i)
<1> DEFINE pair(i) == [path |-> Append(path, i - 1), before |-> before[i], after |-> after[i]]
<1>1. CASE Len(before) # Len(after)
  <2>1. Pairs(path, before, after) = <<>>
    BY <1>1 DEF Pairs
  <2> QED
    BY <1>1, <2>1, EmptySeq
<1>2. CASE Len(before) = Len(after)
  <2>1. Len(before) \in Nat /\ DOMAIN before = 1 .. Len(before) /\ DOMAIN after = 1 .. Len(before)
    BY <1>2
  <2>2. \A i \in DOMAIN before : pair(i) \in PairSet(V)
    <3> SUFFICES ASSUME NEW i \in DOMAIN before PROVE pair(i) \in PairSet(V)
      OBVIOUS
    <3>1. i - 1 \in Nat /\ before[i] \in V /\ after[i] \in V
      BY <2>1
    <3>2. Append(path, i - 1) \in Path
      BY <3>1, AppendPath
    <3> QED
      BY <3>1, <3>2 DEF PairSet
  <2>3. Pairs(path, before, after) = [i \in DOMAIN before |-> pair(i)]
    BY <1>2 DEF Pairs
  <2> HIDE DEF pair
  <2>4. Pairs(path, before, after) \in Seq(PairSet(V))
    BY <2>1, <2>2, <2>3
  <2>5. DOMAIN Pairs(path, before, after) = DOMAIN before
    BY <2>3
  <2>6. \A i \in DOMAIN before : Pairs(path, before, after)[i] = pair(i)
    BY <2>3
  <2>7. \A i \in DOMAIN before : PairOf(Pairs(path, before, after)[i], path, before, after, i)
    <3> SUFFICES ASSUME NEW i \in DOMAIN before
                 PROVE  PairOf(Pairs(path, before, after)[i], path, before, after, i)
      OBVIOUS
    <3>1. PairOf(pair(i), path, before, after, i)
      BY DEF pair, PairOf
    <3>2. Pairs(path, before, after)[i] = pair(i)
      BY <2>6
    <3> QED
      BY <3>1, <3>2
  <2> QED
    BY <2>4, <2>5, <2>7
<1> QED
  BY <1>1, <1>2

\* A round of the recursion has what becomes of each pair of the one before.
LEMMA PiecesAre ==
    ASSUME NEW V, Universe(V), NEW pairs \in Seq(PairSet(V))
    PROVE  /\ Pieces(pairs) \in Seq(Seq(PairSet(V))) /\ DOMAIN Pieces(pairs) = DOMAIN pairs
           /\ Descended(pairs) = FlattenSeq(Pieces(pairs))
           /\ Descended(pairs) \in Seq(PairSet(V))
           /\ ToSet(Descended(pairs)) = UNION { ToSet(Pieces(pairs)[i]) : i \in DOMAIN pairs }
           /\ \A i \in DOMAIN pairs :
                 /\ pairs[i].path \in Path /\ pairs[i].before \in V /\ pairs[i].after \in V
                 /\ pairs[i] \in PairSet(V)
<1> DEFINE S == PairSet(V)
<1>1. \A x \in S : x.path \in Path /\ x.before \in V /\ x.after \in V
  BY DEF PairSet
<1> HIDE DEF S
<1>2. /\ Len(pairs) \in Nat /\ DOMAIN pairs = 1 .. Len(pairs)
      /\ \A i \in DOMAIN pairs : pairs[i] \in S
  BY DEF S
<1>3. \A i \in DOMAIN pairs :
        (IF Descends(pairs[i].before, pairs[i].after)
         THEN Pairs(pairs[i].path, pairs[i].before.of, pairs[i].after.of)
         ELSE <<pairs[i]>>) \in Seq(S)
  <2> SUFFICES ASSUME NEW i \in DOMAIN pairs
               PROVE (IF Descends(pairs[i].before, pairs[i].after)
                      THEN Pairs(pairs[i].path, pairs[i].before.of, pairs[i].after.of)
                      ELSE <<pairs[i]>>) \in Seq(S)
    OBVIOUS
  <2>1. CASE Descends(pairs[i].before, pairs[i].after)
    <3>1. pairs[i].path \in Seq(Nat) /\ pairs[i].before.of \in Seq(V) /\ pairs[i].after.of \in Seq(V)
      BY <1>1, <1>2, <2>1 DEF Descends, Universe, Path
    <3>2. Pairs(pairs[i].path, pairs[i].before.of, pairs[i].after.of) \in Seq(S)
      BY <3>1, PairsAre DEF S
    <3> QED
      BY <2>1, <3>2
  <2>2. CASE ~Descends(pairs[i].before, pairs[i].after)
    <3>1. pairs[i] \in S
      BY <1>2
    <3>2. <<pairs[i]>> \in Seq(S)
      BY <3>1
    <3> QED
      BY <2>2, <3>2
  <2> QED
    BY <2>1, <2>2
<1>4. Pieces(pairs) \in Seq(Seq(S)) /\ DOMAIN Pieces(pairs) = DOMAIN pairs
  BY <1>2, <1>3 DEF Pieces
<1>5. Descended(pairs) = FlattenSeq(Pieces(pairs))
  BY DEF Descended, Pieces
<1>6. /\ FlattenSeq(Pieces(pairs)) \in Seq(S)
      /\ ToSet(FlattenSeq(Pieces(pairs))) = UNION { ToSet(Pieces(pairs)[i]) : i \in DOMAIN Pieces(pairs) }
  BY <1>4, FlattenToSet
<1> QED
  BY <1>1, <1>2, <1>4, <1>5, <1>6 DEF S

\* The pairs of each round, and the ones that are left.
RoundsOf(rounds, V, before, after) ==
    LET D == Depth(before) IN
    /\ D \in Nat
    /\ rounds \in [0 .. D -> Seq(PairSet(V))]
    /\ rounds[0] = Pairs(<<>>, before, after)
    /\ \A n \in 1 .. D : rounds[n] = Descended(rounds[n - 1])
    /\ Compared(before, after) = rounds[D]

\* The recursion of diffInto goes through such rounds.
LEMMA ComparedIs ==
    ASSUME NEW V, Universe(V), NEW before \in Seq(V), NEW after \in Seq(V)
    PROVE  \E rounds : RoundsOf(rounds, V, before, after)
<1> DEFINE N == Depth(before)
           S == Seq(PairSet(V))
           start == Pairs(<<>>, before, after)
           next == [n \in 1 .. N |-> [pairs \in S |-> Descended(pairs)]]
           rec == CHOOSE f : f = [n \in 0 .. N |-> IF n = 0 THEN start ELSE Descended(f[n - 1])]
<1>1. N \in Nat
  BY DepthIs
<1>2. start \in S /\ \A pairs \in S : Descended(pairs) \in S
  <2>1. <<>> \in Seq(Nat)
    BY EmptySeq
  <2> QED
    BY <2>1, PairsAre, PiecesAre
<1>3. Compared(before, after) = rec[N]
  BY DEF Compared
<1>4. rec = CHOOSE f : f = [n \in 0 .. N |-> IF n = 0 THEN start ELSE Descended(f[n - 1])]
  OBVIOUS
<1>5. PICK f : Iterated(f, N, S, start, next)
  <2>1. next \in [1 .. N -> [S -> S]]
    BY <1>2
  <2> HIDE DEF next, N, S, start
  <2> QED
    BY <1>1, <1>2, <2>1, Iterates
<1> HIDE DEF S, start
<1>6. /\ f \in [0 .. N -> S] /\ f[0] = start
      /\ \A n \in 1 .. N : f[n] = Descended(f[n - 1])
  <2>1. /\ f \in [0 .. N -> S] /\ f[0] = start
        /\ \A n \in 1 .. N : f[n] = next[n][f[n - 1]]
    BY <1>5 DEF Iterated
  <2>2. \A n \in 1 .. N : n - 1 \in 0 .. N
    BY <1>1
  <2> HIDE DEF N
  <2> QED
    BY <2>1, <2>2
<1> HIDE DEF N, next, rec
<1>7. f = [n \in 0 .. N |-> IF n = 0 THEN start ELSE Descended(f[n - 1])]
  <2>1. \A n \in 0 .. N : f[n] = IF n = 0 THEN start ELSE Descended(f[n - 1])
    BY <1>1, <1>6
  <2>2. f = [n \in 0 .. N |-> f[n]]
    BY <1>6
  <2> QED
    BY <2>1, <2>2
<1>8. rec = [n \in 0 .. N |-> IF n = 0 THEN start ELSE Descended(rec[n - 1])]
  BY <1>4, <1>7
<1> DEFINE T == { n \in 0 .. N : rec[n] = f[n] }
<1>9. 0 \in T
  <2>1. 0 \in 0 .. N
    BY <1>1
  <2>2. rec[0] = start
    BY <1>8, <2>1
  <2> QED
    BY <1>6, <2>1, <2>2
<1>10. ASSUME NEW n \in 0 .. N - 1, n \in T PROVE n + 1 \in T
  <2>1. n + 1 \in 1 .. N /\ n + 1 \in 0 .. N /\ n + 1 # 0 /\ (n + 1) - 1 = n
    BY <1>1
  <2>2. f[n + 1] = Descended(f[n])
    BY <1>6, <2>1
  <2>3. rec[n + 1] = Descended(rec[n])
    BY <1>8, <2>1
  <2> QED
    BY <1>10, <2>1, <2>2, <2>3
<1> HIDE DEF T
<1>11. 0 .. N \subseteq T
  BY <1>1, <1>9, <1>10, UpTo
<1>12. rec[N] = f[N]
  <2>1. N \in 0 .. N
    BY <1>1
  <2> QED
    BY <1>11, <2>1 DEF T
<1>13. RoundsOf(f, V, before, after)
  BY <1>1, <1>3, <1>6, <1>12 DEF RoundsOf, N, S, start
<1> QED
  BY <1>13

\* The pairs of pairs whose paths part.
Parting(V) == { z \in PairSet(V) \X PairSet(V) : Diverge(z[1].path, z[2].path) }

\* The pair of what two lists have at an index.
Child(y, x, k) ==
    /\ k \in DOMAIN x.before.of /\ k \in DOMAIN x.after.of
    /\ y.path = Append(x.path, k - 1)
    /\ y.before = x.before.of[k] /\ y.after = x.after.of[k]

\* The pairs inside a pair.
LEMMA ChildrenOf ==
    ASSUME NEW V, Universe(V), NEW x \in PairSet(V), Descends(x.before, x.after)
    PROVE  LET pairs == Pairs(x.path, x.before.of, x.after.of) IN
           /\ x.before.of \in Seq(V) /\ x.after.of \in Seq(V)
           /\ x.path \in Seq(Nat)
           /\ DOMAIN pairs = DOMAIN x.before.of
           /\ pairs \in Seq(PairSet(V))
           /\ \A k \in DOMAIN x.before.of : Child(pairs[k], x, k)
<1> DEFINE pairs == Pairs(x.path, x.before.of, x.after.of)
<1>1. x.path \in Path /\ x.before \in V /\ x.after \in V
  BY DEF PairSet
<1>2. x.path \in Seq(Nat) /\ x.before.of \in Seq(V) /\ x.after.of \in Seq(V)
      /\ Len(x.before.of) = Len(x.after.of)
  BY <1>1 DEF Descends, Universe, Path
<1>3. /\ pairs \in Seq(PairSet(V)) /\ DOMAIN pairs = DOMAIN x.before.of
      /\ \A k \in DOMAIN x.before.of : /\ pairs[k].path = Append(x.path, k - 1)
                                       /\ pairs[k].before = x.before.of[k]
                                       /\ pairs[k].after = x.after.of[k]
  <2>1. pairs \in Seq(PairSet(V))
    BY <1>2, PairsAre
  <2>2. DOMAIN pairs = DOMAIN x.before.of
    BY <1>2, PairsAre
  <2>3. \A k \in DOMAIN x.before.of : /\ pairs[k].path = Append(x.path, k - 1)
                                      /\ pairs[k].before = x.before.of[k]
                                      /\ pairs[k].after = x.after.of[k]
    <3>1. \A k \in DOMAIN pairs : PairOf(pairs[k], x.path, x.before.of, x.after.of, k)
      BY <1>2, PairsAre
    <3> QED
      BY <2>2, <3>1 DEF PairOf
  <2> QED
    BY <2>1, <2>2, <2>3
<1>4. DOMAIN x.before.of = DOMAIN x.after.of
  BY <1>2
<1> HIDE DEF pairs
<1>5. \A k \in DOMAIN x.before.of : Child(pairs[k], x, k)
  BY <1>3, <1>4 DEF Child
<1> QED
  BY <1>2, <1>3, <1>5 DEF pairs

\* What becomes of a pair in the next round.
LEMMA PieceIs ==
    ASSUME NEW V, Universe(V), NEW pairs \in Seq(PairSet(V)), NEW i \in DOMAIN pairs
    PROVE  LET x == pairs[i] IN
           /\ ToSet(Pieces(pairs)[i]) \subseteq PairSet(V)
           /\ Apart(Pieces(pairs)[i], Parting(V))
           /\ ~Descends(x.before, x.after) =>
                 ToSet(Pieces(pairs)[i]) = {x} /\ x \in ToSet(Descended(pairs))
           /\ Descends(x.before, x.after) =>
                 /\ \A y \in ToSet(Pieces(pairs)[i]) : \E k \in DOMAIN x.before.of : Child(y, x, k)
                 /\ \A k \in DOMAIN x.before.of : \E y \in ToSet(Descended(pairs)) : Child(y, x, k)
<1> DEFINE x == pairs[i]
           piece == Pieces(pairs)[i]
<1>1. x \in PairSet(V) /\ ToSet(piece) \subseteq ToSet(Descended(pairs))
  BY PiecesAre
<1>2. piece = IF Descends(x.before, x.after) THEN Pairs(x.path, x.before.of, x.after.of) ELSE <<x>>
  BY DEF Pieces
<1> SUFFICES /\ ToSet(piece) \subseteq PairSet(V)
             /\ Apart(piece, Parting(V))
             /\ ~Descends(x.before, x.after) =>
                   ToSet(piece) = {x} /\ x \in ToSet(Descended(pairs))
             /\ Descends(x.before, x.after) =>
                   /\ \A y \in ToSet(piece) : \E k \in DOMAIN x.before.of : Child(y, x, k)
                   /\ \A k \in DOMAIN x.before.of : \E y \in ToSet(Descended(pairs)) : Child(y, x, k)
  OBVIOUS
<1> HIDE DEF x, piece
<1>3. CASE ~Descends(x.before, x.after)
  <2>1. piece = <<x>>
    BY <1>2, <1>3
  <2>2. ToSet(piece) = {x}
    BY <2>1 DEF ToSet
  <2>3. Apart(piece, Parting(V))
    BY <2>1 DEF Apart
  <2> QED
    BY <1>1, <1>3, <2>2, <2>3
<1>4. CASE Descends(x.before, x.after)
  <2>1. piece = Pairs(x.path, x.before.of, x.after.of)
    BY <1>2, <1>4
  <2>2. /\ x.path \in Seq(Nat) /\ x.before.of \in Seq(V)
        /\ DOMAIN piece = DOMAIN x.before.of /\ piece \in Seq(PairSet(V))
        /\ \A k \in DOMAIN x.before.of : Child(piece[k], x, k)
    BY <1>1, <1>4, <2>1, ChildrenOf
  <2>3. \A k \in DOMAIN piece : piece[k] \in PairSet(V) /\ piece[k] \in ToSet(piece)
    BY <2>2 DEF ToSet
  <2>4. ToSet(piece) \subseteq PairSet(V)
    BY <2>3 DEF ToSet
  <2>5. \A y \in ToSet(piece) : \E k \in DOMAIN x.before.of : Child(y, x, k)
    BY <2>2 DEF ToSet
  <2>6. \A k \in DOMAIN x.before.of : \E y \in ToSet(Descended(pairs)) : Child(y, x, k)
    BY <1>1, <2>2, <2>3
  <2>7. ASSUME NEW k \in DOMAIN piece, NEW l \in DOMAIN piece, k # l
        PROVE  <<piece[k], piece[l]>> \in Parting(V)
    <3>1. k - 1 \in Nat /\ l - 1 \in Nat /\ k - 1 # l - 1
      BY <2>2, <2>7
    <3>2. piece[k].path = Append(x.path, k - 1) /\ piece[l].path = Append(x.path, l - 1)
      BY <2>2 DEF Child
    <3>3. Diverge(piece[k].path, piece[l].path)
      BY <2>2, <3>1, <3>2, SiblingsDiverge
    <3> QED
      BY <2>3, <3>3 DEF Parting
  <2>8. Apart(piece, Parting(V))
    BY <2>7 DEF Apart
  <2> QED
    BY <1>4, <2>4, <2>5, <2>6, <2>8
<1> QED
  BY <1>3, <1>4

\* What is true of the pairs of a round: they stand where their paths lead,
\* the paths part, and the values still to be descended into are n levels down.
Round(V, before, after, pairs, n) ==
    /\ pairs \in Seq(PairSet(V))
    /\ \A x \in ToSet(pairs) :
          /\ Reaches(before, x.path) /\ x.before = ValueAt(before, x.path)
          /\ Descends(x.before, x.after) => x.before \in ToSet(Levels(before)[n])
          /\ before = after => x.before = x.after
    /\ Apart(pairs, Parting(V))

\* It is true of the first round.
LEMMA FirstRound ==
    ASSUME NEW V, Universe(V), NEW before \in Seq(V), NEW after \in Seq(V)
    PROVE  Round(V, before, after, Pairs(<<>>, before, after), 0)
<1> DEFINE pairs == Pairs(<<>>, before, after)
<1>1. <<>> \in Seq(Nat)
  BY EmptySeq
<1>2. /\ pairs \in Seq(PairSet(V))
      /\ \A i \in DOMAIN pairs :
            /\ i \in DOMAIN before
            /\ pairs[i].path = Append(<<>>, i - 1)
            /\ pairs[i].before = before[i] /\ pairs[i].after = after[i]
  <2>1. pairs \in Seq(PairSet(V))
    BY <1>1, PairsAre
  <2>2. \A i \in DOMAIN pairs :
            /\ i \in DOMAIN before
            /\ pairs[i].path = Append(<<>>, i - 1)
            /\ pairs[i].before = before[i] /\ pairs[i].after = after[i]
    <3>1. \A i \in DOMAIN pairs : PairOf(pairs[i], <<>>, before, after, i)
      BY <1>1, PairsAre
    <3> QED
      BY <3>1 DEF PairOf
  <2> QED
    BY <2>1, <2>2
<1> HIDE DEF pairs
<1>3. Levels(before)[0] = before
  BY LevelsAre
<1>4. ASSUME NEW x \in ToSet(pairs)
      PROVE  /\ Reaches(before, x.path) /\ x.before = ValueAt(before, x.path)
             /\ Descends(x.before, x.after) => x.before \in ToSet(Levels(before)[0])
             /\ before = after => x.before = x.after
  <2>1. PICK i \in DOMAIN pairs : x = pairs[i]
    BY DEF ToSet
  <2>2. i \in DOMAIN before /\ x.path = Append(<<>>, i - 1) /\ x.before = before[i] /\ x.after = after[i]
    BY <1>2, <2>1
  <2>3. Reaches(before, x.path) /\ ValueAt(before, x.path) = before[i]
    BY <2>2, OneIndex
  <2>4. before[i] \in ToSet(before)
    BY <2>2 DEF ToSet
  <2> QED
    BY <1>3, <2>2, <2>3, <2>4
<1>5. ASSUME NEW i \in DOMAIN pairs, NEW j \in DOMAIN pairs, i # j
      PROVE  <<pairs[i], pairs[j]>> \in Parting(V)
  <2>1. i - 1 \in Nat /\ j - 1 \in Nat /\ i - 1 # j - 1
    BY <1>2, <1>5
  <2>2. Diverge(pairs[i].path, pairs[j].path)
    BY <1>1, <1>2, <2>1, SiblingsDiverge
  <2>3. pairs[i] \in PairSet(V) /\ pairs[j] \in PairSet(V)
    BY <1>2
  <2> QED
    BY <2>2, <2>3 DEF Parting
<1>6. Apart(pairs, Parting(V))
  BY <1>5 DEF Apart
<1> QED
  BY <1>2, <1>4, <1>6 DEF Round, pairs

\* A pair inside another stands where its path leads.
LEMMA ChildStands ==
    ASSUME NEW V, Universe(V), NEW before \in Seq(V), NEW x \in PairSet(V),
           Reaches(before, x.path), x.before = ValueAt(before, x.path),
           Descends(x.before, x.after), NEW k \in DOMAIN x.before.of, NEW y, Child(y, x, k)
    PROVE  Reaches(before, y.path) /\ y.before = ValueAt(before, y.path)
<1>1. x.path \in Path /\ IsList(ValueAt(before, x.path)) /\ k \in DOMAIN ValueAt(before, x.path).of
  BY DEF PairSet, Descends
<1>2. /\ Reaches(before, Append(x.path, k - 1))
      /\ ValueAt(before, Append(x.path, k - 1)) = ValueAt(before, x.path).of[k]
  BY <1>1, OneFurther
<1> QED
  BY <1>2 DEF Child

\* From one round to the next it stays true.
LEMMA NextRound ==
    ASSUME NEW V, Universe(V), NEW before \in Seq(V), NEW after \in Seq(V), NEW n \in Nat,
           NEW pairs, Round(V, before, after, pairs, n)
    PROVE  Round(V, before, after, Descended(pairs), n + 1)
<1>1. /\ pairs \in Seq(PairSet(V)) /\ Apart(pairs, Parting(V))
      /\ \A x \in ToSet(pairs) :
            /\ Reaches(before, x.path) /\ x.before = ValueAt(before, x.path)
            /\ Descends(x.before, x.after) => x.before \in ToSet(Levels(before)[n])
            /\ before = after => x.before = x.after
  BY DEF Round
<1>2. /\ Pieces(pairs) \in Seq(Seq(PairSet(V))) /\ DOMAIN Pieces(pairs) = DOMAIN pairs
      /\ Descended(pairs) = FlattenSeq(Pieces(pairs)) /\ Descended(pairs) \in Seq(PairSet(V))
      /\ ToSet(Descended(pairs)) = UNION { ToSet(Pieces(pairs)[i]) : i \in DOMAIN pairs }
  BY <1>1, PiecesAre
<1>3. Levels(before)[n] \in Seq(V) /\ Levels(before)[n + 1] = Inside(Levels(before)[n])
  BY LevelsAre
<1>4. ASSUME NEW y \in ToSet(Descended(pairs))
      PROVE  /\ Reaches(before, y.path) /\ y.before = ValueAt(before, y.path)
             /\ Descends(y.before, y.after) => y.before \in ToSet(Levels(before)[n + 1])
             /\ before = after => y.before = y.after
  <2>1. PICK i \in DOMAIN pairs : y \in ToSet(Pieces(pairs)[i])
    BY <1>2
  <2> DEFINE x == pairs[i]
  <2>2. x \in ToSet(pairs) /\ x \in PairSet(V)
    BY <1>1 DEF ToSet
  <2>3. /\ ~Descends(x.before, x.after) => y = x
        /\ Descends(x.before, x.after) => \E k \in DOMAIN x.before.of : Child(y, x, k)
    <3>1. ~Descends(x.before, x.after) => ToSet(Pieces(pairs)[i]) = {x}
      BY <1>1, PieceIs
    <3>2. Descends(x.before, x.after) =>
            \A z \in ToSet(Pieces(pairs)[i]) : \E k \in DOMAIN x.before.of : Child(z, x, k)
      BY <1>1, PieceIs
    <3> HIDE DEF x
    <3> QED
      BY <2>1, <3>1, <3>2
  <2> HIDE DEF x
  <2>4. CASE ~Descends(x.before, x.after)
    BY <1>1, <2>2, <2>3, <2>4
  <2>5. CASE Descends(x.before, x.after)
    <3>1. PICK k \in DOMAIN x.before.of : Child(y, x, k)
      BY <2>3, <2>5
    <3>2. Reaches(before, x.path) /\ x.before = ValueAt(before, x.path)
      BY <1>1, <2>2
    <3>3. Reaches(before, y.path) /\ y.before = ValueAt(before, y.path)
      BY <2>2, <2>5, <3>1, <3>2, ChildStands
    <3>4. PICK j \in DOMAIN Levels(before)[n] : Levels(before)[n][j] = x.before
      BY <1>1, <2>2, <2>5 DEF ToSet
    <3>5. ToSet(x.before.of) \subseteq ToSet(Levels(before)[n + 1])
      BY <1>3, <2>5, <3>4, InsideHas DEF Descends
    <3>6. y.before \in ToSet(x.before.of)
      BY <3>1 DEF Child, ToSet
    <3>7. before = after => y.before = y.after
      BY <1>1, <2>2, <3>1 DEF Child
    <3> QED
      BY <3>3, <3>5, <3>6, <3>7
  <2> QED
    BY <2>4, <2>5
<1>5. ASSUME NEW i \in DOMAIN pairs, NEW j \in DOMAIN pairs, i # j,
             NEW y \in ToSet(Pieces(pairs)[i]), NEW z \in ToSet(Pieces(pairs)[j])
      PROVE  <<y, z>> \in Parting(V)
  <2> DEFINE p == pairs[i]
             q == pairs[j]
  <2>1. p \in PairSet(V) /\ q \in PairSet(V) /\ Diverge(p.path, q.path)
    BY <1>1, <1>5 DEF Apart, Parting
  <2>2. p.path \in Seq(Nat) /\ q.path \in Seq(Nat)
    BY <2>1 DEF PairSet, Path
  <2>3. /\ y \in PairSet(V) /\ z \in PairSet(V)
        /\ y = p \/ \E k \in DOMAIN p.before.of : Descends(p.before, p.after) /\ Child(y, p, k)
        /\ z = q \/ \E k \in DOMAIN q.before.of : Descends(q.before, q.after) /\ Child(z, q, k)
    BY <1>1, PieceIs
  <2> HIDE DEF p, q
  <2>4. \A k \in DOMAIN p.before.of : Descends(p.before, p.after) => k - 1 \in Nat
    BY <2>1, ChildrenOf
  <2>5. \A k \in DOMAIN q.before.of : Descends(q.before, q.after) => k - 1 \in Nat
    BY <2>1, ChildrenOf
  <2>6. y.path \in Seq(Nat) /\ Diverge(y.path, q.path)
    <3>1. CASE y = p
      BY <2>1, <2>2, <3>1
    <3>2. CASE y # p
      <4>1. PICK k \in DOMAIN p.before.of : Descends(p.before, p.after) /\ Child(y, p, k)
        BY <2>3, <3>2
      <4>2. y.path = Append(p.path, k - 1) /\ k - 1 \in Nat
        BY <2>4, <4>1 DEF Child
      <4>3. Diverge(q.path, p.path)
        BY <2>1, <2>2, DivergeSymmetric
      <4>4. Diverge(Append(p.path, k - 1), q.path)
        BY <2>2, <4>2, <4>3, FurtherDown
      <4> QED
        BY <2>3, <4>2, <4>4 DEF PairSet, Path
    <3> QED
      BY <3>1, <3>2
  <2>7. Diverge(y.path, z.path)
    <3>1. CASE z = q
      BY <2>6, <3>1
    <3>2. CASE z # q
      <4>1. PICK k \in DOMAIN q.before.of : Descends(q.before, q.after) /\ Child(z, q, k)
        BY <2>3, <3>2
      <4>2. z.path = Append(q.path, k - 1) /\ k - 1 \in Nat
        BY <2>5, <4>1 DEF Child
      <4> QED
        BY <2>2, <2>6, <4>2, FurtherDown
    <3> QED
      BY <3>1, <3>2
  <2> QED
    BY <2>3, <2>7 DEF Parting
<1>6. \A i \in DOMAIN pairs : Apart(Pieces(pairs)[i], Parting(V))
  BY <1>1, PieceIs
<1>7. Apart(Descended(pairs), Parting(V))
  BY <1>2, <1>5, <1>6, FlattenApart
<1> QED
  BY <1>2, <1>4, <1>7 DEF Round

\* What a pair of a list of pairs is made of.
LEMMA PairHas ==
    ASSUME NEW V, NEW pairs \in Seq(PairSet(V)), NEW i \in DOMAIN pairs
    PROVE  /\ pairs[i] \in PairSet(V) /\ pairs[i] \in ToSet(pairs)
           /\ pairs[i].path \in Seq(Nat) /\ pairs[i].path \in Path
           /\ pairs[i].before \in V /\ pairs[i].after \in V
<1>1. pairs[i] \in PairSet(V)
  OBVIOUS
<1>2. pairs[i] \in ToSet(pairs)
  BY DEF ToSet
<1> QED
  BY <1>1, <1>2 DEF PairSet, Path

\* So it is true of every round.
LEMMA EveryRound ==
    ASSUME NEW V, Universe(V), NEW before \in Seq(V), NEW after \in Seq(V),
           NEW rounds, RoundsOf(rounds, V, before, after)
    PROVE  \A n \in 0 .. Depth(before) : Round(V, before, after, rounds[n], n)
<1> DEFINE D == Depth(before)
           T == { n \in 0 .. D : Round(V, before, after, rounds[n], n) }
<1>1. /\ D \in Nat /\ rounds[0] = Pairs(<<>>, before, after)
      /\ \A n \in 1 .. D : rounds[n] = Descended(rounds[n - 1])
  BY DEF RoundsOf
<1> HIDE DEF D
<1>2. 0 \in T
  <2>1. Round(V, before, after, rounds[0], 0)
    BY <1>1, FirstRound
  <2> QED
    BY <1>1, <2>1
<1>3. ASSUME NEW n \in 0 .. D - 1, n \in T PROVE n + 1 \in T
  <2>1. n \in Nat /\ n + 1 \in 1 .. D /\ n + 1 \in 0 .. D /\ (n + 1) - 1 = n
    BY <1>1
  <2>2. rounds[n + 1] = Descended(rounds[n])
    BY <1>1, <2>1
  <2>3. Round(V, before, after, rounds[n], n)
    BY <1>3
  <2>4. Round(V, before, after, Descended(rounds[n]), n + 1)
    BY <2>1, <2>3, NextRound
  <2> QED
    BY <2>1, <2>2, <2>4
<1> HIDE DEF T
<1>4. 0 .. D \subseteq T
  BY <1>1, <1>2, <1>3, UpTo
<1> QED
  BY <1>4 DEF T, D

\* In the last round there is nothing to descend into.
LEMMA LastRound ==
    ASSUME NEW V, Universe(V), NEW before \in Seq(V), NEW after \in Seq(V),
           NEW rounds, RoundsOf(rounds, V, before, after)
    PROVE  \A x \in ToSet(rounds[Depth(before)]) : ~Descends(x.before, x.after)
<1>1. Depth(before) \in 0 .. Depth(before) /\ Levels(before)[Depth(before)] = <<>>
  BY DepthIs
<1>2. Round(V, before, after, rounds[Depth(before)], Depth(before))
  BY <1>1, EveryRound
<1>3. ToSet(Levels(before)[Depth(before)]) = {}
  BY <1>1 DEF ToSet
<1> QED
  BY <1>2, <1>3 DEF Round

\* No pair is at the path of a pair or above it.
Beyond(x, pairs) ==
    \A y \in ToSet(pairs) : Diverge(x.path, y.path) \/ Above(x.path, y.path)

\* From the round that descends into a pair on, no pair is at its path or above.
LEMMA NeverAgain ==
    ASSUME NEW V, Universe(V), NEW before \in Seq(V), NEW after \in Seq(V),
           NEW rounds, RoundsOf(rounds, V, before, after),
           NEW m \in 0 .. Depth(before) - 1, NEW x \in ToSet(rounds[m]), Descends(x.before, x.after)
    PROVE  Beyond(x, rounds[Depth(before)])
<1> DEFINE D == Depth(before)
           T == { j \in 0 .. D - m - 1 : Beyond(x, rounds[m + 1 + j]) }
<1>1. /\ D \in Nat
      /\ \A n \in 1 .. D : rounds[n] = Descended(rounds[n - 1])
      /\ \A n \in 0 .. D : Round(V, before, after, rounds[n], n)
  BY EveryRound DEF RoundsOf
<1>2. \A n \in 0 .. D : rounds[n] \in Seq(PairSet(V)) /\ Apart(rounds[n], Parting(V))
  BY <1>1 DEF Round
<1> HIDE DEF D
<1>3. m \in 0 .. D - 1 /\ m \in 0 .. D /\ m \in Nat /\ D - m - 1 \in Nat
  BY <1>1 DEF D
<1>4. PICK i \in DOMAIN rounds[m] : x = rounds[m][i]
  BY DEF ToSet
<1>5. x \in PairSet(V) /\ x.path \in Seq(Nat)
  BY <1>2, <1>3, <1>4, PairHas
<1>6. 0 \in T
  <2>1. m + 1 + 0 \in 1 .. D /\ (m + 1 + 0) - 1 = m /\ 0 \in 0 .. D - m - 1
    BY <1>1, <1>3
  <2>2. rounds[m + 1 + 0] = Descended(rounds[m])
    BY <1>1, <2>1
  <2>3. ASSUME NEW y \in ToSet(Descended(rounds[m]))
        PROVE  Diverge(x.path, y.path) \/ Above(x.path, y.path)
    <3>1. rounds[m] \in Seq(PairSet(V)) /\ Apart(rounds[m], Parting(V))
      BY <1>2, <1>3
    <3>2. PICK j \in DOMAIN rounds[m] : y \in ToSet(Pieces(rounds[m])[j])
      BY <3>1, PiecesAre
    <3> DEFINE z == rounds[m][j]
    <3>3. /\ ~Descends(z.before, z.after) => ToSet(Pieces(rounds[m])[j]) = {z}
          /\ Descends(z.before, z.after) =>
               \A u \in ToSet(Pieces(rounds[m])[j]) : \E k \in DOMAIN z.before.of : Child(u, z, k)
      <4>1. ~Descends(z.before, z.after) => ToSet(Pieces(rounds[m])[j]) = {z}
        BY <3>1, PieceIs
      <4>2. Descends(z.before, z.after) =>
               \A u \in ToSet(Pieces(rounds[m])[j]) : \E k \in DOMAIN z.before.of : Child(u, z, k)
        BY <3>1, PieceIs
      <4> QED
        BY <4>1, <4>2
    <3>4. z \in PairSet(V) /\ z.path \in Seq(Nat)
      BY <3>1, PairHas
    <3>5. i # j => Diverge(x.path, z.path)
      BY <1>4, <3>1 DEF Apart, Parting
    <3>6. i = j => x = z
      BY <1>4
    <3> HIDE DEF z
    <3>7. CASE y = z /\ ~Descends(z.before, z.after)
      BY <3>5, <3>6, <3>7
    <3>8. ASSUME NEW k \in DOMAIN z.before.of, Child(y, z, k), Descends(z.before, z.after)
          PROVE  Diverge(x.path, y.path) \/ Above(x.path, y.path)
      <4>1. k - 1 \in Nat
        BY <3>4, <3>8, ChildrenOf
      <4>2. y.path = Append(z.path, k - 1)
        BY <3>8 DEF Child
      <4>3. CASE i = j
        BY <1>5, <3>6, <4>1, <4>2, <4>3, FurtherDown
      <4>4. CASE i # j
        BY <1>5, <3>4, <3>5, <4>1, <4>2, <4>4, FurtherDown
      <4> QED
        BY <4>3, <4>4
    <3> QED
      BY <3>2, <3>3, <3>7, <3>8
  <2> QED
    BY <2>1, <2>2, <2>3 DEF Beyond
<1>7. ASSUME NEW j \in 0 .. (D - m - 1) - 1, j \in T PROVE j + 1 \in T
  <2> DEFINE n == m + 1 + j
  <2>1. /\ n \in 0 .. D /\ n + 1 \in 1 .. D /\ (n + 1) - 1 = n /\ m + 1 + (j + 1) = n + 1
        /\ j + 1 \in 0 .. D - m - 1
    BY <1>1, <1>3
  <2>2. Beyond(x, rounds[n])
    BY <1>7
  <2> HIDE DEF n
  <2>3. rounds[n + 1] = Descended(rounds[n]) /\ rounds[n] \in Seq(PairSet(V))
    BY <1>1, <1>2, <2>1
  <2>4. ASSUME NEW y \in ToSet(Descended(rounds[n]))
        PROVE  Diverge(x.path, y.path) \/ Above(x.path, y.path)
    <3>1. PICK l \in DOMAIN rounds[n] : y \in ToSet(Pieces(rounds[n])[l])
      BY <2>3, PiecesAre
    <3> DEFINE z == rounds[n][l]
    <3>2. /\ ~Descends(z.before, z.after) => ToSet(Pieces(rounds[n])[l]) = {z}
          /\ Descends(z.before, z.after) =>
               \A u \in ToSet(Pieces(rounds[n])[l]) : \E k \in DOMAIN z.before.of : Child(u, z, k)
      <4>1. ~Descends(z.before, z.after) => ToSet(Pieces(rounds[n])[l]) = {z}
        BY <2>3, PieceIs
      <4>2. Descends(z.before, z.after) =>
               \A u \in ToSet(Pieces(rounds[n])[l]) : \E k \in DOMAIN z.before.of : Child(u, z, k)
        BY <2>3, PieceIs
      <4> QED
        BY <4>1, <4>2
    <3>3. z \in PairSet(V) /\ z.path \in Seq(Nat) /\ z \in ToSet(rounds[n])
      BY <2>3, PairHas
    <3>4. Diverge(x.path, z.path) \/ Above(x.path, z.path)
      BY <2>2, <3>3 DEF Beyond
    <3> HIDE DEF z
    <3>5. ASSUME NEW k \in DOMAIN z.before.of, Child(y, z, k), Descends(z.before, z.after)
          PROVE  Diverge(x.path, y.path) \/ Above(x.path, y.path)
      <4>1. k - 1 \in Nat
        BY <3>3, <3>5, ChildrenOf
      <4>2. y.path = Append(z.path, k - 1)
        BY <3>5 DEF Child
      <4> QED
        BY <1>5, <3>3, <3>4, <4>1, <4>2, FurtherDown
    <3> QED
      BY <3>1, <3>2, <3>4, <3>5
  <2> QED
    BY <2>1, <2>3, <2>4 DEF Beyond
<1> HIDE DEF T
<1>8. 0 .. D - m - 1 \subseteq T
  BY <1>3, <1>6, <1>7, UpTo
<1>9. D - m - 1 \in T
  BY <1>3, <1>8
<1>10. m + 1 + (D - m - 1) = D
  BY <1>1, <1>3
<1> QED
  BY <1>9, <1>10 DEF T, D

\* Changes has the differing pairs, as mutations.
Mutation(x) == [path |-> x.path, value |-> x.after]

\* Changes has a mutation for each pair that differs and no other, and their
\* paths part as the ones of the pairs do.
LEMMA ChangesAre ==
    ASSUME NEW V, Universe(V), NEW pairs \in Seq(PairSet(V)), Apart(pairs, Parting(V))
    PROVE  /\ Mutations(V, Changes(pairs))
           /\ ToSet(Changes(pairs)) =
                { Mutation(x) : x \in { y \in ToSet(pairs) : ~Equal(y.before, y.after) } }
           /\ \A i, j \in DOMAIN Changes(pairs) :
                 i # j => Diverge(Changes(pairs)[i].path, Changes(pairs)[j].path)
<1> DEFINE M == [path : Path, value : V]
           R == { z \in M \X M : Diverge(z[1].path, z[2].path) }
           pieces == [i \in DOMAIN pairs |->
                        IF Equal(pairs[i].before, pairs[i].after)
                        THEN <<>> ELSE <<Mutation(pairs[i])>>]
<1>1. /\ Len(pairs) \in Nat /\ DOMAIN pairs = 1 .. Len(pairs)
      /\ \A i \in DOMAIN pairs : pairs[i] \in PairSet(V)
  OBVIOUS
<1>2. \A x \in PairSet(V) : Mutation(x) \in M /\ Mutation(x).path = x.path
  BY DEF PairSet, Mutation
<1>3. Changes(pairs) = FlattenSeq(pieces)
  BY DEF Changes, Mutation
<1>4. \A m \in M : m.path \in Path /\ m.value \in V
  OBVIOUS
<1>5. \A z : z \in R <=> z \in M \X M /\ Diverge(z[1].path, z[2].path)
  OBVIOUS
<1> HIDE DEF M, R
<1>6. \A i \in DOMAIN pairs :
        (IF Equal(pairs[i].before, pairs[i].after) THEN <<>> ELSE <<Mutation(pairs[i])>>) \in Seq(M)
  <2> SUFFICES ASSUME NEW i \in DOMAIN pairs
               PROVE (IF Equal(pairs[i].before, pairs[i].after)
                      THEN <<>> ELSE <<Mutation(pairs[i])>>) \in Seq(M)
    OBVIOUS
  <2>1. Mutation(pairs[i]) \in M
    BY <1>1, <1>2
  <2> HIDE DEF Mutation
  <2>2. <<>> \in Seq(M) /\ <<Mutation(pairs[i])>> \in Seq(M)
    BY <2>1
  <2> QED
    BY <2>2
<1>7. pieces \in Seq(Seq(M)) /\ DOMAIN pieces = DOMAIN pairs
  BY <1>1, <1>6
<1>8. \A i \in DOMAIN pairs :
         /\ Equal(pairs[i].before, pairs[i].after) => pieces[i] = <<>>
         /\ ~Equal(pairs[i].before, pairs[i].after) => pieces[i] = <<Mutation(pairs[i])>>
  OBVIOUS
<1> HIDE DEF pieces
<1>9. \A i \in DOMAIN pairs :
         /\ Equal(pairs[i].before, pairs[i].after) => ToSet(pieces[i]) = {}
         /\ ~Equal(pairs[i].before, pairs[i].after) => ToSet(pieces[i]) = {Mutation(pairs[i])}
  <2>1. ToSet(<<>>) = {} /\ \A e : ToSet(<<e>>) = {e}
    BY DEF ToSet
  <2> HIDE DEF Mutation
  <2> QED
    BY <1>8, <2>1
<1>10. \A i \in DOMAIN pieces : Apart(pieces[i], R)
  <2>1. Apart(<<>>, R) /\ \A e : Apart(<<e>>, R)
    BY DEF Apart
  <2> SUFFICES ASSUME NEW i \in DOMAIN pairs PROVE Apart(pieces[i], R)
    BY <1>7
  <2>2. pieces[i] = <<>> \/ pieces[i] = <<Mutation(pairs[i])>>
    BY <1>8
  <2> HIDE DEF Mutation
  <2> QED
    BY <2>1, <2>2
<1>11. \A i, j \in DOMAIN pieces : i # j =>
         \A x \in ToSet(pieces[i]), y \in ToSet(pieces[j]) : <<x, y>> \in R
  <2> SUFFICES ASSUME NEW i \in DOMAIN pieces, NEW j \in DOMAIN pieces, i # j,
                      NEW x \in ToSet(pieces[i]), NEW y \in ToSet(pieces[j])
               PROVE  <<x, y>> \in R
    OBVIOUS
  <2>1. x = Mutation(pairs[i]) /\ y = Mutation(pairs[j])
    <3>1. \A l \in DOMAIN pairs : \A u : u \in ToSet(pieces[l]) => u = Mutation(pairs[l])
      BY <1>9, Zenon
    <3>2. i \in DOMAIN pairs /\ j \in DOMAIN pairs
      BY <1>7
    <3> QED
      BY <3>1, <3>2
  <2>2. Diverge(pairs[i].path, pairs[j].path)
    BY <1>7 DEF Apart, Parting
  <2>3. x \in M /\ y \in M /\ x.path = pairs[i].path /\ y.path = pairs[j].path
    BY <1>1, <1>2, <1>7, <2>1
  <2> QED
    BY <1>5, <2>2, <2>3
<1>12. Apart(FlattenSeq(pieces), R)
  BY <1>7, <1>10, <1>11, FlattenApart
<1>13. /\ FlattenSeq(pieces) \in Seq(M)
       /\ ToSet(FlattenSeq(pieces)) = UNION { ToSet(pieces[i]) : i \in DOMAIN pieces }
  BY <1>7, FlattenToSet
<1>14. Mutations(V, Changes(pairs))
  BY <1>3, <1>4, <1>13 DEF Mutations
<1>15. UNION { ToSet(pieces[i]) : i \in DOMAIN pieces } =
         { Mutation(x) : x \in { y \in ToSet(pairs) : ~Equal(y.before, y.after) } }
  <2>1. ToSet(pairs) = { pairs[i] : i \in DOMAIN pairs }
    BY DEF ToSet
  <2> HIDE DEF Mutation
  <2> QED
    BY <1>7, <1>9, <2>1
<1>16. ASSUME NEW i \in DOMAIN Changes(pairs), NEW j \in DOMAIN Changes(pairs), i # j
       PROVE  Diverge(Changes(pairs)[i].path, Changes(pairs)[j].path)
  <2>1. <<Changes(pairs)[i], Changes(pairs)[j]>> \in R
    BY <1>3, <1>12, <1>16 DEF Apart
  <2> QED
    BY <1>5, <2>1
<1> QED
  BY <1>3, <1>13, <1>14, <1>15, <1>16

-----------------------------------------------------------------------------
(* What Diff answers, and what applying it leaves.                         *)

\* What Diff answers: mutations of places there are, none inside another, and
\* none that could be made inside the value it replaces.
Difference(V, before, changes) ==
    /\ Mutations(V, changes)
    /\ \A i \in DOMAIN changes :
          /\ changes[i] = [path |-> changes[i].path, value |-> changes[i].value]
          /\ Reaches(before, changes[i].path)
          /\ ~Descends(ValueAt(before, changes[i].path), changes[i].value)
    /\ \A i, j \in DOMAIN changes : i # j => Diverge(changes[i].path, changes[j].path)

\* Diff answers such mutations; of values compared with themselves it answers
\* only doubles that are NaN.
LEMMA DiffIs ==
    ASSUME NEW V, Universe(V), NEW before \in Seq(V), NEW after \in Seq(V)
    PROVE  /\ Difference(V, before, Diff(before, after))
           /\ before = after => \A i \in DOMAIN Diff(before, after) :
                 Diff(before, after)[i].value = Scalar("double", NaN)
<1> DEFINE D == Depth(before)
           changes == Diff(before, after)
<1>1. PICK rounds : RoundsOf(rounds, V, before, after)
  BY ComparedIs
<1> DEFINE pairs == rounds[D]
<1>2. D \in Nat /\ D \in 0 .. D /\ changes = Changes(pairs)
  BY <1>1 DEF RoundsOf, Diff
<1>3. Round(V, before, after, pairs, D)
  BY <1>1, <1>2, EveryRound
<1>4. \A x \in ToSet(pairs) : ~Descends(x.before, x.after)
  BY <1>1, LastRound
<1> HIDE DEF D, pairs
<1>5. /\ pairs \in Seq(PairSet(V)) /\ Apart(pairs, Parting(V))
      /\ \A x \in ToSet(pairs) :
            /\ Reaches(before, x.path) /\ x.before = ValueAt(before, x.path)
            /\ before = after => x.before = x.after
  BY <1>3 DEF Round
<1> HIDE DEF changes
<1>6. Mutations(V, changes)
  BY <1>2, <1>5, ChangesAre
<1>7. ToSet(changes) = { Mutation(x) : x \in { y \in ToSet(pairs) : ~Equal(y.before, y.after) } }
  BY <1>2, <1>5, ChangesAre
<1>8. \A i, j \in DOMAIN changes : i # j => Diverge(changes[i].path, changes[j].path)
  BY <1>2, <1>5, ChangesAre
<1>9. ASSUME NEW i \in DOMAIN changes
      PROVE  /\ changes[i] = [path |-> changes[i].path, value |-> changes[i].value]
             /\ Reaches(before, changes[i].path)
             /\ ~Descends(ValueAt(before, changes[i].path), changes[i].value)
             /\ before = after => changes[i].value = Scalar("double", NaN)
  <2>1. changes[i] \in ToSet(changes)
    BY DEF ToSet
  <2>2. PICK x \in ToSet(pairs) : ~Equal(x.before, x.after) /\ changes[i] = Mutation(x)
    BY <1>7, <2>1
  <2>3. /\ changes[i] = [path |-> changes[i].path, value |-> changes[i].value]
        /\ changes[i].path = x.path /\ changes[i].value = x.after
    BY <2>2 DEF Mutation
  <2>4. Reaches(before, x.path) /\ x.before = ValueAt(before, x.path) /\ ~Descends(x.before, x.after)
    BY <1>4, <1>5
  <2>5. ASSUME before = after PROVE x.after = Scalar("double", NaN)
    <3>1. x.before = x.after
      BY <1>5, <2>5
    <3>2. ~IsList(x.after)
      BY <2>4, <3>1 DEF Descends
    <3>3. PICK k \in DOMAIN pairs : x = pairs[k]
      BY DEF ToSet
    <3>4. x.after \in V
      BY <1>5, <3>3, PairHas
    <3> QED
      BY <2>2, <3>1, <3>2, <3>4, SelfUnequalIsNaN
  <2> QED
    BY <2>3, <2>4, <2>5
<1> QED
  BY <1>6, <1>8, <1>9 DEF Difference, changes

\* The pairs of a round agree with some values.
Agree(r, pairs) == \A x \in ToSet(pairs) : Alike(<<ValueAt(r, x.path)>>, <<x.after>>)

\* Applying what Diff answered to the values before leaves the values after, at
\* every depth, but for the sign of zeros (value.go:70, "what has to change for
\* before to become after"); exactly those, if there is one zero.
THEOREM DiffApplies ==
    ASSUME NEW V, Universe(V), NEW before \in Seq(V), NEW after \in Seq(V),
           Len(before) = Len(after)
    PROVE  /\ ApplyEach(before, Diff(before, after)) \in Seq(V)
           /\ Alike(ApplyEach(before, Diff(before, after)), after)
           /\ OneZero(V) => ApplyEach(before, Diff(before, after)) = after
<1> DEFINE D == Depth(before)
           changes == Diff(before, after)
           r == ApplyEach(before, changes)
<1>1. PICK rounds : RoundsOf(rounds, V, before, after)
  BY ComparedIs
<1>2. /\ D \in Nat /\ D \in 0 .. D /\ changes = Changes(rounds[D])
      /\ rounds[0] = Pairs(<<>>, before, after)
      /\ \A n \in 1 .. D : rounds[n] = Descended(rounds[n - 1])
  BY <1>1 DEF RoundsOf, Diff
<1>3. \A n \in 0 .. D : Round(V, before, after, rounds[n], n)
  BY <1>1, EveryRound
<1>4. \A x \in ToSet(rounds[D]) : ~Descends(x.before, x.after)
  BY <1>1, LastRound
<1>5. \A m \in 0 .. D - 1 : \A x \in ToSet(rounds[m]) :
         Descends(x.before, x.after) => Beyond(x, rounds[D])
  BY <1>1, NeverAgain
<1>6. Difference(V, before, changes)
  BY DiffIs
<1> HIDE DEF D
<1>7. \A n \in 0 .. D : /\ rounds[n] \in Seq(PairSet(V)) /\ Apart(rounds[n], Parting(V))
                        /\ \A x \in ToSet(rounds[n]) :
                              Reaches(before, x.path) /\ x.before = ValueAt(before, x.path)
  BY <1>3 DEF Round
<1> HIDE DEF changes
<1>8. ToSet(changes) =
        { Mutation(x) : x \in { y \in ToSet(rounds[D]) : ~Equal(y.before, y.after) } }
  BY <1>2, <1>7, ChangesAre
<1>9. /\ Intact(V, before, r, changes)
      /\ \A i \in DOMAIN changes : ValueAt(r, changes[i].path) = changes[i].value
  <2>1. /\ Mutations(V, changes)
        /\ \A i \in DOMAIN changes : Reaches(before, changes[i].path)
        /\ \A i, j \in DOMAIN changes : i # j => Diverge(changes[i].path, changes[j].path)
    BY <1>6 DEF Difference
  <2> QED
    BY <2>1, ChangesApply
<1>10. /\ r \in Seq(V) /\ Len(r) = Len(before)
       /\ \A p \in Path : Reaches(before, p) /\ Away(p, changes) =>
             Reaches(r, p) /\ ValueAt(r, p) = ValueAt(before, p)
       /\ \A p \in Path : Reaches(before, p) /\ IsList(ValueAt(before, p)) /\ Clear(p, changes) =>
             /\ Reaches(r, p) /\ IsList(ValueAt(r, p))
             /\ Len(ValueAt(r, p).of) = Len(ValueAt(before, p).of)
  BY <1>9 DEF Intact
<1> HIDE DEF r
<1>11. \A i \in DOMAIN changes :
         \E y \in ToSet(rounds[D]) : ~Equal(y.before, y.after) /\ changes[i].path = y.path
  <2> SUFFICES ASSUME NEW i \in DOMAIN changes
               PROVE \E y \in ToSet(rounds[D]) : ~Equal(y.before, y.after) /\ changes[i].path = y.path
    OBVIOUS
  <2>1. changes[i] \in ToSet(changes)
    BY DEF ToSet
  <2>2. PICK x \in ToSet(rounds[D]) : ~Equal(x.before, x.after) /\ changes[i] = Mutation(x)
    BY <1>8, <2>1
  <2> QED
    BY <2>2 DEF Mutation
<1>12. Agree(r, rounds[D])
  <2> SUFFICES ASSUME NEW x \in ToSet(rounds[D]) PROVE Alike(<<ValueAt(r, x.path)>>, <<x.after>>)
    BY DEF Agree
  <2>1. rounds[D] \in Seq(PairSet(V)) /\ Apart(rounds[D], Parting(V))
        /\ Reaches(before, x.path) /\ x.before = ValueAt(before, x.path)
    BY <1>2, <1>7
  <2>2. PICK k \in DOMAIN rounds[D] : x = rounds[D][k]
    BY DEF ToSet
  <2>3. x.path \in Path /\ x.before \in V /\ x.after \in V
    BY <2>1, <2>2, PairHas
  <2>4. CASE Equal(x.before, x.after)
    <3>1. Alike(<<x.before>>, <<x.after>>)
      BY <2>3, <2>4, EqualIsAlike
    <3>2. ASSUME NEW i \in DOMAIN changes PROVE Diverge(x.path, changes[i].path)
      <4>1. PICK y \in ToSet(rounds[D]) : ~Equal(y.before, y.after) /\ changes[i].path = y.path
        BY <1>11
      <4>2. PICK l \in DOMAIN rounds[D] : y = rounds[D][l]
        BY DEF ToSet
      <4>3. k # l
        BY <2>2, <2>4, <4>1, <4>2
      <4>4. <<rounds[D][k], rounds[D][l]>> \in Parting(V)
        BY <2>1, <4>3 DEF Apart
      <4> QED
        BY <2>2, <4>1, <4>2, <4>4 DEF Parting
    <3>3. Away(x.path, changes)
      BY <3>2 DEF Away
    <3> QED
      BY <1>10, <2>1, <2>3, <3>1, <3>3
  <2>5. CASE ~Equal(x.before, x.after)
    <3>1. Mutation(x) \in ToSet(changes)
      BY <1>8, <2>5
    <3>2. PICK i \in DOMAIN changes : changes[i] = Mutation(x)
      BY <3>1 DEF ToSet
    <3>3. ValueAt(r, x.path) = x.after
      BY <1>9, <3>2 DEF Mutation, r
    <3>4. <<x.after>> \in Seq(V)
      BY <2>3
    <3> QED
      BY <3>3, <3>4, AlikeSelf
  <2> QED
    BY <2>4, <2>5
<1> DEFINE T == { n \in 0 .. D : Agree(r, rounds[D - n]) }
<1>13. 0 \in T
  <2>1. 0 \in 0 .. D /\ D - 0 = D
    BY <1>2
  <2> QED
    BY <1>12, <2>1
<1>14. ASSUME NEW n \in 0 .. D - 1, n \in T PROVE n + 1 \in T
  <2> DEFINE m == D - (n + 1)
  <2>1. m \in 0 .. D - 1 /\ m \in 0 .. D /\ m + 1 \in 1 .. D /\ (m + 1) - 1 = m /\ D - n = m + 1
        /\ n + 1 \in 0 .. D
    BY <1>2
  <2>2. Agree(r, rounds[m + 1])
    BY <1>14, <2>1
  <2>3. rounds[m + 1] = Descended(rounds[m]) /\ rounds[m] \in Seq(PairSet(V))
    BY <1>2, <1>7, <2>1
  <2> HIDE DEF m
  <2>4. ASSUME NEW x \in ToSet(rounds[m]) PROVE Alike(<<ValueAt(r, x.path)>>, <<x.after>>)
    <3>1. PICK k \in DOMAIN rounds[m] : x = rounds[m][k]
      BY DEF ToSet
    <3>2. x \in PairSet(V) /\ x.path \in Path /\ x.before \in V /\ x.after \in V
      BY <2>3, <3>1, PairHas
    <3>3. Reaches(before, x.path) /\ x.before = ValueAt(before, x.path)
      BY <1>7, <2>1
    <3>4. CASE ~Descends(x.before, x.after)
      <4>1. x \in ToSet(Descended(rounds[m]))
        BY <2>3, <3>1, <3>4, PieceIs
      <4> QED
        BY <2>2, <2>3, <4>1 DEF Agree
    <3>5. CASE Descends(x.before, x.after)
      <4>1. Beyond(x, rounds[D])
        BY <1>5, <2>1, <3>5
      <4>2. Clear(x.path, changes)
        BY <1>11, <4>1 DEF Beyond, Clear
      <4> DEFINE v == ValueAt(r, x.path)
      <4>3. IsList(x.before) /\ IsList(x.after) /\ Len(x.before.of) = Len(x.after.of)
        BY <3>5 DEF Descends
      <4>4. Reaches(r, x.path) /\ IsList(v) /\ Len(v.of) = Len(x.before.of)
        BY <1>10, <3>2, <3>3, <4>2, <4>3
      <4>5. v \in V
        BY <1>10, <3>2, <4>4, ReachedTyped
      <4>6. v.of \in Seq(V) /\ x.before.of \in Seq(V) /\ x.after.of \in Seq(V)
        BY <3>2, <4>3, <4>4, <4>5 DEF Universe
      <4>7. ASSUME NEW i \in DOMAIN v.of PROVE Alike(<<v.of[i]>>, <<x.after.of[i]>>)
        <5>1. i \in DOMAIN x.before.of
          BY <4>4, <4>6
        <5>2. \A j \in DOMAIN x.before.of : \E y \in ToSet(Descended(rounds[m])) : Child(y, x, j)
          BY <2>3, <3>1, <3>5, PieceIs
        <5>3. PICK y \in ToSet(Descended(rounds[m])) : Child(y, x, i)
          BY <5>1, <5>2
        <5>4. ValueAt(r, Append(x.path, i - 1)) = v.of[i]
          BY <1>10, <3>2, <4>4, OneFurther
        <5>5. Alike(<<ValueAt(r, y.path)>>, <<y.after>>)
          BY <2>2, <2>3, <5>3 DEF Agree
        <5> QED
          BY <5>3, <5>4, <5>5 DEF Child
      <4> HIDE DEF v
      <4>8. Alike(v.of, x.after.of)
        BY <4>3, <4>4, <4>6, <4>7, AlikeEach
      <4>9. Alike(<<v>>, <<x.after>>)
        BY <3>2, <4>3, <4>4, <4>5, <4>8, AlikeLists
      <4> QED
        BY <4>9 DEF v
    <3> QED
      BY <3>4, <3>5
  <2>5. Agree(r, rounds[m])
    BY <2>4 DEF Agree
  <2> QED
    BY <2>1, <2>5 DEF m
<1> HIDE DEF T
<1>15. 0 .. D \subseteq T
  BY <1>2, <1>13, <1>14, UpTo
<1>16. Agree(r, rounds[0])
  <2>1. D \in T /\ D - D = 0
    BY <1>2, <1>15
  <2> QED
    BY <2>1 DEF T
<1>17. ASSUME NEW i \in DOMAIN before PROVE Alike(<<r[i]>>, <<after[i]>>)
  <2> DEFINE pairs == Pairs(<<>>, before, after)
  <2>1. <<>> \in Seq(Nat)
    BY EmptySeq
  <2>2. DOMAIN pairs = DOMAIN before
    <3>1. \A p \in Seq(Nat) : DOMAIN Pairs(p, before, after) = DOMAIN before
      BY PairsAre
    <3> QED
      BY <2>1, <3>1, Zenon
  <2>3. \A k \in DOMAIN pairs : PairOf(pairs[k], <<>>, before, after, k)
    BY <2>1, PairsAre
  <2>4. pairs[i].path = Append(<<>>, i - 1) /\ pairs[i].after = after[i]
    BY <2>2, <2>3 DEF PairOf
  <2>5. pairs[i] \in ToSet(rounds[0])
    BY <1>2, <2>2 DEF ToSet
  <2> HIDE DEF pairs
  <2>6. Alike(<<ValueAt(r, Append(<<>>, i - 1))>>, <<after[i]>>)
    BY <1>16, <2>4, <2>5 DEF Agree
  <2>7. i \in DOMAIN r
    BY <1>10
  <2>8. ValueAt(r, Append(<<>>, i - 1)) = r[i]
    BY <1>10, <2>7, OneIndex
  <2> QED
    BY <2>6, <2>8
<1>18. Alike(r, after)
  <2>1. DOMAIN r = DOMAIN before
    BY <1>10
  <2> QED
    BY <1>10, <1>17, <2>1, AlikeEach
<1>19. OneZero(V) => r = after
  BY <1>10, <1>18, AlikeIsSame
<1> QED
  BY <1>10, <1>18, <1>19 DEF r, changes

-----------------------------------------------------------------------------
(* The recursion of diffInto, one pair after the other.                    *)

\* What becomes of a pair, and the mutation it is, if it is one.
Piece(V) == [x \in PairSet(V) |->
                IF Descends(x.before, x.after)
                THEN Pairs(x.path, x.before.of, x.after.of)
                ELSE <<x>>]
Change(V) == [x \in PairSet(V) |-> IF Equal(x.before, x.after) THEN <<>> ELSE <<Mutation(x)>>]

\* A round of the recursion, pair by pair.
LEMMA DescendedParts ==
    ASSUME NEW V, Universe(V)
    PROVE  /\ Descended(<<>>) = <<>>
           /\ \A x \in PairSet(V) :
                 Descended(<<x>>) = IF Descends(x.before, x.after)
                                    THEN Pairs(x.path, x.before.of, x.after.of)
                                    ELSE <<x>>
           /\ \A s, t \in Seq(PairSet(V)) :
                 Descended(s) \in Seq(PairSet(V)) /\ Descended(s \o t) = Descended(s) \o Descended(t)
<1> DEFINE S == PairSet(V)
           F == Piece(V)
<1>1. ASSUME NEW s \in Seq(S) PROVE Descended(s) = Flat(F, s)
  <2>1. \A i \in DOMAIN s : s[i] \in S
    OBVIOUS
  <2>2. [i \in DOMAIN s |-> F[s[i]]] = Pieces(s)
    BY <2>1 DEF Pieces, Piece
  <2>3. Descended(s) = FlattenSeq(Pieces(s))
    BY PiecesAre
  <2> QED
    BY <2>2, <2>3 DEF Flat
<1>2. F \in [S -> Seq(S)]
  <2>1. ASSUME NEW x \in S PROVE F[x] \in Seq(S)
    <3>1. CASE Descends(x.before, x.after)
      BY <3>1, ChildrenOf DEF Piece
    <3>2. CASE ~Descends(x.before, x.after)
      <4>1. F[x] = <<x>>
        BY <3>2 DEF Piece
      <4> HIDE DEF S, F
      <4> QED
        BY <4>1
    <3> QED
      BY <3>1, <3>2
  <2>2. F = [x \in S |-> F[x]]
    BY DEF Piece
  <2> HIDE DEF F, S
  <2> QED
    BY <2>1, <2>2
<1>3. \A x \in S : F[x] = IF Descends(x.before, x.after)
                          THEN Pairs(x.path, x.before.of, x.after.of) ELSE <<x>>
  BY DEF Piece
<1>4. <<>> \in Seq(S) /\ \A x \in S : <<x>> \in Seq(S)
  <2> HIDE DEF S
  <2> QED
    OBVIOUS
<1> HIDE DEF S, F
<1>5. /\ Flat(F, <<>>) = <<>>
      /\ \A x \in S : Flat(F, <<x>>) = F[x]
      /\ \A s, t \in Seq(S) : Flat(F, s) \in Seq(S) /\ Flat(F, s \o t) = Flat(F, s) \o Flat(F, t)
  <2>1. \A T : F \in [S -> Seq(T)] =>
          /\ Flat(F, <<>>) = <<>>
          /\ \A x \in S : Flat(F, <<x>>) = F[x]
          /\ \A s, t \in Seq(S) : Flat(F, s) \in Seq(T) /\ Flat(F, s \o t) = Flat(F, s) \o Flat(F, t)
    BY FlatParts
  <2> QED
    BY <1>2, <2>1
<1>6. \A s, t \in Seq(S) : s \o t \in Seq(S)
  BY ConcatProperties
<1>7. Descended(<<>>) = <<>>
  BY <1>1, <1>4, <1>5
<1>8. \A x \in S : Descended(<<x>>) = IF Descends(x.before, x.after)
                          THEN Pairs(x.path, x.before.of, x.after.of) ELSE <<x>>
  BY <1>1, <1>3, <1>4, <1>5
<1>9. \A s, t \in Seq(S) : Descended(s) \in Seq(S) /\ Descended(s \o t) = Descended(s) \o Descended(t)
  BY <1>1, <1>5, <1>6
<1> QED
  BY <1>7, <1>8, <1>9 DEF S

\* The changes among some pairs, pair by pair.
LEMMA ChangesParts ==
    ASSUME NEW V, Universe(V)
    PROVE  /\ Changes(<<>>) = <<>>
           /\ \A x \in PairSet(V) :
                 Changes(<<x>>) = IF Equal(x.before, x.after) THEN <<>> ELSE <<Mutation(x)>>
           /\ \A s, t \in Seq(PairSet(V)) :
                 /\ Changes(s) \in Seq([path : Path, value : V])
                 /\ Changes(s \o t) = Changes(s) \o Changes(t)
<1> DEFINE S == PairSet(V)
           M == [path : Path, value : V]
           F == Change(V)
<1>1. ASSUME NEW s \in Seq(S) PROVE Changes(s) = Flat(F, s)
  <2>1. \A i \in DOMAIN s : s[i] \in S
    OBVIOUS
  <2>2. \A i \in DOMAIN s : F[s[i]] = IF Equal(s[i].before, s[i].after) THEN <<>>
                                      ELSE <<[path |-> s[i].path, value |-> s[i].after]>>
    BY <2>1 DEF Change, Mutation
  <2>3. [i \in DOMAIN s |-> F[s[i]]]
          = [i \in DOMAIN s |-> IF Equal(s[i].before, s[i].after) THEN <<>>
                                ELSE <<[path |-> s[i].path, value |-> s[i].after]>>]
    <3> HIDE DEF F
    <3> QED
      BY <2>2
  <2> HIDE DEF F
  <2> QED
    BY <2>3 DEF Flat, Changes
<1>2. \A x \in S : F[x] = IF Equal(x.before, x.after) THEN <<>> ELSE <<Mutation(x)>>
  BY DEF Change
<1>3. F \in [S -> Seq(M)]
  <2>1. ASSUME NEW x \in S PROVE F[x] \in Seq(M)
    <3>1. Mutation(x) \in M
      BY DEF Mutation, PairSet
    <3> HIDE DEF M, S, F, Mutation
    <3>2. <<>> \in Seq(M) /\ <<Mutation(x)>> \in Seq(M)
      BY <3>1
    <3>3. F[x] = <<>> \/ F[x] = <<Mutation(x)>>
      BY <1>2
    <3> QED
      BY <3>2, <3>3
  <2>2. F = [x \in S |-> F[x]]
    BY DEF Change
  <2> HIDE DEF F, S, M
  <2> QED
    BY <2>1, <2>2
<1>4. <<>> \in Seq(S) /\ \A x \in S : <<x>> \in Seq(S)
  <2> HIDE DEF S
  <2> QED
    OBVIOUS
<1> HIDE DEF S, F, M
<1>5. /\ Flat(F, <<>>) = <<>>
      /\ \A x \in S : Flat(F, <<x>>) = F[x]
      /\ \A s, t \in Seq(S) : Flat(F, s) \in Seq(M) /\ Flat(F, s \o t) = Flat(F, s) \o Flat(F, t)
  BY <1>3, FlatParts
<1>6. \A s, t \in Seq(S) : s \o t \in Seq(S)
  BY ConcatProperties
<1>7. Changes(<<>>) = <<>>
  BY <1>1, <1>4, <1>5
<1>8. \A x \in S : Changes(<<x>>) = IF Equal(x.before, x.after) THEN <<>> ELSE <<Mutation(x)>>
  BY <1>1, <1>2, <1>4, <1>5
<1>9. \A s, t \in Seq(S) : Changes(s) \in Seq(M) /\ Changes(s \o t) = Changes(s) \o Changes(t)
  BY <1>1, <1>5, <1>6
<1> QED
  BY <1>7, <1>8, <1>9 DEF S, M

\* The rounds from some pairs on, to the ones left when it descends no more.
RoundsOn(f, N, V, pairs) ==
    /\ f \in [0 .. N -> Seq(PairSet(V))]
    /\ f[0] = pairs
    /\ \A n \in 1 .. N : f[n] = Descended(f[n - 1])
Descent(f, N, V, pairs, left) ==
    /\ RoundsOn(f, N, V, pairs)
    /\ f[N] = left
    /\ \A x \in ToSet(left) : ~Descends(x.before, x.after)
Settles(V, pairs, left) == \E N \in Nat : \E f : Descent(f, N, V, pairs, left)

\* Pairs that it does not descend into stay.
LEMMA SettledStay ==
    ASSUME NEW V, Universe(V), NEW left \in Seq(PairSet(V)),
           \A x \in ToSet(left) : ~Descends(x.before, x.after)
    PROVE  Descended(left) = left
<1> DEFINE S == PairSet(V)
           N == Len(left)
           f == [n \in 0 .. N |-> SubSeq(left, 1, n)]
           T == { n \in 0 .. N : Descended(f[n]) = f[n] }
<1>1. N \in Nat /\ DOMAIN left = 1 .. N /\ \A n \in 1 .. N : left[n] \in S
  OBVIOUS
<1>2. \A n \in 1 .. N : ~Descends(left[n].before, left[n].after)
  BY <1>1 DEF ToSet
<1>3. /\ f[0] = <<>> /\ f[N] = left /\ \A n \in 0 .. N : f[n] \in Seq(S)
      /\ \A n \in 1 .. N : f[n] = f[n - 1] \o <<left[n]>>
  <2>1. \A n \in 0 .. N : f[n] = SubSeq(left, 1, n)
    OBVIOUS
  <2>2. SubSeq(left, 1, 0) = <<>>
    BY SubSeqEmpty
  <2>3. SubSeq(left, 1, N) = left
    BY SubSeqFull
  <2>4. ASSUME NEW n \in 0 .. N PROVE SubSeq(left, 1, n) \in Seq(S)
    <3>1. 1 \in Int /\ n \in Int /\ \A i \in 1 .. n : left[i] \in S
      BY <1>1
    <3> HIDE DEF S, N
    <3> QED
      BY <3>1, SubSeqProperties
  <2>5. ASSUME NEW n \in 1 .. N PROVE SubSeq(left, 1, n) = SubSeq(left, 1, n - 1) \o <<left[n]>>
    <3>1. 1 \in 1 .. Len(left) /\ n \in 1 .. Len(left)
      BY <1>1
    <3> HIDE DEF N, f
    <3> QED
      BY <3>1, SubSeqRecursiveSecond
  <2>6. 0 \in 0 .. N /\ N \in 0 .. N /\ \A n \in 1 .. N : n \in 0 .. N /\ n - 1 \in 0 .. N
    BY <1>1
  <2> HIDE DEF f, S, N
  <2> QED
    BY <2>1, <2>2, <2>3, <2>4, <2>5, <2>6
<1> HIDE DEF f, N
<1>4. 0 \in T
  BY <1>1, <1>3, DescendedParts
<1>5. ASSUME NEW n \in 0 .. N - 1, n \in T PROVE n + 1 \in T
  <2>1. n \in 0 .. N /\ n + 1 \in 1 .. N /\ n + 1 \in 0 .. N /\ (n + 1) - 1 = n
    BY <1>1
  <2>2. f[n + 1] = f[n] \o <<left[n + 1]>> /\ f[n] \in Seq(S) /\ left[n + 1] \in S
    BY <1>1, <1>3, <2>1
  <2> DEFINE x == left[n + 1]
             s == f[n]
             t == <<x>>
  <2>3. s \in Seq(PairSet(V)) /\ t \in Seq(PairSet(V)) /\ x \in PairSet(V)
    BY <2>2
  <2>4. Descended(t) = t
    BY <1>2, <2>1, <2>3, DescendedParts
  <2>5. Descended(s) = s
    BY <1>5
  <2> HIDE DEF x, s, t
  <2>6. Descended(s \o t) = s \o t
    <3>1. Descended(s \o t) = Descended(s) \o Descended(t)
      BY <2>3, DescendedParts
    <3> QED
      BY <2>4, <2>5, <3>1
  <2> QED
    BY <2>1, <2>2, <2>6 DEF x, s, t
<1>6. N \in T
  <2> HIDE DEF T
  <2>1. 0 .. N \subseteq T
    BY <1>1, <1>4, <1>5, UpTo
  <2> QED
    BY <1>1, <2>1
<1> QED
  BY <1>3, <1>6

\* So there may be more rounds.
LEMMA MoreRounds ==
    ASSUME NEW V, Universe(V), NEW pairs, NEW left, NEW N \in Nat, NEW M \in Nat, N <= M,
           NEW f, Descent(f, N, V, pairs, left)
    PROVE  \E g : Descent(g, M, V, pairs, left)
<1> DEFINE g == [n \in 0 .. M |-> IF n <= N THEN f[n] ELSE left]
<1>1. /\ f \in [0 .. N -> Seq(PairSet(V))] /\ f[0] = pairs /\ f[N] = left
      /\ \A n \in 1 .. N : f[n] = Descended(f[n - 1])
      /\ \A x \in ToSet(left) : ~Descends(x.before, x.after)
  BY DEF Descent, RoundsOn
<1>2. left \in Seq(PairSet(V)) /\ Descended(left) = left
  BY <1>1, SettledStay
<1>3. g \in [0 .. M -> Seq(PairSet(V))]
  BY <1>1, <1>2
<1>4. g[0] = pairs /\ g[M] = left
  BY <1>1
<1>5. ASSUME NEW n \in 1 .. M PROVE g[n] = Descended(g[n - 1])
  <2>1. CASE n <= N
    BY <1>1, <2>1
  <2>2. CASE ~(n <= N)
    <3>1. g[n] = left /\ g[n - 1] = left
      BY <1>1, <2>2
    <3> QED
      BY <1>2, <3>1
  <2> QED
    BY <2>1, <2>2
<1> HIDE DEF g
<1>6. Descent(g, M, V, pairs, left)
  BY <1>1, <1>3, <1>4, <1>5 DEF Descent, RoundsOn
<1> QED
  BY <1>6

\* From any pairs there is one descent of each length.
LEMMA RoundsFrom ==
    ASSUME NEW V, Universe(V), NEW pairs \in Seq(PairSet(V)), NEW N \in Nat
    PROVE  \E f : RoundsOn(f, N, V, pairs)
<1> DEFINE S == Seq(PairSet(V))
           next == [n \in 1 .. N |-> [s \in S |-> Descended(s)]]
<1>1. \A s \in S : Descended(s) \in S
  BY PiecesAre
<1>2. next \in [1 .. N -> [S -> S]]
  BY <1>1
<1>3. PICK f : Iterated(f, N, S, pairs, next)
  <2>1. pairs \in S
    OBVIOUS
  <2> HIDE DEF S, next
  <2> QED
    BY <1>2, <2>1, Iterates
<1>4. f \in [0 .. N -> S] /\ f[0] = pairs /\ \A n \in 1 .. N : f[n] = next[n][f[n - 1]]
  BY <1>3 DEF Iterated
<1>5. ASSUME NEW n \in 1 .. N PROVE f[n] = Descended(f[n - 1])
  <2>1. f[n - 1] \in S
    <3> HIDE DEF S, next
    <3> QED
      BY <1>4
  <2>2. next[n][f[n - 1]] = Descended(f[n - 1])
    BY <2>1
  <2> QED
    BY <1>4, <2>2
<1> HIDE DEF next
<1>6. RoundsOn(f, N, V, pairs)
  BY <1>4, <1>5 DEF RoundsOn
<1> QED
  BY <1>6

\* The rounds of two parts go on side by side.
LEMMA SideBySide ==
    ASSUME NEW V, Universe(V), NEW N \in Nat,
           NEW f, NEW g, NEW h, NEW s, NEW t, NEW u, IsConcat(u, s, t),
           RoundsOn(f, N, V, s), RoundsOn(g, N, V, t), RoundsOn(h, N, V, u)
    PROVE  IsConcat(h[N], f[N], g[N])
<1> DEFINE T == { n \in 0 .. N : h[n] = f[n] \o g[n] }
<1>1. 0 \in T
  BY DEF RoundsOn, IsConcat
<1>2. ASSUME NEW n \in 0 .. N - 1, n \in T PROVE n + 1 \in T
  <2>1. n \in 0 .. N /\ n + 1 \in 1 .. N /\ n + 1 \in 0 .. N /\ (n + 1) - 1 = n
    OBVIOUS
  <2> DEFINE p == f[n]
             q == g[n]
  <2>2. p \in Seq(PairSet(V)) /\ q \in Seq(PairSet(V)) /\ h[n] = p \o q
    BY <1>2, <2>1 DEF RoundsOn
  <2>3. f[n + 1] = Descended(p) /\ g[n + 1] = Descended(q) /\ h[n + 1] = Descended(h[n])
    BY <2>1 DEF RoundsOn
  <2> HIDE DEF p, q
  <2>4. Descended(p \o q) = Descended(p) \o Descended(q)
    BY <2>2, DescendedParts
  <2> QED
    BY <2>1, <2>2, <2>3, <2>4
<1> HIDE DEF T
<1>3. 0 .. N \subseteq T
  BY <1>1, <1>2, UpTo
<1>4. N \in T
  BY <1>3
<1> QED
  BY <1>4 DEF T, IsConcat

\* What is left of two parts is what is left of each.
LEMMA SettlesParts ==
    ASSUME NEW V, Universe(V), NEW s \in Seq(PairSet(V)), NEW t \in Seq(PairSet(V)), NEW left,
           Settles(V, s \o t, left)
    PROVE  \E p, q : /\ Settles(V, s, p) /\ Settles(V, t, q) /\ left = p \o q
                     /\ p \in Seq(PairSet(V)) /\ q \in Seq(PairSet(V))
<1>0. PICK N \in Nat : \E h : Descent(h, N, V, s \o t, left)
  BY DEF Settles
<1>1. PICK h : Descent(h, N, V, s \o t, left)
  BY <1>0
<1>2. PICK f : RoundsOn(f, N, V, s)
  BY <1>1, RoundsFrom
<1>3. PICK g : RoundsOn(g, N, V, t)
  BY <1>1, RoundsFrom
<1> DEFINE p == f[N]
           q == g[N]
<1>4. RoundsOn(h, N, V, s \o t) /\ h[N] = left /\ \A x \in ToSet(left) : ~Descends(x.before, x.after)
  BY <1>1 DEF Descent
<1>5. N \in 0 .. N /\ h[N] = f[N] \o g[N]
  <2>1. N \in 0 .. N
    BY <1>1
  <2> DEFINE u == s \o t
  <2>3. IsConcat(u, s, t) /\ RoundsOn(h, N, V, u)
    BY <1>4 DEF IsConcat
  <2> HIDE DEF u
  <2>4. IsConcat(h[N], f[N], g[N])
    BY <1>1, <1>2, <1>3, <2>3, SideBySide
  <2>2. h[N] = f[N] \o g[N]
    BY <2>4 DEF IsConcat
  <2> QED
    BY <2>1, <2>2
<1>6. p \in Seq(PairSet(V)) /\ q \in Seq(PairSet(V)) /\ left = p \o q
  BY <1>2, <1>3, <1>4, <1>5 DEF RoundsOn
<1> HIDE DEF p, q
<1>7. ToSet(left) = ToSet(p) \cup ToSet(q)
  BY <1>6, ConcatToSet
<1>8. Descent(f, N, V, s, p) /\ Descent(g, N, V, t, q)
  BY <1>2, <1>3, <1>4, <1>7 DEF Descent, RoundsOn, p, q
<1> QED
  BY <1>1, <1>6, <1>8 DEF Settles

\* And the other way round.
LEMMA SettlesJoin ==
    ASSUME NEW V, Universe(V), NEW s \in Seq(PairSet(V)), NEW t \in Seq(PairSet(V)),
           NEW p, NEW q, Settles(V, s, p), Settles(V, t, q)
    PROVE  Settles(V, s \o t, p \o q)
<1>0. PICK N1 \in Nat : \E f1 : Descent(f1, N1, V, s, p)
  BY DEF Settles
<1>1. PICK f1 : Descent(f1, N1, V, s, p)
  BY <1>0
<1>20. PICK N2 \in Nat : \E g1 : Descent(g1, N2, V, t, q)
  BY DEF Settles
<1>2. PICK g1 : Descent(g1, N2, V, t, q)
  BY <1>20
<1> DEFINE N == N1 + N2
<1>3. N \in Nat /\ N1 <= N /\ N2 <= N
  OBVIOUS
<1> HIDE DEF N
<1>4. PICK f : Descent(f, N, V, s, p)
  BY <1>1, <1>3, MoreRounds
<1>5. PICK g : Descent(g, N, V, t, q)
  BY <1>2, <1>3, MoreRounds
<1>6. s \o t \in Seq(PairSet(V))
  BY ConcatProperties
<1>7. PICK h : RoundsOn(h, N, V, s \o t)
  <2> DEFINE u == s \o t
  <2>1. u \in Seq(PairSet(V))
    BY <1>6
  <2> HIDE DEF u
  <2>2. \E h : RoundsOn(h, N, V, u)
    BY <1>3, <2>1, RoundsFrom
  <2> QED
    BY <2>2 DEF u
<1>8. /\ RoundsOn(f, N, V, s) /\ RoundsOn(g, N, V, t) /\ f[N] = p /\ g[N] = q
      /\ \A x \in ToSet(p) \cup ToSet(q) : ~Descends(x.before, x.after)
  BY <1>4, <1>5 DEF Descent
<1>9. N \in 0 .. N /\ h[N] = f[N] \o g[N]
  <2>1. N \in 0 .. N
    BY <1>3
  <2> DEFINE u == s \o t
  <2>3. IsConcat(u, s, t) /\ RoundsOn(h, N, V, u)
    BY <1>7 DEF IsConcat
  <2> HIDE DEF u
  <2>4. IsConcat(h[N], f[N], g[N])
    BY <1>3, <1>8, <2>3, SideBySide
  <2>2. h[N] = f[N] \o g[N]
    BY <2>4 DEF IsConcat
  <2> QED
    BY <2>1, <2>2
<1>10. p \in Seq(PairSet(V)) /\ q \in Seq(PairSet(V)) /\ h[N] = p \o q
  BY <1>8, <1>9 DEF RoundsOn
<1>11. ToSet(p \o q) = ToSet(p) \cup ToSet(q)
  BY <1>10, ConcatToSet
<1>12. Descent(h, N, V, s \o t, p \o q)
  BY <1>7, <1>8, <1>10, <1>11 DEF Descent, RoundsOn
<1> QED
  BY <1>3, <1>12 DEF Settles

\* What is left of one pair.
LEMMA SettlesOne ==
    ASSUME NEW V, Universe(V), NEW x \in PairSet(V), NEW left, Settles(V, <<x>>, left)
    PROVE  /\ ~Descends(x.before, x.after) => left = <<x>>
           /\ Descends(x.before, x.after) =>
                 Settles(V, Pairs(x.path, x.before.of, x.after.of), left)
<1>0. PICK N \in Nat : \E f : Descent(f, N, V, <<x>>, left)
  BY DEF Settles
<1>1. PICK f : Descent(f, N, V, <<x>>, left)
  BY <1>0
<1>2. /\ f \in [0 .. N -> Seq(PairSet(V))] /\ f[0] = <<x>> /\ f[N] = left
      /\ \A n \in 1 .. N : f[n] = Descended(f[n - 1])
      /\ \A y \in ToSet(left) : ~Descends(y.before, y.after)
  BY <1>1 DEF Descent, RoundsOn
<1>3. ASSUME ~Descends(x.before, x.after) PROVE left = <<x>>
  <2> DEFINE T == { n \in 0 .. N : f[n] = <<x>> }
  <2>1. 0 \in T
    BY <1>2
  <2>2. ASSUME NEW n \in 0 .. N - 1, n \in T PROVE n + 1 \in T
    <3>1. n + 1 \in 1 .. N /\ n + 1 \in 0 .. N /\ (n + 1) - 1 = n
      OBVIOUS
    <3>2. f[n + 1] = Descended(f[n]) /\ f[n] = <<x>>
      BY <1>2, <2>2, <3>1
    <3>3. Descended(<<x>>) = <<x>>
      BY <1>3, DescendedParts
    <3> QED
      BY <3>1, <3>2, <3>3
  <2> HIDE DEF T
  <2>3. 0 .. N \subseteq T
    BY <2>1, <2>2, UpTo
  <2>4. N \in T
    BY <2>3
  <2> QED
    BY <1>2, <2>4 DEF T
<1>4. ASSUME Descends(x.before, x.after)
      PROVE  Settles(V, Pairs(x.path, x.before.of, x.after.of), left)
  <2>1. N # 0
    <3>1. SUFFICES ASSUME N = 0 PROVE FALSE
      OBVIOUS
    <3>2. x \in ToSet(<<x>>)
      BY DEF ToSet
    <3> QED
      BY <1>2, <1>4, <3>1, <3>2
  <2> DEFINE g == [n \in 0 .. N - 1 |-> f[n + 1]]
  <2>2. N - 1 \in Nat /\ 0 \in 0 .. N - 1 /\ N - 1 \in 0 .. N - 1 /\ (N - 1) + 1 = N /\ 1 \in 1 .. N
    BY <2>1
  <2>3. g \in [0 .. N - 1 -> Seq(PairSet(V))] /\ g[N - 1] = left
    <3>1. \A n \in 0 .. N - 1 : n + 1 \in 0 .. N
      BY <2>2
    <3>2. \A n \in 0 .. N - 1 : f[n + 1] \in Seq(PairSet(V))
      BY <1>2, <3>1
    <3>3. g[N - 1] = f[(N - 1) + 1]
      BY <2>2
    <3>4. g[N - 1] = left
      BY <1>2, <2>2, <3>3
    <3> QED
      BY <3>2, <3>4
  <2>4. g[0] = Pairs(x.path, x.before.of, x.after.of)
    <3>1. g[0] = f[1] /\ f[1] = Descended(<<x>>)
      <4>1. 0 + 1 = 1 /\ 1 - 1 = 0
        OBVIOUS
      <4>2. g[0] = f[0 + 1]
        BY <2>2
      <4>3. f[1] = Descended(f[1 - 1])
        BY <1>2, <2>2
      <4> QED
        BY <1>2, <4>1, <4>2, <4>3
    <3> QED
      BY <1>4, <3>1, DescendedParts
  <2>5. ASSUME NEW n \in 1 .. N - 1 PROVE g[n] = Descended(g[n - 1])
    <3>1. n + 1 \in 1 .. N /\ n \in 0 .. N - 1 /\ n - 1 \in 0 .. N - 1
          /\ (n + 1) - 1 = n /\ (n - 1) + 1 = n
      BY <2>2
    <3>2. g[n] = f[n + 1] /\ g[n - 1] = f[n] /\ f[n + 1] = Descended(f[n])
      BY <1>2, <3>1
    <3> QED
      BY <3>2
  <2> HIDE DEF g
  <2>6. Descent(g, N - 1, V, Pairs(x.path, x.before.of, x.after.of), left)
    BY <1>2, <2>3, <2>4, <2>5 DEF Descent, RoundsOn
  <2> QED
    BY <2>2, <2>6 DEF Settles
<1> QED
  BY <1>3, <1>4

\* What is left when the first of some pairs has been descended into, or compared.
LEMMA SettlesNext ==
    ASSUME NEW V, Universe(V), NEW x \in PairSet(V), NEW rest \in Seq(PairSet(V)), NEW left,
           Settles(V, <<x>> \o rest, left)
    PROVE  /\ Descends(x.before, x.after) =>
                 Settles(V, Pairs(x.path, x.before.of, x.after.of) \o rest, left)
           /\ ~Descends(x.before, x.after) =>
                 \E q : /\ Settles(V, rest, q)
                        /\ Changes(q) \in Seq([path : Path, value : V])
                        /\ IsConcat(Changes(left), Changes(<<x>>), Changes(q))
<1> DEFINE s == <<x>>
<1>1. s \in Seq(PairSet(V))
  <2>1. \A S : \A y \in S : <<y>> \in Seq(S)
    OBVIOUS
  <2> QED
    BY <2>1
<1> HIDE DEF s
<1>2. PICK p, q : /\ Settles(V, s, p) /\ Settles(V, rest, q) /\ left = p \o q
                  /\ p \in Seq(PairSet(V)) /\ q \in Seq(PairSet(V))
  <2>1. Settles(V, s \o rest, left)
    BY DEF s
  <2> QED
    BY <1>1, <2>1, SettlesParts
<1>3. /\ ~Descends(x.before, x.after) => p = s
      /\ Descends(x.before, x.after) => Settles(V, Pairs(x.path, x.before.of, x.after.of), p)
  BY <1>2, SettlesOne DEF s
<1>4. ASSUME Descends(x.before, x.after)
      PROVE  Settles(V, Pairs(x.path, x.before.of, x.after.of) \o rest, left)
  <2>1. Pairs(x.path, x.before.of, x.after.of) \in Seq(PairSet(V))
    BY <1>4, ChildrenOf
  <2> QED
    BY <1>2, <1>3, <1>4, <2>1, SettlesJoin
<1>5. ASSUME ~Descends(x.before, x.after)
      PROVE  /\ Settles(V, rest, q)
             /\ Changes(q) \in Seq([path : Path, value : V])
             /\ IsConcat(Changes(left), Changes(s), Changes(q))
  BY <1>1, <1>2, <1>3, <1>5, ChangesParts DEF IsConcat
<1> QED
  BY <1>4, <1>5 DEF s

\* Nothing is left of nothing.
LEMMA SettlesNothing ==
    ASSUME NEW V, Universe(V), NEW left, Settles(V, <<>>, left)
    PROVE  left = <<>>
<1>0. PICK N \in Nat : \E f : Descent(f, N, V, <<>>, left)
  BY DEF Settles
<1>1. PICK f : Descent(f, N, V, <<>>, left)
  BY <1>0
<1>2. f[0] = <<>> /\ f[N] = left /\ \A n \in 1 .. N : f[n] = Descended(f[n - 1])
  BY <1>1 DEF Descent, RoundsOn
<1> DEFINE T == { n \in 0 .. N : f[n] = <<>> }
<1>3. 0 \in T
  BY <1>2
<1>4. ASSUME NEW n \in 0 .. N - 1, n \in T PROVE n + 1 \in T
  <2>1. n + 1 \in 1 .. N /\ n + 1 \in 0 .. N /\ (n + 1) - 1 = n
    OBVIOUS
  <2>2. f[n + 1] = Descended(f[n]) /\ f[n] = <<>>
    BY <1>2, <1>4, <2>1
  <2> QED
    BY <2>1, <2>2, DescendedParts
<1> HIDE DEF T
<1>5. 0 .. N \subseteq T
  BY <1>3, <1>4, UpTo
<1>6. N \in T
  BY <1>5
<1> QED
  BY <1>2, <1>6 DEF T

\* Diff has the changes among the pairs that are left of all.
LEMMA DiffSettles ==
    ASSUME NEW V, Universe(V), NEW before \in Seq(V), NEW after \in Seq(V)
    PROVE  \E left : /\ Settles(V, Pairs(<<>>, before, after), left)
                     /\ Diff(before, after) = Changes(left)
<1>1. PICK rounds : RoundsOf(rounds, V, before, after)
  BY ComparedIs
<1> DEFINE D == Depth(before)
           left == rounds[D]
<1>2. /\ D \in Nat /\ rounds \in [0 .. D -> Seq(PairSet(V))]
      /\ rounds[0] = Pairs(<<>>, before, after)
      /\ \A n \in 1 .. D : rounds[n] = Descended(rounds[n - 1])
      /\ Compared(before, after) = left
  BY <1>1 DEF RoundsOf
<1>3. \A x \in ToSet(left) : ~Descends(x.before, x.after)
  BY <1>1, LastRound
<1> HIDE DEF D
<1>4. Descent(rounds, D, V, Pairs(<<>>, before, after), left)
  BY <1>2, <1>3 DEF Descent, RoundsOn
<1>5. Settles(V, Pairs(<<>>, before, after), left)
  BY <1>2, <1>4 DEF Settles
<1>6. Diff(before, after) = Changes(left)
  BY <1>2 DEF Diff
<1> QED
  BY <1>5, <1>6
=============================================================================
