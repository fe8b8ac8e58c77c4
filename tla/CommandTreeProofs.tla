-------------------------- MODULE CommandTreeProofs --------------------------
(***************************************************************************)
(* What CommandTree promises, for trees of every size and shape.           *)
(*                                                                         *)
(* The walk of DecodeIntermediate is done with the nodes in a total order, *)
(* so the ids, which count the nodes that run up to each, are the ranks of *)
(* a finite set and leave no number out.  Everything else is said of one   *)
(* node at a time, of what a tree becomes: a file, a tree again, a bundle, *)
(* and what the host makes of that.                                        *)
(***************************************************************************)
EXTENDS CommandTree, FiniteSetTheorems, RecursionLemmas

-----------------------------------------------------------------------------
(* The order in which the walk of DecodeIntermediate is done with nodes.   *)

\* Where a node may be.
Places == Seq(Nat \ {0})

\* A prefix, place by place.
LEMMA PrefixIs ==
    ASSUME NEW p \in Places, NEW q \in Places
    PROVE  IsPrefix(p, q) <=> Len(p) <= Len(q) /\ \A k \in 1 .. Len(p) : q[k] = p[k]
<1>1. Len(p) \in Nat /\ Len(q) \in Nat /\ p \in Seq(Nat) /\ q \in Seq(Nat)
  BY DEF Places
<1>2. SubSeq(p, 1, Len(p)) = [k \in 1 .. Len(p) |-> p[k]]
  BY <1>1
<1>3. ASSUME Len(p) <= Len(q)
      PROVE  SubSeq(q, 1, Len(p)) = [k \in 1 .. Len(p) |-> q[k]]
  BY <1>1, <1>3
<1> QED
  BY <1>2, <1>3 DEF IsPrefix

\* Two places are one inside of the other, or part at a first position.
LEMMA FirstDifference ==
    ASSUME NEW p \in Places, NEW q \in Places, ~IsPrefix(p, q), ~IsPrefix(q, p)
    PROVE  \E i \in DOMAIN p \cap DOMAIN q : p[i] # q[i] /\ \A k \in 1 .. i - 1 : p[k] = q[k]
<1> DEFINE differ == { i \in DOMAIN p \cap DOMAIN q : p[i] # q[i] }
<1>1. DOMAIN p = 1 .. Len(p) /\ DOMAIN q = 1 .. Len(q) /\ Len(p) \in Nat /\ Len(q) \in Nat
  BY DEF Places
<1>2. differ \subseteq Nat
  BY <1>1
<1>3. differ # {}
  BY <1>1, PrefixIs
<1>4. PICK i \in differ : \A n \in differ : i <= n
  <2> HIDE DEF differ
  <2> QED
    BY <1>2, <1>3, Least
<1>5. ASSUME NEW k \in 1 .. i - 1 PROVE p[k] = q[k]
  <2>1. k \in DOMAIN p \cap DOMAIN q /\ ~(i <= k)
    BY <1>1, <1>4
  <2> QED
    BY <1>4, <2>1
<1> QED
  BY <1>4, <1>5

\* The walk is done with one of two nodes when it is done with the other.
LEMMA DoneByTotal ==
    ASSUME NEW p \in Places, NEW q \in Places
    PROVE  DoneBy(p, q) \/ DoneBy(q, p)
<1>1. CASE IsPrefix(p, q) \/ IsPrefix(q, p)
  BY <1>1 DEF DoneBy
<1>2. CASE ~IsPrefix(p, q) /\ ~IsPrefix(q, p)
  <2>1. PICK i \in DOMAIN p \cap DOMAIN q : p[i] # q[i] /\ \A k \in 1 .. i - 1 : p[k] = q[k]
    BY <1>2, FirstDifference
  <2>2. p[i] \in Nat /\ q[i] \in Nat
    BY DEF Places
  <2>3. p[i] < q[i] \/ q[i] < p[i]
    BY <2>1, <2>2
  <2> QED
    BY <2>1, <2>3 DEF DoneBy
<1> QED
  BY <1>1, <1>2

\* A place before another is not after it.
LEMMA DoneByOneWay ==
    ASSUME NEW p \in Places, NEW q \in Places, DoneBy(p, q), DoneBy(q, p)
    PROVE  p = q
<1>1. /\ DOMAIN p = 1 .. Len(p) /\ DOMAIN q = 1 .. Len(q) /\ Len(p) \in Nat /\ Len(q) \in Nat
      /\ \A i \in DOMAIN p : p[i] \in Nat
      /\ \A i \in DOMAIN q : q[i] \in Nat
  BY DEF Places
<1> DEFINE less(a, b, i) == a[i] < b[i] /\ \A k \in 1 .. i - 1 : a[k] = b[k]
<1>2. ASSUME NEW i \in DOMAIN p \cap DOMAIN q, less(p, q, i) PROVE ~IsPrefix(p, q) /\ ~IsPrefix(q, p)
  <2>1. p[i] # q[i] /\ i \in 1 .. Len(p) /\ i \in 1 .. Len(q)
    BY <1>1, <1>2
  <2>2. IsPrefix(p, q) => q[i] = p[i]
    BY <2>1, PrefixIs
  <2>3. IsPrefix(q, p) => p[i] = q[i]
    BY <2>1, PrefixIs
  <2> QED
    BY <2>1, <2>2, <2>3
<1>3. ASSUME NEW i \in DOMAIN p \cap DOMAIN q, less(q, p, i) PROVE ~IsPrefix(p, q) /\ ~IsPrefix(q, p)
  <2>1. p[i] # q[i] /\ i \in 1 .. Len(p) /\ i \in 1 .. Len(q)
    BY <1>1, <1>3
  <2>2. IsPrefix(p, q) => q[i] = p[i]
    BY <2>1, PrefixIs
  <2>3. IsPrefix(q, p) => p[i] = q[i]
    BY <2>1, PrefixIs
  <2> QED
    BY <2>1, <2>2, <2>3
<1>4. ASSUME NEW i \in DOMAIN p \cap DOMAIN q, less(p, q, i),
             NEW j \in DOMAIN p \cap DOMAIN q, less(q, p, j)
      PROVE  FALSE
  <2>1. p[i] \in Nat /\ q[i] \in Nat /\ p[j] \in Nat /\ q[j] \in Nat /\ i \in Nat \ {0} /\ j \in Nat \ {0}
    BY <1>1
  <2>2. CASE i < j
    <3>1. i \in 1 .. j - 1
      BY <2>1, <2>2
    <3> QED
      BY <1>4, <2>1, <3>1
  <2>3. CASE j < i
    <3>1. j \in 1 .. i - 1
      BY <2>1, <2>3
    <3> QED
      BY <1>4, <2>1, <3>1
  <2>4. CASE i = j
    BY <1>4, <2>1, <2>4
  <2> QED
    BY <2>1, <2>2, <2>3, <2>4
<1>5. IsPrefix(p, q) /\ IsPrefix(q, p)
  <2>1. \/ IsPrefix(q, p)
        \/ \E i \in DOMAIN p \cap DOMAIN q : less(p, q, i)
    BY DEF DoneBy
  <2>2. \/ IsPrefix(p, q)
        \/ \E i \in DOMAIN p \cap DOMAIN q : less(q, p, i)
    BY DEF DoneBy
  <2> HIDE DEF less
  <2> QED
    BY <2>1, <2>2, <1>2, <1>3, <1>4
<1>6. Len(p) = Len(q) /\ \A k \in 1 .. Len(p) : p[k] = q[k]
  <2>1. Len(p) <= Len(q) /\ \A k \in 1 .. Len(p) : q[k] = p[k]
    BY <1>5, PrefixIs
  <2>2. Len(q) <= Len(p)
    BY <1>5, PrefixIs
  <2>3. Len(p) = Len(q)
    <3>1. Len(p) \in Nat /\ Len(q) \in Nat /\ Len(p) <= Len(q)
      BY <1>1, <2>1
    <3> QED
      BY <2>2, <3>1
  <2> QED
    BY <2>1, <2>3
<1> QED
  <2>1. p \in Seq(Nat \ {0}) /\ q \in Seq(Nat \ {0})
    BY DEF Places
  <2> QED
    BY <2>1, <1>6, SeqEqual

\* What is before a place is before whatever that place is before.
LEMMA DoneByOnward ==
    ASSUME NEW p \in Places, NEW q \in Places, NEW r \in Places, DoneBy(r, q), DoneBy(q, p)
    PROVE  DoneBy(r, p)
<1>1. /\ DOMAIN p = 1 .. Len(p) /\ DOMAIN q = 1 .. Len(q) /\ DOMAIN r = 1 .. Len(r)
      /\ Len(p) \in Nat /\ Len(q) \in Nat /\ Len(r) \in Nat
      /\ \A i \in DOMAIN p : p[i] \in Nat
      /\ \A i \in DOMAIN q : q[i] \in Nat
      /\ \A i \in DOMAIN r : r[i] \in Nat
  BY DEF Places
<1>2. CASE IsPrefix(q, r) /\ IsPrefix(p, q)
  <2>1. Len(p) <= Len(q) /\ \A k \in 1 .. Len(p) : q[k] = p[k]
    BY <1>2, PrefixIs
  <2>2. Len(q) <= Len(r) /\ \A k \in 1 .. Len(q) : r[k] = q[k]
    BY <1>2, PrefixIs
  <2>3. Len(p) <= Len(r)
    BY <1>1, <2>1, <2>2
  <2>4. ASSUME NEW k \in 1 .. Len(p) PROVE r[k] = p[k]
    <3>1. k \in 1 .. Len(q)
      BY <1>1, <2>1
    <3> QED
      BY <2>1, <2>2, <3>1
  <2>5. IsPrefix(p, r)
    BY <2>3, <2>4, PrefixIs
  <2> QED
    BY <2>5 DEF DoneBy
<1>3. ASSUME IsPrefix(q, r),
             NEW i \in DOMAIN p \cap DOMAIN q, q[i] < p[i], \A k \in 1 .. i - 1 : q[k] = p[k]
      PROVE  DoneBy(r, p)
  <2>1. Len(q) <= Len(r) /\ \A k \in 1 .. Len(q) : r[k] = q[k]
    BY <1>3, PrefixIs
  <2>2. i \in 1 .. Len(q) /\ i \in DOMAIN r /\ \A k \in 1 .. i - 1 : k \in 1 .. Len(q)
    BY <1>1, <2>1
  <2>3. r[i] < p[i] /\ \A k \in 1 .. i - 1 : r[k] = p[k]
    BY <1>3, <2>1, <2>2
  <2> QED
    BY <2>2, <2>3 DEF DoneBy
<1>4. ASSUME IsPrefix(p, q),
             NEW j \in DOMAIN q \cap DOMAIN r, r[j] < q[j], \A k \in 1 .. j - 1 : r[k] = q[k]
      PROVE  DoneBy(r, p)
  <2>1. Len(p) <= Len(q) /\ \A k \in 1 .. Len(p) : q[k] = p[k]
    BY <1>4, PrefixIs
  <2>2. CASE j \in 1 .. Len(p)
    <3>1. \A k \in 1 .. j - 1 : k \in 1 .. Len(p)
      BY <1>1, <2>2
    <3>2. r[j] < p[j] /\ \A k \in 1 .. j - 1 : r[k] = p[k]
      BY <1>4, <2>1, <2>2, <3>1
    <3>3. j \in DOMAIN p \cap DOMAIN r
      BY <1>1, <2>2
    <3> QED
      BY <3>2, <3>3 DEF DoneBy
  <2>3. CASE j \notin 1 .. Len(p)
    <3>1. Len(p) < j /\ j <= Len(r)
      BY <1>1, <2>3
    <3>2. \A k \in 1 .. Len(p) : k \in 1 .. j - 1
      BY <1>1, <3>1
    <3>3. Len(p) <= Len(r) /\ \A k \in 1 .. Len(p) : r[k] = p[k]
      BY <1>1, <1>4, <2>1, <3>1, <3>2
    <3>4. IsPrefix(p, r)
      BY <3>3, PrefixIs
    <3> QED
      BY <3>4 DEF DoneBy
  <2> QED
    BY <2>2, <2>3
<1>5. ASSUME NEW i \in DOMAIN p \cap DOMAIN q, q[i] < p[i], \A k \in 1 .. i - 1 : q[k] = p[k],
             NEW j \in DOMAIN q \cap DOMAIN r, r[j] < q[j], \A k \in 1 .. j - 1 : r[k] = q[k]
      PROVE  DoneBy(r, p)
  <2>1. /\ i \in Nat \ {0} /\ j \in Nat \ {0}
        /\ p[i] \in Nat /\ q[i] \in Nat /\ q[j] \in Nat /\ r[j] \in Nat
    BY <1>1
  <2>2. CASE i <= j
    <3>1. i \in DOMAIN r
      BY <1>1, <2>1, <2>2
    <3>2. r[i] <= q[i]
      <4>1. CASE i = j
        BY <1>5, <2>1, <4>1
      <4>2. CASE i # j
        <5>1. i \in 1 .. j - 1
          BY <2>1, <2>2, <4>2
        <5> QED
          BY <1>5, <2>1, <5>1
      <4> QED
        BY <4>1, <4>2
    <3>3. r[i] < p[i]
      <4>1. r[i] \in Nat
        BY <1>1, <3>1
      <4> QED
        BY <1>5, <2>1, <3>2, <4>1
    <3>4. \A k \in 1 .. i - 1 : k \in 1 .. j - 1
      BY <2>1, <2>2
    <3>5. \A k \in 1 .. i - 1 : r[k] = p[k]
      BY <1>5, <3>4
    <3> QED
      BY <3>1, <3>3, <3>5 DEF DoneBy
  <2>3. CASE j < i
    <3>1. j \in 1 .. i - 1 /\ j \in DOMAIN p
      BY <1>1, <2>1, <2>3
    <3>2. r[j] < p[j]
      BY <1>5, <3>1
    <3>3. \A k \in 1 .. j - 1 : k \in 1 .. i - 1
      BY <2>1, <2>3
    <3>4. \A k \in 1 .. j - 1 : r[k] = p[k]
      BY <1>5, <3>3
    <3> QED
      BY <3>1, <3>2, <3>4 DEF DoneBy
  <2> QED
    BY <2>1, <2>2, <2>3
<1>6. \/ IsPrefix(q, r)
      \/ \E j \in DOMAIN q \cap DOMAIN r : r[j] < q[j] /\ \A k \in 1 .. j - 1 : r[k] = q[k]
  BY DEF DoneBy
<1>7. \/ IsPrefix(p, q)
      \/ \E i \in DOMAIN p \cap DOMAIN q : q[i] < p[i] /\ \A k \in 1 .. i - 1 : q[k] = p[k]
  BY DEF DoneBy
<1> QED
  BY <1>2, <1>3, <1>4, <1>5, <1>6, <1>7

-----------------------------------------------------------------------------
(* The ids.                                                                *)

\* The pairs of le order R, and what is the rank of each of R by them.
TotalOrder(R, le) ==
    /\ \A p \in R : <<p, p>> \in le
    /\ \A p, q \in R : <<p, q>> \in le \/ <<q, p>> \in le
    /\ \A p, q \in R : <<p, q>> \in le /\ <<q, p>> \in le => p = q
    /\ \A p, q, r \in R : <<r, q>> \in le /\ <<q, p>> \in le => <<r, p>> \in le

Ranks(R, le) == { Cardinality({ q \in R : <<q, p>> \in le }) : p \in R }

\* Ranked by a total order, the elements of a finite set have the ranks from 1 on.
LEMMA RanksAreDense ==
    ASSUME NEW R, IsFiniteSet(R), NEW le, TotalOrder(R, le)
    PROVE  Ranks(R, le) = 1 .. Cardinality(R)
<1> DEFINE N == Cardinality(R)
           down(p) == { q \in R : <<q, p>> \in le }
           rank == [p \in R |-> Cardinality(down(p))]
<1>1. N \in Nat
  BY FS_CardinalityType
<1>2. ASSUME NEW p \in R
      PROVE  IsFiniteSet(down(p)) /\ rank[p] = Cardinality(down(p)) /\ rank[p] \in 1 .. N
  <2>1. down(p) \in SUBSET R /\ p \in down(p)
    BY DEF TotalOrder
  <2> HIDE DEF down
  <2>2. IsFiniteSet(down(p)) /\ Cardinality(down(p)) <= N
    BY <2>1, FS_Subset
  <2>3. Cardinality(down(p)) \in Nat /\ Cardinality(down(p)) # 0
    BY <2>1, <2>2, FS_CardinalityType, FS_EmptySet
  <2> QED
    BY <1>1, <2>2, <2>3
<1>3. ASSUME NEW p \in R, NEW q \in R, <<q, p>> \in le, rank[p] = rank[q]
      PROVE  p = q
  <2>1. down(q) \in SUBSET down(p)
    BY <1>3 DEF TotalOrder
  <2>2. p \in down(p)
    BY DEF TotalOrder
  <2>3. down(p) = down(q)
    <3> HIDE DEF down
    <3>1. IsFiniteSet(down(p)) /\ Cardinality(down(p)) = Cardinality(down(q))
      BY <1>2, <1>3
    <3> QED
      BY <2>1, <3>1, FS_Subset
  <2>4. <<p, q>> \in le
    BY <2>2, <2>3
  <2> QED
    BY <1>3, <2>4 DEF TotalOrder
<1> HIDE DEF down
<1>4. rank \in Injection(R, 1 .. N)
  <2>1. rank \in [R -> 1 .. N]
    BY <1>2
  <2>2. \A p, q \in R : rank[p] = rank[q] => p = q
    <3>1. \A p, q \in R : <<p, q>> \in le \/ <<q, p>> \in le
      BY DEF TotalOrder
    <3> HIDE DEF rank
    <3> QED
      BY <1>3, <3>1
  <2> HIDE DEF rank
  <2> QED
    BY <2>1, <2>2 DEF Injection, IsInjective
<1>5. IsFiniteSet(1 .. N) /\ Cardinality(1 .. N) = N
  BY <1>1, FS_Interval
<1>6. rank \in Surjection(R, 1 .. N)
  <2> HIDE DEF rank
  <2> QED
    BY <1>4, <1>5, FS_Injection
<1>7. \A n \in 1 .. N : \E p \in R : rank[p] = n
  BY <1>6 DEF Surjection
<1>8. { rank[p] : p \in R } = 1 .. N
  <2> HIDE DEF rank
  <2> QED
    BY <1>2, <1>7
<1> QED
  BY <1>8 DEF down, Ranks

\* The ids of a file that converts: one for each node that runs, from 1 on.
LEMMA MintedDense ==
    ASSUME NEW docs, IsTree(docs), \A p \in DOMAIN docs : docs[p].runs \in BOOLEAN
    PROVE  LET running == { p \in DOMAIN docs : docs[p].runs }
           IN  { Minted(docs, p) : p \in running } = 1 .. Cardinality(running)
<1> DEFINE R == { p \in DOMAIN docs : docs[p].runs }
           le == { w \in R \X R : DoneBy(w[1], w[2]) }
<1>1. IsFiniteSet(R)
  BY FS_Subset DEF IsTree
<1>2. R \subseteq Places
  BY DEF IsTree, Places
<1>3. \A p, q \in R : <<p, q>> \in le <=> DoneBy(p, q)
  OBVIOUS
<1>4. \A p \in R : Minted(docs, p) = Cardinality({ q \in R : <<q, p>> \in le })
  <2> TAKE p \in R
  <2>1. { q \in DOMAIN docs : docs[q].runs /\ DoneBy(q, p) } = { q \in R : <<q, p>> \in le }
    BY <1>3
  <2> QED
    BY <2>1 DEF Minted
<1> HIDE DEF R, le
<1>5. TotalOrder(R, le)
  <2>1. \A p, q \in R : <<p, q>> \in le \/ <<q, p>> \in le
    BY <1>2, <1>3, DoneByTotal
  <2>2. \A p, q \in R : <<p, q>> \in le /\ <<q, p>> \in le => p = q
    BY <1>2, <1>3, DoneByOneWay
  <2>3. \A p, q, r \in R : <<r, q>> \in le /\ <<q, p>> \in le => <<r, p>> \in le
    BY <1>2, <1>3, DoneByOnward
  <2> QED
    BY <2>1, <2>2, <2>3 DEF TotalOrder
<1>6. Ranks(R, le) = 1 .. Cardinality(R)
  BY <1>1, <1>5, RanksAreDense
<1>7. { Minted(docs, p) : p \in R } = 1 .. Cardinality(R)
  BY <1>4, <1>6 DEF Ranks
<1> QED
  BY <1>7 DEF R

\* A node that runs gets an id, and the id is not 0.
LEMMA MintedCounts ==
    ASSUME NEW docs, IsTree(docs), \A p \in DOMAIN docs : docs[p].runs \in BOOLEAN,
           NEW p \in DOMAIN docs, docs[p].runs
    PROVE  Minted(docs, p) \in Nat \ {0}
<1> DEFINE running == { q \in DOMAIN docs : docs[q].runs }
<1>1. IsFiniteSet(running) /\ p \in running
  BY FS_Subset DEF IsTree
<1>2. Cardinality(running) \in Nat
  BY <1>1, FS_CardinalityType
<1>3. Minted(docs, p) \in 1 .. Cardinality(running)
  BY <1>1, MintedDense
<1> QED
  BY <1>2, <1>3

\* What a node converts to carries its id, and 0 if it does not run.
LEMMA ConvertedExec ==
    ASSUME NEW docs, NEW p \in DOMAIN docs, NEW saturating
    PROVE  ConvertIntermediate(docs, p, saturating).exec =
               IF docs[p].runs THEN Minted(docs, p) ELSE 0
BY DEF ConvertIntermediate, Literal, Argument

-----------------------------------------------------------------------------
(* What the steps make of a tree.                                          *)

\* What a file converts to on a build machine, and whether the build takes it.
Converted(docs, saturating) == [p \in DOMAIN docs |-> ConvertIntermediate(docs, p, saturating)]
Decodes(docs, saturating) ==
    /\ Fits(docs) /\ docs # <<>>
    /\ \A p \in DOMAIN docs : Converts(docs[p])
    /\ Valid(Converted(docs, saturating))

\* What a tree is on the wire, what the host makes of that, and whether it takes it.
Encoded(t) == [p \in DOMAIN t |-> EncodeNode(t[p])]
Loaded(w) == [p \in DOMAIN w |-> ConvertNode(w[p])]
HostTakes(w) ==
    /\ ProtoCarries(w)
    /\ WithinLimits(w) /\ \A p \in DOMAIN w : ConvertsNode(w[p])
    /\ Valid(Loaded(w))

\* A node is one of the two kinds and nothing else.
IsShaped(n) ==
    IF n.node = "literal"
    THEN n = Literal(n.name, n.permission, n.exec)
    ELSE n = Argument(n.name, n.type, n.enum, n.custom, n.integer, n.decimal, n.exec)

\* A tree that says of each node whether it runs, in words that are UTF-8.
IsFile(docs) ==
    IsTree(docs) /\ \A p \in DOMAIN docs : docs[p].runs \in BOOLEAN /\ UTF8(FileTexts(docs[p]))

\* Whom the file is from, and that the build refused none that decodes.
FileStands ==
    /\ stage = "start" => author = <<>> /\ file = <<>> /\ built = <<>>
    /\ author # <<>> =>
          /\ author \in Trees
          /\ file = IF Valid(author) /\ Marshals(Described(author)) THEN Described(author) ELSE <<>>
          /\ file = <<>> => built = <<>> /\ stage \in {"file", "refused"}
    /\ file # <<>> => IsFile(file)
    /\ stage = "refused" /\ file # <<>> => ~Decodes(file, saturates)

\* What is built is nodes, of the file if there is one.
BuildStands ==
    /\ built # <<>> =>
          built = [p \in DOMAIN built |-> built[p]] /\ \A p \in DOMAIN built : IsShaped(built[p])
    /\ file # <<>> /\ stage = "built" => built # <<>>
    /\ FromFile => Decodes(file, saturates) /\ built = Converted(file, saturates)

\* What is on the wire is what was built, and the host loads what it takes.
HostStands ==
    /\ built # <<>> /\ stage \in {"shipped", "loaded", "hostRefused"} =>
          Valid(built) /\ wire = Encoded(built) /\ ProtoCarries(wire)
    /\ stage = "loaded" => HostTakes(wire) /\ host = Loaded(wire)
    /\ stage = "hostRefused" => ~HostTakes(wire)

\* The inductive invariant.
CommandInv == TypeOK /\ FileStands /\ BuildStands /\ HostStands

\* Conversion copies what guards a node, and refuses what it could not copy.
LEMMA ConvertKeepsGuard ==
    ASSUME NEW docs, NEW saturating, Decodes(docs, saturating)
    PROVE  GuardsKept(docs, Converted(docs, saturating))
<1> SUFFICES ASSUME NEW p \in DOMAIN docs, docs[p].permission # None
             PROVE  /\ p \in DOMAIN Converted(docs, saturating)
                    /\ Converted(docs, saturating)[p].node = "literal"
                    /\ Converted(docs, saturating)[p].permission = docs[p].permission
  BY DEF GuardsKept
<1>1. ~docs[p].argument
  BY DEF Decodes, Converts
<1>2. ConvertIntermediate(docs, p, saturating).node = "literal"
  BY <1>1 DEF ConvertIntermediate, Literal
<1>3. ConvertIntermediate(docs, p, saturating).permission = docs[p].permission
  BY <1>1 DEF ConvertIntermediate, Literal
<1> QED
  BY <1>2, <1>3 DEF Converted

\* So does the host.
LEMMA LoadKeepsGuard ==
    ASSUME NEW w, HostTakes(w)
    PROVE  GuardsKept(w, Loaded(w))
<1> SUFFICES ASSUME NEW p \in DOMAIN w, w[p].permission # None
             PROVE  /\ p \in DOMAIN Loaded(w)
                    /\ Loaded(w)[p].node = "literal"
                    /\ Loaded(w)[p].permission = w[p].permission
  BY DEF GuardsKept
<1>1. w[p].kind = "literal"
  BY DEF HostTakes, ConvertsNode, GuardFits
<1>2. ConvertNode(w[p]).node = "literal" /\ ConvertNode(w[p]).permission = w[p].permission
  BY <1>1 DEF ConvertNode, Literal
<1> QED
  BY <1>2 DEF Loaded

\* Whatever a file converts to is made of nodes.
LEMMA ConvertedShaped ==
    ASSUME NEW docs, NEW saturating
    PROVE  /\ Converted(docs, saturating) =
                  [p \in DOMAIN Converted(docs, saturating) |-> Converted(docs, saturating)[p]]
           /\ \A p \in DOMAIN Converted(docs, saturating) : IsShaped(Converted(docs, saturating)[p])
<1>1. ASSUME NEW p \in DOMAIN docs PROVE IsShaped(ConvertIntermediate(docs, p, saturating))
  <2>1. CASE docs[p].argument
    BY <2>1 DEF ConvertIntermediate, IsShaped, Literal, Argument
  <2>2. CASE ~docs[p].argument
    BY <2>2 DEF ConvertIntermediate, IsShaped, Literal, Argument
  <2> QED
    BY <2>1, <2>2
<1> QED
  BY <1>1 DEF Converted

\* The nodes of a tree that Validate takes have a type the renderers know.
LEMMA ValidTypes ==
    ASSUME NEW t, Valid(t), NEW p \in DOMAIN t, t[p].node = "argument"
    PROVE  t[p].type \in ArgInteger .. ArgCustom
BY DEF Valid, ValidChildren, ValidNode, KnownType

\* A node comes back from the wire as it went, if its type fits.
LEMMA NodeComesBack ==
    ASSUME NEW n, IsShaped(n), n.node = "argument" => n.type \in ArgInteger .. ArgCustom
    PROVE  ConvertsNode(EncodeNode(n)) /\ ConvertNode(EncodeNode(n)) = n
<1> USE DEF ArgInteger, ArgCustom
<1>1. CASE n.node = "literal"
  <2>1. n = Literal(n.name, n.permission, n.exec)
    BY <1>1 DEF IsShaped
  <2>2. EncodeNode(n).kind = "literal"
    BY <1>1 DEF EncodeNode
  <2>3. ConvertsNode(EncodeNode(n))
    BY <1>1 DEF EncodeNode, ConvertsNode, GuardFits
  <2>4. ConvertNode(EncodeNode(n)) = Literal(n.name, n.permission, n.exec)
    BY <1>1 DEF EncodeNode, ConvertNode
  <2> QED
    BY <2>1, <2>3, <2>4
<1>2. CASE n.node # "literal"
  <2>1. n = Argument(n.name, n.type, n.enum, n.custom, n.integer, n.decimal, n.exec)
    BY <1>2 DEF IsShaped
  <2>2. n.node = "argument"
    BY <2>1 DEF Argument
  <2>3. n.type % 256 = n.type /\ n.type <= ArgCustom
    BY <2>2
  <2>4. ConvertsNode(EncodeNode(n))
    BY <1>2, <2>3 DEF EncodeNode, ConvertsNode, GuardFits
  <2>5. ConvertNode(EncodeNode(n))
            = Argument(n.name, n.type, n.enum, n.custom, n.integer, n.decimal, n.exec)
    BY <1>2, <2>3 DEF EncodeNode, ConvertNode
  <2> QED
    BY <2>1, <2>4, <2>5
<1> QED
  BY <1>1, <1>2

\* What the encoder makes of a valid tree loads as that tree, if it is not too large.
LEMMA EncodedLoads ==
    ASSUME NEW t, Valid(t), t = [p \in DOMAIN t |-> t[p]], \A p \in DOMAIN t : IsShaped(t[p]),
           ProtoCarries(Encoded(t))
    PROVE  /\ Loaded(Encoded(t)) = t
           /\ HostTakes(Encoded(t)) <=>
                 Cardinality(DOMAIN t) <= MaxNodes /\ \A p \in DOMAIN t : Len(p) <= MaxDepth
<1>1. DOMAIN Encoded(t) = DOMAIN t /\ DOMAIN Loaded(Encoded(t)) = DOMAIN t
  BY DEF Encoded, Loaded
<1>2. ASSUME NEW p \in DOMAIN t
      PROVE  ConvertsNode(Encoded(t)[p]) /\ Loaded(Encoded(t))[p] = t[p]
  <2>1. ConvertsNode(EncodeNode(t[p])) /\ ConvertNode(EncodeNode(t[p])) = t[p]
    BY ValidTypes, NodeComesBack
  <2> QED
    BY <2>1 DEF Encoded, Loaded
<1>3. Loaded(Encoded(t)) = t
  <2>1. Loaded(Encoded(t)) = [p \in DOMAIN t |-> Loaded(Encoded(t))[p]]
    BY <1>1 DEF Loaded
  <2> QED
    BY <1>2, <2>1
<1>4. WithinLimits(Encoded(t)) <=>
          Cardinality(DOMAIN t) <= MaxNodes /\ \A p \in DOMAIN t : Len(p) <= MaxDepth
  BY <1>1 DEF WithinLimits
<1> QED
  BY <1>1, <1>2, <1>3, <1>4 DEF HostTakes

-----------------------------------------------------------------------------
(* Texts.                                                                  *)

\* A text that is UTF-8 is written as it is, and whatever is written is UTF-8.
LEMMA JsonTexts ==
    /\ UTF8({None})
    /\ \A text : UTF8({text}) => JsonText(text) = text
    /\ \A text : UTF8({JsonText(text)})
<1>1. UTF8({None}) /\ \A text \in DOMAIN Mended : UTF8({Mended[text]})
  BY CommandTreeAssumption DEF UTF8
<1>2. ASSUME NEW text PROVE UTF8({JsonText(text)})
  <2>1. CASE UTF8({text})
    BY <2>1 DEF JsonText
  <2>2. CASE ~UTF8({text})
    <3>1. text \in DOMAIN Mended
      BY <2>2 DEF UTF8
    <3> QED
      BY <1>1, <2>2, <3>1 DEF JsonText
  <2> QED
    BY <2>1, <2>2
<1>3. \A text : UTF8({text}) => JsonText(text) = text
  BY DEF JsonText
<1> QED
  BY <1>1, <1>2, <1>3

\* Texts are UTF-8 when each of them is.
LEMMA UTF8Each ==
    ASSUME NEW T
    PROVE  UTF8(T) <=> \A text \in T : UTF8({text})
BY DEF UTF8

\* What the plugin's own encoder writes is UTF-8.
LEMMA DescribedTexts ==
    ASSUME NEW t, NEW p \in DOMAIN t
    PROVE  UTF8(FileTexts(DescribeIntermediate(t, p)))
<1> DEFINE d == DescribeIntermediate(t, p)
           enum == t[p].enum
<1>1. \A text \in {d.name, d.permission, d.custom} : UTF8({text})
  BY JsonTexts DEF DescribeIntermediate
<1>2. d.options # None => ToSet(d.options) = { JsonText(enum[i]) : i \in DOMAIN enum }
  BY DEF DescribeIntermediate, ToSet
<1>3. \A text \in FileTexts(d) : UTF8({text})
  <2> HIDE DEF d, enum
  <2> QED
    BY <1>1, <1>2, JsonTexts DEF FileTexts
<1> QED
  BY <1>3, UTF8Each

\* protobuf carries whatever is built from a file.
LEMMA ConvertedCarries ==
    ASSUME NEW docs, NEW saturating, \A p \in DOMAIN docs : UTF8(FileTexts(docs[p]))
    PROVE  ProtoCarries(Encoded(Converted(docs, saturating)))
<1> SUFFICES ASSUME NEW p \in DOMAIN docs
             PROVE  UTF8(WireTexts(EncodeNode(ConvertIntermediate(docs, p, saturating))))
  BY DEF ProtoCarries, Encoded, Converted
<1> DEFINE d == docs[p]
           w == EncodeNode(ConvertIntermediate(docs, p, saturating))
<1>1. w.name = d.name /\ w.permission \in {d.permission, None} /\ w.custom \in {d.custom, None}
  BY DEF ConvertIntermediate, EncodeNode, Literal, Argument
<1>2. w.enum = <<>> \/ (d.options # None /\ w.enum = d.options)
  BY DEF ConvertIntermediate, EncodeNode, Literal, Argument
<1>3. \A text \in FileTexts(d) : UTF8({text})
  BY UTF8Each
<1> HIDE DEF d, w
<1>4. \A text \in WireTexts(w) : UTF8({text})
  <2>1. ToSet(<<>>) = {}
    BY DEF ToSet
  <2>2. WireTexts(w) \subseteq FileTexts(d) \cup {None}
    BY <1>1, <1>2, <2>1 DEF WireTexts, FileTexts
  <2> QED
    BY <1>3, <2>2, JsonTexts
<1> QED
  BY <1>4, UTF8Each DEF w

-----------------------------------------------------------------------------
(* A tree that a plugin declares as code.                                  *)

\* The file has the places of the tree, and says of each node whether it runs.
LEMMA DescribedTree ==
    ASSUME NEW t, IsTree(t)
    PROVE  /\ IsFile(Described(t)) /\ DOMAIN Described(t) = DOMAIN t
           /\ \A p \in DOMAIN t : Described(t)[p] = DescribeIntermediate(t, p)
           /\ \A p \in DOMAIN t : Described(t)[p].runs = (t[p].exec # 0)
<1>1. DOMAIN Described(t) = DOMAIN t
  BY DEF Described
<1>2. Described(t) = [p \in DOMAIN Described(t) |-> Described(t)[p]]
  BY DEF Described
<1>3. IsTree(Described(t))
  BY <1>1, <1>2 DEF IsTree
<1>4. \A p \in DOMAIN t : Described(t)[p] = DescribeIntermediate(t, p)
  BY DEF Described
<1>5. \A p \in DOMAIN t : DescribeIntermediate(t, p).runs = (t[p].exec # 0)
  BY DEF DescribeIntermediate, RunsFlag
<1>6. IsFile(Described(t))
  BY <1>1, <1>3, <1>4, <1>5, DescribedTexts DEF IsFile
<1> QED
  BY <1>1, <1>4, <1>5, <1>6

\* JSON has the bounds of a valid tree when they are finite: those of integers
\* are, as doubles.
LEMMA FiniteMarshals ==
    ASSUME NEW t, IsTree(t), \A p \in DOMAIN t : IsNode(t[p]), Valid(t)
    PROVE  Marshals(Described(t)) <=> Finite(t)
<1> SUFFICES ASSUME NEW p \in DOMAIN t
             PROVE  LET d == DescribeIntermediate(t, p)
                        n == t[p]
                    IN  {Infinity, -Infinity} \cap {d.range[1], d.range[2]} = {}
                        <=> (n.node = "argument" =>
                               {Infinity, -Infinity} \cap {n.decimal[1], n.decimal[2]} = {})
  BY DescribedTree DEF Marshals, Finite
<1> DEFINE n == t[p]
           d == DescribeIntermediate(t, p)
<1>1. n.node \in {"literal", "argument"} /\ IsNode(n)
  BY DEF IsNode, Argument
<1>2. None \notin {Infinity, -Infinity} /\ DecimalBound(None) = None
      /\ \A v \in MinInt .. MaxInt : DecimalBound(v) \notin {Infinity, -Infinity}
  BY CommandTreeAssumption DEF DecimalBound
<1>3. n.node = "literal" => d.range = Free
  BY DEF DescribeIntermediate
<1>4. n.node = "argument" =>
        /\ n.type \in ArgInteger .. ArgCustom
        /\ n.decimal # Free => n.type = ArgDecimal
        /\ n.type = ArgInteger =>
              d.range = <<DecimalBound(n.integer[1]), DecimalBound(n.integer[2])>>
        /\ n.type = ArgDecimal => d.range = n.decimal
        /\ n.type \notin {ArgInteger, ArgDecimal} => d.range = Free
  <2>1. n.node = "argument" =>
          n.type \in ArgInteger .. ArgCustom /\ (n.decimal # Free => n.type = ArgDecimal)
    BY DEF Valid, ValidChildren, ValidNode, KnownType, ValidArgument
  <2> QED
    BY <2>1 DEF DescribeIntermediate, ArgInteger, ArgDecimal
<1> HIDE DEF n, d
<1>5. {Infinity, -Infinity} \cap {Free[1], Free[2]} = {}
  BY <1>2 DEF Free
<1>6. CASE n.node = "literal"
  BY <1>3, <1>5, <1>6 DEF n, d
<1>7. CASE n.node = "argument"
  <2>1. n.type = ArgInteger => {Infinity, -Infinity} \cap {d.range[1], d.range[2]} = {}
    <3>1. /\ n.integer[1] \in (MinInt .. MaxInt) \cup {None}
          /\ n.integer[2] \in (MinInt .. MaxInt) \cup {None}
      BY <1>1, <1>7 DEF IsNode
    <3> QED
      BY <1>2, <1>4, <1>7, <3>1
  <2>2. n.type # ArgDecimal => n.decimal = Free
    BY <1>4, <1>7
  <2> QED
    BY <1>4, <1>5, <1>7, <2>1, <2>2 DEF n, d
<1> QED
  BY <1>1, <1>6, <1>7

\* The parts of an argument that the neutral form has no room for as they are:
\* what it makes of them is what they were.
LEMMA ArgumentComesBack ==
    ASSUME NEW t, NEW p \in DOMAIN t, IsNode(t[p]), Valid(t), Exact(t), t[p].node = "argument",
           NEW d, d = DescribeIntermediate(t, p)
    PROVE  /\ d.argument /\ d.name = t[p].name /\ d.permission = None
           /\ d.kind = t[p].type /\ d.custom = t[p].custom
           /\ (IF d.options = None THEN <<>> ELSE d.options) = t[p].enum
           /\ (IF d.kind = ArgInteger
               THEN <<WholeBound(d.range[1], saturates), WholeBound(d.range[2], saturates)>>
               ELSE Free) = t[p].integer
           /\ (IF d.kind = ArgDecimal THEN d.range ELSE Free) = t[p].decimal
           /\ Converts(d)
<1> DEFINE n == t[p]
<1>1. /\ n.enum # None /\ n.enum = [i \in DOMAIN n.enum |-> n.enum[i]]
      /\ n.integer \in ((MinInt .. MaxInt) \cup {None}) \X ((MinInt .. MaxInt) \cup {None})
      /\ n.decimal = <<n.decimal[1], n.decimal[2]>>
  BY DEF IsNode
<1>2. /\ n.type \in ArgInteger .. ArgCustom
      /\ n.integer # Free => n.type = ArgInteger
      /\ n.decimal # Free => n.type = ArgDecimal
  BY DEF Valid, ValidChildren, ValidNode, KnownType, ValidArgument
<1>3. /\ \A k \in {1, 2} : WholeBound(DecimalBound(n.integer[k]), saturates) = n.integer[k]
      /\ JsonText(n.name) = n.name /\ JsonText(n.custom) = n.custom
      /\ [i \in DOMAIN n.enum |-> JsonText(n.enum[i])] = n.enum
  <2>1. UTF8(WireTexts(EncodeNode(n)))
    BY DEF Exact
  <2>2. WireTexts(EncodeNode(n)) = {n.name, None, n.custom} \cup ToSet(n.enum)
    BY DEF EncodeNode, WireTexts
  <2>3. \A text \in {n.name, n.custom} \cup ToSet(n.enum) : JsonText(text) = text
    BY <2>1, <2>2, UTF8Each, JsonTexts
  <2>4. \A i \in DOMAIN n.enum : JsonText(n.enum[i]) = n.enum[i]
    BY <2>3 DEF ToSet
  <2> QED
    BY <1>1, <2>3, <2>4 DEF Exact
<1>4. /\ d.argument = TRUE /\ d.name = n.name /\ d.permission = None /\ d.kind = n.type
      /\ d.custom = n.custom /\ d.options = IF n.enum = <<>> THEN None ELSE n.enum
      /\ n.type = ArgInteger =>
            d.range = <<DecimalBound(n.integer[1]), DecimalBound(n.integer[2])>>
      /\ n.type = ArgDecimal => d.range = n.decimal
      /\ n.type \notin {ArgInteger, ArgDecimal} => d.range = Free
  BY <1>3 DEF DescribeIntermediate, ArgInteger, ArgDecimal
<1> HIDE DEF n
<1>5. (IF d.options = None THEN <<>> ELSE d.options) = n.enum
  BY <1>1, <1>4
<1>6. ArgInteger # ArgDecimal
  BY DEF ArgInteger, ArgDecimal
<1>7. CASE n.type = ArgInteger
  <2>1. n.decimal = Free
    BY <1>2, <1>6, <1>7
  <2>2. d.range[1] = DecimalBound(n.integer[1]) /\ d.range[2] = DecimalBound(n.integer[2])
    BY <1>4, <1>7
  <2>3. <<WholeBound(d.range[1], saturates), WholeBound(d.range[2], saturates)>> = n.integer
    <3>1. n.integer = <<n.integer[1], n.integer[2]>>
      BY <1>1
    <3> QED
      BY <1>3, <2>2, <3>1
  <2>7. Converts(d)
    BY <1>2, <1>4, <1>7 DEF Converts, KnownKind
  <2> QED
    BY <1>4, <1>5, <1>6, <1>7, <2>1, <2>3, <2>7 DEF n
<1>8. CASE n.type = ArgDecimal
  <2>1. n.integer = Free /\ d.range = n.decimal
    BY <1>2, <1>4, <1>6, <1>8
  <2>3. Converts(d)
    BY <1>2, <1>4, <1>8 DEF Converts, KnownKind
  <2> QED
    BY <1>4, <1>5, <1>6, <1>8, <2>1, <2>3 DEF n
<1>9. CASE n.type \notin {ArgInteger, ArgDecimal}
  <2>1. n.integer = Free /\ n.decimal = Free /\ d.range = Free
    BY <1>2, <1>4, <1>9
  <2>3. Converts(d)
    BY <1>2, <1>4, <2>1 DEF Converts, KnownKind
  <2> QED
    BY <1>4, <1>5, <1>9, <2>1, <2>3 DEF n
<1> QED
  BY <1>7, <1>8, <1>9

\* A node comes back from the file as it went, but for its id.
LEMMA NodeIsRebuilt ==
    ASSUME NEW t, IsTree(t), NEW p \in DOMAIN t, IsNode(t[p]), Valid(t), Exact(t),
           t[p].node \in {"literal", "argument"},
           NEW c, c = ConvertIntermediate(Described(t), p, saturates)
    PROVE  /\ c = [t[p] EXCEPT !.exec = c.exec]
           /\ c.exec # 0 <=> t[p].exec # 0
           /\ Converts(Described(t)[p])
<1> DEFINE d == DescribeIntermediate(t, p)
<1>1. Described(t)[p] = d /\ d.runs = (t[p].exec # 0) /\ p \in DOMAIN Described(t)
  BY DescribedTree
<1>2. c.exec = IF d.runs THEN Minted(Described(t), p) ELSE 0
  BY <1>1, ConvertedExec
<1>3. d.runs => Minted(Described(t), p) \in Nat \ {0}
  <2>1. IsTree(Described(t)) /\ \A q \in DOMAIN Described(t) : Described(t)[q].runs \in BOOLEAN
    BY DescribedTree DEF IsFile
  <2> QED
    BY <1>1, <2>1, MintedCounts
<1>4. c.exec # 0 <=> t[p].exec # 0
  BY <1>1, <1>2, <1>3
<1>5. CASE t[p].node = "literal"
  <2>1. t[p] = Literal(t[p].name, t[p].permission, t[p].exec)
    BY <1>5 DEF IsNode
  <2>2. /\ ~d.argument /\ d.name = t[p].name /\ d.permission = t[p].permission
        /\ d.kind = None /\ d.options = None /\ d.range = Free
    <3>1. UTF8({t[p].name}) /\ UTF8({t[p].permission})
      <4>1. UTF8(WireTexts(EncodeNode(t[p])))
        BY DEF Exact
      <4>2. {t[p].name, t[p].permission} \subseteq WireTexts(EncodeNode(t[p]))
        BY <1>5 DEF EncodeNode, WireTexts
      <4> QED
        BY <4>1, <4>2, UTF8Each
    <3>2. JsonText(t[p].name) = t[p].name /\ JsonText(t[p].permission) = t[p].permission
      BY <3>1, JsonTexts
    <3> QED
      BY <1>5, <3>2 DEF DescribeIntermediate
  <2> HIDE DEF d
  <2>3. c = Literal(d.name, d.permission, c.exec)
    BY <1>1, <1>2, <2>2 DEF ConvertIntermediate
  <2>4. c = [t[p] EXCEPT !.exec = c.exec]
    BY <2>1, <2>2, <2>3 DEF Literal
  <2>5. Converts(d)
    BY <2>2 DEF Converts
  <2> QED
    BY <1>1, <1>4, <2>4, <2>5
<1>6. CASE t[p].node = "argument"
  <2>1. t[p] = Argument(t[p].name, t[p].type, t[p].enum, t[p].custom, t[p].integer, t[p].decimal,
                        t[p].exec)
    BY <1>6 DEF IsNode
  <2> HIDE DEF d
  <2>2. d = DescribeIntermediate(t, p)
    BY DEF d
  <2>3. /\ d.argument /\ d.name = t[p].name /\ d.permission = None
        /\ d.kind = t[p].type /\ d.custom = t[p].custom
        /\ (IF d.options = None THEN <<>> ELSE d.options) = t[p].enum
        /\ (IF d.kind = ArgInteger
            THEN <<WholeBound(d.range[1], saturates), WholeBound(d.range[2], saturates)>>
            ELSE Free) = t[p].integer
        /\ (IF d.kind = ArgDecimal THEN d.range ELSE Free) = t[p].decimal
        /\ Converts(d)
    BY <1>6, <2>2, ArgumentComesBack
  <2>4. c = Argument(t[p].name, t[p].type, t[p].enum, t[p].custom, t[p].integer, t[p].decimal,
                     c.exec)
    BY <1>1, <1>2, <2>3 DEF ConvertIntermediate
  <2>5. c = [t[p] EXCEPT !.exec = c.exec]
    BY <2>1, <2>4 DEF Argument
  <2> QED
    BY <1>1, <1>4, <2>3, <2>5
<1> QED
  BY <1>5, <1>6

\* A tree with nodes has places.
LEMMA TreeHasPlaces ==
    ASSUME NEW t, IsTree(t), t # <<>>
    PROVE  DOMAIN t # {}
BY DEF IsTree

\* Two nodes that Validate tells apart by their ids at most.
SameFields(c, n) ==
    /\ c.node = n.node /\ c.name = n.name
    /\ n.node = "argument" =>
          /\ c.type = n.type /\ c.enum = n.enum /\ c.custom = n.custom
          /\ c.integer = n.integer /\ c.decimal = n.decimal

\* The fields of a node that only its id tells from another.
LEMMA SameButExec ==
    ASSUME NEW n, IsNode(n), NEW c, c = [n EXCEPT !.exec = c.exec]
    PROVE  /\ SameFields(c, n)
           /\ (c.exec # 0 <=> n.exec # 0) =>
                 [c EXCEPT !.exec = (@ # 0)] = [n EXCEPT !.exec = (@ # 0)]
<1>1. CASE n.node = "literal"
  <2>1. n = Literal(n.name, n.permission, n.exec)
    BY <1>1 DEF IsNode
  <2>2. c = Literal(n.name, n.permission, c.exec)
    BY <2>1 DEF Literal
  <2>3. [c EXCEPT !.exec = (@ # 0)] = Literal(n.name, n.permission, c.exec # 0)
    BY <2>2 DEF Literal
  <2>4. [n EXCEPT !.exec = (@ # 0)] = Literal(n.name, n.permission, n.exec # 0)
    BY <2>1 DEF Literal
  <2>5. c.node = n.node /\ c.name = n.name
    BY <2>1, <2>2 DEF Literal
  <2>6. SameFields(c, n)
    BY <1>1, <2>5 DEF SameFields
  <2> QED
    BY <2>3, <2>4, <2>6
<1>2. CASE n.node # "literal"
  <2>1. n = Argument(n.name, n.type, n.enum, n.custom, n.integer, n.decimal, n.exec)
    BY <1>2 DEF IsNode
  <2>2. c = Argument(n.name, n.type, n.enum, n.custom, n.integer, n.decimal, c.exec)
    BY <2>1 DEF Argument
  <2>3. [c EXCEPT !.exec = (@ # 0)]
            = Argument(n.name, n.type, n.enum, n.custom, n.integer, n.decimal, c.exec # 0)
    BY <2>2 DEF Argument
  <2>4. [n EXCEPT !.exec = (@ # 0)]
            = Argument(n.name, n.type, n.enum, n.custom, n.integer, n.decimal, n.exec # 0)
    BY <2>1 DEF Argument
  <2>5. /\ n.node = "argument" /\ c.node = n.node /\ c.name = n.name
        /\ c.type = n.type /\ c.enum = n.enum /\ c.custom = n.custom
        /\ c.integer = n.integer /\ c.decimal = n.decimal
    BY <2>1, <2>2 DEF Argument
  <2>6. SameFields(c, n)
    BY <2>5 DEF SameFields
  <2> QED
    BY <2>3, <2>4, <2>6
<1> QED
  BY <1>1, <1>2

\* Validate does not look at the ids but for whether there is one.
LEMMA ValidButExec ==
    ASSUME NEW t, IsTree(t), \A p \in DOMAIN t : IsNode(t[p]), Valid(t),
           NEW b, DOMAIN b = DOMAIN t,
           \A p \in DOMAIN t : /\ b[p] = [t[p] EXCEPT !.exec = b[p].exec]
                               /\ b[p].exec # 0 <=> t[p].exec # 0
    PROVE  Valid(b)
<1>1. ASSUME NEW p \in DOMAIN t
      PROVE  /\ b[p].node = t[p].node /\ b[p].name = t[p].name
             /\ t[p].node = "argument" =>
                   /\ b[p].type = t[p].type /\ b[p].enum = t[p].enum /\ b[p].custom = t[p].custom
                   /\ b[p].integer = t[p].integer /\ b[p].decimal = t[p].decimal
  <2> DEFINE n == t[p]
             c == b[p]
  <2>1. IsNode(n) /\ c = [n EXCEPT !.exec = c.exec]
    OBVIOUS
  <2> HIDE DEF n, c
  <2>2. SameFields(c, n)
    BY <2>1, SameButExec
  <2> QED
    BY <2>2 DEF n, c, SameFields
<1>2. b # <<>>
  <2>1. DOMAIN t # {}
    BY TreeHasPlaces DEF Valid
  <2>2. DOMAIN <<>> = {}
    OBVIOUS
  <2> QED
    BY <2>1, <2>2
<1>3. \A p \in DOMAIN b : Len(p) = 1 => b[p].node = "literal"
  BY <1>1 DEF Valid
<1>4. ASSUME NEW p \in DOMAIN b PROVE b[p].name \in ValidNames /\ ValidNode(b, p)
  <2>1. t[p].name \in ValidNames /\ ValidNode(t, p)
    BY DEF Valid, ValidChildren
  <2>2. Leaf(b, p) <=> Leaf(t, p)
    BY DEF Leaf
  <2>3. t[p].node = "argument" => (ValidArgument(b[p]) <=> ValidArgument(t[p]))
    BY <1>1 DEF ValidArgument
  <2>4. b[p].exec # 0 <=> t[p].exec # 0
    OBVIOUS
  <2> QED
    BY <1>1, <2>1, <2>2, <2>3, <2>4 DEF ValidNode
<1>5. ASSUME NEW p \in DOMAIN b, NEW q \in DOMAIN b,
             Front(p) = Front(q), b[p].node = b[q].node, b[p].name = b[q].name
      PROVE  p = q
  <2>1. t[p].node = t[q].node /\ t[p].name = t[q].name
    BY <1>1, <1>5
  <2> QED
    BY <1>5, <2>1 DEF Valid, ValidChildren
<1> QED
  BY <1>2, <1>3, <1>4, <1>5 DEF Valid, ValidChildren

\* A tree that is declared has nodes to describe.
LEMMA DescribedIsSome ==
    ASSUME NEW t \in Trees, Valid(t)
    PROVE  Described(t) # <<>>
<1>1. IsTree(t)
  BY CommandTreeAssumption
<1>2. DOMAIN Described(t) = DOMAIN t /\ DOMAIN t # {}
  BY <1>1, DescribedTree, TreeHasPlaces DEF Valid
<1>3. DOMAIN <<>> = {}
  OBVIOUS
<1> QED
  BY <1>2, <1>3

\* A valid tree that is exact is read and built from its file if that is not too
\* large, and what is built is that tree but for the ids.
LEMMA TreeIsRebuilt ==
    ASSUME NEW t \in Trees, Valid(t), Exact(t)
    PROVE  /\ Fits(Described(t)) => Decodes(Described(t), saturates)
           /\ Forget(Converted(Described(t), saturates)) = Forget(t)
<1> DEFINE b == Converted(Described(t), saturates)
<1>1. IsTree(t) /\ \A p \in DOMAIN t : IsNode(t[p])
  BY CommandTreeAssumption
<1>2. DOMAIN Described(t) = DOMAIN t
  BY <1>1, DescribedTree
<1>3. DOMAIN b = DOMAIN t /\ \A p \in DOMAIN t : b[p] = ConvertIntermediate(Described(t), p, saturates)
  BY <1>2 DEF Converted
<1> HIDE DEF b
<1>4. ASSUME NEW p \in DOMAIN t
      PROVE  /\ b[p] = [t[p] EXCEPT !.exec = b[p].exec]
             /\ b[p].exec # 0 <=> t[p].exec # 0
             /\ Converts(Described(t)[p])
             /\ [b[p] EXCEPT !.exec = (@ # 0)] = [t[p] EXCEPT !.exec = (@ # 0)]
  <2>1. t[p].node \in {"literal", "argument"}
    <3> DEFINE n == t[p]
    <3>1. IsNode(n)
      BY <1>1
    <3> HIDE DEF n
    <3>2. n.node \in {"literal", "argument"}
      BY <3>1 DEF IsNode, Argument
    <3> QED
      BY <3>2 DEF n
  <2>2. /\ b[p] = [t[p] EXCEPT !.exec = b[p].exec]
        /\ b[p].exec # 0 <=> t[p].exec # 0
        /\ Converts(Described(t)[p])
    BY <1>1, <1>3, <2>1, NodeIsRebuilt
  <2>3. [b[p] EXCEPT !.exec = (@ # 0)] = [t[p] EXCEPT !.exec = (@ # 0)]
    BY <1>1, <2>2, SameButExec
  <2> QED
    BY <2>2, <2>3
<1>5. Valid(b)
  <2>1. \A p \in DOMAIN t : /\ b[p] = [t[p] EXCEPT !.exec = b[p].exec]
                            /\ b[p].exec # 0 <=> t[p].exec # 0
    BY <1>4
  <2>2. DOMAIN b = DOMAIN t
    BY <1>3
  <2> QED
    BY <1>1, <2>1, <2>2, ValidButExec
<1>8. Fits(Described(t)) => Decodes(Described(t), saturates)
  BY <1>2, <1>4, <1>5, DescribedIsSome DEF Decodes, b
<1>9. Forget(b) = Forget(t)
  BY <1>3, <1>4 DEF Forget
<1> QED
  BY <1>8, <1>9 DEF b

-----------------------------------------------------------------------------
(* The invariant.                                                          *)

\* Nothing is there yet.
LEMMA CommandStarts ==
    Init => CommandInv
BY DEF Init, CommandInv, TypeOK, FileStands, BuildStands, HostStands, FromFile

\* The plugin's own encoder writes what it declared.
LEMMA EncodeIntermediateStands ==
    ASSUME CommandInv, EncodeIntermediate
    PROVE  CommandInv'
<1> USE DEF CommandInv
<1>1. /\ stage = "start" /\ built' = <<>> /\ host' = <<>> /\ saturates' = saturates
      /\ stage' \in {"file", "refused"}
  BY DEF EncodeIntermediate, TypeOK, FileStands
<1>2. PICK root \in Trees :
          LET ok == Valid(root) /\ Marshals(Described(root))
          IN  /\ author' = root
              /\ file' = IF ok THEN Described(root) ELSE <<>>
              /\ stage' = IF ok THEN "file" ELSE "refused"
  BY DEF EncodeIntermediate
<1>3. IsFile(Described(root))
  <2>1. IsTree(root)
    BY CommandTreeAssumption
  <2> QED
    BY <2>1, DescribedTree
<1>4. FileStands'
  BY <1>1, <1>2, <1>3 DEF FileStands
<1>5. TypeOK' /\ BuildStands' /\ HostStands'
  BY <1>1 DEF TypeOK, BuildStands, HostStands, FromFile
<1> QED
  BY <1>4, <1>5

\* Any extractor writes a tree of documents.
LEMMA ExtractStands ==
    ASSUME CommandInv, Extract
    PROVE  CommandInv'
<1> USE DEF CommandInv
<1>1. /\ stage = "start" /\ stage' = "file" /\ built' = <<>> /\ host' = <<>> /\ author' = <<>>
      /\ saturates' = saturates /\ file' \in Documents
  BY DEF Extract, TypeOK, FileStands
<1>2. IsFile(file')
  BY <1>1, CommandTreeAssumption DEF IsFile
<1>3. FileStands'
  BY <1>1, <1>2 DEF FileStands
<1>4. TypeOK' /\ BuildStands' /\ HostStands'
  BY <1>1 DEF TypeOK, BuildStands, HostStands, FromFile
<1> QED
  BY <1>3, <1>4

\* The build makes a tree of the file, or refuses a file that has none.
LEMMA DecodeIntermediateStands ==
    ASSUME CommandInv, DecodeIntermediate
    PROVE  CommandInv'
<1> USE DEF CommandInv
<1>1. /\ stage = "file" /\ saturates' = saturates /\ author' = author /\ file' = file
      /\ host' = <<>> /\ stage' \in {"built", "refused"}
  BY DEF DecodeIntermediate, TypeOK
<1>2. /\ built' = IF Decodes(file, saturates) THEN Converted(file, saturates) ELSE <<>>
      /\ stage' = IF Decodes(file, saturates) THEN "built" ELSE "refused"
  BY DEF DecodeIntermediate, Decodes, Converted
<1>3. TypeOK' /\ HostStands'
  BY <1>1 DEF TypeOK, HostStands
<1>4. FileStands'
  <2>1. file = <<>> => ~Decodes(file, saturates)
    BY DEF Decodes
  <2>2. file = <<>> => built' = <<>> /\ stage' = "refused"
    BY <1>2, <2>1
  <2>3. stage' = "refused" => ~Decodes(file, saturates)
    BY <1>2
  <2> QED
    BY <1>1, <2>2, <2>3 DEF FileStands
<1>5. BuildStands'
  <2>1. Decodes(file, saturates) => Converted(file, saturates) # <<>>
    BY DEF Decodes, Valid
  <2> QED
    BY <1>1, <1>2, <2>1, ConvertedShaped DEF BuildStands, FromFile
<1> QED
  BY <1>3, <1>4, <1>5

\* A build tool in Go assembles nodes.
LEMMA AssembleStands ==
    ASSUME CommandInv, Assemble
    PROVE  CommandInv'
<1> USE DEF CommandInv
<1>1. /\ stage = "start" /\ stage' = "built" /\ author' = <<>> /\ file' = <<>> /\ host' = <<>>
      /\ saturates' = saturates /\ built' \in Trees
  BY DEF Assemble, TypeOK, FileStands
<1>2. built' = [p \in DOMAIN built' |-> built'[p]] /\ \A p \in DOMAIN built' : IsShaped(built'[p])
  <2>1. IsTree(built') /\ \A p \in DOMAIN built' : IsNode(built'[p])
    BY <1>1, CommandTreeAssumption
  <2> QED
    BY <2>1 DEF IsTree, IsNode, IsShaped
<1>3. TypeOK' /\ FileStands' /\ HostStands'
  BY <1>1 DEF TypeOK, FileStands, HostStands
<1>4. BuildStands'
  BY <1>1, <1>2 DEF BuildStands, FromFile
<1> QED
  BY <1>3, <1>4

\* A tree of a file is valid and UTF-8, so that only an assembled one is refused
\* here.
LEMMA EncodeTreeStands ==
    ASSUME CommandInv, EncodeTree
    PROVE  CommandInv'
<1> USE DEF CommandInv
<1>1. /\ stage = "built" /\ saturates' = saturates /\ author' = author /\ file' = file
      /\ built' = built /\ host' = <<>> /\ stage' \in {"shipped", "refused"}
      /\ stage' = IF Valid(built) /\ ProtoCarries(Encoded(built)) THEN "shipped" ELSE "refused"
      /\ Valid(built) /\ ProtoCarries(Encoded(built)) => wire' = Encoded(built)
  BY DEF EncodeTree, TypeOK, Encoded
<1>2. file # <<>> => Valid(built) /\ ProtoCarries(Encoded(built))
  <2>1. file # <<>> =>
          /\ Decodes(file, saturates) /\ built = Converted(file, saturates)
          /\ \A p \in DOMAIN file : UTF8(FileTexts(file[p]))
    BY <1>1 DEF BuildStands, FromFile, FileStands, IsFile
  <2> QED
    BY <2>1, ConvertedCarries DEF Decodes
<1>3. TypeOK' /\ HostStands' /\ BuildStands'
  BY <1>1 DEF TypeOK, HostStands, BuildStands, FromFile
<1>4. FileStands'
  BY <1>1, <1>2 DEF FileStands
<1> QED
  BY <1>3, <1>4

\* A bundle of another encoder has no tree that was built.
LEMMA ShipForeignStands ==
    ASSUME CommandInv, ShipForeign
    PROVE  CommandInv'
<1> USE DEF CommandInv
<1>1. /\ stage = "start" /\ stage' = "shipped" /\ saturates' = saturates /\ author' = <<>>
      /\ file' = <<>> /\ built' = <<>> /\ host' = <<>>
  BY DEF ShipForeign, TypeOK, FileStands
<1> QED
  BY <1>1 DEF TypeOK, FileStands, BuildStands, HostStands, FromFile

\* The host takes the tree or refuses it, and knows the types of what it takes.
LEMMA DecodeTreeStands ==
    ASSUME CommandInv, DecodeTree
    PROVE  CommandInv'
<1> USE DEF CommandInv
<1>1. /\ stage = "shipped" /\ UNCHANGED <<saturates, author, file, built, wire>>
      /\ stage' \in {"loaded", "hostRefused"}
  BY DEF DecodeTree
<1>2. /\ host' = IF HostTakes(wire) THEN Loaded(wire) ELSE <<>>
      /\ stage' = IF HostTakes(wire) THEN "loaded" ELSE "hostRefused"
  BY DEF DecodeTree, HostTakes, Loaded
<1>3. FileStands' /\ BuildStands'
  BY <1>1 DEF FileStands, BuildStands, FromFile
<1>4. HostStands'
  BY <1>1, <1>2 DEF HostStands
<1>5. TypeOK'
  <2>1. HostTakes(wire) => Valid(Loaded(wire)) /\ Loaded(wire) # <<>>
    BY DEF HostTakes, Valid
  <2>2. \A p \in DOMAIN host' :
            host'[p].node = "argument" => host'[p].type \in ArgInteger .. ArgCustom
    <3>1. CASE HostTakes(wire)
      BY <1>2, <2>1, <3>1, ValidTypes
    <3>2. CASE ~HostTakes(wire)
      BY <1>2, <3>2
    <3> QED
      BY <3>1, <3>2
  <2> QED
    BY <1>1, <1>2, <2>1, <2>2 DEF TypeOK
<1> QED
  BY <1>3, <1>4, <1>5

\* Whoever the commands come from, each form of them is what the step before
\* makes of the last, and who refused had a reason: the inductive invariant.
THEOREM CommandInvariant ==
    Spec => []CommandInv
<1>1. CommandInv /\ [Next]_vars => CommandInv'
  <2> SUFFICES ASSUME CommandInv, [Next]_vars PROVE CommandInv'
    OBVIOUS
  <2>1. CASE EncodeIntermediate
    BY <2>1, EncodeIntermediateStands
  <2>2. CASE Extract
    BY <2>2, ExtractStands
  <2>3. CASE DecodeIntermediate
    BY <2>3, DecodeIntermediateStands
  <2>4. CASE Assemble
    BY <2>4, AssembleStands
  <2>5. CASE EncodeTree
    BY <2>5, EncodeTreeStands
  <2>6. CASE ShipForeign
    BY <2>6, ShipForeignStands
  <2>7. CASE DecodeTree
    BY <2>7, DecodeTreeStands
  <2>8. CASE Terminated \/ UNCHANGED vars
    BY <2>8 DEF Terminated, vars, CommandInv, TypeOK, FileStands, BuildStands, HostStands, FromFile
  <2> QED
    BY <2>1, <2>2, <2>3, <2>4, <2>5, <2>6, <2>7, <2>8 DEF Next
<1> QED
  BY <1>1, CommandStarts, PTL DEF Spec

-----------------------------------------------------------------------------
(* Theorems.                                                               *)

\* Whatever a host loaded has known argument types only, and it holds a tree
\* exactly when it has loaded one.
THEOREM CommandTypes ==
    Spec => []TypeOK
BY CommandInvariant, PTL DEF CommandInv

\* The ids minted for a file of any shape are 1 .. n for its n nodes that run,
\* so that no two of them share one.
THEOREM IdsAreDense ==
    Spec => []ExecutorsDense
<1>1. CommandInv => ExecutorsDense
  <2> SUFFICES ASSUME CommandInv, FromFile
               PROVE  Executors(built) = 1 .. Cardinality({ p \in DOMAIN file : file[p].runs })
    BY DEF ExecutorsDense
  <2> DEFINE running == { p \in DOMAIN file : file[p].runs }
  <2>1. /\ IsTree(file) /\ \A p \in DOMAIN file : file[p].runs \in BOOLEAN
        /\ built = Converted(file, saturates)
    BY DEF CommandInv, FileStands, BuildStands, FromFile, IsFile
  <2>2. DOMAIN built = DOMAIN file
        /\ \A p \in DOMAIN file : built[p].exec = IF file[p].runs THEN Minted(file, p) ELSE 0
    BY <2>1, ConvertedExec DEF Converted
  <2>3. { Minted(file, p) : p \in running } = 1 .. Cardinality(running)
    BY <2>1, MintedDense
  <2>4. \A p \in running : Minted(file, p) # 0
    BY <2>1, MintedCounts
  <2>5. Executors(built) = { Minted(file, p) : p \in running }
    BY <2>2, <2>4 DEF Executors
  <2> QED
    BY <2>3, <2>5
<1> QED
  BY <1>1, CommandInvariant, PTL

\* A valid tree of any shape that a plugin declares as code is refused on its way
\* into a bundle only for an infinite bound, for a file of more than 4 MiB, or for
\* what JSON does not hold as it is: an integer bound too large for a double, a
\* text that is not UTF-8.  Otherwise it arrives as it was but for its ids.
THEOREM CommandsAreKept ==
    Spec => []BuildKeepsCommands
<1>1. CommandInv => BuildKeepsCommands
  <2> SUFFICES ASSUME CommandInv, author # <<>>, Valid(author)
               PROVE  /\ file # <<>> <=> Finite(author)
                      /\ file # <<>> /\ stage = "refused" /\ FileSize(file) <= MaxFileSize =>
                            ~Exact(author)
                      /\ built # <<>> =>
                            /\ FileSize(file) <= MaxFileSize /\ stage # "refused"
                            /\ Exact(author) => Forget(built) = Forget(author)
    BY DEF BuildKeepsCommands
  <2>1. /\ author \in Trees
        /\ file = IF Marshals(Described(author)) THEN Described(author) ELSE <<>>
        /\ file = <<>> => built = <<>>
        /\ stage = "refused" /\ file # <<>> => ~Decodes(file, saturates)
    BY DEF CommandInv, FileStands
  <2>2. IsTree(author) /\ \A p \in DOMAIN author : IsNode(author[p])
    BY <2>1, CommandTreeAssumption
  <2>3. file # <<>> <=> Finite(author)
    BY <2>1, <2>2, FiniteMarshals, DescribedIsSome
  <2>4. file # <<>> => file = Described(author)
    BY <2>1
  <2>5. Exact(author) =>
          /\ Fits(Described(author)) => Decodes(Described(author), saturates)
          /\ Forget(Converted(Described(author), saturates)) = Forget(author)
    BY <2>1, TreeIsRebuilt
  <2>6. built # <<>> => file # <<>> /\ Decodes(file, saturates) /\ built = Converted(file, saturates)
    BY <2>1 DEF CommandInv, BuildStands, FromFile
  <2>7. file # <<>> /\ stage = "refused" /\ FileSize(file) <= MaxFileSize => ~Exact(author)
    BY <2>1, <2>4, <2>5 DEF Fits
  <2>8. built # <<>> => FileSize(file) <= MaxFileSize /\ stage # "refused"
    BY <2>1, <2>6 DEF Decodes, Fits
  <2> QED
    BY <2>3, <2>4, <2>5, <2>6, <2>7, <2>8
<1> QED
  BY <1>1, CommandInvariant, PTL

\* Whoever wrote the file or the bundle, what guards a node of it guards that
\* node of the tree that is built or loaded.
THEOREM GuardsSurvive ==
    Spec => []PermissionsSurvive
<1>1. CommandInv => PermissionsSurvive
  BY ConvertKeepsGuard, LoadKeepsGuard
     DEF CommandInv, BuildStands, HostStands, PermissionsSurvive
<1> QED
  BY <1>1, CommandInvariant, PTL

\* The host takes what was built, node for node and id for id, exactly when it
\* is within the host's limits, whatever they are.
THEOREM HostTakesWhatWasBuilt ==
    Spec => []HostLoadsWhatWasBuilt
<1>1. CommandInv => HostLoadsWhatWasBuilt
  <2> SUFFICES ASSUME CommandInv, built # <<>>, stage \in {"loaded", "hostRefused"}
               PROVE  IF /\ Cardinality(DOMAIN built) <= MaxNodes
                         /\ \A p \in DOMAIN built : Len(p) <= MaxDepth
                      THEN host = built
                      ELSE stage = "hostRefused"
    BY DEF HostLoadsWhatWasBuilt
  <2>1. /\ Valid(built) /\ wire = Encoded(built) /\ ProtoCarries(Encoded(built))
        /\ built = [p \in DOMAIN built |-> built[p]] /\ \A p \in DOMAIN built : IsShaped(built[p])
        /\ stage = "loaded" => HostTakes(wire) /\ host = Loaded(wire)
        /\ stage = "hostRefused" => ~HostTakes(wire)
    BY DEF CommandInv, BuildStands, HostStands
  <2>2. /\ Loaded(wire) = built
        /\ HostTakes(wire) <=> /\ Cardinality(DOMAIN built) <= MaxNodes
                               /\ \A p \in DOMAIN built : Len(p) <= MaxDepth
    BY <2>1, EncodedLoads
  <2> QED
    BY <2>1, <2>2
<1> QED
  BY <1>1, CommandInvariant, PTL
=============================================================================
