------------------------------- MODULE Values --------------------------------
(***************************************************************************)
(* Positional values, their comparison and the mutations between them:     *)
(* src/abi/v1/value.go and path.go, and what src/ipc/convert.go does to a  *)
(* value at the wire.  A value is a record of its kind and its content: a  *)
(* sequence of values for a list, a model value for anything else.  Paths  *)
(* hold the zero-based indices the code uses.                              *)
(***************************************************************************)
EXTENDS WireValues

CONSTANT Zeros   \* the doubles == calls equal that are not the same: 0.0 and -0.0

ASSUME ZerosAssumption == NaN \notin Zeros

-----------------------------------------------------------------------------
(* Equal and Diff.                                                         *)

\* bytes.Equal; compared by identity, two copies of the same bytes differ.
SameScalar_byIdentity(l, r) ==
    /\ l.of = r.of
    /\ l.kind # "bytes"
    /\ l.kind = "double" => l.of # NaN
SameScalar(l, r) ==
    \/ l.of = r.of /\ (l.kind = "double" => l.of # NaN)
    \/ l.kind = "double" /\ {l.of, r.of} \subseteq Zeros

\* How far down some values go: nothing is inside from there on.
Depth(values) ==
    LET from[n \in Nat] == IF Levels(values)[n] = <<>> THEN n ELSE from[n + 1]
    IN  from[0]

SameNode(l, r) ==
    /\ l.kind = r.kind
    /\ l.kind \in ScalarKinds => SameScalar(l, r)
    /\ IsList(l) => Len(l.of) = Len(r.of)

\* Equal: the two are the same at every depth, as far as == can tell.
Equal(l, r) ==
    /\ SameNode(l, r)
    /\ IsList(l) =>
          \A n \in 1 .. Depth(<<l>>) - 1 :
             LET left == Levels(<<l>>)[n]
                 right == Levels(<<r>>)[n]
             IN  Len(left) = Len(right) /\ \A i \in DOMAIN left : SameNode(left[i], right[i])

Descends_never(l, r) == FALSE
Descends_anyLength(l, r) == IsList(l) /\ IsList(r)
Descends(l, r) == IsList(l) /\ IsList(r) /\ Len(l.of) = Len(r.of)

\* The loop of diffInto over two lists: the pairs it compares.
Pairs(path, before, after) ==
    IF Len(before) # Len(after)
    THEN <<>>
    ELSE [i \in DOMAIN before |->
             [path |-> Append(path, i - 1), before |-> before[i], after |-> after[i]]]

\* Its recursion: a pair it descends into gives way to the pairs inside.
Descended(pairs) ==
    FlattenSeq([i \in DOMAIN pairs |->
        IF Descends(pairs[i].before, pairs[i].after)
        THEN Pairs(pairs[i].path, pairs[i].before.of, pairs[i].after.of)
        ELSE <<pairs[i]>>])

\* The pairs left when it descends into no more.
Compared(before, after) ==
    LET compared[n \in 0 .. Depth(before)] ==
            IF n = 0 THEN Pairs(<<>>, before, after) ELSE Descended(compared[n - 1])
    IN  compared[Depth(before)]

Changes(pairs) ==
    FlattenSeq([i \in DOMAIN pairs |->
        IF Equal(pairs[i].before, pairs[i].after)
        THEN <<>>
        ELSE <<[path |-> pairs[i].path, value |-> pairs[i].after]>>])

Diff(before, after) == Changes(Compared(before, after))

-----------------------------------------------------------------------------
(* ApplyPath.                                                              *)

InRange(values, index) == index < Len(values)

\* The list at an index, or nothing.
ListAt(values, index) ==
    IF InRange(values, index) /\ IsList(values[index + 1]) THEN values[index + 1].of ELSE <<>>

\* The values, and what is below each index of a path in turn.
Walk(values, path) ==
    LET list[k \in 0 .. Len(path)] ==
            IF k = 0 THEN values ELSE ListAt(list[k - 1], path[k])
    IN  list

\* What a path leads to.
ValueAt(values, path) ==
    LET n == Len(path) IN Walk(values, path)[n - 1][path[n] + 1]

\* applyPath returns no error.
Reaches(values, path) ==
    \A k \in DOMAIN path :
        LET list == Walk(values, path)[k - 1]
        IN  InRange(list, path[k]) /\ (k < Len(path) => IsList(list[path[k] + 1]))

Applicable(values, mutation) ==
    mutation.path # <<>> /\ Reaches(values, mutation.path)

Replace_oneTooLong(values, path, replacement) ==
    Append([values EXCEPT ![path[1] + 1] = replacement], NoKind)

\* The replacement, in a copy of the last list of the path, in a copy of the
\* list before, up to the values.
Replace(values, path, replacement) ==
    LET n == Len(path)
        list == Walk(values, path)
        made[k \in 0 .. n] ==
            IF k = 0
            THEN replacement
            ELSE List([list[n - k] EXCEPT ![path[n - k + 1] + 1] = made[k - 1]])
    IN  made[n].of

ApplyPath(values, mutation) == Replace(values, mutation.path, mutation.value)

\* One mutation after the other.
ApplyEach(values, mutations) ==
    LET applied[n \in 0 .. Len(mutations)] ==
            IF n = 0 THEN values ELSE ApplyPath(applied[n - 1], mutations[n])
    IN  applied[Len(mutations)]

-----------------------------------------------------------------------------
(* The same values but for the sign of a zero, which is as close as Diff   *)
(* and ApplyPath can bring two payloads.                                   *)

NodesAlike(l, r) ==
    /\ l.kind = r.kind
    /\ IF IsList(l)
       THEN Len(l.of) = Len(r.of)
       ELSE l.of = r.of \/ (l.kind = "double" /\ {l.of, r.of} \subseteq Zeros)

Alike(left, right) ==
    \A n \in 0 .. Depth(left) :
        LET l == Levels(left)[n]
            r == Levels(right)[n]
        IN  Len(l) = Len(r) /\ \A i \in DOMAIN l : NodesAlike(l[i], r[i])

-----------------------------------------------------------------------------
\* encodeMutations and decodeMutations refuse the same mutations.
MutationsPass(mutations) == \A i \in DOMAIN mutations : Passes(mutations[i].value)
=============================================================================
