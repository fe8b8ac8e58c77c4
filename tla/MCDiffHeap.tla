----------------------------- MODULE MCDiffHeap ------------------------------
(***************************************************************************)
(* Payloads of two lists, the second with a list inside; mutations of      *)
(* another layout for every error of ApplyPath.                            *)
(***************************************************************************)
EXTENDS DiffHeap

CONSTANTS a, b, zero, minus

A == Scalar("int64", a)
B == Scalar("int64", b)
Z == Scalar("double", zero)
M == Scalar("double", minus)

MCScalars == {A, B, Z, M}
MCZeros == {zero, minus}

L(n) == ListCell(n)

MCPayloads ==
    { << <<L(2), L(3)>>, <<x, x>>, <<L(4), z>>, <<y>> >> : x \in {A, B}, y \in {A, B}, z \in {A, B} }
    \cup { << <<L(2), L(3)>>, <<A, A>>, <<L(4), B>>, <<>> >>, << <<L(2), A>>, <<A, B>> >>,
           << <<A>> >>, << <<Z>> >>, << <<M>> >> }

MCForeign ==
    { [path |-> path, value |-> m.value, arrays |-> m.arrays] :
         path \in {<<>>, <<2>>, <<0, 0>>, <<1, 0, 0>>, <<0, 1, 0>>},
         m \in { [value |-> B, arrays |-> <<>>], [value |-> L(1), arrays |-> << <<B, A>> >>] } }
=============================================================================
