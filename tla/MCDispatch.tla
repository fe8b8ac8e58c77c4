----------------------------- MODULE MCDispatch ------------------------------
(***************************************************************************)
(* Events of two fields, the first declared mutable and the second not,    *)
(* over values nested up to the depth limit of 3 and one beyond it; a      *)
(* double may be NaN or either of two zeros.                               *)
(***************************************************************************)
EXTENDS Dispatch

CONSTANTS a, b, id, zero, minus

MCZeros == {zero, minus}

Int64(c) == Scalar("int64", c)
Bytes(c) == Scalar("bytes", c)
Double(c) == Scalar("double", c)

FieldValues ==
    {Double(NaN), Double(zero), Double(minus), Bytes(id), List(<<>>), List(<<Int64(a)>>),
     List(<<Double(zero)>>), List(<<Double(minus)>>), List(<<Double(NaN), Bytes(id)>>),
     List(<<List(<<Int64(a)>>)>>), List(<<List(<<Int64(b)>>)>>)}

ReadOnlyValues ==
    {Double(NaN), Bytes(id), List(<<>>), List(<<Int64(a)>>),
     List(<<List(<<Int64(a)>>)>>), List(<<List(<<Int64(b)>>)>>)}

MCPayloads == { <<x, y>> : x \in FieldValues, y \in ReadOnlyValues }

Odd == <<NoKind, List(<<List(<<List(<<Int64(a)>>)>>)>>)>>

MCForeign ==
    [path : {<<>>, <<0>>, <<1>>, <<2>>, <<1, 0>>, <<0, 1>>, <<0, 0, 0>>, <<0, 0, 1>>},
     value : {Int64(b), List(<<List(<<Int64(a)>>)>>)}]
    \cup [path : {<<0>>}, value : {NilValue}]

MCPayloadsOdd == MCPayloads \cup {Odd}

MCMutable == <<TRUE, FALSE>>
=============================================================================
