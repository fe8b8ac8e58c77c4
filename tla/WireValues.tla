----------------------------- MODULE WireValues ------------------------------
(***************************************************************************)
(* Positional values and what src/ipc/convert.go does to a value at the    *)
(* wire.  A value is a record of its kind and its content: a sequence of   *)
(* values for a list, a model value for anything else.                     *)
(***************************************************************************)
EXTENDS Integers, SequencesExt

CONSTANTS
    NaN,            \* the double that differs from itself
    MaxValueDepth   \* maximumValueDepth

ASSUME ValuesAssumption == MaxValueDepth \in Nat \ {0}

ScalarKinds == {"bool", "int64", "double", "string", "bytes"}

Scalar(kind, content) == [kind |-> kind, of |-> content]
List(values) == [kind |-> "list", of |-> values]
IsList(v) == v.kind = "list"

\* The zero Value of Go and a wire.Value with no kind set; a nil *wire.Value.
NoKind == [kind |-> "invalid", of |-> NaN]
NilValue == [kind |-> "nil", of |-> NaN]

-----------------------------------------------------------------------------
(* Encoding and decoding keep kind and content; what they may do is        *)
(* refuse, and they refuse the same values.                                *)

\* What is in the lists among some values, one level down.
Inside(values) ==
    FlattenSeq([i \in DOMAIN values |-> IF IsList(values[i]) THEN values[i].of ELSE <<>>])

\* Some values, what is in the lists among them, what is in those, and so on.
Levels(values) ==
    LET level[n \in Nat] == IF n = 0 THEN values ELSE Inside(level[n - 1])
    IN  level

\* encodeValueAt and decodeValueAt, depth by depth.
Passes(v) ==
    /\ v.kind \in ScalarKinds \cup {"list"}
    /\ IsList(v) =>
          /\ Levels(<<v>>)[MaxValueDepth] = <<>>
          /\ \A depth \in 1 .. MaxValueDepth - 1 :
                LET level == Levels(<<v>>)[depth]
                IN  \A i \in DOMAIN level : level[i].kind \in ScalarKinds \cup {"list"}

AllPass(values) == \A i \in DOMAIN values : Passes(values[i])
=============================================================================
