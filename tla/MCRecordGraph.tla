---------------------------- MODULE MCRecordGraph ----------------------------
(***************************************************************************)
(* Every table of up to three records whose one or two fields are scalars  *)
(* or records, declared or not, one table for each other refusal, and one  *)
(* with a record that is named like a scalar.                              *)
(***************************************************************************)
EXTENDS RecordGraph

CONSTANTS A, B, C, bad, int

Plain(element) == [prefix |-> "none", element |-> element]
Field(name, element) == [name |-> name, type |-> Plain(element)]

FieldLists ==
    LET elements == {A, B, C, int}
    IN  { <<Field("f", x)>> : x \in elements }
        \cup { <<Field("f", x), Field("g", y)>> : x \in elements, y \in elements }

Graphs ==
    UNION { { [i \in DOMAIN names |-> [name |-> names[i], fields |-> f[i]]] :
                 f \in [DOMAIN names -> FieldLists] } :
            names \in {<<A, B, C>>, <<C, A>>, <<B>>, <<>>} }

Simple(n) == [name |-> n, fields |-> <<Field("f", int)>>]

Malformed ==
    { <<Simple(A), Simple(bad)>>,
      <<Simple(A), Simple(A)>>,
      <<[name |-> A, fields |-> <<>>]>>,
      <<Simple(B), [name |-> A, fields |-> <<Field("?", int)>>]>>,
      <<[name |-> A, fields |-> <<Field("f", bad)>>]>>,
      <<[name |-> A, fields |-> <<Field("f", int), Field("f", int)>>]>> }

Shadowed ==
    <<[name |-> A, fields |-> <<Field("f", int)>>], [name |-> int, fields |-> <<Field("f", A)>>]>>

MCTables == Graphs \cup Malformed \cup {Shadowed}
MCOrder == <<A, B, C, int>>
=============================================================================
