----------------------------- MODULE BlankShape ------------------------------
(***************************************************************************)
(* What the blank of a declared type should be, said of the value and its  *)
(* type without the steps of src/gcpkg/blank.go.                           *)
(***************************************************************************)
EXTENDS Bundle

\* The scalars, and the records that nest records at most n deep.
NestedWithin ==
    LET within[n \in 0 .. MaxBlankDepth] ==
          IF n = 0
          THEN Scalars
          ELSE Scalars \cup { e \in Declared : Targets(e) \subseteq within[n - 1] }
    IN  within

\* The outside of a value is what a decoder of the declared type expects, with
\* something in each list so that the decoder's loops run.
FitsOutside(v, type) ==
    CASE type.prefix = "list" -> IsList(v) /\ v.of # <<>>
      [] type.prefix = "map" ->
            /\ IsList(v) /\ v.of # <<>>
            /\ \A i \in DOMAIN v.of :
                  IsList(v.of[i]) /\ Len(v.of[i].of) = 2 /\ v.of[i].of[1].kind = "string"
      [] type.prefix = "none" ->
            IF type.element = PlayerRef
            THEN v = BlankPlayerRef
            ELSE IF type.element \in Scalars
            THEN v.kind = KindOf[type.element]
            ELSE IsList(v) /\ Len(v.of) = Len(FieldsOf(type.element))

\* What is inside of such a value, each with the type it should have.
Inner(v, type) ==
    LET element == [prefix |-> "none", element |-> type.element]
    IN  CASE type.prefix = "list" -> { <<v.of[i], element>> : i \in DOMAIN v.of }
          [] type.prefix = "map" -> { <<v.of[i].of[2], element>> : i \in DOMAIN v.of }
          [] type.prefix = "none" ->
                IF type.element \in Scalars
                THEN {}
                ELSE { <<v.of[i], FieldsOf(type.element)[i].type>> : i \in DOMAIN v.of }

\* A value has the shape of a type.  A table that loaded has no cycle: a type
\* goes down into each record of it once, and twice in two steps at most.
Fits(v, type) ==
    LET inside[n \in 0 .. 2 * Len(table) + 1] ==
          IF n = 0
          THEN { <<v, type>> }
          ELSE UNION { Inner(w[1], w[2]) : w \in { u \in inside[n - 1] : FitsOutside(u[1], u[2]) } }
    IN  \A n \in 0 .. 2 * Len(table) + 1 : \A w \in inside[n] : FitsOutside(w[1], w[2])

-----------------------------------------------------------------------------
(* Properties.                                                             *)

\* The blanks of the fields that are not nested deeper than blank.go goes have
\* the shape their manifest declares.
ShallowBlankFits ==
    step = "warm" =>
        \A i \in DOMAIN blanks : \A k \in DOMAIN blanks[i] :
            LET type == manifest.provides[i].fields[k].type
            IN  type.element \in NestedWithin[MaxBlankDepth] => Fits(blanks[i][k], type)

\* The depth at which blank.go stops "cannot be reached by a bundle that
\* loaded" (blank.go:38): every blank has the declared shape.
BlankHasShape ==
    step = "warm" =>
        \A i \in DOMAIN blanks : \A k \in DOMAIN blanks[i] :
            Fits(blanks[i][k], manifest.provides[i].fields[k].type)
=============================================================================
