-------------------------------- MODULE Blank --------------------------------
(***************************************************************************)
(* The blank payload of a warm dispatch (src/gcpkg/blank.go): a value of   *)
(* the shape a declared type has, built from a record table that loaded.   *)
(***************************************************************************)
EXTENDS RecordGraph, WireValues

CONSTANTS
    MaxBlankDepth,   \* maximumBlankDepth
    PlayerRef,       \* the scalar that travels as a list: TypePlayerRef
    Zero,            \* the empty content of any scalar kind
    KindOf           \* the kind each other scalar has as a value

ASSUME BlankAssumption ==
    /\ MaxBlankDepth \in Nat
    /\ PlayerRef \in Scalars
    /\ KindOf \in [Scalars \ {PlayerRef} -> ScalarKinds]

TooDeep_early(depth) == depth >= MaxBlankDepth
TooDeep_late(depth) == depth > MaxBlankDepth + 1
TooDeep(depth) == depth > MaxBlankDepth

BlankPlayerRef ==
    List(<<Scalar("bytes", Zero), Scalar("string", Zero), Scalar("string", Zero)>>)

\* A blank of an element, and of a type, from the blanks one level further in.
BlankElement(element, inner) ==
    IF element = PlayerRef
    THEN BlankPlayerRef
    ELSE IF element \in Scalars
    THEN Scalar(KindOf[element], Zero)
    ELSE IF element \notin Declared
    THEN List(<<>>)
    ELSE List([i \in DOMAIN FieldsOf(element) |-> inner[FieldsOf(element)[i].type]])

BlankType(type, inner) ==
    LET element == BlankElement(type.element, inner)
    IN  CASE type.prefix = "list" -> List(<<element>>)
          [] type.prefix = "map"  -> List(<<List(<<Scalar("string", Zero), element>>)>>)
          [] type.prefix = "none" -> element

\* The recursion has an end that TooDeep sets, one level after its depth.
BlankField ==
    LET blank[depth \in 0 .. MaxBlankDepth + 2] ==
          [type \in Types |->
              IF ~ParsesFieldType(type) \/ TooDeep(depth)
              THEN List(<<>>)
              ELSE BlankType(type, blank[depth + 1])]
    IN  blank

BlankFields(fields) == [i \in DOMAIN fields |-> BlankField[0][fields[i].type]]

=============================================================================
