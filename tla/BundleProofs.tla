---------------------------- MODULE BundleProofs -----------------------------
(***************************************************************************)
(* What RecordGraph, Bundle and BlankShape show on small instances, for    *)
(* every table, archive and depth.                                         *)
(*                                                                         *)
(* The record table: the verdict of the walk is the definition's, and the  *)
(* walk is never deeper than the table is long.                            *)
(*                                                                         *)
(* The bundle: what Open loads is whole, and what it refuses has a flaw.   *)
(* The two sides are different definitions, so most of the way is between  *)
(* them: a path that path.Clean takes apart from its left, with a stack of *)
(* elements, against the elements that no later ".." takes back; and the   *)
(* checks of the manifest and its record table, one refusal at a time,     *)
(* against what a sound text is.                                           *)
(*                                                                         *)
(* The blanks: they cross the codec, and have the shape that is declared.  *)
(***************************************************************************)
EXTENDS BlankShape, ValuesProofs, FiniteSetTheorems

-----------------------------------------------------------------------------
(* The record table.  It never changes, so the invariant is stated of a    *)
(* set D of names and a function F from names to fields, fixed for a whole *)
(* behaviour, which TableIs ties to the table.                             *)

AllFields == Seq([name : STRING, type : Types])
AllTables == Seq([name : Names, fields : AllFields])
Frames(D) == [name : D, next : Nat \ {0}]

TableIs(D, F) ==
    /\ table \in AllTables
    /\ D = Declared
    /\ F = [n \in D |-> FieldsOf(n)]

Element(F, n, j) == F[n][j].type.element
Named(F, n) == { Element(F, n, j) : j \in DOMAIN F[n] } \ Scalars

\* What validateRecords has established once the walk starts.
Graph(D, F) ==
    /\ D \subseteq ValidNames
    /\ F \in [D -> AllFields]
    /\ \A n \in D : \A j \in DOMAIN F[n] : Element(F, n, j) \in Scalars \cup D

Checked(i) ==
    \A k \in 1 .. i :
        /\ table[k].name \in ValidNames
        /\ \A j \in DOMAIN table[k].fields : ParsesFieldType(table[k].fields[j].type)

Resolved(i) == \A k \in 1 .. i : Resolves(table[k].fields)

NotStarted ==
    /\ index \in Nat \ {0}
    /\ stack = <<>>
    /\ state = [n \in ValidNames |-> "unseen"]
    /\ clock = 0
    /\ finish = [n \in ValidNames |-> 0]

WalkType(D) ==
    /\ index \in Nat \ {0}
    /\ stack \in Seq(Frames(D))
    /\ state \in [ValidNames -> {"unseen", "visiting", "done"}]
    /\ clock \in Nat
    /\ finish \in [ValidNames -> Nat]

\* The records being visited are those on the stack, each once.
VisitingIsStack ==
    /\ \A i \in DOMAIN stack : state[stack[i].name] = "visiting"
    /\ \A n \in ValidNames : state[n] = "visiting" => \E i \in DOMAIN stack : stack[i].name = n
    /\ WalksAreDistinct

\* Each walk on the stack was called for a field of the one below it.
StackIsChain(F) ==
    \A i \in DOMAIN stack :
        i + 1 \in DOMAIN stack => stack[i + 1].name \in Named(F, stack[i].name)

DoneIsRanked(D, F) ==
    \A n \in ValidNames : state[n] = "done" =>
        /\ n \in D
        /\ finish[n] <= clock
        /\ \A t \in Named(F, n) : state[t] = "done" /\ finish[t] < finish[n]

\* The fields a walk has passed are done, but for the one being walked.
PassedFields(F) ==
    \A i \in DOMAIN stack :
        \A j \in DOMAIN F[stack[i].name] : j < stack[i].next =>
            \/ Element(F, stack[i].name, j) \in Scalars
            \/ state[Element(F, stack[i].name, j)] = "done"
            \/ i + 1 \in DOMAIN stack /\ stack[i + 1].name = Element(F, stack[i].name, j)

\* The records the outer loop has passed are done, but for the one it walks.
PassedRecords(D) ==
    \A i \in DOMAIN Order : i < index /\ Order[i] \in D =>
        \/ state[Order[i]] = "done"
        \/ stack # <<>> /\ stack[1].name = Order[i]

WalkInv(D, F) ==
    /\ Graph(D, F)
    /\ WalkType(D)
    /\ VisitingIsStack
    /\ StackIsChain(F)
    /\ DoneIsRanked(D, F)
    /\ PassedFields(F)
    /\ PassedRecords(D)

ClosesCycle(F) == stack # <<>> /\ \E k \in DOMAIN stack : stack[k].name \in Named(F, Top.name)

Inv(D, F) ==
    /\ TableIs(D, F)
    /\ phase \in Running \cup Refusals \cup {"accepted"}
    /\ phase = "records" => NotStarted /\ Checked(index - 1)
    /\ phase = "resolve" => NotStarted /\ Checked(Len(table)) /\ Resolved(index - 1)
    /\ phase \in Refusals \ {"cycle"} => stack = <<>>
    /\ phase \in {"walk", "cycle", "accepted"} => WalkInv(D, F)
    /\ phase = "cycle" => ClosesCycle(F)
    /\ phase = "accepted" => stack = <<>> /\ index > Len(Order)

RecordInv == \E D, F : Inv(D, F)
-----------------------------------------------------------------------------
(* The table and the stack.                                                *)

\* The fields of a declared name are those of a record with that name.
LEMMA FieldsOfDeclared ==
    ASSUME table \in AllTables, NEW n \in Declared
    PROVE  \E k \in DOMAIN table : table[k].name = n /\ FieldsOf(n) = table[k].fields
<1>1. \E k \in DOMAIN table : table[k].name = n
  <2>1. PICK k \in 1 .. Len(table) : table[k].name = n
    BY DEF Declared, DeclaredUpTo
  <2> QED
    BY <2>1, LenProperties DEF AllTables
<1> QED
  BY <1>1 DEF FieldsOf

\* What D and F are does not change while the table does not.
LEMMA TableStays ==
    ASSUME NEW D, NEW F, TableIs(D, F), UNCHANGED table
    PROVE  TableIs(D, F)'
BY DEF TableIs, Declared, DeclaredUpTo, FieldsOf

\* A table that is checked and resolved to its end is a graph.
LEMMA ResolvedIsGraph ==
    ASSUME NEW D, NEW F, TableIs(D, F), Checked(Len(table)), Resolved(Len(table))
    PROVE  Graph(D, F)
<1>1. \A k \in DOMAIN table : k \in 1 .. Len(table) /\ table[k] \in [name : Names, fields : AllFields]
  BY LenProperties, ElementOfSeq DEF TableIs, AllTables
<1>2. D \subseteq ValidNames
  BY DEF TableIs, Checked, Declared, DeclaredUpTo
<1>3. ASSUME NEW n \in D
      PROVE  /\ F[n] \in AllFields
             /\ \A j \in DOMAIN F[n] : Element(F, n, j) \in Scalars \cup D
  <2>1. PICK k \in DOMAIN table : table[k].name = n /\ F[n] = table[k].fields
    BY <1>3, FieldsOfDeclared DEF TableIs
  <2>2. F[n] \in AllFields
    BY <1>1, <2>1
  <2>3. ASSUME NEW j \in DOMAIN F[n]
        PROVE  Element(F, n, j) \in Scalars \cup D
    <3>1. ParsesFieldType(F[n][j].type) /\ Resolves(F[n])
      BY <1>1, <2>1, <2>3 DEF Checked, Resolved
    <3> QED
      BY <3>1 DEF Element, ParsesFieldType, Resolves, IsRecord, TableIs
  <2> QED
    BY <2>2, <2>3
<1>4. F \in [D -> AllFields]
  BY <1>3 DEF TableIs
<1> QED
  BY <1>2, <1>3, <1>4 DEF Graph

\* A stack that is not empty has a top, and every frame has its type.
LEMMA StackTop ==
    ASSUME NEW D, stack \in Seq(Frames(D)), stack # <<>>
    PROVE  /\ Len(stack) \in Nat \ {0}
           /\ DOMAIN stack = 1 .. Len(stack)
           /\ Len(stack) \in DOMAIN stack
           /\ 1 \in DOMAIN stack
           /\ Top = stack[Len(stack)]
           /\ Top \in Frames(D)
           /\ Top.name \in D
           /\ Top.next \in Nat \ {0}
           /\ \A i \in DOMAIN stack : stack[i].name \in D /\ stack[i].next \in Nat \ {0}
<1>1. Len(stack) \in Nat \ {0} /\ DOMAIN stack = 1 .. Len(stack)
  BY LenProperties, EmptySeq
<1>2. Top \in Frames(D)
  BY <1>1, ElementOfSeq DEF Top
<1>3. \A i \in DOMAIN stack : stack[i].name \in D /\ stack[i].next \in Nat \ {0}
  <2>1. \A i \in DOMAIN stack : stack[i] \in Frames(D)
    BY <1>1, ElementOfSeq
  <2> QED
    BY <2>1 DEF Frames
<1> QED
  BY <1>1, <1>2, <1>3 DEF Top, Frames

\* What is left of the stack when the walk on top returns.
LEMMA StackBelow ==
    ASSUME NEW D, stack \in Seq(Frames(D)), stack # <<>>
    PROVE  /\ Below \in Seq(Frames(D))
           /\ Len(Below) = Len(stack) - 1
           /\ DOMAIN Below = 1 .. Len(stack) - 1
           /\ \A i \in DOMAIN Below : Below[i] = stack[i]
           /\ Below # <<>> => Len(stack) > 1
<1>1. Len(stack) \in Nat /\ Len(stack) >= 1
  BY LenProperties, EmptySeq
<1>2. /\ Below \in Seq(Frames(D))
      /\ Len(Below) = Len(stack) - 1
      /\ \A i \in 1 .. Len(stack) - 1 : Below[i] = stack[i]
  <2>1. \A i \in 1 .. Len(stack) - 1 : stack[i] \in Frames(D)
    BY <1>1, LenProperties, ElementOfSeq
  <2>2. /\ Below \in Seq(Frames(D))
        /\ Len(Below) = IF 1 <= Len(stack) - 1 THEN Len(stack) - 1 - 1 + 1 ELSE 0
        /\ \A i \in 1 .. Len(stack) - 1 - 1 + 1 : Below[i] = stack[1 + i - 1]
    BY <1>1, <2>1, SubSeqProperties DEF Below
  <2>3. ASSUME NEW i \in 1 .. Len(stack) - 1
        PROVE  Below[i] = stack[i]
    <3>1. 1 + i - 1 = i /\ i \in 1 .. Len(stack) - 1 - 1 + 1
      BY <1>1
    <3> QED
      BY <2>2, <3>1, Zenon
  <2>4. Len(Below) = Len(stack) - 1
    <3>1. Len(Below) = IF 1 <= Len(stack) - 1 THEN Len(stack) - 1 - 1 + 1 ELSE 0
      BY <2>2
    <3>2. \A m \in Nat : m >= 1 => (IF 1 <= m - 1 THEN m - 1 - 1 + 1 ELSE 0) = m - 1
      OBVIOUS
    <3> QED
      BY <1>1, <3>1, <3>2, Zenon
  <2> QED
    BY <2>2, <2>3, <2>4
<1>3. DOMAIN Below = 1 .. Len(stack) - 1
  BY <1>2, LenProperties
<1>4. ASSUME Below # <<>>
      PROVE  Len(stack) > 1
  <2>1. Len(Below) # 0
    BY <1>2, <1>4, EmptySeq
  <2> QED
    BY <1>1, <1>2, <2>1
<1> QED
  BY <1>2, <1>3, <1>4

\* Moving the top on changes nothing but its next field.
LEMMA MovedStack ==
    ASSUME NEW D, stack \in Seq(Frames(D)), stack # <<>>
    PROVE  /\ Moved \in Seq(Frames(D))
           /\ Len(Moved) = Len(stack)
           /\ DOMAIN Moved = DOMAIN stack
           /\ \A i \in DOMAIN stack :
                 /\ Moved[i].name = stack[i].name
                 /\ Moved[i].next = IF i = Len(stack) THEN stack[i].next + 1 ELSE stack[i].next
<1>1. /\ Len(stack) \in Nat \ {0} /\ DOMAIN stack = 1 .. Len(stack)
      /\ Top = stack[Len(stack)] /\ Top \in Frames(D)
  BY StackTop
<1>2. /\ Below \in Seq(Frames(D))
      /\ Len(Below) = Len(stack) - 1
      /\ \A i \in 1 .. Len(stack) - 1 : Below[i] = stack[i]
  BY StackBelow
<1>3. [name |-> Top.name, next |-> Top.next + 1] \in Frames(D)
  BY <1>1 DEF Frames
<1>4. /\ Moved \in Seq(Frames(D))
      /\ Len(Moved) = Len(stack)
      /\ \A i \in 1 .. Len(stack) - 1 : Moved[i] = stack[i]
      /\ Moved[Len(stack)] = [name |-> Top.name, next |-> Top.next + 1]
  <2> DEFINE frame == [name |-> Top.name, next |-> Top.next + 1]
  <2>1. Moved = Append(Below, frame)
    BY DEF Moved
  <2>2. /\ Append(Below, frame) \in Seq(Frames(D))
        /\ Len(Append(Below, frame)) = Len(Below) + 1
        /\ \A i \in 1 .. Len(Below) : Append(Below, frame)[i] = Below[i]
        /\ Append(Below, frame)[Len(Below) + 1] = frame
    <3> HIDE DEF frame
    <3> QED
      BY <1>2, <1>3, AppendProperties DEF frame
  <2>3. Len(Below) + 1 = Len(stack)
    BY <1>1, <1>2
  <2> QED
    BY <1>2, <2>1, <2>2, <2>3
<1>5. DOMAIN Moved = 1 .. Len(Moved)
  BY <1>4, LenProperties
<1> QED
  <2> SUFFICES ASSUME NEW i \in DOMAIN stack
               PROVE  /\ Moved[i].name = stack[i].name
                      /\ Moved[i].next = IF i = Len(stack) THEN stack[i].next + 1 ELSE stack[i].next
    BY <1>1, <1>4, <1>5
  <2>1. CASE i = Len(stack)
    BY <1>1, <1>4, <2>1
  <2>2. CASE i # Len(stack)
    BY <1>1, <1>4, <2>2
  <2> QED
    BY <2>1, <2>2

\* A walk that is called is the new top, above the frames below it.
LEMMA PushedStack ==
    ASSUME NEW D, NEW frames \in Seq(Frames(D)), NEW n \in D,
           stack' = Append(frames, [name |-> n, next |-> 1])
    PROVE  /\ stack' \in Seq(Frames(D))
           /\ stack' # <<>>
           /\ Len(frames) \in Nat
           /\ Len(stack') = Len(frames) + 1
           /\ DOMAIN stack' = 1 .. Len(frames) + 1
           /\ DOMAIN frames = 1 .. Len(frames)
           /\ \A i \in DOMAIN frames : stack'[i] = frames[i]
           /\ stack'[Len(frames) + 1].name = n
           /\ stack'[Len(frames) + 1].next = 1
<1> DEFINE frame == [name |-> n, next |-> 1]
<1>1. frame \in Frames(D)
  BY DEF Frames
<1>2. /\ Append(frames, frame) \in Seq(Frames(D))
      /\ Append(frames, frame) # <<>>
      /\ Len(Append(frames, frame)) = Len(frames) + 1
      /\ \A i \in 1 .. Len(frames) : Append(frames, frame)[i] = frames[i]
      /\ Append(frames, frame)[Len(frames) + 1] = frame
  <2> HIDE DEF frame
  <2> QED
    BY <1>1, AppendProperties
<1>3. stack' = Append(frames, frame)
  OBVIOUS
<1>4. DOMAIN stack' = 1 .. Len(stack') /\ DOMAIN frames = 1 .. Len(frames) /\ Len(frames) \in Nat
  BY <1>2, <1>3, LenProperties
<1>5. frame.name = n /\ frame.next = 1
  OBVIOUS
<1> HIDE DEF frame
<1> QED
  BY <1>2, <1>3, <1>4, <1>5

-----------------------------------------------------------------------------
(* The initial states, and the two loops over the table.                   *)

\* The initial states satisfy the invariant.
LEMMA InitEstablishes == Init => RecordInv
<1> SUFFICES ASSUME Init
             PROVE  Inv(Declared, [n \in Declared |-> FieldsOf(n)])
  BY DEF RecordInv
<1>1. table \in AllTables
  BY RecordGraphAssumption DEF Init, AllTables, AllFields
<1>2. Checked(index - 1)
  BY DEF Init, Start, Checked
<1> QED
  BY <1>1, <1>2 DEF Init, Start, Inv, TableIs, NotStarted, Running

\* The first loop of validateRecords: one more record is checked, or refused.
LEMMA CheckRecordKeeps ==
    ASSUME NEW D, NEW F, Inv(D, F), CheckRecord
    PROVE  Inv(D, F)'
<1>1. TableIs(D, F)'
  BY TableStays DEF Inv, CheckRecord, Advance, Refuse
<1>2. /\ phase = "records" /\ NotStarted /\ Checked(index - 1) /\ table \in AllTables
      /\ UNCHANGED <<table, state, stack, clock, finish>>
  BY DEF Inv, TableIs, CheckRecord, Advance, Refuse
<1>3. Len(table) \in Nat /\ index \in Nat \ {0}
  BY <1>2, LenProperties DEF AllTables, NotStarted
<1>4. CASE phase' \in Refusals \ {"cycle"}
  BY <1>1, <1>2, <1>4 DEF Inv, NotStarted, Refusals, Running
<1>5. CASE Advance("resolve")
  <2>1. Checked(index) \/ table = <<>>
    <3>1. CASE table = <<>>
      BY <3>1
    <3>2. CASE table # <<>>
      <4>1. /\ index <= Len(table)
            /\ table[index].name \in ValidNames
            /\ \A j \in DOMAIN table[index].fields : ParsesFieldType(table[index].fields[j].type)
        BY <1>2, <1>5, <3>2 DEF CheckRecord, Advance, Refuse, ValidFields
      <4>2. \A k \in 1 .. index : k \in 1 .. index - 1 \/ k = index
        BY <1>3
      <4> QED
        BY <1>2, <4>1, <4>2 DEF Checked
    <3> QED
      BY <3>1, <3>2
  <2>2. CASE index < Len(table)
    <3>1. table # <<>>
      BY <1>3, <2>2, EmptySeq
    <3>2. index' = index + 1 /\ phase' = "records"
      BY <1>2, <1>5, <2>2 DEF Advance
    <3>3. Checked(index' - 1)
      BY <1>3, <2>1, <3>1, <3>2
    <3>4. Checked(index - 1)'
      BY <1>2, <3>3 DEF Checked, ParsesFieldType
    <3>5. NotStarted'
      BY <1>2, <3>2 DEF NotStarted
    <3> QED
      BY <1>1, <3>2, <3>4, <3>5 DEF Inv, Refusals, Running
  <2>3. CASE ~(index < Len(table))
    <3>1. index' = 1 /\ phase' = "resolve"
      BY <1>5, <2>3 DEF Advance
    <3>2. Checked(Len(table))
      <4>1. CASE table = <<>>
        BY <4>1, EmptySeq DEF Checked
      <4>2. CASE table # <<>>
        <5>1. index = Len(table)
          BY <1>2, <1>3, <1>5, <2>3, <4>2 DEF CheckRecord
        <5> QED
          BY <2>1, <4>2, <5>1
      <4> QED
        BY <4>1, <4>2
    <3>3. Checked(Len(table))'
      BY <1>2, <3>2 DEF Checked, ParsesFieldType
    <3>4. Resolved(index - 1)'
      BY <3>1 DEF Resolved
    <3>5. NotStarted'
      BY <1>2, <3>1 DEF NotStarted
    <3> QED
      BY <1>1, <3>1, <3>3, <3>4, <3>5 DEF Inv, Refusals, Running
  <2> QED
    BY <2>2, <2>3
<1> QED
  BY <1>4, <1>5 DEF CheckRecord, Refuse, Refusals

\* A walk that has not started satisfies what is said of walks.
LEMMA WalkStarts ==
    ASSUME NEW D, NEW F, Graph(D, F), NotStarted', index' = 1
    PROVE  WalkInv(D, F)'
<1>1. WalkType(D)'
  BY EmptySeq DEF NotStarted, WalkType
<1>2. DOMAIN stack' = {}
  BY EmptySeq, LenProperties DEF NotStarted
<1>3. VisitingIsStack'
  BY <1>2 DEF VisitingIsStack, NotStarted, WalksAreDistinct
<1>4. StackIsChain(F)' /\ PassedFields(F)'
  BY <1>2 DEF StackIsChain, PassedFields
<1>5. DoneIsRanked(D, F)'
  BY DEF DoneIsRanked, NotStarted
<1>6. PassedRecords(D)'
  BY RecordGraphAssumption, LenProperties DEF PassedRecords
<1>7. Graph(D, F)'
  BY DEF Graph, Element
<1> QED
  BY <1>1, <1>3, <1>4, <1>5, <1>6, <1>7 DEF WalkInv

\* The second loop: one more record resolves, and after the last the walk starts.
LEMMA ResolveRecordKeeps ==
    ASSUME NEW D, NEW F, Inv(D, F), ResolveRecord
    PROVE  Inv(D, F)'
<1>1. TableIs(D, F)'
  BY TableStays DEF Inv, ResolveRecord, Advance, Refuse
<1>2. /\ phase = "resolve" /\ NotStarted /\ Checked(Len(table)) /\ Resolved(index - 1)
      /\ table \in AllTables
      /\ UNCHANGED <<table, state, stack, clock, finish>>
  BY DEF Inv, TableIs, ResolveRecord, Advance, Refuse
<1>3. Len(table) \in Nat /\ index \in Nat \ {0}
  BY <1>2, LenProperties DEF AllTables, NotStarted
<1>4. CASE phase' \in Refusals \ {"cycle"}
  BY <1>1, <1>2, <1>4 DEF Inv, NotStarted, Refusals, Running
<1>5. CASE Advance("walk")
  <2>1. Resolved(index) \/ table = <<>>
    <3>1. CASE table = <<>>
      BY <3>1
    <3>2. CASE table # <<>>
      <4>1. Resolves(table[index].fields)
        BY <1>2, <1>5, <3>2 DEF ResolveRecord, Advance, Refuse
      <4>2. \A k \in 1 .. index : k \in 1 .. index - 1 \/ k = index
        BY <1>3
      <4> QED
        BY <1>2, <4>1, <4>2 DEF Resolved
    <3> QED
      BY <3>1, <3>2
  <2>2. Checked(Len(table))'
    BY <1>2 DEF Checked, ParsesFieldType
  <2>3. CASE index < Len(table)
    <3>1. table # <<>>
      BY <1>3, <2>3, EmptySeq
    <3>2. index' = index + 1 /\ phase' = "resolve"
      BY <1>2, <1>5, <2>3 DEF Advance
    <3>3. Resolved(index' - 1)
      BY <1>3, <2>1, <3>1, <3>2
    <3>4. Resolved(index - 1)'
      BY <1>2, <3>3 DEF Resolved, Resolves, IsRecord, Declared, DeclaredUpTo
    <3>5. NotStarted'
      BY <1>2, <3>2 DEF NotStarted
    <3> QED
      BY <1>1, <2>2, <3>2, <3>4, <3>5 DEF Inv, Refusals, Running
  <2>4. CASE ~(index < Len(table))
    <3>1. index' = 1 /\ phase' = "walk"
      BY <1>5, <2>4 DEF Advance
    <3>2. Resolved(Len(table))
      <4>1. CASE table = <<>>
        BY <4>1, EmptySeq DEF Resolved
      <4>2. CASE table # <<>>
        <5>1. index = Len(table)
          BY <1>2, <1>3, <1>5, <2>4, <4>2 DEF ResolveRecord
        <5> QED
          BY <2>1, <4>2, <5>1
      <4> QED
        BY <4>1, <4>2
    <3>3. Graph(D, F)
      BY <1>2, <3>2, ResolvedIsGraph DEF Inv
    <3>4. NotStarted'
      BY <1>2, <3>1 DEF NotStarted
    <3>5. WalkInv(D, F)'
      BY <3>1, <3>3, <3>4, WalkStarts
    <3> QED
      BY <1>1, <3>1, <3>5 DEF Inv, Refusals, Running
  <2> QED
    BY <2>3, <2>4
<1> QED
  BY <1>4, <1>5 DEF ResolveRecord, Refuse, Refusals

-----------------------------------------------------------------------------
(* The walk.                                                               *)

\* What is said of walks stays so when only the phase changes.
LEMMA WalkStays ==
    ASSUME NEW D, NEW F, WalkInv(D, F), UNCHANGED <<index, state, stack, clock, finish>>
    PROVE  WalkInv(D, F)'
<1>1. Graph(D, F)' /\ WalkType(D)'
  BY DEF WalkInv, Graph, WalkType, Element
<1>2. VisitingIsStack' /\ StackIsChain(F)'
  BY DEF WalkInv, VisitingIsStack, WalksAreDistinct, StackIsChain, Named, Element
<1>3. DoneIsRanked(D, F)'
  BY DEF WalkInv, DoneIsRanked, Named, Element
<1>4. PassedFields(F)'
  BY DEF WalkInv, PassedFields, Element
<1>5. PassedRecords(D)'
  BY DEF WalkInv, PassedRecords
<1> QED
  BY <1>1, <1>2, <1>3, <1>4, <1>5 DEF WalkInv

\* The fields of the record on top, as the walk reads them.
LEMMA WalkedField ==
    ASSUME NEW D, NEW F, TableIs(D, F), WalkInv(D, F), stack # <<>>
    PROVE  /\ FieldsOf(Top.name) = F[Top.name]
           /\ Top.name \in D
           /\ DOMAIN F[Top.name] = 1 .. Len(F[Top.name])
           /\ Len(F[Top.name]) \in Nat
<1>1. Top.name \in D
  BY StackTop DEF WalkInv, WalkType
<1>2. F[Top.name] \in AllFields
  BY <1>1 DEF WalkInv, Graph
<1> QED
  BY <1>1, <1>2, LenProperties DEF TableIs, AllFields

\* Every field list is a sequence, so its indices are numbers.
LEMMA FieldIndices ==
    ASSUME NEW D, NEW F, Graph(D, F), NEW n \in D
    PROVE  /\ DOMAIN F[n] = 1 .. Len(F[n])
           /\ Len(F[n]) \in Nat
BY LenProperties DEF Graph, AllFields

\* The walk on top moves on from a field that needs no walk of its own.
LEMMA FieldPassedKeeps ==
    ASSUME NEW D, NEW F, WalkInv(D, F), stack # <<>>,
           Top.next \in DOMAIN F[Top.name],
           \/ Element(F, Top.name, Top.next) \in Scalars
           \/ state[Element(F, Top.name, Top.next)] = "done",
           stack' = Moved, UNCHANGED <<index, state, clock, finish>>
    PROVE  WalkInv(D, F)'
<1>1. /\ Len(stack) \in Nat \ {0} /\ DOMAIN stack = 1 .. Len(stack)
      /\ Len(stack) \in DOMAIN stack /\ 1 \in DOMAIN stack
      /\ Top = stack[Len(stack)] /\ Top.next \in Nat \ {0}
  BY StackTop DEF WalkInv, WalkType
<1>2. /\ stack' \in Seq(Frames(D))
      /\ DOMAIN stack' = DOMAIN stack
      /\ Len(stack') = Len(stack)
      /\ \A i \in DOMAIN stack :
            /\ stack'[i].name = stack[i].name
            /\ stack'[i].next = IF i = Len(stack) THEN stack[i].next + 1 ELSE stack[i].next
  BY MovedStack DEF WalkInv, WalkType
<1>3. Graph(D, F)'
  BY DEF WalkInv, Graph, Element
<1>4. WalkType(D)'
  BY <1>2 DEF WalkInv, WalkType
<1>5. VisitingIsStack'
  BY <1>2 DEF WalkInv, VisitingIsStack, WalksAreDistinct
<1>6. StackIsChain(F)'
  BY <1>2 DEF WalkInv, StackIsChain, Named
<1>7. DoneIsRanked(D, F)'
  BY DEF WalkInv, DoneIsRanked, Named
<1>8. PassedFields(F)'
  <2> SUFFICES ASSUME NEW i \in DOMAIN stack', NEW j \in DOMAIN F[stack'[i].name],
                      j < stack'[i].next
               PROVE  \/ Element(F, stack'[i].name, j) \in Scalars
                      \/ state'[Element(F, stack'[i].name, j)] = "done"
                      \/ i + 1 \in DOMAIN stack' /\ stack'[i + 1].name = Element(F, stack'[i].name, j)
    BY DEF PassedFields, Element
  <2> DEFINE m == stack[i].name
  <2>1. /\ i \in DOMAIN stack /\ stack'[i].name = m /\ j \in DOMAIN F[m]
        /\ i + 1 \in DOMAIN stack => stack'[i + 1].name = stack[i + 1].name
    BY <1>2
  <2> SUFFICES \/ Element(F, m, j) \in Scalars
               \/ state[Element(F, m, j)] = "done"
               \/ i + 1 \in DOMAIN stack /\ stack[i + 1].name = Element(F, m, j)
    <3> HIDE DEF m
    <3> QED
      BY <1>2, <2>1
  <2>2. CASE j < stack[i].next
    BY <2>1, <2>2 DEF WalkInv, PassedFields
  <2>3. CASE ~(j < stack[i].next)
    <3>1. i = Len(stack) /\ stack'[i].next = stack[i].next + 1
      BY <1>2, <2>1, <2>3
    <3>2. j \in Nat
      <4>1. stack[i].name \in D
        BY <2>1, StackTop DEF WalkInv, WalkType
      <4>2. Graph(D, F)
        BY DEF WalkInv
      <4>3. DOMAIN F[stack[i].name] = 1 .. Len(F[stack[i].name]) /\ Len(F[stack[i].name]) \in Nat
        BY <4>1, <4>2, FieldIndices
      <4> QED
        BY <2>1, <4>3
    <3>3. j = Top.next
      BY <1>1, <2>3, <3>1, <3>2
    <3> QED
      BY <1>1, <3>1, <3>3
  <2> QED
    BY <2>2, <2>3
<1>9. PassedRecords(D)'
  <2>1. stack' # <<>> /\ stack'[1].name = stack[1].name
    BY <1>1, <1>2, EmptySeq
  <2> QED
    BY <2>1 DEF WalkInv, PassedRecords
<1> QED
  BY <1>3, <1>4, <1>5, <1>6, <1>7, <1>8, <1>9 DEF WalkInv

\* The walk on top moves on from a field whose record is walked first.
LEMMA FieldEnteredKeeps ==
    ASSUME NEW D, NEW F, WalkInv(D, F), stack # <<>>,
           Top.next \in DOMAIN F[Top.name],
           NEW n \in D, n = Element(F, Top.name, Top.next), n \notin Scalars,
           state[n] = "unseen",
           state' = [state EXCEPT ![n] = "visiting"],
           stack' = Append(Moved, [name |-> n, next |-> 1]),
           UNCHANGED <<index, clock, finish>>
    PROVE  WalkInv(D, F)'
<1> DEFINE L == Len(stack)
<1>1. /\ L \in Nat \ {0} /\ DOMAIN stack = 1 .. L
      /\ L \in DOMAIN stack /\ 1 \in DOMAIN stack
      /\ Top = stack[L] /\ Top.next \in Nat \ {0}
  BY StackTop DEF WalkInv, WalkType
<1>2. /\ Moved \in Seq(Frames(D)) /\ Len(Moved) = L /\ DOMAIN Moved = DOMAIN stack
      /\ \A i \in DOMAIN stack :
            /\ Moved[i].name = stack[i].name
            /\ Moved[i].next = IF i = L THEN stack[i].next + 1 ELSE stack[i].next
  BY MovedStack DEF WalkInv, WalkType
<1>3. /\ stack' \in Seq(Frames(D))
      /\ stack' # <<>>
      /\ DOMAIN stack' = 1 .. L + 1
      /\ \A i \in DOMAIN stack : stack'[i] = Moved[i]
      /\ stack'[L + 1].name = n
      /\ stack'[L + 1].next = 1
  BY <1>2, PushedStack
<1>4. /\ \A i \in DOMAIN stack : stack'[i].name = stack[i].name
      /\ \A i \in DOMAIN stack' : i \in DOMAIN stack \/ i = L + 1
      /\ L + 1 \in DOMAIN stack' /\ L + 1 \notin DOMAIN stack
      /\ DOMAIN stack \subseteq DOMAIN stack'
  <2>1. \A i \in 1 .. L + 1 : i \in 1 .. L \/ i = L + 1
    BY <1>1
  <2>2. L + 1 \in 1 .. L + 1 /\ L + 1 \notin 1 .. L /\ 1 .. L \subseteq 1 .. L + 1
    BY <1>1
  <2>3. \A i \in DOMAIN stack : stack'[i].name = stack[i].name
    BY <1>2, <1>3
  <2> HIDE DEF L
  <2> QED
    BY <1>1, <1>3, <2>1, <2>2, <2>3
<1>5. /\ n \in ValidNames
      /\ state \in [ValidNames -> {"unseen", "visiting", "done"}]
      /\ state'[n] = "visiting"
      /\ \A m \in ValidNames : m # n => state'[m] = state[m]
  BY DEF WalkInv, WalkType, Graph
<1>6. \A i \in DOMAIN stack : stack[i].name \in D /\ stack[i].name \in ValidNames /\ stack[i].name # n
  <2>1. \A i \in DOMAIN stack : stack[i].name \in D
    BY StackTop DEF WalkInv, WalkType
  <2> QED
    BY <2>1 DEF WalkInv, VisitingIsStack, Graph
<1> HIDE DEF L
<1>7. Graph(D, F)'
  BY DEF WalkInv, Graph, Element
<1>8. WalkType(D)'
  BY <1>3, <1>5 DEF WalkInv, WalkType
<1>9. VisitingIsStack'
  <2>1. \A i \in DOMAIN stack' : state'[stack'[i].name] = "visiting"
    BY <1>3, <1>4, <1>5, <1>6 DEF WalkInv, VisitingIsStack
  <2>2. \A m \in ValidNames : state'[m] = "visiting" => \E i \in DOMAIN stack' : stack'[i].name = m
    BY <1>3, <1>4, <1>5, <1>6 DEF WalkInv, VisitingIsStack
  <2>3. ASSUME NEW i \in DOMAIN stack', NEW j \in DOMAIN stack', stack'[i].name = stack'[j].name
        PROVE  i = j
    <3>1. CASE i \in DOMAIN stack /\ j \in DOMAIN stack
      <4>1. stack[i].name = stack[j].name
        BY <1>4, <2>3, <3>1
      <4> QED
        BY <3>1, <4>1 DEF WalkInv, VisitingIsStack, WalksAreDistinct
    <3>2. CASE i = L + 1 /\ j = L + 1
      BY <3>2
    <3>3. \A k \in DOMAIN stack : stack'[k].name # stack'[L + 1].name
      BY <1>3, <1>4, <1>6
    <3> QED
      BY <1>4, <2>3, <3>1, <3>2, <3>3
  <2> QED
    BY <2>1, <2>2, <2>3 DEF VisitingIsStack, WalksAreDistinct
<1>10. StackIsChain(F)'
  <2> SUFFICES ASSUME NEW i \in DOMAIN stack', i + 1 \in DOMAIN stack'
               PROVE  stack'[i + 1].name \in Named(F, stack'[i].name)
    BY DEF StackIsChain, Named, Element
  <2>1. CASE i + 1 \in DOMAIN stack
    <3>1. i \in DOMAIN stack
      BY <1>1, <1>3, <2>1
    <3> QED
      BY <1>4, <2>1, <3>1 DEF WalkInv, StackIsChain
  <2>2. CASE i + 1 = L + 1
    <3>1. i = L /\ i \in DOMAIN stack
      BY <1>1, <1>3, <2>2
    <3>2. n \in Named(F, Top.name)
      BY DEF Named
    <3> QED
      BY <1>1, <1>3, <1>4, <2>2, <3>1, <3>2
  <2> QED
    BY <1>4, <2>1, <2>2
<1>11. DoneIsRanked(D, F)'
  <2> SUFFICES ASSUME NEW m \in ValidNames, state'[m] = "done"
               PROVE  /\ m \in D
                      /\ finish[m] <= clock
                      /\ \A t \in Named(F, m) : state'[t] = "done" /\ finish[t] < finish[m]
    BY DEF DoneIsRanked, Named, Element
  <2>1. state[m] = "done"
    BY <1>5
  <2>2. /\ m \in D /\ finish[m] <= clock
        /\ \A t \in Named(F, m) : state[t] = "done" /\ finish[t] < finish[m]
    BY <2>1 DEF WalkInv, DoneIsRanked
  <2>3. \A t \in Named(F, m) : t \in ValidNames
    BY <2>2 DEF WalkInv, Graph, Named
  <2> QED
    BY <1>5, <2>2, <2>3
<1>12. PassedFields(F)'
  <2> SUFFICES ASSUME NEW i \in DOMAIN stack', NEW j \in DOMAIN F[stack'[i].name],
                      j < stack'[i].next
               PROVE  \/ Element(F, stack'[i].name, j) \in Scalars
                      \/ state'[Element(F, stack'[i].name, j)] = "done"
                      \/ i + 1 \in DOMAIN stack' /\ stack'[i + 1].name = Element(F, stack'[i].name, j)
    BY DEF PassedFields, Element
  <2>1. stack'[i].name \in D
    BY <1>3, <1>4, <1>6
  <2>2. j \in Nat \ {0} /\ Element(F, stack'[i].name, j) \in Scalars \cup D
    BY <2>1, FieldIndices DEF WalkInv, Graph
  <2>3. CASE i = L + 1
    BY <1>3, <2>2, <2>3
  <2>4. CASE i \in DOMAIN stack /\ j < stack[i].next
    <3>1. \/ Element(F, stack[i].name, j) \in Scalars
          \/ state[Element(F, stack[i].name, j)] = "done"
          \/ i + 1 \in DOMAIN stack /\ stack[i + 1].name = Element(F, stack[i].name, j)
      BY <1>4, <2>4 DEF WalkInv, PassedFields
    <3>2. Element(F, stack[i].name, j) \in Scalars \cup ValidNames
      BY <1>4, <2>2, <2>4 DEF WalkInv, Graph
    <3> QED
      BY <1>4, <1>5, <2>4, <3>1, <3>2
  <2>5. CASE i \in DOMAIN stack /\ ~(j < stack[i].next)
    <3>1. i = L /\ stack'[i].next = stack[i].next + 1
      BY <1>2, <1>3, <2>5
    <3>2. j = Top.next
      BY <1>1, <2>2, <2>5, <3>1
    <3> QED
      BY <1>1, <1>3, <1>4, <3>1, <3>2
  <2> QED
    BY <1>4, <2>3, <2>4, <2>5
<1>13. PassedRecords(D)'
  <2>1. stack'[1].name = stack[1].name
    BY <1>1, <1>4
  <2>2. \A i \in DOMAIN Order : Order[i] \in ValidNames
    BY RecordGraphAssumption, ElementOfSeq, LenProperties
  <2> QED
    BY <1>3, <1>5, <2>1, <2>2 DEF WalkInv, PassedRecords
<1> QED
  BY <1>7, <1>8, <1>9, <1>10, <1>11, <1>12, <1>13 DEF WalkInv

\* A walk that has passed every field marks its record done: all it names are
\* done already, so it ranks above them.
LEMMA WalkReturnsKeeps ==
    ASSUME NEW D, NEW F, TableIs(D, F), WalkInv(D, F), WalkReturns
    PROVE  WalkInv(D, F)'
<1> DEFINE L == Len(stack)
           n == Top.name
<1>1. /\ L \in Nat \ {0} /\ DOMAIN stack = 1 .. L /\ L \in DOMAIN stack /\ Top = stack[L]
      /\ Top.next \in Nat \ {0}
      /\ \A i \in DOMAIN stack : stack[i].name \in D /\ stack[i].next \in Nat \ {0}
  BY StackTop DEF WalkInv, WalkType, WalkReturns
<1>2. n \in D /\ n \in ValidNames /\ n = stack[L].name /\ state[n] = "visiting"
  BY <1>1 DEF WalkInv, VisitingIsStack, Graph
<1>3. /\ stack' \in Seq(Frames(D))
      /\ DOMAIN stack' = 1 .. L - 1
      /\ \A i \in DOMAIN stack' : stack'[i] = stack[i]
      /\ stack' # <<>> => L > 1
  BY StackBelow DEF WalkInv, WalkType, WalkReturns
<1>4. \A i \in DOMAIN stack' : i \in DOMAIN stack /\ i # L /\ stack[i].name # n
  <2>1. \A i \in DOMAIN stack' : i \in DOMAIN stack /\ i # L
    BY <1>1, <1>3
  <2> QED
    BY <1>1, <1>2, <2>1 DEF WalkInv, VisitingIsStack, WalksAreDistinct
<1>5. /\ state' \in [ValidNames -> {"unseen", "visiting", "done"}]
      /\ state'[n] = "done"
      /\ \A m \in ValidNames : m # n => state'[m] = state[m]
  BY <1>2 DEF WalkInv, WalkType, WalkReturns, DoneMark
<1>6. /\ clock \in Nat /\ clock' = clock + 1
      /\ finish \in [ValidNames -> Nat]
      /\ finish' \in [ValidNames -> Nat]
      /\ finish'[n] = clock + 1
      /\ \A m \in ValidNames : m # n => finish'[m] = finish[m]
  BY <1>2 DEF WalkInv, WalkType, WalkReturns
\* Every field of the record has been passed.
<1>7. \A t \in Named(F, n) : t \in ValidNames /\ state[t] = "done"
  <2> SUFFICES ASSUME NEW j \in DOMAIN F[n], Element(F, n, j) \notin Scalars
               PROVE  Element(F, n, j) \in ValidNames /\ state[Element(F, n, j)] = "done"
    BY DEF Named
  <2>1. /\ FieldsOf(n) = F[n] /\ DOMAIN F[n] = 1 .. Len(F[n]) /\ Len(F[n]) \in Nat
    BY WalkedField DEF WalkReturns
  <2>2. Top.next > Len(F[n])
    BY <2>1 DEF WalkReturns
  <2>3. j < stack[L].next
    <3>1. j \in Nat /\ j <= Len(F[n])
      BY <2>1
    <3> QED
      BY <1>1, <2>1, <2>2, <3>1
  <2>4. L + 1 \notin DOMAIN stack
    BY <1>1
  <2>5. state[Element(F, n, j)] = "done"
    BY <1>1, <1>2, <2>3, <2>4 DEF WalkInv, PassedFields
  <2> QED
    BY <1>2, <2>5 DEF WalkInv, Graph
<1> HIDE DEF L, n
<1>8. Graph(D, F)' /\ WalkType(D)'
  BY <1>3, <1>5, <1>6 DEF WalkInv, Graph, Element, WalkType, WalkReturns
<1>9. VisitingIsStack'
  <2>1. \A i \in DOMAIN stack' : state'[stack'[i].name] = "visiting"
    BY <1>1, <1>3, <1>4, <1>5 DEF WalkInv, VisitingIsStack, Graph
  <2>2. ASSUME NEW m \in ValidNames, state'[m] = "visiting"
        PROVE  \E i \in DOMAIN stack' : stack'[i].name = m
    <3>1. m # n /\ state[m] = "visiting"
      BY <1>5, <2>2
    <3>2. PICK i \in DOMAIN stack : stack[i].name = m
      BY <3>1 DEF WalkInv, VisitingIsStack
    <3>3. i \in DOMAIN stack'
      BY <1>1, <1>2, <1>3, <3>1, <3>2
    <3> QED
      BY <1>3, <3>2, <3>3
  <2>3. \A i, j \in DOMAIN stack' : stack'[i].name = stack'[j].name => i = j
    BY <1>3, <1>4 DEF WalkInv, VisitingIsStack, WalksAreDistinct
  <2> QED
    BY <2>1, <2>2, <2>3 DEF VisitingIsStack, WalksAreDistinct
<1>10. StackIsChain(F)'
  <2> SUFFICES ASSUME NEW i \in DOMAIN stack', i + 1 \in DOMAIN stack'
               PROVE  stack'[i + 1].name \in Named(F, stack'[i].name)
    BY DEF StackIsChain, Named, Element
  <2>1. /\ i \in DOMAIN stack /\ i + 1 \in DOMAIN stack
        /\ stack'[i] = stack[i] /\ stack'[i + 1] = stack[i + 1]
    BY <1>3, <1>4
  <2>2. stack[i + 1].name \in Named(F, stack[i].name)
    BY <2>1 DEF WalkInv, StackIsChain
  <2> QED
    BY <2>1, <2>2
<1>11. DoneIsRanked(D, F)'
  <2> SUFFICES ASSUME NEW m \in ValidNames, state'[m] = "done"
               PROVE  /\ m \in D
                      /\ finish'[m] <= clock'
                      /\ \A t \in Named(F, m) : state'[t] = "done" /\ finish'[t] < finish'[m]
    BY DEF DoneIsRanked, Named, Element
  <2>1. \A t \in ValidNames : state[t] = "done" =>
            state'[t] = "done" /\ finish'[t] = finish[t] /\ finish[t] <= clock
    BY <1>2, <1>5, <1>6 DEF WalkInv, DoneIsRanked
  <2>2. CASE m = n
    <3>1. \A t \in Named(F, n) : state'[t] = "done" /\ finish'[t] <= clock /\ finish'[t] \in Nat
      BY <1>6, <1>7, <2>1
    <3> QED
      BY <1>2, <1>6, <2>2, <3>1
  <2>3. CASE m # n
    <3>1. state[m] = "done"
      BY <1>5, <2>3
    <3>2. /\ m \in D
          /\ \A t \in Named(F, m) : state[t] = "done" /\ finish[t] < finish[m]
      BY <3>1 DEF WalkInv, DoneIsRanked
    <3>3. \A t \in Named(F, m) : t \in ValidNames
      BY <3>2 DEF WalkInv, Graph, Named
    <3>4. finish'[m] <= clock'
      BY <1>6, <2>1, <3>1
    <3> QED
      BY <2>1, <3>1, <3>2, <3>3, <3>4
  <2> QED
    BY <2>2, <2>3
<1>12. PassedFields(F)'
  <2> SUFFICES ASSUME NEW i \in DOMAIN stack', NEW j \in DOMAIN F[stack[i].name],
                      j < stack[i].next
               PROVE  \/ Element(F, stack[i].name, j) \in Scalars
                      \/ state'[Element(F, stack[i].name, j)] = "done"
                      \/ i + 1 \in DOMAIN stack' /\ stack'[i + 1].name = Element(F, stack[i].name, j)
    BY <1>3 DEF PassedFields, Element
  <2> DEFINE e == Element(F, stack[i].name, j)
  <2>1. e \in Scalars \cup ValidNames
    BY <1>1, <1>4 DEF WalkInv, Graph
  <2>2. e \in Scalars \/ state[e] = "done" \/ (i + 1 \in DOMAIN stack /\ stack[i + 1].name = e)
    BY <1>4 DEF WalkInv, PassedFields
  <2> HIDE DEF e
  <2>3. CASE i + 1 \in DOMAIN stack /\ stack[i + 1].name = e
    <3>1. i + 1 \in DOMAIN stack' \/ i + 1 = L
      BY <1>1, <1>3, <2>3
    <3> QED
      BY <1>2, <1>3, <1>5, <2>3, <3>1 DEF e
  <2>4. CASE e \in Scalars
    BY <2>4 DEF e
  <2>5. CASE e \notin Scalars /\ state[e] = "done"
    BY <1>5, <2>1, <2>5 DEF e
  <2> QED
    BY <2>2, <2>3, <2>4, <2>5
<1>13. PassedRecords(D)'
  <2> SUFFICES ASSUME NEW i \in DOMAIN Order, i < index, Order[i] \in D
               PROVE  \/ state'[Order[i]] = "done"
                      \/ stack' # <<>> /\ stack'[1].name = Order[i]
    BY DEF PassedRecords, WalkReturns
  <2>1. Order[i] \in ValidNames
    BY DEF WalkInv, Graph
  <2>2. state[Order[i]] = "done" \/ stack[1].name = Order[i]
    BY DEF WalkInv, PassedRecords
  <2>3. CASE state[Order[i]] = "done"
    BY <1>5, <2>1, <2>3
  <2>4. CASE stack[1].name = Order[i] /\ L = 1
    BY <1>2, <1>5, <2>4
  <2>5. CASE stack[1].name = Order[i] /\ L # 1
    <3>1. 1 \in DOMAIN stack'
      BY <1>1, <1>3, <2>5
    <3>2. stack' # <<>>
      BY <3>1, EmptySeq, LenProperties
    <3> QED
      BY <1>3, <2>5, <3>1, <3>2
  <2> QED
    BY <2>2, <2>3, <2>4, <2>5
<1> QED
  BY <1>8, <1>9, <1>10, <1>11, <1>12, <1>13 DEF WalkInv

\* The outer loop finds no record under way: it either starts a walk, or
\* passes over a record that is done or that the table does not declare.
LEMMA WalkNextKeeps ==
    ASSUME NEW D, NEW F, TableIs(D, F), WalkInv(D, F), WalkNext
    PROVE  WalkInv(D, F)' /\ UNCHANGED phase
<1>1. /\ stack = <<>> /\ DOMAIN stack = {} /\ index \in Nat \ {0}
      /\ index' = index + 1 /\ UNCHANGED <<table, clock, finish>> /\ D = Declared
      /\ state \in [ValidNames -> {"unseen", "visiting", "done"}]
      /\ \A m \in ValidNames : state[m] # "visiting"
  BY EmptySeq, LenProperties DEF WalkNext, WalkInv, WalkType, VisitingIsStack, TableIs
<1>2. /\ index \in DOMAIN Order /\ Order[index] \in ValidNames
      /\ \A i \in DOMAIN Order : i \in Nat /\ (i < index + 1 => i < index \/ i = index)
  <2>1. DOMAIN Order = 1 .. Len(Order) /\ Len(Order) \in Nat
    BY RecordGraphAssumption, LenProperties
  <2>2. index \in DOMAIN Order
    BY <1>1, <2>1 DEF WalkNext
  <2> QED
    BY <1>1, <2>1, <2>2, RecordGraphAssumption, ElementOfSeq
<1>3. Graph(D, F)'
  BY DEF WalkInv, Graph, Element
<1>4. CASE UNCHANGED <<phase, state, stack>> /\ (Order[index] \in D => state[Order[index]] = "done")
  <2>1. WalkType(D)' /\ VisitingIsStack' /\ StackIsChain(F)' /\ DoneIsRanked(D, F)' /\ PassedFields(F)'
    BY <1>1, <1>4
    DEF WalkInv, WalkType, VisitingIsStack, WalksAreDistinct, StackIsChain, DoneIsRanked,
        PassedFields, Named, Element
  <2>2. PassedRecords(D)'
    BY <1>1, <1>2, <1>4 DEF WalkInv, PassedRecords
  <2> QED
    BY <1>3, <1>4, <2>1, <2>2 DEF WalkInv
<1>5. CASE /\ Order[index] \in D /\ state[Order[index]] = "unseen"
           /\ state' = [state EXCEPT ![Order[index]] = "visiting"]
           /\ stack' = Append(<<>>, [name |-> Order[index], next |-> 1])
           /\ UNCHANGED phase
  <2> DEFINE n == Order[index]
  <2>1. /\ stack' \in Seq(Frames(D)) /\ stack' # <<>>
        /\ DOMAIN stack' = {1}
        /\ stack'[1].name = n /\ stack'[1].next = 1
    <3> DEFINE frame == [name |-> n, next |-> 1]
    <3>1. frame \in Frames(D) /\ frame.name = n /\ frame.next = 1
      BY <1>5 DEF Frames
    <3>2. stack' = <<frame>>
      BY <1>5
    <3> HIDE DEF frame
    <3> QED
      BY <3>1, <3>2
  <2>2. /\ n \in D /\ n \in ValidNames /\ state[n] = "unseen"
        /\ state' \in [ValidNames -> {"unseen", "visiting", "done"}]
        /\ state'[n] = "visiting"
        /\ \A m \in ValidNames : m # n => state'[m] = state[m]
    BY <1>1, <1>2, <1>5
  <2> HIDE DEF n
  <2>3. WalkType(D)'
    BY <1>1, <2>1, <2>2 DEF WalkInv, WalkType
  <2>4. VisitingIsStack'
    BY <1>1, <2>1, <2>2 DEF VisitingIsStack, WalksAreDistinct
  <2>5. StackIsChain(F)'
    BY <2>1 DEF StackIsChain
  <2>6. DoneIsRanked(D, F)'
    <3> SUFFICES ASSUME NEW m \in ValidNames, state'[m] = "done"
                 PROVE  /\ m \in D
                        /\ finish[m] <= clock
                        /\ \A t \in Named(F, m) : state'[t] = "done" /\ finish[t] < finish[m]
      BY <1>1 DEF DoneIsRanked, Named, Element
    <3>1. state[m] = "done"
      BY <2>2
    <3>2. /\ m \in D /\ finish[m] <= clock
          /\ \A t \in Named(F, m) : state[t] = "done" /\ finish[t] < finish[m]
      BY <3>1 DEF WalkInv, DoneIsRanked
    <3>3. \A t \in Named(F, m) : t \in ValidNames
      BY <3>2 DEF WalkInv, Graph, Named
    <3> QED
      BY <2>2, <3>2, <3>3
  <2>7. PassedFields(F)'
    <3>1. \A j \in DOMAIN F[n] : ~(j < 1)
      <4>1. DOMAIN F[n] = 1 .. Len(F[n]) /\ Len(F[n]) \in Nat
        BY <2>2, FieldIndices DEF WalkInv
      <4> QED
        BY <4>1
    <3> QED
      BY <2>1, <3>1 DEF PassedFields
  <2>8. PassedRecords(D)'
    <3> SUFFICES ASSUME NEW i \in DOMAIN Order, i < index + 1, Order[i] \in D
                 PROVE  state'[Order[i]] = "done" \/ stack'[1].name = Order[i]
      BY <1>1, <2>1 DEF PassedRecords
    <3>1. CASE i = index
      BY <2>1, <3>1 DEF n
    <3>2. CASE i < index
      <4>1. state[Order[i]] = "done" /\ Order[i] \in ValidNames
        BY <1>1, <3>2 DEF WalkInv, PassedRecords, Graph
      <4> QED
        BY <2>2, <4>1
    <3> QED
      BY <1>2, <3>1, <3>2
  <2> QED
    BY <1>3, <1>5, <2>3, <2>4, <2>5, <2>6, <2>7, <2>8 DEF WalkInv
<1> QED
  BY <1>1, <1>2, <1>4, <1>5 DEF WalkNext, Enter

\* A field names a record that is done, one that is unseen, or one that is
\* being walked: then the walks from it to the top are the cycle.
LEMMA WalkFieldKeeps ==
    ASSUME NEW D, NEW F, TableIs(D, F), WalkInv(D, F), WalkField
    PROVE  WalkInv(D, F)' /\ (UNCHANGED phase \/ (phase' = "cycle" /\ ClosesCycle(F)'))
<1> DEFINE e == Element(F, Top.name, Top.next)
<1>1. /\ FieldsOf(Top.name) = F[Top.name] /\ Top.name \in D
      /\ DOMAIN F[Top.name] = 1 .. Len(F[Top.name]) /\ Len(F[Top.name]) \in Nat
  BY WalkedField DEF WalkField
<1>2. /\ stack # <<>> /\ Top.next \in DOMAIN F[Top.name]
      /\ UNCHANGED <<table, index, clock, finish>>
      /\ e = FieldsOf(Top.name)[Top.next].type.element
  <2>1. Top.next \in Nat \ {0} /\ Top.next <= Len(F[Top.name])
    BY <1>1, StackTop DEF WalkInv, WalkType, WalkField
  <2> QED
    BY <1>1, <2>1 DEF WalkField, Element
<1>3. e \in Scalars \cup D /\ D \subseteq ValidNames
  BY <1>1, <1>2 DEF WalkInv, Graph
<1>4. IsRecord(FieldsOf(Top.name)[Top.next].type) <=> e \in D \ Scalars
  BY <1>2, <1>3 DEF IsRecord
<1> HIDE DEF e
<1>5. CASE stack' = Moved /\ UNCHANGED <<phase, state>> /\ (e \in Scalars \/ state[e] = "done")
  BY <1>2, <1>5, FieldPassedKeeps DEF e
<1>6. CASE /\ e \in D \ Scalars /\ state[e] = "unseen"
           /\ state' = [state EXCEPT ![e] = "visiting"]
           /\ stack' = Append(Moved, [name |-> e, next |-> 1])
           /\ UNCHANGED phase
  BY <1>2, <1>6, FieldEnteredKeeps DEF e
<1>7. CASE /\ e \in D \ Scalars /\ state[e] = "visiting"
           /\ phase' = "cycle" /\ UNCHANGED <<state, stack>>
  <2>1. WalkInv(D, F)'
    BY <1>2, <1>7, WalkStays
  <2>2. PICK k \in DOMAIN stack : stack[k].name = e
    BY <1>3, <1>7 DEF WalkInv, VisitingIsStack
  <2>3. e \in Named(F, Top.name)
    BY <1>2, <1>7 DEF e, Named
  <2>4. ClosesCycle(F)'
    BY <1>2, <1>7, <2>2, <2>3 DEF ClosesCycle, Named, Element, Top
  <2> QED
    BY <1>7, <2>1, <2>4
<1> QED
  <2>1. CASE e \in D \ Scalars
    <3>1. \/ /\ state[e] = "unseen"
             /\ state' = [state EXCEPT ![e] = "visiting"]
             /\ stack' = Append(Moved, [name |-> e, next |-> 1])
             /\ UNCHANGED phase
          \/ state[e] = "done" /\ stack' = Moved /\ UNCHANGED <<state, phase>>
          \/ state[e] = "visiting" /\ phase' = "cycle" /\ UNCHANGED <<state, stack>>
      BY <1>2, <1>4, <2>1 DEF WalkField, Enter
    <3> QED
      BY <1>5, <1>6, <1>7, <2>1, <3>1
  <2>2. CASE e \notin D \ Scalars
    <3>1. stack' = Moved /\ UNCHANGED <<phase, state>>
      BY <1>2, <1>4, <2>2 DEF WalkField
    <3> QED
      BY <1>3, <1>5, <2>2, <3>1
  <2> QED
    BY <2>1, <2>2

-----------------------------------------------------------------------------
(* The invariant of the specification.                                     *)

\* The invariant depends on nothing but the variables.
LEMMA UnchangedKeeps ==
    ASSUME NEW D, NEW F, Inv(D, F), UNCHANGED vars
    PROVE  Inv(D, F)'
<1>1. TableIs(D, F)'
  BY TableStays DEF Inv, vars
<1>2. WalkInv(D, F) => WalkInv(D, F)'
  BY WalkStays DEF vars
<1>3. /\ Checked(index - 1) => Checked(index - 1)'
      /\ Checked(Len(table)) => Checked(Len(table))'
      /\ Resolved(index - 1) => Resolved(index - 1)'
      /\ NotStarted => NotStarted'
  BY DEF vars, Checked, ParsesFieldType, Resolved, Resolves, IsRecord, Declared, DeclaredUpTo,
         NotStarted
<1>4. ClosesCycle(F) => ClosesCycle(F)'
  BY DEF vars, ClosesCycle, Top, Named, Element
<1> QED
  BY <1>1, <1>2, <1>3, <1>4 DEF Inv, vars

\* Every step keeps the invariant.
LEMMA StepKeeps ==
    ASSUME NEW D, NEW F, Inv(D, F), [Next]_vars
    PROVE  Inv(D, F)'
<1>1. CASE CheckRecord
  BY <1>1, CheckRecordKeeps
<1>2. CASE ResolveRecord
  BY <1>2, ResolveRecordKeeps
<1>3. CASE WalkNext \/ WalkField \/ WalkReturns \/ WalkEnds
  <2>1. /\ phase = "walk" /\ WalkInv(D, F) /\ TableIs(D, F) /\ UNCHANGED table
        /\ stack # <<>> \/ ~WalkField
    BY <1>3 DEF Inv, WalkNext, WalkField, WalkReturns, WalkEnds
  <2>2. TableIs(D, F)'
    BY <2>1, TableStays
  <2>3. CASE WalkNext
    BY <2>1, <2>2, <2>3, WalkNextKeeps DEF Inv, Running, Refusals
  <2>4. CASE WalkField
    BY <2>1, <2>2, <2>4, WalkFieldKeeps DEF Inv, Running, Refusals
  <2>5. CASE WalkReturns
    <3>1. UNCHANGED phase
      BY <2>5 DEF WalkReturns
    <3> QED
      BY <2>1, <2>2, <2>5, <3>1, WalkReturnsKeeps DEF Inv, Running, Refusals
  <2>6. CASE WalkEnds
    <3>1. phase' = "accepted" /\ stack' = <<>> /\ (index > Len(Order))'
      BY <2>6 DEF WalkEnds
    <3> QED
      BY <2>1, <2>2, <2>6, <3>1, WalkStays DEF Inv, WalkEnds, Running, Refusals
  <2> QED
    BY <1>3, <2>3, <2>4, <2>5, <2>6
<1>4. CASE UNCHANGED vars
  BY <1>4, UnchangedKeeps
<1> QED
  BY <1>1, <1>2, <1>3, <1>4 DEF Next, Terminated

\* The invariant holds of every reachable state.
THEOREM RecordInvariant == Spec => []RecordInv
<1>1. RecordInv /\ [Next]_vars => RecordInv'
  <2> SUFFICES ASSUME RecordInv, [Next]_vars
               PROVE  RecordInv'
    OBVIOUS
  <2>1. PICK D, F : Inv(D, F)
    BY DEF RecordInv
  <2>2. Inv(D, F)'
    BY <2>1, StepKeeps
  <2> QED
    BY <2>2 DEF RecordInv
<1> QED
  BY InitEstablishes, <1>1, PTL DEF Spec

-----------------------------------------------------------------------------
(* What it says of the walk and its verdict.                               *)

\* The targets of a declared record are what the graph names.
LEMMA TargetsAreNamed ==
    ASSUME NEW D, NEW F, TableIs(D, F), NEW n \in D
    PROVE  Targets(n) = Named(F, n)
BY DEF TableIs, Targets, Named, Element

\* The invariant keeps the walks apart.
LEMMA DistinctWalks == RecordInv => WalksAreDistinct
<1> SUFFICES ASSUME NEW D, NEW F, Inv(D, F)
             PROVE  WalksAreDistinct
  BY DEF RecordInv
<1>1. CASE stack = <<>>
  BY <1>1, EmptySeq, LenProperties DEF WalksAreDistinct
<1>2. CASE phase \in {"walk", "cycle", "accepted"}
  BY <1>2 DEF Inv, WalkInv, VisitingIsStack
<1> QED
  BY <1>1, <1>2 DEF Inv, NotStarted, Running, Refusals

\* When the outer loop has passed the sorted names, every record is done.
LEMMA AcceptedRanks ==
    ASSUME NEW D, NEW F, Inv(D, F), phase = "accepted", NEW n \in D
    PROVE  \A t \in Named(F, n) : t \in D /\ finish[t] < finish[n]
<1>1. /\ WalkInv(D, F) /\ stack = <<>> /\ index > Len(Order)
      /\ n \in ValidNames /\ index \in Nat
  BY DEF Inv, WalkInv, Graph, WalkType
<1>2. PICK i \in DOMAIN Order : Order[i] = n
  BY <1>1, RecordGraphAssumption
<1>3. i < index
  <2>1. i \in 1 .. Len(Order) /\ Len(Order) \in Nat
    BY RecordGraphAssumption, LenProperties
  <2> QED
    BY <1>1, <2>1
<1>4. state[n] = "done"
  BY <1>1, <1>2, <1>3 DEF WalkInv, PassedRecords
<1>5. \A t \in Named(F, n) : t \in D
  BY <1>1 DEF WalkInv, Graph, Named
<1> QED
  BY <1>1, <1>4, <1>5 DEF WalkInv, DoneIsRanked

\* The same, said of the table.
LEMMA AcceptedRanked == RecordInv => AcceptedIsRanked
<1> SUFFICES ASSUME NEW D, NEW F, Inv(D, F), phase = "accepted", NEW n \in Declared
             PROVE  \A t \in Targets(n) : t \in Declared /\ finish[t] < finish[n]
  BY DEF RecordInv, AcceptedIsRanked
<1>1. TableIs(D, F) /\ D = Declared
  BY DEF Inv, TableIs
<1> QED
  BY <1>1, AcceptedRanks, TargetsAreNamed

\* The walks from the record that was met again up to the top are a cycle.
LEMMA CycleOnStack ==
    ASSUME NEW D, NEW F, Inv(D, F), phase = "cycle"
    PROVE  /\ \A i \in DOMAIN stack : stack[i].name \in D
           /\ Len(stack) \in DOMAIN stack /\ DOMAIN stack = 1 .. Len(stack) /\ Len(stack) \in Nat
           /\ \E k \in DOMAIN stack :
                 /\ stack[k].name \in Targets(Top.name)
                 /\ \A i \in k .. Len(stack) - 1 : stack[i + 1].name \in Targets(stack[i].name)
<1>1. WalkInv(D, F) /\ TableIs(D, F) /\ ClosesCycle(F) /\ stack # <<>>
  BY DEF Inv, ClosesCycle
<1>2. /\ Len(stack) \in Nat \ {0} /\ DOMAIN stack = 1 .. Len(stack) /\ Top.name \in D
      /\ Len(stack) \in DOMAIN stack
      /\ \A i \in DOMAIN stack : stack[i].name \in D
  BY <1>1, StackTop DEF WalkInv, WalkType
<1>3. PICK k \in DOMAIN stack : stack[k].name \in Named(F, Top.name)
  BY <1>1 DEF ClosesCycle
<1>4. stack[k].name \in Targets(Top.name)
  BY <1>1, <1>2, <1>3, TargetsAreNamed
<1>5. ASSUME NEW i \in k .. Len(stack) - 1
      PROVE  stack[i + 1].name \in Targets(stack[i].name)
  <2>1. i \in DOMAIN stack /\ i + 1 \in DOMAIN stack
    BY <1>2
  <2>2. stack[i + 1].name \in Named(F, stack[i].name)
    BY <1>1, <2>1 DEF WalkInv, StackIsChain
  <2> QED
    BY <1>1, <1>2, <2>1, <2>2, TargetsAreNamed
<1> QED
  BY <1>2, <1>4, <1>5

\* The invariant makes a reported cycle one.
LEMMA CycleReal == RecordInv => RefusedCycleIsReal
BY CycleOnStack DEF RecordInv, RefusedCycleIsReal

\* The invariant makes the verdict the definition's.
LEMMA VerdictRight == RecordInv => VerdictMatchesDefinition
<1> SUFFICES ASSUME NEW D, NEW F, Inv(D, F)
             PROVE  VerdictMatchesDefinition
  BY DEF RecordInv
<1>1. TableIs(D, F) /\ D = Declared
  BY DEF Inv, TableIs
\* The record of a set that was done first names no record of the set.
<1>2. ASSUME phase = "accepted", NEW S \in SUBSET Declared, S # {}
      PROVE  \E n \in S : Targets(n) \cap S = {}
  <2> DEFINE ranks == { finish[n] : n \in S }
  <2>1. \A n \in S : finish[n] \in Nat /\ n \in D
    BY <1>1, <1>2 DEF Inv, WalkInv, WalkType, Graph
  <2>2. ranks \subseteq Nat /\ ranks # {}
    BY <1>2, <2>1
  <2>3. PICK r \in ranks : \A q \in ranks : ~(<<q, r>> \in OpToRel(<, Nat))
    <3> HIDE DEF ranks
    <3> QED
      BY <2>2, NatLessThanWellFounded, WFMin
  <2>4. PICK n \in S : finish[n] = r
    BY <2>3
  <2>5. ASSUME NEW t \in Targets(n) \cap S
        PROVE  FALSE
    <3>1. finish[t] < finish[n] /\ finish[t] \in Nat /\ finish[n] \in Nat
      BY <1>1, <1>2, <2>1, <2>4, AcceptedRanks, TargetsAreNamed
    <3>2. ~(<<finish[t], r>> \in OpToRel(<, Nat))
      BY <2>3
    <3> QED
      BY <2>4, <3>1, <3>2 DEF OpToRel
  <2> QED
    BY <2>4, <2>5
<1>3. ASSUME phase = "cycle"
      PROVE  \E S \in SUBSET Declared : S # {} /\ \A n \in S : Targets(n) \cap S # {}
  <2>1. PICK k \in DOMAIN stack :
            /\ stack[k].name \in Targets(Top.name)
            /\ \A i \in k .. Len(stack) - 1 : stack[i + 1].name \in Targets(stack[i].name)
    BY <1>3, CycleOnStack
  <2>2. /\ \A i \in DOMAIN stack : stack[i].name \in D
        /\ DOMAIN stack = 1 .. Len(stack) /\ Len(stack) \in Nat
    BY <1>3, CycleOnStack
  <2> DEFINE S == { stack[i].name : i \in k .. Len(stack) }
  <2>3. S \in SUBSET Declared
    BY <1>1, <2>1, <2>2
  <2>4. stack[k].name \in S
    BY <2>1, <2>2
  <2>5. ASSUME NEW i \in k .. Len(stack)
        PROVE  Targets(stack[i].name) \cap S # {}
    <3>1. CASE i = Len(stack)
      BY <2>1, <2>4, <3>1 DEF Top
    <3>2. CASE i # Len(stack)
      <4>1. i \in k .. Len(stack) - 1 /\ i + 1 \in k .. Len(stack)
        <5>1. k \in Nat /\ Len(stack) \in Nat
          BY <2>2
        <5> QED
          BY <3>2, <5>1
      <4>2. stack[i + 1].name \in Targets(stack[i].name) /\ stack[i + 1].name \in S
        BY <2>1, <4>1
      <4> QED
        BY <4>2
    <3> QED
      BY <3>1, <3>2
  <2>6. \A n \in S : Targets(n) \cap S # {}
    BY <2>5
  <2> HIDE DEF S
  <2> QED
    BY <2>3, <2>4, <2>6
<1> QED
  BY <1>2, <1>3 DEF VerdictMatchesDefinition, Acyclic

\* No record is walked inside its own walk: the recursion of detectCycles is
\* never deeper than the table is long, whatever the table.
THEOREM WalksDistinct == Spec => []WalksAreDistinct
BY RecordInvariant, DistinctWalks, PTL

\* In an accepted table a record was done before the records that name it.
THEOREM AcceptedTablesRank == Spec => []AcceptedIsRanked
BY RecordInvariant, AcceptedRanked, PTL

\* A cycle is reported only when the walks under way are one.
THEOREM ReportedCyclesAreReal == Spec => []RefusedCycleIsReal
BY RecordInvariant, CycleReal, PTL

\* The walk accepts acyclic tables only, and reports a cycle only in others.
THEOREM VerdictIsDefinition == Spec => []VerdictMatchesDefinition
BY RecordInvariant, VerdictRight, PTL

-----------------------------------------------------------------------------
(* The paths of an archive.                                                *)

\* What an element of a path is to the elements before it.
Passing(e) == e \in {"", "."}
Up(e) == e = ".."
Down(e) == e \notin {"", ".", ".."}

Ups(elems, i, j) == { k \in i .. j : elems[k] = ".." }
Downs(elems, i, j) == { k \in i .. j : elems[k] \notin {"", ".", ".."} }

\* The elements that nothing up to the n-th takes back.
KeptTo(elems, n) ==
    { i \in 1 .. n :
        /\ Down(elems[i])
        /\ \A j \in i + 1 .. n : Rise(elems, i + 1, j) <= 0 }

\* A stack of elements, the places they are from, and what is above each.
Places(place, elems, n, out) ==
    /\ out \in Seq(STRING)
    /\ place \in [1 .. Len(out) -> 1 .. n]
    /\ \A j, k \in 1 .. Len(out) : j < k => place[j] < place[k]
    /\ { place[k] : k \in 1 .. Len(out) } = KeptTo(elems, n)
    /\ \A k \in 1 .. Len(out) :
          /\ out[k] = elems[place[k]]
          /\ Rise(elems, place[k] + 1, n) = k - Len(out)

\* A path that has stayed below where it started, and one that has not.
Stands(elems, n, out) ==
    /\ \E place : Places(place, elems, n, out)
    /\ Rise(elems, 1, n) = -Len(out)
    /\ \A j \in 1 .. n : Rise(elems, 1, j) <= 0

Left(out) == out \in Seq(STRING) /\ out # <<>> /\ Head(out) = ".."
-----------------------------------------------------------------------------
(* How far a path rises.                                                   *)

\* The elements of a path that rise and those that descend can be counted.
LEMMA RiseCounts ==
    ASSUME NEW elems, NEW i \in Int, NEW j \in Int
    PROVE  /\ IsFiniteSet(Ups(elems, i, j)) /\ IsFiniteSet(Downs(elems, i, j))
           /\ Cardinality(Ups(elems, i, j)) \in Nat /\ Cardinality(Downs(elems, i, j)) \in Nat
           /\ Rise(elems, i, j) = Cardinality(Ups(elems, i, j)) - Cardinality(Downs(elems, i, j))
           /\ Rise(elems, i, j) \in Int
<1>1. IsFiniteSet(i .. j)
  BY FS_Interval
<1>2. Ups(elems, i, j) \in SUBSET (i .. j) /\ Downs(elems, i, j) \in SUBSET (i .. j)
  BY DEF Ups, Downs
<1>3. IsFiniteSet(Ups(elems, i, j)) /\ IsFiniteSet(Downs(elems, i, j))
  BY <1>1, <1>2, FS_Subset
<1>4. Cardinality(Ups(elems, i, j)) \in Nat /\ Cardinality(Downs(elems, i, j)) \in Nat
  BY <1>3, FS_CardinalityType
<1>5. Rise(elems, i, j) = Cardinality(Ups(elems, i, j)) - Cardinality(Downs(elems, i, j))
  BY DEF Rise, Ups, Downs
<1> QED
  BY <1>3, <1>4, <1>5

\* Between no elements nothing rises.
LEMMA RiseNone ==
    ASSUME NEW elems, NEW i \in Int, NEW j \in Int, j < i
    PROVE  Rise(elems, i, j) = 0
<1>1. Ups(elems, i, j) = {} /\ Downs(elems, i, j) = {}
  <2>1. i .. j = {}
    OBVIOUS
  <2> QED
    BY <2>1, Zenon DEF Ups, Downs
<1>2. Cardinality({}) = 0
  BY FS_EmptySet
<1> QED
  BY <1>1, <1>2, RiseCounts

\* One more element rises by one, descends by one, or does nothing.
LEMMA RiseNext ==
    ASSUME NEW elems, NEW i \in Int, NEW j \in Int, i <= j + 1
    PROVE  /\ Passing(elems[j + 1]) => Rise(elems, i, j + 1) = Rise(elems, i, j)
           /\ Up(elems[j + 1]) => Rise(elems, i, j + 1) = Rise(elems, i, j) + 1
           /\ Down(elems[j + 1]) => Rise(elems, i, j + 1) = Rise(elems, i, j) - 1
<1> DEFINE U == Ups(elems, i, j)
           D == Downs(elems, i, j)
           V == Ups(elems, i, j + 1)
           E == Downs(elems, i, j + 1)
<1>1. i .. j + 1 = (i .. j) \cup {j + 1} /\ j + 1 \notin i .. j
  OBVIOUS
<1>2. j + 1 \notin U /\ j + 1 \notin D
  BY <1>1 DEF Ups, Downs
<1>3. /\ IsFiniteSet(U) /\ IsFiniteSet(D) /\ Cardinality(U) \in Nat /\ Cardinality(D) \in Nat
      /\ Rise(elems, i, j) = Cardinality(U) - Cardinality(D)
      /\ Rise(elems, i, j + 1) = Cardinality(V) - Cardinality(E)
  BY RiseCounts
<1>4. /\ Cardinality(U \cup {j + 1}) = Cardinality(U) + 1
      /\ Cardinality(D \cup {j + 1}) = Cardinality(D) + 1
  <2> HIDE DEF U, D
  <2> QED
    BY <1>2, <1>3, FS_AddElement
<1>5. ASSUME Passing(elems[j + 1]) PROVE V = U /\ E = D
  BY <1>1, <1>5 DEF Ups, Downs, Passing
<1>6. ASSUME Up(elems[j + 1]) PROVE V = U \cup {j + 1} /\ E = D
  BY <1>1, <1>6 DEF Ups, Downs, Up
<1>7. ASSUME Down(elems[j + 1]) PROVE V = U /\ E = D \cup {j + 1}
  BY <1>1, <1>7 DEF Ups, Downs, Down
<1> HIDE DEF U, D, V, E
<1>8. CASE Passing(elems[j + 1])
  BY <1>3, <1>5, <1>8 DEF Passing, Up, Down
<1>9. CASE Up(elems[j + 1])
  <2>1. ~Passing(elems[j + 1]) /\ ~Down(elems[j + 1])
    BY <1>9 DEF Passing, Up, Down
  <2>2. V = U \cup {j + 1} /\ E = D
    BY <1>6, <1>9
  <2>3. Cardinality(V) - Cardinality(E) = Cardinality(U) - Cardinality(D) + 1
    BY <1>3, <1>4, <2>2
  <2> QED
    BY <1>3, <2>1, <2>3
<1>10. CASE Down(elems[j + 1])
  <2>1. ~Passing(elems[j + 1]) /\ ~Up(elems[j + 1])
    BY <1>10 DEF Passing, Up, Down
  <2>2. V = U /\ E = D \cup {j + 1}
    BY <1>7, <1>10
  <2>3. Cardinality(V) - Cardinality(E) = Cardinality(U) - Cardinality(D) - 1
    BY <1>3, <1>4, <2>2
  <2> QED
    BY <1>3, <2>1, <2>3
<1> QED
  BY <1>8, <1>9, <1>10

\* An element is one of the three.
LEMMA ElementKinds ==
    ASSUME NEW e \in STRING
    PROVE  /\ Passing(e) \/ Up(e) \/ Down(e)
           /\ ~(Passing(e) /\ Up(e)) /\ ~(Passing(e) /\ Down(e)) /\ ~(Up(e) /\ Down(e))
BY DEF Passing, Up, Down

\* What one more element leaves of the elements that were kept.
LEMMA KeptNext ==
    ASSUME NEW elems \in Seq(STRING), NEW n \in 0 .. Len(elems) - 1
    PROVE  /\ \A i \in 1 .. n :
                 i \in KeptTo(elems, n + 1) <=>
                    i \in KeptTo(elems, n) /\ Rise(elems, i + 1, n + 1) <= 0
           /\ n + 1 \in KeptTo(elems, n + 1) <=> Down(elems[n + 1])
<1>1. n \in Nat /\ n + 1 \in 1 .. n + 1
  OBVIOUS
<1>2. ASSUME NEW i \in 1 .. n
      PROVE  i \in KeptTo(elems, n + 1) <=>
                i \in KeptTo(elems, n) /\ Rise(elems, i + 1, n + 1) <= 0
  <2>1. i + 1 .. n + 1 = (i + 1 .. n) \cup {n + 1} /\ i \in 1 .. n + 1
    OBVIOUS
  <2> QED
    BY <2>1 DEF KeptTo
<1>3. n + 1 \in KeptTo(elems, n + 1) <=> Down(elems[n + 1])
  <2>1. n + 1 + 1 .. n + 1 = {}
    OBVIOUS
  <2> QED
    BY <1>1, <2>1 DEF KeptTo
<1> QED
  BY <1>2, <1>3

-----------------------------------------------------------------------------
(* path.Clean, one element at a time.                                      *)

\* The elements that were kept and still are, and how far what follows each
\* rises now.
LEMMA KeptBefore ==
    ASSUME NEW elems \in Seq(STRING), NEW n \in 0 .. Len(elems) - 1,
           NEW out, NEW place, Places(place, elems, n, out)
    PROVE  \A i \in 1 .. n :
              i \in KeptTo(elems, n + 1) <=>
                 \E k \in 1 .. Len(out) : i = place[k] /\ Rise(elems, place[k] + 1, n + 1) <= 0
<1> SUFFICES ASSUME NEW i \in 1 .. n
             PROVE  i \in KeptTo(elems, n + 1) <=>
                      \E k \in 1 .. Len(out) : i = place[k] /\ Rise(elems, place[k] + 1, n + 1) <= 0
  OBVIOUS
<1>1. i \in KeptTo(elems, n) <=> \E k \in 1 .. Len(out) : i = place[k]
  BY DEF Places
<1>2. i \in KeptTo(elems, n + 1) <=> i \in KeptTo(elems, n) /\ Rise(elems, i + 1, n + 1) <= 0
  BY KeptNext
<1> QED
  BY <1>1, <1>2

\* How far what follows the elements on the stack rises now.
LEMMA RiseAbove ==
    ASSUME NEW elems \in Seq(STRING), NEW n \in 0 .. Len(elems) - 1,
           NEW out, NEW place, Places(place, elems, n, out), NEW k \in 1 .. Len(out)
    PROVE  /\ place[k] \in 1 .. n
           /\ Passing(elems[n + 1]) => Rise(elems, place[k] + 1, n + 1) = k - Len(out)
           /\ Up(elems[n + 1]) => Rise(elems, place[k] + 1, n + 1) = k - Len(out) + 1
           /\ Down(elems[n + 1]) => Rise(elems, place[k] + 1, n + 1) = k - Len(out) - 1
<1>1. place[k] \in 1 .. n /\ Rise(elems, place[k] + 1, n) = k - Len(out)
  BY DEF Places
<1>2. place[k] + 1 \in Int /\ n \in Int /\ place[k] + 1 <= n + 1
  BY <1>1
<1> QED
  BY <1>1, <1>2, RiseNext

\* An empty element and a "." leave the stack as it is.
LEMMA PassingStep ==
    ASSUME NEW elems \in Seq(STRING), NEW n \in 0 .. Len(elems) - 1,
           NEW out, NEW place, Places(place, elems, n, out), Passing(elems[n + 1])
    PROVE  Places(place, elems, n + 1, out)
<1>1. Len(out) \in Nat /\ elems[n + 1] \in STRING /\ n \in Nat
  BY DEF Places
<1>2. n + 1 \notin KeptTo(elems, n + 1)
  BY <1>1, KeptNext, ElementKinds
<1>3. \A k \in 1 .. Len(out) :
        place[k] \in 1 .. n /\ Rise(elems, place[k] + 1, n + 1) = k - Len(out)
  BY RiseAbove
<1>4. KeptTo(elems, n + 1) = { place[k] : k \in 1 .. Len(out) }
  <2>1. KeptTo(elems, n + 1) \subseteq 1 .. n + 1
    BY DEF KeptTo
  <2>2. \A i \in KeptTo(elems, n + 1) : i \in 1 .. n
    BY <1>1, <1>2, <2>1
  <2>3. \A k \in 1 .. Len(out) : place[k] \in 1 .. n /\ Rise(elems, place[k] + 1, n + 1) <= 0
    BY <1>1, <1>3
  <2>4. \A i \in 1 .. n : i \in KeptTo(elems, n + 1) <=>
          \E k \in 1 .. Len(out) : i = place[k] /\ Rise(elems, place[k] + 1, n + 1) <= 0
    BY KeptBefore
  <2> QED
    BY <2>2, <2>3, <2>4
<1>5. place \in [1 .. Len(out) -> 1 .. n + 1]
  BY <1>1, <1>3 DEF Places
<1> QED
  BY <1>3, <1>4, <1>5 DEF Places

\* A name goes on top of the stack.
LEMMA DownStep ==
    ASSUME NEW elems \in Seq(STRING), NEW n \in 0 .. Len(elems) - 1,
           NEW out, NEW place, Places(place, elems, n, out), Down(elems[n + 1])
    PROVE  \E higher : Places(higher, elems, n + 1, Append(out, elems[n + 1]))
<1> DEFINE m == Len(out)
           new == Append(out, elems[n + 1])
           higher == [k \in 1 .. m + 1 |-> IF k = m + 1 THEN n + 1 ELSE place[k]]
<1>1. m \in Nat /\ elems[n + 1] \in STRING /\ n \in Nat /\ out \in Seq(STRING)
  BY DEF Places
<1>2. new \in Seq(STRING) /\ Len(new) = m + 1 /\ new[m + 1] = elems[n + 1]
      /\ \A k \in 1 .. m : new[k] = out[k]
  BY <1>1, AppendProperties
<1>3. \A k \in 1 .. m :
        /\ place[k] \in 1 .. n /\ out[k] = elems[place[k]]
        /\ Rise(elems, place[k] + 1, n + 1) = k - (m + 1)
  <2>1. \A k \in 1 .. m : place[k] \in 1 .. n /\ Rise(elems, place[k] + 1, n + 1) = k - m - 1
    BY RiseAbove
  <2> QED
    BY <1>1, <2>1 DEF Places
<1>4. higher[m + 1] = n + 1 /\ \A k \in 1 .. m : higher[k] = place[k]
  BY <1>1
<1>5. higher \in [1 .. m + 1 -> 1 .. n + 1]
  BY <1>1, <1>3
<1> HIDE DEF higher, new
<1>6. \A j, k \in 1 .. m + 1 : j < k => higher[j] < higher[k]
  <2> SUFFICES ASSUME NEW j \in 1 .. m + 1, NEW k \in 1 .. m + 1, j < k
               PROVE  higher[j] < higher[k]
    OBVIOUS
  <2>1. j \in 1 .. m /\ higher[j] = place[j] /\ place[j] \in 1 .. n
    BY <1>1, <1>3, <1>4
  <2>2. CASE k = m + 1
    BY <1>1, <1>4, <2>1, <2>2
  <2>3. CASE k # m + 1
    <3>1. k \in 1 .. m
      BY <1>1, <2>3
    <3>2. place[j] < place[k]
      BY <2>1, <3>1 DEF Places
    <3> QED
      BY <1>4, <2>1, <3>1, <3>2
  <2> QED
    BY <2>2, <2>3
<1>7. { higher[k] : k \in 1 .. m + 1 } = KeptTo(elems, n + 1)
  <2>1. n + 1 \in KeptTo(elems, n + 1)
    BY KeptNext
  <2>2. KeptTo(elems, n + 1) \subseteq 1 .. n + 1
    BY DEF KeptTo
  <2>3. ASSUME NEW i \in 1 .. n
        PROVE  i \in KeptTo(elems, n + 1) <=> \E k \in 1 .. m : i = place[k]
    <3>1. i \in KeptTo(elems, n + 1) <=>
            \E k \in 1 .. m : i = place[k] /\ Rise(elems, place[k] + 1, n + 1) <= 0
      BY KeptBefore
    <3>2. \A k \in 1 .. m : Rise(elems, place[k] + 1, n + 1) <= 0
      BY <1>1, <1>3
    <3> QED
      BY <3>1, <3>2
  <2>4. ASSUME NEW i PROVE i \in KeptTo(elems, n + 1) <=> \E k \in 1 .. m + 1 : i = higher[k]
    <3>1. CASE i = n + 1
      BY <1>1, <1>4, <2>1, <3>1
    <3>2. CASE i \in 1 .. n
      <4>1. \A k \in 1 .. m + 1 : i = higher[k] <=> k \in 1 .. m /\ i = place[k]
        BY <1>1, <1>4, <3>2
      <4>2. 1 .. m \subseteq 1 .. m + 1
        BY <1>1
      <4> QED
        BY <2>3, <3>2, <4>1, <4>2
    <3>3. CASE i \notin 1 .. n + 1
      BY <1>5, <2>2, <3>3
    <3> QED
      BY <1>1, <3>1, <3>2, <3>3
  <2> QED
    BY <2>4
<1>8. \A k \in 1 .. m + 1 :
        new[k] = elems[higher[k]] /\ Rise(elems, higher[k] + 1, n + 1) = k - (m + 1)
  <2> SUFFICES ASSUME NEW k \in 1 .. m + 1
               PROVE  new[k] = elems[higher[k]] /\ Rise(elems, higher[k] + 1, n + 1) = k - (m + 1)
    OBVIOUS
  <2>1. CASE k = m + 1
    <3>1. Rise(elems, n + 1 + 1, n + 1) = 0
      BY <1>1, RiseNone
    <3> QED
      BY <1>1, <1>2, <1>4, <2>1, <3>1
  <2>2. CASE k # m + 1
    <3>1. k \in 1 .. m
      BY <1>1, <2>2
    <3> QED
      BY <1>2, <1>3, <1>4, <3>1
  <2> QED
    BY <2>1, <2>2
<1>9. Places(higher, elems, n + 1, new)
  BY <1>2, <1>5, <1>6, <1>7, <1>8 DEF Places
<1> QED
  BY <1>9 DEF new

\* A ".." takes the last element off the stack.
LEMMA UpStep ==
    ASSUME NEW elems \in Seq(STRING), NEW n \in 0 .. Len(elems) - 1,
           NEW out, NEW place, Places(place, elems, n, out), Up(elems[n + 1]), out # <<>>
    PROVE  \E lower : Places(lower, elems, n + 1, Front(out))
<1> DEFINE m == Len(out) - 1
           new == Front(out)
           lower == [k \in 1 .. m |-> place[k]]
<1>1. m \in Nat /\ elems[n + 1] \in STRING /\ n \in Nat /\ out \in Seq(STRING) /\ Len(out) = m + 1
  BY EmptySeq DEF Places
<1>2. new \in Seq(STRING) /\ Len(new) = m /\ \A k \in 1 .. m : new[k] = out[k]
  <2>1. new = SubSeq(out, 1, m)
    BY DEF Front
  <2>2. \A i \in 1 .. m : out[i] \in STRING
    BY <1>1
  <2> QED
    BY <1>1, <2>1, <2>2, SubSeqProperties
<1>3. \A k \in 1 .. m + 1 :
        /\ place[k] \in 1 .. n /\ out[k] = elems[place[k]]
        /\ Rise(elems, place[k] + 1, n + 1) = k - m
  <2>1. \A k \in 1 .. m + 1 : place[k] \in 1 .. n /\ Rise(elems, place[k] + 1, n + 1) = k - Len(out) + 1
    BY <1>1, RiseAbove
  <2> QED
    BY <1>1, <2>1 DEF Places
<1>4. 1 .. m \subseteq 1 .. m + 1 /\ \A k \in 1 .. m : lower[k] = place[k]
  BY <1>1
<1>5. lower \in [1 .. m -> 1 .. n + 1]
  BY <1>1, <1>3, <1>4
<1> HIDE DEF lower, new
<1>6. \A j, k \in 1 .. m : j < k => lower[j] < lower[k]
  BY <1>1, <1>4 DEF Places
<1>7. { lower[k] : k \in 1 .. m } = KeptTo(elems, n + 1)
  <2>1. n + 1 \notin KeptTo(elems, n + 1)
    BY <1>1, KeptNext, ElementKinds
  <2>2. KeptTo(elems, n + 1) \subseteq 1 .. n + 1
    BY DEF KeptTo
  <2>3. \A i \in KeptTo(elems, n + 1) : i \in 1 .. n
    BY <1>1, <2>1, <2>2
  <2>4. ASSUME NEW i \in 1 .. n
        PROVE  i \in KeptTo(elems, n + 1) <=> \E k \in 1 .. m : i = place[k]
    <3>1. i \in KeptTo(elems, n + 1) <=>
            \E k \in 1 .. m + 1 : i = place[k] /\ Rise(elems, place[k] + 1, n + 1) <= 0
      BY <1>1, KeptBefore
    <3>2. \A k \in 1 .. m + 1 : Rise(elems, place[k] + 1, n + 1) <= 0 <=> k \in 1 .. m
      BY <1>1, <1>3
    <3> QED
      BY <1>4, <3>1, <3>2
  <2>5. \A k \in 1 .. m : place[k] \in 1 .. n
    BY <1>3, <1>4
  <2> QED
    BY <1>4, <2>3, <2>4, <2>5
<1>8. \A k \in 1 .. m :
        new[k] = elems[lower[k]] /\ Rise(elems, lower[k] + 1, n + 1) = k - m
  BY <1>2, <1>3, <1>4
<1>9. Places(lower, elems, n + 1, new)
  BY <1>2, <1>5, <1>6, <1>7, <1>8 DEF Places
<1> QED
  BY <1>9 DEF new

\* The branches of path.Clean, for a path that does not begin at a root.
LEMMA CleanBranches ==
    ASSUME NEW out, NEW e
    PROVE  /\ Passing(e) => CleanElement(FALSE, out, e) = out
           /\ Up(e) /\ out # <<>> /\ Last(out) # ".." => CleanElement(FALSE, out, e) = Front(out)
           /\ Up(e) /\ ~(out # <<>> /\ Last(out) # "..") => CleanElement(FALSE, out, e) = Append(out, e)
           /\ Down(e) => CleanElement(FALSE, out, e) = Append(out, e)
BY DEF CleanElement, Passing, Up, Down

\* As long as a path stays below where it started the stack is what is kept of
\* it; the ".." that takes it above comes to stand alone on the stack.
LEMMA CleanStep ==
    ASSUME NEW elems \in Seq(STRING), NEW n \in 0 .. Len(elems) - 1, NEW out, Stands(elems, n, out)
    PROVE  LET next == CleanElement(FALSE, out, elems[n + 1])
           IN  \/ Stands(elems, n + 1, next)
               \/ Left(next) /\ Rise(elems, 1, n + 1) > 0
<1> DEFINE e == elems[n + 1]
           next == CleanElement(FALSE, out, e)
<1>1. PICK place : Places(place, elems, n, out)
  BY DEF Stands
<1>2. /\ out \in Seq(STRING) /\ Len(out) \in Nat /\ e \in STRING /\ n \in Nat
      /\ Rise(elems, 1, n) = -Len(out)
  BY <1>1 DEF Places, Stands
<1>3. /\ Passing(e) => Rise(elems, 1, n + 1) = -Len(out)
      /\ Up(e) => Rise(elems, 1, n + 1) = -Len(out) + 1
      /\ Down(e) => Rise(elems, 1, n + 1) = -Len(out) - 1
  <2>1. 1 <= n + 1 /\ 1 \in Int /\ n \in Int
    BY <1>2
  <2> QED
    BY <1>2, <2>1, RiseNext
<1>4. ASSUME Rise(elems, 1, n + 1) <= 0
      PROVE  \A j \in 1 .. n + 1 : Rise(elems, 1, j) <= 0
  <2>1. 1 .. n + 1 = (1 .. n) \cup {n + 1}
    BY <1>2
  <2> QED
    BY <1>4, <2>1 DEF Stands
<1>5. CASE Passing(e)
  <2>1. next = out
    BY <1>5, CleanBranches
  <2>2. Places(place, elems, n + 1, out)
    BY <1>1, <1>5, PassingStep
  <2>3. Rise(elems, 1, n + 1) = -Len(out) /\ Rise(elems, 1, n + 1) <= 0
    BY <1>2, <1>3, <1>5
  <2>4. Stands(elems, n + 1, out)
    BY <1>4, <2>2, <2>3 DEF Stands
  <2> QED
    BY <2>1, <2>4
<1>6. CASE Down(e)
  <2>1. next = Append(out, e)
    BY <1>6, CleanBranches
  <2>2. \E higher : Places(higher, elems, n + 1, Append(out, e))
    BY <1>1, <1>6, DownStep
  <2>3. Len(Append(out, e)) = Len(out) + 1
    BY <1>2, AppendProperties
  <2>4. Rise(elems, 1, n + 1) = -Len(Append(out, e)) /\ Rise(elems, 1, n + 1) <= 0
    BY <1>2, <1>3, <1>6, <2>3
  <2>5. Stands(elems, n + 1, Append(out, e))
    BY <1>4, <2>2, <2>4 DEF Stands
  <2> QED
    BY <2>1, <2>5
<1>7. CASE Up(e) /\ out # <<>>
  <2>1. Len(out) \in 1 .. Len(out) /\ Len(out) - 1 \in Nat
    BY <1>2, <1>7, EmptySeq
  <2>2. Last(out) # ".."
    <3>1. place[Len(out)] \in KeptTo(elems, n) /\ out[Len(out)] = elems[place[Len(out)]]
      BY <1>1, <2>1 DEF Places
    <3>2. Down(out[Len(out)])
      BY <3>1 DEF KeptTo
    <3> QED
      BY <3>2 DEF Last, Down
  <2>3. next = Front(out)
    BY <1>7, <2>2, CleanBranches
  <2>4. \E lower : Places(lower, elems, n + 1, Front(out))
    BY <1>1, <1>7, UpStep
  <2>5. Len(Front(out)) = Len(out) - 1
    <3> DEFINE m == Len(out) - 1
    <3>1. m \in Nat /\ \A i \in 1 .. m : out[i] \in STRING
      BY <1>2, <2>1
    <3>2. Front(out) = SubSeq(out, 1, m)
      BY DEF Front
    <3> HIDE DEF m
    <3>3. Len(SubSeq(out, 1, m)) = m
      BY <3>1, SubSeqProperties
    <3> QED
      BY <3>2, <3>3 DEF m
  <2>6. Rise(elems, 1, n + 1) = -Len(Front(out)) /\ Rise(elems, 1, n + 1) <= 0
    BY <1>2, <1>3, <1>7, <2>1, <2>5
  <2>7. Stands(elems, n + 1, Front(out))
    BY <1>4, <2>4, <2>6 DEF Stands
  <2> QED
    BY <2>3, <2>7
<1>8. CASE Up(e) /\ out = <<>>
  <2>1. next = Append(out, e)
    BY <1>8, CleanBranches
  <2>2. next \in Seq(STRING) /\ next # <<>> /\ Head(next) = e
    <3> HIDE DEF next, e
    <3>1. out \in Seq(STRING) /\ e \in STRING
      BY <1>2
    <3>2. Append(out, e) \in Seq(STRING) /\ Append(out, e) # <<>>
      BY <3>1, AppendProperties
    <3>3. Head(Append(out, e)) = e
      BY <1>2, <1>8, HeadTailAppend
    <3> QED
      BY <2>1, <3>2, <3>3
  <2>3. Rise(elems, 1, n + 1) > 0
    BY <1>3, <1>8
  <2> QED
    BY <1>8, <2>2, <2>3 DEF Left, Up
<1> QED
  BY <1>2, <1>5, <1>6, <1>7, <1>8, ElementKinds

\* Nothing takes the ".." at the bottom of the stack off it.
LEMMA LeftStays ==
    ASSUME NEW out, Left(out), NEW e \in STRING
    PROVE  Left(CleanElement(FALSE, out, e))
<1>1. out \in Seq(STRING) /\ out # <<>> /\ Head(out) = ".." /\ Len(out) \in Nat \ {0}
  BY EmptySeq DEF Left
<1>2. Left(Append(out, e))
  BY <1>1, AppendProperties, HeadTailAppend DEF Left
<1>3. ASSUME Last(out) # ".." PROVE Left(Front(out))
  <2>1. Head(out) = out[1] /\ Last(out) = out[Len(out)]
    BY <1>1 DEF Last
  <2>2. Len(out) # 1
    <3>1. out[1] # out[Len(out)]
      BY <1>1, <1>3, <2>1
    <3> QED
      BY <3>1
  <2> DEFINE m == Len(out) - 1
  <2>3. m \in Nat /\ 1 <= m
    <3>1. \A l \in Nat : l # 0 /\ l # 1 => l - 1 \in Nat /\ 1 <= l - 1
      OBVIOUS
    <3>2. Len(out) \in Nat /\ Len(out) # 0
      BY <1>1
    <3> QED
      BY <2>2, <3>1, <3>2
  <2>4. \A i \in 1 .. m : out[i] \in STRING
    BY <1>1
  <2>5. Front(out) = SubSeq(out, 1, m)
    BY DEF Front
  <2> HIDE DEF m
  <2>6. /\ SubSeq(out, 1, m) \in Seq(STRING) /\ Len(SubSeq(out, 1, m)) = m
        /\ \A i \in 1 .. m : SubSeq(out, 1, m)[i] = out[i]
    BY <2>3, <2>4, SubSeqProperties
  <2>7. Front(out) # <<>> /\ Head(Front(out)) = Front(out)[1] /\ Front(out)[1] = out[1]
    <3>1. SubSeq(out, 1, m) # <<>> /\ Head(SubSeq(out, 1, m)) = SubSeq(out, 1, m)[1]
      <4>1. \A s \in Seq(STRING) : Len(s) # 0 => s # <<>> /\ Head(s) = s[1]
        OBVIOUS
      <4>2. Len(SubSeq(out, 1, m)) # 0
        BY <2>3, <2>6
      <4> QED
        BY <2>6, <4>1, <4>2
    <3>2. 1 \in 1 .. m
      BY <2>3
    <3> QED
      BY <2>5, <2>6, <3>1, <3>2
  <2> QED
    BY <1>1, <2>1, <2>5, <2>6, <2>7 DEF Left
<1> QED
  BY <1>1, <1>2, <1>3, CleanBranches, ElementKinds

\* path.Clean as a function of how many elements it has read.
Cleaning(path) ==
    LET out[n \in 0 .. Len(path.elems)] ==
          IF n = 0 THEN <<>> ELSE CleanElement(path.abs, out[n - 1], path.elems[n])
    IN  out

\* What the loop of path.Clean has kept after each element of the path.
LEMMA CleaningIs ==
    ASSUME NEW path \in Paths, ~path.abs
    PROVE  /\ Cleaning(path)[0] = <<>>
           /\ \A n \in 1 .. Len(path.elems) :
                 Cleaning(path)[n] = CleanElement(FALSE, Cleaning(path)[n - 1], path.elems[n])
           /\ Clean(path) = [abs |-> FALSE, elems |-> Cleaning(path)[Len(path.elems)]]
<1> DEFINE N == Len(path.elems)
           U == Seq(STRING)
           next == [n \in 1 .. N |-> [out \in U |-> CleanElement(FALSE, out, path.elems[n])]]
           f == Cleaning(path)
<1>1. path.elems \in Seq(STRING) /\ N \in Nat /\ path.abs = FALSE
  BY DEF Paths
<1>2. ASSUME NEW out \in U, NEW n \in 1 .. N PROVE CleanElement(FALSE, out, path.elems[n]) \in U
  <2>1. path.elems[n] \in STRING /\ Append(out, path.elems[n]) \in U
    BY <1>1, AppendProperties
  <2>2. ASSUME out # <<>> PROVE Front(out) \in U
    <3>1. Len(out) \in Nat /\ \A i \in 1 .. Len(out) - 1 : out[i] \in STRING
      OBVIOUS
    <3> QED
      BY <3>1, SubSeqProperties DEF Front
  <2> QED
    BY <2>1, <2>2, CleanBranches, ElementKinds
<1>3. next \in [1 .. N -> [U -> U]]
  BY <1>2
<1>4. <<>> \in U
  BY EmptySeq
<1> HIDE DEF U, next
<1>5. PICK g : Iterated(g, N, U, <<>>, next)
  BY <1>1, <1>3, <1>4, Iterates
<1> DEFINE made(h) == [n \in 0 .. N |-> IF n = 0 THEN <<>>
                                        ELSE CleanElement(path.abs, h[n - 1], path.elems[n])]
<1>6. g = made(g)
  <2>1. g \in [0 .. N -> U] /\ g[0] = <<>> /\ \A n \in 1 .. N : g[n] = next[n][g[n - 1]]
    BY <1>5 DEF Iterated
  <2>2. ASSUME NEW n \in 1 .. N PROVE g[n] = CleanElement(FALSE, g[n - 1], path.elems[n])
    <3>1. n - 1 \in 0 .. N
      BY <1>1
    <3>2. g[n - 1] \in U
      BY <2>1, <3>1
    <3>3. next[n][g[n - 1]] = CleanElement(FALSE, g[n - 1], path.elems[n])
      BY <3>2 DEF next
    <3> QED
      BY <2>1, <3>3
  <2>3. \A n \in 0 .. N : g[n] = made(g)[n]
    <3> SUFFICES ASSUME NEW n \in 0 .. N PROVE g[n] = made(g)[n]
      OBVIOUS
    <3>1. CASE n = 0
      BY <2>1, <3>1
    <3>2. CASE n # 0
      <4>1. n \in 1 .. N
        BY <1>1, <3>2
      <4> QED
        BY <1>1, <2>2, <3>2, <4>1
    <3> QED
      BY <3>1, <3>2
  <2> QED
    BY <2>1, <2>3
<1>7. f = CHOOSE h : h = made(h)
  BY Zenon DEF Cleaning
<1> HIDE DEF f
<1>8. f = made(f)
  <2> HIDE DEF made
  <2> QED
    BY <1>6, <1>7, Zenon
<1>9. /\ f[0] = <<>>
      /\ \A n \in 1 .. N : f[n] = CleanElement(FALSE, f[n - 1], path.elems[n])
  <2>1. \A n \in 0 .. N : f[n] = made(f)[n]
    BY <1>8
  <2>2. 0 \in 0 .. N /\ \A n \in 1 .. N : n \in 0 .. N /\ n # 0
    BY <1>1
  <2>3. made(f)[0] = <<>>
    BY <2>2
  <2>4. \A n \in 1 .. N : made(f)[n] = CleanElement(FALSE, f[n - 1], path.elems[n])
    BY <1>1, <2>2
  <2> QED
    BY <2>1, <2>2, <2>3, <2>4
<1>10. Clean(path) = [abs |-> FALSE, elems |-> f[N]]
  <2>1. Clean(path) = [abs |-> path.abs, elems |-> f[N]]
    BY Zenon DEF Clean, Cleaning, f
  <2> QED
    BY <1>1, <2>1, Zenon
<1> QED
  BY <1>9, <1>10 DEF f

\* path.Clean leaves what is kept of a path that stays below where it started,
\* and a ".." in front of one that does not.
LEMMA CleanSides ==
    ASSUME NEW path \in Paths, ~path.abs
    PROVE  /\ Clean(path).abs = FALSE
           /\ Clean(path).elems \in Seq(STRING)
           /\ \/ /\ Stands(path.elems, Len(path.elems), Clean(path).elems)
                 /\ ~Upwards(Clean(path)) /\ ~Escapes(path)
              \/ Upwards(Clean(path)) /\ Escapes(path)
<1> DEFINE elems == path.elems
           N == Len(elems)
           f == Cleaning(path)
           T == { n \in 0 .. N :
                    \/ Stands(elems, n, f[n])
                    \/ Left(f[n]) /\ \E j \in 1 .. n : Rise(elems, 1, j) > 0 }
<1>1. elems \in Seq(STRING) /\ N \in Nat /\ DOMAIN elems = 1 .. N
  BY DEF Paths
<1>2. /\ f[0] = <<>>
      /\ \A n \in 1 .. N : f[n] = CleanElement(FALSE, f[n - 1], elems[n])
      /\ Clean(path) = [abs |-> FALSE, elems |-> f[N]]
  BY CleaningIs
<1> HIDE DEF f
<1>3. 0 \in T
  <2>1. Rise(elems, 1, 0) = 0
    BY RiseNone
  <2>2. KeptTo(elems, 0) = {}
    BY DEF KeptTo
  <2>3. <<>> \in Seq(STRING) /\ Len(<<>>) = 0
    BY EmptySeq
  <2>4. Places([k \in 1 .. 0 |-> 0], elems, 0, <<>>)
    BY <2>2, <2>3 DEF Places
  <2>5. Stands(elems, 0, <<>>)
    BY <2>1, <2>3, <2>4 DEF Stands
  <2> QED
    BY <1>1, <1>2, <2>5
<1>4. ASSUME NEW n \in 0 .. N - 1, n \in T PROVE n + 1 \in T
  <2>1. /\ n + 1 \in 1 .. N /\ n + 1 \in 0 .. N /\ n + 1 - 1 = n /\ n + 1 \in 1 .. n + 1
        /\ elems[n + 1] \in STRING
    BY <1>1
  <2>2. f[n + 1] = CleanElement(FALSE, f[n], elems[n + 1])
    <3> DEFINE l == n + 1
    <3>1. l \in 1 .. N /\ l - 1 = n
      BY <2>1
    <3> HIDE DEF l
    <3>2. f[l] = CleanElement(FALSE, f[l - 1], elems[l])
      BY <1>2, <3>1, Zenon
    <3>3. f[l] = CleanElement(FALSE, f[n], elems[l])
      BY <3>1, <3>2, Zenon
    <3> QED
      BY <3>3, Zenon DEF l
  <2>3. CASE Stands(elems, n, f[n])
    <3>1. \/ Stands(elems, n + 1, f[n + 1])
          \/ Left(f[n + 1]) /\ Rise(elems, 1, n + 1) > 0
      BY <1>1, <2>2, <2>3, CleanStep
    <3> QED
      BY <2>1, <3>1
  <2>4. CASE Left(f[n]) /\ \E j \in 1 .. n : Rise(elems, 1, j) > 0
    <3>1. Left(f[n + 1])
      BY <2>1, <2>2, <2>4, LeftStays
    <3>2. 1 .. n \subseteq 1 .. n + 1
      BY <1>1
    <3> QED
      BY <2>1, <2>4, <3>1, <3>2
  <2> QED
    BY <1>4, <2>3, <2>4
<1> HIDE DEF T
<1>5. N \in T
  <2>1. 0 .. N \subseteq T
    BY <1>1, <1>3, <1>4, UpTo
  <2> QED
    BY <1>1, <2>1
<1>6. Clean(path).abs = FALSE /\ Clean(path).elems = f[N]
  BY <1>2
<1>7. CASE Stands(elems, N, f[N])
  <2>1. PICK place : Places(place, elems, N, f[N])
    BY <1>7 DEF Stands
  <2>2. f[N] \in Seq(STRING)
    BY <2>1 DEF Places
  <2>3. ~Upwards(Clean(path))
    <3> SUFFICES ASSUME f[N] # <<>>, Head(f[N]) = ".." PROVE FALSE
      BY <1>6 DEF Upwards
    <3>1. 1 \in 1 .. Len(f[N]) /\ f[N][1] = ".."
      <4>1. \A s \in Seq(STRING) : s # <<>> => 1 \in 1 .. Len(s) /\ Head(s) = s[1]
        OBVIOUS
      <4> QED
        BY <2>2, <4>1
    <3>2. place[1] \in KeptTo(elems, N) /\ f[N][1] = elems[place[1]]
      BY <2>1, <3>1 DEF Places
    <3>3. Down(f[N][1])
      BY <3>2 DEF KeptTo
    <3> QED
      BY <3>1, <3>3 DEF Down
  <2>4. ~Escapes(path)
    <3> SUFFICES ASSUME NEW j \in 1 .. N, Rise(elems, 1, j) > 0 PROVE FALSE
      BY <1>1 DEF Escapes
    <3>1. Rise(elems, 1, j) <= 0 /\ Rise(elems, 1, j) \in Int
      BY <1>7, RiseCounts DEF Stands
    <3> QED
      BY <3>1
  <2> QED
    BY <1>6, <1>7, <2>2, <2>3, <2>4
<1>8. CASE Left(f[N]) /\ \E j \in 1 .. N : Rise(elems, 1, j) > 0
  <2>1. Upwards(Clean(path)) /\ f[N] \in Seq(STRING)
    BY <1>6, <1>8 DEF Upwards, Left
  <2>2. Escapes(path)
    BY <1>1, <1>8 DEF Escapes
  <2> QED
    BY <1>6, <2>1, <2>2
<1> QED
  BY <1>5, <1>7, <1>8 DEF T

\* open.go refuses exactly the paths that leave the root.
LEMMA UnsafeEscapes ==
    ASSUME NEW path \in Paths
    PROVE  Unsafe(path) <=> Escapes(path)
<1>1. CASE path.abs
  <2>1. Clean(path).abs = path.abs
    BY DEF Clean
  <2> QED
    BY <1>1, <2>1 DEF Unsafe, Escapes
<1>2. CASE ~path.abs
  BY <1>2, CleanSides DEF Unsafe
<1> QED
  BY <1>1, <1>2

-----------------------------------------------------------------------------
(* A set of places is put in order in one way.                             *)

Ascending(f, m) ==
    /\ f \in [1 .. m -> Nat]
    /\ \A j, k \in 1 .. m : j < k => f[j] < f[k]

Matched(f, m, g, n) ==
    /\ \A k \in 1 .. m : \E j \in 1 .. n : f[k] = g[j]
    /\ \A k \in 1 .. n : \E j \in 1 .. m : g[k] = f[j]

\* Where two orders agree up to a place, neither has a smaller number next.
LEMMA NextInOrder ==
    ASSUME NEW m \in Nat, NEW n \in Nat, NEW f, NEW g, Ascending(f, m), Ascending(g, n),
           Matched(f, m, g, n),
           NEW k \in 1 .. m, \A j \in 1 .. k - 1 : j <= n /\ f[j] = g[j]
    PROVE  k <= n /\ f[k] >= g[k]
<1>1. PICK j \in 1 .. n : f[k] = g[j]
  BY DEF Matched
<1>2. f[k] \in Nat /\ g[j] \in Nat
  BY DEF Ascending
<1>3. ~(j < k)
  <2> SUFFICES ASSUME j < k PROVE FALSE
    OBVIOUS
  <2>1. j \in 1 .. k - 1 /\ j \in 1 .. m
    OBVIOUS
  <2>2. f[j] = f[k] /\ f[j] < f[k]
    BY <1>1, <2>1 DEF Ascending
  <2> QED
    BY <1>2, <2>2
<1>4. k <= n /\ k \in 1 .. n
  BY <1>3
<1>5. k < j => g[k] < g[j]
  BY <1>4 DEF Ascending
<1> QED
  BY <1>1, <1>2, <1>3, <1>4, <1>5 DEF Ascending

\* Two orders of the same numbers agree as far as the first goes.
LEMMA OrdersAgree ==
    ASSUME NEW m \in Nat, NEW n \in Nat, NEW f, NEW g, Ascending(f, m), Ascending(g, n),
           Matched(f, m, g, n)
    PROVE  \A k \in 1 .. m : k <= n /\ f[k] = g[k]
<1> DEFINE T == { k \in 1 .. m : ~(k <= n /\ f[k] = g[k]) }
<1> SUFFICES ASSUME T # {} PROVE FALSE
  OBVIOUS
<1>1. PICK k \in T : \A j \in T : k <= j
  <2>1. T \subseteq Nat
    OBVIOUS
  <2> HIDE DEF T
  <2> QED
    BY <2>1, Least
<1>2. k \in 1 .. m
  OBVIOUS
<1>3. ASSUME NEW j \in 1 .. k - 1 PROVE j <= n /\ f[j] = g[j] /\ j <= m
  <2>1. j \in 1 .. m /\ ~(k <= j)
    BY <1>2
  <2> QED
    BY <1>1, <2>1
<1> HIDE DEF T
<1>4. k <= n /\ f[k] >= g[k]
  BY <1>2, <1>3, NextInOrder
<1>5. k \in 1 .. n
  BY <1>2, <1>4
<1>6. g[k] >= f[k]
  <2>1. \A j \in 1 .. k - 1 : j <= m /\ g[j] = f[j]
    BY <1>3
  <2>2. Matched(g, n, f, m)
    BY DEF Matched
  <2> QED
    BY <1>5, <2>1, <2>2, NextInOrder
<1>7. f[k] \in Nat /\ g[k] \in Nat
  BY <1>2, <1>5 DEF Ascending
<1>8. k <= n /\ f[k] = g[k]
  BY <1>4, <1>6, <1>7
<1> QED
  BY <1>1, <1>8 DEF T

\* And they are the same.
LEMMA OneOrder ==
    ASSUME NEW m \in Nat, NEW n \in Nat, NEW f, NEW g, Ascending(f, m), Ascending(g, n),
           Matched(f, m, g, n)
    PROVE  m = n /\ \A k \in 1 .. m : f[k] = g[k]
<1>1. \A k \in 1 .. m : k <= n /\ f[k] = g[k]
  BY OrdersAgree
<1>2. \A k \in 1 .. n : k <= m /\ g[k] = f[k]
  <2>1. Matched(g, n, f, m)
    BY DEF Matched
  <2> QED
    BY <2>1, OrdersAgree
<1>3. m <= n
  <2>1. m = 0 \/ m \in 1 .. m
    OBVIOUS
  <2> QED
    BY <1>1, <2>1
<1>4. n <= m
  <2>1. n = 0 \/ n \in 1 .. n
    OBVIOUS
  <2> QED
    BY <1>2, <2>1
<1> QED
  BY <1>1, <1>3, <1>4

-----------------------------------------------------------------------------
(* What path.Clean makes of a path is the name the path leads to.          *)

\* A relative path that stays inside the root cleans to a name exactly when
\* it leads there.
LEMMA CleanLeads ==
    ASSUME NEW path \in Paths, ~path.abs, ~Escapes(path), NEW S, NEW name \in Seq(S)
    PROVE  Leads(path.elems, name) <=> Clean(path) = [abs |-> FALSE, elems |-> name]
<1> DEFINE elems == path.elems
           N == Len(elems)
           out == Clean(path).elems
<1>1. /\ elems \in Seq(STRING) /\ N \in Nat /\ DOMAIN elems = 1 .. N
      /\ Len(name) \in Nat /\ DOMAIN name = 1 .. Len(name)
  BY DEF Paths
<1>2. /\ Stands(elems, N, out) /\ out \in Seq(STRING) /\ Len(out) \in Nat
      /\ DOMAIN out = 1 .. Len(out) /\ Clean(path).abs = FALSE
  <2>1. Stands(elems, N, out) /\ out \in Seq(STRING) /\ Clean(path).abs = FALSE
    BY CleanSides
  <2> HIDE DEF out
  <2> QED
    BY <2>1, LenProperties
<1>3. Clean(path) = [abs |-> FALSE, elems |-> name] <=> out = name
  <2>1. Clean(path) = [abs |-> Clean(path).abs, elems |-> Clean(path).elems]
    BY DEF Clean
  <2> QED
    BY <1>2, <2>1
<1> HIDE DEF out
<1>4. PICK kept : Places(kept, elems, N, out)
  BY <1>2 DEF Stands
<1>5. KeptTo(elems, N) = Kept(elems)
  BY <1>1 DEF KeptTo, Kept, Down
<1>6. ASSUME out = name PROVE Leads(elems, name)
  BY <1>1, <1>4, <1>5, <1>6 DEF Places, Leads
<1>7. ASSUME Leads(elems, name) PROVE out = name
  <2>1. PICK place \in [1 .. Len(name) -> 1 .. N] :
          /\ \A j, k \in 1 .. Len(name) : j < k => place[j] < place[k]
          /\ { place[k] : k \in 1 .. Len(name) } = Kept(elems)
          /\ \A k \in 1 .. Len(name) : name[k] = elems[place[k]]
    BY <1>1, <1>7 DEF Leads
  <2>2. Ascending(place, Len(name)) /\ Ascending(kept, Len(out))
    BY <1>4, <2>1 DEF Ascending, Places
  <2>3. Matched(place, Len(name), kept, Len(out))
    <3>1. { kept[k] : k \in 1 .. Len(out) } = Kept(elems)
      BY <1>4, <1>5 DEF Places
    <3>2. { place[k] : k \in 1 .. Len(name) } = { kept[k] : k \in 1 .. Len(out) }
      BY <2>1, <3>1
    <3>3. /\ \A k \in 1 .. Len(name) : place[k] \in { place[j] : j \in 1 .. Len(name) }
          /\ \A k \in 1 .. Len(out) : kept[k] \in { kept[j] : j \in 1 .. Len(out) }
      OBVIOUS
    <3> QED
      BY <3>2, <3>3, Zenon DEF Matched
  <2>4. Len(name) = Len(out) /\ \A k \in 1 .. Len(name) : place[k] = kept[k]
    <3>1. Len(name) \in Nat /\ Len(out) \in Nat
      BY <1>1, <1>2
    <3>2. \A m, n \in Nat : Ascending(place, m) /\ Ascending(kept, n) /\ Matched(place, m, kept, n)
             => m = n /\ \A k \in 1 .. m : place[k] = kept[k]
      BY OneOrder
    <3> QED
      BY <2>2, <2>3, <3>1, <3>2
  <2>5. \A k \in 1 .. Len(out) : out[k] = name[k]
    <3>1. \A k \in 1 .. Len(out) : out[k] = elems[kept[k]]
      BY <1>4 DEF Places
    <3> HIDE DEF elems
    <3> QED
      BY <2>1, <2>4, <3>1
  <2>6. out \in Seq(S \cup STRING) /\ name \in Seq(S \cup STRING)
    BY <1>2, SeqMonotonic
  <2> QED
    BY <2>4, <2>5, <2>6, SeqEqual
<1> QED
  BY <1>3, <1>6, <1>7

\* validBundleReference accepts exactly the names that lead to themselves.
LEMMA ReferenceLeads ==
    ASSUME NEW path \in Paths, path # NoTree
    PROVE  /\ ValidBundleReference(path) <=>
                ~path.abs /\ ~path.backslash /\ Leads(path.elems, path.elems)
           /\ ValidBundleReference(path) =>
                Clean(path) = [abs |-> FALSE, elems |-> path.elems]
<1> DEFINE elems == path.elems
<1>1. /\ elems \in Seq(STRING) /\ Len(elems) \in Nat /\ DOMAIN elems = 1 .. Len(elems)
      /\ path = [abs |-> path.abs, backslash |-> path.backslash, elems |-> elems]
      /\ path.abs \in BOOLEAN /\ path.backslash \in BOOLEAN
  BY DEF Paths
<1>2. CASE path.abs \/ path.backslash
  BY <1>2 DEF ValidBundleReference
<1>3. CASE ~path.abs /\ ~path.backslash
  <2>1. elems # <<>>
    BY <1>1, <1>3 DEF NoTree
  <2>2. ASSUME Leads(elems, elems) PROVE ~Escapes(path)
    <3>1. PICK place \in [1 .. Len(elems) -> 1 .. Len(elems)] :
            /\ { place[k] : k \in 1 .. Len(elems) } = Kept(elems)
            /\ \A k \in 1 .. Len(elems) : elems[k] = elems[place[k]]
      BY <1>1, <2>2 DEF Leads
    <3>2. \A k \in 1 .. Len(elems) : elems[k] # ".."
      BY <3>1 DEF Kept
    <3>3. ASSUME NEW k \in 1 .. Len(elems) PROVE ~(Rise(elems, 1, k) > 0)
      <4>1. Ups(elems, 1, k) = {}
        BY <1>1, <3>2 DEF Ups
      <4>2. Cardinality(Ups(elems, 1, k)) = 0
        BY <4>1, FS_EmptySet
      <4> QED
        BY <4>2, RiseCounts
    <3> QED
      BY <1>1, <1>3, <3>3 DEF Escapes
  <2>3. Clean(path).elems = elems /\ ~Upwards(Clean(path)) <=> Leads(elems, elems)
    <3>1. CASE Escapes(path)
      BY <1>3, <2>2, <3>1, CleanSides
    <3>2. CASE ~Escapes(path)
      <4>1. Leads(elems, elems) <=> Clean(path) = [abs |-> FALSE, elems |-> elems]
        BY <1>1, <1>3, <3>2, CleanLeads
      <4>2. Clean(path) = [abs |-> Clean(path).abs, elems |-> Clean(path).elems]
        BY DEF Clean
      <4>3. Clean(path).abs = FALSE /\ ~Upwards(Clean(path))
        BY <1>3, <3>2, CleanSides
      <4> QED
        BY <4>1, <4>2, <4>3
    <3> QED
      BY <3>1, <3>2
  <2>4. ValidBundleReference(path) <=> Clean(path).elems = elems /\ ~Upwards(Clean(path))
    BY <1>3, <2>1 DEF ValidBundleReference
  <2>5. Clean(path).elems = elems => Clean(path) = [abs |-> FALSE, elems |-> elems]
    <3>1. Clean(path) = [abs |-> path.abs, elems |-> Clean(path).elems]
      BY DEF Clean
    <3> QED
      BY <1>1, <1>3, <3>1
  <2> QED
    BY <1>3, <2>3, <2>4, <2>5
<1> QED
  BY <1>2, <1>3

-----------------------------------------------------------------------------
(* The record table: what validateRecords accepts.                         *)

\* What the loop over the records asks of one, and of them all.
Passed(k) ==
    /\ table[k].name \in ValidNames
    /\ table[k].name \notin DeclaredUpTo(k - 1)
    /\ table[k].fields # <<>>
    /\ ValidFields(table[k].fields)
AllPassed(i) == \A k \in 1 .. i : Passed(k)

TableFine == AllPassed(Len(table)) /\ Resolved(Len(table)) /\ Acyclic

\* How far the table is tested, and that a refusal has its reason.
VerdictInv ==
    /\ RecordInv
    /\ phase = "records" => AllPassed(index - 1)
    /\ phase \in {"resolve", "unresolved", "walk", "cycle", "accepted"} => AllPassed(Len(table))
    /\ phase \in {"walk", "cycle", "accepted"} => Resolved(Len(table))
    /\ phase \in Refusals \ {"cycle"} => ~TableFine

\* A record that is passed stays so while the table does.
LEMMA PassedStays ==
    ASSUME UNCHANGED table
    PROVE  \A k : Passed(k) <=> Passed(k)'
BY DEF Passed, DeclaredUpTo, ValidFields, ParsesFieldType

\* What is tested of a table stays tested while the table does.
LEMMA TestsStay ==
    ASSUME UNCHANGED table
    PROVE  /\ \A i : AllPassed(i) <=> AllPassed(i)'
           /\ \A i : Resolved(i) <=> Resolved(i)'
           /\ Acyclic <=> Acyclic'
           /\ TableFine <=> TableFine'
BY DEF TableFine, AllPassed, Passed, Resolved, Resolves, IsRecord, Acyclic, Declared,
       DeclaredUpTo, ValidFields, ParsesFieldType, Targets, FieldsOf

\* An advance passes one element of the table, or ends the loop at its last.
LEMMA AdvancePasses ==
    ASSUME NEW next, Advance(next), table \in AllTables, index \in Nat \ {0},
           table = <<>> \/ index <= Len(table)
    PROVE  /\ UNCHANGED table
           /\ \/ phase' = phase /\ index' = index + 1 /\ index \in 1 .. Len(table)
              \/ phase' = next /\ Len(table) = 0
              \/ phase' = next /\ Len(table) = index
<1>1. Len(table) \in Nat /\ (table = <<>> => Len(table) = 0)
  BY DEF AllTables
<1> QED
  BY <1>1 DEF Advance

\* The inner steps of validateRecords keep the verdict honest.
LEMMA VerdictKept ==
    ASSUME VerdictInv, Next
    PROVE  VerdictInv'
<1>1. RecordInv' /\ table \in AllTables /\ Len(table) \in Nat
  <2>1. PICK D, F : Inv(D, F)
    BY DEF VerdictInv, RecordInv
  <2>2. Inv(D, F)'
    BY <2>1, StepKeeps
  <2>3. table \in AllTables
    BY <2>1 DEF Inv, TableIs
  <2> QED
    BY <2>2, <2>3 DEF RecordInv, AllTables
<1>2. /\ phase \in {"records", "resolve"} => index \in Nat \ {0}
      /\ phase = "resolve" => Resolved(index - 1)
  BY DEF VerdictInv, RecordInv, Inv, NotStarted
<1>3. CASE CheckRecord
  <2>1. phase = "records" /\ index \in Nat \ {0} /\ AllPassed(index - 1) /\ UNCHANGED table
    BY <1>2, <1>3 DEF CheckRecord, VerdictInv, Advance, Refuse
  <2>2. CASE phase' \in {"badName", "duplicate", "noFields", "badField"} /\ index <= Len(table) /\ ~Passed(index)
    <3>1. ~TableFine
      BY <1>1, <2>1, <2>2 DEF TableFine, AllPassed
    <3> QED
      BY <1>1, <2>1, <2>2, <3>1, TestsStay DEF VerdictInv
  <2>3. CASE Advance("resolve") /\ (table = <<>> \/ (index <= Len(table) /\ Passed(index)))
    <3>1. \/ phase' = "records" /\ index' = index + 1 /\ Passed(index)
          \/ phase' = "resolve" /\ Len(table) = 0
          \/ phase' = "resolve" /\ Len(table) = index /\ Passed(index)
      <4>1. Len(table) = 0 \/ Passed(index)
        BY <1>1, <2>3
      <4>2. /\ \/ phase' = phase /\ index' = index + 1 /\ index \in 1 .. Len(table)
               \/ phase' = "resolve" /\ Len(table) = 0
               \/ phase' = "resolve" /\ Len(table) = index
        BY <1>1, <2>1, <2>3, AdvancePasses
      <4>3. Len(table) = 0 => index \notin 1 .. Len(table)
        BY <1>1
      <4> QED
        BY <2>1, <4>1, <4>2, <4>3
    <3>2. CASE phase' = "records" /\ index' = index + 1 /\ Passed(index)
      <4>1. AllPassed(index)
        <5>1. 1 .. index = (1 .. index - 1) \cup {index}
          BY <2>1
        <5> QED
          BY <2>1, <3>2, <5>1 DEF AllPassed
      <4>2. index' - 1 = index
        BY <2>1, <3>2
      <4>3. \A k \in 1 .. index : Passed(k)'
        BY <2>1, <4>1, PassedStays DEF AllPassed
      <4>4. AllPassed(index - 1)'
        BY <4>2, <4>3 DEF AllPassed
      <4> QED
        BY <1>1, <3>2, <4>4 DEF VerdictInv, Refusals
    <3>3. CASE phase' = "resolve" /\ AllPassed(Len(table))
      BY <1>1, <2>1, <3>3, TestsStay DEF VerdictInv, Refusals
    <3>4. Len(table) = 0 => AllPassed(Len(table))
      BY DEF AllPassed
    <3>5. Len(table) = index /\ Passed(index) => AllPassed(Len(table))
      <4>1. 1 .. index = (1 .. index - 1) \cup {index}
        BY <2>1
      <4> QED
        BY <2>1, <4>1 DEF AllPassed
    <3> QED
      BY <3>1, <3>2, <3>3, <3>4, <3>5
  <2>4. ASSUME index <= Len(table),
               \/ table[index].name \notin ValidNames /\ Refuse("badName")
               \/ /\ table[index].name \in ValidNames \cap DeclaredUpTo(index - 1)
                  /\ Refuse("duplicate")
               \/ table[index].fields = <<>> /\ Refuse("noFields")
               \/ ~ValidFields(table[index].fields) /\ Refuse("badField")
        PROVE  VerdictInv'
    <3>1. ~Passed(index)
      BY <2>4 DEF Passed
    <3>2. phase' \in {"badName", "duplicate", "noFields", "badField"}
      BY <2>4 DEF Refuse
    <3> QED
      BY <2>2, <2>4, <3>1, <3>2
  <2>5. ASSUME Advance("resolve"), table = <<>> \/ (index <= Len(table) /\ Passed(index))
        PROVE  VerdictInv'
    BY <2>3, <2>5
  <2>6. CASE table = <<>> /\ Advance("resolve")
    BY <2>5, <2>6
  <2>7. ASSUME index <= Len(table), table[index].name \in ValidNames \ DeclaredUpTo(index - 1),
               table[index].fields # <<>>, ValidFields(table[index].fields), Advance("resolve")
        PROVE  VerdictInv'
    BY <2>5, <2>7 DEF Passed
  <2> QED
    <3>1. (table = <<>> /\ Advance("resolve")) \/ index <= Len(table)
      BY <1>3 DEF CheckRecord, Advance
    <3> QED
      BY <1>3, <2>4, <2>6, <2>7, <3>1 DEF CheckRecord
<1>4. CASE ResolveRecord
  <2>1. /\ phase = "resolve" /\ index \in Nat \ {0} /\ AllPassed(Len(table))
        /\ Resolved(index - 1) /\ UNCHANGED table
    BY <1>2, <1>4 DEF ResolveRecord, VerdictInv, Advance, Refuse
  <2>2. CASE phase' = "unresolved" /\ index <= Len(table) /\ ~Resolves(table[index].fields)
    <3>1. ~TableFine
      BY <1>1, <2>1, <2>2 DEF TableFine, Resolved
    <3> QED
      BY <1>1, <2>1, <2>2, <3>1, TestsStay DEF VerdictInv
  <2>3. CASE Advance("walk") /\ (table = <<>> \/ (index <= Len(table) /\ Resolves(table[index].fields)))
    <3>1. \/ phase' = "resolve"
          \/ phase' = "walk" /\ Len(table) = 0
          \/ phase' = "walk" /\ Len(table) = index /\ Resolves(table[index].fields)
      <4>1. Len(table) = 0 \/ Resolves(table[index].fields)
        BY <1>1, <2>3
      <4> QED
        BY <1>1, <2>1, <2>3, <4>1, AdvancePasses
    <3>2. CASE phase' = "resolve"
      BY <1>1, <2>1, <3>2, TestsStay DEF VerdictInv, Refusals
    <3>3. CASE phase' = "walk" /\ Resolved(Len(table))
      BY <1>1, <2>1, <3>3, TestsStay DEF VerdictInv, Refusals
    <3>4. Len(table) = 0 => Resolved(Len(table))
      BY DEF Resolved
    <3>5. Len(table) = index /\ Resolves(table[index].fields) => Resolved(Len(table))
      <4>1. 1 .. index = (1 .. index - 1) \cup {index}
        BY <2>1
      <4> QED
        BY <2>1, <4>1 DEF Resolved
    <3> QED
      BY <3>1, <3>2, <3>3, <3>4, <3>5
  <2>4. Refuse("unresolved") => phase' = "unresolved"
    BY DEF Refuse
  <2>5. \/ Advance("walk") /\ (table = <<>> \/ (index <= Len(table) /\ Resolves(table[index].fields)))
        \/ Refuse("unresolved") /\ index <= Len(table) /\ ~Resolves(table[index].fields)
    BY <1>4 DEF ResolveRecord
  <2> QED
    BY <2>2, <2>3, <2>4, <2>5
<1>5. CASE WalkNext \/ WalkField \/ WalkReturns \/ WalkEnds
  <2>1. /\ phase = "walk" /\ phase' \in {"walk", "cycle", "accepted"} /\ UNCHANGED table
    BY <1>5 DEF WalkNext, WalkField, WalkReturns, WalkEnds, Enter
  <2> QED
    BY <1>1, <2>1, TestsStay DEF VerdictInv, Refusals
<1>6. CASE Terminated
  BY <1>1, <1>6, TestsStay DEF VerdictInv, Terminated, vars, Running, Refusals
<1> QED
  BY <1>3, <1>4, <1>5, <1>6 DEF Next

\* A verdict on a table is right.
LEMMA VerdictOfTable ==
    ASSUME VerdictInv
    PROVE  /\ phase \in Running \cup Refusals \cup {"accepted"}
           /\ phase = "accepted" => TableFine
           /\ phase \in Refusals => ~TableFine
<1>1. VerdictMatchesDefinition
  BY VerdictRight DEF VerdictInv
<1>2. phase \in Running \cup Refusals \cup {"accepted"}
  BY DEF VerdictInv, RecordInv, Inv
<1> QED
  BY <1>1, <1>2 DEF VerdictInv, VerdictMatchesDefinition, TableFine

\* It starts with nothing tested.
LEMMA VerdictStarts ==
    ASSUME table \in Tables, Start
    PROVE  VerdictInv
<1>1. RecordInv
  BY InitEstablishes DEF Init
<1>2. phase = "records" /\ index = 1
  BY DEF Start
<1> QED
  BY <1>1, <1>2 DEF VerdictInv, AllPassed, Refusals

-----------------------------------------------------------------------------
(* The record table against what a sound text is.                          *)

\* A sequence has as many elements as it is long when none is there twice.
LEMMA CountDistinct ==
    ASSUME NEW n \in Nat, NEW f, DOMAIN f = 1 .. n
    PROVE  Cardinality({ f[i] : i \in 1 .. n }) = n <=>
             \A i, j \in 1 .. n : f[i] = f[j] => i = j
<1> DEFINE T == { f[i] : i \in 1 .. n }
           g == [i \in 1 .. n |-> f[i]]
<1>1. IsFiniteSet(1 .. n) /\ Cardinality(1 .. n) = n
  BY FS_Interval
<1>2. g \in Surjection(1 .. n, T)
  BY DEF Surjection
<1>3. g \in Injection(1 .. n, T) <=> \A i, j \in 1 .. n : f[i] = f[j] => i = j
  BY <1>2 DEF Injection, IsInjective, Surjection
<1> HIDE DEF T, g
<1>4. Cardinality(T) = n <=> g \in Injection(1 .. n, T)
  BY <1>1, <1>2, FS_Surjection
<1> QED
  BY <1>3, <1>4 DEF T

\* A field list as TypesSound has it.
FieldsSound(fields) ==
    /\ { fields[i].type.element : i \in DOMAIN fields } \ Scalars \subseteq Declared \ Scalars
    /\ { fields[i].name : i \in DOMAIN fields } \subseteq FieldNames
    /\ Cardinality({ fields[i].name : i \in DOMAIN fields }) = Len(fields)

\* A sound list of fields is one that validateFields accepts and whose records
\* are all declared.
LEMMA FieldsSoundIs ==
    ASSUME NEW fields \in AllFields, Declared \subseteq ValidNames
    PROVE  FieldsSound(fields) <=> ValidFields(fields) /\ Resolves(fields)
<1>1. Len(fields) \in Nat /\ DOMAIN fields = 1 .. Len(fields)
  BY DEF AllFields
<1> DEFINE n == Len(fields)
           names == [i \in 1 .. n |-> fields[i].name]
<1>2. Cardinality({ names[i] : i \in 1 .. n }) = n <=>
        \A i, j \in 1 .. n : names[i] = names[j] => i = j
  <2>1. DOMAIN names = 1 .. n /\ n \in Nat
    BY <1>1
  <2> HIDE DEF names, n
  <2> QED
    BY <2>1, CountDistinct
<1>3. { fields[i].name : i \in DOMAIN fields } = { names[i] : i \in 1 .. n }
  BY <1>1
<1>4. /\ Cardinality({ fields[i].name : i \in DOMAIN fields }) = Len(fields)
      <=> \A i, j \in DOMAIN fields : fields[i].name = fields[j].name => i = j
  BY <1>1, <1>2, <1>3
<1>5. { fields[i].name : i \in DOMAIN fields } \subseteq FieldNames
      <=> \A i \in DOMAIN fields : fields[i].name \in FieldNames
  OBVIOUS
<1>6. { fields[i].type.element : i \in DOMAIN fields } \ Scalars \subseteq Declared \ Scalars
      <=> (\A i \in DOMAIN fields : ParsesFieldType(fields[i].type)) /\ Resolves(fields)
  BY DEF ParsesFieldType, Resolves, IsRecord
<1> QED
  BY <1>4, <1>5, <1>6 DEF FieldsSound, ValidFields

\* What the loop over the records has passed to the end.
LEMMA AllPassedIs ==
    ASSUME table \in AllTables
    PROVE  AllPassed(Len(table)) <=>
             /\ Cardinality({ table[i].name : i \in DOMAIN table }) = Len(table)
             /\ { table[i].name : i \in DOMAIN table } \subseteq ValidNames
             /\ \A i \in DOMAIN table : table[i].fields # <<>> /\ ValidFields(table[i].fields)
<1> DEFINE n == Len(table)
           names == [i \in 1 .. n |-> table[i].name]
<1>1. n \in Nat /\ DOMAIN table = 1 .. n
  BY DEF AllTables
<1>2. Cardinality({ names[i] : i \in 1 .. n }) = n <=>
        \A i, j \in 1 .. n : names[i] = names[j] => i = j
  <2>1. DOMAIN names = 1 .. n /\ n \in Nat
    BY <1>1
  <2> HIDE DEF names, n
  <2> QED
    BY <2>1, CountDistinct
<1>3. { table[i].name : i \in DOMAIN table } = { names[i] : i \in 1 .. n }
  BY <1>1
<1>4. (\A i, j \in 1 .. n : table[i].name = table[j].name => i = j)
      <=> \A k \in 1 .. n : table[k].name \notin DeclaredUpTo(k - 1)
  <2>1. ASSUME \A i, j \in 1 .. n : table[i].name = table[j].name => i = j,
               NEW k \in 1 .. n, NEW j \in 1 .. k - 1, table[k].name = table[j].name
        PROVE  FALSE
    <3>1. j \in 1 .. n /\ j # k
      BY <1>1
    <3> QED
      BY <2>1, <3>1
  <2>2. ASSUME \A k \in 1 .. n : table[k].name \notin DeclaredUpTo(k - 1),
               NEW i \in 1 .. n, NEW j \in 1 .. n, table[i].name = table[j].name
        PROVE  i = j
    <3>1. ~(i \in 1 .. j - 1) /\ ~(j \in 1 .. i - 1)
      BY <2>2 DEF DeclaredUpTo
    <3> QED
      BY <1>1, <3>1
  <2> QED
    BY <2>1, <2>2 DEF DeclaredUpTo
<1>5. Cardinality({ table[i].name : i \in DOMAIN table }) = n
      <=> \A k \in 1 .. n : table[k].name \notin DeclaredUpTo(k - 1)
  BY <1>2, <1>3, <1>4
<1> QED
  BY <1>1, <1>5 DEF AllPassed, Passed

\* The records inside a record, of a table that names none twice.
LEMMA InsideIsTargets ==
    ASSUME table \in AllTables, NEW n \in Declared,
           \A i, j \in DOMAIN table : table[i].name = table[j].name => i = j
    PROVE  UNION { { table[i].fields[k].type.element : k \in DOMAIN table[i].fields } \ Scalars :
                     i \in { k \in DOMAIN table : table[k].name = n } } = Targets(n)
<1>1. PICK k \in DOMAIN table : table[k].name = n /\ FieldsOf(n) = table[k].fields
  BY FieldsOfDeclared
<1>2. { i \in DOMAIN table : table[i].name = n } = {k}
  BY <1>1
<1>3. Targets(n) = { table[k].fields[i].type.element : i \in DOMAIN table[k].fields } \ Scalars
  BY <1>1 DEF Targets
<1> DEFINE named(i) == { table[i].fields[j].type.element : j \in DOMAIN table[i].fields } \ Scalars
<1>4. UNION { named(i) : i \in {k} } = named(k)
  <2> HIDE DEF named
  <2> QED
    OBVIOUS
<1> QED
  BY <1>2, <1>3, <1>4

\* Records that contain each other are no scalars.
LEMMA AcyclicRecords ==
    Acyclic <=> ~\E S \in SUBSET (Declared \ Scalars) :
                    S # {} /\ \A n \in S : Targets(n) \cap S # {}
<1>1. ASSUME NEW S \in SUBSET Declared, S # {}, \A n \in S : Targets(n) \cap S # {}
      PROVE  \E R \in SUBSET (Declared \ Scalars) : R # {} /\ \A n \in R : Targets(n) \cap R # {}
  <2> DEFINE R == S \ Scalars
  <2>1. \A n \in S : Targets(n) \cap R # {}
    <3> SUFFICES ASSUME NEW n \in S PROVE Targets(n) \cap R # {}
      OBVIOUS
    <3>1. PICK t : t \in Targets(n) \cap S
      BY <1>1
    <3>2. t \notin Scalars
      BY <3>1 DEF Targets
    <3> QED
      BY <3>1, <3>2
  <2>2. R \in SUBSET (Declared \ Scalars) /\ R \subseteq S
    OBVIOUS
  <2>3. R # {}
    <3>1. PICK n : n \in S
      BY <1>1
    <3> QED
      BY <2>1, <3>1
  <2> HIDE DEF R
  <2> QED
    BY <2>1, <2>2, <2>3
<1>2. SUBSET (Declared \ Scalars) \subseteq SUBSET Declared
  OBVIOUS
<1> QED
  BY <1>1, <1>2 DEF Acyclic

\* A table that is accepted, and provided events whose fields are valid and
\* resolve, are what TypesSound asks of a text.
ProvidedFine(definition) == ValidFields(definition.fields) /\ Resolves(definition.fields)

\* A text has sound types exactly when its table and the fields of its
\* provided events pass.
LEMMA TypesSoundIs ==
    ASSUME NEW text \in ManifestTexts, table = text.types, table \in AllTables
    PROVE  TypesSound(text) <=>
             TableFine /\ \A i \in DOMAIN text.provides : ProvidedFine(text.provides[i])
<1> DEFINE names == { table[i].name : i \in DOMAIN table }
           named(fields) == { fields[i].type.element : i \in DOMAIN fields } \ Scalars
           inside(n) == UNION { named(table[i].fields) : i \in { k \in DOMAIN table : table[k].name = n } }
           fieldsOf == { table[i].fields : i \in DOMAIN table }
                           \cup { text.provides[i].fields : i \in DOMAIN text.provides }
           loose == \E S \in SUBSET (names \ Scalars) : S # {} /\ \A n \in S : inside(n) \cap S # {}
<1>1. names = Declared
  <2>1. DOMAIN table = 1 .. Len(table)
    BY DEF AllTables
  <2> QED
    BY <2>1 DEF Declared, DeclaredUpTo
<1>2. /\ \A i \in DOMAIN table : table[i].fields \in AllFields
      /\ \A i \in DOMAIN text.provides : text.provides[i].fields \in AllFields
  <2>1. DOMAIN table = 1 .. Len(table)
    BY DEF AllTables
  <2>2. \A i \in DOMAIN table : table[i] \in [name : Names, fields : AllFields]
    BY <2>1, ElementOfSeq DEF AllTables
  <2>3. text.provides \in Seq([type : Seq(STRING), fields : AllFields])
    BY DEF ManifestTexts, AllFields
  <2>4. \A i \in DOMAIN text.provides : text.provides[i] \in [type : Seq(STRING), fields : AllFields]
    BY <2>3, ElementOfSeq, LenProperties
  <2> QED
    BY <2>2, <2>4
<1>3. TypesSound(text) <=>
        /\ Cardinality(names) = Len(table)
        /\ names \subseteq ValidNames
        /\ \A fields \in fieldsOf :
              /\ named(fields) \subseteq names \ Scalars
              /\ { fields[i].name : i \in DOMAIN fields } \subseteq FieldNames
              /\ Cardinality({ fields[i].name : i \in DOMAIN fields }) = Len(fields)
        /\ \A i \in DOMAIN table : table[i].fields # <<>>
        /\ ~loose
  <2> DEFINE sound(t) ==
        LET called == { t[i].name : i \in DOMAIN t }
            records == called \ Scalars
            within(n) == UNION { named(t[i].fields) : i \in { k \in DOMAIN t : t[k].name = n } }
            lists == { t[i].fields : i \in DOMAIN t }
                            \cup { text.provides[i].fields : i \in DOMAIN text.provides }
        IN  /\ Cardinality(called) = Len(t)
            /\ called \subseteq ValidNames
            /\ \A fields \in lists :
                  /\ named(fields) \subseteq records
                  /\ { fields[i].name : i \in DOMAIN fields } \subseteq FieldNames
                  /\ Cardinality({ fields[i].name : i \in DOMAIN fields }) = Len(fields)
            /\ \A i \in DOMAIN t : t[i].fields # <<>>
            /\ ~\E S \in SUBSET records : S # {} /\ \A n \in S : within(n) \cap S # {}
  <2>1. TypesSound(text) <=> sound(text.types)
    BY Zenon DEF TypesSound
  <2>2. sound(text.types) <=> sound(table)
    <3> HIDE DEF sound
    <3> QED
      OBVIOUS
  <2> QED
    BY <2>1, <2>2, Zenon
<1>4. (\A fields \in fieldsOf :
          /\ named(fields) \subseteq names \ Scalars
          /\ { fields[i].name : i \in DOMAIN fields } \subseteq FieldNames
          /\ Cardinality({ fields[i].name : i \in DOMAIN fields }) = Len(fields))
      <=> \A fields \in fieldsOf : FieldsSound(fields)
  BY <1>1, Zenon DEF FieldsSound
<1>5. (\A fields \in fieldsOf : FieldsSound(fields))
      <=> /\ \A i \in DOMAIN table : FieldsSound(table[i].fields)
          /\ \A i \in DOMAIN text.provides : FieldsSound(text.provides[i].fields)
  BY Zenon
<1> HIDE DEF fieldsOf
<1>6. ASSUME names \subseteq ValidNames
      PROVE  (\A fields \in fieldsOf : FieldsSound(fields))
             <=> /\ \A i \in DOMAIN table : ValidFields(table[i].fields)
                 /\ Resolved(Len(table))
                 /\ \A i \in DOMAIN text.provides : ProvidedFine(text.provides[i])
  <2>1. Declared \subseteq ValidNames
    BY <1>1, <1>6
  <2>2. \A i \in DOMAIN table :
          FieldsSound(table[i].fields) <=> ValidFields(table[i].fields) /\ Resolves(table[i].fields)
    BY <1>2, <2>1, FieldsSoundIs
  <2>3. \A i \in DOMAIN text.provides :
          FieldsSound(text.provides[i].fields) <=> ProvidedFine(text.provides[i])
    BY <1>2, <2>1, FieldsSoundIs DEF ProvidedFine
  <2>4. DOMAIN table = 1 .. Len(table)
    BY DEF AllTables
  <2> QED
    BY <1>5, <2>2, <2>3, <2>4, Zenon DEF Resolved
<1>7. AllPassed(Len(table)) <=>
        /\ Cardinality(names) = Len(table)
        /\ names \subseteq ValidNames
        /\ \A i \in DOMAIN table : table[i].fields # <<>> /\ ValidFields(table[i].fields)
  BY AllPassedIs
<1>8. ASSUME Cardinality(names) = Len(table)
      PROVE  Acyclic <=> ~loose
  <2>1. \A i, j \in DOMAIN table : table[i].name = table[j].name => i = j
    <3> DEFINE f == [i \in 1 .. Len(table) |-> table[i].name]
    <3>1. Len(table) \in Nat /\ DOMAIN table = 1 .. Len(table) /\ DOMAIN f = 1 .. Len(table)
      BY DEF AllTables
    <3>2. names = { f[i] : i \in 1 .. Len(table) }
      BY <3>1
    <3> HIDE DEF f
    <3>3. Cardinality({ f[i] : i \in 1 .. Len(table) }) = Len(table)
      BY <1>8, <3>2
    <3>4. \A i, j \in 1 .. Len(table) : f[i] = f[j] => i = j
      BY <3>1, <3>3, CountDistinct
    <3> QED
      BY <3>1, <3>4 DEF f
  <2>2. \A n \in Declared : inside(n) = Targets(n)
    BY <2>1, InsideIsTargets
  <2>3. loose <=> \E S \in SUBSET (Declared \ Scalars) : S # {} /\ \A n \in S : Targets(n) \cap S # {}
    <3>1. ASSUME NEW S \in SUBSET (Declared \ Scalars)
          PROVE  (\A n \in S : inside(n) \cap S # {}) <=> (\A n \in S : Targets(n) \cap S # {})
      <4>1. \A n \in S : inside(n) = Targets(n)
        BY <2>2
      <4> HIDE DEF inside
      <4> QED
        BY <4>1
    <3>2. SUBSET (names \ Scalars) = SUBSET (Declared \ Scalars)
      BY <1>1
    <3> HIDE DEF inside
    <3> QED
      BY <3>1, <3>2, Zenon
  <2> QED
    BY <2>3, AcyclicRecords
<1> HIDE DEF names, loose
<1> QED
  BY <1>3, <1>4, <1>6, <1>7, <1>8 DEF TableFine

-----------------------------------------------------------------------------
(* The rest of a text.                                                     *)

\* A manifest names no tree, or one by its shortest relative path.
TreeNamed(text) ==
    text.tree # NoTree =>
        ~text.tree.abs /\ ~text.tree.backslash /\ Leads(text.tree.elems, text.tree.elems)

\* The provided events have names of their own, in two parts.
ProvidesNamed(text) ==
    /\ \A i \in DOMAIN text.provides : ValidEventType(text.provides[i].type)
    /\ \A i, j \in DOMAIN text.provides : text.provides[i].type = text.provides[j].type => i = j

\* What DecodeManifest reads.
Read(text) ==
    /\ text.known
    /\ \A i \in DOMAIN text.subscribe : KnownPriority(text.subscribe[i].priority)

\* A sound text is one that DecodeManifest reads and ValidateManifest accepts.
LEMMA TextSoundIs ==
    ASSUME NEW text \in ManifestTexts
    PROVE  TextSound(text) /\ TreeNamed(text) <=>
             Read(text) /\ ValidHead(text) /\ ProvidesNamed(text) /\ TypesSound(text)
<1> DEFINE events == [i \in DOMAIN text.subscribe |-> text.subscribe[i].event]
           types == [i \in DOMAIN text.provides |-> text.provides[i].type]
<1>1. /\ text.tree \in Paths
      /\ text.provides \in Seq([type : Seq(STRING), fields : AllFields])
  BY DEF ManifestTexts, AllFields
<1>2. TreeNamed(text) <=> (text.tree # NoTree => ValidBundleReference(text.tree))
  BY <1>1, ReferenceLeads DEF TreeNamed
<1>3. /\ IsInjective(types) <=>
           \A i, j \in DOMAIN text.provides : text.provides[i].type = text.provides[j].type => i = j
      /\ DOMAIN types = DOMAIN text.provides
      /\ \A i \in DOMAIN types : types[i] = text.provides[i].type
  BY DEF IsInjective
<1>4. ASSUME NEW i \in DOMAIN text.provides
      PROVE  text.provides[i].type \in DottedNames \X DottedNames
             <=> ValidEventType(text.provides[i].type)
  <2> DEFINE t == text.provides[i].type
  <2>1. t \in Seq(STRING)
    <3>1. text.provides[i] \in [type : Seq(STRING), fields : AllFields]
      BY <1>1, ElementOfSeq, LenProperties
    <3> QED
      BY <3>1
  <2> HIDE DEF t
  <2>2. ASSUME t \in DottedNames \X DottedNames PROVE ValidEventType(t)
    <3>1. Len(t) = 2 /\ t[1] \in DottedNames /\ t[2] \in DottedNames
      BY <2>2
    <3>2. 1 .. 2 = {1, 2}
      OBVIOUS
    <3> QED
      BY <3>1, <3>2 DEF ValidEventType, ValidDottedName
  <2>3. ASSUME ValidEventType(t) PROVE t \in DottedNames \X DottedNames
    <3>1. Len(t) = 2 /\ t[1] \in DottedNames /\ t[2] \in DottedNames
      BY <2>3 DEF ValidEventType, ValidDottedName
    <3>2. t = <<t[1], t[2]>>
      BY <2>1, <3>1
    <3> QED
      BY <3>1, <3>2
  <2> QED
    BY <2>2, <2>3 DEF t
<1>5. ProvidesNamed(text) <=>
        IsInjective(types) /\ \A i \in DOMAIN types : types[i] \in DottedNames \X DottedNames
  BY <1>3, <1>4 DEF ProvidesNamed
<1>6. ValidSubscriptions(text.subscribe) <=>
        /\ IsInjective(events) /\ ToSet(events) \cap BlankStrings = {}
        /\ \A i \in DOMAIN text.subscribe :
              /\ IsInjective(text.subscribe[i].perms)
              /\ ToSet(text.subscribe[i].perms) \cap BlankStrings = {}
  BY Zenon DEF ValidSubscriptions, DistinctNames
<1>7. \A p : p \in {""} \cup ToSet(Priorities) <=> KnownPriority(p)
  BY Zenon DEF KnownPriority
<1>8. {text.version, text.runtime} \cap BlankStrings = {}
      <=> text.version \notin BlankStrings /\ text.runtime \notin BlankStrings
  OBVIOUS
<1>9. TextSound(text) <=>
        /\ text.known /\ text.api = 1
        /\ text.id \in DottedNames
        /\ {text.version, text.runtime} \cap BlankStrings = {}
        /\ IsInjective(events) /\ ToSet(events) \cap BlankStrings = {}
        /\ \A i \in DOMAIN text.subscribe :
              /\ IsInjective(text.subscribe[i].perms)
              /\ ToSet(text.subscribe[i].perms) \cap BlankStrings = {}
              /\ text.subscribe[i].priority \in {""} \cup ToSet(Priorities)
        /\ IsInjective(types)
        /\ \A i \in DOMAIN types : types[i] \in DottedNames \X DottedNames
        /\ TypesSound(text)
  BY Zenon DEF TextSound
<1>10. ValidHead(text) <=>
        /\ text.id \in DottedNames
        /\ text.version \notin BlankStrings
        /\ text.api = 1
        /\ text.runtime \notin BlankStrings
        /\ text.tree # NoTree => ValidBundleReference(text.tree)
        /\ ValidSubscriptions(text.subscribe)
  BY Zenon DEF ValidHead, ValidDottedName, CurrentAPIVersion
<1>11. (\A i \in DOMAIN text.subscribe :
          /\ IsInjective(text.subscribe[i].perms)
          /\ ToSet(text.subscribe[i].perms) \cap BlankStrings = {}
          /\ text.subscribe[i].priority \in {""} \cup ToSet(Priorities))
       <=> /\ \A i \in DOMAIN text.subscribe :
                /\ IsInjective(text.subscribe[i].perms)
                /\ ToSet(text.subscribe[i].perms) \cap BlankStrings = {}
           /\ \A i \in DOMAIN text.subscribe : KnownPriority(text.subscribe[i].priority)
  BY <1>7, Zenon
<1> HIDE DEF events, types
<1> QED
  BY <1>2, <1>5, <1>6, <1>8, <1>9, <1>10, <1>11 DEF Read

-----------------------------------------------------------------------------
(* What Open has established at each of its steps.                         *)

AfterProvides == {"tree", "locate", "loaded", "warm"}
AfterRecords == {"provides"} \cup AfterProvides
AfterHead == {"records"} \cup AfterRecords
AfterRead == {"validate"} \cup AfterHead
AfterScan == {"decode"} \cup AfterRead
Steps == {"zip", "scan", "refused"} \cup AfterScan

IsManifest(i) == Leads(Entries[i].path.elems, <<"plugin.toml">>)

\* The first n entries stay inside the root, and the manifest among them.
Scanned(n) ==
    /\ \A i \in 1 .. n : ~Escapes(Entries[i].path)
    /\ \/ found = 0 /\ \A i \in 1 .. n : ~IsManifest(i)
       \/ found \in 1 .. n /\ \A i \in 1 .. n : IsManifest(i) <=> i = found

ManifestFound == Scanned(Len(Entries)) /\ found \in DOMAIN Entries

Openable ==
    /\ ~TooLarge(Entries[found].size, MaxManifestSize)
    /\ Entries[found].fault # "open"

Decoded ==
    /\ Parses(Entries[found])
    /\ manifest.tree = Content.text.tree
    /\ manifest.provides = Content.text.provides
    /\ table = Content.text.types

\* The loop of validateProvides has passed the first n events.
ProvidedTo(n) ==
    \A i \in 1 .. n :
        /\ ValidEventType(manifest.provides[i].type)
        /\ manifest.provides[i].type \notin ProvidedBefore(i)
        /\ ProvidedFine(manifest.provides[i])

TreeIn(tree) ==
    \E j \in DOMAIN Entries :
        /\ Matches(Clean(tree)) = {j}
        /\ Readable(Entries[j], MaxTreeSize)
        /\ Entries[j].holds.kind = "tree"

ArchiveInv ==
    /\ archive \in Archives
    /\ at \in Nat \ {0}
    /\ step \in Steps
    /\ step \notin {"zip", "refused"} => archive.fault # "zip"
    /\ step = "zip" => at = 1 /\ found = 0
    /\ step = "scan" => at <= Len(Entries) + 1 /\ Scanned(at - 1)
    /\ step \in AfterScan => ManifestFound /\ Openable
    /\ step \in {"zip", "scan", "decode", "validate"} => Start

ManifestInv ==
    /\ step \in AfterRead => Decoded
    /\ step \in AfterHead => ValidHead(Content.text) /\ VerdictInv
    /\ step \in AfterRecords => phase = "accepted"
    /\ step = "provides" => at <= Len(manifest.provides) + 1 /\ ProvidedTo(at - 1)
    /\ step \in AfterProvides => ProvidedTo(Len(manifest.provides)) /\ Entries[found].fault # "close"
    /\ step = "tree" => manifest.tree # NoTree
    /\ step \in {"locate", "loaded", "warm"} => manifest.tree = NoTree \/ TreeIn(manifest.tree)
    /\ step \in {"loaded", "warm"} => archive.fault # "cwd"

BundleInv == ArchiveInv /\ ManifestInv /\ RefusedIsFlawed

-----------------------------------------------------------------------------
(* What is whole, said of the entry that was found.                        *)

\* The types of what is in an archive.
LEMMA ArchiveTyped ==
    ASSUME archive \in Archives
    PROVE  /\ archive.fault \in {"none", "zip", "cwd"}
           /\ Entries \in Seq(ArchiveEntries) /\ Len(Entries) \in Nat
           /\ DOMAIN Entries = 1 .. Len(Entries)
           /\ \A i \in DOMAIN Entries :
                 /\ Entries[i].path \in Paths
                 /\ Entries[i].size \in Nat /\ Entries[i].length \in Nat
                 /\ Entries[i].fault \in {"none", "open", "read", "close"}
                 /\ Entries[i].holds.text \in ManifestTexts
                 /\ Entries[i].holds.text.types \in AllTables
<1>1. archive \in [fault : {"none", "zip", "cwd"}, entries : Seq(ArchiveEntries)]
  BY BundleAssumption
<1>2. /\ Entries \in Seq(ArchiveEntries) /\ Len(Entries) \in Nat
      /\ DOMAIN Entries = 1 .. Len(Entries)
  BY <1>1 DEF Entries
<1>3. ASSUME NEW i \in DOMAIN Entries
      PROVE  /\ Entries[i].path \in Paths
             /\ Entries[i].size \in Nat /\ Entries[i].length \in Nat
             /\ Entries[i].fault \in {"none", "open", "read", "close"}
             /\ Entries[i].holds.text \in ManifestTexts
             /\ Entries[i].holds.text.types \in AllTables
  <2>1. Entries[i] \in ArchiveEntries
    BY <1>2, ElementOfSeq
  <2>2. Entries[i].holds.text \in ManifestTexts
    BY <2>1 DEF ArchiveEntries
  <2>3. Entries[i].holds.text.types \in Tables
    BY <2>2 DEF ManifestTexts
  <2>4. Tables \subseteq AllTables
    BY RecordGraphAssumption DEF AllTables, AllFields
  <2> QED
    BY <2>1, <2>2, <2>3, <2>4 DEF ArchiveEntries
<1> QED
  BY <1>1, <1>2, <1>3

\* An entry that readBundleEntry reads is sound, and the other way round.
LEMMA ReadableIsSound ==
    ASSUME archive \in Archives, NEW i \in DOMAIN Entries, NEW limit \in Nat
    PROVE  Readable(Entries[i], limit) <=> Sound(Entries[i], limit)
<1>1. Entries[i].size \in Nat /\ Entries[i].length \in Nat
  BY ArchiveTyped
<1> QED
  BY <1>1 DEF Readable, Sound, TooLarge

\* An entry is taken for the manifest when its path leads there.
LEMMA ManifestLeads ==
    ASSUME archive \in Archives, NEW i \in DOMAIN Entries, ~Escapes(Entries[i].path)
    PROVE  Clean(Entries[i].path) = ManifestFileName <=> IsManifest(i)
<1>1. Entries[i].path \in Paths /\ ~Entries[i].path.abs
  BY ArchiveTyped DEF Escapes
<1>2. <<"plugin.toml">> \in Seq({"plugin.toml"})
  OBVIOUS
<1> QED
  BY <1>1, <1>2, CleanLeads DEF ManifestFileName, IsManifest

\* The entries whose cleaned name is that of a tree are those that lead to it.
LEMMA TreeLeads ==
    ASSUME archive \in Archives, \A i \in DOMAIN Entries : ~Escapes(Entries[i].path),
           NEW tree \in Paths, tree # NoTree, ValidBundleReference(tree)
    PROVE  Matches(Clean(tree)) = At(tree.elems)
<1>1. Clean(tree) = [abs |-> FALSE, elems |-> tree.elems] /\ tree.elems \in Seq(STRING)
  BY ReferenceLeads DEF Paths
<1>2. ASSUME NEW i \in DOMAIN Entries
      PROVE  Clean(Entries[i].path) = Clean(tree) <=> Leads(Entries[i].path.elems, tree.elems)
  <2>1. Entries[i].path \in Paths /\ ~Entries[i].path.abs /\ ~Escapes(Entries[i].path)
    BY ArchiveTyped DEF Escapes
  <2> QED
    BY <1>1, <2>1, CleanLeads
<1> QED
  BY <1>2 DEF Matches, At

\* What Whole asks of the entry that is the manifest.
WholeAt(i) ==
    LET text == Entries[i].holds.text
    IN  /\ archive.fault = "none"
        /\ Entries[i].holds.kind = "toml"
        /\ Sound(Entries[i], MaxManifestSize)
        /\ TextSound(text)
        /\ TreeNamed(text)
        /\ text.tree # NoTree => TreeIn(text.tree)

\* With its manifest found, an archive is whole when that entry is the one Whole
\* asks for.
LEMMA WholeIs ==
    ASSUME archive \in Archives, ManifestFound
    PROVE  Whole <=> WholeAt(found)
<1> DEFINE text == Entries[found].holds.text
<1>1. /\ DOMAIN Entries = 1 .. Len(Entries) /\ found \in DOMAIN Entries /\ Len(Entries) \in Nat
      /\ text \in ManifestTexts /\ text.tree \in Paths
  BY ArchiveTyped DEF ManifestFound, ManifestTexts
<1>2. \A i \in DOMAIN Entries : ~Escapes(Entries[i].path)
  BY <1>1 DEF ManifestFound, Scanned
<1>3. At(<<"plugin.toml">>) = {found}
  <2>1. \A i \in DOMAIN Entries : IsManifest(i) <=> i = found
    BY <1>1 DEF ManifestFound, Scanned
  <2> QED
    BY <1>1, <2>1 DEF At, IsManifest
<1>4. \A i \in DOMAIN Entries : At(<<"plugin.toml">>) = {i} <=> i = found
  BY <1>3
<1>5. Whole <=>
        /\ archive.fault = "none"
        /\ Entries[found].holds.kind = "toml"
        /\ Sound(Entries[found], MaxManifestSize)
        /\ TextSound(text)
        /\ text.tree # NoTree =>
              /\ ~text.tree.abs /\ ~text.tree.backslash
              /\ Leads(text.tree.elems, text.tree.elems)
              /\ \E j \in DOMAIN Entries :
                    /\ At(text.tree.elems) = {j}
                    /\ Entries[j].holds.kind = "tree"
                    /\ Sound(Entries[j], MaxTreeSize)
  BY <1>1, <1>2, <1>4, Zenon DEF Whole
<1>6. ASSUME text.tree # NoTree, TreeNamed(text)
      PROVE  TreeIn(text.tree) <=>
               \E j \in DOMAIN Entries :
                    /\ At(text.tree.elems) = {j}
                    /\ Entries[j].holds.kind = "tree"
                    /\ Sound(Entries[j], MaxTreeSize)
  <2>1. Matches(Clean(text.tree)) = At(text.tree.elems)
    <3>1. ValidBundleReference(text.tree)
      BY <1>1, <1>6, ReferenceLeads DEF TreeNamed
    <3> QED
      BY <1>1, <1>2, <1>6, <3>1, TreeLeads
  <2>2. \A j \in DOMAIN Entries : Readable(Entries[j], MaxTreeSize) <=> Sound(Entries[j], MaxTreeSize)
    BY ReadableIsSound, BundleAssumption
  <2> QED
    BY <2>1, <2>2, Zenon DEF TreeIn
<1> QED
  BY <1>5, <1>6, Zenon DEF WholeAt, TreeNamed

\* Without a manifest, or with two, nothing is whole.
LEMMA NoManifestNotWhole ==
    ASSUME archive \in Archives, Whole
    PROVE  /\ archive.fault = "none"
           /\ \A i \in DOMAIN Entries : ~Escapes(Entries[i].path)
           /\ \E i \in DOMAIN Entries : \A j \in DOMAIN Entries : IsManifest(j) <=> j = i
<1>1. PICK i \in DOMAIN Entries : At(<<"plugin.toml">>) = {i}
  BY DEF Whole
<1>2. \A j \in DOMAIN Entries : IsManifest(j) <=> j = i
  BY <1>1 DEF At, IsManifest
<1> QED
  BY <1>2 DEF Whole

\* The manifest that was decoded, and the way it goes from there.
LEMMA DecodedTyped ==
    ASSUME ArchiveInv, Decoded, step \in AfterScan
    PROVE  /\ found \in DOMAIN Entries
           /\ Content.text \in ManifestTexts
           /\ table \in AllTables /\ table = Content.text.types
           /\ manifest.provides \in Seq([type : Seq(STRING), fields : AllFields])
           /\ Len(manifest.provides) \in Nat
           /\ DOMAIN manifest.provides = 1 .. Len(manifest.provides)
           /\ manifest.tree \in Paths
<1>1. archive \in Archives /\ found \in DOMAIN Entries
  BY DEF ArchiveInv, ManifestFound
<1>2. Content.text \in ManifestTexts /\ Content.text.types \in AllTables
  BY <1>1, ArchiveTyped DEF Content
<1>3. /\ manifest.provides \in Seq([type : Seq(STRING), fields : AllFields])
      /\ manifest.tree \in Paths
  BY <1>2 DEF Decoded, ManifestTexts, AllFields
<1> QED
  BY <1>1, <1>2, <1>3 DEF Decoded

\* Provided events that passed the loop are what a sound text has.
LEMMA ProvidedIs ==
    ASSUME ArchiveInv, Decoded, step \in AfterScan
    PROVE  ProvidedTo(Len(manifest.provides)) <=>
             /\ ProvidesNamed(Content.text)
             /\ \A i \in DOMAIN Content.text.provides : ProvidedFine(Content.text.provides[i])
<1> DEFINE provides == manifest.provides
           n == Len(provides)
<1>1. n \in Nat /\ DOMAIN provides = 1 .. n /\ Content.text.provides = provides
  BY DecodedTyped DEF Decoded
<1>2. (\A i, j \in 1 .. n : provides[i].type = provides[j].type => i = j)
      <=> \A k \in 1 .. n : provides[k].type \notin ProvidedBefore(k)
  <2>1. ASSUME \A i, j \in 1 .. n : provides[i].type = provides[j].type => i = j,
               NEW k \in 1 .. n, NEW j \in 1 .. k - 1, provides[k].type = provides[j].type
        PROVE  FALSE
    <3>1. j \in 1 .. n /\ j # k
      BY <1>1
    <3> QED
      BY <2>1, <3>1
  <2>2. ASSUME \A k \in 1 .. n : provides[k].type \notin ProvidedBefore(k),
               NEW i \in 1 .. n, NEW j \in 1 .. n, provides[i].type = provides[j].type
        PROVE  i = j
    <3>1. ~(i \in 1 .. j - 1) /\ ~(j \in 1 .. i - 1)
      BY <2>2 DEF ProvidedBefore
    <3> QED
      BY <1>1, <3>1
  <2> QED
    BY <2>1, <2>2 DEF ProvidedBefore
<1> QED
  BY <1>1, <1>2 DEF ProvidedTo, ProvidesNamed

-----------------------------------------------------------------------------
(* Open, step by step.                                                     *)

\* What Whole says of an archive does not change while the archive does not.
LEMMA WholeStays ==
    ASSUME UNCHANGED archive
    PROVE  Whole <=> Whole'
BY DEF Whole, Entries, At

\* Nor does what the scan has found.
LEMMA FoundStays ==
    ASSUME UNCHANGED <<archive, found>>
    PROVE  /\ \A n : Scanned(n) <=> Scanned(n)'
           /\ ManifestFound <=> ManifestFound'
           /\ Openable <=> Openable'
           /\ Content' = Content
           /\ Entries' = Entries
BY DEF Scanned, IsManifest, ManifestFound, Openable, Content, Entries

\* Nor does what was decoded.
LEMMA DecodedStays ==
    ASSUME UNCHANGED <<archive, found, manifest, table>>
    PROVE  /\ Decoded <=> Decoded'
           /\ \A n : ProvidedTo(n) <=> ProvidedTo(n)'
           /\ TreeIn(manifest.tree) <=> TreeIn(manifest.tree)'
           /\ ValidHead(Content.text) <=> ValidHead(Content.text)'
<1>1. Content' = Content /\ Entries' = Entries
  BY FoundStays
<1>2. Decoded <=> Decoded'
  BY <1>1 DEF Decoded
<1>3. \A definition : ProvidedFine(definition) <=> ProvidedFine(definition)'
  BY DEF ProvidedFine, ValidFields, ParsesFieldType, Resolves, IsRecord, Declared, DeclaredUpTo
<1>4. \A n : ProvidedTo(n) <=> ProvidedTo(n)'
  BY <1>3 DEF ProvidedTo, ProvidedBefore
<1>5. TreeIn(manifest.tree) <=> TreeIn(manifest.tree)'
  BY <1>1 DEF TreeIn, Matches
<1>6. ValidHead(Content.text) <=> ValidHead(Content.text)'
  BY <1>1
<1> QED
  BY <1>2, <1>4, <1>5, <1>6

\* Nor does the verdict on the table.
LEMMA VerdictStays ==
    ASSUME VerdictInv, UNCHANGED vars
    PROVE  VerdictInv'
<1>1. RecordInv'
  <2>1. PICK D, F : Inv(D, F)
    BY DEF VerdictInv, RecordInv
  <2>2. Inv(D, F)'
    BY <2>1, UnchangedKeeps
  <2> QED
    BY <2>2 DEF RecordInv
<1> QED
  BY <1>1, TestsStay DEF VerdictInv, vars

\* Nor does the start of the walk.
LEMMA StartStays ==
    ASSUME UNCHANGED <<phase, index, state, stack, clock, finish>>
    PROVE  Start <=> Start'
BY DEF Start

\* Open begins with nothing read.
LEMMA BundleStarts ==
    ASSUME BundleInit
    PROVE  BundleInv
BY DEF BundleInit, BundleInv, ArchiveInv, ManifestInv, RefusedIsFlawed, Steps, AfterScan, AfterRead,
       AfterHead, AfterRecords, AfterProvides

\* A step that moves on and changes nothing else keeps what was established.
LEMMA Unmoved ==
    ASSUME UNCHANGED <<vars, archive, at, found, manifest>>
    PROVE  /\ Whole <=> Whole'
           /\ \A n : Scanned(n) <=> Scanned(n)'
           /\ ManifestFound <=> ManifestFound'
           /\ Openable <=> Openable'
           /\ Entries' = Entries /\ Content' = Content
           /\ Start <=> Start'
           /\ Decoded <=> Decoded'
           /\ \A n : ProvidedTo(n) <=> ProvidedTo(n)'
           /\ TreeIn(manifest.tree) <=> TreeIn(manifest.tree)'
           /\ ValidHead(Content.text) <=> ValidHead(Content.text)'
           /\ VerdictInv => VerdictInv'
<1>1. /\ UNCHANGED archive /\ UNCHANGED <<archive, found>>
      /\ UNCHANGED <<archive, found, manifest, table>>
      /\ UNCHANGED <<phase, index, state, stack, clock, finish>>
      /\ UNCHANGED vars
  BY DEF vars
<1> QED
  BY <1>1, WholeStays, FoundStays, DecodedStays, VerdictStays, StartStays

\* A refusal is right when the archive is not whole.
LEMMA RefusalKeeps ==
    ASSUME BundleInv, RefuseBundle, ~Whole
    PROVE  BundleInv'
<1>1. /\ UNCHANGED <<vars, archive, at, found, manifest>> /\ step' = "refused"
      /\ archive \in Archives /\ at \in Nat \ {0}
  BY DEF RefuseBundle, Goto, BundleInv, ArchiveInv
<1>2. ~Whole'
  BY <1>1, Unmoved
<1> QED
  BY <1>1, <1>2 DEF BundleInv, ArchiveInv, ManifestInv, RefusedIsFlawed, Steps, AfterScan, AfterRead,
                    AfterHead, AfterRecords, AfterProvides

\* The archive opens, or it is none.
LEMMA OpenArchiveKeeps ==
    ASSUME BundleInv, OpenArchive
    PROVE  BundleInv'
<1>1. CASE archive.fault = "zip"
  BY <1>1, RefusalKeeps DEF OpenArchive, RefuseBundle, Whole
<1>2. CASE archive.fault # "zip"
  <2>1. /\ UNCHANGED <<vars, archive, at, found, manifest>> /\ step' = "scan"
        /\ archive \in Archives /\ at = 1 /\ found = 0 /\ Start
    BY <1>2 DEF OpenArchive, Goto, BundleInv, ArchiveInv
  <2>2. Len(Entries) \in Nat
    BY <2>1, ArchiveTyped
  <2>3. Scanned(at - 1) /\ at <= Len(Entries) + 1
    BY <2>1, <2>2 DEF Scanned
  <2>4. Scanned(at - 1)' /\ (at <= Len(Entries) + 1)' /\ Start'
    BY <2>1, <2>3, Unmoved
  <2> QED
    BY <1>2, <2>1, <2>4 DEF BundleInv, ArchiveInv, ManifestInv, RefusedIsFlawed, Steps, AfterScan,
                            AfterRead, AfterHead, AfterRecords, AfterProvides
<1> QED
  BY <1>1, <1>2

\* One more entry is scanned: it leaves the root, it is a second manifest, it
\* is the manifest, or it is another file.
LEMMA ScanEntryKeeps ==
    ASSUME BundleInv, ScanEntry
    PROVE  BundleInv'
<1>1. /\ archive \in Archives /\ step = "scan" /\ at \in Nat \ {0} /\ at <= Len(Entries)
      /\ Scanned(at - 1) /\ archive.fault # "zip" /\ Start
  BY DEF BundleInv, ArchiveInv, ScanEntry
<1>2. at \in DOMAIN Entries /\ Entries[at].path \in Paths /\ Len(Entries) \in Nat
      /\ DOMAIN Entries = 1 .. Len(Entries)
  BY <1>1, ArchiveTyped
<1> DEFINE path == Entries[at].path
           isManifest == Clean(path) = ManifestFileName
<1>3. CASE Unsafe(path)
  <2>1. ~Whole
    BY <1>1, <1>2, <1>3, UnsafeEscapes, NoManifestNotWhole
  <2> QED
    BY <1>3, <2>1, RefusalKeeps DEF ScanEntry
<1>4. CASE ~Unsafe(path)
  <2>1. ~Escapes(path) /\ (isManifest <=> IsManifest(at))
    BY <1>1, <1>2, <1>4, UnsafeEscapes, ManifestLeads
  <2>2. CASE isManifest /\ found # 0
    <3>1. found \in 1 .. at - 1 /\ IsManifest(found) /\ IsManifest(at)
      BY <2>1, <2>2, <1>1 DEF Scanned
    <3>2. found \in DOMAIN Entries /\ found # at
      BY <1>1, <1>2, <3>1
    <3>3. ~Whole
      BY <1>1, <1>2, <3>1, <3>2, NoManifestNotWhole
    <3> QED
      BY <2>2, <3>3, RefusalKeeps DEF ScanEntry
  <2>3. CASE ~(isManifest /\ found # 0)
    <3>1. /\ at' = at + 1 /\ found' = (IF isManifest THEN at ELSE found)
          /\ UNCHANGED <<vars, archive, step, manifest, blanks>>
      BY <1>4, <2>3 DEF ScanEntry
    <3>2. PICK n : n = at
      OBVIOUS
    <3>3. Scanned(n)'
      <4>1. 1 .. n = (1 .. n - 1) \cup {n} /\ n \notin 1 .. n - 1 /\ Scanned(n - 1)
        BY <1>1, <3>2
      <4>2. \A i \in 1 .. n : ~Escapes(Entries[i].path)
        BY <2>1, <3>2, <4>1 DEF Scanned
      <4>3. Entries' = Entries
        BY <3>1 DEF Entries
      <4>4. \A i : IsManifest(i)' <=> IsManifest(i)
        BY <4>3 DEF IsManifest
      <4>5. CASE isManifest
        <5>1. found = 0 /\ found' = n /\ IsManifest(n)
          BY <2>1, <2>3, <3>1, <3>2, <4>5
        <5>2. \A i \in 1 .. n - 1 : ~IsManifest(i)
          BY <4>1, <5>1 DEF Scanned
        <5>3. \A i \in 1 .. n : IsManifest(i) <=> i = n
          BY <4>1, <5>1, <5>2
        <5>4. n \in 1 .. n
          BY <4>1
        <5> QED
          BY <4>2, <4>3, <4>4, <5>1, <5>3, <5>4 DEF Scanned
      <4>6. CASE ~isManifest
        <5>1. found' = found /\ ~IsManifest(n)
          BY <2>1, <3>1, <3>2, <4>6
        <5>2. \/ found = 0 /\ \A i \in 1 .. n : ~IsManifest(i)
              \/ found \in 1 .. n /\ \A i \in 1 .. n : IsManifest(i) <=> i = found
          BY <4>1, <5>1 DEF Scanned
        <5> QED
          BY <4>2, <4>3, <4>4, <5>1, <5>2 DEF Scanned
      <4> QED
        BY <4>5, <4>6
    <3>4. at' - 1 = n /\ at' \in Nat \ {0} /\ at' <= Len(Entries) + 1 /\ Entries' = Entries
      BY <1>1, <1>2, <3>1, <3>2 DEF Entries
    <3>5. Scanned(at - 1)'
      BY <3>3, <3>4 DEF Scanned
    <3>6. Start'
      BY <1>1, <3>1, StartStays DEF vars
    <3> QED
      BY <1>1, <3>1, <3>4, <3>5, <3>6 DEF BundleInv, ArchiveInv, ManifestInv, RefusedIsFlawed, Steps,
            AfterScan, AfterRead, AfterHead, AfterRecords, AfterProvides
  <2> QED
    BY <2>2, <2>3
<1> QED
  BY <1>3, <1>4

\* The manifest opens, unless there is none or it is too large.
LEMMA OpenManifestKeeps ==
    ASSUME BundleInv, OpenManifest
    PROVE  BundleInv'
<1>1. /\ archive \in Archives /\ step = "scan" /\ at \in Nat \ {0} /\ at > Len(Entries)
      /\ at <= Len(Entries) + 1 /\ Scanned(at - 1) /\ archive.fault # "zip" /\ Start
  BY DEF BundleInv, ArchiveInv, OpenManifest
<1>2. Len(Entries) \in Nat /\ DOMAIN Entries = 1 .. Len(Entries)
  BY <1>1, ArchiveTyped
<1>3. Scanned(Len(Entries))
  <2>1. at - 1 = Len(Entries)
    BY <1>1, <1>2
  <2> QED
    BY <1>1, <2>1
<1>4. CASE found = 0
  <2>1. ~Whole
    BY <1>1, <1>2, <1>3, <1>4, NoManifestNotWhole DEF Scanned
  <2> QED
    BY <1>4, <2>1, RefusalKeeps DEF OpenManifest
<1>5. CASE found # 0
  <2>1. ManifestFound
    BY <1>2, <1>3, <1>5 DEF ManifestFound, Scanned
  <2>2. CASE ~Openable
    <3>1. ~Sound(Entries[found], MaxManifestSize)
      <4>1. Entries[found].size \in Nat
        BY <1>1, <2>1, ArchiveTyped DEF ManifestFound
      <4> QED
        BY <2>2, <4>1, BundleAssumption DEF Openable, Sound, TooLarge
    <3>2. ~Whole
      BY <1>1, <2>1, <3>1, WholeIs DEF WholeAt
    <3> QED
      BY <2>2, <3>2, RefusalKeeps DEF OpenManifest, Openable
  <2>3. CASE Openable
    <3>1. UNCHANGED <<vars, archive, at, found, manifest>> /\ step' = "decode"
      BY <1>5, <2>3 DEF OpenManifest, Openable, Goto
    <3>2. ManifestFound' /\ Openable' /\ Start'
      BY <1>1, <2>1, <2>3, <3>1, Unmoved
    <3> QED
      BY <1>1, <3>1, <3>2 DEF BundleInv, ArchiveInv, ManifestInv, RefusedIsFlawed, Steps,
            AfterScan, AfterRead, AfterHead, AfterRecords, AfterProvides
  <2> QED
    BY <2>2, <2>3
<1> QED
  BY <1>4, <1>5

-----------------------------------------------------------------------------
(* The rest of Open, step by step.                                         *)

\* Once the manifest is open, the archive is whole when the steps that are
\* left all succeed.
LEMMA WholeSteps ==
    ASSUME ArchiveInv, step \in AfterScan
    PROVE  Whole <=> /\ archive.fault = "none"
                     /\ Parses(Entries[found])
                     /\ Entries[found].fault # "close"
                     /\ ValidHead(Content.text)
                     /\ ProvidesNamed(Content.text)
                     /\ TypesSound(Content.text)
                     /\ Content.text.tree # NoTree => TreeIn(Content.text.tree)
<1>1. archive \in Archives /\ ManifestFound /\ Openable /\ found \in DOMAIN Entries
  BY DEF ArchiveInv, ManifestFound
<1>2. /\ Content.text \in ManifestTexts /\ Content = Entries[found].holds
      /\ Entries[found].size \in Nat /\ Entries[found].length \in Nat
      /\ Entries[found].fault \in {"none", "open", "read", "close"}
  BY <1>1, ArchiveTyped DEF Content
<1>3. Whole <=> WholeAt(found)
  BY <1>1, WholeIs
<1>4. /\ Entries[found].holds.kind = "toml" /\ Sound(Entries[found], MaxManifestSize)
      /\ Read(Content.text)
      <=> Parses(Entries[found]) /\ Entries[found].fault # "close"
  BY <1>1, <1>2, BundleAssumption DEF Openable, Sound, Parses, Read, TooLarge
<1>5. TextSound(Content.text) /\ TreeNamed(Content.text) <=>
        /\ Read(Content.text) /\ ValidHead(Content.text)
        /\ ProvidesNamed(Content.text) /\ TypesSound(Content.text)
  BY <1>2, TextSoundIs
<1> QED
  BY <1>2, <1>3, <1>4, <1>5 DEF WholeAt

\* The same, of a manifest that is decoded.
LEMMA DecodedWhole ==
    ASSUME ArchiveInv, Decoded, step \in AfterScan
    PROVE  Whole <=> /\ archive.fault = "none"
                     /\ Entries[found].fault # "close"
                     /\ ValidHead(Content.text)
                     /\ TableFine
                     /\ ProvidedTo(Len(manifest.provides))
                     /\ manifest.tree # NoTree => TreeIn(manifest.tree)
<1>1. /\ Content.text \in ManifestTexts /\ table = Content.text.types /\ table \in AllTables
      /\ Parses(Entries[found]) /\ manifest.tree = Content.text.tree
  BY DecodedTyped DEF Decoded
<1>2. TypesSound(Content.text) <=>
        /\ TableFine
        /\ \A i \in DOMAIN Content.text.provides : ProvidedFine(Content.text.provides[i])
  BY <1>1, TypesSoundIs
<1> QED
  BY <1>1, <1>2, WholeSteps, ProvidedIs

\* The manifest is read, unless it cannot be.
LEMMA ReadManifestKeeps ==
    ASSUME BundleInv, ReadManifest
    PROVE  BundleInv'
<1>1. /\ ArchiveInv /\ step = "decode" /\ step \in AfterScan /\ Start /\ ManifestFound /\ Openable
      /\ archive.fault # "zip" /\ archive \in Archives /\ at \in Nat \ {0}
  BY DEF BundleInv, ArchiveInv, ReadManifest, AfterScan
<1>2. CASE ~Parses(Entries[found])
  <2>1. ~Whole
    BY <1>1, <1>2, WholeSteps
  <2> QED
    BY <1>2, <2>1, RefusalKeeps DEF ReadManifest
<1>3. CASE Parses(Entries[found])
  <2>1. /\ UNCHANGED <<phase, index, state, stack, clock, finish, archive, at, found>>
        /\ step' = "validate" /\ table' = Content.text.types
        /\ manifest'.tree = Content.text.tree /\ manifest'.provides = Content.text.provides
    BY <1>3 DEF ReadManifest
  <2>2. ManifestFound' /\ Openable' /\ Content' = Content /\ Entries' = Entries /\ Start'
    BY <1>1, <2>1, FoundStays, StartStays
  <2>3. Decoded'
    BY <1>3, <2>1, <2>2 DEF Decoded
  <2> QED
    BY <1>1, <2>1, <2>2, <2>3 DEF BundleInv, ArchiveInv, ManifestInv, RefusedIsFlawed, Steps, AfterScan,
          AfterRead, AfterHead, AfterRecords, AfterProvides
<1> QED
  BY <1>2, <1>3

\* The manifest passes the checks of its head.
LEMMA ValidateManifestKeeps ==
    ASSUME BundleInv, ValidateManifest
    PROVE  BundleInv'
<1>1. /\ ArchiveInv /\ step = "validate" /\ step \in AfterScan /\ Start /\ ManifestFound /\ Openable
      /\ archive.fault # "zip" /\ archive \in Archives /\ at \in Nat \ {0} /\ Decoded
  BY DEF BundleInv, ArchiveInv, ManifestInv, ValidateManifest, AfterScan, AfterRead
<1>2. CASE ~ValidHead(Content.text)
  <2>1. ~Whole
    BY <1>1, <1>2, DecodedWhole
  <2> QED
    BY <1>2, <2>1, RefusalKeeps DEF ValidateManifest, RefuseBundle
<1>3. CASE ValidHead(Content.text)
  <2>1. UNCHANGED <<vars, archive, at, found, manifest>> /\ step' = "records"
    BY <1>3 DEF ValidateManifest, Goto
  <2>2. VerdictInv
    <3>1. Content.text \in ManifestTexts /\ table = Content.text.types
      BY <1>1, DecodedTyped
    <3>2. table \in Tables
      BY <3>1 DEF ManifestTexts
    <3> QED
      BY <1>1, <3>2, VerdictStarts
  <2>3. ManifestFound' /\ Openable' /\ Decoded' /\ ValidHead(Content.text)' /\ VerdictInv'
    BY <1>1, <1>3, <2>1, <2>2, Unmoved
  <2> QED
    BY <1>1, <2>1, <2>3 DEF BundleInv, ArchiveInv, ManifestInv, RefusedIsFlawed, Steps, AfterScan,
          AfterRead, AfterHead, AfterRecords, AfterProvides
<1> QED
  BY <1>2, <1>3

\* The walk of the records leaves the table alone.
LEMMA TableKept ==
    ASSUME Next
    PROVE  UNCHANGED table
BY DEF Next, CheckRecord, ResolveRecord, WalkNext, WalkField, WalkReturns, WalkEnds, Terminated, Advance,
       Refuse, vars

\* A step of the walk.
LEMMA ValidateRecordsKeeps ==
    ASSUME BundleInv, ValidateRecords
    PROVE  BundleInv'
<1>1. /\ ArchiveInv /\ step = "records" /\ ManifestFound /\ Openable /\ VerdictInv
      /\ archive.fault # "zip" /\ archive \in Archives /\ at \in Nat \ {0} /\ Decoded
      /\ ValidHead(Content.text)
  BY DEF BundleInv, ArchiveInv, ManifestInv, ValidateRecords, AfterScan, AfterRead, AfterHead
<1>2. UNCHANGED <<archive, step, at, found, manifest, table>> /\ VerdictInv'
  BY <1>1, TableKept, VerdictKept DEF ValidateRecords, openVars
<1>3. ManifestFound' /\ Openable' /\ Decoded' /\ ValidHead(Content.text)'
  BY <1>1, <1>2, FoundStays, DecodedStays
<1> QED
  BY <1>1, <1>2, <1>3 DEF BundleInv, ArchiveInv, ManifestInv, RefusedIsFlawed, Steps, AfterScan,
        AfterRead, AfterHead, AfterRecords, AfterProvides

\* The end of the walk.
LEMMA RecordsDoneKeeps ==
    ASSUME BundleInv, RecordsDone
    PROVE  BundleInv'
<1>1. /\ ArchiveInv /\ step = "records" /\ step \in AfterScan /\ ManifestFound /\ Openable /\ VerdictInv
      /\ archive.fault # "zip" /\ archive \in Archives /\ Decoded /\ ValidHead(Content.text)
      /\ phase \notin Running
  BY DEF BundleInv, ArchiveInv, ManifestInv, RecordsDone, AfterScan, AfterRead, AfterHead
<1>2. CASE phase # "accepted"
  <2>1. ~TableFine
    BY <1>1, <1>2, VerdictOfTable
  <2>2. ~Whole
    BY <1>1, <2>1, DecodedWhole
  <2> QED
    BY <1>2, <2>2, RefusalKeeps DEF RecordsDone
<1>3. CASE phase = "accepted"
  <2>1. /\ at' = 1 /\ step' = "provides"
        /\ UNCHANGED <<archive, found, manifest, table>> /\ UNCHANGED vars
        /\ UNCHANGED phase
    BY <1>3 DEF RecordsDone, vars
  <2>2. /\ ManifestFound' /\ Openable' /\ Decoded' /\ ValidHead(Content.text)'
    BY <1>1, <2>1, FoundStays, DecodedStays
  <2>3. VerdictInv'
    BY <1>1, <2>1, VerdictStays
  <2>4. manifest' = manifest /\ Len(manifest.provides) \in Nat
    BY <1>1, <2>1, DecodedTyped
  <2>5. (at <= Len(manifest.provides) + 1)' /\ ProvidedTo(at - 1)'
    BY <2>1, <2>4 DEF ProvidedTo
  <2> QED
    BY <1>1, <1>3, <2>1, <2>2, <2>3, <2>5 DEF BundleInv, ArchiveInv, ManifestInv, RefusedIsFlawed, Steps,
          AfterScan, AfterRead, AfterHead, AfterRecords, AfterProvides
<1> QED
  BY <1>2, <1>3

\* One more provided event is validated.
LEMMA ValidateProvidedKeeps ==
    ASSUME BundleInv, ValidateProvided
    PROVE  BundleInv'
<1>1. /\ ArchiveInv /\ step = "provides" /\ step \in AfterScan /\ ManifestFound /\ Openable /\ VerdictInv
      /\ archive.fault # "zip" /\ archive \in Archives /\ Decoded /\ ValidHead(Content.text)
      /\ phase = "accepted" /\ at \in Nat \ {0} /\ at <= Len(manifest.provides) /\ ProvidedTo(at - 1)
  BY DEF BundleInv, ArchiveInv, ManifestInv, ValidateProvided, AfterScan, AfterRead, AfterHead, AfterRecords
<1>2. Len(manifest.provides) \in Nat
  BY <1>1, DecodedTyped
<1> PICK n : n = at
  OBVIOUS
<1> DEFINE good == /\ ValidEventType(manifest.provides[n].type)
                   /\ manifest.provides[n].type \notin ProvidedBefore(n)
                   /\ ProvidedFine(manifest.provides[n])
<1>3. IF good THEN at' = at + 1 /\ UNCHANGED <<vars, archive, step, found, manifest, blanks>>
              ELSE RefuseBundle
  BY DEF ValidateProvided, ProvidedFine
<1>4. CASE ~good
  <2>1. n \in 1 .. Len(manifest.provides)
    BY <1>1, <1>2
  <2>2. ~ProvidedTo(Len(manifest.provides))
    BY <1>4, <2>1 DEF ProvidedTo
  <2>3. ~Whole
    BY <1>1, <2>2, DecodedWhole
  <2> QED
    BY <1>3, <1>4, <2>3, RefusalKeeps
<1>5. CASE good
  <2>1. at' = at + 1 /\ UNCHANGED <<archive, step, found, manifest, table, phase>> /\ UNCHANGED vars
    BY <1>3, <1>5 DEF vars
  <2>2. ManifestFound' /\ Openable' /\ Decoded' /\ ValidHead(Content.text)' /\ VerdictInv'
    BY <1>1, <2>1, FoundStays, DecodedStays, VerdictStays
  <2>3. 1 .. n = (1 .. n - 1) \cup {n}
    BY <1>1
  <2>4. ProvidedTo(n)
    BY <1>1, <1>5, <2>3 DEF ProvidedTo
  <2>5. ProvidedTo(n)'
    BY <2>1, <2>4, DecodedStays
  <2>6. at' - 1 = n /\ (at <= Len(manifest.provides) + 1)' /\ at' \in Nat \ {0}
    BY <1>1, <1>2, <2>1
  <2>7. ProvidedTo(at - 1)'
    BY <2>5, <2>6 DEF ProvidedTo
  <2> QED
    BY <1>1, <2>1, <2>2, <2>6, <2>7 DEF BundleInv, ArchiveInv, ManifestInv, RefusedIsFlawed, Steps,
          AfterScan, AfterRead, AfterHead, AfterRecords, AfterProvides
<1> QED
  BY <1>4, <1>5

\* What holds from the records on, of a step that moves on and keeps the rest.
LEMMA MovesOn ==
    ASSUME BundleInv, step \in AfterProvides \cup {"provides"}, ProvidedTo(Len(manifest.provides)),
           Entries[found].fault # "close",
           UNCHANGED <<vars, archive, at, found, manifest>>, step' \in AfterProvides,
           step' = "tree" => manifest.tree # NoTree,
           step' \in {"locate", "loaded", "warm"} => manifest.tree = NoTree \/ TreeIn(manifest.tree),
           step' \in {"loaded", "warm"} => archive.fault # "cwd"
    PROVE  BundleInv'
<1>1. /\ ManifestFound /\ Openable /\ VerdictInv /\ Decoded /\ ValidHead(Content.text)
      /\ archive.fault # "zip" /\ archive \in Archives /\ phase = "accepted" /\ at \in Nat \ {0}
  BY DEF BundleInv, ArchiveInv, ManifestInv, AfterScan, AfterRead, AfterHead, AfterRecords, AfterProvides
<1>2. /\ ManifestFound' /\ Openable' /\ VerdictInv' /\ Decoded' /\ ValidHead(Content.text)'
      /\ Entries' = Entries
  BY <1>1, Unmoved
<1>3. ProvidedTo(Len(manifest.provides))' /\ (TreeIn(manifest.tree) <=> TreeIn(manifest.tree)')
  <2>1. UNCHANGED <<archive, found, manifest, table>>
    BY DEF vars
  <2> PICK n : n = Len(manifest.provides)
    OBVIOUS
  <2>2. ProvidedTo(n)' /\ Len(manifest'.provides) = n
    BY <2>1, DecodedStays
  <2>3. ProvidedTo(Len(manifest.provides))'
    BY <2>2 DEF ProvidedTo
  <2> QED
    BY <2>1, <2>3, DecodedStays
<1>4. phase' = phase
  BY DEF vars
<1> QED
  BY <1>1, <1>2, <1>3, <1>4 DEF BundleInv, ArchiveInv, ManifestInv, RefusedIsFlawed, Steps,
        AfterScan, AfterRead, AfterHead, AfterRecords, AfterProvides

\* The manifest is closed.
LEMMA CloseManifestKeeps ==
    ASSUME BundleInv, CloseManifest
    PROVE  BundleInv'
<1>1. /\ ArchiveInv /\ step = "provides" /\ step \in AfterScan /\ Decoded /\ at \in Nat \ {0}
      /\ at > Len(manifest.provides) /\ at <= Len(manifest.provides) + 1 /\ ProvidedTo(at - 1)
  BY DEF BundleInv, ArchiveInv, ManifestInv, CloseManifest, AfterScan, AfterRead, AfterHead, AfterRecords
<1>2. Len(manifest.provides) \in Nat
  BY <1>1, DecodedTyped
<1>3. ProvidedTo(Len(manifest.provides))
  <2>1. at - 1 = Len(manifest.provides)
    BY <1>1, <1>2
  <2> QED
    BY <1>1, <2>1
<1>4. CASE Entries[found].fault = "close"
  <2>1. ~Whole
    BY <1>1, <1>4, DecodedWhole
  <2> QED
    BY <1>4, <2>1, RefusalKeeps DEF CloseManifest, RefuseBundle
<1>5. CASE Entries[found].fault # "close"
  <2>1. /\ UNCHANGED <<vars, archive, at, found, manifest>>
        /\ step' = IF manifest.tree = NoTree THEN "locate" ELSE "tree"
    BY <1>5 DEF CloseManifest, Goto
  <2> QED
    BY <1>1, <1>3, <1>5, <2>1, MovesOn DEF AfterProvides
<1> QED
  BY <1>4, <1>5

\* The steps after the manifest, where all of it stands.
LEMMA ManifestStands ==
    ASSUME BundleInv, step \in AfterProvides
    PROVE  /\ ArchiveInv /\ archive \in Archives /\ step \in AfterScan /\ Decoded
           /\ ProvidedTo(Len(manifest.provides)) /\ Entries[found].fault # "close"
           /\ archive.fault \in {"none", "cwd"}
           /\ ValidHead(Content.text) /\ TableFine
<1>1. /\ ArchiveInv /\ archive \in Archives /\ step \in AfterScan /\ Decoded
      /\ ProvidedTo(Len(manifest.provides)) /\ Entries[found].fault # "close"
      /\ archive.fault # "zip" /\ ValidHead(Content.text) /\ VerdictInv /\ phase = "accepted"
  BY DEF BundleInv, ArchiveInv, ManifestInv, AfterScan, AfterRead, AfterHead, AfterRecords, AfterProvides
<1> QED
  BY <1>1, ArchiveTyped, VerdictOfTable

\* The command tree is read.
LEMMA ReadTreeKeeps ==
    ASSUME BundleInv, ReadTree
    PROVE  BundleInv'
<1>1. step = "tree" /\ step \in AfterProvides /\ manifest.tree # NoTree
  BY DEF ReadTree, AfterProvides, BundleInv, ManifestInv
<1>2. Goto(IF TreeIn(manifest.tree) THEN "locate" ELSE "refused")
  <2> DEFINE matches == Matches(Clean(manifest.tree))
  <2>1. (\E i \in matches : /\ matches = {i}
                            /\ Readable(Entries[i], MaxTreeSize)
                            /\ Entries[i].holds.kind = "tree")
        <=> TreeIn(manifest.tree)
    <3>1. matches \subseteq DOMAIN Entries
      BY DEF Matches
    <3> HIDE DEF matches
    <3> QED
      BY <3>1 DEF TreeIn, matches
  <2> QED
    BY <2>1 DEF ReadTree
<1>3. CASE ~TreeIn(manifest.tree)
  <2>1. ~Whole
    BY <1>1, <1>3, ManifestStands, DecodedWhole
  <2> QED
    BY <1>2, <1>3, <2>1, RefusalKeeps DEF RefuseBundle
<1>4. CASE TreeIn(manifest.tree)
  <2>1. UNCHANGED <<vars, archive, at, found, manifest>> /\ step' = "locate"
    BY <1>2, <1>4 DEF Goto
  <2> QED
    BY <1>1, <1>4, <2>1, ManifestStands, MovesOn DEF AfterProvides
<1> QED
  BY <1>3, <1>4

\* The bundle is located.
LEMMA LocateKeeps ==
    ASSUME BundleInv, Locate
    PROVE  BundleInv'
<1>1. /\ step = "locate" /\ step \in AfterProvides
      /\ manifest.tree = NoTree \/ TreeIn(manifest.tree)
  BY DEF Locate, AfterProvides, BundleInv, ManifestInv
<1>2. CASE archive.fault = "cwd"
  <2>1. ~Whole
    BY <1>1, <1>2, ManifestStands, DecodedWhole
  <2> QED
    BY <1>2, <2>1, RefusalKeeps DEF Locate, RefuseBundle
<1>3. CASE archive.fault # "cwd"
  <2>1. UNCHANGED <<vars, archive, at, found, manifest>> /\ step' = "loaded"
    BY <1>3 DEF Locate, Goto
  <2> QED
    BY <1>1, <1>3, <2>1, ManifestStands, MovesOn DEF AfterProvides
<1> QED
  BY <1>2, <1>3

\* The host warms what the plugin provides.
LEMMA WarmKeeps ==
    ASSUME BundleInv, Warm
    PROVE  BundleInv'
<1>1. /\ step = "loaded" /\ step \in AfterProvides
      /\ manifest.tree = NoTree \/ TreeIn(manifest.tree)
      /\ archive.fault # "cwd"
  BY DEF Warm, AfterProvides, BundleInv, ManifestInv
<1>2. UNCHANGED <<vars, archive, at, found, manifest>> /\ step' = "warm"
  BY DEF Warm
<1> QED
  BY <1>1, <1>2, ManifestStands, MovesOn DEF AfterProvides

\* A step that changes nothing.
LEMMA BundleStutters ==
    ASSUME BundleInv, UNCHANGED bundleVars
    PROVE  BundleInv'
<1>1. /\ UNCHANGED <<vars, archive, at, found, manifest>> /\ step' = step /\ phase' = phase
      /\ UNCHANGED <<archive, found, manifest, table>>
  BY DEF bundleVars, openVars, vars
<1>2. /\ Whole <=> Whole'
      /\ ManifestFound <=> ManifestFound'
      /\ Openable <=> Openable'
      /\ Entries' = Entries
      /\ Start <=> Start'
      /\ Decoded <=> Decoded'
      /\ TreeIn(manifest.tree) <=> TreeIn(manifest.tree)'
      /\ ValidHead(Content.text) <=> ValidHead(Content.text)'
      /\ VerdictInv => VerdictInv'
  BY <1>1, Unmoved
<1> PICK n, m : n = at - 1 /\ m = Len(manifest.provides)
  OBVIOUS
<1>3. (Scanned(n) <=> Scanned(n)') /\ (ProvidedTo(n) <=> ProvidedTo(n)') /\ (ProvidedTo(m) <=> ProvidedTo(m)')
  BY <1>1, Unmoved
<1>4. at' - 1 = n /\ Len(manifest'.provides) = m
  BY <1>1
<1>5. /\ Scanned(at - 1) <=> Scanned(at - 1)'
      /\ ProvidedTo(at - 1) <=> ProvidedTo(at - 1)'
      /\ ProvidedTo(Len(manifest.provides)) <=> ProvidedTo(Len(manifest.provides))'
  BY <1>3, <1>4 DEF Scanned, ProvidedTo
<1>6. ArchiveInv'
  BY <1>1, <1>2, <1>5 DEF BundleInv, ArchiveInv
<1>7. ManifestInv'
  BY <1>1, <1>2, <1>5 DEF BundleInv, ManifestInv
<1>8. RefusedIsFlawed'
  BY <1>1, <1>2 DEF BundleInv, RefusedIsFlawed
<1> QED
  BY <1>6, <1>7, <1>8 DEF BundleInv

-----------------------------------------------------------------------------
(* The blanks.  What BlankField answers at a depth is named after it: the  *)
(* fields, the elements in them, and the pairs of a map.                   *)

\* What blankField answers at a depth, of each type, from one level further in.
BlanksAt(depth, inner) ==
    [type \in Types |->
        IF ~ParsesFieldType(type) \/ TooDeep(depth)
        THEN List(<<>>)
        ELSE BlankType(type, inner)]

\* The recursion of blankField ends, so that there is an answer at each depth.
LEMMA BlankFieldIs ==
    BlankField = [depth \in 0 .. MaxBlankDepth + 2 |-> BlanksAt(depth, BlankField[depth + 1])]
<1> DEFINE N == MaxBlankDepth + 2
           good(f, n) == f = [depth \in N - n .. N |-> BlanksAt(depth, f[depth + 1])]
           T == { n \in 0 .. N : \E f : good(f, n) }
<1>1. N \in Nat /\ MaxBlankDepth \in Nat
  BY BlankAssumption
<1>2. 0 \in T
  <2> DEFINE f == [depth \in N - 0 .. N |-> [type \in Types |-> List(<<>>)]]
  <2>1. \A depth \in N - 0 .. N : TooDeep(depth)
    BY <1>1 DEF TooDeep
  <2>2. \A depth \in N - 0 .. N : f[depth] = BlanksAt(depth, f[depth + 1])
    <3> SUFFICES ASSUME NEW depth \in N - 0 .. N
                 PROVE  f[depth] = BlanksAt(depth, f[depth + 1])
      OBVIOUS
    <3> DEFINE inner == f[depth + 1]
    <3> HIDE DEF inner
    <3>1. BlanksAt(depth, inner) = [type \in Types |-> List(<<>>)]
      BY <2>1 DEF BlanksAt
    <3> QED
      BY <3>1 DEF inner
  <2>3. f = [depth \in N - 0 .. N |-> f[depth]]
    OBVIOUS
  <2> HIDE DEF f, N
  <2>4. f = [depth \in N - 0 .. N |-> BlanksAt(depth, f[depth + 1])]
    BY <2>2, <2>3
  <2> QED
    BY <1>1, <2>4
<1>3. ASSUME NEW n \in 0 .. N - 1, n \in T PROVE n + 1 \in T
  <2>1. PICK f : good(f, n)
    BY <1>3
  <2> DEFINE low == N - (n + 1)
             g == [depth \in low .. N |-> IF depth = low THEN BlanksAt(low, f[low + 1]) ELSE f[depth]]
  <2>2. low + 1 = N - n /\ low \in 0 .. N /\ low \in Int /\ n + 1 \in 0 .. N
    BY <1>1
  <2>3. ASSUME NEW depth \in low .. N PROVE g[depth] = BlanksAt(depth, g[depth + 1])
    <3>1. CASE depth = N /\ depth # low
      <4>1. TooDeep(depth) /\ depth \in N - n .. N
        BY <1>1, <2>2, <3>1 DEF TooDeep
      <4>2. \A inner : BlanksAt(depth, inner) = [type \in Types |-> List(<<>>)]
        BY <4>1 DEF BlanksAt
      <4>3. f[depth] = BlanksAt(depth, f[depth + 1])
        <5> HIDE DEF N
        <5> QED
          BY <2>1, <4>1
      <4>4. g[depth] = f[depth]
        BY <3>1
      <4> HIDE DEF g, N, low
      <4> QED
        BY <4>2, <4>3, <4>4
    <3>2. CASE depth # N /\ depth # low
      <4>1. depth \in N - n .. N /\ depth + 1 \in low .. N /\ depth + 1 # low
        BY <1>1, <2>2, <3>2
      <4>2. f[depth] = BlanksAt(depth, f[depth + 1])
        <5> HIDE DEF N
        <5> QED
          BY <2>1, <4>1
      <4>3. g[depth] = f[depth] /\ g[depth + 1] = f[depth + 1]
        BY <3>2, <4>1
      <4> HIDE DEF g, N, low
      <4> QED
        BY <4>2, <4>3
    <3>3. CASE depth = low
      <4>1. depth + 1 \in low .. N /\ depth + 1 # low
        BY <1>1, <2>2, <3>3
      <4>2. g[depth] = BlanksAt(depth, f[depth + 1]) /\ g[depth + 1] = f[depth + 1]
        BY <3>3, <4>1
      <4> HIDE DEF g, N, low
      <4> QED
        BY <4>2
    <3> QED
      BY <3>1, <3>2, <3>3
  <2>4. g = [depth \in low .. N |-> g[depth]]
    OBVIOUS
  <2> HIDE DEF g
  <2>5. g = [depth \in N - (n + 1) .. N |-> BlanksAt(depth, g[depth + 1])]
    <3> HIDE DEF N
    <3> QED
      BY <2>3, <2>4
  <2> HIDE DEF N
  <2> QED
    BY <2>2, <2>5
<1>4. N \in T
  <2> HIDE DEF T, N
  <2>1. 0 .. N \subseteq T
    BY <1>1, <1>2, <1>3, UpTo
  <2> QED
    BY <1>1, <2>1
<1>5. \E f : f = [depth \in 0 .. N |-> BlanksAt(depth, f[depth + 1])]
  <2>1. N - N = 0
    BY <1>1
  <2> HIDE DEF N
  <2> QED
    BY <1>4, <2>1
<1> DEFINE blank == CHOOSE f : f = [depth \in 0 .. N |-> BlanksAt(depth, f[depth + 1])]
<1>6. BlankField = blank
  BY DEF BlankField, BlanksAt
<1>7. blank = [depth \in 0 .. N |-> BlanksAt(depth, blank[depth + 1])]
  <2> HIDE DEF N
  <2> QED
    BY <1>5
<1> HIDE DEF blank
<1> QED
  BY <1>6, <1>7

Leaves == { Scalar(kind, Zero) : kind \in ScalarKinds }
FieldsAt(d) == { BlankField[d][type] : type \in Types }
ElementsAt(d) == { BlankElement(element, BlankField[d + 1]) : element \in Names \cup Scalars }
PairsAt(d) == { List(<<Scalar("string", Zero), element>>) : element \in ElementsAt(d) }

\* What may be k levels inside a blank: a field of the depth d has no more than
\* three levels, its list or map, the pair, and the record, for each depth above.
InStage(v, k) ==
    \/ k <= 3 * MaxBlankDepth + 3 /\ v \in Leaves
    \/ \E d \in 0 .. MaxBlankDepth + 1 : k <= 3 * d /\ v \in FieldsAt(d)
    \/ \E d \in 0 .. MaxBlankDepth : k <= 3 * d + 1 /\ v \in PairsAt(d)
    \/ \E d \in 0 .. MaxBlankDepth : k <= 3 * d + 2 /\ v \in ElementsAt(d)

Blanks ==
    Leaves \cup UNION { FieldsAt(d) \cup PairsAt(d) \cup ElementsAt(d) : d \in 0 .. MaxBlankDepth + 1 }
Stage(k) == { v \in Blanks : InStage(v, k) }

\* It is in the stage exactly when it may be there.
LEMMA StageHas ==
    ASSUME NEW v, NEW k \in Nat
    PROVE  v \in Stage(k) <=> InStage(v, k)
<1>1. \A d \in 0 .. MaxBlankDepth : d \in 0 .. MaxBlankDepth + 1
  BY BlankAssumption
<1>2. InStage(v, k) => v \in Blanks
  BY <1>1 DEF InStage, Blanks
<1> QED
  BY <1>2 DEF Stage

\* Nothing is further inside than the first three levels of each depth.
LEMMA StagesShrink ==
    ASSUME NEW k \in Nat
    PROVE  /\ Stage(k + 1) \subseteq Stage(k)
           /\ k > 3 * MaxBlankDepth + 3 => Stage(k) = {}
<1>1. ASSUME NEW v, InStage(v, k + 1) PROVE InStage(v, k)
  BY <1>1, BlankAssumption DEF InStage
<1>2. ASSUME NEW v, InStage(v, k) PROVE k <= 3 * MaxBlankDepth + 3
  BY <1>2, BlankAssumption DEF InStage
<1>3. Stage(k + 1) \subseteq Stage(k)
  <2> SUFFICES ASSUME NEW v \in Stage(k + 1) PROVE v \in Stage(k)
    OBVIOUS
  <2>1. k + 1 \in Nat
    OBVIOUS
  <2>2. InStage(v, k + 1)
    BY <2>1, StageHas
  <2> QED
    BY <1>1, <2>2, StageHas
<1>4. ASSUME k > 3 * MaxBlankDepth + 3, NEW v \in Stage(k) PROVE FALSE
  BY <1>2, <1>4, StageHas, BlankAssumption
<1> QED
  BY <1>3, <1>4

\* A sequence of one or two.
LEMMA ShortSeqs ==
    ASSUME NEW S, NEW a \in S, NEW b \in S, NEW c \in S
    PROVE  <<>> \in Seq(S) /\ <<a>> \in Seq(S) /\ <<a, b>> \in Seq(S) /\ <<a, b, c>> \in Seq(S)
OBVIOUS

\* What is in a blank is one level further in.
LEMMA ElementInside ==
    ASSUME table \in AllTables, NEW k \in Nat, NEW d \in 0 .. MaxBlankDepth, k <= 3 * d + 2,
           NEW v \in ElementsAt(d)
    PROVE  /\ v.kind \in ScalarKinds \cup {"list"}
           /\ IsList(v) => v.of \in Seq(Stage(k + 1))
<1> PICK element \in Names \cup Scalars : v = BlankElement(element, BlankField[d + 1])
  BY DEF ElementsAt
<1>1. k + 1 \in Nat /\ k + 1 <= 3 * MaxBlankDepth + 3 /\ k + 1 <= 3 * (d + 1)
      /\ d + 1 \in 0 .. MaxBlankDepth + 1
  BY BlankAssumption
<1>2. Leaves \subseteq Stage(k + 1)
  BY <1>1, StageHas DEF InStage
<1>3. CASE element = PlayerRef
  <2>1. Scalar("bytes", Zero) \in Stage(k + 1) /\ Scalar("string", Zero) \in Stage(k + 1)
    BY <1>2 DEF Leaves, ScalarKinds
  <2>2. v = List(<<Scalar("bytes", Zero), Scalar("string", Zero), Scalar("string", Zero)>>)
    BY <1>3 DEF BlankElement, BlankPlayerRef
  <2> HIDE DEF Stage
  <2>3. <<Scalar("bytes", Zero), Scalar("string", Zero), Scalar("string", Zero)>> \in Seq(Stage(k + 1))
    BY <2>1, ShortSeqs
  <2> QED
    BY <2>2, <2>3 DEF List
<1>4. CASE element # PlayerRef /\ element \in Scalars
  <2>1. v = Scalar(KindOf[element], Zero) /\ KindOf[element] \in ScalarKinds
    BY <1>4, BlankAssumption DEF BlankElement
  <2> QED
    BY <2>1 DEF Scalar, IsList, ScalarKinds
<1>5. CASE element # PlayerRef /\ element \notin Scalars /\ element \notin Declared
  <2>1. v = List(<<>>)
    BY <1>5 DEF BlankElement
  <2> QED
    BY <2>1, EmptySeq DEF List
<1>6. CASE element # PlayerRef /\ element \notin Scalars /\ element \in Declared
  <2>1. \A j \in DOMAIN table : table[j].fields \in AllFields
    <3>1. DOMAIN table = 1 .. Len(table)
      BY DEF AllTables
    <3>2. \A j \in DOMAIN table : table[j] \in [name : Names, fields : AllFields]
      BY <3>1, ElementOfSeq DEF AllTables
    <3> QED
      BY <3>2
  <2> DEFINE fields == FieldsOf(element)
             values == [i \in DOMAIN fields |-> BlankField[d + 1][fields[i].type]]
  <2>2. v = List(values)
    BY <1>6 DEF BlankElement
  <2>3. fields \in AllFields
    <3>1. PICK j \in DOMAIN table : table[j].name = element /\ fields = table[j].fields
      BY <1>6, FieldsOfDeclared
    <3> QED
      BY <2>1, <3>1
  <2> HIDE DEF fields, values
  <2>4. /\ Len(fields) \in Nat /\ DOMAIN fields = 1 .. Len(fields)
        /\ \A i \in 1 .. Len(fields) : fields[i].type \in Types
    <3>1. Len(fields) \in Nat /\ DOMAIN fields = 1 .. Len(fields)
      BY <2>3 DEF AllFields
    <3>2. \A i \in 1 .. Len(fields) : fields[i] \in [name : STRING, type : Types]
      BY <2>3, ElementOfSeq DEF AllFields
    <3> QED
      BY <3>1, <3>2
  <2>5. ASSUME NEW i \in 1 .. Len(fields) PROVE BlankField[d + 1][fields[i].type] \in Stage(k + 1)
    <3>1. BlankField[d + 1][fields[i].type] \in FieldsAt(d + 1)
      BY <2>4 DEF FieldsAt
    <3> QED
      BY <1>1, <3>1, StageHas DEF InStage
  <2> DEFINE n == Len(fields)
             value(i) == BlankField[d + 1][fields[i].type]
  <2>6. values = [i \in 1 .. n |-> value(i)]
    BY <2>4 DEF values
  <2>7. values \in Seq(Stage(k + 1))
    <3>1. n \in Nat /\ \A i \in 1 .. n : value(i) \in Stage(k + 1)
      BY <2>4, <2>5
    <3> HIDE DEF n, value
    <3>2. values \in [1 .. n -> Stage(k + 1)]
      BY <2>6, <3>1
    <3> QED
      BY <3>1, <3>2, SeqDef
  <2> QED
    BY <2>2, <2>7 DEF List
<1> QED
  BY <1>3, <1>4, <1>5, <1>6

\* The same of a field.
LEMMA FieldInside ==
    ASSUME table \in AllTables, NEW k \in Nat, NEW d \in 0 .. MaxBlankDepth + 1, k <= 3 * d,
           NEW v \in FieldsAt(d)
    PROVE  /\ v.kind \in ScalarKinds \cup {"list"}
           /\ IsList(v) => v.of \in Seq(Stage(k + 1))
<1> PICK type \in Types : v = BlankField[d][type]
  BY DEF FieldsAt
<1>1. v = IF ~ParsesFieldType(type) \/ TooDeep(d) THEN List(<<>>) ELSE BlankType(type, BlankField[d + 1])
  <2>1. d \in 0 .. MaxBlankDepth + 2
    BY BlankAssumption
  <2> DEFINE inner == BlankField[d + 1]
  <2>2. BlankField[d] = BlanksAt(d, inner)
    BY <2>1, BlankFieldIs
  <2> HIDE DEF inner
  <2>3. BlanksAt(d, inner)[type] = IF ~ParsesFieldType(type) \/ TooDeep(d) THEN List(<<>>)
                                   ELSE BlankType(type, inner)
    BY DEF BlanksAt
  <2> QED
    BY <2>2, <2>3 DEF inner
<1>2. CASE ~ParsesFieldType(type) \/ TooDeep(d)
  <2>1. v = List(<<>>)
    BY <1>1, <1>2
  <2> QED
    BY <2>1, EmptySeq DEF List
<1>3. CASE ~(~ParsesFieldType(type) \/ TooDeep(d))
  <2> DEFINE element == BlankElement(type.element, BlankField[d + 1])
             pair == List(<<Scalar("string", Zero), element>>)
  <2>1. d \in 0 .. MaxBlankDepth /\ k + 1 \in Nat /\ k <= 3 * d + 2 /\ k + 1 <= 3 * d + 1 /\ k + 1 <= 3 * d + 2
    BY <1>3, BlankAssumption DEF TooDeep
  <2>2. element \in ElementsAt(d)
    BY DEF ElementsAt, Types
  <2>3. v = CASE type.prefix = "list" -> List(<<element>>)
              [] type.prefix = "map"  -> List(<<pair>>)
              [] type.prefix = "none" -> element
    BY <1>1, <1>3 DEF BlankType
  <2>4. pair \in PairsAt(d)
    BY <2>2 DEF PairsAt
  <2> HIDE DEF element, pair
  <2>5. element \in Stage(k + 1) /\ pair \in Stage(k + 1)
    BY <2>1, <2>2, <2>4, StageHas DEF InStage
  <2>6. <<element>> \in Seq(Stage(k + 1)) /\ <<pair>> \in Seq(Stage(k + 1))
    <3> HIDE DEF Stage
    <3> QED
      BY <2>5, ShortSeqs
  <2>7. CASE type.prefix = "none"
    BY <2>1, <2>2, <2>3, <2>7, ElementInside
  <2>8. CASE type.prefix # "none"
    <3>1. type.prefix \in {"list", "map"}
      BY <2>8 DEF Types, TypePrefixes
    <3>2. PICK inside \in Seq(Stage(k + 1)) : v = List(inside)
      <4> HIDE DEF Stage
      <4> QED
        BY <2>3, <2>6, <3>1
    <3>3. v.kind = "list" /\ v.of = inside
      BY <3>2 DEF List
    <3> QED
      BY <3>3
  <2> QED
    BY <2>7, <2>8
<1> QED
  BY <1>2, <1>3

\* The same of anything.
LEMMA StageInside ==
    ASSUME table \in AllTables, NEW k \in Nat, NEW v \in Stage(k)
    PROVE  /\ v.kind \in ScalarKinds \cup {"list"}
           /\ IsList(v) => v.of \in Seq(Stage(k + 1))
<1>1. InStage(v, k)
  BY StageHas
<1>2. CASE v \in Leaves
  BY <1>2 DEF Leaves, Scalar, IsList, ScalarKinds
<1>3. ASSUME NEW d \in 0 .. MaxBlankDepth + 1, k <= 3 * d, v \in FieldsAt(d)
      PROVE  /\ v.kind \in ScalarKinds \cup {"list"}
             /\ IsList(v) => v.of \in Seq(Stage(k + 1))
  BY <1>3, FieldInside
<1>4. ASSUME NEW d \in 0 .. MaxBlankDepth, k <= 3 * d + 2, v \in ElementsAt(d)
      PROVE  /\ v.kind \in ScalarKinds \cup {"list"}
             /\ IsList(v) => v.of \in Seq(Stage(k + 1))
  BY <1>4, ElementInside
<1>5. ASSUME NEW d \in 0 .. MaxBlankDepth, k <= 3 * d + 1, v \in PairsAt(d)
      PROVE  /\ v.kind \in ScalarKinds \cup {"list"}
             /\ IsList(v) => v.of \in Seq(Stage(k + 1))
  <2>1. PICK element \in ElementsAt(d) : v = List(<<Scalar("string", Zero), element>>)
    BY <1>5 DEF PairsAt
  <2>2. k + 1 \in Nat /\ k + 1 <= 3 * d + 2 /\ k + 1 <= 3 * MaxBlankDepth + 3
    BY <1>5, BlankAssumption
  <2>3. element \in Stage(k + 1) /\ Scalar("string", Zero) \in Stage(k + 1)
    BY <2>1, <2>2, StageHas DEF InStage, Leaves, ScalarKinds
  <2>4. <<Scalar("string", Zero), element>> \in Seq(Stage(k + 1))
    <3> HIDE DEF Stage
    <3> QED
      BY <2>3, ShortSeqs
  <2> QED
    BY <2>1, <2>4 DEF List
<1> QED
  BY <1>1, <1>2, <1>3, <1>4, <1>5 DEF InStage

\* Level by level, a blank stays within the stages.
LEMMA BlankPasses ==
    ASSUME table \in AllTables, NEW type \in Types, 3 * MaxBlankDepth + 4 <= MaxValueDepth
    PROVE  Passes(BlankField[0][type])
<1> DEFINE v == BlankField[0][type]
           values == <<v>>
<1>1. v \in Stage(0)
  <2>1. v \in FieldsAt(0) /\ 0 \in 0 .. MaxBlankDepth + 1 /\ 0 <= 3 * 0
    BY BlankAssumption DEF FieldsAt
  <2> QED
    BY <2>1, StageHas DEF InStage
<1> HIDE DEF v
<1>2. values \in Seq(Stage(0))
  <2> HIDE DEF Stage
  <2> QED
    BY <1>1, ShortSeqs
<1>3. \A w \in Stage(0) : IsList(w) => w.of \in Seq(Stage(0))
  <2>1. Stage(0 + 1) \subseteq Stage(0)
    BY StagesShrink
  <2> SUFFICES ASSUME NEW w \in Stage(0), IsList(w) PROVE w.of \in Seq(Stage(0))
    OBVIOUS
  <2>2. w.of \in Seq(Stage(0 + 1))
    BY StageInside
  <2> HIDE DEF Stage
  <2> QED
    BY <2>1, <2>2
<1> HIDE DEF values
<1>4. Levels(values)[0] = values /\ \A n \in Nat : Levels(values)[n + 1] = Inside(Levels(values)[n])
  <2> HIDE DEF Stage
  <2> QED
    BY <1>2, <1>3, LevelsOf
<1> DEFINE N == MaxValueDepth
           T == { n \in 0 .. N : Levels(values)[n] \in Seq(Stage(n)) }
<1>5. N \in Nat
  BY ValuesAssumption
<1>6. 0 \in T
  <2>1. 0 \in 0 .. N /\ Levels(values)[0] \in Seq(Stage(0))
    <3> HIDE DEF Stage
    <3> QED
      BY <1>2, <1>4, <1>5
  <2> QED
    BY <2>1
<1>7. ASSUME NEW n \in 0 .. N - 1, n \in T PROVE n + 1 \in T
  <2>1. n \in Nat /\ Levels(values)[n] \in Seq(Stage(n)) /\ n + 1 \in 0 .. N
    BY <1>5, <1>7
  <2>2. \A w \in Stage(n) : IsList(w) => w.of \in Seq(Stage(n + 1))
    BY <2>1, StageInside
  <2>3. Inside(Levels(values)[n]) \in Seq(Stage(n + 1))
    <3> HIDE DEF Stage
    <3> QED
      BY <2>1, <2>2, InsideIn
  <2> QED
    BY <1>4, <2>1, <2>3
<1>8. \A n \in 0 .. N : Levels(values)[n] \in Seq(Stage(n))
  <2> HIDE DEF T, N
  <2>1. 0 .. N \subseteq T
    BY <1>5, <1>6, <1>7, UpTo
  <2> QED
    BY <2>1 DEF T
<1>9. Levels(values)[N] = <<>>
  <2>1. N > 3 * MaxBlankDepth + 3 /\ N \in 0 .. N
    BY <1>5, BlankAssumption
  <2>2. Stage(N) = {}
    BY <1>5, <2>1, StagesShrink
  <2>3. Levels(values)[N] \in Seq({})
    BY <1>8, <2>1, <2>2
  <2> QED
    BY <2>3
<1>10. ASSUME NEW depth \in 1 .. N - 1, NEW i \in DOMAIN Levels(values)[depth]
       PROVE  Levels(values)[depth][i].kind \in ScalarKinds \cup {"list"}
  <2>1. depth \in Nat /\ Levels(values)[depth] \in Seq(Stage(depth))
    BY <1>5, <1>8
  <2> DEFINE level == Levels(values)[depth]
  <2>2. level[i] \in Stage(depth)
    <3> HIDE DEF Stage
    <3> QED
      BY <2>1
  <2> QED
    BY <2>1, <2>2, StageInside
<1>11. v.kind \in ScalarKinds \cup {"list"}
  BY <1>1, StageInside
<1> QED
  BY <1>9, <1>10, <1>11 DEF Passes, v, values

-----------------------------------------------------------------------------
(* The shape of the blanks.  A type that is within what is left of the     *)
(* depth has its blank due; what is due fits, and what is in it is due.    *)

\* The blanks are made of the table alone.
LEMMA BlankFieldStays ==
    ASSUME UNCHANGED table
    PROVE  BlankField' = BlankField
BY DEF BlankField, BlankType, BlankElement, ParsesFieldType, TooDeep, Declared, DeclaredUpTo, FieldsOf,
   Types

\* The recursion of NestedWithin ends.
LEMMA NestedWithinIs ==
    /\ NestedWithin[0] = Scalars
    /\ \A n \in 1 .. MaxBlankDepth :
          NestedWithin[n] = Scalars \cup { e \in Declared : Targets(e) \subseteq NestedWithin[n - 1] }
<1> DEFINE N == MaxBlankDepth
           U == SUBSET (Scalars \cup Declared)
           wider(S) == Scalars \cup { e \in Declared : Targets(e) \subseteq S }
           next == [n \in 1 .. N |-> [S \in U |-> wider(S)]]
<1>1. N \in Nat
  BY BlankAssumption
<1>2. Scalars \in U /\ next \in [1 .. N -> [U -> U]]
  OBVIOUS
<1> HIDE DEF next, U
<1>3. PICK f : Iterated(f, N, U, Scalars, next)
  BY <1>1, <1>2, Iterates
<1>4. f[0] = Scalars /\ f \in [0 .. N -> U]
  BY <1>3 DEF Iterated
<1>5. ASSUME NEW n \in 1 .. N PROVE f[n] = wider(f[n - 1])
  <2>1. n - 1 \in 0 .. N /\ f[n - 1] \in U
    BY <1>1, <1>4
  <2>2. f[n] = next[n][f[n - 1]]
    BY <1>3 DEF Iterated
  <2> QED
    BY <2>1, <2>2 DEF next
<1>6. \E g : g = [n \in 0 .. N |-> IF n = 0 THEN Scalars ELSE wider(g[n - 1])]
  <2>1. \A n \in 0 .. N : f[n] = IF n = 0 THEN Scalars ELSE wider(f[n - 1])
    BY <1>1, <1>4, <1>5
  <2>2. f = [n \in 0 .. N |-> f[n]]
    BY <1>4
  <2> HIDE DEF N, wider
  <2>3. f = [n \in 0 .. N |-> IF n = 0 THEN Scalars ELSE wider(f[n - 1])]
    BY <2>1, <2>2
  <2> QED
    BY <2>3
<1> DEFINE within == CHOOSE g : g = [n \in 0 .. N |-> IF n = 0 THEN Scalars ELSE wider(g[n - 1])]
<1>7. NestedWithin = within
  BY DEF NestedWithin
<1>8. within = [n \in 0 .. N |-> IF n = 0 THEN Scalars ELSE wider(within[n - 1])]
  <2> HIDE DEF N, wider
  <2> QED
    BY <1>6
<1> HIDE DEF within
<1>9. within[0] = Scalars /\ \A n \in 1 .. N : within[n] = wider(within[n - 1])
  <2> HIDE DEF wider
  <2> QED
    BY <1>1, <1>8
<1> QED
  BY <1>7, <1>9

\* The fields of a declared record of a table that loaded.
LEMMA DeclaredFields ==
    ASSUME table \in AllTables, TableFine, NEW e \in Declared
    PROVE  /\ e \in ValidNames
           /\ FieldsOf(e) \in AllFields /\ DOMAIN FieldsOf(e) = 1 .. Len(FieldsOf(e))
           /\ Len(FieldsOf(e)) \in Nat
           /\ \A i \in DOMAIN FieldsOf(e) :
                 /\ FieldsOf(e)[i].type \in Types
                 /\ FieldsOf(e)[i].type.element \in Scalars \cup Targets(e)
<1>1. PICK k \in DOMAIN table : table[k].name = e /\ FieldsOf(e) = table[k].fields
  BY FieldsOfDeclared
<1>2. DOMAIN table = 1 .. Len(table) /\ table[k] \in [name : Names, fields : AllFields]
  <2>1. table \in Seq([name : Names, fields : AllFields])
    BY DEF AllTables
  <2> QED
    BY <2>1, LenProperties, ElementOfSeq
<1>3. Passed(k)
  BY <1>1, <1>2 DEF TableFine, AllPassed
<1>4. e \in ValidNames
  BY <1>1, <1>3 DEF Passed
<1> DEFINE fields == FieldsOf(e)
<1>5. fields \in AllFields
  BY <1>1, <1>2
<1>6. Len(fields) \in Nat /\ DOMAIN fields = 1 .. Len(fields)
  <2> HIDE DEF fields
  <2> QED
    BY <1>5 DEF AllFields
<1>7. \A i \in DOMAIN fields : fields[i].type \in Types
  <2> HIDE DEF fields
  <2>1. \A i \in DOMAIN fields : fields[i] \in [name : STRING, type : Types]
    BY <1>5, <1>6, ElementOfSeq DEF AllFields
  <2> QED
    BY <2>1
<1>8. \A i \in DOMAIN fields : fields[i].type.element \in Scalars \cup Targets(e)
  BY DEF Targets
<1> QED
  BY <1>4, <1>5, <1>6, <1>7, <1>8

\* A depth at which blankField is asked for a type that stays within what is
\* left of its depth.
DueAt(d, t) ==
    /\ d \in 0 .. MaxBlankDepth
    /\ t \in Types
    /\ t.element \in NestedWithin[MaxBlankDepth - d]

\* What is due: a blank and its type.
Due == { <<BlankField[x[1]][x[2]], x[2]>> : x \in { y \in (0 .. MaxBlankDepth) \X Types : DueAt(y[1], y[2]) } }

\* What is due, and of which depth and type.
LEMMA DueHas ==
    /\ \A d, t : DueAt(d, t) => <<BlankField[d][t], t>> \in Due
    /\ \A w \in Due : \E d, t : DueAt(d, t) /\ w = <<BlankField[d][t], t>>
<1>1. ASSUME NEW d, NEW t, DueAt(d, t) PROVE <<BlankField[d][t], t>> \in Due
  <2>1. <<d, t>> \in (0 .. MaxBlankDepth) \X Types /\ <<d, t>>[1] = d /\ <<d, t>>[2] = t
    BY <1>1 DEF DueAt
  <2> QED
    BY <1>1, <2>1 DEF Due
<1>2. ASSUME NEW w \in Due PROVE \E d, t : DueAt(d, t) /\ w = <<BlankField[d][t], t>>
  BY DEF Due
<1> QED
  BY <1>1, <1>2

\* An element that is within some depth is a scalar, or a record whose own are
\* within one less.
LEMMA WithinIs ==
    ASSUME NEW d \in 0 .. MaxBlankDepth, NEW e \in NestedWithin[MaxBlankDepth - d]
    PROVE  \/ e \in Scalars
           \/ /\ e \in Declared /\ d + 1 \in 0 .. MaxBlankDepth
              /\ Targets(e) \subseteq NestedWithin[MaxBlankDepth - (d + 1)]
<1> DEFINE n == MaxBlankDepth - d
<1>1. MaxBlankDepth \in Nat /\ n \in 0 .. MaxBlankDepth
  BY BlankAssumption
<1>2. CASE n = 0
  BY <1>2, NestedWithinIs
<1>3. CASE n # 0
  <2>1. n \in 1 .. MaxBlankDepth /\ MaxBlankDepth - (d + 1) = n - 1 /\ d + 1 \in 0 .. MaxBlankDepth
    BY <1>1, <1>3
  <2>2. e \in NestedWithin[n]
    OBVIOUS
  <2> HIDE DEF n
  <2>3. NestedWithin[n] = Scalars \cup { r \in Declared : Targets(r) \subseteq NestedWithin[n - 1] }
    BY <2>1, NestedWithinIs
  <2> QED
    BY <2>1, <2>2, <2>3
<1> QED
  BY <1>2, <1>3

\* The scalars are within every depth.
LEMMA ScalarsWithin ==
    ASSUME NEW n \in 0 .. MaxBlankDepth
    PROVE  Scalars \subseteq NestedWithin[n]
<1>1. CASE n = 0
  BY <1>1, NestedWithinIs
<1>2. CASE n # 0
  <2>1. n \in 1 .. MaxBlankDepth
    BY <1>2, BlankAssumption
  <2> QED
    BY <2>1, NestedWithinIs
<1> QED
  BY <1>1, <1>2

\* blankField answers what is due.
LEMMA BlankDue ==
    ASSUME table \in AllTables, TableFine, NEW d, NEW t, DueAt(d, t)
    PROVE  /\ BlankField[d][t] = BlankType(t, BlankField[d + 1])
           /\ t.prefix \in TypePrefixes
<1>1. d \in 0 .. MaxBlankDepth /\ t \in Types /\ d \in 0 .. MaxBlankDepth + 2 /\ ~TooDeep(d)
  BY BlankAssumption DEF DueAt, TooDeep
<1>2. t.element \in Scalars \/ t.element \in Declared
  BY <1>1, WithinIs DEF DueAt
<1>3. ParsesFieldType(t)
  BY <1>2, DeclaredFields DEF ParsesFieldType
<1> DEFINE inner == BlankField[d + 1]
<1>4. BlankField[d] = BlanksAt(d, inner)
  BY <1>1, BlankFieldIs
<1> HIDE DEF inner
<1>5. BlanksAt(d, inner)[t] = BlankType(t, inner)
  BY <1>1, <1>3 DEF BlanksAt
<1> QED
  BY <1>1, <1>4, <1>5 DEF inner, Types

\* The type of the elements of a list or a map.
Plain(e) == [prefix |-> "none", element |-> e]

\* The element of a type that is due is due.
LEMMA ElementDue ==
    ASSUME table \in AllTables, TableFine, NEW d, NEW t, DueAt(d, t)
    PROVE  /\ DueAt(d, Plain(t.element))
           /\ BlankField[d][Plain(t.element)] = BlankElement(t.element, BlankField[d + 1])
           /\ <<BlankElement(t.element, BlankField[d + 1]), Plain(t.element)>> \in Due
<1> DEFINE plain == Plain(t.element)
<1>1. plain \in Types /\ plain.element = t.element /\ plain.prefix = "none"
  BY DEF DueAt, Types, TypePrefixes, Plain
<1> HIDE DEF plain
<1>2. DueAt(d, plain)
  BY <1>1 DEF DueAt
<1>3. BlankField[d][plain] = BlankType(plain, BlankField[d + 1])
  BY <1>2, BlankDue
<1>4. BlankType(plain, BlankField[d + 1]) = BlankElement(t.element, BlankField[d + 1])
  BY <1>1 DEF BlankType
<1> QED
  BY <1>2, <1>3, <1>4, DueHas DEF plain

\* The blank of an element is what a decoder of the element expects, and what
\* is in it is due one level further in.
LEMMA ElementFits ==
    ASSUME table \in AllTables, TableFine, NEW d, NEW t, DueAt(d, t), t.prefix = "none"
    PROVE  /\ FitsOutside(BlankField[d][t], t)
           /\ Inner(BlankField[d][t], t) \subseteq Due
<1> DEFINE v == BlankField[d][t]
           e == t.element
           fields == FieldsOf(e)
           inner == BlankField[d + 1]
<1>1. v = BlankElement(e, inner)
  <2>1. v = BlankType(t, inner)
    BY BlankDue
  <2> HIDE DEF v, inner
  <2> QED
    BY <2>1 DEF BlankType
<1>2. d \in 0 .. MaxBlankDepth /\ t \in Types /\ e \in NestedWithin[MaxBlankDepth - d]
  BY DEF DueAt
<1>3. CASE e = PlayerRef
  <2>1. e \in Scalars /\ v = BlankPlayerRef
    BY <1>1, <1>3, BlankAssumption DEF BlankElement
  <2> QED
    BY <1>3, <2>1 DEF FitsOutside, Inner
<1>4. CASE e \in Scalars /\ e # PlayerRef
  <2>1. v = Scalar(KindOf[e], Zero)
    BY <1>1, <1>4 DEF BlankElement
  <2>2. v.kind = KindOf[e]
    BY <2>1 DEF Scalar
  <2> QED
    BY <1>4, <2>2 DEF FitsOutside, Inner
<1>5. CASE e \notin Scalars
  <2>1. e \in Declared /\ d + 1 \in 0 .. MaxBlankDepth /\ Targets(e) \subseteq NestedWithin[MaxBlankDepth - (d + 1)]
    BY <1>2, <1>5, WithinIs
  <2>2. e # PlayerRef
    BY <1>5, BlankAssumption
  <2> HIDE DEF v, inner, fields
  <2>3. v = List([i \in DOMAIN fields |-> inner[fields[i].type]])
    BY <1>1, <1>5, <2>1, <2>2 DEF BlankElement, fields
  <2>4. v.kind = "list" /\ v.of = [i \in DOMAIN fields |-> inner[fields[i].type]]
    BY <2>3 DEF List
  <2>5. /\ DOMAIN fields = 1 .. Len(fields) /\ Len(fields) \in Nat
        /\ \A i \in DOMAIN fields : fields[i].type \in Types /\ fields[i].type.element \in Scalars \cup Targets(e)
    BY <2>1, DeclaredFields DEF fields
  <2>6. DOMAIN v.of = DOMAIN fields /\ \A i \in DOMAIN fields : v.of[i] = inner[fields[i].type]
    BY <2>4
  <2>7. Len(v.of) = Len(fields)
    <3> DEFINE n == Len(fields)
    <3>1. v.of = [i \in 1 .. n |-> inner[fields[i].type]] /\ n \in Nat
      BY <2>4, <2>5
    <3> HIDE DEF n
    <3>2. Len(v.of) = n
      BY <3>1
    <3> QED
      BY <3>2 DEF n
  <2>8. FitsOutside(v, t)
    BY <1>5, <2>2, <2>4, <2>7 DEF FitsOutside, IsList, fields
  <2>9. ASSUME NEW i \in DOMAIN fields PROVE <<v.of[i], fields[i].type>> \in Due
    <3>1. MaxBlankDepth - (d + 1) \in 0 .. MaxBlankDepth
      BY <2>1, BlankAssumption
    <3>2. fields[i].type.element \in NestedWithin[MaxBlankDepth - (d + 1)]
      BY <2>1, <2>5, <3>1, ScalarsWithin
    <3>3. DueAt(d + 1, fields[i].type)
      BY <2>1, <2>5, <3>2 DEF DueAt
    <3>4. <<BlankField[d + 1][fields[i].type], fields[i].type>> \in Due
      BY <3>3, DueHas
    <3> QED
      BY <2>6, <3>4 DEF inner
  <2>10. Inner(v, t) = { <<v.of[i], fields[i].type>> : i \in DOMAIN v.of }
    BY <1>5 DEF Inner, fields
  <2> QED
    BY <2>6, <2>8, <2>9, <2>10 DEF v
<1> QED
  BY <1>3, <1>4, <1>5

\* The same of a list or a map of such elements.
LEMMA DueFits ==
    ASSUME table \in AllTables, TableFine, NEW w \in Due
    PROVE  FitsOutside(w[1], w[2]) /\ Inner(w[1], w[2]) \subseteq Due
<1>1. PICK d, t : DueAt(d, t) /\ w = <<BlankField[d][t], t>>
  BY DueHas
<1> DEFINE v == BlankField[d][t]
           element == BlankElement(t.element, BlankField[d + 1])
           pair == List(<<Scalar("string", Zero), element>>)
<1>2. w[1] = v /\ w[2] = t
  BY <1>1
<1>3. v = BlankType(t, BlankField[d + 1]) /\ t.prefix \in TypePrefixes
  BY <1>1, BlankDue
<1>4. <<element, Plain(t.element)>> \in Due
  BY <1>1, ElementDue
<1>5. CASE t.prefix = "none"
  BY <1>1, <1>2, <1>5, ElementFits
<1>6. CASE t.prefix = "list"
  <2> HIDE DEF v
  <2>1. v = List(<<element>>)
    BY <1>3, <1>6 DEF BlankType
  <2> HIDE DEF element
  <2>2. v.kind = "list" /\ v.of = <<element>>
    BY <2>1 DEF List
  <2>3. v.of # <<>> /\ DOMAIN v.of = {1} /\ v.of[1] = element
    BY <2>2
  <2>4. FitsOutside(v, t)
    BY <1>6, <2>2, <2>3 DEF FitsOutside, IsList
  <2>5. Inner(v, t) = { <<v.of[i], Plain(t.element)>> : i \in DOMAIN v.of }
    BY <1>6 DEF Inner, Plain
  <2>6. Inner(v, t) \subseteq Due
    BY <1>4, <2>3, <2>5
  <2> QED
    BY <1>2, <2>4, <2>6
<1>7. CASE t.prefix = "map"
  <2> HIDE DEF v
  <2>1. v = List(<<pair>>)
    BY <1>3, <1>7 DEF BlankType
  <2>2. pair.kind = "list" /\ pair.of = <<Scalar("string", Zero), element>>
    BY DEF List
  <2> HIDE DEF element
  <2>3. pair.of[1] = Scalar("string", Zero) /\ pair.of[2] = element /\ Len(pair.of) = 2
    BY <2>2
  <2>4. pair.of[1].kind = "string"
    BY <2>3 DEF Scalar
  <2> HIDE DEF pair
  <2>5. v.kind = "list" /\ v.of = <<pair>>
    BY <2>1 DEF List
  <2>6. v.of # <<>> /\ DOMAIN v.of = {1} /\ v.of[1] = pair
    BY <2>5
  <2>7. FitsOutside(v, t)
    BY <1>7, <2>2, <2>3, <2>4, <2>5, <2>6 DEF FitsOutside, IsList
  <2>8. Inner(v, t) = { <<v.of[i].of[2], Plain(t.element)>> : i \in DOMAIN v.of }
    BY <1>7 DEF Inner, Plain
  <2>9. Inner(v, t) \subseteq Due
    BY <1>4, <2>3, <2>6, <2>8
  <2> QED
    BY <1>2, <2>7, <2>9
<1> QED
  BY <1>3, <1>5, <1>6, <1>7 DEF TypePrefixes

\* What is inside of a value that is due, as far as one goes, is due.
LEMMA FitsDue ==
    ASSUME table \in AllTables, TableFine, NEW d, NEW t, DueAt(d, t)
    PROVE  Fits(BlankField[d][t], t)
<1> DEFINE N == 2 * Len(table) + 1
           U == SUBSET Due
           start == { <<BlankField[d][t], t>> }
           further(S) == UNION { Inner(w[1], w[2]) : w \in { u \in S : FitsOutside(u[1], u[2]) } }
           next == [n \in 1 .. N |-> [S \in U |-> further(S)]]
<1>1. N \in Nat
  BY LenProperties DEF AllTables
<1>2. start \in U
  BY DueHas
<1>3. \A S \in U : further(S) \in U
  <2> HIDE DEF start
  <2> SUFFICES ASSUME NEW S \in U, NEW x \in further(S) PROVE x \in Due
    OBVIOUS
  <2>1. PICK w \in S : x \in Inner(w[1], w[2])
    OBVIOUS
  <2>2. w \in Due
    OBVIOUS
  <2> QED
    BY <2>1, <2>2, DueFits
<1>4. next \in [1 .. N -> [U -> U]]
  <2> HIDE DEF further, N, U, start
  <2> QED
    BY <1>3
<1> HIDE DEF next, U, start, N
<1>5. PICK f : Iterated(f, N, U, start, next)
  BY <1>1, <1>2, <1>4, Iterates
<1>6. f[0] = start /\ f \in [0 .. N -> U]
  BY <1>5 DEF Iterated
<1>7. ASSUME NEW n \in 1 .. N PROVE f[n] = further(f[n - 1])
  <2> HIDE DEF further
  <2>1. n - 1 \in 0 .. N /\ f[n - 1] \in U
    BY <1>1, <1>6
  <2>2. f[n] = next[n][f[n - 1]]
    BY <1>5 DEF Iterated
  <2> QED
    BY <2>1, <2>2 DEF next
<1> DEFINE whole(g) == g = [n \in 0 .. N |-> IF n = 0 THEN start ELSE further(g[n - 1])]
           inside == CHOOSE g : whole(g)
<1> HIDE DEF further
<1>8. whole(f)
  <2>1. \A n \in 0 .. N : f[n] = IF n = 0 THEN start ELSE further(f[n - 1])
    BY <1>1, <1>6, <1>7
  <2>2. f = [n \in 0 .. N |-> f[n]]
    BY <1>6
  <2> QED
    BY <2>1, <2>2
<1>9. whole(inside)
  <2> HIDE DEF whole
  <2> QED
    BY <1>8
<1> HIDE DEF inside
<1>10. inside[0] = start /\ \A n \in 1 .. N : inside[n] = further(inside[n - 1])
  BY <1>1, <1>9
<1> DEFINE T == { n \in 0 .. N : inside[n] \in U }
<1>11. 0 \in T
  BY <1>1, <1>2, <1>10
<1>12. ASSUME NEW n \in 0 .. N - 1, n \in T PROVE n + 1 \in T
  <2>1. n + 1 \in 1 .. N /\ n + 1 \in 0 .. N /\ (n + 1) - 1 = n /\ inside[n] \in U
    BY <1>1, <1>12
  <2>2. inside[n + 1] = further(inside[n])
    BY <1>10, <2>1
  <2> QED
    BY <1>3, <2>1, <2>2
<1> HIDE DEF T
<1>13. 0 .. N \subseteq T
  BY <1>1, <1>11, <1>12, UpTo
<1>14. \A n \in 0 .. N : \A w \in inside[n] : FitsOutside(w[1], w[2])
  <2> SUFFICES ASSUME NEW n \in 0 .. N, NEW w \in inside[n] PROVE FitsOutside(w[1], w[2])
    OBVIOUS
  <2>1. inside[n] \in U
    BY <1>13 DEF T
  <2>2. w \in Due
    BY <2>1 DEF U
  <2> QED
    BY <2>2, DueFits
<1>15. Fits(BlankField[d][t], t) <=> \A n \in 0 .. N : \A w \in inside[n] : FitsOutside(w[1], w[2])
  BY DEF Fits, inside, whole, further, start, N
<1> QED
  BY <1>14, <1>15

-----------------------------------------------------------------------------
(* The theorems.                                                           *)

\* Whatever the archives, what Open knows at each of its steps is so: the
\* entries it has scanned stay inside the root and one of them is the
\* manifest, the manifest it goes on with was read from that entry and passed
\* each check that is behind it, and what it refused was not whole.
THEOREM BundleInvariant == BundleSpec => []BundleInv
<1>1. BundleInit => BundleInv
  BY BundleStarts
<1>2. BundleInv /\ [BundleNext]_bundleVars => BundleInv'
  <2> SUFFICES ASSUME BundleInv, [BundleNext]_bundleVars PROVE BundleInv'
    OBVIOUS
  <2>1. CASE UNCHANGED bundleVars
    BY <2>1, BundleStutters
  <2>2. CASE BundleNext
    BY <2>2, OpenArchiveKeeps, ScanEntryKeeps, OpenManifestKeeps, ReadManifestKeeps, ValidateManifestKeeps,
       ValidateRecordsKeeps, RecordsDoneKeeps, ValidateProvidedKeeps, CloseManifestKeeps, ReadTreeKeeps,
       LocateKeeps, WarmKeeps, BundleStutters DEF BundleNext, Opened
  <2> QED
    BY <2>1, <2>2
<1> QED
  BY <1>1, <1>2, PTL DEF BundleSpec

\* What Open loads is whole, for every archive: every entry inside the root,
\* one manifest, sound in itself, one entry for the tree it names, and no
\* file beyond its limit (open.go).
THEOREM LoadedBundlesAreWhole == BundleSpec => []LoadedIsWhole
<1>1. BundleInv => LoadedIsWhole
  <2> SUFFICES ASSUME BundleInv, step \in {"loaded", "warm"} PROVE Whole
    BY DEF LoadedIsWhole
  <2>1. /\ step \in AfterProvides /\ archive.fault # "cwd"
        /\ manifest.tree = NoTree \/ TreeIn(manifest.tree)
    BY DEF AfterProvides, BundleInv, ManifestInv
  <2> QED
    BY <2>1, ManifestStands, DecodedWhole
<1> QED
  BY <1>1, BundleInvariant, PTL

\* What Open refuses is flawed, for every archive: no check of open.go,
\* decode.go or eventtype.go turns a whole bundle away (decode.go:71-74).
THEOREM RefusedBundlesAreFlawed == BundleSpec => []RefusedIsFlawed
BY BundleInvariant, PTL DEF BundleInv

\* The blank of every event a bundle provides crosses the codec, when the depth
\* limit of convert.go leaves room for three lists at each depth of blank.go:
\* 28 levels of the 32 there are.
THEOREM BlanksCross ==
    ASSUME 3 * MaxBlankDepth + 4 <= MaxValueDepth
    PROVE  BundleSpec => []BlankEncodes
<1>1. BundleInit => BlankEncodes
  BY DEF BundleInit, BlankEncodes
<1>2. BundleInv /\ BlankEncodes /\ [BundleNext]_bundleVars => BlankEncodes'
  <2> SUFFICES ASSUME BundleInv, BlankEncodes, [BundleNext]_bundleVars, step' = "warm"
               PROVE  \A i \in DOMAIN blanks' : AllPass(blanks'[i])
    BY DEF BlankEncodes
  <2>1. CASE Warm
    <3>1. step \in AfterProvides
      BY <2>1 DEF Warm, AfterProvides
    <3>2. /\ table \in AllTables /\ Len(manifest.provides) \in Nat
          /\ manifest.provides \in Seq([type : Seq(STRING), fields : AllFields])
          /\ DOMAIN manifest.provides = 1 .. Len(manifest.provides)
      BY <3>1, ManifestStands, DecodedTyped
    <3>3. \A i \in DOMAIN manifest.provides : manifest.provides[i] \in [type : Seq(STRING), fields : AllFields]
      BY <3>2, ElementOfSeq
    <3>4. ASSUME NEW fields \in AllFields PROVE AllPass(BlankFields(fields))
      <4>1. Len(fields) \in Nat /\ DOMAIN fields = 1 .. Len(fields)
        BY DEF AllFields
      <4>2. \A k \in DOMAIN fields : fields[k] \in [name : STRING, type : Types]
        BY <4>1, ElementOfSeq DEF AllFields
      <4>3. \A k \in DOMAIN fields : Passes(BlankField[0][fields[k].type])
        BY <3>2, <4>2, BlankPasses
      <4> QED
        BY <4>3 DEF AllPass, BlankFields
    <3>5. blanks' = [i \in DOMAIN manifest.provides |-> BlankFields(manifest.provides[i].fields)]
      BY <2>1 DEF Warm
    <3> QED
      BY <3>3, <3>4, <3>5
  <2>2. CASE UNCHANGED bundleVars
    BY <2>2 DEF BlankEncodes, bundleVars, openVars
  <2> QED
    BY <2>1, <2>2 DEF BundleNext, OpenArchive, ScanEntry, OpenManifest, ReadManifest, ValidateManifest,
       ValidateRecords, RecordsDone, ValidateProvided, CloseManifest, ReadTree, Locate, Opened, Goto,
       RefuseBundle, openVars
<1> QED
  BY <1>1, <1>2, BundleInvariant, PTL DEF BundleSpec
\* The payloads of the warm events are blanks of their fields.
BlanksStand ==
    step = "warm" =>
        blanks = [i \in DOMAIN manifest.provides |-> BlankFields(manifest.provides[i].fields)]

\* Once the host has warmed the events, its payloads are what blank.go makes
\* of the fields of the manifest it holds.
LEMMA BlanksOfTheManifest == BundleSpec => []BlanksStand
<1>1. BundleInit => BlanksStand
  BY DEF BundleInit, BlanksStand
<1>2. BlanksStand /\ [BundleNext]_bundleVars => BlanksStand'
  <2> SUFFICES ASSUME BlanksStand, [BundleNext]_bundleVars, step' = "warm" PROVE BlanksStand'
    BY DEF BlanksStand
  <2>1. CASE Warm
    <3>1. UNCHANGED table /\ manifest' = manifest
          /\ blanks' = [i \in DOMAIN manifest.provides |-> BlankFields(manifest.provides[i].fields)]
      BY <2>1 DEF Warm, vars
    <3>2. BlankField' = BlankField
      BY <3>1, BlankFieldStays
    <3> QED
      BY <3>1, <3>2 DEF BlanksStand, BlankFields
  <2>2. CASE UNCHANGED bundleVars
    <3>1. UNCHANGED <<table, manifest, blanks, step>>
      BY <2>2 DEF bundleVars, openVars, vars
    <3>2. BlankField' = BlankField
      BY <3>1, BlankFieldStays
    <3> QED
      BY <3>1, <3>2 DEF BlanksStand, BlankFields
  <2> QED
    BY <2>1, <2>2 DEF BundleNext, OpenArchive, ScanEntry, OpenManifest, ReadManifest, ValidateManifest,
       ValidateRecords, RecordsDone, ValidateProvided, CloseManifest, ReadTree, Locate, Opened, Goto,
       RefuseBundle, openVars
<1> QED
  BY <1>1, <1>2, PTL DEF BundleSpec

\* The blank of every field that is not nested deeper than blank.go goes has
\* the shape its manifest declares, for every bundle that loads and whatever
\* the depth is (blank.go:33-44).
THEOREM ShallowBlanksFit == BundleSpec => []ShallowBlankFits
<1>1. BundleInv /\ BlanksStand => ShallowBlankFits
  <2> SUFFICES ASSUME BundleInv, BlanksStand, step = "warm",
                      NEW i \in DOMAIN blanks, NEW k \in DOMAIN blanks[i],
                      manifest.provides[i].fields[k].type.element \in NestedWithin[MaxBlankDepth]
               PROVE  Fits(blanks[i][k], manifest.provides[i].fields[k].type)
    BY DEF ShallowBlankFits
  <2>1. /\ table \in AllTables /\ TableFine /\ Len(manifest.provides) \in Nat
        /\ manifest.provides \in Seq([type : Seq(STRING), fields : AllFields])
        /\ DOMAIN manifest.provides = 1 .. Len(manifest.provides)
    BY ManifestStands, DecodedTyped DEF AfterProvides
  <2> DEFINE fields == manifest.provides[i].fields
             type == fields[k].type
  <2>2. i \in DOMAIN manifest.provides /\ blanks[i] = BlankFields(fields)
    BY DEF BlanksStand
  <2>3. fields \in AllFields
    <3>1. manifest.provides[i] \in [type : Seq(STRING), fields : AllFields]
      BY <2>1, <2>2, ElementOfSeq
    <3> QED
      BY <3>1
  <2> HIDE DEF fields
  <2>4. k \in DOMAIN fields /\ blanks[i][k] = BlankField[0][type]
    BY <2>2 DEF BlankFields
  <2>5. type \in Types
    <3>1. DOMAIN fields = 1 .. Len(fields)
      BY <2>3 DEF AllFields
    <3>2. fields[k] \in [name : STRING, type : Types]
      BY <2>3, <2>4, <3>1, ElementOfSeq DEF AllFields
    <3> QED
      BY <3>2
  <2>6. DueAt(0, type)
    <3>1. 0 \in 0 .. MaxBlankDepth /\ MaxBlankDepth - 0 = MaxBlankDepth
      BY BlankAssumption
    <3> QED
      BY <2>5, <3>1 DEF DueAt, fields
  <2>7. Fits(BlankField[0][type], type)
    BY <2>1, <2>6, FitsDue
  <2> QED
    BY <2>4, <2>7 DEF fields
<1> QED
  BY <1>1, BundleInvariant, BlanksOfTheManifest, PTL
=============================================================================
