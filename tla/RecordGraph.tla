----------------------------- MODULE RecordGraph -----------------------------
(***************************************************************************)
(* The record table of a manifest (src/gcpkg/eventtype.go): the checks on  *)
(* each record, the resolution of the records that fields name, and the    *)
(* depth-first walk that refuses a record which contains itself.           *)
(***************************************************************************)
EXTENDS Integers, Sequences, FiniteSets

CONSTANTS
    Names,        \* what a record may be called, valid or not
    ValidNames,   \* the names validRecordName accepts
    Order,        \* the valid names, as sort.Strings sorts them
    Scalars,      \* scalarTypes
    FieldNames,   \* the names validFieldName accepts
    Tables        \* the record tables a manifest may declare

TypePrefixes == {"none", "list", "map"}

\* A declared type taken apart.  What ParseFieldType cannot take apart has
\* an element that is neither a scalar nor a valid record name; an element
\* that is both is the scalar.
Types == [prefix : TypePrefixes, element : Names \cup Scalars]

ASSUME RecordGraphAssumption ==
    /\ ValidNames \subseteq Names
    /\ Order \in Seq(ValidNames)
    /\ \A n \in ValidNames : \E i \in DOMAIN Order : Order[i] = n
    /\ \A table \in Tables :
          /\ table \in Seq([name : Names, fields : Seq([name : STRING, type : Types])])

VARIABLES
    table,    \* manifest.Records
    phase,    \* the loop of validateRecords that is running, or its outcome
    index,    \* where that loop stands
    state,    \* detectCycles: unseen, visiting or done
    stack,    \* the walks under way, each at one of its record's fields
    clock, finish   \* ghosts: when each record was done

vars == <<table, phase, index, state, stack, clock, finish>>

Running == {"records", "resolve", "walk"}
Refusals == {"badName", "duplicate", "noFields", "badField", "unresolved", "cycle"}

Start ==
    /\ phase = "records"
    /\ index = 1
    /\ state = [n \in ValidNames |-> "unseen"]
    /\ stack = <<>>
    /\ clock = 0
    /\ finish = [n \in ValidNames |-> 0]

Init == table \in Tables /\ Start

Refuse(why) ==
    /\ phase' = why
    /\ UNCHANGED <<table, index, state, stack, clock, finish>>

-----------------------------------------------------------------------------
(* The table.                                                              *)

IsRecord(type) == type.element \in ValidNames \ Scalars
ParsesFieldType(type) == type.element \in Scalars \cup ValidNames

\* validateFields accepts a field list.
ValidFields(fields) ==
    /\ \A i \in DOMAIN fields :
          /\ fields[i].name \in FieldNames
          /\ ParsesFieldType(fields[i].type)
    /\ \A i, j \in DOMAIN fields : fields[i].name = fields[j].name => i = j

\* byName once the first i records are in it.
DeclaredUpTo(i) == { table[k].name : k \in 1 .. i }
Declared == DeclaredUpTo(Len(table))

FieldsOf(n) == table[CHOOSE k \in DOMAIN table : table[k].name = n].fields

Advance(next) ==
    /\ IF index < Len(table)
       THEN index' = index + 1 /\ UNCHANGED phase
       ELSE index' = 1 /\ phase' = next
    /\ UNCHANGED <<table, state, stack, clock, finish>>

CheckRecord ==
    /\ phase = "records"
    /\ \/ table = <<>> /\ Advance("resolve")
       \/ /\ index <= Len(table)
          /\ LET record == table[index]
             IN  \/ /\ record.name \notin ValidNames
                    /\ Refuse("badName")
                 \/ /\ record.name \in ValidNames \cap DeclaredUpTo(index - 1)
                    /\ Refuse("duplicate")
                 \/ /\ record.name \in ValidNames \ DeclaredUpTo(index - 1)
                    /\ \/ record.fields = <<>> /\ Refuse("noFields")
                       \/ record.fields # <<>> /\ ~ValidFields(record.fields) /\ Refuse("badField")
                       \/ record.fields # <<>> /\ ValidFields(record.fields) /\ Advance("resolve")

Resolves(fields) ==
    \A i \in DOMAIN fields : IsRecord(fields[i].type) => fields[i].type.element \in Declared

ResolveRecord ==
    /\ phase = "resolve"
    /\ \/ table = <<>> /\ Advance("walk")
       \/ /\ index <= Len(table)
          /\ \/ ~Resolves(table[index].fields) /\ Refuse("unresolved")
             \/ Resolves(table[index].fields) /\ Advance("walk")

-----------------------------------------------------------------------------
(* The walk.  A frame of the stack is one call of walk(name, path) inside  *)
(* its loop over the fields; path is the names below it on the stack.      *)

Top == stack[Len(stack)]
Below == SubSeq(stack, 1, Len(stack) - 1)

Enter_unmarked(n, frames) ==
    /\ IF state[n] = "done"
       THEN stack' = frames
       ELSE stack' = Append(frames, [name |-> n, next |-> 1])
    /\ UNCHANGED <<state, phase>>

Enter_twoColours(n, frames) ==
    /\ IF state[n] = "unseen"
       THEN /\ state' = [state EXCEPT ![n] = "visiting"]
            /\ stack' = Append(frames, [name |-> n, next |-> 1])
       ELSE stack' = frames /\ UNCHANGED state
    /\ UNCHANGED phase

\* walk(n): mark it and start on its fields, or return, or find the cycle.
Enter(n, frames) ==
    \/ /\ state[n] = "unseen"
       /\ state' = [state EXCEPT ![n] = "visiting"]
       /\ stack' = Append(frames, [name |-> n, next |-> 1])
       /\ UNCHANGED phase
    \/ /\ state[n] = "done"
       /\ stack' = frames
       /\ UNCHANGED <<state, phase>>
    \/ /\ state[n] = "visiting"
       /\ phase' = "cycle"
       /\ UNCHANGED <<state, stack>>

\* The outer loop, over the sorted names of the table.
WalkNext ==
    /\ phase = "walk"
    /\ stack = <<>>
    /\ index <= Len(Order)
    /\ index' = index + 1
    /\ IF Order[index] \in Declared
       THEN Enter(Order[index], <<>>)
       ELSE UNCHANGED <<phase, state, stack>>
    /\ UNCHANGED <<table, clock, finish>>

Moved_stays == stack
Moved == Append(Below, [name |-> Top.name, next |-> Top.next + 1])

\* The next field of the walk on top: the record it names is walked first.
WalkField ==
    /\ phase = "walk"
    /\ stack # <<>>
    /\ Top.next <= Len(FieldsOf(Top.name))
    /\ LET type == FieldsOf(Top.name)[Top.next].type
       IN  IF IsRecord(type)
           THEN Enter(type.element, Moved)
           ELSE stack' = Moved /\ UNCHANGED <<phase, state>>
    /\ UNCHANGED <<table, index, clock, finish>>

\* The colour of a record whose walk returned.
DoneMark_forgotten == "visiting"
DoneMark == "done"

WalkReturns ==
    /\ phase = "walk"
    /\ stack # <<>>
    /\ Top.next > Len(FieldsOf(Top.name))
    /\ state' = [state EXCEPT ![Top.name] = DoneMark]
    /\ stack' = Below
    /\ clock' = clock + 1
    /\ finish' = [finish EXCEPT ![Top.name] = clock + 1]
    /\ UNCHANGED <<table, phase, index>>

WalkEnds ==
    /\ phase = "walk"
    /\ stack = <<>>
    /\ index > Len(Order)
    /\ phase' = "accepted"
    /\ UNCHANGED <<table, index, state, stack, clock, finish>>

Terminated == phase \notin Running /\ UNCHANGED vars

Next ==
    \/ CheckRecord \/ ResolveRecord
    \/ WalkNext \/ WalkField \/ WalkReturns \/ WalkEnds
    \/ Terminated

Spec == Init /\ [][Next]_vars
FairSpec == Spec /\ WF_vars(Next)
-----------------------------------------------------------------------------
(* Properties.                                                             *)

TypeOK ==
    /\ table \in Tables
    /\ phase \in Running \cup Refusals \cup {"accepted"}
    /\ index \in Nat \ {0}
    /\ state \in [ValidNames -> {"unseen", "visiting", "done"}]
    /\ stack \in Seq([name : ValidNames, next : Nat \ {0}])
    /\ clock \in Nat
    /\ finish \in [ValidNames -> Nat]

\* The records that a record's fields name.
Targets(n) == { FieldsOf(n)[i].type.element : i \in DOMAIN FieldsOf(n) } \ Scalars

\* In an accepted table every record is declared and was done before the
\* records that contain it: no chain of fields leads from a record back to it.
AcceptedIsRanked ==
    phase = "accepted" =>
        \A n \in Declared : \A t \in Targets(n) : t \in Declared /\ finish[t] < finish[n]

\* A table is refused for a cycle only when some records do contain each
\* other, and the walks under way spell the cycle out (the error's path).
RefusedCycleIsReal ==
    phase = "cycle" =>
        \E k \in DOMAIN stack :
            /\ stack[k].name \in Targets(Top.name)
            /\ \A i \in k .. Len(stack) - 1 : stack[i + 1].name \in Targets(stack[i].name)

\* No record is walked inside its own walk, so the recursion is never deeper
\* than the table is long (eventtype.go:210, "recursing until the stack runs
\* out").
WalksAreDistinct ==
    \A i, j \in DOMAIN stack : stack[i].name = stack[j].name => i = j

\* Acyclicity by definition: no set of records each of which names another.
Acyclic ==
    ~\E S \in SUBSET Declared : S # {} /\ \A n \in S : Targets(n) \cap S # {}

\* The verdict is the definition's.
VerdictMatchesDefinition ==
    /\ phase = "accepted" => Acyclic
    /\ phase = "cycle" => ~Acyclic

\* The walk ends, whatever the table.
Decides == <>(phase \notin Running)
=============================================================================
