------------------------------ MODULE DiffHeap -------------------------------
(***************************************************************************)
(* abi.Diff (src/abi/v1/value.go) on the arrays of PathHeap, and ApplyPath *)
(* taking the mutations it recorded.  The recursion of diffInto hands      *)
(* append(path, index) down: sibling calls may write their index into one  *)
(* and the same array of spare capacity.                                   *)
(***************************************************************************)
EXTENDS PathHeap, Values

CONSTANTS
    Payloads,   \* the field lists a subscriber may want, each as its arrays, the
                \* one of the fields first
    Foreign,    \* mutations that are no difference, each with the arrays of its value
    Spare,      \* bound: the capacity append may allocate beyond what it needs
    Rounds      \* bound: how often somebody changes the payload

\* Arrays as somebody makes them who goes from lists to the ones inside.
Made(arrays) ==
    /\ arrays \in Seq(Seq(Cells(DOMAIN arrays)))
    /\ \A a \in DOMAIN arrays : \A i \in DOMAIN arrays[a] :
          IsListCell(arrays[a][i]) => a < arrays[a][i].of

ASSUME DiffHeapAssumption ==
    /\ \A payload \in Payloads : Made(payload) /\ payload # <<>>
    /\ \A mutation \in Foreign :
          /\ mutation.path \in Seq(Nat)
          /\ Made(mutation.arrays)
          /\ mutation.value \in Cells(DOMAIN mutation.arrays)
    /\ Spare \in Nat /\ Rounds \in Nat

VARIABLES
    paths,      \* the arrays of indices
    walk,       \* the calls of diffInto under way
    recorded,   \* the mutations, each with the slice that is its path
    rounds

vars == <<heapVars, paths, walk, recorded, rounds>>
diffVars == <<paths, walk, recorded, rounds>>

-----------------------------------------------------------------------------
(* Reading and making lists.                                               *)

\* What the arrays hold, with the lists that they name in place of the names.
Lists(arrays) ==
    LET list[a \in DOMAIN arrays] ==
            [i \in DOMAIN arrays[a] |->
                IF IsListCell(arrays[a][i]) THEN List(list[arrays[a][i].of]) ELSE arrays[a][i]]
    IN  list

ValueOf(arrays, cell) == IF IsListCell(cell) THEN List(Lists(arrays)[cell.of]) ELSE cell
ReadCell(cell) == ValueOf(heap, cell)
ReadArray(array) == Lists(heap)[array]

\* A cell of somebody's own arrays, and these arrays, where the heap ends.
Moved(cell) == IF IsListCell(cell) THEN ListCell(Len(heap) + cell.of) ELSE cell
NewArrays(arrays) ==
    [a \in DOMAIN arrays |-> [i \in DOMAIN arrays[a] |-> Moved(arrays[a][i])]]

-----------------------------------------------------------------------------
(* Slices of indices.                                                      *)

NilPath == [array |-> 0, len |-> 0]
PathOf(slice) == IF slice.array = 0 THEN <<>> ELSE SubSeq(paths[slice.array], 1, slice.len)
Capacity(slice) == IF slice.array = 0 THEN 0 ELSE Len(paths[slice.array])

\* append(slice, index): in place when there is room, else in an array with
\* some room to spare.
Appended(slice, index, spare) ==
    IF slice.len < Capacity(slice)
    THEN [paths |-> [paths EXCEPT ![slice.array] = [@ EXCEPT ![slice.len + 1] = index]],
          slice |-> [slice EXCEPT !.len = @ + 1]]
    ELSE [paths |-> Append(paths, PathOf(slice) \o <<index>> \o [i \in 1 .. spare |-> 0]),
          slice |-> [array |-> Len(paths) + 1, len |-> slice.len + 1]]

\* The path of a mutation: made, copied and set.
Recorded_appended(slice, index) == Appended(slice, index, Spare)
Recorded(slice, index) ==
    [paths |-> Append(paths, Append(PathOf(slice), index)),
     slice |-> [array |-> Len(paths) + 1, len |-> slice.len + 1]]

-----------------------------------------------------------------------------
(* Diff.                                                                   *)

Waiting == phase = "idle" /\ walk = <<>> /\ recorded = <<>>

Init ==
    /\ heap \in Payloads
    /\ versions = <<1>>
    /\ phase = "idle"
    /\ job = [path |-> <<>>, value |-> ListCell(1)]
    /\ base = 0
    /\ frames = <<>>
    /\ paths = <<>> /\ walk = <<>> /\ recorded = <<>>
    /\ rounds = 0

DiffCall(slice, before, after) == [path |-> slice, before |-> before, after |-> after, at |-> 1]

\* Diff of the current payload and one that a subscriber decoded and changed,
\* or one that was handed out before.
Want ==
    /\ Waiting
    /\ rounds < Rounds
    /\ rounds' = rounds + 1
    /\ \/ \E payload \in Payloads :
            /\ Create(NewArrays(payload))
            /\ walk' = <<DiffCall(NilPath, Current, Len(heap) + 1)>>
       \/ \E i \in DOMAIN versions :
            /\ Create(<<>>)
            /\ walk' = <<DiffCall(NilPath, Current, versions[i])>>
    /\ UNCHANGED <<paths, recorded>>

\* A mutation that is no difference.
WantForeign ==
    /\ Waiting
    /\ rounds < Rounds
    /\ rounds' = rounds + 1
    /\ \E mutation \in Foreign :
          /\ Create(NewArrays(mutation.arrays))
          /\ paths' = Append(paths, mutation.path)
          /\ recorded' = <<[path |-> [array |-> Len(paths'), len |-> Len(mutation.path)],
                            value |-> Moved(mutation.value)]>>
    /\ UNCHANGED walk

Caller == SubSeq(walk, 1, Len(walk) - 1)
Callee == walk[Len(walk)]
Further == Append(Caller, [Callee EXCEPT !.at = @ + 1])
Left == heap[Callee.before][Callee.at]
Right == heap[Callee.after][Callee.at]
InLoop ==
    /\ walk # <<>>
    /\ Len(heap[Callee.before]) = Len(heap[Callee.after])
    /\ Callee.at <= Len(heap[Callee.before])

BothLists ==
    IsListCell(Left) /\ IsListCell(Right) /\ Len(heap[Left.of]) = Len(heap[Right.of])

\* diffInto(append(path, index), ...).
DiffDescends ==
    /\ InLoop
    /\ BothLists
    /\ \E spare \in 0 .. Spare :
          LET next == Appended(Callee.path, Callee.at - 1, spare)
          IN  /\ paths' = next.paths
              /\ walk' = Append(Further, DiffCall(next.slice, Left.of, Right.of))
    /\ UNCHANGED <<heapVars, recorded, rounds>>

DiffSame ==
    /\ InLoop
    /\ ~BothLists
    /\ Equal(ReadCell(Left), ReadCell(Right))
    /\ walk' = Further
    /\ UNCHANGED <<heapVars, paths, recorded, rounds>>

DiffRecords ==
    /\ InLoop
    /\ ~BothLists
    /\ ~Equal(ReadCell(Left), ReadCell(Right))
    /\ LET made == Recorded(Callee.path, Callee.at - 1)
       IN  /\ paths' = made.paths
           /\ recorded' = Append(recorded, [path |-> made.slice, value |-> Right])
    /\ walk' = Further
    /\ UNCHANGED <<heapVars, rounds>>

DiffReturns ==
    /\ walk # <<>>
    /\ ~InLoop
    /\ walk' = Caller
    /\ UNCHANGED <<heapVars, paths, recorded, rounds>>

-----------------------------------------------------------------------------
(* ApplyPath, one mutation after the other.                                *)

ApplyFirst ==
    /\ walk = <<>>
    /\ recorded # <<>>
    /\ Begin(PathOf(Head(recorded).path), Head(recorded).value)
    /\ UNCHANGED diffVars

\* ApplyPath refuses a mutation without a path.
ApplyNothing ==
    /\ phase = "idle" /\ walk = <<>>
    /\ recorded # <<>>
    /\ Head(recorded).path.len = 0
    /\ recorded' = Tail(recorded)
    /\ UNCHANGED <<heapVars, paths, walk, rounds>>

ApplyRuns == (Copy \/ Write \/ Link) /\ UNCHANGED diffVars

ApplyReturns ==
    /\ Publish \/ Fail
    /\ recorded' = Tail(recorded)
    /\ UNCHANGED <<paths, walk, rounds>>

Finished == Waiting /\ rounds = Rounds /\ UNCHANGED vars

Next ==
    \/ Want \/ WantForeign
    \/ DiffDescends \/ DiffSame \/ DiffRecords \/ DiffReturns
    \/ ApplyFirst \/ ApplyNothing \/ ApplyRuns \/ ApplyReturns
    \/ Finished

Spec == Init /\ [][Next]_vars
-----------------------------------------------------------------------------
(* Properties.                                                             *)

Pending ==
    IF walk # <<>>
    THEN <<>>
    ELSE [i \in DOMAIN recorded |->
            [path |-> PathOf(recorded[i].path), value |-> ReadCell(recorded[i].value)]]

Payload == INSTANCE ImmutablePayload WITH
    Payloads <- { Lists(payload)[1] : payload \in Payloads },
    Foreign <- { [path |-> m.path, value |-> ValueOf(m.arrays, m.value)] : m \in Foreign },
    versions <- [i \in DOMAIN versions |-> ReadArray(versions[i])],
    pending <- Pending

\* On shared arrays the two behave as if on values: a recorded path is not
\* rewritten by the siblings that append to the same array, a mutation that
\* shares its list with the payload it came from still carries it when it is
\* applied, and no payload that was handed out changes (value.go, path.go).
ImplementsPayload == Payload!PayloadSpec
=============================================================================
