------------------------------ MODULE PathHeap -------------------------------
(***************************************************************************)
(* ApplyPath (src/abi/v1/path.go) on the arrays that Go's slices share.    *)
(* The heap is a sequence of arrays; a cell of an array is a scalar, or a  *)
(* list that names another array.  An array is published when some payload *)
(* that was handed out can reach it: all of them are, but for those that   *)
(* the call under way has made.                                            *)
(***************************************************************************)
EXTENDS Integers, Sequences

CONSTANTS Scalars    \* the cells that are not lists

ListCell(array) == [kind |-> "list", of |-> array]
IsListCell(cell) == cell.kind = "list"
Cells(arrays) == Scalars \cup { ListCell(a) : a \in arrays }

ASSUME PathHeapAssumption == \A s \in Scalars : s.kind # "list"

VARIABLES
    heap,      \* the arrays
    versions,  \* the payloads handed out, each by its array, the last one current
    phase,     \* where the call of ApplyPath is; "idle" when there is none
    job,       \* its mutation
    base,      \* how many arrays there were when it began
    frames     \* its levels: the copy each made, and the index it is at

heapVars == <<heap, versions, phase, job, base, frames>>

Phases == {"idle", "down", "write", "up", "failed"}

Current == versions[Len(versions)]
Top == frames[Len(frames)]
Below == SubSeq(frames, 1, Len(frames) - 1)

\* Somebody makes arrays of its own, which name these and older ones.
Create(arrays) ==
    /\ phase = "idle"
    /\ heap' = heap \o arrays
    /\ UNCHANGED <<versions, phase, job, base, frames>>

\* ApplyPath(payload, mutation), for a path that is not empty.
Begin(path, value) ==
    /\ phase = "idle"
    /\ path # <<>>
    /\ phase' = "down"
    /\ job' = [path |-> path, value |-> value]
    /\ base' = Len(heap)
    /\ frames' = <<>>
    /\ UNCHANGED <<heap, versions>>

\* The array of the list that the next level copies.
Source == IF frames = <<>> THEN Current ELSE heap[Top.array][Top.at].of
Index == job.path[Len(frames) + 1] + 1

\* Where a level writes: the copy it is about to make.
Copied_inPlace == Source
Copied == Len(heap) + 1

\* One level of applyPath, down to the recursive call.
Copy ==
    /\ phase = "down"
    /\ Index <= Len(heap[Source])
    /\ heap' = Append(heap, heap[Source])
    /\ frames' = Append(frames, [array |-> Copied, at |-> Index])
    /\ phase' = IF Len(frames') = Len(job.path)
                THEN "write"
                ELSE IF IsListCell(heap[Source][Index]) THEN "down" ELSE "failed"
    /\ UNCHANGED <<versions, job, base>>

Put(cell) == heap' = [heap EXCEPT ![Top.array] = [@ EXCEPT ![Top.at] = cell]]

\* The last level: updated[index] = replacement.
Write ==
    /\ phase = "write"
    /\ Put(job.value)
    /\ phase' = "up"
    /\ UNCHANGED <<versions, job, base, frames>>

\* A level returns: updated[index] of the one above is the list it made.
Link ==
    /\ phase = "up"
    /\ Len(frames) > 1
    /\ LET above == frames[Len(frames) - 1]
       IN  heap' = [heap EXCEPT ![above.array] = [@ EXCEPT ![above.at] = ListCell(Top.array)]]
    /\ frames' = Below
    /\ UNCHANGED <<versions, phase, job, base>>

\* The outermost level returns.
Publish ==
    /\ phase = "up"
    /\ Len(frames) = 1
    /\ versions' = Append(versions, Top.array)
    /\ phase' = "idle"
    /\ frames' = <<>>
    /\ UNCHANGED <<heap, job, base>>

\* An error of any level is the error of all: what was copied is dropped.
Fail ==
    /\ \/ phase = "failed"
       \/ phase = "down" /\ Index > Len(heap[Source])
    /\ phase' = "idle"
    /\ frames' = <<>>
    /\ UNCHANGED <<heap, versions, job, base>>

-----------------------------------------------------------------------------
(* ApplyPath called with anything, on anything.                            *)

\* Every list names an array there is.
WellFormed == heap \in Seq(Seq(Cells(1 .. Len(heap))))

HeapInit ==
    /\ WellFormed
    /\ versions \in { <<a>> : a \in DOMAIN heap }
    /\ phase = "idle"
    /\ job = [path |-> <<>>, value |-> ListCell(1)]
    /\ base = 0
    /\ frames = <<>>

HeapNext ==
    \/ \E arrays \in Seq(Seq(Cells(Nat))) : Create(arrays) /\ WellFormed'
    \/ \E path \in Seq(Nat), value \in Cells(1 .. Len(heap)) : Begin(path, value)
    \/ Copy \/ Write \/ Link \/ Publish \/ Fail

HeapSpec == HeapInit /\ [][HeapNext]_heapVars
-----------------------------------------------------------------------------
(* Properties.                                                             *)

\* The arrays that somebody else may be reading.
Published == IF phase = "idle" THEN Len(heap) ELSE base

\* No array changes once it is published: whoever holds an older payload, or
\* a list out of one, holds it as it was (path.go, "The input is never
\* modified", though all that is off the path is shared).
PublishedNeverChanges ==
    [][\A a \in 1 .. Published : heap'[a] = heap[a]]_heapVars
=============================================================================
