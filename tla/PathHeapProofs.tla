--------------------------- MODULE PathHeapProofs ----------------------------
(***************************************************************************)
(* Proofs about PathHeap and DiffHeap: ApplyPath called with any path and  *)
(* any value, on any well-formed heap, any number of times; and Diff and   *)
(* ApplyPath together, on any payloads whose arrays make finite lists.     *)
(* The second half shows that what the two do to arrays is what they do to *)
(* the values that the arrays hold: the arrays of a call of ApplyPath hold *)
(* the lists that Replace makes, level by level, and the mutations that    *)
(* diffInto has recorded, with the pairs its calls have left, make the     *)
(* difference of the two payloads.                                         *)
(***************************************************************************)
EXTENDS DiffHeap, ValuesProofs

USE DEF Phases

-----------------------------------------------------------------------------
(* The inductive invariant.                                                *)

Frames(h) == [array : 1 .. Len(h), at : Nat]

HeapType ==
    /\ WellFormed
    /\ versions \in Seq(1 .. Len(heap)) /\ versions # <<>>
    /\ phase \in Phases
    /\ job \in [path : Seq(Nat), value : Cells(1 .. Len(heap))]
    /\ base \in 0 .. Len(heap)
    /\ frames \in Seq(Frames(heap))

\* Every level of the call under way writes to an array made after it began.
OwnCopies == \A i \in 1 .. Len(frames) : frames[i].array > base

\* A call that still descends has a list to descend into.
ListAhead ==
    frames # <<>> =>
        /\ Top.at \in 1 .. Len(heap[Top.array])
        /\ IsListCell(heap[Top.array][Top.at])

CallInv ==
    /\ phase # "idle" => OwnCopies
    /\ phase = "down" => ListAhead /\ Len(frames) < Len(job.path)
    /\ phase \in {"write", "up"} => frames # <<>>

HeapInv == HeapType /\ CallInv

-----------------------------------------------------------------------------
(* Heaps that grow.                                                        *)

\* More arrays, more cells that may refer to them.
LEMMA MoreCells == \A m, n \in Nat : m <= n => Cells(1 .. m) \subseteq Cells(1 .. n)
  BY DEF Cells

\* So a heap that grew keeps the types of its arrays.
LEMMA MoreArrays ==
    ASSUME NEW m \in Nat, NEW n \in Nat, m <= n
    PROVE  Seq(Seq(Cells(1 .. m))) \subseteq Seq(Seq(Cells(1 .. n)))
  BY MoreCells, SeqMonotonic

\* A heap that grew keeps the types of what refers to it.
LEMMA ReferencesStay ==
    ASSUME NEW h \in Seq(Seq(Cells(Nat))), Len(heap) <= Len(h),
           HeapType
    PROVE  /\ versions \in Seq(1 .. Len(h))
           /\ job \in [path : Seq(Nat), value : Cells(1 .. Len(h))]
           /\ base \in 0 .. Len(h)
           /\ frames \in Seq(Frames(h))
<1>1. Len(heap) \in Nat /\ Len(h) \in Nat
  BY LenProperties DEF HeapType, WellFormed
<1>2. 1 .. Len(heap) \subseteq 1 .. Len(h)
  BY <1>1
<1>3. Cells(1 .. Len(heap)) \subseteq Cells(1 .. Len(h))
  BY <1>1, MoreCells
<1>4. Frames(heap) \subseteq Frames(h)
  BY <1>2 DEF Frames
<1>5. base \in 0 .. Len(h)
  BY <1>1 DEF HeapType
<1>6. versions \in Seq(1 .. Len(h)) /\ frames \in Seq(Frames(h))
  BY <1>2, <1>4, SeqMonotonic DEF HeapType
<1> QED
  BY <1>3, <1>5, <1>6 DEF HeapType

-----------------------------------------------------------------------------
(* The steps of a call.                                                    *)

\* The array that the next level copies is one of the heap.
LEMMA SourceInHeap ==
    ASSUME HeapInv, phase = "down"
    PROVE  Source \in 1 .. Len(heap) /\ heap[Source] \in Seq(Cells(1 .. Len(heap)))
<1>1. CASE frames = <<>>
  BY <1>1, LenProperties DEF HeapInv, HeapType, WellFormed, Source, Current
<1>2. CASE frames # <<>>
  <2>1. Top \in Frames(heap)
    BY <1>2, LenProperties DEF HeapInv, HeapType, Top
  <2>2. heap[Top.array] \in Seq(Cells(1 .. Len(heap)))
    BY <2>1, LenProperties DEF HeapInv, HeapType, WellFormed, Frames
  <2>3. heap[Top.array][Top.at] \in Cells(1 .. Len(heap)) /\ IsListCell(heap[Top.array][Top.at])
    BY <1>2, <2>2, LenProperties DEF HeapInv, CallInv, ListAhead
  <2>4. PICK a \in 1 .. Len(heap) : heap[Top.array][Top.at] = ListCell(a)
    BY <2>3, PathHeapAssumption DEF Cells, IsListCell
  <2>5. Source = a
    BY <1>2, <2>4 DEF Source, ListCell
  <2> QED
    BY <2>5, LenProperties DEF HeapInv, HeapType, WellFormed
<1> QED
  BY <1>1, <1>2

\* The empty heap.
LEMMA HeapInitInv == HeapInit => HeapInv
<1> SUFFICES ASSUME HeapInit PROVE HeapInv
  OBVIOUS
<1>1. Len(heap) \in Nat /\ DOMAIN heap = 1 .. Len(heap)
  BY LenProperties DEF HeapInit, WellFormed
<1>2. PICK a \in 1 .. Len(heap) : versions = <<a>>
  BY <1>1 DEF HeapInit
<1>3. 1 \in 1 .. Len(heap)
  BY <1>1, <1>2
<1>4. job \in [path : Seq(Nat), value : Cells(1 .. Len(heap))]
  BY <1>3 DEF HeapInit, Cells
<1>5. frames = <<>> /\ frames \in Seq(Frames(heap))
  BY DEF HeapInit
<1> QED
  BY <1>1, <1>2, <1>4, <1>5 DEF HeapInit, HeapInv, HeapType, CallInv

\* Creating values keeps the invariant.
LEMMA CreateInv ==
    ASSUME HeapInv, NEW arrays \in Seq(Seq(Cells(Nat))), Create(arrays), WellFormed'
    PROVE  HeapInv'
<1>1. heap \in Seq(Seq(Cells(Nat))) /\ heap' \in Seq(Seq(Cells(Nat)))
  <2>1. ASSUME NEW n \in Nat PROVE Seq(Seq(Cells(1 .. n))) \subseteq Seq(Seq(Cells(Nat)))
    <3>1. Cells(1 .. n) \subseteq Cells(Nat)
      BY DEF Cells
    <3> QED
      BY <3>1, SeqMonotonic
  <2> QED
    BY <2>1, LenProperties DEF HeapInv, HeapType, WellFormed
<1>2. Len(heap) <= Len(heap')
  BY <1>1, ConcatProperties, LenProperties DEF Create
<1>3. HeapType'
  BY <1>1, <1>2, ReferencesStay DEF HeapInv, HeapType, Create
<1> QED
  BY <1>3 DEF HeapInv, CallInv, Create

\* Calling ApplyPath keeps it.
LEMMA BeginInv ==
    ASSUME HeapInv, NEW path \in Seq(Nat), NEW value \in Cells(1 .. Len(heap)),
           Begin(path, value)
    PROVE  HeapInv'
<1>1. Len(heap) \in Nat /\ Len(path) \in Nat \ {0}
  BY LenProperties, EmptySeq DEF HeapInv, HeapType, WellFormed, Begin
<1>2. HeapType'
  BY <1>1 DEF HeapInv, HeapType, WellFormed, Begin, Frames
<1> QED
  BY <1>1, <1>2 DEF HeapInv, CallInv, OwnCopies, ListAhead, Begin

\* The copy of an array is one more array of the heap.
LEMMA CopyInv ==
    ASSUME HeapInv, Copy
    PROVE  HeapInv'
<1> DEFINE copy == Len(heap) + 1
<1>1. /\ Len(heap) \in Nat /\ copy \in Nat
      /\ heap \in Seq(Seq(Cells(1 .. Len(heap))))
      /\ frames \in Seq(Frames(heap)) /\ Len(frames) \in Nat
      /\ base \in 0 .. Len(heap)
  BY LenProperties DEF HeapInv, HeapType, WellFormed
<1>2. /\ phase = "down" /\ phase' \in {"write", "down", "failed"}
      /\ heap' = Append(heap, heap[Source])
      /\ frames' = Append(frames, [array |-> copy, at |-> Index])
      /\ UNCHANGED <<versions, job, base>>
  BY DEF Copy, Copied
<1>3. Source \in 1 .. Len(heap) /\ heap[Source] \in Seq(Cells(1 .. Len(heap)))
  BY <1>2, SourceInHeap
<1>4. Index \in 1 .. Len(heap[Source])
  <2>1. Len(frames) + 1 \in 1 .. Len(job.path) /\ job.path \in Seq(Nat)
    <3>1. job.path \in Seq(Nat)
      BY DEF HeapInv, HeapType
    <3>2. Len(job.path) \in Nat
      BY <3>1, LenProperties
    <3>3. Len(frames) < Len(job.path)
      BY <1>2 DEF HeapInv, CallInv
    <3> QED
      BY <1>1, <3>1, <3>2, <3>3
  <2>2. job.path[Len(frames) + 1] \in Nat
    BY <2>1, LenProperties
  <2> QED
    BY <1>3, <2>2, LenProperties DEF Copy, Index
<1>5. heap' \in Seq(Seq(Cells(1 .. copy))) /\ Len(heap') = copy
  <2>1. heap \in Seq(Seq(Cells(1 .. copy)))
    BY <1>1, MoreArrays
  <2>2. heap[Source] \in Seq(Cells(1 .. copy))
    BY <2>1, <1>3, LenProperties
  <2> QED
    BY <1>1, <1>2, <2>1, <2>2, AppendProperties
<1>6. /\ heap'[copy] = heap[Source]
      /\ Len(frames') = Len(frames) + 1
      /\ frames'[Len(frames')] = [array |-> copy, at |-> Index]
      /\ \A i \in 1 .. Len(frames) : frames'[i] = frames[i]
  BY <1>1, <1>2, <1>3, AppendProperties
<1>7. HeapType'
  <2>1. heap' \in Seq(Seq(Cells(Nat)))
    <3>1. Cells(1 .. copy) \subseteq Cells(Nat)
      BY DEF Cells
    <3> QED
      BY <1>5, <3>1, SeqMonotonic
  <2>2. /\ versions \in Seq(1 .. copy)
        /\ job \in [path : Seq(Nat), value : Cells(1 .. copy)]
        /\ base \in 0 .. copy
        /\ frames \in Seq(Frames(heap'))
    BY <1>1, <1>5, <2>1, ReferencesStay DEF HeapInv
  <2>3. [array |-> copy, at |-> Index] \in Frames(heap')
    BY <1>1, <1>4, <1>5 DEF Frames
  <2>4. frames' \in Seq(Frames(heap'))
    BY <1>2, <2>2, <2>3, AppendProperties
  <2>5. Frames(heap)' = Frames(heap')
    BY DEF Frames
  <2> QED
    BY <1>2, <1>5, <2>2, <2>4, <2>5 DEF HeapInv, HeapType, WellFormed
<1>8. OwnCopies'
  BY <1>1, <1>2, <1>6 DEF HeapInv, CallInv, OwnCopies
<1>9. ASSUME phase' = "down" PROVE ListAhead' /\ Len(frames') < Len(job.path)
  <2>1. IsListCell(heap[Source][Index]) /\ Len(frames') # Len(job.path)
    BY <1>9, <1>2 DEF Copy
  <2>2. Top' = [array |-> copy, at |-> Index]
    BY <1>6 DEF Top
  <2>3. ListAhead'
    BY <1>4, <1>6, <2>1, <2>2 DEF ListAhead
  <2>4. Len(frames) < Len(job.path) /\ Len(job.path) \in Nat
    BY <1>2, LenProperties DEF HeapInv, HeapType, CallInv
  <2> QED
    BY <1>1, <1>6, <2>1, <2>3, <2>4
<1>10. frames' # <<>>
  BY <1>1, <1>6
<1> QED
  BY <1>2, <1>7, <1>8, <1>9, <1>10 DEF HeapInv, CallInv

\* An array of the heap written in one place.
LEMMA OneCellWritten ==
    ASSUME HeapInv, NEW a \in 1 .. Len(heap), NEW i \in Nat,
           NEW cell \in Cells(1 .. Len(heap)),
           heap' = [heap EXCEPT ![a] = [@ EXCEPT ![i] = cell]]
    PROVE  WellFormed' /\ Len(heap') = Len(heap)
<1>1. heap \in Seq(Seq(Cells(1 .. Len(heap)))) /\ heap[a] \in Seq(Cells(1 .. Len(heap)))
  BY LenProperties DEF HeapInv, HeapType, WellFormed
<1>2. [heap[a] EXCEPT ![i] = cell] \in Seq(Cells(1 .. Len(heap)))
  <2>1. CASE i \in 1 .. Len(heap[a])
    BY <1>1, <2>1, ExceptSeq
  <2>2. CASE i \notin 1 .. Len(heap[a])
    <3>1. DOMAIN heap[a] = 1 .. Len(heap[a])
      BY <1>1, LenProperties
    <3>2. [heap[a] EXCEPT ![i] = cell] = heap[a]
      BY <1>1, <2>2, <3>1, LenProperties
    <3> QED
      BY <1>1, <3>2
  <2> QED
    BY <2>1, <2>2
<1>3. heap' = [heap EXCEPT ![a] = [heap[a] EXCEPT ![i] = cell]]
  BY <1>1, LenProperties
<1>4. heap' \in Seq(Seq(Cells(1 .. Len(heap)))) /\ Len(heap') = Len(heap)
  BY <1>1, <1>2, <1>3, ExceptSeq
<1> QED
  BY <1>4 DEF WellFormed

\* Writing into a copy keeps it.
LEMMA WriteInv ==
    ASSUME HeapInv, Write
    PROVE  HeapInv'
<1>1. Top \in Frames(heap)
  BY LenProperties DEF HeapInv, HeapType, CallInv, Write, Top
<1>2. WellFormed' /\ Len(heap') = Len(heap)
  BY <1>1, OneCellWritten DEF Write, Put, Frames, HeapInv, HeapType
<1>3. HeapType'
  BY <1>2 DEF HeapInv, HeapType, Write, Frames
<1> QED
  BY <1>3 DEF HeapInv, CallInv, OwnCopies, Write

\* The frames under the top of the stack.
LEMMA BelowType ==
    ASSUME HeapInv, Len(frames) > 1
    PROVE  /\ Below \in Seq(Frames(heap)) /\ Below # <<>>
           /\ Len(Below) = Len(frames) - 1
           /\ \A i \in 1 .. Len(Below) : Below[i] = frames[i]
<1>1. frames \in Seq(Frames(heap)) /\ Len(frames) \in Nat
  BY LenProperties DEF HeapInv, HeapType
<1>2. 1 \in 1 .. Len(frames) + 1 /\ Len(frames) - 1 \in 1 - 1 .. Len(frames)
  BY <1>1
<1>3. /\ Below \in Seq(Frames(heap)) /\ Len(Below) = Len(frames) - 1
      /\ \A i \in 1 .. Len(Below) : Below[i] = frames[i]
  BY <1>1, <1>2, SMTT(30) DEF Below
<1> QED
  BY <1>1, <1>3

\* Linking a finished copy into the one above keeps it.
LEMMA LinkInv ==
    ASSUME HeapInv, Link
    PROVE  HeapInv'
<1>1. /\ Len(frames) \in Nat /\ Len(frames) > 1
      /\ frames[Len(frames) - 1] \in Frames(heap) /\ Top \in Frames(heap)
  BY LenProperties DEF HeapInv, HeapType, Link, Top
<1>2. ListCell(Top.array) \in Cells(1 .. Len(heap))
  BY <1>1 DEF Cells, Frames
<1>3. WellFormed' /\ Len(heap') = Len(heap)
  BY <1>1, <1>2, OneCellWritten DEF Link, Frames
<1>4. HeapType'
  BY <1>1, <1>3, BelowType DEF HeapInv, HeapType, Link, Frames
<1>5. OwnCopies'
  BY <1>1, BelowType DEF HeapInv, CallInv, OwnCopies, Link
<1> QED
  BY <1>1, <1>4, <1>5, BelowType DEF HeapInv, CallInv, Link

\* Returning keeps it.
LEMMA ReturnInv ==
    ASSUME HeapInv, Publish \/ Fail
    PROVE  HeapInv'
<1>1. /\ WellFormed' /\ phase' = "idle" /\ heap' = heap /\ frames' = <<>>
      /\ job' = job /\ base' = base
  BY DEF HeapInv, HeapType, WellFormed, Publish, Fail
<1>2. versions' \in Seq(1 .. Len(heap)) /\ versions' # <<>>
  <2>1. CASE Publish
    <3>1. Len(frames) = 1 /\ frames \in Seq(Frames(heap))
      BY <2>1 DEF HeapInv, HeapType, Publish
    <3>2. Top \in Frames(heap)
      BY <3>1, ElementOfSeq DEF Top
    <3>3. versions' = Append(versions, Top.array) /\ versions \in Seq(1 .. Len(heap))
      BY <2>1 DEF HeapInv, HeapType, Publish
    <3> QED
      BY <3>2, <3>3, AppendProperties DEF Frames
  <2>2. CASE Fail
    BY <2>2 DEF HeapInv, HeapType, Fail
  <2> QED
    BY <2>1, <2>2
<1> QED
  BY <1>1, <1>2 DEF HeapInv, HeapType, CallInv, Frames

\* Doing nothing keeps it.
LEMMA StutterInv == HeapInv /\ UNCHANGED heapVars => HeapInv'
  BY DEF heapVars, HeapInv, HeapType, CallInv, WellFormed, OwnCopies, ListAhead, Top, Frames

\* Every step keeps it.
LEMMA HeapStepInv == HeapInv /\ [HeapNext]_heapVars => HeapInv'
<1> SUFFICES ASSUME HeapInv, [HeapNext]_heapVars PROVE HeapInv'
  OBVIOUS
<1>1. ASSUME NEW arrays \in Seq(Seq(Cells(Nat))), Create(arrays), WellFormed' PROVE HeapInv'
  BY <1>1, CreateInv
<1>2. ASSUME NEW path \in Seq(Nat), NEW value \in Cells(1 .. Len(heap)), Begin(path, value)
      PROVE HeapInv'
  BY <1>2, BeginInv
<1>3. CASE Copy
  BY <1>3, CopyInv
<1>4. CASE Write
  BY <1>4, WriteInv
<1>5. CASE Link
  BY <1>5, LinkInv
<1>6. CASE Publish \/ Fail
  BY <1>6, ReturnInv
<1>7. CASE UNCHANGED heapVars
  BY <1>7, StutterInv
<1> QED
  BY <1>1, <1>2, <1>3, <1>4, <1>5, <1>6, <1>7 DEF HeapNext

\* Every reachable heap is well formed, and a call under way writes only to
\* arrays it made itself (path.go, applyPath: one new array per level).
THEOREM HeapInvariant == HeapSpec => []HeapInv
  BY HeapInitInv, HeapStepInv, PTL DEF HeapSpec

-----------------------------------------------------------------------------
(* What is published stays.                                                *)

\* A write to an array of the call under way leaves the published ones alone.
LEMMA OwnWrite ==
    ASSUME HeapInv, phase # "idle", NEW i \in 1 .. Len(frames), NEW cell, NEW j,
           heap' = [heap EXCEPT ![frames[i].array] = [@ EXCEPT ![j] = cell]]
    PROVE  \A a \in 1 .. Published : heap'[a] = heap[a]
<1>1. frames[i].array > base /\ base \in Nat /\ frames[i].array \in Nat
  <2>1. frames[i] \in Frames(heap)
    BY ElementOfSeq DEF HeapInv, HeapType
  <2> QED
    BY <2>1 DEF HeapInv, HeapType, CallInv, OwnCopies, Frames
<1>2. heap \in Seq(Seq(Cells(1 .. Len(heap)))) /\ Len(heap) \in Nat /\ base <= Len(heap)
  BY LenProperties DEF HeapInv, HeapType, WellFormed
<1>3. ASSUME NEW a \in 1 .. Published PROVE heap'[a] = heap[a]
  <2>1. a \in 1 .. base
    BY <1>3 DEF Published
  <2>2. a \in DOMAIN heap /\ a # frames[i].array
    BY <1>1, <1>2, <2>1, LenProperties
  <2> QED
    BY <2>2
<1> QED
  BY <1>3

\* No step writes into an array that has been returned.
LEMMA StepKeepsPublished ==
    HeapInv /\ [HeapNext]_heapVars => \A a \in 1 .. Published : heap'[a] = heap[a]
<1> SUFFICES ASSUME HeapInv, [HeapNext]_heapVars
             PROVE  \A a \in 1 .. Published : heap'[a] = heap[a]
  OBVIOUS
<1>1. Published \in 0 .. Len(heap) /\ Len(heap) \in Nat
  BY LenProperties DEF HeapInv, HeapType, WellFormed, Published
<1>2. ASSUME NEW arrays \in Seq(Seq(Cells(Nat))), Create(arrays)
      PROVE  \A a \in 1 .. Published : heap'[a] = heap[a]
  BY <1>1, <1>2, ConcatProperties DEF HeapInv, HeapType, WellFormed, Create
<1>3. CASE Copy
  BY <1>1, <1>3, SourceInHeap, AppendProperties DEF HeapInv, HeapType, WellFormed, Copy
<1>4. CASE Write
  <2>1. Len(frames) \in 1 .. Len(frames)
    BY <1>4, LenProperties DEF HeapInv, HeapType, CallInv, Write
  <2> QED
    BY <1>4, <2>1, OwnWrite DEF Write, Put, Top
<1>5. CASE Link
  <2>1. Len(frames) - 1 \in 1 .. Len(frames)
    BY <1>5, LenProperties DEF HeapInv, HeapType, Link
  <2> QED
    BY <1>5, <2>1, OwnWrite DEF Link
<1>6. CASE UNCHANGED heap
  BY <1>6
<1> QED
  BY <1>2, <1>3, <1>4, <1>5, <1>6 DEF HeapNext, Begin, Publish, Fail, heapVars

\* Whatever anybody holds of a payload that was handed out stays as it was,
\* whatever is applied to it later (path.go, "The input is never modified").
THEOREM PublishedStays == HeapSpec => PublishedNeverChanges
<1>1. HeapInv /\ [HeapNext]_heapVars => [\A a \in 1 .. Published : heap'[a] = heap[a]]_heapVars
  BY StepKeepsPublished
<1> QED
  BY <1>1, HeapInvariant, PTL DEF HeapSpec, PublishedNeverChanges

-----------------------------------------------------------------------------
(* Reading lists out of arrays.                                            *)

\* Every list names an array there is.
IsHeap(h) == h \in Seq(Seq(Cells(DOMAIN h)))

\* No array is inside itself: what an array names is of a lower rank.
Ranked(h, m, rank) ==
    /\ rank \in [DOMAIN h -> 0 .. m]
    /\ \A a \in DOMAIN h : \A i \in DOMAIN h[a] :
          IsListCell(h[a][i]) => rank[h[a][i].of] < rank[a]
Acyclic(h) == \E m \in Nat : \E rank : Ranked(h, m, rank)

\* What an array holds, when the lists it names hold what list says.
Content(h, list, a) ==
    [i \in DOMAIN h[a] |-> IF IsListCell(h[a][i]) THEN List(list[h[a][i].of]) ELSE h[a][i]]

\* The cells of an array of a heap.
LEMMA CellsOf ==
    ASSUME NEW h, IsHeap(h), NEW a \in DOMAIN h
    PROVE  /\ Len(h) \in Nat /\ DOMAIN h = 1 .. Len(h)
           /\ h[a] \in Seq(Cells(DOMAIN h))
           /\ Len(h[a]) \in Nat /\ DOMAIN h[a] = 1 .. Len(h[a])
           /\ \A i \in DOMAIN h[a] :
                 /\ IsListCell(h[a][i]) =>
                       h[a][i].of \in DOMAIN h /\ h[a][i] = ListCell(h[a][i].of)
                 /\ ~IsListCell(h[a][i]) => h[a][i] \in Scalars
<1>1. /\ Len(h) \in Nat /\ DOMAIN h = 1 .. Len(h)
      /\ h[a] \in Seq(Cells(DOMAIN h))
      /\ Len(h[a]) \in Nat /\ DOMAIN h[a] = 1 .. Len(h[a])
  BY DEF IsHeap
<1>2. ASSUME NEW i \in DOMAIN h[a] 
      PROVE  /\ IsListCell(h[a][i]) => h[a][i].of \in DOMAIN h /\ h[a][i] = ListCell(h[a][i].of)
             /\ ~IsListCell(h[a][i]) => h[a][i] \in Scalars
  <2>1. h[a][i] \in Cells(DOMAIN h)
    BY <1>1, <1>2
  <2>2. CASE h[a][i] \in Scalars
    BY <2>2, PathHeapAssumption DEF IsListCell
  <2>3. CASE h[a][i] \notin Scalars
    <3>1. PICK b \in DOMAIN h : h[a][i] = ListCell(b)
      BY <2>1, <2>3 DEF Cells
    <3> QED
      BY <3>1 DEF ListCell, IsListCell
  <2> QED
    BY <2>2, <2>3
<1> QED
  BY <1>1, <1>2

\* A set of values that has the scalars of the cells.
Holds(V) == Universe(V) /\ Scalars \subseteq V

\* What an array holds is a list of values, when what it names holds some.
LEMMA ContentTyped ==
    ASSUME NEW V, Holds(V), NEW h, IsHeap(h), NEW list \in [DOMAIN h -> Seq(V)], NEW a \in DOMAIN h
    PROVE  /\ Content(h, list, a) \in Seq(V)
           /\ DOMAIN Content(h, list, a) = DOMAIN h[a]
           /\ Len(Content(h, list, a)) = Len(h[a])
<1>1. /\ Len(h[a]) \in Nat /\ DOMAIN h[a] = 1 .. Len(h[a])
      /\ \A i \in DOMAIN h[a] :
            /\ IsListCell(h[a][i]) => h[a][i].of \in DOMAIN h
            /\ ~IsListCell(h[a][i]) => h[a][i] \in Scalars
  BY CellsOf
<1>2. \A s \in Seq(V) : List(s) \in V
  BY DEF Holds, Universe
<1>3. \A i \in 1 .. Len(h[a]) :
         (IF IsListCell(h[a][i]) THEN List(list[h[a][i].of]) ELSE h[a][i]) \in V
  BY <1>1, <1>2 DEF Holds
<1> QED
  BY <1>1, <1>3 DEF Content

\* When no array is inside itself, Lists says what each holds.
LEMMA ListsAre ==
    ASSUME NEW V, Holds(V), NEW h, IsHeap(h), Acyclic(h)
    PROVE  /\ Lists(h) \in [DOMAIN h -> Seq(V)]
           /\ \A a \in DOMAIN h : Lists(h)[a] = Content(h, Lists(h), a)
<1> DEFINE D == DOMAIN h
           U == [D -> Seq(V)]
           next(f) == [a \in D |-> Content(h, f, a)]
           start == [a \in D |-> <<>>]
<1>1. PICK m \in Nat : \E rank : Ranked(h, m, rank)
  BY DEF Acyclic
<1>2. PICK rank : Ranked(h, m, rank)
  BY <1>1
<1>3. start \in U
  BY EmptySeq
<1>4. \A f \in U : next(f) \in U
  BY ContentTyped
<1> DEFINE N == m + 2
           steps == [n \in 1 .. N |-> [f \in U |-> next(f)]]
<1>5. PICK f : Iterated(f, N, U, start, steps)
  <2>1. steps \in [1 .. N -> [U -> U]]
    BY <1>4
  <2>2. N \in Nat
    OBVIOUS
  <2> HIDE DEF steps, N, start, U
  <2> QED
    BY <1>3, <2>1, <2>2, Iterates
<1>6. f \in [0 .. N -> U] /\ f[0] = start /\ \A n \in 1 .. N : f[n] = next(f[n - 1])
  <2>1. f \in [0 .. N -> U] /\ f[0] = start /\ \A n \in 1 .. N : f[n] = steps[n][f[n - 1]]
    BY <1>5 DEF Iterated
  <2> HIDE DEF next, start, U
  <2>2. \A n \in 1 .. N : f[n - 1] \in U
    BY <2>1
  <2> QED
    BY <2>1, <2>2
<1> DEFINE T == { n \in 0 .. m + 1 : \A a \in D : rank[a] < n => f[n + 1][a] = f[n][a] }
<1>7. 0 \in T
  BY <1>2 DEF Ranked
<1>8. ASSUME NEW n \in 0 .. m, n \in T PROVE n + 1 \in T
  <2>1. /\ n + 1 \in 1 .. N /\ n + 2 \in 1 .. N /\ (n + 2) - 1 = n + 1 /\ (n + 1) - 1 = n
        /\ (n + 1) + 1 = n + 2
    OBVIOUS
  <2>2. f[n + 2] = next(f[n + 1]) /\ f[n + 1] = next(f[n])
    <3> HIDE DEF N, next
    <3> QED
      BY <1>6, <2>1
  <2>3. ASSUME NEW a \in D, rank[a] < n + 1 PROVE f[n + 2][a] = f[n + 1][a]
    <3>1. ASSUME NEW i \in DOMAIN h[a], IsListCell(h[a][i])
          PROVE  f[n + 1][h[a][i].of] = f[n][h[a][i].of]
      <4>1. h[a][i].of \in D /\ rank[h[a][i].of] < rank[a]
        BY <3>1, <1>2, CellsOf DEF Ranked
      <4>2. rank[h[a][i].of] \in Nat /\ rank[a] \in Nat
        BY <4>1, <1>2 DEF Ranked
      <4>3. rank[h[a][i].of] < n
        BY <2>3, <4>1, <4>2
      <4> QED
        BY <1>8, <4>1, <4>3
    <3>2. Content(h, f[n + 1], a) = Content(h, f[n], a)
      BY <3>1 DEF Content
    <3> HIDE DEF N
    <3> QED
      BY <2>2, <3>2
  <2> QED
    BY <2>1, <2>3
<1>9. m + 1 \in T
  <2> HIDE DEF T
  <2>1. 0 .. m + 1 \subseteq T
    BY <1>7, <1>8, UpTo
  <2> QED
    BY <2>1
<1> DEFINE g == f[m + 1]
           list == CHOOSE l : l = [a \in D |-> Content(h, l, a)]
<1>10. g \in U /\ g = [a \in D |-> Content(h, g, a)]
  <2>1. m + 1 \in 0 .. N /\ m + 2 \in 1 .. N /\ (m + 2) - 1 = m + 1
    OBVIOUS
  <2>2. f[m + 2] = next(f[m + 1]) /\ f[m + 1] \in U /\ f[m + 2] \in U
    <3> HIDE DEF next, U, N
    <3> QED
      BY <1>6, <2>1
  <2>3. \A a \in D : rank[a] < m + 1
    BY <1>2 DEF Ranked
  <2>4. \A a \in D : f[m + 2][a] = f[m + 1][a]
    BY <1>9, <2>3
  <2>5. f[m + 2] = f[m + 1]
    BY <2>2, <2>4
  <2> HIDE DEF N
  <2> QED
    BY <2>2, <2>5
<1> HIDE DEF g
<1>11. list = [a \in D |-> Content(h, list, a)]
  <2>1. \E l : l = [a \in D |-> Content(h, l, a)]
    BY <1>10
  <2> QED
    BY <2>1
<1>12. Lists(h) = list
  BY DEF Lists, Content
<1> HIDE DEF list
<1>13. list \in U
  <2> DEFINE bad == { a \in D : list[a] # g[a] }
             ranks == { rank[a] : a \in bad }
  <2>1. CASE bad = {}
    <3>1. DOMAIN list = D /\ \A a \in D : list[a] = g[a]
      BY <1>11, <2>1
    <3>2. list = [a \in D |-> list[a]]
      BY <1>11
    <3>3. list = g
      BY <1>10, <3>1, <3>2
    <3> QED
      BY <1>10, <3>3
  <2>2. CASE bad # {}
    <3>1. ranks \subseteq Nat /\ ranks # {}
      BY <1>2, <2>2 DEF Ranked
    <3>2. PICK r \in ranks : \A k \in ranks : r <= k
      <4> HIDE DEF ranks
      <4> QED
        BY <3>1, Least
    <3>3. PICK a \in bad : rank[a] = r
      OBVIOUS
    <3>4. ASSUME NEW i \in DOMAIN h[a], IsListCell(h[a][i])
          PROVE  list[h[a][i].of] = g[h[a][i].of]
      <4>1. h[a][i].of \in D /\ rank[h[a][i].of] < rank[a]
        BY <3>4, <1>2, CellsOf DEF Ranked
      <4>2. rank[h[a][i].of] \in Nat /\ rank[a] \in Nat
        BY <4>1, <1>2 DEF Ranked
      <4>3. h[a][i].of \notin bad
        BY <3>2, <3>3, <4>1, <4>2
      <4> QED
        BY <4>1, <4>3
    <3>5. Content(h, list, a) = Content(h, g, a)
      BY <3>4 DEF Content
    <3>6. list[a] = g[a]
      BY <1>10, <1>11, <3>5
    <3> QED
      BY <3>6
  <2> QED
    BY <2>1, <2>2
<1> QED
  BY <1>11, <1>12, <1>13

\* Some arrays of one heap stand in another, under other numbers, with whatever
\* they name.
Stand(A, h, g, mv) ==
    /\ A \subseteq DOMAIN h /\ mv \in [A -> DOMAIN g]
    /\ \A a \in A : DOMAIN g[mv[a]] = DOMAIN h[a]
    /\ \A a \in A : \A i \in DOMAIN h[a] :
          /\ IsListCell(h[a][i]) =>
                h[a][i].of \in A /\ g[mv[a]][i] = ListCell(mv[h[a][i].of])
          /\ ~IsListCell(h[a][i]) => g[mv[a]][i] = h[a][i]

\* They hold the same in both.
LEMMA SameLists ==
    ASSUME NEW V, Holds(V), NEW h, IsHeap(h), Acyclic(h), NEW g, IsHeap(g), Acyclic(g),
           NEW A, NEW mv, Stand(A, h, g, mv)
    PROVE  \A a \in A : Lists(g)[mv[a]] = Lists(h)[a]
<1> DEFINE L == Lists(h)
           M == Lists(g)
           bad == { a \in A : M[mv[a]] # L[a] }
<1> USE DEF Stand
<1>0. PICK m \in Nat : \E rank : Ranked(h, m, rank)
  BY DEF Acyclic
<1>1. PICK rank : Ranked(h, m, rank)
  BY <1>0
<1> DEFINE ranks == { rank[a] : a \in bad }
<1>2. SUFFICES ASSUME bad # {} PROVE FALSE
  OBVIOUS
<1>3. ranks \subseteq Nat /\ ranks # {}
  BY <1>1, <1>2 DEF Ranked
<1>4. PICK r \in ranks : \A k \in ranks : r <= k
  <2> HIDE DEF ranks
  <2> QED
    BY <1>3, Least
<1>5. PICK a \in bad : rank[a] = r
  OBVIOUS
<1>6. ASSUME NEW i \in DOMAIN h[a], IsListCell(h[a][i])
      PROVE  h[a][i].of \in A /\ M[mv[h[a][i].of]] = L[h[a][i].of]
  <2>1. h[a][i].of \in A /\ rank[h[a][i].of] < rank[a]
    BY <1>6, <1>1 DEF Ranked
  <2>2. rank[h[a][i].of] \in Nat /\ rank[a] \in Nat
    BY <2>1, <1>1 DEF Ranked
  <2>3. ASSUME h[a][i].of \in bad PROVE FALSE
    <3>1. rank[h[a][i].of] \in ranks
      BY <2>3
    <3>2. r <= rank[h[a][i].of]
      BY <1>4, <3>1
    <3> QED
      BY <1>5, <2>1, <2>2, <3>2
  <2> QED
    BY <2>1, <2>3
<1>7. L[a] = Content(h, L, a) /\ M[mv[a]] = Content(g, M, mv[a])
  BY ListsAre
<1>8. ASSUME NEW i \in DOMAIN h[a]
      PROVE  (IF IsListCell(g[mv[a]][i]) THEN List(M[g[mv[a]][i].of]) ELSE g[mv[a]][i])
             = (IF IsListCell(h[a][i]) THEN List(L[h[a][i].of]) ELSE h[a][i])
  <2>1. CASE IsListCell(h[a][i])
    <3>1. g[mv[a]][i] = ListCell(mv[h[a][i].of])
      BY <2>1
    <3>2. IsListCell(g[mv[a]][i]) /\ g[mv[a]][i].of = mv[h[a][i].of]
      BY <3>1 DEF ListCell, IsListCell
    <3> HIDE DEF L, M
    <3> QED
      BY <2>1, <3>2, <1>6
  <2>2. CASE ~IsListCell(h[a][i])
    <3> HIDE DEF L, M
    <3> QED
      BY <2>2
  <2> QED
    BY <2>1, <2>2
<1>9. Content(g, M, mv[a]) = Content(h, L, a)
  <2> HIDE DEF L, M
  <2> QED
    BY <1>8 DEF Content
<1> QED
  BY <1>5, <1>7, <1>9

\* One array was made or written, and nothing names it.
Written(h, g, new) ==
    /\ DOMAIN g = DOMAIN h \cup {new}
    /\ \A a \in DOMAIN h \ {new} : g[a] = h[a]
    /\ \A a \in DOMAIN g : \A i \in DOMAIN g[a] : IsListCell(g[a][i]) => g[a][i].of # new

\* An array that nothing names is made or written: no array comes to be inside
\* itself, and the others hold what they did.
LEMMA OneWritten ==
    ASSUME NEW V, Holds(V), NEW h, IsHeap(h), Acyclic(h), NEW g, IsHeap(g), NEW new,
           Written(h, g, new)
    PROVE  /\ Acyclic(g)
           /\ \A a \in DOMAIN h \ {new} : Lists(g)[a] = Lists(h)[a]
<1> USE DEF Written
<1>0. PICK m \in Nat : \E rank : Ranked(h, m, rank)
  BY DEF Acyclic
<1>1. PICK rank : Ranked(h, m, rank)
  BY <1>0
<1> DEFINE top == [a \in DOMAIN g |-> IF a = new THEN m + 1 ELSE rank[a]]
           A == DOMAIN h \ {new}
           mv == [a \in A |-> a]
<1>2. \A a \in DOMAIN h : rank[a] \in 0 .. m
  BY <1>1 DEF Ranked
<1>3. top \in [DOMAIN g -> 0 .. m + 1]
  BY <1>2
<1>4. ASSUME NEW a \in DOMAIN g, NEW i \in DOMAIN g[a], IsListCell(g[a][i])
      PROVE  g[a][i].of \in DOMAIN h \ {new} /\ top[g[a][i].of] < top[a]
  <2>1. g[a][i].of \in DOMAIN h \ {new}
    BY <1>4, CellsOf
  <2>2. top[g[a][i].of] = rank[g[a][i].of] /\ rank[g[a][i].of] \in 0 .. m
    BY <2>1, <1>2
  <2>3. CASE a = new
    BY <2>1, <2>2, <2>3
  <2>4. CASE a # new
    <3>1. a \in DOMAIN h /\ h[a] = g[a] /\ top[a] = rank[a]
      BY <2>4
    <3>2. rank[g[a][i].of] < rank[a]
      BY <3>1, <1>1, <1>4 DEF Ranked
    <3> QED
      BY <2>1, <2>2, <3>1, <3>2
  <2> QED
    BY <2>3, <2>4
<1>5. Acyclic(g)
  <2> HIDE DEF top
  <2>1. m + 1 \in Nat /\ Ranked(g, m + 1, top)
    BY <1>3, <1>4 DEF Ranked
  <2> QED
    BY <2>1 DEF Acyclic
<1>6. \A a \in A : g[a] = h[a] /\ mv[a] = a /\ a \in DOMAIN g
  OBVIOUS
<1>7. \A a \in A : \A i \in DOMAIN h[a] :
         IsListCell(h[a][i]) => h[a][i].of \in A /\ h[a][i] = ListCell(h[a][i].of)
  BY <1>4, <1>6, CellsOf
<1>8. \A a \in A : Lists(g)[mv[a]] = Lists(h)[a]
  <2>1. mv \in [A -> DOMAIN g] /\ A \subseteq DOMAIN h
    OBVIOUS
  <2>2. \A a \in A : DOMAIN g[mv[a]] = DOMAIN h[a]
    BY <1>6
  <2>3. \A a \in A : \A i \in DOMAIN h[a] :
           /\ IsListCell(h[a][i]) => h[a][i].of \in A /\ g[mv[a]][i] = ListCell(mv[h[a][i].of])
           /\ ~IsListCell(h[a][i]) => g[mv[a]][i] = h[a][i]
    BY <1>6, <1>7
  <2> HIDE DEF A, mv
  <2>4. Stand(A, h, g, mv)
    BY <2>1, <2>2, <2>3 DEF Stand
  <2> QED
    BY <1>5, <2>4, SameLists
<1> QED
  BY <1>5, <1>6, <1>8

\* Arrays that somebody made are a heap of their own.
LEMMA MadeIsHeap ==
    ASSUME NEW p, Made(p)
    PROVE  IsHeap(p) /\ Acyclic(p)
<1>1. IsHeap(p)
  BY DEF Made, IsHeap
<1> DEFINE n == Len(p)
           rank == [a \in DOMAIN p |-> n - a]
<1>2. n \in Nat /\ DOMAIN p = 1 .. n
  BY <1>1 DEF IsHeap
<1>3. ASSUME NEW a \in DOMAIN p, NEW i \in DOMAIN p[a], IsListCell(p[a][i])
      PROVE  rank[p[a][i].of] < rank[a]
  <2>1. a < p[a][i].of /\ p[a][i].of \in DOMAIN p
    BY <1>1, <1>3, CellsOf DEF Made
  <2> QED
    BY <1>2, <2>1
<1>4. rank \in [DOMAIN p -> 0 .. n]
  BY <1>2
<1>5. Ranked(p, n, rank)
  BY <1>3, <1>4 DEF Ranked
<1> QED
  BY <1>1, <1>2, <1>5 DEF Acyclic

\* When somebody puts arrays of its own at the end of the heap, they hold what
\* they do, and so do the ones before.
LEMMA ArraysJoin ==
    ASSUME NEW V, Holds(V), IsHeap(heap), Acyclic(heap), NEW p, Made(p),
           NEW g, g = heap \o NewArrays(p)
    PROVE  /\ NewArrays(p) \in Seq(Seq(Cells(Nat)))
           /\ IsHeap(g) /\ Acyclic(g) /\ Len(g) = Len(heap) + Len(p)
           /\ \A a \in DOMAIN heap : g[a] = heap[a] /\ Lists(g)[a] = Lists(heap)[a]
           /\ \A a \in DOMAIN p : Lists(g)[Len(heap) + a] = Lists(p)[a]
<1> DEFINE n == Len(heap)
           k == Len(p)
           new == NewArrays(p)
<1>1. /\ n \in Nat /\ k \in Nat /\ DOMAIN heap = 1 .. n /\ DOMAIN p = 1 .. k
      /\ IsHeap(p) /\ Acyclic(p)
  BY MadeIsHeap DEF IsHeap
<1>2. ASSUME NEW a \in 1 .. k
      PROVE  /\ new[a] = [i \in DOMAIN p[a] |-> Moved(p[a][i])]
             /\ new[a] \in Seq(Cells(n + 1 .. n + k))
  <2>1. new[a] = [i \in DOMAIN p[a] |-> Moved(p[a][i])]
    BY <1>1 DEF NewArrays
  <2>2. /\ Len(p[a]) \in Nat /\ DOMAIN p[a] = 1 .. Len(p[a])
        /\ \A i \in DOMAIN p[a] :
              /\ IsListCell(p[a][i]) => p[a][i].of \in 1 .. k
              /\ ~IsListCell(p[a][i]) => p[a][i] \in Scalars
    BY <1>1, CellsOf
  <2>3. ASSUME NEW i \in 1 .. Len(p[a])
        PROVE  Moved(p[a][i]) \in Cells(n + 1 .. n + k)
    <3>1. CASE IsListCell(p[a][i])
      <4>1. p[a][i].of \in 1 .. k
        BY <2>2, <3>1
      <4>2. n + p[a][i].of \in n + 1 .. n + k
        <5> HIDE DEF n, k
        <5> QED
          BY <1>1, <4>1
      <4> QED
        BY <3>1, <4>2 DEF Moved, Cells
    <3>2. CASE ~IsListCell(p[a][i])
      BY <2>2, <3>2 DEF Moved, Cells
    <3> QED
      BY <3>1, <3>2
  <2> QED
    BY <2>1, <2>2, <2>3
<1>3. new \in Seq(Seq(Cells(n + 1 .. n + k))) /\ Len(new) = k
  <2>1. new = [a \in 1 .. k |-> new[a]]
    BY <1>1 DEF NewArrays
  <2> HIDE DEF new
  <2> QED
    BY <1>1, <1>2, <2>1
<1>4. Seq(Seq(Cells(n + 1 .. n + k))) \subseteq Seq(Seq(Cells(1 .. n + k)))
  <2>1. Cells(n + 1 .. n + k) \subseteq Cells(1 .. n + k)
    BY <1>1 DEF Cells
  <2> QED
    BY <2>1, SeqMonotonic
<1>5. Seq(Seq(Cells(1 .. n + k))) \subseteq Seq(Seq(Cells(Nat)))
  <2>1. Cells(1 .. n + k) \subseteq Cells(Nat)
    BY <1>1 DEF Cells
  <2> QED
    BY <2>1, SeqMonotonic
<1>6. heap \in Seq(Seq(Cells(1 .. n + k)))
  <2>1. heap \in Seq(Seq(Cells(1 .. n)))
    BY <1>1 DEF IsHeap
  <2>2. n <= n + k /\ n + k \in Nat
    BY <1>1
  <2> QED
    BY <1>1, <2>1, <2>2, MoreArrays
<1> HIDE DEF new
<1>7. /\ g \in Seq(Seq(Cells(1 .. n + k))) /\ Len(g) = n + k /\ DOMAIN g = 1 .. n + k
      /\ \A a \in 1 .. n : g[a] = heap[a]
      /\ \A a \in 1 .. k : g[n + a] = new[a]
  <2>1. new \in Seq(Seq(Cells(1 .. n + k)))
    BY <1>3, <1>4
  <2>2. g = heap \o new
    BY DEF new
  <2> HIDE DEF n, k
  <2>3. /\ g \in Seq(Seq(Cells(1 .. n + k))) /\ Len(g) = n + k
        /\ \A i \in 1 .. n + k : g[i] = IF i <= n THEN heap[i] ELSE new[i - n]
    <3> DEFINE S == Seq(Cells(1 .. n + k))
    <3>1. heap \in Seq(S) /\ new \in Seq(S)
      BY <1>6, <2>1
    <3> HIDE DEF S
    <3>2. /\ heap \o new \in Seq(S) /\ Len(heap \o new) = Len(heap) + Len(new)
          /\ \A i \in 1 .. Len(heap) + Len(new) :
                (heap \o new)[i] = IF i <= Len(heap) THEN heap[i] ELSE new[i - Len(heap)]
      BY <3>1, ConcatProperties
    <3> QED
      BY <2>2, <1>3, <3>2 DEF n, S
  <2>4. \A a \in 1 .. k : n + a \in 1 .. n + k /\ ~(n + a <= n) /\ (n + a) - n = a
    BY <1>1
  <2>5. \A a \in 1 .. n : a \in 1 .. n + k /\ a <= n
    BY <1>1
  <2>6. DOMAIN g = 1 .. n + k
    BY <2>3
  <2>7. \A a \in 1 .. n : g[a] = heap[a]
    BY <2>3, <2>5
  <2>8. ASSUME NEW a \in 1 .. k PROVE g[n + a] = new[a]
    BY <2>3, <2>4
  <2> QED
    BY <2>3, <2>6, <2>7, <2>8
<1>8. IsHeap(g)
  BY <1>7 DEF IsHeap
<1>0. PICK m \in Nat : \E rank : Ranked(heap, m, rank)
  BY DEF Acyclic
<1>9. PICK rank : Ranked(heap, m, rank)
  BY <1>0
<1>10. \A a \in 1 .. n : rank[a] \in 0 .. m
  BY <1>1, <1>9 DEF Ranked
<1> DEFINE both == [a \in 1 .. n + k |-> IF a <= n THEN rank[a] ELSE n + k - a]
<1>11. ASSUME NEW a \in 1 .. k, NEW i \in DOMAIN p[a]
       PROVE  /\ DOMAIN g[n + a] = DOMAIN p[a]
              /\ IsListCell(g[n + a][i]) <=> IsListCell(p[a][i])
              /\ IsListCell(p[a][i]) =>
                    p[a][i].of \in 1 .. k /\ g[n + a][i] = ListCell(n + p[a][i].of)
              /\ ~IsListCell(p[a][i]) => g[n + a][i] = p[a][i]
  <2>1. g[n + a][i] = Moved(p[a][i]) /\ DOMAIN g[n + a] = DOMAIN p[a]
    <3>1. a \in 1 .. k
      BY <1>1, <1>11
    <3>2. g[n + a] = new[a] /\ new[a] = [j \in DOMAIN p[a] |-> Moved(p[a][j])]
      BY <1>2, <1>7, <3>1
    <3>3. g[n + a] = [j \in DOMAIN p[a] |-> Moved(p[a][j])]
      BY <3>2
    <3> QED
      BY <1>11, <3>3
  <2>2. IsListCell(p[a][i]) => p[a][i].of \in 1 .. k
    BY <1>1, CellsOf
  <2> QED
    BY <2>1, <2>2 DEF Moved, IsListCell, ListCell
<1>12. ASSUME NEW a \in 1 .. n + k, NEW i \in DOMAIN g[a], IsListCell(g[a][i])
       PROVE  both[g[a][i].of] < both[a]
  <2>1. CASE a <= n
    <3>1. a \in 1 .. n /\ g[a] = heap[a]
      BY <1>1, <1>7, <2>1
    <3>2. g[a][i].of \in 1 .. n /\ rank[g[a][i].of] < rank[a]
      BY <3>1, <1>1, <1>9, <1>12, CellsOf DEF Ranked
    <3> QED
      BY <1>1, <2>1, <3>2
  <2>2. CASE ~(a <= n)
    <3> DEFINE b == a - n
    <3>1. b \in 1 .. k /\ a = n + b
      BY <1>1, <2>2
    <3> HIDE DEF b
    <3>2. DOMAIN p[b] = DOMAIN g[a]
      BY <1>2, <1>7, <3>1
    <3>3. /\ i \in DOMAIN p[b] /\ IsListCell(p[b][i]) /\ p[b][i].of \in 1 .. k
          /\ g[a][i] = ListCell(n + p[b][i].of)
      BY <1>11, <1>12, <3>1, <3>2
    <3>4. g[a][i].of = n + p[b][i].of
      BY <3>3 DEF ListCell
    <3>5. b < p[b][i].of
      BY <1>1, <3>1, <3>3 DEF Made
    <3>6. /\ g[a][i].of \in 1 .. n + k /\ ~(g[a][i].of <= n)
          /\ n + k - g[a][i].of < n + k - a
      <4>1. \A d \in 1 .. k : b < d =>
               n + d \in 1 .. n + k /\ ~(n + d <= n) /\ n + k - (n + d) < n + k - a
        <5> HIDE DEF n, k
        <5> QED
          BY <1>1, <3>1
      <4> QED
        BY <3>3, <3>4, <3>5, <4>1
    <3> QED
      BY <2>2, <3>6
  <2> QED
    BY <2>1, <2>2
<1>13. Acyclic(g)
  <2>1. m + k \in Nat /\ both \in [1 .. n + k -> 0 .. m + k]
    BY <1>1, <1>10
  <2>2. Ranked(g, m + k, both)
    BY <1>7, <1>12, <2>1 DEF Ranked
  <2> QED
    BY <2>1, <2>2 DEF Acyclic
<1>14. ASSUME NEW a \in 1 .. n PROVE Lists(g)[a] = Lists(heap)[a]
  <2> DEFINE A == 1 .. n
             mv == [b \in A |-> b]
  <2>1. mv \in [A -> DOMAIN g] /\ A \subseteq DOMAIN heap
    BY <1>1, <1>7
  <2>2. \A b \in A : g[mv[b]] = heap[b]
    BY <1>7
  <2>3. \A b \in A : \A i \in DOMAIN heap[b] : IsListCell(heap[b][i]) =>
           heap[b][i].of \in A /\ heap[b][i] = ListCell(heap[b][i].of)
    BY <1>1, CellsOf, SMTT(20)
  <2>4. \A b \in A : \A i \in DOMAIN heap[b] :
           /\ IsListCell(heap[b][i]) =>
                 heap[b][i].of \in A /\ g[mv[b]][i] = ListCell(mv[heap[b][i].of])
           /\ ~IsListCell(heap[b][i]) => g[mv[b]][i] = heap[b][i]
    BY <2>2, <2>3
  <2>5. \A b \in A : DOMAIN g[mv[b]] = DOMAIN heap[b]
    BY <2>2
  <2>6. mv[a] = a /\ a \in A
    OBVIOUS
  <2> HIDE DEF A, mv
  <2>7. Stand(A, heap, g, mv)
    BY <2>1, <2>4, <2>5 DEF Stand
  <2>8. \A b \in A : Lists(g)[mv[b]] = Lists(heap)[b]
    BY <1>8, <1>13, <2>7, SameLists
  <2> QED
    BY <2>6, <2>8
<1>15. ASSUME NEW a \in 1 .. k PROVE Lists(g)[n + a] = Lists(p)[a]
  <2> DEFINE A == 1 .. k
             mv == [b \in A |-> n + b]
  <2>1. mv \in [A -> DOMAIN g] /\ A \subseteq DOMAIN p
    BY <1>1, <1>7
  <2>2. ASSUME NEW b \in A PROVE DOMAIN g[mv[b]] = DOMAIN p[b]
    <3>1. g[n + b] = new[b] /\ new[b] = [j \in DOMAIN p[b] |-> Moved(p[b][j])]
      BY <1>2, <1>7
    <3>2. g[n + b] = [j \in DOMAIN p[b] |-> Moved(p[b][j])] /\ mv[b] = n + b
      BY <3>1
    <3> HIDE DEF mv
    <3> QED
      BY <3>2
  <2>3. \A b \in A : \A i \in DOMAIN p[b] :
           /\ IsListCell(p[b][i]) => p[b][i].of \in A /\ g[mv[b]][i] = ListCell(mv[p[b][i].of])
           /\ ~IsListCell(p[b][i]) => g[mv[b]][i] = p[b][i]
    BY <1>11
  <2>4. mv[a] = n + a /\ a \in A
    OBVIOUS
  <2> HIDE DEF A, mv
  <2>5. Stand(A, p, g, mv)
    BY <2>1, <2>2, <2>3 DEF Stand
  <2>6. \A b \in A : Lists(g)[mv[b]] = Lists(p)[b]
    BY <1>1, <1>8, <1>13, <2>5, SameLists
  <2> QED
    BY <2>4, <2>6
<1> QED
  BY <1>1, <1>3, <1>4, <1>5, <1>7, <1>8, <1>13, <1>14, <1>15 DEF new

-----------------------------------------------------------------------------
(* ApplyPath on arrays and on what they hold.                              *)

\* An array holds, at each index, what the cell there means.
LEMMA CellMeans ==
    ASSUME NEW V, Holds(V), NEW h, IsHeap(h), Acyclic(h), NEW a \in DOMAIN h
    PROVE  /\ Lists(h)[a] \in Seq(V)
           /\ DOMAIN Lists(h)[a] = DOMAIN h[a] /\ Len(Lists(h)[a]) = Len(h[a])
           /\ \A i \in DOMAIN h[a] :
                 /\ Lists(h)[a][i] = ValueOf(h, h[a][i]) /\ Lists(h)[a][i] \in V
                 /\ IsList(Lists(h)[a][i]) <=> IsListCell(h[a][i])
                 /\ IsListCell(h[a][i]) =>
                       h[a][i].of \in DOMAIN h /\ Lists(h)[a][i].of = Lists(h)[h[a][i].of]
<1> DEFINE L == Lists(h)
<1>1. L \in [DOMAIN h -> Seq(V)] /\ L[a] = Content(h, L, a)
  BY ListsAre
<1> HIDE DEF L
<1>2. L[a] \in Seq(V) /\ DOMAIN L[a] = DOMAIN h[a] /\ Len(L[a]) = Len(h[a])
  BY <1>1, ContentTyped
<1>3. ASSUME NEW i \in DOMAIN h[a]
      PROVE  /\ L[a][i] = ValueOf(h, h[a][i]) /\ L[a][i] \in V
             /\ IsList(L[a][i]) <=> IsListCell(h[a][i])
             /\ IsListCell(h[a][i]) => h[a][i].of \in DOMAIN h /\ L[a][i].of = L[h[a][i].of]
  <2>1. L[a][i] = IF IsListCell(h[a][i]) THEN List(L[h[a][i].of]) ELSE h[a][i]
    BY <1>1 DEF Content
  <2>2. L[a][i] = ValueOf(h, h[a][i])
    BY <2>1 DEF ValueOf, L
  <2>3. L[a][i] \in V
    BY <1>2
  <2>4. /\ IsListCell(h[a][i]) => h[a][i].of \in DOMAIN h
        /\ ~IsListCell(h[a][i]) => h[a][i] \in Scalars
    BY CellsOf
  <2>5. CASE IsListCell(h[a][i])
    BY <2>1, <2>2, <2>3, <2>4, <2>5 DEF List, IsList
  <2>6. CASE ~IsListCell(h[a][i])
    BY <2>1, <2>2, <2>3, <2>4, <2>6 DEF IsList, IsListCell
  <2> QED
    BY <2>5, <2>6
<1> QED
  BY <1>2, <1>3 DEF L

\* A list cell, or a scalar, of some heap means a value.
LEMMA ValueTyped ==
    ASSUME NEW V, Holds(V), NEW h, IsHeap(h), Acyclic(h), NEW cell \in Cells(DOMAIN h)
    PROVE  ValueOf(h, cell) \in V
<1>1. Lists(h) \in [DOMAIN h -> Seq(V)]
  BY ListsAre
<1>2. CASE cell \in Scalars
  BY <1>2, PathHeapAssumption DEF ValueOf, IsListCell, Holds
<1>3. CASE cell \notin Scalars
  <2>1. PICK b \in DOMAIN h : cell = ListCell(b)
    BY <1>3 DEF Cells
  <2>2. ValueOf(h, cell) = List(Lists(h)[b])
    BY <2>1 DEF ListCell, IsListCell, ValueOf
  <2>3. Lists(h)[b] \in Seq(V)
    BY <1>1
  <2> QED
    BY <2>2, <2>3 DEF Holds, Universe
<1> QED
  BY <1>2, <1>3

\* No cell names one of the k arrays after the first b.
Unnamed(h, b, k) ==
    \A a \in DOMAIN h : \A i \in DOMAIN h[a] :
        IsListCell(h[a][i]) => h[a][i].of \notin b + 1 .. b + k

\* The levels of a call stand behind each other in the heap, and so far nothing
\* names them; what is not theirs was there before the call.
CallShape ==
    /\ \A j \in 1 .. Len(frames) : frames[j].array = base + j /\ frames[j].at = job.path[j] + 1
    /\ Unnamed(heap, base, Len(frames))
    /\ phase # "idle" =>
          /\ job.path # <<>> /\ Len(frames) <= Len(job.path)
          /\ \A i \in DOMAIN versions : versions[i] <= base
          /\ IsListCell(job.value) => job.value.of <= base
    /\ phase \in {"down", "write", "failed"} => Len(heap) = base + Len(frames)
    /\ phase = "write" => Len(frames) = Len(job.path)
    /\ phase = "idle" => frames = <<>>

\* A path leads into a list k times.
Way(list, path, k) ==
    \A j \in 1 .. k : InRange(list[j - 1], path[j]) /\ IsList(list[j - 1][path[j] + 1])

\* The k-th array after b is the list that Replace makes at level k.
Linked(V, h, current, path, value, b, k) ==
    \E made \in [0 .. Len(path) -> V] :
        /\ Rebuilt(made, current, path, value)
        /\ List(Lists(h)[b + k]) = made[Len(path) - k + 1]

\* At level k of a call in a phase, the copies hold what they are copies of, and
\* the one written last what Replace makes of it.
Meaning(V, h, k, where, b, current, path, value) ==
    LET list == Walk(current, path)
    IN  /\ \A j \in 1 .. k : where # "up" \/ j < k => Lists(h)[b + j] = list[j - 1]
        /\ where = "down" => Way(list, path, k)
        /\ where = "failed" => ~Reaches(current, path)
        /\ where \in {"write", "up"} => Reaches(current, path)
        /\ where = "up" => Linked(V, h, current, path, value, b, k)

CallValue(V) ==
    phase # "idle" =>
        Meaning(V, heap, Len(frames), phase, base,
                Lists(heap)[Current], job.path, ReadCell(job.value))

ApplyInv(V) == HeapInv /\ Acyclic(heap) /\ CallShape /\ CallValue(V)

\* What an invariant heap is.
LEMMA HeapIs ==
    ASSUME NEW V, Holds(V), HeapInv, Acyclic(heap)
    PROVE  /\ IsHeap(heap) /\ Len(heap) \in Nat /\ DOMAIN heap = 1 .. Len(heap)
           /\ base \in Nat /\ base <= Len(heap)
           /\ versions \in Seq(1 .. Len(heap)) /\ Len(versions) \in Nat \ {0}
           /\ DOMAIN versions = 1 .. Len(versions)
           /\ Current \in 1 .. Len(heap) /\ Len(versions) \in DOMAIN versions
           /\ Current = versions[Len(versions)]
           /\ Lists(heap) \in [1 .. Len(heap) -> Seq(V)]
           /\ Lists(heap)[Current] \in Seq(V)
           /\ Len(frames) \in Nat /\ frames \in Seq(Frames(heap))
           /\ job.path \in Seq(Nat) /\ Len(job.path) \in Nat
           /\ \A j \in 1 .. Len(job.path) : job.path[j] \in Nat
           /\ job.value \in Cells(DOMAIN heap)
           /\ ReadCell(job.value) \in V
<1>1. Len(heap) \in Nat /\ DOMAIN heap = 1 .. Len(heap) /\ IsHeap(heap)
  BY DEF HeapInv, HeapType, WellFormed, IsHeap
<1>2. base \in Nat /\ base <= Len(heap)
  BY <1>1 DEF HeapInv, HeapType
<1>3. /\ versions \in Seq(1 .. Len(heap)) /\ Len(versions) \in Nat \ {0}
      /\ DOMAIN versions = 1 .. Len(versions)
  BY DEF HeapInv, HeapType
<1>4. Len(versions) \in DOMAIN versions /\ versions[Len(versions)] \in 1 .. Len(heap)
  BY <1>3
<1>5. Lists(heap) \in [1 .. Len(heap) -> Seq(V)]
  BY <1>1, ListsAre
<1>6. Len(frames) \in Nat /\ frames \in Seq(Frames(heap))
  BY DEF HeapInv, HeapType
<1>7. job.path \in Seq(Nat) /\ job.value \in Cells(DOMAIN heap)
  BY <1>1 DEF HeapInv, HeapType
<1>8. ReadCell(job.value) \in V
  BY <1>1, <1>7, ValueTyped DEF ReadCell
<1>9. Len(job.path) \in Nat /\ \A j \in 1 .. Len(job.path) : job.path[j] \in Nat
  BY <1>7
<1> QED
  BY <1>1, <1>2, <1>3, <1>4, <1>5, <1>6, <1>7, <1>8, <1>9 DEF Current

\* The next level of a call has the list that is next on the path.
LEMMA SourceHolds ==
    ASSUME NEW V, Holds(V), ApplyInv(V), phase = "down"
    PROVE  /\ Len(frames) < Len(job.path) /\ Len(heap) = base + Len(frames)
           /\ Source \in DOMAIN heap
           /\ Lists(heap)[Source] = Walk(Lists(heap)[Current], job.path)[Len(frames)]
           /\ job.path[Len(frames) + 1] \in Nat
           /\ Index = job.path[Len(frames) + 1] + 1
<1> DEFINE L == Lists(heap)
           current == L[Current]
           path == job.path
           list == Walk(current, path)
           k == Len(frames)
<1>0. HeapInv /\ Acyclic(heap) /\ CallShape /\ CallValue(V)
  BY DEF ApplyInv
<1>1. /\ IsHeap(heap) /\ DOMAIN heap = 1 .. Len(heap) /\ k \in Nat /\ current \in Seq(V)
      /\ path \in Seq(Nat) /\ Len(path) \in Nat /\ \A j \in 1 .. Len(path) : path[j] \in Nat
  BY <1>0, HeapIs
<1>2. k < Len(path) /\ Len(heap) = base + k /\ Source \in DOMAIN heap
  BY <1>0, <1>1, SourceInHeap DEF HeapInv, CallInv, CallShape
<1>3. path[k + 1] \in Nat /\ Index = path[k + 1] + 1
  BY <1>1, <1>2 DEF Index
<1>4. /\ list[0] = current
      /\ \A j \in 1 .. Len(path) : list[j] = ListAt(list[j - 1], path[j])
  <2>1. Universe(V)
    BY DEF Holds
  <2> HIDE DEF current, path
  <2> QED
    BY <1>1, <2>1, WalkIs
<1>5. L[Source] = list[k]
  <2>1. CASE k = 0
    <3>1. frames = <<>>
      BY <1>0, <2>1, HeapIs, EmptySeq
    <3> QED
      BY <1>4, <2>1, <3>1 DEF Source
  <2>2. CASE k # 0
    <3>1. k \in 1 .. k /\ k \in 1 .. Len(path) /\ frames # <<>>
      BY <1>1, <1>2, <2>2
    <3>2. Top.array = base + k /\ Top.at = path[k] + 1
      BY <1>0, <3>1 DEF CallShape, Top
    <3>3. /\ Top.at \in 1 .. Len(heap[Top.array]) /\ IsListCell(heap[Top.array][Top.at])
          /\ Source = heap[Top.array][Top.at].of
      BY <1>0, <3>1 DEF HeapInv, CallInv, ListAhead, Source
    <3>4. Top.array \in DOMAIN heap
      <4>1. base \in Nat
        BY <1>0, HeapIs
      <4> QED
        BY <1>1, <1>2, <3>1, <3>2, <4>1
    <3>5. Top.at \in DOMAIN heap[Top.array]
      BY <1>1, <3>3, <3>4, CellsOf
    <3>6. IsList(L[Top.array][Top.at]) /\ L[Top.array][Top.at].of = L[Source]
      <4>1. \A i \in DOMAIN heap[Top.array] :
               IsListCell(heap[Top.array][i]) =>
                  IsList(L[Top.array][i]) /\ L[Top.array][i].of = L[heap[Top.array][i].of]
        BY <1>0, <1>1, <3>4, CellMeans
      <4> HIDE DEF L
      <4> QED
        BY <3>3, <3>5, <4>1
    <3>7. L[base + k] = list[k - 1] /\ Way(list, path, k)
      BY <1>0, <3>1 DEF CallValue, Meaning
    <3>8. InRange(list[k - 1], path[k]) /\ IsList(list[k - 1][path[k] + 1])
      BY <3>1, <3>7 DEF Way
    <3>9. list[k] = list[k - 1][path[k] + 1].of
      BY <1>4, <3>1, <3>8 DEF ListAt
    <3> HIDE DEF L, list, k, path
    <3> QED
      BY <3>2, <3>6, <3>7, <3>9
  <2> QED
    BY <2>1, <2>2
<1> QED
  BY <1>2, <1>3, <1>5

\* A copy holds what it is a copy of, and the other arrays what they did.
LEMMA CopyHolds ==
    ASSUME NEW V, Holds(V), ApplyInv(V), Copy
    PROVE  /\ HeapInv' /\ IsHeap(heap') /\ Acyclic(heap')
           /\ Len(heap') = Len(heap) + 1 /\ Lists(heap') \in [1 .. Len(heap) + 1 -> Seq(V)]
           /\ \A a \in DOMAIN heap : heap'[a] = heap[a] /\ Lists(heap')[a] = Lists(heap)[a]
           /\ heap'[Len(heap) + 1] = heap[Source]
           /\ Lists(heap')[Len(heap) + 1] = Lists(heap)[Source]
<1> DEFINE g == heap'
           L == Lists(heap)
           M == Lists(g)
           new == Len(heap) + 1
<1>0. HeapInv /\ Acyclic(heap) /\ phase = "down"
  BY DEF ApplyInv, Copy
<1>1. HeapInv' /\ IsHeap(heap) /\ Len(heap) \in Nat /\ DOMAIN heap = 1 .. Len(heap)
  BY <1>0, CopyInv, HeapIs
<1>2. Source \in DOMAIN heap
  BY <1>0, SourceHolds
<1>3. g = Append(heap, heap[Source])
  BY DEF Copy
<1> HIDE DEF g
<1>4. IsHeap(g)
  BY <1>1 DEF HeapInv, HeapType, WellFormed, IsHeap, g
<1>5. /\ Len(g) = new /\ DOMAIN g = 1 .. new /\ g[new] = heap[Source]
      /\ \A a \in DOMAIN heap : g[a] = heap[a]
  BY <1>1, <1>2, <1>3, AppendProperties DEF IsHeap
<1>6. ASSUME NEW a \in DOMAIN g, NEW i \in DOMAIN g[a], IsListCell(g[a][i])
      PROVE  g[a][i].of \in DOMAIN heap
  <2>1. PICK b \in DOMAIN heap : g[a] = heap[b]
    BY <1>1, <1>2, <1>5
  <2> QED
    BY <1>1, <1>6, <2>1, CellsOf
<1>7. Acyclic(g) /\ \A a \in DOMAIN heap : M[a] = L[a]
  <2>1. /\ DOMAIN g = DOMAIN heap \cup {new} /\ new \notin DOMAIN heap
        /\ \A a \in DOMAIN heap \ {new} : g[a] = heap[a]
        /\ \A a \in DOMAIN g : \A i \in DOMAIN g[a] : IsListCell(g[a][i]) => g[a][i].of # new
    BY <1>1, <1>5, <1>6
  <2>3. Written(heap, g, new)
    BY <2>1 DEF Written
  <2> HIDE DEF new
  <2>2. Acyclic(g) /\ \A a \in DOMAIN heap \ {new} : Lists(g)[a] = Lists(heap)[a]
    BY <1>0, <1>1, <1>4, <2>3, OneWritten
  <2> QED
    BY <2>1, <2>2
<1>8. M \in [1 .. new -> Seq(V)] /\ M[new] = Content(g, M, new) /\ L[Source] = Content(heap, L, Source)
  <2>1. M \in [DOMAIN g -> Seq(V)] /\ \A a \in DOMAIN g : M[a] = Content(g, M, a)
    BY <1>4, <1>7, ListsAre
  <2>2. \A a \in DOMAIN heap : L[a] = Content(heap, L, a)
    BY <1>0, <1>1, ListsAre
  <2> HIDE DEF M, L
  <2> QED
    BY <1>1, <1>2, <1>5, <2>1, <2>2
<1>9. Content(g, M, new) = Content(heap, L, Source)
  <2>1. \A i \in DOMAIN heap[Source] : IsListCell(heap[Source][i]) =>
           M[heap[Source][i].of] = L[heap[Source][i].of]
    BY <1>1, <1>2, <1>7, CellsOf
  <2> HIDE DEF M, L, new
  <2> QED
    BY <1>5, <2>1 DEF Content
<1> HIDE DEF M, L
<1> QED
  BY <1>1, <1>4, <1>5, <1>7, <1>8, <1>9 DEF g, M, L

\* A level goes down.
LEMMA CopyMeans ==
    ASSUME NEW V, Holds(V), ApplyInv(V), Copy
    PROVE  /\ ApplyInv(V)'
           /\ \A a \in 1 .. base : Lists(heap')[a] = Lists(heap)[a]
<1> DEFINE g == heap'
           L == Lists(heap)
           M == Lists(g)
           current == L[Current]
           path == job.path
           list == Walk(current, path)
           value == ReadCell(job.value)
           k == Len(frames)
           n == Len(path)
<1>0. HeapInv /\ Acyclic(heap) /\ CallShape /\ CallValue(V)
  BY DEF ApplyInv
<1>1. /\ IsHeap(heap) /\ Len(heap) \in Nat /\ DOMAIN heap = 1 .. Len(heap) /\ k \in Nat
      /\ current \in Seq(V) /\ base \in Nat /\ base <= Len(heap) /\ frames \in Seq(Frames(heap))
      /\ path \in Seq(Nat) /\ n \in Nat /\ \A j \in 1 .. n : path[j] \in Nat
      /\ Len(versions) \in DOMAIN versions /\ Current = versions[Len(versions)]
      /\ Current \in DOMAIN heap
  BY <1>0, HeapIs
<1>2. /\ phase = "down"
      /\ Index <= Len(heap[Source])
      /\ frames' = Append(frames, [array |-> Len(heap) + 1, at |-> Index])
      /\ phase' = IF Len(frames') = n THEN "write"
                  ELSE IF IsListCell(heap[Source][Index]) THEN "down" ELSE "failed"
      /\ versions' = versions /\ job' = job /\ base' = base
  BY DEF Copy, Copied
<1>3. /\ k < n /\ Len(heap) = base + k /\ Source \in DOMAIN heap
      /\ L[Source] = list[k] /\ path[k + 1] \in Nat /\ Index = path[k + 1] + 1
  BY <1>2, SourceHolds
<1>4. /\ HeapInv' /\ IsHeap(g) /\ Acyclic(g)
      /\ Len(g) = Len(heap) + 1 /\ M \in [1 .. Len(heap) + 1 -> Seq(V)]
      /\ \A a \in DOMAIN heap : g[a] = heap[a] /\ M[a] = L[a]
      /\ g[Len(heap) + 1] = heap[Source]
      /\ M[Len(heap) + 1] = L[Source]
  BY CopyHolds
<1>5. /\ Len(frames') = k + 1 /\ frames'[k + 1] = [array |-> base + (k + 1), at |-> path[k + 1] + 1]
      /\ \A j \in 1 .. k : frames'[j] = frames[j]
  <2> DEFINE level == [array |-> Len(heap) + 1, at |-> Index]
             T == Frames(heap) \cup {level}
  <2>1. level = [array |-> base + (k + 1), at |-> path[k + 1] + 1]
    <3>1. Len(heap) + 1 = base + (k + 1)
      BY <1>1, <1>3
    <3> QED
      BY <1>3, <3>1
  <2>2. frames \in Seq(T) /\ level \in T
    <3>1. Frames(heap) \subseteq T
      OBVIOUS
    <3> HIDE DEF T
    <3>2. frames \in Seq(T)
      BY <1>1, <3>1, SeqMonotonic
    <3> QED
      BY <3>2 DEF T
  <2>3. frames' = Append(frames, level)
    BY <1>2
  <2> HIDE DEF T, level
  <2> QED
    BY <2>1, <2>2, <2>3, AppendProperties
<1>6. \A a \in DOMAIN g : \A i \in DOMAIN g[a] : IsListCell(g[a][i]) => g[a][i].of \in DOMAIN heap
  <2> SUFFICES ASSUME NEW a \in DOMAIN g, NEW i \in DOMAIN g[a], IsListCell(g[a][i])
               PROVE  g[a][i].of \in DOMAIN heap
    OBVIOUS
  <2>1. DOMAIN g = 1 .. Len(heap) + 1
    BY <1>1, <1>4 DEF IsHeap
  <2>2. a \in DOMAIN heap \/ a = Len(heap) + 1
    BY <1>1, <2>1
  <2>3. PICK b \in DOMAIN heap : g[a] = heap[b]
    <3> HIDE DEF g
    <3> QED
      BY <1>3, <1>4, <2>2
  <2> QED
    BY <1>1, <2>3, CellsOf
<1>7. CallShape'
  <2>1. \A j \in 1 .. Len(frames') : frames'[j].array = base + j /\ frames'[j].at = path[j] + 1
    <3>1. \A j \in 1 .. k : frames[j].array = base + j /\ frames[j].at = path[j] + 1
      BY <1>0 DEF CallShape
    <3> SUFFICES ASSUME NEW j \in 1 .. k + 1
                 PROVE  frames'[j].array = base + j /\ frames'[j].at = path[j] + 1
      BY <1>5
    <3>2. CASE j = k + 1
      BY <1>5, <3>2
    <3>3. CASE j # k + 1
      <4>1. j \in 1 .. k
        BY <1>1, <3>3
      <4> HIDE DEF k, path
      <4> QED
        BY <1>5, <3>1, <4>1
    <3> QED
      BY <3>2, <3>3
  <2>2. Unnamed(g, base, k + 1)
    <3>1. ASSUME NEW c \in 1 .. Len(heap), c \in base + 1 .. base + (k + 1) PROVE c \in base + 1 .. base + k
      <4>1. base \in Nat /\ k \in Nat /\ Len(heap) = base + k
        BY <1>1, <1>3
      <4> HIDE DEF k
      <4> QED
        BY <3>1, <4>1
    <3>2. \A a \in DOMAIN heap : \A i \in DOMAIN heap[a] :
             IsListCell(heap[a][i]) => heap[a][i].of \notin base + 1 .. base + k
      BY <1>0 DEF CallShape, Unnamed
    <3> SUFFICES ASSUME NEW a \in DOMAIN g, NEW i \in DOMAIN g[a], IsListCell(g[a][i])
                 PROVE  g[a][i].of \notin base + 1 .. base + (k + 1)
      BY DEF Unnamed
    <3>3. DOMAIN g = 1 .. Len(heap) + 1
      BY <1>1, <1>4 DEF IsHeap
    <3>7. a \in DOMAIN heap \/ a = Len(heap) + 1
      BY <1>1, <3>3
    <3>4. PICK b \in DOMAIN heap : g[a] = heap[b]
      <4> HIDE DEF g
      <4> QED
        BY <1>3, <1>4, <3>7
    <3>5. g[a][i].of \in 1 .. Len(heap)
      BY <1>1, <1>6
    <3>6. g[a][i].of \notin base + 1 .. base + k
      BY <3>2, <3>4
    <3> QED
      BY <3>1, <3>5, <3>6
  <2>3. /\ path # <<>> /\ \A i \in DOMAIN versions : versions[i] <= base
        /\ IsListCell(job.value) => job.value.of <= base
    BY <1>0, <1>2 DEF CallShape
  <2>4. Len(frames') <= n /\ Len(g) = base + Len(frames') /\ (phase' = "write" => Len(frames') = n)
    BY <1>1, <1>2, <1>3, <1>4, <1>5
  <2> QED
    BY <1>2, <1>5, <2>1, <2>2, <2>3, <2>4 DEF CallShape
<1>8. Current <= base
  BY <1>0, <1>1, <1>2 DEF CallShape
<1>9. Meaning(V, g, k + 1, phase', base, current, path, value)
  <2>1. \A j \in 1 .. k : L[base + j] = list[j - 1]
    BY <1>0, <1>2 DEF CallValue, Meaning
  <2>2. Way(list, path, k)
    BY <1>0, <1>2 DEF CallValue, Meaning
  <2>3. \A j \in 1 .. k + 1 : M[base + j] = list[j - 1]
    <3> SUFFICES ASSUME NEW j \in 1 .. k + 1 PROVE M[base + j] = list[j - 1]
      OBVIOUS
    <3>1. CASE j = k + 1
      <4>1. base + j = Len(heap) + 1 /\ j - 1 = k
        BY <1>1, <1>3, <3>1
      <4> HIDE DEF M, L, list
      <4> QED
        BY <1>3, <1>4, <4>1
    <3>2. CASE j # k + 1
      <4>1. j \in 1 .. k /\ base + j \in DOMAIN heap
        BY <1>1, <1>3, <3>2
      <4> HIDE DEF M, L, list
      <4> QED
        BY <1>4, <2>1, <4>1
    <3> QED
      BY <3>1, <3>2
  <2>4. InRange(list[k], path[k + 1])
    <3>1. Len(L[Source]) = Len(heap[Source]) /\ Len(heap[Source]) \in Nat
      BY <1>0, <1>1, <1>3, CellMeans, CellsOf
    <3> QED
      BY <1>2, <1>3, <3>1 DEF InRange
  <2>5. IsList(list[k][path[k + 1] + 1]) <=> IsListCell(heap[Source][Index])
    <3>1. Index \in DOMAIN heap[Source]
      <4>1. Len(heap[Source]) \in Nat /\ DOMAIN heap[Source] = 1 .. Len(heap[Source])
        BY <1>1, <1>3, CellsOf
      <4> QED
        BY <1>2, <1>3, <4>1
    <3>2. IsList(L[Source][Index]) <=> IsListCell(heap[Source][Index])
      BY <1>0, <1>1, <1>3, <3>1, CellMeans
    <3> QED
      BY <1>3, <3>2
  <2> HIDE DEF list
  <2>6. ASSUME phase' = "down" PROVE Way(list, path, k + 1)
    <3>1. IsList(list[k][path[k + 1] + 1])
      BY <1>2, <2>5, <2>6
    <3> SUFFICES ASSUME NEW j \in 1 .. k + 1
                 PROVE  InRange(list[j - 1], path[j]) /\ IsList(list[j - 1][path[j] + 1])
      BY DEF Way
    <3>2. CASE j = k + 1
      <4>1. j - 1 = k
        BY <1>1, <3>2
      <4> QED
        BY <2>4, <3>1, <3>2, <4>1
    <3>3. CASE j # k + 1
      BY <1>1, <2>2, <3>3 DEF Way
    <3> QED
      BY <3>2, <3>3
  <2>7. ASSUME phase' = "failed" PROVE ~Reaches(current, path)
    <3>1. k + 1 # n /\ ~IsList(list[k][path[k + 1] + 1])
      BY <1>2, <1>5, <2>5, <2>7
    <3>2. k + 1 \in DOMAIN path /\ k + 1 < n /\ (k + 1) - 1 = k
      <4>1. DOMAIN path = 1 .. n
        BY <1>1, LenProperties
      <4>2. k \in Nat /\ n \in Nat /\ k < n /\ k + 1 # n
        BY <1>1, <1>3, <3>1
      <4> HIDE DEF k, n, path
      <4> QED
        BY <4>1, <4>2
    <3> QED
      BY <3>1, <3>2 DEF Reaches, list
  <2>8. ASSUME phase' = "write" PROVE Reaches(current, path)
    <3>1. k + 1 = n
      BY <1>2, <1>5, <2>8
    <3>2. ASSUME NEW j \in DOMAIN path
          PROVE  InRange(list[j - 1], path[j]) /\ (j < n => IsList(list[j - 1][path[j] + 1]))
      <4>1. CASE j = k + 1
        <5>1. j - 1 = k /\ ~(j < n)
          BY <1>1, <3>1, <4>1
        <5> QED
          BY <2>4, <4>1, <5>1
      <4>2. CASE j # k + 1
        <5>1. j \in 1 .. k
          <6>1. DOMAIN path = 1 .. n
            BY <1>1, LenProperties
          <6> HIDE DEF k, n, path
          <6> QED
            BY <1>1, <3>1, <4>2, <6>1
        <5> QED
          BY <2>2, <5>1 DEF Way
      <4> QED
        BY <4>1, <4>2
    <3> QED
      BY <3>2 DEF Reaches, list
  <2>9. phase' \in {"write", "down", "failed"}
    BY <1>2
  <2> QED
    BY <2>3, <2>6, <2>7, <2>8, <2>9 DEF Meaning, list
<1>10. CallValue(V)'
  <2>1. Current' = Current
    BY <1>2 DEF Current
  <2>2. M[Current] = current
    BY <1>1, <1>4
  <2>3. ReadCell(job.value)' = value
    <3>1. IsListCell(job.value) => job.value.of \in DOMAIN heap
      <4>1. job.value \in Cells(DOMAIN heap)
        BY <1>0, HeapIs
      <4> QED
        BY <4>1, PathHeapAssumption DEF Cells, ListCell, IsListCell
    <3> QED
      BY <1>2, <1>4, <3>1 DEF ReadCell, ValueOf
  <2> QED
    BY <1>2, <1>5, <1>9, <2>1, <2>2, <2>3 DEF CallValue
<1>11. Acyclic(heap)'
  BY <1>4 DEF Acyclic, Ranked
<1> QED
  BY <1>1, <1>4, <1>7, <1>10, <1>11, SMTT(20) DEF ApplyInv

\* A cell of the array of one level is written, and names neither that array nor
\* the ones of the levels above.
CellWritten(j, cell) ==
    /\ j \in 1 .. Len(frames)
    /\ cell \in Cells(DOMAIN heap)
    /\ IsListCell(cell) => cell.of \notin base + 1 .. base + j
    /\ heap' = [heap EXCEPT ![base + j] = [@ EXCEPT ![job.path[j] + 1] = cell]]

\* (A name for an equation, as IsConcat.)
IsExcept(t, s, i, e) == t = [s EXCEPT ![i] = e]

\* The array holds what it did, with what the cell means in one place; the others
\* what they did.
LEMMA WriteHolds ==
    ASSUME NEW V, Holds(V), HeapInv, Acyclic(heap), CallShape, HeapInv',
           NEW j, NEW cell, CellWritten(j, cell)
    PROVE  /\ IsHeap(heap') /\ Acyclic(heap') /\ Len(heap') = Len(heap) /\ base + j \in DOMAIN heap
           /\ \A a \in DOMAIN heap : a # base + j =>
                 heap'[a] = heap[a] /\ Lists(heap')[a] = Lists(heap)[a]
           /\ Unnamed(heap', base, j)
           /\ IsExcept(Lists(heap')[base + j], Lists(heap)[base + j],
                       job.path[j] + 1, ValueOf(heap, cell))
<1> DEFINE g == heap'
           L == Lists(heap)
           M == Lists(g)
           k == Len(frames)
           new == base + j
           at == job.path[j] + 1
<1>1. /\ IsHeap(heap) /\ Len(heap) \in Nat /\ DOMAIN heap = 1 .. Len(heap)
      /\ base \in Nat /\ k \in Nat /\ frames \in Seq(Frames(heap))
  BY HeapIs
<1>2. /\ j \in 1 .. k /\ cell \in Cells(DOMAIN heap)
      /\ IsListCell(cell) => cell.of \notin base + 1 .. base + j
      /\ g = [heap EXCEPT ![new] = [@ EXCEPT ![at] = cell]]
  BY DEF CellWritten
<1>3. new \in DOMAIN heap
  <2>1. frames[j] \in Frames(heap) /\ frames[j].array = new
    BY <1>1, <1>2, ElementOfSeq DEF CallShape
  <2> QED
    BY <1>1, <2>1 DEF Frames
<1> HIDE DEF g
<1>4. IsHeap(g)
  BY DEF HeapInv, HeapType, WellFormed, IsHeap, g
<1>5. /\ DOMAIN g = DOMAIN heap /\ g[new] = [heap[new] EXCEPT ![at] = cell]
      /\ \A a \in DOMAIN heap : a # new => g[a] = heap[a]
  <2> HIDE DEF new, at
  <2> QED
    BY <1>2, <1>3
<1>6. Len(g) = Len(heap)
  BY <1>1, <1>4, <1>5 DEF IsHeap
<1>7. IsListCell(cell) => cell.of \in DOMAIN heap
  BY <1>2, PathHeapAssumption DEF Cells, ListCell, IsListCell
<1>8. ASSUME NEW a \in DOMAIN g, NEW i \in DOMAIN g[a], IsListCell(g[a][i])
      PROVE  g[a][i].of \notin base + 1 .. base + j
  <2>1. \A b \in DOMAIN heap : \A l \in DOMAIN heap[b] :
           IsListCell(heap[b][l]) => heap[b][l].of \notin base + 1 .. base + j
    <3>1. \A b \in DOMAIN heap : \A l \in DOMAIN heap[b] :
           IsListCell(heap[b][l]) => heap[b][l].of \notin base + 1 .. base + k
      BY DEF CallShape, Unnamed
    <3>2. base + 1 .. base + j \subseteq base + 1 .. base + k
      <4> HIDE DEF k
      <4> QED
        BY <1>1, <1>2
    <3> QED
      BY <3>1, <3>2
  <2>2. CASE a # new
    BY <1>5, <1>8, <2>1, <2>2
  <2>3. CASE a = new
    <3>1. i \in DOMAIN heap[new] /\ g[a][i] = IF i = at THEN cell ELSE heap[new][i]
      <4> HIDE DEF new, at
      <4> QED
        BY <1>5, <1>8, <2>3
    <3> HIDE DEF new, at
    <3> QED
      BY <1>2, <1>3, <1>8, <2>1, <3>1
  <2> QED
    BY <2>2, <2>3
<1>9. Acyclic(g) /\ \A a \in DOMAIN heap : a # new => M[a] = L[a]
  <2>1. new \in base + 1 .. base + j
    BY <1>1, <1>2
  <2>2. Written(heap, g, new)
    <3> HIDE DEF new
    <3> QED
      BY <1>3, <1>5, <1>8, <2>1 DEF Written
  <2> HIDE DEF new
  <2>3. Acyclic(g) /\ \A a \in DOMAIN heap \ {new} : Lists(g)[a] = Lists(heap)[a]
    BY <1>1, <1>4, <2>2, OneWritten
  <2> QED
    BY <2>3
<1>10. M[new] = [L[new] EXCEPT ![at] = ValueOf(heap, cell)]
  <2>1. ValueOf(g, cell) = ValueOf(heap, cell)
    <3>1. IsListCell(cell) => cell.of # new
      BY <1>1, <1>2
    <3> QED
      BY <1>7, <1>9, <3>1 DEF ValueOf
  <2>2. \A i \in DOMAIN heap[new] : IsListCell(heap[new][i]) =>
           heap[new][i].of \in DOMAIN heap /\ heap[new][i].of # new
    <3>1. new \in base + 1 .. base + k
      <4> HIDE DEF k
      <4> QED
        BY <1>1, <1>2
    <3> HIDE DEF new
    <3> QED
      BY <1>1, <1>3, <3>1, CellsOf DEF CallShape, Unnamed
  <2>3. M[new] = Content(g, M, new) /\ L[new] = Content(heap, L, new)
    BY <1>1, <1>3, <1>4, <1>5, <1>9, ListsAre
  <2>4. Content(g, M, new) = [Content(heap, L, new) EXCEPT ![at] = ValueOf(g, cell)]
    <3>1. /\ DOMAIN g[new] = DOMAIN heap[new]
          /\ \A i \in DOMAIN heap[new] : g[new][i] = IF i = at THEN cell ELSE heap[new][i]
      <4> HIDE DEF new, at
      <4> QED
        BY <1>1, <1>3, <1>5, CellsOf
    <3>2. \A i \in DOMAIN heap[new] : IsListCell(heap[new][i]) =>
             M[heap[new][i].of] = L[heap[new][i].of]
      BY <1>9, <2>2
    <3> HIDE DEF new, at, L
    <3> QED
      BY <3>1, <3>2 DEF Content, ValueOf
  <2> HIDE DEF new, at, L, M
  <2> QED
    BY <2>1, <2>3, <2>4
<1>11. Unnamed(g, base, j)
  BY <1>8 DEF Unnamed
<1> HIDE DEF M, L
<1> QED
  BY <1>3, <1>4, <1>5, <1>6, <1>9, <1>10, <1>11 DEF g, M, L, IsExcept

\* The last level writes the replacement.
LEMMA WriteMeans ==
    ASSUME NEW V, Holds(V), ApplyInv(V), Write
    PROVE  /\ ApplyInv(V)'
           /\ \A a \in 1 .. base : Lists(heap')[a] = Lists(heap)[a]
<1> DEFINE L == Lists(heap)
           M == Lists(heap')
           current == L[Current]
           path == job.path
           list == Walk(current, path)
           value == ReadCell(job.value)
           n == Len(path)
<1>0. HeapInv /\ Acyclic(heap) /\ CallShape /\ CallValue(V)
  BY DEF ApplyInv
<1>1. /\ IsHeap(heap) /\ Len(heap) \in Nat /\ DOMAIN heap = 1 .. Len(heap)
      /\ current \in Seq(V) /\ base \in Nat /\ base <= Len(heap)
      /\ path \in Seq(Nat) /\ n \in Nat
      /\ Len(versions) \in DOMAIN versions /\ Current = versions[Len(versions)]
      /\ Current \in 1 .. Len(heap) /\ job.value \in Cells(DOMAIN heap) /\ value \in V
  BY <1>0, HeapIs
<1>2. /\ phase = "write" /\ phase' = "up" /\ versions' = versions /\ job' = job /\ base' = base
      /\ frames' = frames
      /\ heap' = [heap EXCEPT ![Top.array] = [@ EXCEPT ![Top.at] = job.value]]
  BY DEF Write, Put
<1>3. /\ Len(frames) = n /\ n # 0 /\ Current <= base
      /\ IsListCell(job.value) => job.value.of <= base
  <2>1. frames # <<>> /\ frames \in Seq(Frames(heap))
    BY <1>0, <1>2 DEF HeapInv, HeapType, CallInv
  <2>2. Len(frames) # 0
    BY <2>1, EmptySeq
  <2> QED
    BY <1>0, <1>1, <1>2, <2>2 DEF CallShape
<1>4. IsListCell(job.value) => job.value.of \in 1 .. base
  <2>1. IsListCell(job.value) => job.value.of \in DOMAIN heap
    BY <1>1, PathHeapAssumption DEF Cells, ListCell, IsListCell
  <2> QED
    BY <1>1, <1>3, <2>1
<1>5. CellWritten(n, job.value)
  <2>1. n \in 1 .. n
    BY <1>1, <1>3
  <2>2. Top.array = base + n /\ Top.at = path[n] + 1
    BY <1>0, <1>3, <2>1 DEF CallShape, Top
  <2>3. IsListCell(job.value) => job.value.of \notin base + 1 .. base + n
    BY <1>1, <1>4
  <2> QED
    BY <1>1, <1>2, <1>3, <2>1, <2>2, <2>3 DEF CellWritten
<1>6. HeapInv'
  BY <1>0, WriteInv
<1>7. /\ IsHeap(heap') /\ Acyclic(heap') /\ Len(heap') = Len(heap)
      /\ \A a \in DOMAIN heap : a # base + n => M[a] = L[a]
      /\ Unnamed(heap', base, n)
      /\ M[base + n] = [L[base + n] EXCEPT ![path[n] + 1] = value]
  <2>1. /\ IsHeap(heap') /\ Acyclic(heap') /\ Len(heap') = Len(heap)
        /\ \A a \in DOMAIN heap : a # base + n => M[a] = L[a]
        /\ Unnamed(heap', base, n)
        /\ IsExcept(M[base + n], L[base + n], path[n] + 1, ValueOf(heap, job.value))
    BY <1>0, <1>5, <1>6, WriteHolds
  <2> QED
    BY <2>1 DEF ReadCell, IsExcept
<1>8. \A a \in 1 .. base : M[a] = L[a]
  <2>1. \A a \in 1 .. base : a \in DOMAIN heap /\ a # base + n
    BY <1>1, <1>3
  <2> QED
    BY <1>7, <2>1
<1>9. \A j \in 1 .. n : L[base + j] = list[j - 1]
  BY <1>0, <1>2, <1>3 DEF CallValue, Meaning
<1>10. \A j \in 1 .. n - 1 : M[base + j] = list[j - 1]
  <2>1. base + n \in DOMAIN heap
    BY <1>0, <1>5, <1>6, WriteHolds
  <2>2. \A j \in 1 .. n - 1 : j \in 1 .. n /\ base + j \in DOMAIN heap /\ base + j # base + n
    <3> HIDE DEF n
    <3> QED
      BY <1>1, <2>1
  <2> HIDE DEF L, M, list, n
  <2> QED
    BY <1>7, <1>9, <2>2
<1>11. Linked(V, heap', current, path, value, base, n)
  <2>1. PICK made \in [0 .. n -> V] : Rebuilt(made, current, path, value)
    BY <1>1, ReplaceIs DEF Holds
  <2>2. made[1] = List([list[n - 1] EXCEPT ![path[n] + 1] = value])
    <3>1. made[0] = value /\ 1 \in 1 .. n /\ n - 1 + 1 = n /\ 1 - 1 = 0
      BY <1>1, <1>3, <2>1 DEF Rebuilt
    <3>2. made[1] = List([list[n - 1] EXCEPT ![path[n - 1 + 1] + 1] = made[1 - 1]])
      BY <2>1, <3>1 DEF Rebuilt
    <3> HIDE DEF list, value, path
    <3> QED
      BY <3>1, <3>2
  <2>3. L[base + n] = list[n - 1] /\ n - n + 1 = 1
    <3>1. n \in 1 .. n /\ n - n + 1 = 1
      BY <1>1, <1>3
    <3> HIDE DEF L, list, n
    <3> QED
      BY <1>9, <3>1
  <2>4. List(M[base + n]) = made[1]
    <3> HIDE DEF M, L, list, value, path
    <3> QED
      BY <1>7, <2>2, <2>3
  <2>5. List(M[base + n]) = made[n - n + 1]
    BY <2>3, <2>4
  <2> QED
    BY <2>1, <2>5 DEF Linked
<1>12. Reaches(current, path)
  BY <1>0, <1>2 DEF CallValue, Meaning
<1>13. Meaning(V, heap', n, "up", base, current, path, value)
  <2>1. \A j \in 1 .. n : j < n => M[base + j] = list[j - 1]
    <3>1. \A j \in 1 .. n : j < n => j \in 1 .. n - 1
      BY <1>1
    <3> HIDE DEF M, list, n
    <3> QED
      BY <1>10, <3>1
  <2> QED
    BY <1>11, <1>12, <2>1 DEF Meaning
<1>14. CallValue(V)'
  <2>1. Current' = Current
    BY <1>2 DEF Current
  <2>2. M[Current] = current
    BY <1>1, <1>3, <1>8
  <2>3. ReadCell(job.value)' = value
    BY <1>2, <1>4, <1>8 DEF ReadCell, ValueOf
  <2> QED
    BY <1>2, <1>3, <1>13, <2>1, <2>2, <2>3 DEF CallValue
<1>15. CallShape'
  <2>1. \A i \in DOMAIN versions : versions[i] <= base
    BY <1>0, <1>2 DEF CallShape
  <2>2. /\ \A j \in 1 .. Len(frames) : frames[j].array = base + j /\ frames[j].at = path[j] + 1
        /\ path # <<>> /\ Len(frames) <= n
    BY <1>0, <1>1, <1>2 DEF CallShape
  <2> QED
    BY <1>2, <1>3, <1>7, <2>1, <2>2 DEF CallShape
<1>16. Acyclic(heap)'
  BY <1>7 DEF Acyclic, Ranked
<1> QED
  BY <1>6, <1>8, <1>14, <1>15, <1>16 DEF ApplyInv

\* A level returns to the one above.
LEMMA LinkMeans ==
    ASSUME NEW V, Holds(V), ApplyInv(V), Link
    PROVE  /\ ApplyInv(V)'
           /\ \A a \in 1 .. base : Lists(heap')[a] = Lists(heap)[a]
<1> DEFINE L == Lists(heap)
           M == Lists(heap')
           current == L[Current]
           path == job.path
           list == Walk(current, path)
           value == ReadCell(job.value)
           n == Len(path)
           k == Len(frames)
           cell == ListCell(base + k)
<1>0. HeapInv /\ Acyclic(heap) /\ CallShape /\ CallValue(V)
  BY DEF ApplyInv
<1>1. /\ IsHeap(heap) /\ Len(heap) \in Nat /\ DOMAIN heap = 1 .. Len(heap)
      /\ current \in Seq(V) /\ base \in Nat /\ base <= Len(heap)
      /\ path \in Seq(Nat) /\ n \in Nat /\ k \in Nat /\ frames \in Seq(Frames(heap))
      /\ Len(versions) \in DOMAIN versions /\ Current = versions[Len(versions)]
      /\ Current \in 1 .. Len(heap) /\ job.value \in Cells(DOMAIN heap) /\ value \in V
  BY <1>0, HeapIs
<1>2. /\ phase = "up" /\ phase' = "up" /\ versions' = versions /\ job' = job /\ base' = base
      /\ frames' = Below /\ k > 1
      /\ heap' = [heap EXCEPT ![frames[k - 1].array] =
                    [@ EXCEPT ![frames[k - 1].at] = ListCell(Top.array)]]
  BY DEF Link
<1>3. /\ k <= n /\ k - 1 \in 1 .. k /\ k \in 1 .. k /\ k - 1 \in 1 .. n /\ Current <= base
      /\ IsListCell(job.value) => job.value.of <= base
  BY <1>0, <1>1, <1>2, SMTT(20) DEF CallShape
<1>4. IsListCell(job.value) => job.value.of \in 1 .. base
  <2>1. IsListCell(job.value) => job.value.of \in DOMAIN heap
    BY <1>1, PathHeapAssumption DEF Cells, ListCell, IsListCell
  <2> QED
    BY <1>1, <1>3, <2>1
<1>5. CellWritten(k - 1, cell)
  <2>1. /\ frames[k - 1].array = base + (k - 1) /\ frames[k - 1].at = path[k - 1] + 1
        /\ Top.array = base + k
    BY <1>0, <1>3 DEF CallShape, Top
  <2>2. base + k \in DOMAIN heap
    <3>1. frames[k] \in Frames(heap) /\ frames[k].array = base + k
      BY <1>0, <1>1, <1>3, ElementOfSeq DEF CallShape
    <3> QED
      BY <1>1, <3>1 DEF Frames
  <2>3. cell \in Cells(DOMAIN heap) /\ cell.of = base + k
    BY <2>2 DEF Cells, ListCell
  <2>4. base + k \notin base + 1 .. base + (k - 1)
    BY <1>1
  <2> HIDE DEF k
  <2> QED
    BY <1>2, <1>3, <2>1, <2>3, <2>4 DEF CellWritten, k
<1>6. HeapInv'
  BY <1>0, LinkInv
<1>7. /\ IsHeap(heap') /\ Acyclic(heap') /\ Len(heap') = Len(heap) /\ base + (k - 1) \in DOMAIN heap
      /\ \A a \in DOMAIN heap : a # base + (k - 1) => M[a] = L[a]
      /\ Unnamed(heap', base, k - 1)
      /\ M[base + (k - 1)] = [L[base + (k - 1)] EXCEPT ![path[k - 1] + 1] = List(L[base + k])]
  <2>1. ValueOf(heap, cell) = List(L[base + k])
    BY DEF ValueOf, ListCell, IsListCell
  <2> HIDE DEF cell
  <2>2. /\ IsHeap(heap') /\ Acyclic(heap') /\ Len(heap') = Len(heap) /\ base + (k - 1) \in DOMAIN heap
        /\ \A a \in DOMAIN heap : a # base + (k - 1) => M[a] = L[a]
        /\ Unnamed(heap', base, k - 1)
        /\ IsExcept(M[base + (k - 1)], L[base + (k - 1)], path[k - 1] + 1, ValueOf(heap, cell))
    BY <1>0, <1>5, <1>6, WriteHolds
  <2> QED
    BY <2>1, <2>2 DEF IsExcept
<1>8. \A a \in 1 .. base : M[a] = L[a]
  <2>1. \A a \in 1 .. base : a \in DOMAIN heap /\ a # base + (k - 1)
    BY <1>1, <1>3
  <2> QED
    BY <1>7, <2>1
<1>9. \A j \in 1 .. k : j < k => L[base + j] = list[j - 1]
  BY <1>0, <1>2 DEF CallValue, Meaning
<1>10. \A j \in 1 .. k - 1 : j < k - 1 => M[base + j] = list[j - 1]
  <2>2. \A j \in 1 .. k - 1 : j < k - 1 => 
           j \in 1 .. k /\ j < k /\ base + j \in DOMAIN heap /\ base + j # base + (k - 1)
    <3>1. base + (k - 1) \in 1 .. Len(heap)
      BY <1>1, <1>7
    <3> HIDE DEF k
    <3> QED
      BY <1>1, <3>1
  <2> HIDE DEF L, M, list, k
  <2> QED
    BY <1>7, <1>9, <2>2
<1>11. Linked(V, heap', current, path, value, base, k - 1)
  <2>1. PICK made \in [0 .. n -> V] :
          Rebuilt(made, current, path, value) /\ List(L[base + k]) = made[n - k + 1]
    BY <1>0, <1>2 DEF CallValue, Meaning, Linked
  <2> DEFINE m == n - k + 2
  <2>2. /\ m \in 1 .. n /\ n - m = k - 2 /\ n - m + 1 = k - 1 /\ m - 1 = n - k + 1
        /\ n - (k - 1) + 1 = m /\ (k - 1) - 1 = k - 2
    BY <1>1, <1>2, <1>3
  <2>3. made[m] = List([list[n - m] EXCEPT ![path[n - m + 1] + 1] = made[m - 1]])
    <3> HIDE DEF m
    <3> QED
      BY <2>1, <2>2 DEF Rebuilt
  <2>4. L[base + (k - 1)] = list[k - 2]
    <3>1. k - 1 \in 1 .. k /\ k - 1 < k
      BY <1>1, <1>3
    <3>2. L[base + (k - 1)] = list[(k - 1) - 1]
      <4> HIDE DEF L, list, k
      <4> QED
        BY <1>9, <3>1
    <3> QED
      BY <2>2, <3>2
  <2>5. List(M[base + (k - 1)]) = made[n - (k - 1) + 1]
    <3> HIDE DEF M, L, list, path, n, k, m
    <3>1. made[m] = List([list[k - 2] EXCEPT ![path[k - 1] + 1] = made[n - k + 1]])
      BY <2>2, <2>3
    <3> QED
      BY <1>7, <2>1, <2>2, <2>4, <3>1
  <2>6. Rebuilt(made, current, path, value)
    BY <2>1
  <2> QED
    BY <2>5, <2>6 DEF Linked
<1>12. Reaches(current, path)
  BY <1>0, <1>2 DEF CallValue, Meaning
<1>13. Meaning(V, heap', k - 1, "up", base, current, path, value)
  BY <1>10, <1>11, <1>12 DEF Meaning
<1>14. Len(frames') = k - 1 /\ \A j \in 1 .. k - 1 : frames'[j] = frames[j]
  BY <1>0, <1>2, BelowType
<1>15. CallValue(V)'
  <2>1. Current' = Current
    BY <1>2 DEF Current
  <2>2. M[Current] = current
    BY <1>1, <1>3, <1>8
  <2>3. ReadCell(job.value)' = value
    BY <1>2, <1>4, <1>8 DEF ReadCell, ValueOf
  <2> QED
    BY <1>2, <1>13, <1>14, <2>1, <2>2, <2>3 DEF CallValue
<1>16. CallShape'
  <2>1. \A i \in DOMAIN versions : versions[i] <= base
    BY <1>0, <1>2 DEF CallShape
  <2>2. \A j \in 1 .. k - 1 : frames'[j].array = base + j /\ frames'[j].at = path[j] + 1
    <3>1. \A j \in 1 .. k - 1 : j \in 1 .. k
      BY <1>1
    <3>2. \A j \in 1 .. k : frames[j].array = base + j /\ frames[j].at = path[j] + 1
      BY <1>0 DEF CallShape
    <3> HIDE DEF k
    <3> QED
      BY <1>14, <3>1, <3>2
  <2>3. path # <<>> /\ k - 1 <= n
    BY <1>0, <1>1, <1>2, <1>3 DEF CallShape
  <2> QED
    BY <1>2, <1>3, <1>7, <1>14, <2>1, <2>2, <2>3 DEF CallShape
<1>17. Acyclic(heap)'
  BY <1>7 DEF Acyclic, Ranked
<1> QED
  BY <1>6, <1>8, <1>15, <1>16, <1>17 DEF ApplyInv

\* A call begins.
LEMMA BeginMeans ==
    ASSUME NEW V, Holds(V), ApplyInv(V), NEW path \in Seq(Nat), NEW value \in Cells(DOMAIN heap),
           Begin(path, value)
    PROVE  ApplyInv(V)'
<1>0. HeapInv /\ Acyclic(heap) /\ CallShape
  BY DEF ApplyInv
<1>1. /\ IsHeap(heap) /\ Len(heap) \in Nat /\ DOMAIN heap = 1 .. Len(heap)
      /\ versions \in Seq(1 .. Len(heap)) /\ DOMAIN versions = 1 .. Len(versions)
      /\ Len(path) \in Nat
  BY <1>0, HeapIs
<1>2. /\ path # <<>> /\ phase' = "down" /\ job' = [path |-> path, value |-> value]
      /\ base' = Len(heap) /\ frames' = <<>> /\ heap' = heap /\ versions' = versions
  BY DEF Begin
<1>3. HeapInv'
  BY <1>0, <1>1, BeginInv
<1>4. Len(frames') = 0
  BY <1>2
<1>5. CallShape'
  <2>1. \A i \in DOMAIN versions : versions[i] <= Len(heap)
    BY <1>1
  <2>2. IsListCell(value) => value.of <= Len(heap)
    BY <1>1, PathHeapAssumption DEF Cells, ListCell, IsListCell
  <2>3. Unnamed(heap, Len(heap), 0)
    BY <1>1 DEF Unnamed
  <2>4. 0 <= Len(path) /\ Len(heap) = Len(heap) + 0
    BY <1>1
  <2> QED
    BY <1>2, <1>4, <2>1, <2>2, <2>3, <2>4 DEF CallShape
<1>6. CallValue(V)'
  BY <1>2, <1>4 DEF CallValue, Meaning, Way
<1>7. Acyclic(heap)'
  BY <1>0, <1>2 DEF Acyclic, Ranked
<1> QED
  BY <1>3, <1>5, <1>6, <1>7 DEF ApplyInv

\* A call that returns leaves nothing of itself but the heap.
LEMMA ReturnMeans ==
    ASSUME NEW V, Holds(V), ApplyInv(V), Publish \/ Fail
    PROVE  ApplyInv(V)' /\ heap' = heap
<1>0. HeapInv /\ Acyclic(heap) /\ CallShape
  BY DEF ApplyInv
<1>1. HeapInv' /\ heap' = heap /\ phase' = "idle" /\ frames' = <<>> /\ base' = base
  BY <1>0, ReturnInv DEF Publish, Fail
<1>2. Len(frames') = 0 /\ base \in Nat
  BY <1>0, <1>1, HeapIs
<1>3. Unnamed(heap, base, 0)
  BY <1>2 DEF Unnamed
<1>4. CallShape'
  BY <1>1, <1>2, <1>3 DEF CallShape
<1>5. Acyclic(heap)'
  BY <1>0, <1>1 DEF Acyclic, Ranked
<1> QED
  BY <1>1, <1>4, <1>5 DEF ApplyInv, CallValue

\* What it publishes is what ApplyPath makes of the values.
LEMMA PublishMeans ==
    ASSUME NEW V, Holds(V), ApplyInv(V), Publish
    PROVE  LET current == Lists(heap)[Current] IN
           /\ Reaches(current, job.path)
           /\ Top.array \in DOMAIN heap
           /\ Lists(heap)[Top.array] = Replace(current, job.path, ReadCell(job.value))
<1> DEFINE L == Lists(heap)
           current == L[Current]
           path == job.path
           n == Len(path)
           value == ReadCell(job.value)
<1>0. HeapInv /\ Acyclic(heap) /\ CallShape /\ CallValue(V)
  BY DEF ApplyInv
<1>1. /\ phase = "up" /\ Len(frames) = 1 /\ frames \in Seq(Frames(heap))
      /\ DOMAIN heap = 1 .. Len(heap) /\ Len(heap) \in Nat /\ n \in Nat
      /\ Lists(heap) \in [1 .. Len(heap) -> Seq(V)]
  BY <1>0, HeapIs DEF Publish
<1>2. Top.array = base + 1
  BY <1>0, <1>1 DEF CallShape, Top
<1>3. Top.array \in DOMAIN heap
  <2>1. frames[1] \in Frames(heap)
    <3>1. 1 \in 1 .. Len(frames)
      BY <1>1
    <3> QED
      BY <1>1, <3>1, ElementOfSeq
  <2> QED
    BY <1>1, <2>1 DEF Frames, Top
<1>4. Reaches(current, path) /\ Linked(V, heap, current, path, value, base, 1)
  BY <1>0, <1>1 DEF CallValue, Meaning
<1>5. PICK made \in [0 .. n -> V] :
        Rebuilt(made, current, path, value) /\ List(L[base + 1]) = made[n - 1 + 1]
  BY <1>4 DEF Linked
<1>6. Replace(current, path, value) = made[n].of
  BY <1>5 DEF Rebuilt
<1>7. L[base + 1] = Replace(current, path, value)
  <2>1. n - 1 + 1 = n
    BY <1>1
  <2>2. List(L[base + 1]) = made[n]
    <3> HIDE DEF L, n
    <3> QED
      BY <1>5, <2>1
  <2> HIDE DEF L, n
  <2> QED
    BY <1>6, <2>2 DEF List
<1> HIDE DEF L
<1> QED
  BY <1>2, <1>3, <1>4, <1>7 DEF L

\* What it refuses, ApplyPath refuses of the values.
LEMMA FailMeans ==
    ASSUME NEW V, Holds(V), ApplyInv(V), Fail
    PROVE  ~Reaches(Lists(heap)[Current], job.path)
<1> DEFINE current == Lists(heap)[Current]
           path == job.path
           list == Walk(current, path)
           k == Len(frames)
<1>0. HeapInv /\ Acyclic(heap) /\ CallShape /\ CallValue(V)
  BY DEF ApplyInv
<1>1. CASE phase = "failed"
  BY <1>0, <1>1 DEF CallValue, Meaning
<1>2. CASE phase = "down" /\ Index > Len(heap[Source])
  <2>1. /\ k < Len(path) /\ Source \in DOMAIN heap /\ Lists(heap)[Source] = list[k]
        /\ path[k + 1] \in Nat /\ Index = path[k + 1] + 1
    BY <1>2, SourceHolds
  <2>2. /\ k \in Nat /\ Len(path) \in Nat /\ DOMAIN path = 1 .. Len(path) /\ IsHeap(heap)
    BY <1>0, HeapIs
  <2>3. Len(list[k]) = Len(heap[Source]) /\ Len(heap[Source]) \in Nat
    BY <1>0, <2>1, <2>2, CellMeans, CellsOf
  <2>4. ~InRange(list[k], path[k + 1])
    BY <1>2, <2>1, <2>3 DEF InRange
  <2>5. k + 1 \in DOMAIN path /\ (k + 1) - 1 = k
    BY <2>1, <2>2
  <2>6. ~Reaches(current, path)
    <3> HIDE DEF k, path, current
    <3> QED
      BY <2>4, <2>5 DEF Reaches
  <2> QED
    BY <2>6
<1> QED
  BY <1>1, <1>2 DEF Fail

\* Somebody makes arrays of its own.
LEMMA CreateMeans ==
    ASSUME NEW V, Holds(V), ApplyInv(V), NEW p, Made(p), Create(NewArrays(p))
    PROVE  /\ NewArrays(p) \in Seq(Seq(Cells(Nat))) /\ WellFormed'
           /\ ApplyInv(V)'
           /\ Len(heap') = Len(heap) + Len(p) /\ Len(p) \in Nat
           /\ \A a \in DOMAIN heap : Lists(heap')[a] = Lists(heap)[a]
           /\ \A a \in DOMAIN p : Lists(heap')[Len(heap) + a] = Lists(p)[a]
<1>0. HeapInv /\ Acyclic(heap) /\ CallShape
  BY DEF ApplyInv
<1>1. IsHeap(heap) /\ base \in Nat /\ Len(p) \in Nat
  BY <1>0, HeapIs, MadeIsHeap DEF IsHeap
<1>2. /\ phase = "idle" /\ heap' = heap \o NewArrays(p) /\ UNCHANGED <<versions, phase, job, base, frames>>
  BY DEF Create
<1>3. /\ NewArrays(p) \in Seq(Seq(Cells(Nat)))
      /\ IsHeap(heap') /\ Acyclic(heap') /\ Len(heap') = Len(heap) + Len(p)
      /\ \A a \in DOMAIN heap : Lists(heap')[a] = Lists(heap)[a]
      /\ \A a \in DOMAIN p : Lists(heap')[Len(heap) + a] = Lists(p)[a]
  <2> DEFINE g == heap'
  <2>1. g = heap \o NewArrays(p)
    BY <1>2
  <2> HIDE DEF g
  <2>2. /\ NewArrays(p) \in Seq(Seq(Cells(Nat)))
        /\ IsHeap(g) /\ Acyclic(g) /\ Len(g) = Len(heap) + Len(p)
        /\ \A a \in DOMAIN heap : g[a] = heap[a] /\ Lists(g)[a] = Lists(heap)[a]
        /\ \A a \in DOMAIN p : Lists(g)[Len(heap) + a] = Lists(p)[a]
    BY <1>0, <1>1, <2>1, ArraysJoin
  <2> QED
    BY <2>2 DEF g
<1>4. WellFormed'
  BY <1>3 DEF WellFormed, IsHeap
<1>5. HeapInv'
  BY <1>0, <1>3, <1>4, CreateInv
<1>6. frames = <<>> /\ Len(frames) = 0
  BY <1>0, <1>2 DEF CallShape
<1>7. Unnamed(heap', base, 0)
  BY <1>1 DEF Unnamed
<1>8. CallShape'
  BY <1>2, <1>6, <1>7 DEF CallShape
<1>9. Acyclic(heap)'
  BY <1>3 DEF Acyclic, Ranked
<1> QED
  BY <1>1, <1>2, <1>3, <1>4, <1>5, <1>8, <1>9 DEF ApplyInv, CallValue

-----------------------------------------------------------------------------
(* Slices of indices.                                                      *)

\* A slice of some arrays: of none of them, or no longer than its array.
IsSlice(arrays, slice) ==
    /\ slice \in [array : Nat, len : Nat]
    /\ slice.array <= Len(arrays)
    /\ slice.array = 0 => slice.len = 0
    /\ slice.array # 0 => slice.len <= Len(arrays[slice.array])
PathIn(arrays, slice) ==
    IF slice.array = 0 THEN <<>> ELSE SubSeq(arrays[slice.array], 1, slice.len)

\* A slice keeps its path, though the arrays became others.
SliceStays(arrays, others, slice) ==
    IsSlice(others, slice) /\ PathIn(others, slice) = PathIn(arrays, slice)

\* The path of a slice.
LEMMA SlicePath ==
    ASSUME NEW arrays \in Seq(Seq(Nat)), NEW slice, IsSlice(arrays, slice)
    PROVE  /\ PathIn(arrays, slice) \in Seq(Nat) /\ Len(PathIn(arrays, slice)) = slice.len
           /\ slice.array # 0 =>
                 /\ slice.array \in 1 .. Len(arrays) /\ arrays[slice.array] \in Seq(Nat)
                 /\ \A i \in 1 .. slice.len : PathIn(arrays, slice)[i] = arrays[slice.array][i]
<1>1. CASE slice.array = 0
  <2>1. slice.len = 0 /\ PathIn(arrays, slice) = <<>>
    BY <1>1 DEF IsSlice, PathIn
  <2> QED
    BY <1>1, <2>1
<1>2. CASE slice.array # 0
  <2> DEFINE a == arrays[slice.array]
             n == slice.len
  <2>1. slice.array \in 1 .. Len(arrays) /\ n \in Nat /\ n <= Len(a)
    BY <1>2 DEF IsSlice
  <2>2. a \in Seq(Nat) /\ Len(a) \in Nat
    BY <2>1
  <2>3. PathIn(arrays, slice) = SubSeq(a, 1, n)
    BY <1>2 DEF PathIn
  <2>4. 1 \in Int /\ n \in Int /\ \A i \in 1 .. n : a[i] \in Nat
    <3>1. \A i \in 1 .. n : i \in 1 .. Len(a)
      <4> HIDE DEF a, n
      <4> QED
        BY <2>1, <2>2
    <3> HIDE DEF a, n
    <3> QED
      BY <2>1, <2>2, <3>1, ElementOfSeq
  <2> HIDE DEF a, n
  <2>5. /\ SubSeq(a, 1, n) \in Seq(Nat) /\ Len(SubSeq(a, 1, n)) = n
        /\ \A i \in 1 .. n : SubSeq(a, 1, n)[i] = a[i]
    <3>1. /\ SubSeq(a, 1, n) \in Seq(Nat)
          /\ Len(SubSeq(a, 1, n)) = IF 1 <= n THEN n - 1 + 1 ELSE 0
          /\ \A i \in 1 .. n - 1 + 1 : SubSeq(a, 1, n)[i] = a[1 + i - 1]
      BY <2>4, SubSeqProperties
    <3>2. n - 1 + 1 = n /\ (1 <= n \/ n = 0) /\ \A i \in 1 .. n : 1 + i - 1 = i
      BY <2>1
    <3> QED
      BY <3>1, <3>2
  <2> QED
    BY <2>1, <2>2, <2>3, <2>5 DEF a, n
<1> QED
  BY <1>1, <1>2

\* A slice keeps its path when its array keeps its first indices.
LEMMA SliceKept ==
    ASSUME NEW arrays \in Seq(Seq(Nat)), NEW slice, IsSlice(arrays, slice),
           NEW others \in Seq(Seq(Nat)), Len(arrays) <= Len(others),
           slice.array # 0 =>
              /\ Len(arrays[slice.array]) <= Len(others[slice.array])
              /\ \A i \in 1 .. slice.len : others[slice.array][i] = arrays[slice.array][i]
    PROVE  SliceStays(arrays, others, slice)
<1> DEFINE p == PathIn(arrays, slice)
           q == PathIn(others, slice)
<1>1. slice \in [array : Nat, len : Nat] /\ slice.array <= Len(arrays)
  BY DEF IsSlice
<1>2. IsSlice(others, slice)
  <2>1. Len(arrays) \in Nat /\ Len(others) \in Nat
    OBVIOUS
  <2>2. slice.array <= Len(others)
    BY <1>1, <2>1
  <2>3. ASSUME slice.array # 0 PROVE slice.len <= Len(others[slice.array])
    <3>1. slice.array \in 1 .. Len(arrays) /\ slice.array \in 1 .. Len(others)
      BY <1>1, <2>1, <2>2, <2>3
    <3>2. arrays[slice.array] \in Seq(Nat) /\ others[slice.array] \in Seq(Nat)
      <4> DEFINE S == Seq(Nat)
      <4>1. arrays \in Seq(S) /\ others \in Seq(S)
        OBVIOUS
      <4> HIDE DEF S
      <4>2. arrays[slice.array] \in S /\ others[slice.array] \in S
        BY <3>1, <4>1, ElementOfSeq
      <4> QED
        BY <4>2 DEF S
    <3>3. Len(arrays[slice.array]) \in Nat /\ Len(others[slice.array]) \in Nat
      BY <3>2
    <3>4. slice.len <= Len(arrays[slice.array]) /\ Len(arrays[slice.array]) <= Len(others[slice.array])
      BY <2>3 DEF IsSlice
    <3> QED
      BY <1>1, <3>3, <3>4
  <2> QED
    BY <1>1, <2>2, <2>3 DEF IsSlice
<1>3. CASE slice.array = 0
  BY <1>2, <1>3 DEF SliceStays, PathIn
<1>4. CASE slice.array # 0
  <2>1. /\ p \in Seq(Nat) /\ Len(p) = slice.len
        /\ \A i \in 1 .. slice.len : p[i] = arrays[slice.array][i]
    BY <1>4, SlicePath
  <2>2. /\ q \in Seq(Nat) /\ Len(q) = slice.len
        /\ \A i \in 1 .. slice.len : q[i] = others[slice.array][i]
    <3> HIDE DEF q
    <3>1. /\ PathIn(others, slice) \in Seq(Nat) /\ Len(PathIn(others, slice)) = slice.len
          /\ slice.array # 0 => \A i \in 1 .. slice.len : PathIn(others, slice)[i] = others[slice.array][i]
      BY <1>2, SlicePath
    <3> QED
      BY <1>4, <3>1 DEF q
  <2> HIDE DEF p, q
  <2>3. \A i \in 1 .. slice.len : q[i] = p[i]
    BY <1>4, <2>1, <2>2
  <2>4. q = p
    <3>1. Len(q) = Len(p) /\ \A i \in 1 .. Len(q) : q[i] = p[i]
      BY <2>1, <2>2, <2>3
    <3> QED
      BY <2>1, <2>2, <3>1, SeqEqual
  <2> QED
    BY <1>2, <2>4 DEF SliceStays, p, q
<1> QED
  BY <1>3, <1>4

\* (Names for two equations, as IsConcat.)
Grown(arrays, others, new) == others = Append(arrays, new)
Overwritten(arrays, others, b, l, index) == others = [arrays EXCEPT ![b] = [@ EXCEPT ![l] = index]]

\* One array more.
LEMMA PathsGrow ==
    ASSUME NEW arrays \in Seq(Seq(Nat)), NEW new \in Seq(Nat),
           NEW others, Grown(arrays, others, new)
    PROVE  /\ others \in Seq(Seq(Nat)) /\ Len(others) = Len(arrays) + 1
           /\ others[Len(arrays) + 1] = new
           /\ \A slice : IsSlice(arrays, slice) => SliceStays(arrays, others, slice)
<1>1. /\ others \in Seq(Seq(Nat)) /\ Len(others) = Len(arrays) + 1 /\ Len(arrays) \in Nat
      /\ others[Len(arrays) + 1] = new
      /\ \A a \in 1 .. Len(arrays) : others[a] = arrays[a]
  BY AppendProperties DEF Grown
<1>2. ASSUME NEW slice, IsSlice(arrays, slice) PROVE SliceStays(arrays, others, slice)
  <2>1. ASSUME slice.array # 0
        PROVE  /\ Len(arrays[slice.array]) <= Len(others[slice.array])
               /\ \A i \in 1 .. slice.len : others[slice.array][i] = arrays[slice.array][i]
    <3>1. slice.array \in 1 .. Len(arrays) /\ arrays[slice.array] \in Seq(Nat)
      BY <1>2, <2>1, SlicePath
    <3>2. others[slice.array] = arrays[slice.array] /\ Len(arrays[slice.array]) \in Nat
      BY <1>1, <3>1
    <3> QED
      BY <3>2
  <2>2. Len(arrays) <= Len(others)
    BY <1>1
  <2> HIDE DEF IsSlice
  <2> QED
    BY <1>1, <1>2, <2>1, <2>2, SliceKept
<1> QED
  BY <1>1, <1>2

\* Where an array is written, slices of the others stay, and so do those of the
\* array that are not as long.
LEMMA PathWritten ==
    ASSUME NEW arrays \in Seq(Seq(Nat)), NEW b \in 1 .. Len(arrays), NEW l \in 1 .. Len(arrays[b]),
           NEW index \in Nat, NEW others, Overwritten(arrays, others, b, l, index)
    PROVE  /\ others \in Seq(Seq(Nat)) /\ Len(others) = Len(arrays)
           /\ Len(others[b]) = Len(arrays[b])
           /\ \A i \in 1 .. Len(arrays[b]) : others[b][i] = IF i = l THEN index ELSE arrays[b][i]
           /\ \A slice : IsSlice(arrays, slice) /\ (slice.array = b => slice.len < l) =>
                 SliceStays(arrays, others, slice)
<1> DEFINE a == arrays[b]
           w == [a EXCEPT ![l] = index]
<1>1. a \in Seq(Nat) /\ Len(a) \in Nat /\ l \in 1 .. Len(a)
  BY ElementOfSeq
<1>2. w \in Seq(Nat) /\ Len(w) = Len(a) /\ \A i \in 1 .. Len(a) : w[i] = IF i = l THEN index ELSE a[i]
  <2> HIDE DEF a
  <2>1. w \in Seq(Nat) /\ Len(w) = Len(a)
    BY <1>1, ExceptSeq
  <2>2. DOMAIN a = 1 .. Len(a)
    BY <1>1, LenProperties
  <2>3. \A i \in 1 .. Len(a) : w[i] = IF i = l THEN index ELSE a[i]
    BY <2>2
  <2> QED
    BY <2>1, <2>3
<1>3. others = [arrays EXCEPT ![b] = w]
  BY DEF Overwritten
<1> HIDE DEF w
<1>4. /\ others \in Seq(Seq(Nat)) /\ Len(others) = Len(arrays)
      /\ \A c \in 1 .. Len(arrays) : others[c] = IF c = b THEN w ELSE arrays[c]
  <2> DEFINE S == Seq(Nat)
  <2>1. arrays \in Seq(S) /\ w \in S
    BY <1>2
  <2> HIDE DEF S
  <2>2. /\ [arrays EXCEPT ![b] = w] \in Seq(S) /\ Len([arrays EXCEPT ![b] = w]) = Len(arrays)
        /\ \A c \in 1 .. Len(arrays) : [arrays EXCEPT ![b] = w][c] = IF c = b THEN w ELSE arrays[c]
    BY <2>1, ExceptSeq
  <2> QED
    BY <1>3, <2>2 DEF S
<1>5. ASSUME NEW slice, IsSlice(arrays, slice), slice.array = b => slice.len < l
      PROVE  SliceStays(arrays, others, slice)
  <2>1. ASSUME slice.array # 0
        PROVE  /\ Len(arrays[slice.array]) <= Len(others[slice.array])
               /\ \A i \in 1 .. slice.len : others[slice.array][i] = arrays[slice.array][i]
    <3>1. slice.array \in 1 .. Len(arrays) /\ arrays[slice.array] \in Seq(Nat)
      BY <1>5, <2>1, SlicePath
    <3>2. Len(arrays[slice.array]) \in Nat /\ slice.len \in Nat /\ slice.len <= Len(arrays[slice.array])
      BY <1>5, <2>1, <3>1 DEF IsSlice
    <3>3. CASE slice.array # b
      <4>1. others[slice.array] = arrays[slice.array]
        BY <1>4, <3>1, <3>3
      <4> QED
        BY <3>2, <4>1
    <3>4. CASE slice.array = b
      <4>1. others[slice.array] = w /\ arrays[slice.array] = a
        BY <1>4, <3>4
      <4>2. \A i \in 1 .. slice.len : i \in 1 .. Len(a) /\ i # l
        BY <1>1, <1>5, <3>2, <3>4
      <4>3. w \in Seq(Nat) /\ Len(w) = Len(a) /\ \A i \in 1 .. slice.len : w[i] = a[i]
        <5> HIDE DEF a
        <5> QED
          BY <1>2, <4>2
      <4>4. Len(a) <= Len(w)
        <5> HIDE DEF a
        <5> QED
          BY <1>1, <4>3
      <4> HIDE DEF a
      <4> QED
        BY <4>1, <4>3, <4>4
    <3> QED
      BY <3>3, <3>4
  <2>2. Len(arrays) <= Len(others)
    BY <1>4
  <2> QED
    BY <1>4, <1>5, <2>1, <2>2, SliceKept
<1> QED
  BY <1>2, <1>4, <1>5

\* What append answers: a slice with the index at its end, of the same array or a
\* new one; no slice that is not longer than the one appended to has changed.
AppendedTo(arrays, slice, index, next) ==
    /\ next.paths \in Seq(Seq(Nat)) /\ Len(arrays) <= Len(next.paths)
    /\ IsSlice(next.paths, next.slice)
    /\ next.slice.len = slice.len + 1
    /\ next.slice.array = slice.array \/ next.slice.array > Len(arrays)
    /\ next.slice.array # 0
    /\ PathIn(next.paths, next.slice) = Append(PathIn(arrays, slice), index)
    /\ \A s : IsSlice(arrays, s) /\ (s.array # slice.array \/ s.len <= slice.len) =>
          SliceStays(arrays, next.paths, s)

\* A path with one more index, from its indices.
LEMMA IsAppended ==
    ASSUME NEW p \in Seq(Nat), NEW index \in Nat, NEW q \in Seq(Nat), Len(q) = Len(p) + 1,
           \A i \in 1 .. Len(p) : q[i] = p[i], q[Len(p) + 1] = index
    PROVE  q = Append(p, index)
<1> DEFINE r == Append(p, index)
<1>1. r \in Seq(Nat) /\ Len(r) = Len(p) + 1 /\ r[Len(p) + 1] = index /\ \A i \in 1 .. Len(p) : r[i] = p[i]
  BY AppendProperties
<1> HIDE DEF r
<1>2. Len(p) \in Nat
  OBVIOUS
<1>3. Len(q) = Len(r) /\ \A i \in 1 .. Len(q) : q[i] = r[i]
  <2>1. \A i \in 1 .. Len(q) : i \in 1 .. Len(p) \/ i = Len(p) + 1
    BY <1>2
  <2> QED
    BY <1>1, <2>1
<1>4. q = r
  BY <1>1, <1>3, SeqEqual
<1> QED
  BY <1>4 DEF r

\* append answers so.
LEMMA Appends ==
    ASSUME paths \in Seq(Seq(Nat)), NEW slice, IsSlice(paths, slice),
           NEW index \in Nat, NEW spare \in Nat
    PROVE  AppendedTo(paths, slice, index, Appended(slice, index, spare))
<1> DEFINE next == Appended(slice, index, spare)
           ps == next.paths
           to == next.slice
           p == PathIn(paths, slice)
           N == Len(paths)
<1>1. /\ slice \in [array : Nat, len : Nat] /\ slice.array <= N /\ N \in Nat
      /\ p \in Seq(Nat) /\ Len(p) = slice.len /\ p = PathOf(slice)
  BY SlicePath DEF IsSlice, PathIn, PathOf
<1>2. CASE slice.len < Capacity(slice)
  <2> DEFINE b == slice.array
             l == slice.len + 1
  <2>1. /\ b # 0 /\ b \in 1 .. N /\ paths[b] \in Seq(Nat) /\ l \in 1 .. Len(paths[b])
        /\ \A i \in 1 .. slice.len : p[i] = paths[b][i]
    <3>1. b # 0 /\ slice.len < Len(paths[b])
      BY <1>1, <1>2 DEF Capacity
    <3>2. b \in 1 .. N /\ paths[b] \in Seq(Nat) /\ \A i \in 1 .. slice.len : p[i] = paths[b][i]
      BY <3>1, SlicePath
    <3>3. Len(paths[b]) \in Nat
      BY <3>2
    <3> QED
      BY <1>1, <3>1, <3>2, <3>3
  <2>2. /\ ps = [paths EXCEPT ![b] = [@ EXCEPT ![l] = index]]
        /\ to = [array |-> b, len |-> l]
    BY <1>1, <1>2 DEF Appended
  <2> HIDE DEF next
  <2>3. /\ ps \in Seq(Seq(Nat)) /\ Len(ps) = N /\ Len(ps[b]) = Len(paths[b])
        /\ \A i \in 1 .. Len(paths[b]) : ps[b][i] = IF i = l THEN index ELSE paths[b][i]
        /\ \A s : IsSlice(paths, s) /\ (s.array = b => s.len < l) => SliceStays(paths, ps, s)
    <3>1. Overwritten(paths, ps, b, l, index) /\ index \in Nat
      BY <2>2 DEF Overwritten
    <3>2. paths \in Seq(Seq(Nat)) /\ b \in 1 .. Len(paths) /\ l \in 1 .. Len(paths[b])
      BY <2>1
    <3> HIDE DEF b, l, ps
    <3>3. /\ ps \in Seq(Seq(Nat)) /\ Len(ps) = Len(paths) /\ Len(ps[b]) = Len(paths[b])
          /\ \A i \in 1 .. Len(paths[b]) : ps[b][i] = IF i = l THEN index ELSE paths[b][i]
          /\ \A s : IsSlice(paths, s) /\ (s.array = b => s.len < l) => SliceStays(paths, ps, s)
      BY <3>1, <3>2, PathWritten, SMTT(30)
    <3> QED
      BY <3>3
  <2>4. IsSlice(ps, to)
    <3>1. Len(paths[b]) \in Nat
      BY <2>1
    <3> QED
      BY <1>1, <2>1, <2>2, <2>3, <3>1 DEF IsSlice
  <2>5. PathIn(ps, to) = Append(p, index)
    <3> DEFINE q == PathIn(ps, to)
    <3>1. to.array = b /\ to.len = l
      BY <2>2
    <3>2. q \in Seq(Nat) /\ Len(q) = l /\ \A i \in 1 .. l : q[i] = ps[b][i]
      <4> HIDE DEF ps, to, b, l
      <4>1. /\ PathIn(ps, to) \in Seq(Nat) /\ Len(PathIn(ps, to)) = to.len
            /\ to.array # 0 => \A i \in 1 .. to.len : PathIn(ps, to)[i] = ps[to.array][i]
        BY <2>3, <2>4, SlicePath
      <4> HIDE DEF q
      <4> QED
        BY <2>1, <3>1, <4>1 DEF q
    <3>3. \A i \in 1 .. slice.len : i \in 1 .. l /\ i \in 1 .. Len(paths[b]) /\ i # l
      <4> DEFINE c == Len(paths[b])
                 m == slice.len
      <4>1. c \in Nat /\ m \in Nat /\ m + 1 <= c /\ l = m + 1
        BY <1>1, <2>1
      <4> HIDE DEF c, m, l
      <4>2. \A i \in 1 .. m : i \in 1 .. l /\ i \in 1 .. c /\ i # l
        BY <4>1
      <4> QED
        BY <4>2 DEF c, m
    <3>4. Len(q) = Len(p) + 1 /\ Len(p) + 1 = l /\ l \in 1 .. l
      BY <1>1, <3>2
    <3> HIDE DEF q, p, ps, b
    <3>5. \A i \in 1 .. Len(p) : q[i] = p[i]
      BY <1>1, <2>1, <2>3, <3>2, <3>3
    <3>6. q[Len(p) + 1] = index
      BY <2>1, <2>3, <3>2, <3>4
    <3>7. q = Append(p, index)
      BY <1>1, <3>2, <3>4, <3>5, <3>6, IsAppended
    <3> QED
      BY <3>7 DEF q
  <2>6. \A s : IsSlice(paths, s) /\ (s.array # slice.array \/ s.len <= slice.len) =>
           SliceStays(paths, ps, s)
    <3>1. \A s : IsSlice(paths, s) /\ s.len <= slice.len => s.len < l
      BY <1>1 DEF IsSlice
    <3> HIDE DEF ps, l
    <3> QED
      BY <2>3, <3>1
  <2>7. to.len = slice.len + 1 /\ to.array = slice.array /\ N <= Len(ps)
    BY <1>1, <2>2, <2>3
  <2> HIDE DEF ps, to, p
  <2>8. AppendedTo(paths, slice, index, next)
    BY <2>1, <2>3, <2>4, <2>5, <2>6, <2>7 DEF AppendedTo, ps, to, p
  <2> QED
    BY <2>8 DEF next
<1>3. CASE ~(slice.len < Capacity(slice))
  <2> DEFINE spares == [i \in 1 .. spare |-> 0]
             new == PathOf(slice) \o <<index>> \o spares
             l == slice.len + 1
  <2>1. ps = Append(paths, new) /\ to = [array |-> N + 1, len |-> l]
    BY <1>3 DEF Appended
  <2> HIDE DEF next
  <2>2. /\ new \in Seq(Nat) /\ Len(new) = l + spare
        /\ new[l] = index /\ \A i \in 1 .. slice.len : new[i] = p[i]
    <3> DEFINE last == <<index>>
               one == p \o last
               m == slice.len
    <3>1. last \in Seq(Nat) /\ Len(last) = 1 /\ last[1] = index /\ spares \in Seq(Nat) /\ Len(spares) = spare
      OBVIOUS
    <3>7. m \in Nat /\ Len(p) = m /\ p \in Seq(Nat) /\ l = m + 1
      BY <1>1
    <3> HIDE DEF p, spares, last, m, l
    <3>2. /\ one \in Seq(Nat) /\ Len(one) = l
          /\ \A i \in 1 .. l : one[i] = IF i <= m THEN p[i] ELSE last[i - m]
      <4>1. /\ p \o last \in Seq(Nat) /\ Len(p \o last) = Len(p) + Len(last)
            /\ \A i \in 1 .. Len(p) + Len(last) :
                  (p \o last)[i] = IF i <= Len(p) THEN p[i] ELSE last[i - Len(p)]
        BY <3>1, <3>7, ConcatProperties
      <4> QED
        BY <3>1, <3>7, <4>1
    <3>3. one[l] = index /\ \A i \in 1 .. m : one[i] = p[i]
      <4>1. l - m = 1 /\ l \in 1 .. l /\ ~(l <= m) /\ \A i \in 1 .. m : i \in 1 .. l /\ i <= m
        BY <3>7
      <4> HIDE DEF one
      <4> QED
        BY <3>1, <3>2, <4>1
    <3> HIDE DEF one
    <3>4. /\ one \o spares \in Seq(Nat) /\ Len(one \o spares) = l + spare
          /\ \A i \in 1 .. l + spare : (one \o spares)[i] = IF i <= l THEN one[i] ELSE spares[i - l]
      <4>1. /\ one \o spares \in Seq(Nat) /\ Len(one \o spares) = Len(one) + Len(spares)
            /\ \A i \in 1 .. Len(one) + Len(spares) :
                  (one \o spares)[i] = IF i <= Len(one) THEN one[i] ELSE spares[i - Len(one)]
        BY <3>1, <3>2, ConcatProperties
      <4> QED
        BY <3>1, <3>2, <4>1
    <3>5. new = one \o spares
      BY <1>1 DEF one, last
    <3>6. l \in 1 .. l + spare /\ l <= l /\ \A i \in 1 .. m : i \in 1 .. l + spare /\ i <= l
      BY <3>7
    <3> HIDE DEF new
    <3>8. /\ new \in Seq(Nat) /\ Len(new) = l + spare
          /\ new[l] = index /\ \A i \in 1 .. m : new[i] = p[i]
      BY <3>3, <3>4, <3>5, <3>6
    <3> QED
      BY <3>8 DEF m
  <2> HIDE DEF new
  <2>3. /\ ps \in Seq(Seq(Nat)) /\ Len(ps) = N + 1 /\ ps[N + 1] = new
        /\ \A s : IsSlice(paths, s) => SliceStays(paths, ps, s)
    <3>1. Grown(paths, ps, new)
      BY <2>1 DEF Grown
    <3> HIDE DEF ps
    <3> QED
      BY <2>2, <3>1, PathsGrow
  <2>4. IsSlice(ps, to)
    <3>1. to.array = N + 1 /\ to.len = l /\ to \in [array : Nat, len : Nat] /\ N + 1 # 0
      BY <1>1, <2>1
    <3>2. l <= Len(new)
      BY <1>1, <2>2
    <3> HIDE DEF to, ps, l, N
    <3> QED
      BY <1>1, <2>3, <3>1, <3>2 DEF IsSlice
  <2>5. PathIn(ps, to) = Append(p, index)
    <3> DEFINE q == PathIn(ps, to)
    <3>1. to.array = N + 1 /\ to.len = l /\ N + 1 # 0
      BY <1>1, <2>1
    <3>2. q \in Seq(Nat) /\ Len(q) = l /\ \A i \in 1 .. l : q[i] = ps[N + 1][i]
      <4> HIDE DEF ps, to, l, N
      <4>1. /\ PathIn(ps, to) \in Seq(Nat) /\ Len(PathIn(ps, to)) = to.len
            /\ to.array # 0 => \A i \in 1 .. to.len : PathIn(ps, to)[i] = ps[to.array][i]
        BY <2>3, <2>4, SlicePath
      <4> HIDE DEF q
      <4> QED
        BY <3>1, <4>1 DEF q
    <3>3. Len(q) = Len(p) + 1 /\ Len(p) + 1 = l /\ l \in 1 .. l /\ \A i \in 1 .. slice.len : i \in 1 .. l
      BY <1>1, <3>2
    <3> HIDE DEF q, p, ps
    <3>4. \A i \in 1 .. Len(p) : q[i] = p[i]
      BY <1>1, <2>2, <2>3, <3>2, <3>3
    <3>5. q[Len(p) + 1] = index
      BY <2>2, <2>3, <3>2, <3>3
    <3>6. q = Append(p, index)
      BY <1>1, <3>2, <3>3, <3>4, <3>5, IsAppended
    <3> QED
      BY <3>6 DEF q
  <2>6. to.len = slice.len + 1 /\ to.array > N /\ N <= Len(ps) /\ to.array # 0
    BY <1>1, <2>1, <2>3
  <2> HIDE DEF ps, to, p
  <2>7. AppendedTo(paths, slice, index, next)
    BY <2>3, <2>4, <2>5, <2>6 DEF AppendedTo, ps, to, p
  <2> QED
    BY <2>7 DEF next
<1> QED
  BY <1>2, <1>3

\* The path of a mutation is in an array of its own.
LEMMA Records ==
    ASSUME paths \in Seq(Seq(Nat)), NEW slice, IsSlice(paths, slice), NEW index \in Nat
    PROVE  LET made == Recorded(slice, index) IN
           /\ made.paths \in Seq(Seq(Nat)) /\ IsSlice(made.paths, made.slice)
           /\ made.slice.array = Len(paths) + 1
           /\ PathIn(made.paths, made.slice) = Append(PathIn(paths, slice), index)
           /\ \A s : IsSlice(paths, s) => SliceStays(paths, made.paths, s)
<1> DEFINE made == Recorded(slice, index)
           p == PathIn(paths, slice)
           new == Append(p, index)
           ps == made.paths
           to == made.slice
           N == Len(paths)
<1>1. /\ slice \in [array : Nat, len : Nat] /\ slice.array <= N /\ N \in Nat
      /\ p \in Seq(Nat) /\ Len(p) = slice.len /\ p = PathOf(slice)
  BY SlicePath DEF IsSlice, PathIn, PathOf
<1>2. ps = Append(paths, new) /\ to = [array |-> N + 1, len |-> slice.len + 1]
  BY <1>1 DEF Recorded
<1> HIDE DEF made
<1>3. new \in Seq(Nat) /\ Len(new) = slice.len + 1
  <2> HIDE DEF p
  <2> QED
    BY <1>1, AppendProperties
<1> HIDE DEF new
<1>4. /\ ps \in Seq(Seq(Nat)) /\ Len(ps) = N + 1 /\ ps[N + 1] = new
      /\ \A s : IsSlice(paths, s) => SliceStays(paths, ps, s)
  <2>1. Grown(paths, ps, new)
    BY <1>2 DEF Grown
  <2> HIDE DEF ps
  <2> QED
    BY <1>3, <2>1, PathsGrow
<1>5. IsSlice(ps, to)
  BY <1>1, <1>2, <1>3, <1>4 DEF IsSlice
<1>6. PathIn(ps, to) = new
  <2>1. PathIn(ps, to) = SubSeq(ps[N + 1], 1, slice.len + 1)
    <3>1. to.array = N + 1 /\ to.len = slice.len + 1 /\ N + 1 # 0
      BY <1>1, <1>2
    <3> QED
      BY <3>1 DEF PathIn
  <2>2. SubSeq(new, 1, Len(new)) = new
    BY <1>3, SubSeqFull
  <2> QED
    BY <1>3, <1>4, <2>1, <2>2
<1>7. to.array = N + 1
  BY <1>2
<1> QED
  BY <1>4, <1>5, <1>6, <1>7 DEF made, new

-----------------------------------------------------------------------------
(* What the calls of diffInto have left to compare.                        *)

Calls(h) == [path : [array : Nat, len : Nat], before : DOMAIN h, after : DOMAIN h, at : Nat]

\* The pairs a call of diffInto would compare, those from its index on, and the
\* one at its index.
PairsOf(h, ps, call) ==
    Pairs(PathIn(ps, call.path), Lists(h)[call.before], Lists(h)[call.after])
Remaining(h, ps, call) ==
    SubSeq(PairsOf(h, ps, call), call.at, Len(PairsOf(h, ps, call)))
PairAt(h, ps, call) ==
    [path |-> Append(PathIn(ps, call.path), call.at - 1),
     before |-> Lists(h)[call.before][call.at], after |-> Lists(h)[call.after][call.at]]
Looping(h, call) ==
    Len(h[call.before]) = Len(h[call.after]) /\ call.at <= Len(h[call.before])

\* A call of diffInto on arrays of a heap.
IsCall(V, h, ps, call) ==
    /\ Holds(V) /\ IsHeap(h) /\ Acyclic(h) /\ ps \in Seq(Seq(Nat))
    /\ call \in Calls(h) /\ IsSlice(ps, call.path)
    /\ call.at \in 1 .. Len(h[call.before]) + 1

\* The lists of a call.
LEMMA CallLists ==
    ASSUME NEW V, NEW h, NEW ps, NEW call, IsCall(V, h, ps, call)
    PROVE  /\ Lists(h)[call.before] \in Seq(V) /\ Lists(h)[call.after] \in Seq(V)
           /\ Len(Lists(h)[call.before]) = Len(h[call.before])
           /\ Len(Lists(h)[call.after]) = Len(h[call.after])
           /\ Len(h[call.before]) \in Nat
           /\ PathIn(ps, call.path) \in Seq(Nat)
           /\ PairsOf(h, ps, call) \in Seq(PairSet(V))
           /\ Len(h[call.before]) = Len(h[call.after]) =>
                 Len(PairsOf(h, ps, call)) = Len(h[call.before])
           /\ Len(h[call.before]) # Len(h[call.after]) => PairsOf(h, ps, call) = <<>>
<1> DEFINE b == Lists(h)[call.before]
           a == Lists(h)[call.after]
           path == PathIn(ps, call.path)
<1>1. call.before \in DOMAIN h /\ call.after \in DOMAIN h
  BY DEF IsCall, Calls
<1>2. /\ b \in Seq(V) /\ Len(b) = Len(h[call.before]) /\ Len(b) \in Nat
      /\ a \in Seq(V) /\ Len(a) = Len(h[call.after])
  <2>1. b \in Seq(V) /\ Len(b) = Len(h[call.before])
    BY <1>1, CellMeans DEF IsCall
  <2>2. a \in Seq(V) /\ Len(a) = Len(h[call.after])
    BY <1>1, CellMeans DEF IsCall
  <2> HIDE DEF a, b
  <2> QED
    BY <2>1, <2>2
<1>3. path \in Seq(Nat)
  BY SlicePath DEF IsCall
<1> HIDE DEF a, b, path
<1>4. Universe(V)
  BY DEF IsCall, Holds
<1>5. Pairs(path, b, a) \in Seq(PairSet(V)) /\ (Len(b) = Len(a) => DOMAIN Pairs(path, b, a) = DOMAIN b)
  BY <1>2, <1>3, <1>4, PairsAre
<1>6. Len(b) = Len(a) => Len(Pairs(path, b, a)) = Len(b)
  <2> DEFINE pairs == Pairs(path, b, a)
  <2>1. pairs \in Seq(PairSet(V))
    BY <1>5
  <2> HIDE DEF pairs
  <2>2. DOMAIN pairs = 1 .. Len(pairs) /\ Len(pairs) \in Nat /\ DOMAIN b = 1 .. Len(b)
    BY <1>2, <2>1
  <2>3. DOMAIN pairs = DOMAIN b => Len(pairs) = Len(b)
    BY <1>2, <2>2
  <2> QED
    BY <1>5, <2>3 DEF pairs
<1>7. Len(b) # Len(a) => Pairs(path, b, a) = <<>>
  BY DEF Pairs
<1> QED
  BY <1>2, <1>3, <1>5, <1>6, <1>7 DEF a, b, path, PairsOf

\* What a call has left are pairs.
LEMMA RemainingTyped ==
    ASSUME NEW V, NEW h, NEW ps, NEW call, IsCall(V, h, ps, call)
    PROVE  Remaining(h, ps, call) \in Seq(PairSet(V))
<1> DEFINE pairs == PairsOf(h, ps, call)
           S == PairSet(V)
<1>1. pairs \in Seq(S) /\ call.at \in Nat \ {0}
  BY CallLists DEF IsCall
<1> HIDE DEF pairs, S
<1>2. SubSeq(pairs, call.at, Len(pairs)) \in Seq(S)
  <2>1. Len(pairs) \in Nat /\ \A i \in call.at .. Len(pairs) : i \in 1 .. Len(pairs)
    BY <1>1
  <2>2. \A i \in call.at .. Len(pairs) : pairs[i] \in S
    BY <1>1, <2>1, ElementOfSeq
  <2> QED
    BY <1>1, <2>1, <2>2, SubSeqProperties
<1> QED
  BY <1>2 DEF pairs, S, Remaining

\* Out of its loop, nothing.
LEMMA RemainingNothing ==
    ASSUME NEW V, NEW h, NEW ps, NEW call, IsCall(V, h, ps, call), ~Looping(h, call)
    PROVE  Remaining(h, ps, call) = <<>>
<1> DEFINE pairs == PairsOf(h, ps, call)
<1>1. call.at \in Nat /\ call.at >= 1 /\ Len(h[call.before]) \in Nat
  BY CallLists DEF IsCall
<1>2. Len(pairs) \in Nat /\ Len(pairs) < call.at
  <2>1. CASE Len(h[call.before]) = Len(h[call.after])
    <3>1. Len(pairs) = Len(h[call.before]) /\ ~(call.at <= Len(h[call.before]))
      BY <2>1, CallLists DEF Looping
    <3> QED
      BY <1>1, <3>1
  <2>2. CASE Len(h[call.before]) # Len(h[call.after])
    <3>1. pairs = <<>>
      BY <2>2, CallLists
    <3>2. Len(pairs) = 0
      BY <3>1
    <3> QED
      BY <1>1, <3>2
  <2> QED
    BY <2>1, <2>2
<1> HIDE DEF pairs
<1>3. SubSeq(pairs, call.at, Len(pairs)) = <<>>
  BY <1>1, <1>2, SubSeqEmpty
<1> QED
  BY <1>3 DEF pairs, Remaining

\* At its start, all its pairs.
LEMMA RemainingAll ==
    ASSUME NEW V, NEW h, NEW ps, NEW call, IsCall(V, h, ps, call), call.at = 1
    PROVE  Remaining(h, ps, call) = PairsOf(h, ps, call)
<1> DEFINE pairs == PairsOf(h, ps, call)
<1>1. pairs \in Seq(PairSet(V))
  BY CallLists
<1> HIDE DEF pairs
<1>2. SubSeq(pairs, 1, Len(pairs)) = pairs
  BY <1>1, SubSeqFull
<1> QED
  BY <1>2 DEF pairs, Remaining

\* In its loop, the pair at its index and what it has left at the next one.
LEMMA RemainingNext ==
    ASSUME NEW V, NEW h, NEW ps, NEW call, IsCall(V, h, ps, call), Looping(h, call)
    PROVE  LET next == [call EXCEPT !.at = @ + 1] IN
           /\ PairAt(h, ps, call) \in PairSet(V)
           /\ IsCall(V, h, ps, next)
           /\ IsConcat(Remaining(h, ps, call), <<PairAt(h, ps, call)>>, Remaining(h, ps, next))
<1> DEFINE pairs == PairsOf(h, ps, call)
           next == [call EXCEPT !.at = @ + 1]
           b == Lists(h)[call.before]
           a == Lists(h)[call.after]
           path == PathIn(ps, call.path)
           at == call.at
           n == Len(pairs)
           S == PairSet(V)
<1>1. /\ b \in Seq(V) /\ a \in Seq(V) /\ path \in Seq(Nat) /\ pairs \in Seq(S)
      /\ n = Len(h[call.before]) /\ Len(b) = n /\ Len(a) = n /\ n \in Nat
      /\ at \in 1 .. n
  <2>1. /\ b \in Seq(V) /\ a \in Seq(V) /\ path \in Seq(Nat) /\ pairs \in Seq(S)
        /\ Len(b) = Len(h[call.before]) /\ Len(a) = Len(h[call.after]) /\ Len(h[call.before]) \in Nat
        /\ Len(h[call.before]) = Len(h[call.after]) => n = Len(h[call.before])
    BY CallLists
  <2>2. Len(h[call.before]) = Len(h[call.after]) /\ at <= Len(h[call.before])
    BY DEF Looping
  <2>3. at \in 1 .. Len(h[call.before]) + 1
    BY DEF IsCall
  <2> HIDE DEF pairs, b, a, path, at, n, S
  <2> QED
    BY <2>1, <2>2, <2>3
<1>2. call \in Calls(h) /\ at + 1 \in 1 .. n + 1 /\ at + 1 \in Nat
  BY <1>1 DEF IsCall
<1>3. /\ next \in Calls(h) /\ next.at = at + 1 /\ next.path = call.path
      /\ next.before = call.before /\ next.after = call.after
  BY <1>2 DEF Calls
<1>4. IsCall(V, h, ps, next)
  BY <1>1, <1>2, <1>3 DEF IsCall
<1>5. PairsOf(h, ps, next) = pairs
  BY <1>3 DEF PairsOf
<1>6. pairs[at] = PairAt(h, ps, call) /\ pairs[at] \in S
  <2>1. pairs = [i \in DOMAIN b |-> [path |-> Append(path, i - 1), before |-> b[i], after |-> a[i]]]
    BY <1>1 DEF PairsOf, Pairs
  <2>2. at \in DOMAIN b /\ at \in 1 .. Len(pairs)
    BY <1>1
  <2>3. pairs[at] \in S
    <3> HIDE DEF pairs, S, at
    <3> QED
      BY <1>1, <2>2, ElementOfSeq
  <2>4. pairs[at] = [path |-> Append(path, at - 1), before |-> b[at], after |-> a[at]]
    <3> HIDE DEF pairs, a, b, path
    <3> QED
      BY <2>1, <2>2
  <2> QED
    BY <2>3, <2>4 DEF PairAt
<1>7. SubSeq(pairs, at, n) = <<pairs[at]>> \o SubSeq(pairs, at + 1, n)
  <2>1. at \in 1 .. Len(pairs) /\ n \in at .. Len(pairs)
    BY <1>1
  <2> HIDE DEF pairs, S, at
  <2> QED
    BY <1>1, <2>1, SubSeqRecursiveFirst
<1>8. Remaining(h, ps, call) = SubSeq(pairs, at, n) /\ Remaining(h, ps, next) = SubSeq(pairs, at + 1, n)
  BY <1>3, <1>5 DEF Remaining
<1> HIDE DEF pairs, next, at, S
<1>9. IsConcat(Remaining(h, ps, call), <<PairAt(h, ps, call)>>, Remaining(h, ps, next))
  BY <1>6, <1>7, <1>8 DEF IsConcat
<1> QED
  BY <1>4, <1>6, <1>9 DEF next, S

\* It has the same left while its slice keeps its path.
LEMMA RemainingStays ==
    ASSUME NEW V, NEW h, NEW ps, NEW call, IsCall(V, h, ps, call),
           NEW qs \in Seq(Seq(Nat)), SliceStays(ps, qs, call.path)
    PROVE  /\ IsCall(V, h, qs, call)
           /\ Remaining(h, qs, call) = Remaining(h, ps, call)
           /\ PairAt(h, qs, call) = PairAt(h, ps, call)
  BY DEF IsCall, Remaining, PairsOf, PairAt, SliceStays

\* What all the calls have left, from the innermost out.
Stack(V, h, ps, w, rest) ==
    /\ Len(w) \in Nat
    /\ \A j \in 1 .. Len(w) : IsCall(V, h, ps, w[j])
    /\ rest \in [0 .. Len(w) -> Seq(PairSet(V))]
    /\ rest[0] = <<>>
    /\ \A j \in 1 .. Len(w) : IsConcat(rest[j], Remaining(h, ps, w[j]), rest[j - 1])

\* One call more.
LEMMA StackDeeper ==
    ASSUME NEW V, NEW h, NEW ps, NEW w, NEW rest, Stack(V, h, ps, w, rest),
           NEW qs \in Seq(Seq(Nat)), \A j \in 1 .. Len(w) : SliceStays(ps, qs, w[j].path),
           NEW call, IsCall(V, h, qs, call), NEW u,
           Len(u) = Len(w) + 1, u[Len(u)] = call, \A j \in 1 .. Len(w) : u[j] = w[j]
    PROVE  \E left : /\ Stack(V, h, qs, u, left)
                     /\ IsConcat(left[Len(u)], Remaining(h, qs, call), rest[Len(w)])
<1> DEFINE m == Len(w)
           top == Remaining(h, qs, call) \o rest[m]
           left == [j \in 0 .. m + 1 |-> IF j = m + 1 THEN top ELSE rest[j]]
<1>1. /\ m \in Nat /\ Len(u) = m + 1 /\ rest \in [0 .. m -> Seq(PairSet(V))] /\ rest[0] = <<>>
      /\ m + 1 \in Nat /\ Len(u) \in Nat
  BY DEF Stack
<1>2. top \in Seq(PairSet(V))
  <2>1. Remaining(h, qs, call) \in Seq(PairSet(V)) /\ rest[m] \in Seq(PairSet(V))
    <3>1. m \in 0 .. m
      BY <1>1
    <3> HIDE DEF m
    <3> QED
      BY <1>1, <3>1, RemainingTyped
  <2> QED
    BY <2>1, ConcatProperties
<1> HIDE DEF m, top
<1>3. /\ left \in [0 .. m + 1 -> Seq(PairSet(V))] /\ left[0] = <<>> /\ left[m + 1] = top
      /\ \A j \in 0 .. m : left[j] = rest[j]
  BY <1>1, <1>2
<1> HIDE DEF left
<1>4. ASSUME NEW j \in 1 .. m + 1
      PROVE  IsCall(V, h, qs, u[j]) /\ IsConcat(left[j], Remaining(h, qs, u[j]), left[j - 1])
  <2>1. CASE j = m + 1
    <3>1. j - 1 = m /\ m \in 0 .. m /\ u[j] = call
      BY <1>1, <2>1
    <3>2. left[j] = top /\ left[j - 1] = rest[m]
      BY <1>3, <2>1, <3>1
    <3>3. IsConcat(top, Remaining(h, qs, call), rest[m])
      BY DEF IsConcat, top
    <3> QED
      BY <3>1, <3>2, <3>3
  <2>2. CASE j # m + 1
    <3>1. j \in 1 .. m /\ j \in 0 .. m /\ j - 1 \in 0 .. m
      BY <1>1, <2>2
    <3>2. u[j] = w[j] /\ IsCall(V, h, ps, w[j]) /\ IsConcat(rest[j], Remaining(h, ps, w[j]), rest[j - 1])
      BY <3>1 DEF Stack, m
    <3>3. IsCall(V, h, qs, w[j]) /\ Remaining(h, qs, w[j]) = Remaining(h, ps, w[j])
      BY <3>1, <3>2, RemainingStays DEF m
    <3> QED
      BY <1>3, <3>1, <3>2, <3>3
  <2> QED
    BY <2>1, <2>2
<1>5. Stack(V, h, qs, u, left)
  <2>1. Len(u) \in Nat /\ 1 .. Len(u) = 1 .. m + 1 /\ 0 .. Len(u) = 0 .. m + 1
    <3> DEFINE n == Len(u)
               k == m + 1
    <3>1. n = k /\ n \in Nat
      BY <1>1
    <3> HIDE DEF n, k
    <3>2. n \in Nat /\ 1 .. n = 1 .. k /\ 0 .. n = 0 .. k
      BY <3>1
    <3> QED
      BY <3>2 DEF n, k
  <2>2. \A j \in 1 .. Len(u) : IsCall(V, h, qs, u[j])
    BY <1>4, <2>1
  <2>3. \A j \in 1 .. Len(u) : IsConcat(left[j], Remaining(h, qs, u[j]), left[j - 1])
    BY <1>4, <2>1
  <2>4. left \in [0 .. Len(u) -> Seq(PairSet(V))]
    BY <1>3, <2>1
  <2> QED
    BY <1>3, <2>1, <2>2, <2>3, <2>4 DEF Stack
<1>6. IsConcat(left[Len(u)], Remaining(h, qs, call), rest[Len(w)])
  <2>1. left[Len(u)] = top
    BY <1>1, <1>3
  <2> QED
    BY <2>1 DEF IsConcat, top, m
<1> QED
  BY <1>5, <1>6

\* One call less.
LEMMA StackShorter ==
    ASSUME NEW V, NEW h, NEW ps, NEW w, NEW rest, Stack(V, h, ps, w, rest), NEW m \in 1 .. Len(w),
           NEW u, Len(u) = m - 1, \A j \in 1 .. m - 1 : u[j] = w[j]
    PROVE  \E left : Stack(V, h, ps, u, left) /\ left[m - 1] = rest[m - 1]
<1> DEFINE left == [j \in 0 .. m - 1 |-> rest[j]]
<1>1. /\ Len(w) \in Nat /\ rest \in [0 .. Len(w) -> Seq(PairSet(V))] /\ rest[0] = <<>>
      /\ \A j \in 1 .. Len(w) : IsCall(V, h, ps, w[j]) /\ IsConcat(rest[j], Remaining(h, ps, w[j]), rest[j - 1])
  BY DEF Stack
<1>2. /\ m - 1 \in Nat /\ m - 1 \in 0 .. m - 1 /\ 0 \in 0 .. m - 1
      /\ \A j \in 0 .. m - 1 : j \in 0 .. Len(w)
      /\ \A j \in 1 .. m - 1 : j \in 1 .. Len(w) /\ j \in 0 .. m - 1 /\ j - 1 \in 0 .. m - 1
  BY <1>1
<1>3. /\ left \in [0 .. m - 1 -> Seq(PairSet(V))] /\ left[0] = <<>> /\ left[m - 1] = rest[m - 1]
      /\ \A j \in 0 .. m - 1 : left[j] = rest[j]
  BY <1>1, <1>2
<1> HIDE DEF left
<1>4. Stack(V, h, ps, u, left)
  BY <1>1, <1>2, <1>3 DEF Stack
<1> QED
  BY <1>3, <1>4

-----------------------------------------------------------------------------
(* One step of diffInto, by what is left to compare.                       *)

\* Three sequences put together, either two first.
LEMMA Regrouped ==
    ASSUME NEW S, NEW a \in Seq(S), NEW b \in Seq(S), NEW c \in Seq(S), NEW ab, NEW bc, NEW abc,
           IsConcat(ab, a, b), IsConcat(bc, b, c)
    PROVE  IsConcat(abc, ab, c) <=> IsConcat(abc, a, bc)
<1>1. (a \o b) \o c = a \o (b \o c)
  BY ConcatAssociative
<1> QED
  BY <1>1 DEF IsConcat

\* The mutations recorded, each with its path and its value.
Entries(h) == [path : [array : Nat, len : Nat], value : Cells(DOMAIN h)]
Mutated(h, ps, entry) == [path |-> PathIn(ps, entry.path), value |-> ValueOf(h, entry.value)]
ChangesIn(h, ps, rec) == [i \in DOMAIN rec |-> Mutated(h, ps, rec[i])]

\* They are mutations.
LEMMA ChangesTyped ==
    ASSUME NEW V, Holds(V), NEW h, IsHeap(h), Acyclic(h), NEW ps \in Seq(Seq(Nat)),
           NEW rec \in Seq(Entries(h)), \A i \in DOMAIN rec : IsSlice(ps, rec[i].path)
    PROVE  /\ ChangesIn(h, ps, rec) \in Seq([path : Seq(Nat), value : V])
           /\ Len(ChangesIn(h, ps, rec)) = Len(rec) /\ DOMAIN ChangesIn(h, ps, rec) = DOMAIN rec
           /\ \A i \in DOMAIN rec : ChangesIn(h, ps, rec)[i] = Mutated(h, ps, rec[i])
<1> DEFINE M == [path : Seq(Nat), value : V]
           c == ChangesIn(h, ps, rec)
<1>1. Len(rec) \in Nat /\ DOMAIN rec = 1 .. Len(rec)
  OBVIOUS
<1>2. ASSUME NEW i \in DOMAIN rec PROVE Mutated(h, ps, rec[i]) \in M
  <2>1. rec[i] \in Entries(h)
    BY <1>1, ElementOfSeq
  <2>2. rec[i].value \in Cells(DOMAIN h)
    BY <2>1 DEF Entries
  <2>3. ValueOf(h, rec[i].value) \in V
    BY <2>2, ValueTyped
  <2>4. PathIn(ps, rec[i].path) \in Seq(Nat)
    BY SlicePath
  <2> QED
    BY <2>3, <2>4 DEF Mutated
<1>3. c = [i \in 1 .. Len(rec) |-> Mutated(h, ps, rec[i])]
  BY <1>1 DEF ChangesIn
<1>4. DOMAIN c = 1 .. Len(rec) /\ \A i \in DOMAIN rec : c[i] = Mutated(h, ps, rec[i])
  BY <1>1, <1>3
<1>5. c \in Seq(M) /\ Len(c) = Len(rec)
  <2> HIDE DEF M, c
  <2>1. \A i \in 1 .. Len(rec) : Mutated(h, ps, rec[i]) \in M
    BY <1>1, <1>2
  <2> QED
    BY <1>1, <1>3, <2>1
<1> QED
  BY <1>1, <1>4, <1>5

\* They stay while their slices keep their paths.
LEMMA ChangesStay ==
    ASSUME NEW h, NEW ps, NEW qs, NEW rec,
           \A i \in DOMAIN rec : SliceStays(ps, qs, rec[i].path)
    PROVE  ChangesIn(h, qs, rec) = ChangesIn(h, ps, rec)
  BY DEF ChangesIn, Mutated, SliceStays

\* A sequence of which each element is an old one, or the one that is new.
OneMore(rec, more, entry) ==
    \A i \in DOMAIN more : more[i] = entry \/ (i \in DOMAIN rec /\ more[i] = rec[i])

\* One more of them.
LEMMA ChangesMore ==
    ASSUME NEW V, Holds(V), NEW h, IsHeap(h), Acyclic(h), NEW ps \in Seq(Seq(Nat)),
           NEW rec \in Seq(Entries(h)), NEW entry \in Entries(h), IsSlice(ps, entry.path),
           \A i \in DOMAIN rec : IsSlice(ps, rec[i].path), NEW more, Grown(rec, more, entry)
    PROVE  /\ more \in Seq(Entries(h)) /\ Len(more) = Len(rec) + 1
           /\ \A i \in DOMAIN more : IsSlice(ps, more[i].path)
           /\ OneMore(rec, more, entry)
           /\ IsConcat(ChangesIn(h, ps, more), ChangesIn(h, ps, rec), <<Mutated(h, ps, entry)>>)
<1> DEFINE E == Entries(h)
           M == [path : Seq(Nat), value : V]
           c == ChangesIn(h, ps, rec)
           d == ChangesIn(h, ps, more)
           last == <<Mutated(h, ps, entry)>>
           n == Len(rec)
<1>1. /\ more \in Seq(E) /\ Len(more) = n + 1 /\ more[n + 1] = entry /\ n \in Nat
      /\ \A i \in 1 .. n : more[i] = rec[i]
  <2>1. rec \in Seq(E) /\ entry \in E /\ more = Append(rec, entry)
    BY DEF Grown
  <2> HIDE DEF E
  <2> QED
    BY <2>1, AppendProperties
<1>2. DOMAIN more = 1 .. n + 1 /\ DOMAIN rec = 1 .. n
  BY <1>1
<1>3. \A i \in DOMAIN more : IF i = n + 1 THEN more[i] = entry ELSE i \in DOMAIN rec /\ more[i] = rec[i]
  BY <1>1, <1>2
<1>4. \A i \in DOMAIN more : IsSlice(ps, more[i].path)
  BY <1>3
<1>5. /\ c \in Seq(M) /\ Len(c) = n /\ \A i \in 1 .. n : c[i] = Mutated(h, ps, rec[i])
  BY <1>2, ChangesTyped
<1>6. /\ d \in Seq(M) /\ Len(d) = n + 1 /\ \A i \in 1 .. n + 1 : d[i] = Mutated(h, ps, more[i])
  BY <1>1, <1>2, <1>4, ChangesTyped
<1>7. last \in Seq(M) /\ Len(last) = 1 /\ last[1] = Mutated(h, ps, entry)
  <2>1. n + 1 \in 1 .. n + 1 /\ n + 1 \in DOMAIN d
    BY <1>1, <1>6
  <2>2. d[n + 1] = Mutated(h, ps, entry) /\ d[n + 1] \in M
    <3> HIDE DEF d, M
    <3> QED
      BY <1>1, <1>6, <2>1, ElementOfSeq
  <2>3. \A x \in M : <<x>> \in Seq(M) /\ Len(<<x>>) = 1 /\ <<x>>[1] = x
    OBVIOUS
  <2> HIDE DEF M, d
  <2> QED
    BY <2>2, <2>3
<1>8. d = c \o last
  <2> HIDE DEF M, c, d, last, n
  <2>1. /\ c \o last \in Seq(M) /\ Len(c \o last) = n + 1
        /\ \A i \in 1 .. n + 1 : (c \o last)[i] = IF i <= n THEN c[i] ELSE last[i - n]
    <3>1. /\ c \o last \in Seq(M) /\ Len(c \o last) = Len(c) + Len(last)
          /\ \A i \in 1 .. Len(c) + Len(last) :
                (c \o last)[i] = IF i <= Len(c) THEN c[i] ELSE last[i - Len(c)]
      BY <1>5, <1>7, ConcatProperties
    <3> QED
      BY <1>5, <1>7, <3>1
  <2>2. ASSUME NEW i \in 1 .. n + 1 PROVE d[i] = (c \o last)[i]
    <3>1. CASE i <= n
      <4>1. i \in 1 .. n
        BY <1>1, <3>1
      <4> QED
        BY <1>1, <1>5, <1>6, <2>1, <3>1, <4>1
    <3>2. CASE ~(i <= n)
      <4>1. i = n + 1 /\ i - n = 1
        BY <1>1, <3>2
      <4> QED
        BY <1>1, <1>6, <1>7, <2>1, <3>2, <4>1
    <3> QED
      BY <3>1, <3>2
  <2> QED
    BY <1>6, <2>1, <2>2, SeqEqual
<1> QED
  BY <1>1, <1>3, <1>4, <1>8 DEF IsConcat, OneMore

\* The calls of diffInto, their slices, and the slices of what they recorded.
WalkShape(V, h, ps, w, rec) ==
    /\ ps \in Seq(Seq(Nat))
    /\ Len(w) \in Nat
    /\ \A j \in 1 .. Len(w) : IsCall(V, h, ps, w[j]) /\ w[j].path.len = j - 1
    /\ rec \in Seq(Entries(h))
    /\ \A i \in DOMAIN rec :
          /\ IsSlice(ps, rec[i].path) /\ rec[i].path.array # 0
          /\ \A j \in 1 .. Len(w) : rec[i].path.array # w[j].path.array

\* What was recorded and what is left make the difference of the outermost call.
WalkMeans(V, h, ps, w, rec, diff) ==
    \E rest, left :
        /\ Stack(V, h, ps, w, rest)
        /\ Settles(V, rest[Len(w)], left)
        /\ IsConcat(diff, ChangesIn(h, ps, rec), Changes(left))

\* The calls after a step of the innermost one: the same, at its next index.
Forward(w, u) ==
    /\ Len(w) # 0 /\ Len(u) = Len(w) /\ \A j \in 1 .. Len(w) - 1 : u[j] = w[j]
    /\ u[Len(w)] = [w[Len(w)] EXCEPT !.at = @ + 1]

\* The innermost call goes on to its next index.
LEMMA StackNext ==
    ASSUME NEW V, NEW h, NEW ps, NEW w, NEW rest, Stack(V, h, ps, w, rest),
           Looping(h, w[Len(w)]),
           NEW qs \in Seq(Seq(Nat)), \A j \in 1 .. Len(w) : SliceStays(ps, qs, w[j].path),
           NEW u, Forward(w, u)
    PROVE  \E left : /\ Stack(V, h, qs, u, left)
                     /\ PairAt(h, ps, w[Len(w)]) \in PairSet(V)
                     /\ IsConcat(rest[Len(w)], <<PairAt(h, ps, w[Len(w)])>>, left[Len(w)])
<1> DEFINE m == Len(w)
           call == w[m]
           next == [call EXCEPT !.at = @ + 1]
           x == PairAt(h, ps, call)
           below == SubSeq(w, 1, m - 1)
           v == [j \in 1 .. m - 1 |-> w[j]]
<1>1. m \in Nat /\ m \in 1 .. m /\ m \in 0 .. m /\ m - 1 \in 0 .. m /\ m - 1 \in Nat /\ m - 1 + 1 = m
  BY DEF Stack, Forward
<1>2. Len(v) = m - 1 /\ \A j \in 1 .. m - 1 : v[j] = w[j] /\ j \in 1 .. m
  BY <1>1
<1> HIDE DEF v
<1>3. PICK inner : Stack(V, h, ps, v, inner) /\ inner[m - 1] = rest[m - 1]
  <2>1. m \in 1 .. Len(w) /\ Len(v) = m - 1 /\ \A j \in 1 .. m - 1 : v[j] = w[j]
    BY <1>1, <1>2
  <2> HIDE DEF m
  <2>2. \E inner : Stack(V, h, ps, v, inner) /\ inner[m - 1] = rest[m - 1]
    BY <2>1, StackShorter
  <2> QED
    BY <2>2
<1>4. /\ IsCall(V, h, ps, call) /\ IsConcat(rest[m], Remaining(h, ps, call), rest[m - 1])
      /\ rest[m - 1] \in Seq(PairSet(V))
  BY <1>1 DEF Stack
<1>5. /\ x \in PairSet(V) /\ IsCall(V, h, ps, next)
      /\ IsConcat(Remaining(h, ps, call), <<x>>, Remaining(h, ps, next))
  <2>1. IsCall(V, h, ps, call) /\ Looping(h, call)
    BY <1>4
  <2> HIDE DEF call
  <2> QED
    BY <2>1, RemainingNext
<1>6. next.path = call.path
  <2>1. call \in Calls(h)
    BY <1>4 DEF IsCall
  <2> QED
    BY <2>1 DEF Calls
<1>7. IsCall(V, h, qs, next) /\ Remaining(h, qs, next) = Remaining(h, ps, next)
  <2>1. SliceStays(ps, qs, next.path)
    BY <1>1, <1>6
  <2> HIDE DEF next
  <2> QED
    BY <1>5, <2>1, RemainingStays
<1>8. PICK left : /\ Stack(V, h, qs, u, left)
                  /\ IsConcat(left[Len(u)], Remaining(h, qs, next), inner[Len(v)])
  <2>1. /\ Len(u) = Len(v) + 1 /\ u[Len(u)] = next
        /\ \A j \in 1 .. Len(v) : u[j] = v[j]
        /\ \A j \in 1 .. Len(v) : SliceStays(ps, qs, v[j].path)
    BY <1>1, <1>2 DEF Forward
  <2> HIDE DEF next
  <2> QED
    BY <1>3, <1>7, <2>1, StackDeeper
<1>9. IsConcat(left[m], Remaining(h, ps, next), rest[m - 1])
  BY <1>2, <1>3, <1>7, <1>8 DEF Forward
<1>10. IsConcat(rest[m], <<x>>, left[m])
  <2>1. <<x>> \in Seq(PairSet(V))
    <3>1. \A S : \A y \in S : <<y>> \in Seq(S)
      OBVIOUS
    <3> QED
      BY <1>5, <3>1
  <2>2. Remaining(h, ps, next) \in Seq(PairSet(V))
    BY <1>5, RemainingTyped
  <2> DEFINE S == PairSet(V)
             one == <<x>>
             ahead == Remaining(h, ps, next)
             whole == Remaining(h, ps, call)
             outer == rest[m - 1]
  <2>3. /\ one \in Seq(S) /\ ahead \in Seq(S) /\ outer \in Seq(S)
        /\ IsConcat(whole, one, ahead) /\ IsConcat(left[m], ahead, outer) /\ IsConcat(rest[m], whole, outer)
    BY <1>4, <1>5, <1>9, <2>1, <2>2
  <2> HIDE DEF S, one, ahead, whole, outer
  <2>4. IsConcat(rest[m], one, left[m])
    BY <2>3, Regrouped
  <2> QED
    BY <2>4 DEF one
<1> QED
  BY <1>5, <1>8, <1>10

\* What the innermost call does with the pair at its index.
LEMMA WalkPair ==
    ASSUME NEW V, NEW h, NEW ps, NEW w, NEW rest, NEW left, NEW x \in PairSet(V), Universe(V),
           NEW m, NEW more, IsConcat(rest[m], <<x>>, more), more \in Seq(PairSet(V)),
           Settles(V, rest[m], left)
    PROVE  /\ Descends(x.before, x.after) =>
                 \E inner : /\ IsConcat(inner, Pairs(x.path, x.before.of, x.after.of), more)
                            /\ Settles(V, inner, left)
           /\ ~Descends(x.before, x.after) =>
                 \E q : /\ Settles(V, more, q)
                        /\ Changes(q) \in Seq([path : Seq(Nat), value : V])
                        /\ <<Mutation(x)>> \in Seq([path : Seq(Nat), value : V])
                        /\ Equal(x.before, x.after) => IsConcat(Changes(left), <<>>, Changes(q))
                        /\ ~Equal(x.before, x.after) => IsConcat(Changes(left), <<Mutation(x)>>, Changes(q))
<1> DEFINE T == [path : Seq(Nat), value : V]
<1>1. Settles(V, <<x>> \o more, left)
  BY DEF IsConcat
<1>2. ASSUME Descends(x.before, x.after)
      PROVE  \E inner : /\ IsConcat(inner, Pairs(x.path, x.before.of, x.after.of), more)
                        /\ Settles(V, inner, left)
  <2>1. Settles(V, Pairs(x.path, x.before.of, x.after.of) \o more, left)
    BY <1>1, <1>2, SettlesNext
  <2> QED
    BY <2>1 DEF IsConcat
<1>3. ASSUME ~Descends(x.before, x.after)
      PROVE  \E q : /\ Settles(V, more, q)
                    /\ Changes(q) \in Seq(T) /\ <<Mutation(x)>> \in Seq(T)
                    /\ Equal(x.before, x.after) => IsConcat(Changes(left), <<>>, Changes(q))
                    /\ ~Equal(x.before, x.after) => IsConcat(Changes(left), <<Mutation(x)>>, Changes(q))
  <2>1. PICK q : /\ Settles(V, more, q)
                 /\ Changes(q) \in Seq([path : Path, value : V])
                 /\ IsConcat(Changes(left), Changes(<<x>>), Changes(q))
    BY <1>1, <1>3, SettlesNext
  <2>2. Changes(<<x>>) = IF Equal(x.before, x.after) THEN <<>> ELSE <<Mutation(x)>>
    BY ChangesParts
  <2>3. Changes(q) \in Seq(T)
    <3>1. [path : Path, value : V] \subseteq T
      BY DEF Path
    <3> HIDE DEF T
    <3> QED
      BY <2>1, <3>1, SeqMonotonic
  <2>4. <<Mutation(x)>> \in Seq(T)
    <3>1. Mutation(x) \in T
      BY DEF Mutation, PairSet, Path
    <3>2. \A S : \A y \in S : <<y>> \in Seq(S)
      OBVIOUS
    <3> HIDE DEF T
    <3> QED
      BY <3>1, <3>2
  <2>5. Equal(x.before, x.after) => IsConcat(Changes(left), <<>>, Changes(q))
    BY <2>1, <2>2 DEF IsConcat
  <2>6. ~Equal(x.before, x.after) => IsConcat(Changes(left), <<Mutation(x)>>, Changes(q))
    BY <2>1, <2>2 DEF IsConcat
  <2> QED
    BY <2>1, <2>3, <2>4, <2>5, <2>6
<1> QED
  BY <1>2, <1>3

\* A pair that is the same.
LEMMA WalkSame ==
    ASSUME NEW V, Holds(V), NEW h, NEW ps \in Seq(Seq(Nat)), NEW w, NEW rec, NEW diff,
           WalkMeans(V, h, ps, w, rec, diff), WalkShape(V, h, ps, w, rec),
           NEW u, Forward(w, u), Looping(h, w[Len(w)]),
           ~Descends(PairAt(h, ps, w[Len(w)]).before, PairAt(h, ps, w[Len(w)]).after),
           Equal(PairAt(h, ps, w[Len(w)]).before, PairAt(h, ps, w[Len(w)]).after)
    PROVE  WalkMeans(V, h, ps, u, rec, diff)
<1> DEFINE m == Len(w)
           x == PairAt(h, ps, w[m])
<1>1. PICK rest, left : /\ Stack(V, h, ps, w, rest) /\ Settles(V, rest[m], left)
                        /\ IsConcat(diff, ChangesIn(h, ps, rec), Changes(left))
  BY DEF WalkMeans
<1>2. \A j \in 1 .. m : SliceStays(ps, ps, w[j].path)
  BY DEF WalkShape, SliceStays, IsCall
<1>3. PICK next : /\ Stack(V, h, ps, u, next) /\ x \in PairSet(V)
                  /\ IsConcat(rest[m], <<x>>, next[m])
  BY <1>1, <1>2, StackNext
<1>4. next[m] \in Seq(PairSet(V)) /\ Len(u) = m
  BY <1>3 DEF Stack, Forward
<1>5. PICK q : /\ Settles(V, next[m], q) /\ Changes(q) \in Seq([path : Seq(Nat), value : V])
               /\ IsConcat(Changes(left), <<>>, Changes(q))
  <2>1. Universe(V) /\ ~Descends(x.before, x.after) /\ Equal(x.before, x.after)
    BY DEF Holds
  <2> HIDE DEF x, m
  <2>2. \E q : /\ Settles(V, next[m], q)
               /\ Changes(q) \in Seq([path : Seq(Nat), value : V])
               /\ <<Mutation(x)>> \in Seq([path : Seq(Nat), value : V])
               /\ Equal(x.before, x.after) => IsConcat(Changes(left), <<>>, Changes(q))
    BY <1>1, <1>3, <1>4, <2>1, WalkPair
  <2> QED
    BY <2>1, <2>2
<1>6. Changes(left) = Changes(q)
  <2> DEFINE c == Changes(q)
             T == [path : Seq(Nat), value : V]
  <2>1. Changes(left) = <<>> \o c /\ c \in Seq(T)
    BY <1>5 DEF IsConcat
  <2> HIDE DEF c, T
  <2>2. Changes(left) = c
    BY <2>1, ConcatEmptySeq
  <2> QED
    BY <2>2 DEF c
<1> QED
  BY <1>1, <1>3, <1>4, <1>5, <1>6 DEF WalkMeans

\* A pair that is not, and is recorded.
LEMMA WalkRecords ==
    ASSUME NEW V, Holds(V), NEW h, IsHeap(h), Acyclic(h), NEW ps \in Seq(Seq(Nat)), NEW w, NEW rec, NEW diff,
           WalkMeans(V, h, ps, w, rec, diff), WalkShape(V, h, ps, w, rec),
           NEW u, Forward(w, u), Looping(h, w[Len(w)]),
           ~Descends(PairAt(h, ps, w[Len(w)]).before, PairAt(h, ps, w[Len(w)]).after),
           ~Equal(PairAt(h, ps, w[Len(w)]).before, PairAt(h, ps, w[Len(w)]).after),
           NEW qs \in Seq(Seq(Nat)), \A s : IsSlice(ps, s) => SliceStays(ps, qs, s),
           NEW entry \in Entries(h), IsSlice(qs, entry.path),
           Mutated(h, qs, entry) = Mutation(PairAt(h, ps, w[Len(w)])),
           NEW more, Grown(rec, more, entry)
    PROVE  WalkMeans(V, h, qs, u, more, diff)
<1> DEFINE m == Len(w)
           x == PairAt(h, ps, w[m])
           T == [path : Seq(Nat), value : V]
<1>1. PICK rest, left : /\ Stack(V, h, ps, w, rest) /\ Settles(V, rest[m], left)
                        /\ IsConcat(diff, ChangesIn(h, ps, rec), Changes(left))
  BY DEF WalkMeans
<1>2. \A j \in 1 .. m : SliceStays(ps, qs, w[j].path)
  BY DEF WalkShape, IsCall
<1>3. PICK next : /\ Stack(V, h, qs, u, next) /\ x \in PairSet(V)
                  /\ IsConcat(rest[m], <<x>>, next[m])
  BY <1>1, <1>2, StackNext
<1>4. next[m] \in Seq(PairSet(V)) /\ Len(u) = m
  BY <1>3 DEF Stack, Forward
<1>5. PICK q : /\ Settles(V, next[m], q) /\ Changes(q) \in Seq(T) /\ <<Mutation(x)>> \in Seq(T)
               /\ IsConcat(Changes(left), <<Mutation(x)>>, Changes(q))
  <2>1. Universe(V) /\ ~Descends(x.before, x.after) /\ ~Equal(x.before, x.after)
    BY DEF Holds
  <2> HIDE DEF x, m
  <2>2. \E q : /\ Settles(V, next[m], q)
               /\ Changes(q) \in Seq([path : Seq(Nat), value : V])
               /\ <<Mutation(x)>> \in Seq([path : Seq(Nat), value : V])
               /\ ~Equal(x.before, x.after) => IsConcat(Changes(left), <<Mutation(x)>>, Changes(q))
    BY <1>1, <1>3, <1>4, <2>1, WalkPair
  <2> QED
    BY <2>1, <2>2
<1>6. rec \in Seq(Entries(h)) /\ \A i \in DOMAIN rec : IsSlice(ps, rec[i].path) /\ SliceStays(ps, qs, rec[i].path)
  BY DEF WalkShape
<1>7. ChangesIn(h, qs, rec) = ChangesIn(h, ps, rec) /\ ChangesIn(h, ps, rec) \in Seq(T)
  BY <1>6, ChangesStay, ChangesTyped
<1>8. IsConcat(ChangesIn(h, qs, more), ChangesIn(h, ps, rec), <<Mutation(x)>>)
  <2>1. \A i \in DOMAIN rec : IsSlice(qs, rec[i].path)
    BY <1>6 DEF SliceStays
  <2> HIDE DEF x
  <2>2. IsConcat(ChangesIn(h, qs, more), ChangesIn(h, qs, rec), <<Mutated(h, qs, entry)>>)
    BY <1>6, <2>1, ChangesMore
  <2> QED
    BY <1>7, <2>2 DEF x
<1>9. IsConcat(diff, ChangesIn(h, qs, more), Changes(q))
  <2> DEFINE a == ChangesIn(h, ps, rec)
             b == <<Mutation(x)>>
             c == Changes(q)
             ab == ChangesIn(h, qs, more)
             bc == Changes(left)
  <2>1. /\ a \in Seq(T) /\ b \in Seq(T) /\ c \in Seq(T)
        /\ IsConcat(ab, a, b) /\ IsConcat(bc, b, c) /\ IsConcat(diff, a, bc)
    BY <1>1, <1>5, <1>7, <1>8
  <2> HIDE DEF a, b, c, ab, bc, T
  <2>2. IsConcat(diff, ab, c)
    BY <2>1, Regrouped
  <2> QED
    BY <2>2 DEF ab, c
<1> QED
  BY <1>3, <1>4, <1>5, <1>9 DEF WalkMeans

\* A call for the lists of a pair.
ForPair(h, ps, call, x) == PairsOf(h, ps, call) = Pairs(x.path, x.before.of, x.after.of)

\* The innermost call calls diffInto for the pair.
LEMMA WalkDescends ==
    ASSUME NEW V, Holds(V), NEW h, NEW ps \in Seq(Seq(Nat)), NEW w, NEW rec, NEW diff,
           WalkMeans(V, h, ps, w, rec, diff), WalkShape(V, h, ps, w, rec),
           NEW v, Forward(w, v), Looping(h, w[Len(w)]),
           Descends(PairAt(h, ps, w[Len(w)]).before, PairAt(h, ps, w[Len(w)]).after),
           NEW qs \in Seq(Seq(Nat)), \A j \in 1 .. Len(w) : SliceStays(ps, qs, w[j].path),
           \A i \in DOMAIN rec : SliceStays(ps, qs, rec[i].path),
           NEW call, IsCall(V, h, qs, call), call.at = 1,
           ForPair(h, qs, call, PairAt(h, ps, w[Len(w)])),
           NEW u, Len(u) = Len(v) + 1, u[Len(u)] = call, \A j \in 1 .. Len(v) : u[j] = v[j]
    PROVE  WalkMeans(V, h, qs, u, rec, diff)
<1> DEFINE m == Len(w)
           x == PairAt(h, ps, w[m])
<1>1. PICK rest, left : /\ Stack(V, h, ps, w, rest) /\ Settles(V, rest[m], left)
                        /\ IsConcat(diff, ChangesIn(h, ps, rec), Changes(left))
  BY DEF WalkMeans
<1>2. PICK next : /\ Stack(V, h, qs, v, next) /\ x \in PairSet(V)
                  /\ IsConcat(rest[m], <<x>>, next[m])
  BY <1>1, StackNext
<1>3. next[m] \in Seq(PairSet(V)) /\ Len(v) = m
  BY <1>2 DEF Stack, Forward
<1>4. PICK inner : /\ IsConcat(inner, Pairs(x.path, x.before.of, x.after.of), next[m])
                   /\ Settles(V, inner, left)
  <2>1. Universe(V) /\ Descends(x.before, x.after)
    BY DEF Holds
  <2> HIDE DEF x, m
  <2> QED
    BY <1>1, <1>2, <1>3, <2>1, WalkPair
<1>5. \A j \in 1 .. Len(v) : SliceStays(qs, qs, v[j].path)
  BY <1>2 DEF Stack, SliceStays, IsCall
<1>6. PICK deeper : /\ Stack(V, h, qs, u, deeper)
                    /\ IsConcat(deeper[Len(u)], Remaining(h, qs, call), next[Len(v)])
  BY <1>2, <1>5, StackDeeper
<1>7. Remaining(h, qs, call) = Pairs(x.path, x.before.of, x.after.of)
  BY RemainingAll DEF ForPair
<1>8. deeper[Len(u)] = inner
  BY <1>3, <1>4, <1>6, <1>7 DEF IsConcat
<1>9. ChangesIn(h, qs, rec) = ChangesIn(h, ps, rec)
  BY ChangesStay
<1> QED
  BY <1>1, <1>4, <1>6, <1>8, <1>9 DEF WalkMeans

\* The whole of a difference.
IsWhole(h, ps, rec, diff) == diff = ChangesIn(h, ps, rec)

\* The innermost call returns to its caller, or with the whole difference.
LEMMA WalkReturns ==
    ASSUME NEW V, Holds(V), NEW h, IsHeap(h), Acyclic(h), NEW ps \in Seq(Seq(Nat)), NEW w, NEW rec, NEW diff,
           WalkMeans(V, h, ps, w, rec, diff), WalkShape(V, h, ps, w, rec),
           Len(w) # 0, ~Looping(h, w[Len(w)]),
           NEW u, Len(u) = Len(w) - 1, \A j \in 1 .. Len(w) - 1 : u[j] = w[j]
    PROVE  /\ WalkMeans(V, h, ps, u, rec, diff)
           /\ Len(w) = 1 => IsWhole(h, ps, rec, diff)
<1> DEFINE m == Len(w)
           call == w[m]
<1>1. PICK rest, left : /\ Stack(V, h, ps, w, rest) /\ Settles(V, rest[m], left)
                        /\ IsConcat(diff, ChangesIn(h, ps, rec), Changes(left))
  BY DEF WalkMeans
<1>2. m \in Nat /\ m \in 1 .. m /\ m - 1 \in 0 .. m /\ m - 1 \in Nat
  BY DEF WalkShape
<1>3. /\ IsCall(V, h, ps, call) /\ IsConcat(rest[m], Remaining(h, ps, call), rest[m - 1])
      /\ rest[m - 1] \in Seq(PairSet(V)) /\ rest[0] = <<>>
  BY <1>1, <1>2 DEF Stack
<1>4. Remaining(h, ps, call) = <<>>
  <2>1. IsCall(V, h, ps, call) /\ ~Looping(h, call)
    BY <1>3
  <2> HIDE DEF call
  <2> QED
    BY <2>1, RemainingNothing
<1>5. rest[m] = rest[m - 1]
  <2> DEFINE outer == rest[m - 1]
             S == PairSet(V)
  <2>1. rest[m] = <<>> \o outer /\ outer \in Seq(S)
    BY <1>3, <1>4 DEF IsConcat
  <2> HIDE DEF outer, S
  <2>2. rest[m] = outer
    BY <2>1, ConcatEmptySeq
  <2> QED
    BY <2>2 DEF outer
<1>6. PICK outer : Stack(V, h, ps, u, outer) /\ outer[m - 1] = rest[m - 1]
  <2>1. m \in 1 .. Len(w) /\ Len(u) = m - 1 /\ \A j \in 1 .. m - 1 : u[j] = w[j]
    BY <1>2
  <2> HIDE DEF m
  <2>2. \E outer : Stack(V, h, ps, u, outer) /\ outer[m - 1] = rest[m - 1]
    BY <1>1, <2>1, StackShorter
  <2> QED
    BY <2>2
<1>7. WalkMeans(V, h, ps, u, rec, diff)
  <2>1. Settles(V, outer[Len(u)], left)
    BY <1>1, <1>5, <1>6
  <2> QED
    BY <1>1, <1>6, <2>1 DEF WalkMeans
<1>8. ASSUME m = 1 PROVE diff = ChangesIn(h, ps, rec)
  <2>1. rest[m] = <<>>
    BY <1>3, <1>5, <1>8
  <2>2. left = <<>>
    <3>1. Universe(V) /\ Settles(V, <<>>, left)
      BY <1>1, <2>1 DEF Holds
    <3> QED
      BY <3>1, SettlesNothing
  <2>3. Changes(left) = <<>>
    BY <2>2, ChangesParts DEF Holds
  <2>4. ChangesIn(h, ps, rec) \in Seq([path : Seq(Nat), value : V])
    BY ChangesTyped DEF WalkShape
  <2> DEFINE c == ChangesIn(h, ps, rec)
             T == [path : Seq(Nat), value : V]
  <2>5. diff = c \o <<>> /\ c \in Seq(T)
    BY <1>1, <2>3, <2>4 DEF IsConcat
  <2> HIDE DEF c, T
  <2>6. diff = c
    BY <2>5, ConcatEmptySeq
  <2> QED
    BY <2>6 DEF c
<1> QED
  BY <1>7, <1>8 DEF IsWhole

\* What a pair is, from the two cells at the index of a call.
PairCells(h, ps, call, x, l, r) ==
    /\ x.path = Append(PathIn(ps, call.path), call.at - 1) /\ call.at - 1 \in Nat
    /\ x.before = ValueOf(h, l) /\ x.after = ValueOf(h, r)
    /\ l \in Cells(DOMAIN h) /\ r \in Cells(DOMAIN h)
    /\ IsListCell(l) => l.of \in DOMAIN h /\ x.before.of = Lists(h)[l.of]
    /\ IsListCell(r) => r.of \in DOMAIN h /\ x.after.of = Lists(h)[r.of]
    /\ Descends(x.before, x.after) <=>
          IsListCell(l) /\ IsListCell(r) /\ Len(h[l.of]) = Len(h[r.of])

\* So is the pair that the call comes to.
LEMMA PairIs ==
    ASSUME NEW V, NEW h, NEW ps, NEW call, IsCall(V, h, ps, call), Looping(h, call)
    PROVE  PairCells(h, ps, call, PairAt(h, ps, call),
                     h[call.before][call.at], h[call.after][call.at])
<1> DEFINE x == PairAt(h, ps, call)
           l == h[call.before][call.at]
           r == h[call.after][call.at]
<1>1. /\ Holds(V) /\ IsHeap(h) /\ Acyclic(h) /\ call.before \in DOMAIN h /\ call.after \in DOMAIN h
      /\ call.at \in Nat \ {0} /\ call.at - 1 \in Nat
      /\ call.at \in 1 .. Len(h[call.before]) + 1
  BY DEF IsCall, Calls
<1>2. call.at \in DOMAIN h[call.before] /\ call.at \in DOMAIN h[call.after]
  <2>1. /\ DOMAIN h[call.before] = 1 .. Len(h[call.before])
        /\ DOMAIN h[call.after] = 1 .. Len(h[call.after])
        /\ Len(h[call.before]) \in Nat
    BY <1>1, CellsOf
  <2> QED
    BY <1>1, <2>1 DEF Looping
<1>3. /\ x.path = Append(PathIn(ps, call.path), call.at - 1)
      /\ x.before = Lists(h)[call.before][call.at] /\ x.after = Lists(h)[call.after][call.at]
  BY DEF PairAt
<1>35. ASSUME NEW a \in DOMAIN h, NEW i \in DOMAIN h[a]
       PROVE  /\ Lists(h)[a][i] = ValueOf(h, h[a][i]) /\ (IsList(Lists(h)[a][i]) <=> IsListCell(h[a][i]))
              /\ IsListCell(h[a][i]) =>
                    h[a][i].of \in DOMAIN h /\ Lists(h)[a][i].of = Lists(h)[h[a][i].of]
  BY <1>1, CellMeans
<1>4. /\ x.before = ValueOf(h, l) /\ (IsList(x.before) <=> IsListCell(l))
      /\ IsListCell(l) => l.of \in DOMAIN h /\ x.before.of = Lists(h)[l.of]
  <2> HIDE DEF x
  <2> QED
    BY <1>1, <1>2, <1>3, <1>35
<1>5. /\ x.after = ValueOf(h, r) /\ (IsList(x.after) <=> IsListCell(r))
      /\ IsListCell(r) => r.of \in DOMAIN h /\ x.after.of = Lists(h)[r.of]
  <2> HIDE DEF x
  <2> QED
    BY <1>1, <1>2, <1>3, <1>35
<1>6. l \in Cells(DOMAIN h) /\ r \in Cells(DOMAIN h)
  <2>1. /\ h[call.before] \in Seq(Cells(DOMAIN h)) /\ h[call.after] \in Seq(Cells(DOMAIN h))
        /\ DOMAIN h[call.before] = 1 .. Len(h[call.before])
        /\ DOMAIN h[call.after] = 1 .. Len(h[call.after])
    BY <1>1, CellsOf
  <2> QED
    BY <1>2, <2>1, ElementOfSeq
<1> HIDE DEF x, l, r
<1>7. Descends(x.before, x.after) <=> IsListCell(l) /\ IsListCell(r) /\ Len(h[l.of]) = Len(h[r.of])
  <2>1. IsListCell(l) => Len(x.before.of) = Len(h[l.of])
    BY <1>1, <1>4, CellMeans
  <2>2. IsListCell(r) => Len(x.after.of) = Len(h[r.of])
    BY <1>1, <1>5, CellMeans
  <2> QED
    BY <1>4, <1>5, <2>1, <2>2 DEF Descends
<1> QED
  BY <1>1, <1>3, <1>4, <1>5, <1>6, <1>7 DEF PairCells, x, l, r

\* A call that goes on to its next index.
LEMMA CallMoves ==
    ASSUME NEW h, NEW call \in Calls(h)
    PROVE  /\ [call EXCEPT !.at = @ + 1] \in Calls(h)
           /\ [call EXCEPT !.at = @ + 1].before = call.before
           /\ [call EXCEPT !.at = @ + 1].after = call.after
  BY DEF Calls

\* The calls of diffInto, with and without the innermost one.
LEMMA CallsAre ==
    ASSUME walk \in Seq(Calls(heap)), walk # <<>>
    PROVE  /\ Len(walk) \in Nat \ {0}
           /\ Caller \in Seq(Calls(heap)) /\ Len(Caller) = Len(walk) - 1
           /\ \A j \in 1 .. Len(walk) - 1 : Caller[j] = walk[j]
           /\ Further \in Seq(Calls(heap)) /\ Forward(walk, Further)
           /\ Further # <<>>
           /\ Further[1].before = walk[1].before /\ Further[1].after = walk[1].after
           /\ Len(walk) # 1 => Caller # <<>> /\ Caller[1] = walk[1]
<1> DEFINE m == Len(walk)
           S == Calls(heap)
           next == [walk[m] EXCEPT !.at = @ + 1]
<1>1. m \in Nat \ {0} /\ \A j \in 1 .. m : walk[j] \in S
  <2>1. walk \in Seq(S) /\ walk # <<>>
    OBVIOUS
  <2> HIDE DEF S
  <2>2. Len(walk) \in Nat \ {0}
    BY <2>1, EmptySeq, LenProperties
  <2> QED
    BY <2>1, <2>2, ElementOfSeq
<1>2. /\ Caller \in Seq(S) /\ Len(Caller) = m - 1 /\ m - 1 \in Nat
      /\ \A j \in 1 .. m - 1 : Caller[j] = walk[j]
  <2>1. \A j \in 1 .. m - 1 : j \in 1 .. m
    BY <1>1
  <2>2. \A j \in 1 .. m - 1 : walk[j] \in S
    BY <1>1, <2>1
  <2> HIDE DEF S, m
  <2>3. /\ SubSeq(walk, 1, m - 1) \in Seq(S)
        /\ Len(SubSeq(walk, 1, m - 1)) = IF 1 <= m - 1 THEN m - 1 - 1 + 1 ELSE 0
        /\ \A j \in 1 .. m - 1 - 1 + 1 : SubSeq(walk, 1, m - 1)[j] = walk[1 + j - 1]
    BY <1>1, <2>2, SubSeqProperties
  <2>4. m - 1 - 1 + 1 = m - 1 /\ (1 <= m - 1 \/ m - 1 = 0) /\ m - 1 \in Nat /\ \A j \in 1 .. m - 1 : 1 + j - 1 = j
    BY <1>1
  <2>5. Caller = SubSeq(walk, 1, m - 1)
    BY DEF Caller, m
  <2> QED
    BY <2>3, <2>4, <2>5
<1>3. walk[m] \in S /\ next \in S /\ next.before = walk[m].before /\ next.after = walk[m].after
  <2>1. walk[m] \in S
    BY <1>1
  <2> DEFINE call == walk[m]
  <2> HIDE DEF call
  <2>2. /\ [call EXCEPT !.at = @ + 1] \in S
        /\ [call EXCEPT !.at = @ + 1].before = call.before /\ [call EXCEPT !.at = @ + 1].after = call.after
    BY <2>1, CallMoves DEF call
  <2> QED
    BY <2>1, <2>2 DEF call
<1>4. Further = Append(Caller, next)
  BY DEF Further, Callee
<1> HIDE DEF S, next
<1>5. /\ Further \in Seq(S) /\ Len(Further) = m /\ Further[m] = next
      /\ \A j \in 1 .. m - 1 : Further[j] = walk[j]
  <2>1. /\ Append(Caller, next) \in Seq(S) /\ Len(Append(Caller, next)) = Len(Caller) + 1
        /\ Append(Caller, next)[Len(Caller) + 1] = next
        /\ \A j \in 1 .. Len(Caller) : Append(Caller, next)[j] = Caller[j]
    BY <1>2, <1>3, AppendProperties
  <2>2. Len(Caller) + 1 = m
    BY <1>1, <1>2
  <2> QED
    BY <1>2, <1>4, <2>1, <2>2
<1>6. Forward(walk, Further)
  BY <1>1, <1>5 DEF Forward, next
<1>7. Further # <<>> /\ Further[1].before = walk[1].before /\ Further[1].after = walk[1].after
  <2>1. CASE m = 1
    BY <1>3, <1>5, <2>1
  <2>2. CASE m # 1
    <3>1. 1 \in 1 .. m - 1
      <4> HIDE DEF m
      <4> QED
        BY <1>1, <2>2
    <3> QED
      BY <1>1, <1>5, <3>1
  <2> QED
    BY <1>1, <1>5, <2>1, <2>2
<1>8. m # 1 => Caller # <<>> /\ Caller[1] = walk[1]
  <2>1. m # 1 => 1 \in 1 .. m - 1 /\ m - 1 # 0
    <3> HIDE DEF m
    <3> QED
      BY <1>1
  <2> QED
    BY <1>2, <2>1
<1> QED
  BY <1>1, <1>2, <1>5, <1>6, <1>7, <1>8 DEF S

\* The shape of the calls is kept by the innermost one's going on.
LEMMA ShapeForward ==
    ASSUME NEW V, NEW h, NEW ps, NEW w, NEW rec, WalkShape(V, h, ps, w, rec),
           NEW u, Forward(w, u), Looping(h, w[Len(w)])
    PROVE  WalkShape(V, h, ps, u, rec) /\ \A j \in 1 .. Len(w) : u[j].path = w[j].path
<1> DEFINE m == Len(w)
           call == w[m]
           next == [call EXCEPT !.at = @ + 1]
<1>1. m \in Nat /\ m # 0 /\ Len(u) = m /\ m \in 1 .. m
  BY DEF WalkShape, Forward
<1>2. IsCall(V, h, ps, call) /\ call.path.len = m - 1
  BY <1>1 DEF WalkShape
<1>3. IsCall(V, h, ps, next)
  <2> HIDE DEF call
  <2> QED
    BY <1>2, RemainingNext DEF call
<1>4. next.path = call.path
  BY <1>2 DEF IsCall, Calls
<1>5. ASSUME NEW j \in 1 .. m
      PROVE  IsCall(V, h, ps, u[j]) /\ u[j].path.len = j - 1 /\ u[j].path = w[j].path
  <2>1. CASE j = m
    BY <1>2, <1>3, <1>4, <2>1 DEF Forward
  <2>2. CASE j # m
    <3>1. j \in 1 .. m - 1
      BY <1>1, <2>2
    <3>2. u[j] = w[j]
      BY <3>1 DEF Forward
    <3> QED
      BY <3>2 DEF WalkShape
  <2> QED
    BY <2>1, <2>2
<1>6. WalkShape(V, h, ps, u, rec)
  <2>1. \A i \in DOMAIN rec : \A j \in 1 .. m : rec[i].path.array # w[j].path.array
    BY DEF WalkShape
  <2>2. \A i \in DOMAIN rec : \A j \in 1 .. m : rec[i].path.array # u[j].path.array
    BY <1>5, <2>1
  <2>3. /\ ps \in Seq(Seq(Nat)) /\ rec \in Seq(Entries(h))
        /\ \A i \in DOMAIN rec : IsSlice(ps, rec[i].path) /\ rec[i].path.array # 0
    BY DEF WalkShape
  <2> HIDE DEF m
  <2> QED
    BY <1>1, <1>5, <2>2, <2>3 DEF WalkShape
<1> QED
  BY <1>5, <1>6

\* It is kept where no slice loses its path.
LEMMA ShapeStays ==
    ASSUME NEW V, NEW h, NEW ps, NEW w, NEW rec, WalkShape(V, h, ps, w, rec),
           NEW qs \in Seq(Seq(Nat)), \A j \in 1 .. Len(w) : SliceStays(ps, qs, w[j].path),
           \A i \in DOMAIN rec : SliceStays(ps, qs, rec[i].path)
    PROVE  WalkShape(V, h, qs, w, rec)
<1>1. \A j \in 1 .. Len(w) : IsCall(V, h, qs, w[j])
  BY RemainingStays DEF WalkShape
<1> QED
  BY <1>1 DEF WalkShape, SliceStays

\* It is kept by one call more.
LEMMA ShapeDeeper ==
    ASSUME NEW V, NEW h, NEW ps, NEW w, NEW rec, WalkShape(V, h, ps, w, rec),
           NEW call, IsCall(V, h, ps, call), call.path.len = Len(w),
           \A i \in DOMAIN rec : rec[i].path.array # call.path.array,
           NEW u, Len(u) = Len(w) + 1, u[Len(u)] = call, \A j \in 1 .. Len(w) : u[j] = w[j]
    PROVE  WalkShape(V, h, ps, u, rec)
<1> DEFINE m == Len(w)
<1>1. m \in Nat /\ Len(u) = m + 1 /\ m + 1 \in Nat /\ u[m + 1] = call /\ m + 1 - 1 = m
  BY DEF WalkShape
<1>2. \A j \in 1 .. m + 1 : (j \in 1 .. m /\ u[j] = w[j]) \/ (j = m + 1 /\ u[j] = call)
  BY <1>1
<1> HIDE DEF m
<1>3. \A j \in 1 .. m + 1 : IsCall(V, h, ps, u[j]) /\ u[j].path.len = j - 1
  BY <1>1, <1>2 DEF WalkShape, m
<1>4. \A i \in DOMAIN rec : \A j \in 1 .. m + 1 : rec[i].path.array # u[j].path.array
  BY <1>2 DEF WalkShape, m
<1> QED
  BY <1>1, <1>3, <1>4 DEF WalkShape

\* It is kept by one call less.
LEMMA ShapeShorter ==
    ASSUME NEW V, NEW h, NEW ps, NEW w, NEW rec, WalkShape(V, h, ps, w, rec), Len(w) # 0,
           NEW u, Len(u) = Len(w) - 1, \A j \in 1 .. Len(w) - 1 : u[j] = w[j]
    PROVE  WalkShape(V, h, ps, u, rec)
<1>1. Len(w) \in Nat /\ Len(u) \in Nat /\ \A j \in 1 .. Len(u) : j \in 1 .. Len(w) /\ u[j] = w[j]
  BY DEF WalkShape
<1> QED
  BY <1>1 DEF WalkShape

\* It is kept by one mutation more, in an array that no call knows.
LEMMA ShapeMore ==
    ASSUME NEW V, NEW h, NEW ps, NEW w, NEW rec, WalkShape(V, h, ps, w, rec),
           NEW entry \in Entries(h), IsSlice(ps, entry.path), entry.path.array # 0,
           \A j \in 1 .. Len(w) : entry.path.array # w[j].path.array,
           NEW more \in Seq(Entries(h)),
           OneMore(rec, more, entry)
    PROVE  WalkShape(V, h, ps, w, more)
<1>1. \A i \in DOMAIN more : more[i] = entry \/ (i \in DOMAIN rec /\ more[i] = rec[i])
  BY DEF OneMore
<1> QED
  BY <1>1 DEF WalkShape

-----------------------------------------------------------------------------
(* The inductive invariant.                                                *)

\* What a subscriber may want.
Sought ==
    { Lists(payload)[1] : payload \in Payloads }
    \cup { Lists(heap)[versions[i]] : i \in DOMAIN versions }

\* A walk takes the difference to one of them.
WalkInv(V) ==
    /\ walk \in Seq(Calls(heap))
    /\ WalkShape(V, heap, paths, walk, recorded)
    /\ walk # <<>> =>
          /\ phase = "idle"
          /\ \E after \in Sought :
                WalkMeans(V, heap, paths, walk, recorded, Diff(Lists(heap)[Current], after))

\* A call of ApplyPath is for the first mutation recorded, and no mutation
\* carries an array that the call has made.
JobInv ==
    phase # "idle" =>
        /\ walk = <<>> /\ recorded # <<>>
        /\ job.path = PathIn(paths, recorded[1].path) /\ job.value = recorded[1].value
        /\ \A i \in DOMAIN recorded :
              IsListCell(recorded[i].value) => recorded[i].value.of <= base

DiffInv(V) == ApplyInv(V) /\ WalkInv(V) /\ JobInv

-----------------------------------------------------------------------------
(* diffInto keeps it.                                                      *)

\* No call of ApplyPath, no change.
LEMMA ApplyStays ==
    ASSUME NEW V, ApplyInv(V), UNCHANGED heapVars
    PROVE  ApplyInv(V)'
<1>1. /\ heap' = heap /\ versions' = versions /\ phase' = phase
      /\ job' = job /\ base' = base /\ frames' = frames
  BY DEF heapVars
<1>2. HeapInv'
  <2>1. HeapType'
    BY <1>1 DEF ApplyInv, HeapInv, HeapType, WellFormed
  <2>2. CallInv'
    BY <1>1 DEF ApplyInv, HeapInv, CallInv, OwnCopies, ListAhead, Top
  <2> QED
    BY <2>1, <2>2 DEF HeapInv
<1>3. Acyclic(heap')
  BY <1>1 DEF ApplyInv
<1>4. CallShape'
  BY <1>1 DEF ApplyInv, CallShape
<1>5. CallValue(V)'
  BY <1>1 DEF ApplyInv, CallValue, Current, ReadCell
<1> QED
  BY <1>2, <1>3, <1>4, <1>5 DEF ApplyInv

\* A step of diffInto that is not the last one.
LEMMA DiffGoesOn ==
    ASSUME NEW V, Holds(V), DiffInv(V), UNCHANGED heapVars, walk # <<>>,
           walk' \in Seq(Calls(heap)), WalkShape(V, heap, paths', walk', recorded'),
           \A diff : WalkMeans(V, heap, paths, walk, recorded, diff) =>
                        WalkMeans(V, heap, paths', walk', recorded', diff)
    PROVE  DiffInv(V)'
<1>1. heap' = heap /\ versions' = versions /\ phase' = phase /\ Current' = Current
  BY DEF heapVars, Current
<1>2. ApplyInv(V)' /\ phase' = "idle"
  BY <1>1, ApplyStays DEF DiffInv, WalkInv
<1>3. Sought' = Sought
  BY <1>1 DEF Sought
<1>4. WalkInv(V)'
  BY <1>1, <1>2, <1>3 DEF DiffInv, WalkInv
<1>5. JobInv'
  BY <1>2 DEF JobInv
<1> QED
  BY <1>2, <1>4, <1>5 DEF DiffInv

\* What a walk under way is about.
LEMMA DiffingIs ==
    ASSUME NEW V, Holds(V), DiffInv(V), walk # <<>>
    PROVE  /\ WalkShape(V, heap, paths, walk, recorded)
           /\ paths \in Seq(Seq(Nat)) /\ recorded \in Seq(Entries(heap))
           /\ IsHeap(heap) /\ Acyclic(heap)
           /\ Len(walk) \in Nat \ {0}
           /\ \A j \in 1 .. Len(walk) : IsSlice(paths, walk[j].path) /\ walk[j].path.len = j - 1
           /\ \A i \in DOMAIN recorded : IsSlice(paths, recorded[i].path)
<1>1. walk \in Seq(Calls(heap)) /\ WalkShape(V, heap, paths, walk, recorded)
  BY DEF DiffInv, WalkInv
<1>2. Len(walk) \in Nat \ {0}
  BY <1>1, CallsAre
<1>3. IsHeap(heap) /\ Acyclic(heap)
  <2>1. 1 \in 1 .. Len(walk)
    BY <1>2
  <2> QED
    BY <1>1, <2>1 DEF WalkShape, IsCall
<1>4. \A j \in 1 .. Len(walk) : IsSlice(paths, walk[j].path) /\ walk[j].path.len = j - 1
  BY <1>1 DEF WalkShape, IsCall
<1>5. /\ paths \in Seq(Seq(Nat)) /\ recorded \in Seq(Entries(heap))
      /\ \A i \in DOMAIN recorded : IsSlice(paths, recorded[i].path)
  BY <1>1 DEF WalkShape
<1> QED
  BY <1>1, <1>2, <1>3, <1>4, <1>5

\* Its innermost call.
LEMMA CalleeIs ==
    ASSUME NEW V, Holds(V), DiffInv(V), walk # <<>>
    PROVE  /\ Len(walk) \in Nat /\ Callee = walk[Len(walk)] /\ IsCall(V, heap, paths, Callee)
           /\ IsSlice(paths, Callee.path) /\ Callee.path.len = Len(walk) - 1
           /\ \A i \in DOMAIN recorded : recorded[i].path.array # Callee.path.array
<1>1. Len(walk) \in Nat \ {0} /\ WalkShape(V, heap, paths, walk, recorded)
  BY DiffingIs
<1>2. Len(walk) \in 1 .. Len(walk) /\ Callee = walk[Len(walk)]
  BY <1>1 DEF Callee
<1>3. IsCall(V, heap, paths, Callee) /\ Callee.path.len = Len(walk) - 1
  BY <1>1, <1>2 DEF WalkShape
<1>4. IsSlice(paths, Callee.path)
  BY <1>3 DEF IsCall
<1>5. \A i \in DOMAIN recorded : recorded[i].path.array # Callee.path.array
  BY <1>1, <1>2 DEF WalkShape
<1> QED
  BY <1>1, <1>2, <1>3, <1>4, <1>5

\* Two values that are the same.
LEMMA DiffSameInv ==
    ASSUME NEW V, Holds(V), DiffInv(V), DiffSame
    PROVE  DiffInv(V)'
<1> DEFINE x == PairAt(heap, paths, Callee)
<1>1. walk # <<>> /\ Looping(heap, Callee)
  BY DEF DiffSame, InLoop, Looping
<1>2. /\ walk' = Further /\ UNCHANGED heapVars /\ paths' = paths /\ recorded' = recorded
      /\ ~BothLists /\ Equal(ReadCell(Left), ReadCell(Right))
  BY DEF DiffSame
<1>3. Forward(walk, Further) /\ Further \in Seq(Calls(heap))
  BY <1>1, CallsAre DEF DiffInv, WalkInv
<1>4. /\ WalkShape(V, heap, paths, walk, recorded) /\ paths \in Seq(Seq(Nat))
      /\ Callee = walk[Len(walk)] /\ IsCall(V, heap, paths, Callee)
  BY <1>1, DiffingIs, CalleeIs
<1>5. ~Descends(x.before, x.after) /\ Equal(x.before, x.after)
  <2>1. PairCells(heap, paths, Callee, x, Left, Right)
    BY <1>1, <1>4, PairIs DEF Left, Right
  <2> HIDE DEF x
  <2> QED
    BY <1>2, <2>1 DEF PairCells, BothLists, ReadCell
<1>6. WalkShape(V, heap, paths', walk', recorded')
  BY <1>1, <1>2, <1>3, <1>4, ShapeForward
<1>7. ASSUME NEW diff, WalkMeans(V, heap, paths, walk, recorded, diff)
      PROVE  WalkMeans(V, heap, paths', walk', recorded', diff)
  BY <1>1, <1>2, <1>3, <1>4, <1>5, <1>7, WalkSame
<1> QED
  BY <1>1, <1>2, <1>3, <1>6, <1>7, DiffGoesOn

\* Two that are not.
LEMMA DiffRecordsInv ==
    ASSUME NEW V, Holds(V), DiffInv(V), DiffRecords
    PROVE  DiffInv(V)'
<1> DEFINE x == PairAt(heap, paths, Callee)
           made == Recorded(Callee.path, Callee.at - 1)
           entry == [path |-> made.slice, value |-> Right]
<1>1. walk # <<>> /\ Looping(heap, Callee)
  BY DEF DiffRecords, InLoop, Looping
<1>2. /\ walk' = Further /\ UNCHANGED heapVars /\ paths' = made.paths
      /\ recorded' = Append(recorded, entry)
      /\ ~BothLists /\ ~Equal(ReadCell(Left), ReadCell(Right))
  BY DEF DiffRecords
<1>3. Forward(walk, Further) /\ Further \in Seq(Calls(heap)) /\ Len(Further) = Len(walk)
  BY <1>1, CallsAre DEF DiffInv, WalkInv, Forward
<1>4. /\ WalkShape(V, heap, paths, walk, recorded) /\ paths \in Seq(Seq(Nat)) /\ IsHeap(heap) /\ Acyclic(heap)
      /\ Callee = walk[Len(walk)] /\ IsCall(V, heap, paths, Callee) /\ IsSlice(paths, Callee.path)
      /\ recorded \in Seq(Entries(heap))
      /\ \A j \in 1 .. Len(walk) : IsSlice(paths, walk[j].path)
      /\ \A i \in DOMAIN recorded : IsSlice(paths, recorded[i].path)
  BY <1>1, DiffingIs, CalleeIs
<1>5. /\ ~Descends(x.before, x.after) /\ ~Equal(x.before, x.after)
      /\ x.path = Append(PathIn(paths, Callee.path), Callee.at - 1) /\ Callee.at - 1 \in Nat
      /\ x.after = ValueOf(heap, Right) /\ Right \in Cells(DOMAIN heap)
  <2>1. PairCells(heap, paths, Callee, x, Left, Right)
    BY <1>1, <1>4, PairIs DEF Left, Right
  <2> HIDE DEF x
  <2> QED
    BY <1>2, <2>1 DEF PairCells, BothLists, ReadCell
<1>6. /\ paths' \in Seq(Seq(Nat)) /\ IsSlice(paths', made.slice)
      /\ made.slice.array = Len(paths) + 1
      /\ PathIn(paths', made.slice) = x.path
      /\ \A s : IsSlice(paths, s) => SliceStays(paths, paths', s)
  BY <1>2, <1>4, <1>5, Records
<1> HIDE DEF made
<1>7. entry \in Entries(heap) /\ Mutated(heap, paths', entry) = Mutation(x) /\ entry.path = made.slice
  <2>1. made.slice \in [array : Nat, len : Nat]
    BY <1>6 DEF IsSlice
  <2> QED
    BY <1>5, <1>6, <2>1 DEF Entries, Mutated, Mutation
<1> HIDE DEF entry
<1>8. Grown(recorded, recorded', entry)
  BY <1>2 DEF Grown
<1>9. WalkShape(V, heap, paths', walk', recorded')
  <2>1. WalkShape(V, heap, paths, walk', recorded) /\ \A j \in 1 .. Len(walk) : walk'[j].path = walk[j].path
    BY <1>1, <1>2, <1>3, <1>4, ShapeForward
  <2>2. WalkShape(V, heap, paths', walk', recorded)
    BY <1>2, <1>3, <1>4, <1>6, <2>1, ShapeStays
  <2>3. Len(paths) \in Nat /\ entry.path.array = Len(paths) + 1
    BY <1>4, <1>6, <1>7, LenProperties
  <2>4. entry.path.array # 0
    BY <2>3
  <2>5. \A j \in 1 .. Len(walk') : entry.path.array # walk'[j].path.array
    <3>1. \A j \in 1 .. Len(walk) : walk[j].path.array \in Nat /\ walk[j].path.array <= Len(paths)
      BY <1>4 DEF IsSlice
    <3> QED
      BY <1>2, <1>3, <2>1, <2>3, <3>1
  <2>6. IsSlice(paths', entry.path) /\ \A i \in DOMAIN recorded : IsSlice(paths', recorded[i].path)
    BY <1>4, <1>6, <1>7 DEF SliceStays
  <2>7. /\ recorded' \in Seq(Entries(heap))
        /\ OneMore(recorded, recorded', entry)
    BY <1>4, <1>6, <1>7, <1>8, <2>6, ChangesMore
  <2> QED
    BY <1>7, <2>2, <2>4, <2>5, <2>6, <2>7, ShapeMore
<1>10. ASSUME NEW diff, WalkMeans(V, heap, paths, walk, recorded, diff)
       PROVE  WalkMeans(V, heap, paths', walk', recorded', diff)
  <2>1. IsSlice(paths', entry.path) /\ Mutated(heap, paths', entry) = Mutation(PairAt(heap, paths, walk[Len(walk)]))
    BY <1>4, <1>6, <1>7
  <2>2. /\ ~Descends(PairAt(heap, paths, walk[Len(walk)]).before, PairAt(heap, paths, walk[Len(walk)]).after)
        /\ ~Equal(PairAt(heap, paths, walk[Len(walk)]).before, PairAt(heap, paths, walk[Len(walk)]).after)
        /\ Looping(heap, walk[Len(walk)]) /\ Forward(walk, walk')
    BY <1>1, <1>2, <1>3, <1>4, <1>5
  <2> QED
    BY <1>4, <1>6, <1>7, <1>8, <1>10, <2>1, <2>2, WalkRecords
<1> QED
  BY <1>1, <1>2, <1>3, <1>9, <1>10, DiffGoesOn

\* Two lists.
LEMMA DiffDescendsInv ==
    ASSUME NEW V, Holds(V), DiffInv(V), DiffDescends
    PROVE  DiffInv(V)'
<1> DEFINE x == PairAt(heap, paths, Callee)
<1>1. walk # <<>> /\ Looping(heap, Callee) /\ BothLists /\ UNCHANGED heapVars /\ recorded' = recorded
  BY DEF DiffDescends, InLoop, Looping
<1>2. PICK spare \in 0 .. Spare :
         LET next == Appended(Callee.path, Callee.at - 1, spare)
         IN  /\ paths' = next.paths
             /\ walk' = Append(Further, DiffCall(next.slice, Left.of, Right.of))
  BY DEF DiffDescends
<1> DEFINE next == Appended(Callee.path, Callee.at - 1, spare)
           to == next.slice
           call == DiffCall(to, Left.of, Right.of)
           m == Len(walk)
<1>3. Forward(walk, Further) /\ Further \in Seq(Calls(heap)) /\ Len(Further) = m /\ m \in Nat \ {0}
  BY <1>1, CallsAre DEF DiffInv, WalkInv, Forward
<1>4. /\ WalkShape(V, heap, paths, walk, recorded) /\ paths \in Seq(Seq(Nat)) /\ IsHeap(heap) /\ Acyclic(heap)
      /\ Callee = walk[m] /\ IsCall(V, heap, paths, Callee) /\ IsSlice(paths, Callee.path)
      /\ Callee.path.len = m - 1
      /\ \A j \in 1 .. m : IsSlice(paths, walk[j].path) /\ walk[j].path.len = j - 1
      /\ \A i \in DOMAIN recorded : IsSlice(paths, recorded[i].path)
      /\ \A i \in DOMAIN recorded : recorded[i].path.array # Callee.path.array
  BY <1>1, DiffingIs, CalleeIs
<1>5. /\ Descends(x.before, x.after) /\ Callee.at - 1 \in Nat
      /\ x.path = Append(PathIn(paths, Callee.path), Callee.at - 1)
      /\ Left.of \in DOMAIN heap /\ Right.of \in DOMAIN heap
      /\ x.before.of = Lists(heap)[Left.of] /\ x.after.of = Lists(heap)[Right.of]
  <2>1. PairCells(heap, paths, Callee, x, Left, Right)
    BY <1>1, <1>4, PairIs DEF Left, Right
  <2> HIDE DEF x
  <2> QED
    BY <1>1, <2>1 DEF PairCells, BothLists
<1>6. AppendedTo(paths, Callee.path, Callee.at - 1, next)
  <2>1. spare \in Nat
    BY <1>2, DiffHeapAssumption
  <2> QED
    BY <1>4, <1>5, <2>1, Appends
<1>7. paths' = next.paths /\ walk' = Append(Further, call)
  BY <1>2
<1> HIDE DEF next
<1>8. /\ paths' \in Seq(Seq(Nat)) /\ IsSlice(paths', to) /\ to.len = m
      /\ to.array = Callee.path.array \/ to.array > Len(paths)
      /\ PathIn(paths', to) = x.path
      /\ \A s : IsSlice(paths, s) /\ (s.array # Callee.path.array \/ s.len <= m - 1) => SliceStays(paths, paths', s)
  <2>1. Callee.path.len + 1 = m
    BY <1>3, <1>4
  <2> HIDE DEF m
  <2> QED
    BY <1>4, <1>5, <1>6, <1>7, <2>1 DEF AppendedTo
<1>9. /\ \A j \in 1 .. m : SliceStays(paths, paths', walk[j].path)
      /\ \A i \in DOMAIN recorded : SliceStays(paths, paths', recorded[i].path)
  <2>1. \A j \in 1 .. m : j - 1 <= m - 1
    BY <1>3
  <2> HIDE DEF m, to
  <2> QED
    BY <1>4, <1>8, <2>1
<1>10. /\ call \in Calls(heap) /\ call.path = to /\ call.before = Left.of /\ call.after = Right.of /\ call.at = 1
  <2>1. to \in [array : Nat, len : Nat]
    BY <1>8 DEF IsSlice
  <2> HIDE DEF to
  <2> QED
    BY <1>5, <2>1 DEF DiffCall, Calls
<1> HIDE DEF call
<1>11. IsCall(V, heap, paths', call)
  <2>1. call.at \in 1 .. Len(heap[call.before]) + 1
    <3>1. Len(heap[call.before]) \in Nat
      BY <1>4, <1>5, <1>10, CellsOf
    <3> QED
      BY <1>10, <3>1
  <2> QED
    BY <1>4, <1>8, <1>10, <2>1 DEF IsCall
<1>12. ForPair(heap, paths', call, x)
  BY <1>5, <1>8, <1>10 DEF ForPair, PairsOf
<1>13. /\ walk' \in Seq(Calls(heap)) /\ Len(walk') = m + 1 /\ walk'[m + 1] = call
       /\ \A j \in 1 .. m : walk'[j] = Further[j]
  <2> DEFINE S == Calls(heap)
  <2>1. Further \in Seq(S) /\ call \in S /\ Len(Further) = m
    BY <1>3, <1>10
  <2> HIDE DEF S, m
  <2>2. /\ walk' \in Seq(S) /\ Len(walk') = m + 1 /\ walk'[m + 1] = call
        /\ \A j \in 1 .. m : walk'[j] = Further[j]
    BY <1>7, <2>1, AppendProperties
  <2> QED
    BY <2>2 DEF S
<1>14. /\ Len(walk') = Len(Further) + 1 /\ walk'[Len(walk')] = call
       /\ \A j \in 1 .. Len(Further) : walk'[j] = Further[j]
  BY <1>3, <1>13
<1>15. WalkShape(V, heap, paths', walk', recorded')
  <2>1. WalkShape(V, heap, paths, Further, recorded) /\ \A j \in 1 .. m : Further[j].path = walk[j].path
    BY <1>1, <1>3, <1>4, ShapeForward
  <2>2. WalkShape(V, heap, paths', Further, recorded)
    BY <1>3, <1>8, <1>9, <2>1, ShapeStays
  <2>3. \A i \in DOMAIN recorded : recorded[i].path.array # call.path.array
    <3>1. \A i \in DOMAIN recorded : recorded[i].path.array \in Nat /\ recorded[i].path.array <= Len(paths)
      BY <1>4 DEF IsSlice
    <3>2. Len(paths) \in Nat /\ to.array \in Nat
      BY <1>4, <1>8, LenProperties DEF IsSlice
    <3> HIDE DEF to
    <3>3. \A i \in DOMAIN recorded : recorded[i].path.array # to.array
      BY <1>4, <1>8, <3>1, <3>2
    <3> QED
      BY <1>10, <3>3
  <2>4. call.path.len = Len(Further)
    BY <1>3, <1>8, <1>10
  <2> HIDE DEF m, to
  <2> QED
    BY <1>1, <1>11, <1>14, <2>2, <2>3, <2>4, ShapeDeeper
<1>16. ASSUME NEW diff, WalkMeans(V, heap, paths, walk, recorded, diff)
       PROVE  WalkMeans(V, heap, paths', walk', recorded', diff)
  <2>1. /\ Looping(heap, walk[Len(walk)])
        /\ Descends(PairAt(heap, paths, walk[Len(walk)]).before, PairAt(heap, paths, walk[Len(walk)]).after)
        /\ ForPair(heap, paths', call, PairAt(heap, paths, walk[Len(walk)]))
    BY <1>1, <1>4, <1>5, <1>12
  <2>2. /\ call.at = 1 /\ paths \in Seq(Seq(Nat)) /\ paths' \in Seq(Seq(Nat))
        /\ WalkShape(V, heap, paths, walk, recorded) /\ Forward(walk, Further)
    BY <1>3, <1>4, <1>8, <1>10
  <2>3. /\ \A j \in 1 .. Len(walk) : SliceStays(paths, paths', walk[j].path)
        /\ \A i \in DOMAIN recorded : SliceStays(paths, paths', recorded[i].path)
    BY <1>9
  <2> HIDE DEF to, x, m
  <2>4. WalkMeans(V, heap, paths', walk', recorded, diff)
    BY <1>11, <1>14, <1>16, <2>1, <2>2, <2>3, WalkDescends, SMTT(30)
  <2> QED
    BY <1>1, <2>4
<1> QED
  BY <1>1, <1>13, <1>15, <1>16, DiffGoesOn

\* A call that is not the outermost one returns.
LEMMA DiffReturnsInv ==
    ASSUME NEW V, Holds(V), DiffInv(V), DiffReturns
    PROVE  /\ walk' # <<>> => DiffInv(V)'
           /\ walk' = <<>> =>
                 \E after \in Sought : IsWhole(heap, paths, recorded, Diff(Lists(heap)[Current], after))
           /\ WalkShape(V, heap, paths, walk', recorded)
<1>1. walk # <<>> /\ ~InLoop /\ walk' = Caller /\ UNCHANGED heapVars /\ paths' = paths /\ recorded' = recorded
  BY DEF DiffReturns
<1>2. /\ Len(walk) \in Nat \ {0} /\ Caller \in Seq(Calls(heap)) /\ Len(Caller) = Len(walk) - 1
      /\ \A j \in 1 .. Len(walk) - 1 : Caller[j] = walk[j]
  BY <1>1, CallsAre DEF DiffInv, WalkInv
<1>3. /\ WalkShape(V, heap, paths, walk, recorded) /\ paths \in Seq(Seq(Nat)) /\ IsHeap(heap) /\ Acyclic(heap)
      /\ Len(walk) # 0 /\ ~Looping(heap, walk[Len(walk)])
  <2>1. ~Looping(heap, Callee)
    BY <1>1 DEF InLoop, Looping
  <2> QED
    BY <1>1, <1>2, <2>1, DiffingIs, CalleeIs
<1>4. WalkShape(V, heap, paths, walk', recorded)
  BY <1>1, <1>2, <1>3, ShapeShorter
<1>5. ASSUME NEW diff, WalkMeans(V, heap, paths, walk, recorded, diff)
      PROVE  /\ WalkMeans(V, heap, paths, walk', recorded, diff)
             /\ Len(walk) = 1 => IsWhole(heap, paths, recorded, diff)
  BY <1>1, <1>2, <1>3, <1>5, WalkReturns
<1>6. ASSUME walk' # <<>> PROVE DiffInv(V)'
  BY <1>1, <1>2, <1>4, <1>5, DiffGoesOn
<1>7. ASSUME walk' = <<>>
      PROVE  \E after \in Sought : IsWhole(heap, paths, recorded, Diff(Lists(heap)[Current], after))
  <2>1. Len(walk) = 1
    <3> DEFINE m == Len(walk)
    <3>1. m - 1 = 0 /\ m \in Nat
      BY <1>1, <1>2, <1>7
    <3> HIDE DEF m
    <3>2. m = 1
      BY <3>1
    <3> QED
      BY <3>2 DEF m
  <2>2. PICK after \in Sought :
           WalkMeans(V, heap, paths, walk, recorded, Diff(Lists(heap)[Current], after))
    BY <1>1 DEF DiffInv, WalkInv
  <2> QED
    BY <1>5, <2>1, <2>2
<1> QED
  BY <1>4, <1>6, <1>7

-----------------------------------------------------------------------------
(* The payloads handed out and the mutations to apply, as values.          *)

Handed == [i \in DOMAIN versions |-> ReadArray(versions[i])]

\* They are lists of values, the last one that of the current payload.
LEMMA HandedIs ==
    ASSUME NEW V, Holds(V), ApplyInv(V)
    PROVE  /\ Handed \in Seq(Seq(V)) /\ Len(Handed) = Len(versions) /\ Len(versions) \in Nat \ {0}
           /\ Last(Handed) = Lists(heap)[Current]
           /\ \A i \in DOMAIN versions : Handed[i] = Lists(heap)[versions[i]]
           /\ ToSet(Handed) = { Lists(heap)[versions[i]] : i \in DOMAIN versions }
<1>1. /\ versions \in Seq(1 .. Len(heap)) /\ Len(versions) \in Nat \ {0}
      /\ DOMAIN versions = 1 .. Len(versions) /\ Len(versions) \in DOMAIN versions
      /\ Lists(heap) \in [1 .. Len(heap) -> Seq(V)] /\ Current = versions[Len(versions)]
  BY HeapIs DEF ApplyInv
<1>2. Handed = [i \in 1 .. Len(versions) |-> Lists(heap)[versions[i]]]
  BY <1>1 DEF Handed, ReadArray
<1>3. \A i \in 1 .. Len(versions) : Lists(heap)[versions[i]] \in Seq(V)
  <2>1. \A i \in 1 .. Len(versions) : versions[i] \in 1 .. Len(heap)
    BY <1>1, ElementOfSeq
  <2> QED
    BY <1>1, <2>1
<1>4. Handed \in Seq(Seq(V)) /\ Len(Handed) = Len(versions)
  <2> DEFINE S == Seq(V)
             g == [i \in 1 .. Len(versions) |-> Lists(heap)[versions[i]]]
  <2>1. \A i \in 1 .. Len(versions) : Lists(heap)[versions[i]] \in S
    BY <1>3
  <2> HIDE DEF S
  <2>2. g \in Seq(S) /\ Len(g) = Len(versions)
    BY <1>1, <2>1
  <2> QED
    BY <1>2, <2>2 DEF S
<1>5. \A i \in DOMAIN versions : Handed[i] = Lists(heap)[versions[i]]
  BY <1>1, <1>2
<1>6. Last(Handed) = Lists(heap)[Current]
  <2>1. Last(Handed) = Handed[Len(Handed)]
    BY DEF Last
  <2> QED
    BY <1>1, <1>4, <1>5, <2>1
<1>7. ToSet(Handed) = { Lists(heap)[versions[i]] : i \in DOMAIN versions }
  BY <1>1, <1>2 DEF ToSet
<1> QED
  BY <1>1, <1>4, <1>5, <1>6, <1>7

\* They stay while the arrays of the payloads mean what they meant.
LEMMA HandedStays ==
    ASSUME versions' = versions,
           \A i \in DOMAIN versions : Lists(heap')[versions[i]] = Lists(heap)[versions[i]]
    PROVE  Handed' = Handed
  BY DEF Handed, ReadArray

\* The mutations to apply are those recorded, once the difference is taken.
LEMMA PendingIs ==
    /\ walk = <<>> => Pending = ChangesIn(heap, paths, recorded)
    /\ walk # <<>> => Pending = <<>>
  BY DEF Pending, ChangesIn, Mutated, PathOf, PathIn, ReadCell

\* Mutations mean the same where the arrays of their values do.
LEMMA MutationsStay ==
    ASSUME NEW h, NEW g, NEW ps, NEW rec,
           \A i \in DOMAIN rec : IsListCell(rec[i].value) =>
              Lists(g)[rec[i].value.of] = Lists(h)[rec[i].value.of]
    PROVE  ChangesIn(g, ps, rec) = ChangesIn(h, ps, rec)
<1>1. \A i \in DOMAIN rec : ValueOf(g, rec[i].value) = ValueOf(h, rec[i].value)
  BY DEF ValueOf
<1>2. \A i \in DOMAIN rec : Mutated(g, ps, rec[i]) = Mutated(h, ps, rec[i])
  BY <1>1 DEF Mutated
<1> QED
  BY <1>2 DEF ChangesIn

\* The first of them, and the others.
LEMMA FirstMutation ==
    ASSUME NEW V, Holds(V), NEW h, IsHeap(h), Acyclic(h), NEW ps \in Seq(Seq(Nat)),
           NEW rec \in Seq(Entries(h)), \A i \in DOMAIN rec : IsSlice(ps, rec[i].path), rec # <<>>
    PROVE  /\ ChangesIn(h, ps, rec) # <<>>
           /\ rec[1] \in Entries(h) /\ Head(rec) = rec[1] /\ 1 \in DOMAIN rec
           /\ Head(ChangesIn(h, ps, rec)) = Mutated(h, ps, rec[1])
           /\ Tail(rec) \in Seq(Entries(h)) /\ \A i \in DOMAIN Tail(rec) : i + 1 \in DOMAIN rec /\ Tail(rec)[i] = rec[i + 1]
           /\ Tail(ChangesIn(h, ps, rec)) = ChangesIn(h, ps, Tail(rec))
<1> DEFINE c == ChangesIn(h, ps, rec)
           E == Entries(h)
           M == [path : Seq(Nat), value : V]
           n == Len(rec)
<1>1. n \in Nat \ {0} /\ DOMAIN rec = 1 .. n /\ 1 \in DOMAIN rec
  <2>1. rec \in Seq(E) /\ rec # <<>>
    OBVIOUS
  <2> HIDE DEF E
  <2>2. n \in Nat \ {0} /\ DOMAIN rec = 1 .. n
    BY <2>1, EmptySeq, LenProperties
  <2> HIDE DEF n
  <2> QED
    BY <2>2
<1>2. rec[1] \in E /\ Head(rec) = rec[1]
  BY <1>1, ElementOfSeq
<1>3. Tail(rec) \in Seq(E) /\ Len(Tail(rec)) = n - 1 /\ \A i \in 1 .. n - 1 : Tail(rec)[i] = rec[i + 1]
  <2>1. rec \in Seq(E) /\ rec # <<>>
    OBVIOUS
  <2> HIDE DEF E
  <2> QED
    BY <2>1, HeadTailProperties
<1>4. c \in Seq(M) /\ Len(c) = n /\ DOMAIN c = DOMAIN rec /\ \A i \in DOMAIN rec : c[i] = Mutated(h, ps, rec[i])
  BY ChangesTyped
<1>5. c # <<>> /\ Head(c) = Mutated(h, ps, rec[1])
  <2> HIDE DEF c, M, n
  <2> QED
    BY <1>1, <1>4, EmptySeq, SMTT(20)
<1>6. Tail(c) \in Seq(M) /\ Len(Tail(c)) = n - 1 /\ \A i \in 1 .. n - 1 : Tail(c)[i] = c[i + 1]
  <2> HIDE DEF c, M
  <2>1. /\ Tail(c) \in Seq(M) /\ Len(Tail(c)) = Len(c) - 1
        /\ \A i \in 1 .. Len(Tail(c)) : Tail(c)[i] = c[i + 1]
    BY <1>4, <1>5, HeadTailProperties
  <2> QED
    BY <1>4, <2>1
<1>7. \A i \in DOMAIN Tail(rec) : i \in 1 .. n - 1 /\ i + 1 \in DOMAIN rec /\ Tail(rec)[i] = rec[i + 1]
  <2>1. DOMAIN Tail(rec) = 1 .. n - 1
    BY <1>3
  <2>2. \A i \in 1 .. n - 1 : i + 1 \in 1 .. n
    <3> HIDE DEF n
    <3> QED
      BY <1>1
  <2> QED
    BY <1>1, <1>3, <2>1, <2>2
<1>8. Tail(c) = ChangesIn(h, ps, Tail(rec))
  <2> DEFINE d == ChangesIn(h, ps, Tail(rec))
  <2>1. \A i \in DOMAIN Tail(rec) : IsSlice(ps, Tail(rec)[i].path)
    BY <1>7
  <2>2. d \in Seq(M) /\ Len(d) = n - 1 /\ \A i \in DOMAIN Tail(rec) : d[i] = Mutated(h, ps, Tail(rec)[i])
    BY <1>3, <2>1, ChangesTyped
  <2>3. DOMAIN Tail(rec) = 1 .. n - 1
    BY <1>3
  <2> HIDE DEF c, d, M, n
  <2>4. \A i \in 1 .. n - 1 : d[i] = Tail(c)[i]
    BY <1>4, <1>6, <1>7, <2>2, <2>3
  <2>5. d = Tail(c)
    BY <1>6, <2>2, <2>4, SeqEqual
  <2> QED
    BY <2>5 DEF d
<1> QED
  BY <1>1, <1>2, <1>3, <1>5, <1>7, <1>8

-----------------------------------------------------------------------------
(* The steps of the abstract specification.                                *)

Wanted == { Lists(payload)[1] : payload \in Payloads }
Strange == { [path |-> m.path, value |-> ValueOf(m.arrays, m.value)] : m \in Foreign }

Stutters == Handed' = Handed /\ Pending' = Pending
Wants ==
    /\ Pending = <<>> /\ Handed' = Handed
    /\ \/ \E after \in Wanted \cup ToSet(Handed) : Pending' = Diff(Last(Handed), after)
       \/ \E mutation \in Strange : Pending' = <<mutation>>
Takes ==
    /\ Pending # <<>> /\ Pending' = Tail(Pending)
    /\ Handed' = IF Applicable(Last(Handed), Head(Pending))
                 THEN Append(Handed, ApplyPath(Last(Handed), Head(Pending)))
                 ELSE Handed

\* Sought in these terms.
LEMMA SoughtIs ==
    ASSUME NEW V, Holds(V), ApplyInv(V)
    PROVE  Sought = Wanted \cup ToSet(Handed)
  BY HandedIs DEF Sought, Wanted

\* The steps of diffInto.
LEMMA DiffSteps ==
    ASSUME NEW V, Holds(V), DiffInv(V), DiffDescends \/ DiffSame \/ DiffRecords
    PROVE  DiffInv(V)' /\ Stutters
<1>1. DiffInv(V)'
  BY DiffDescendsInv, DiffSameInv, DiffRecordsInv
<1>2. walk # <<>> /\ UNCHANGED heapVars
  BY DEF DiffDescends, DiffSame, DiffRecords, InLoop
<1>3. walk' # <<>>
  <2>1. walk \in Seq(Calls(heap))
    BY DEF DiffInv, WalkInv
  <2>2. Further \in Seq(Calls(heap)) /\ Further # <<>>
    BY <1>2, <2>1, CallsAre
  <2>3. \A call : Append(Further, call) # <<>>
    <3> TAKE call
    <3> DEFINE S == Calls(heap) \cup {call}
    <3>1. Further \in Seq(S) /\ call \in S
      <4>1. Calls(heap) \subseteq S
        OBVIOUS
      <4> QED
        BY <2>2, <4>1, SeqMonotonic
    <3> HIDE DEF S
    <3>2. Append(Further, call) \in Seq(S) /\ Len(Append(Further, call)) = Len(Further) + 1 /\ Len(Further) \in Nat
      BY <3>1, AppendProperties, LenProperties
    <3> QED
      BY <3>2
  <2> QED
    BY <2>2, <2>3 DEF DiffDescends, DiffSame, DiffRecords
<1>4. Pending = <<>> /\ Pending' = <<>>
  BY <1>2, <1>3, PendingIs DEF Pending
<1>5. Handed' = Handed
  BY <1>2, HandedStays DEF heapVars
<1> QED
  BY <1>1, <1>4, <1>5 DEF Stutters

\* The last return is where the difference is there.
LEMMA DiffReturnsStep ==
    ASSUME NEW V, Holds(V), DiffInv(V), DiffReturns
    PROVE  DiffInv(V)' /\ (Stutters \/ Wants)
<1>1. /\ walk # <<>> /\ UNCHANGED heapVars /\ paths' = paths /\ recorded' = recorded
      /\ heap' = heap /\ versions' = versions /\ phase' = phase
  BY DEF DiffReturns, heapVars
<1>2. Pending = <<>> /\ Handed' = Handed /\ phase = "idle"
  BY <1>1, PendingIs, HandedStays DEF DiffInv, WalkInv
<1>3. CASE walk' # <<>>
  <2>1. DiffInv(V)'
    BY <1>3, DiffReturnsInv
  <2>2. Pending' = <<>>
    BY <1>3 DEF Pending
  <2> QED
    BY <1>2, <2>1, <2>2 DEF Stutters
<1>4. CASE walk' = <<>>
  <2>1. PICK after \in Sought : IsWhole(heap, paths, recorded, Diff(Lists(heap)[Current], after))
    BY <1>4, DiffReturnsInv
  <2>2. WalkShape(V, heap, paths, walk', recorded)
    BY DiffReturnsInv
  <2>3. ApplyInv(V) /\ ApplyInv(V)'
    BY <1>1, ApplyStays DEF DiffInv
  <2>4. WalkInv(V)'
    <3>1. <<>> \in Seq(Calls(heap))
      OBVIOUS
    <3> QED
      BY <1>1, <1>4, <2>2, <3>1 DEF WalkInv
  <2>5. JobInv'
    BY <1>1, <1>2 DEF JobInv
  <2>6. Pending' = ChangesIn(heap, paths, recorded)
    <3>1. Pending' = ChangesIn(heap', paths', recorded')
      BY <1>4 DEF Pending, ChangesIn, Mutated, PathOf, PathIn, ReadCell
    <3> QED
      BY <1>1, <3>1
  <2>7. Pending' = Diff(Last(Handed), after)
    BY <2>1, <2>3, <2>6, HandedIs DEF IsWhole
  <2>8. after \in Wanted \cup ToSet(Handed)
    BY <2>3, SoughtIs
  <2>9. Wants
    BY <1>2, <2>7, <2>8 DEF Wants
  <2> QED
    BY <2>3, <2>4, <2>5, <2>9 DEF DiffInv
<1> QED
  BY <1>3, <1>4

\* With nothing under way, the invariant is about the call of ApplyPath alone.
LEMMA WaitingIs ==
    ASSUME NEW V, Holds(V), DiffInv(V), Waiting
    PROVE  /\ ApplyInv(V) /\ IsHeap(heap) /\ Acyclic(heap)
           /\ paths \in Seq(Seq(Nat)) /\ Len(paths) \in Nat
           /\ Pending = <<>> /\ phase = "idle" /\ walk = <<>> /\ recorded = <<>>
<1>1. ApplyInv(V) /\ WalkShape(V, heap, paths, walk, recorded)
  BY DEF DiffInv, WalkInv
<1>2. IsHeap(heap) /\ Acyclic(heap)
  BY <1>1, HeapIs DEF ApplyInv
<1>3. paths \in Seq(Seq(Nat)) /\ Len(paths) \in Nat
  BY <1>1, LenProperties DEF WalkShape
<1>4. Pending = <<>>
  <2>1. recorded = <<>>
    BY DEF Waiting
  <2> QED
    BY <2>1 DEF Pending
<1> QED
  BY <1>1, <1>2, <1>3, <1>4 DEF Waiting

\* The calls when Diff has called diffInto.
Started(w, before, after) == w = <<DiffCall(NilPath, before, after)>>

\* A call for the whole of two payloads, before its first pair.
LEMMA WalkBegins ==
    ASSUME NEW V, Holds(V), NEW h, IsHeap(h), Acyclic(h), NEW ps \in Seq(Seq(Nat)),
           NEW before \in DOMAIN h, NEW after \in DOMAIN h,
           NEW w, Started(w, before, after)
    PROVE  /\ w \in Seq(Calls(h)) /\ w # <<>>
           /\ WalkShape(V, h, ps, w, <<>>)
           /\ WalkMeans(V, h, ps, w, <<>>, Diff(Lists(h)[before], Lists(h)[after]))
<1> DEFINE call == DiffCall(NilPath, before, after)
           b == Lists(h)[before]
           a == Lists(h)[after]
<1>1. /\ call \in Calls(h) /\ call.path = NilPath /\ call.before = before /\ call.after = after /\ call.at = 1
  BY DEF DiffCall, NilPath, Calls
<1>2. IsSlice(ps, NilPath) /\ PathIn(ps, NilPath) = <<>> /\ NilPath.len = 0
  BY LenProperties DEF IsSlice, PathIn, NilPath
<1>3. b \in Seq(V) /\ a \in Seq(V) /\ Len(h[before]) \in Nat
  BY CellMeans, CellsOf
<1> HIDE DEF call
<1>4. IsCall(V, h, ps, call)
  <2>1. call.at \in 1 .. Len(h[call.before]) + 1
    BY <1>1, <1>3
  <2> QED
    BY <1>1, <1>2, <2>1 DEF IsCall
<1>5. w = <<call>> /\ Len(w) = 1 /\ w[1] = call
  BY DEF call, Started
<1>6. w \in Seq(Calls(h)) /\ w # <<>>
  BY <1>1, <1>5
<1>7. WalkShape(V, h, ps, w, <<>>)
  <2>1. \A j \in 1 .. Len(w) : w[j] = call /\ j - 1 = 0
    BY <1>5
  <2> QED
    BY <1>1, <1>2, <1>4, <1>5, <2>1 DEF WalkShape
<1>8. PICK left : Settles(V, Pairs(<<>>, b, a), left) /\ Diff(b, a) = Changes(left)
  BY <1>3, DiffSettles DEF Holds
<1>9. Remaining(h, ps, call) = Pairs(<<>>, b, a)
  BY <1>1, <1>2, <1>4, RemainingAll DEF PairsOf
<1> DEFINE none == <<>>
           rest0 == [j \in 0 .. 0 |-> <<>>]
<1>10. Stack(V, h, ps, none, rest0)
  BY DEF Stack
<1>11. PICK rest : /\ Stack(V, h, ps, w, rest)
                   /\ IsConcat(rest[Len(w)], Remaining(h, ps, call), rest0[Len(none)])
  <2>1. Len(w) = Len(none) + 1 /\ w[Len(w)] = call /\ \A j \in 1 .. Len(none) : w[j] = none[j]
    BY <1>5
  <2>2. \A j \in 1 .. Len(none) : SliceStays(ps, ps, none[j].path)
    OBVIOUS
  <2> HIDE DEF none, rest0
  <2> QED
    <3>1. Stack(V, h, ps, none, rest0) /\ ps \in Seq(Seq(Nat)) /\ IsCall(V, h, ps, call)
      BY <1>4, <1>10
    <3>2. \E rest : /\ Stack(V, h, ps, w, rest)
                    /\ IsConcat(rest[Len(w)], Remaining(h, ps, call), rest0[Len(none)])
      BY <2>1, <2>2, <3>1, StackDeeper
    <3> QED
      BY <3>2
<1>12. rest[Len(w)] = Pairs(<<>>, b, a)
  <2> DEFINE p == Pairs(<<>>, b, a)
             S == PairSet(V)
  <2>1. rest[Len(w)] = p \o <<>> /\ p \in Seq(S)
    BY <1>4, <1>9, <1>11, RemainingTyped DEF IsConcat
  <2> HIDE DEF p, S
  <2>2. rest[Len(w)] = p
    BY <2>1, ConcatEmptySeq
  <2> QED
    BY <2>2 DEF p
<1>13. IsConcat(Diff(b, a), ChangesIn(h, ps, <<>>), Changes(left))
  <2>1. ChangesIn(h, ps, <<>>) = <<>>
    BY DEF ChangesIn
  <2>2. Changes(left) \in Seq([path : Path, value : V])
    <3>1. left \in Seq(PairSet(V))
      <4>1. PICK N \in Nat : \E f : Descent(f, N, V, Pairs(<<>>, b, a), left)
        BY <1>8 DEF Settles
      <4>2. PICK f : Descent(f, N, V, Pairs(<<>>, b, a), left)
        BY <4>1
      <4> QED
        BY <4>2 DEF Descent, RoundsOn
    <3> QED
      BY <3>1, ChangesParts DEF Holds
  <2> DEFINE c == Changes(left)
             T == [path : Path, value : V]
  <2>3. c \in Seq(T) /\ Diff(b, a) = c
    BY <1>8, <2>2
  <2> HIDE DEF c, T
  <2>4. c = <<>> \o c
    BY <2>3, ConcatEmptySeq
  <2> QED
    BY <2>1, <2>3, <2>4 DEF IsConcat, c
<1>14. Settles(V, rest[Len(w)], left)
  BY <1>8, <1>12
<1> QED
  BY <1>6, <1>7, <1>11, <1>13, <1>14 DEF WalkMeans

\* What is wanted: a payload that somebody makes, or one handed out before.
Target(p, after) ==
    \/ after = Len(heap) + 1 /\ p \in Payloads
    \/ p = <<>> /\ after \in { versions[i] : i \in DOMAIN versions }

\* Somebody takes a difference.
LEMMA WantStep ==
    ASSUME NEW V, Holds(V), DiffInv(V), Want
    PROVE  DiffInv(V)' /\ Stutters
<1>1. /\ ApplyInv(V) /\ IsHeap(heap) /\ Acyclic(heap) /\ paths \in Seq(Seq(Nat))
      /\ Pending = <<>> /\ recorded = <<>> /\ phase = "idle"
  BY WaitingIs DEF Want
<1>2. paths' = paths /\ recorded' = recorded
  BY DEF Want
<1>3. \E p, after : /\ Made(p) /\ Create(NewArrays(p)) /\ Target(p, after)
                    /\ Started(walk', Current, after)
  <2>1. CASE \E payload \in Payloads :
               /\ Create(NewArrays(payload))
               /\ walk' = <<DiffCall(NilPath, Current, Len(heap) + 1)>>
    <3>1. PICK payload \in Payloads : /\ Create(NewArrays(payload))
                                     /\ walk' = <<DiffCall(NilPath, Current, Len(heap) + 1)>>
      BY <2>1
    <3>2. Made(payload)
      BY DiffHeapAssumption
    <3> WITNESS payload, Len(heap) + 1
    <3> QED
      BY <3>1, <3>2 DEF Target, Started
  <2>2. CASE \E i \in DOMAIN versions :
               /\ Create(<<>>)
               /\ walk' = <<DiffCall(NilPath, Current, versions[i])>>
    <3>1. Made(<<>>) /\ NewArrays(<<>>) = <<>>
      BY DEF Made, NewArrays
    <3> QED
      BY <2>2, <3>1 DEF Target, Started
  <2> QED
    BY <2>1, <2>2 DEF Want
<1>4. PICK p, after : /\ Made(p) /\ Create(NewArrays(p)) /\ Target(p, after)
                      /\ Started(walk', Current, after)
  BY <1>3
<1>5. /\ ApplyInv(V)' /\ Len(heap') = Len(heap) + Len(p) /\ Len(p) \in Nat
      /\ \A a \in DOMAIN heap : Lists(heap')[a] = Lists(heap)[a]
      /\ \A a \in DOMAIN p : Lists(heap')[Len(heap) + a] = Lists(p)[a]
  BY <1>1, <1>4, CreateMeans
<1>6. versions' = versions /\ phase' = "idle" /\ Current' = Current
  BY <1>1, <1>4 DEF Create, Current
<1>7. /\ DOMAIN heap = 1 .. Len(heap) /\ Len(heap) \in Nat /\ Current \in 1 .. Len(heap)
      /\ \A i \in DOMAIN versions : versions[i] \in DOMAIN heap
  BY <1>1, HeapIs, ElementOfSeq DEF ApplyInv
<1>8. IsHeap(heap') /\ Acyclic(heap') /\ DOMAIN heap' = 1 .. Len(heap')
  <2>1. heap' \in Seq(Seq(Cells(1 .. Len(heap')))) /\ Acyclic(heap')
    BY <1>5 DEF ApplyInv, HeapInv, HeapType, WellFormed
  <2>2. DOMAIN heap' = 1 .. Len(heap')
    BY <2>1, LenProperties
  <2> QED
    BY <2>1, <2>2 DEF IsHeap
<1>9. Handed' = Handed
  BY <1>5, <1>6, <1>7, HandedStays
<1>10. after \in DOMAIN heap' /\ Lists(heap')[after] \in Sought'
  <2>1. CASE after = Len(heap) + 1 /\ p \in Payloads
    <3>1. p # <<>>
      BY <2>1, DiffHeapAssumption
    <3>2. 1 \in DOMAIN p /\ Len(p) # 0
      <4>1. \A S : \A s \in Seq(S) : s # <<>> => Len(s) \in Nat \ {0} /\ DOMAIN s = 1 .. Len(s)
        BY EmptySeq, LenProperties
      <4>2. DOMAIN p = 1 .. Len(p) /\ Len(p) \in Nat \ {0}
        BY <1>4, <3>1, <4>1 DEF Made
      <4> QED
        BY <4>2
    <3>3. Lists(heap')[after] = Lists(p)[1]
      BY <1>5, <2>1, <3>2
    <3>4. after \in DOMAIN heap'
      BY <1>5, <1>7, <1>8, <2>1, <3>2
    <3> QED
      BY <2>1, <3>3, <3>4 DEF Sought
  <2>2. CASE p = <<>> /\ after \in { versions[i] : i \in DOMAIN versions }
    <3>1. after \in DOMAIN heap'
      BY <1>5, <1>7, <1>8, <2>2
    <3>2. PICK i \in DOMAIN versions : after = versions[i]
      BY <2>2
    <3> QED
      BY <1>6, <3>1, <3>2 DEF Sought
  <2> QED
    BY <1>4, <2>1, <2>2 DEF Target
<1>11. /\ walk' \in Seq(Calls(heap')) /\ walk' # <<>>
       /\ WalkShape(V, heap', paths, walk', <<>>)
       /\ WalkMeans(V, heap', paths, walk', <<>>, Diff(Lists(heap')[Current], Lists(heap')[after]))
  <2>1. Current \in DOMAIN heap'
    BY <1>5, <1>7, <1>8
  <2> QED
    BY <1>1, <1>4, <1>8, <1>10, <2>1, WalkBegins
<1>12. WalkInv(V)'
  BY <1>1, <1>2, <1>6, <1>10, <1>11 DEF WalkInv
<1>13. JobInv'
  BY <1>6 DEF JobInv
<1>14. Pending' = <<>>
  BY <1>11 DEF Pending
<1> QED
  BY <1>1, <1>5, <1>9, <1>12, <1>13, <1>14 DEF DiffInv, Stutters

\* Somebody has a mutation that is no difference.
LEMMA WantForeignStep ==
    ASSUME NEW V, Holds(V), DiffInv(V), WantForeign
    PROVE  DiffInv(V)' /\ Wants
<1>1. /\ ApplyInv(V) /\ IsHeap(heap) /\ Acyclic(heap) /\ paths \in Seq(Seq(Nat)) /\ Len(paths) \in Nat
      /\ Pending = <<>> /\ walk = <<>> /\ phase = "idle"
  BY WaitingIs DEF WantForeign
<1>2. PICK m \in Foreign :
         /\ Create(NewArrays(m.arrays))
         /\ paths' = Append(paths, m.path)
         /\ recorded' = <<[path |-> [array |-> Len(paths'), len |-> Len(m.path)], value |-> Moved(m.value)]>>
  BY DEF WantForeign
<1>3. walk' = <<>>
  BY <1>1 DEF WantForeign
<1> DEFINE N == Len(paths)
           slice == [array |-> N + 1, len |-> Len(m.path)]
           cell == Moved(m.value)
           entry == [path |-> slice, value |-> cell]
           mutation == [path |-> m.path, value |-> ValueOf(m.arrays, m.value)]
<1>4. m.path \in Seq(Nat) /\ Made(m.arrays) /\ m.value \in Cells(DOMAIN m.arrays) /\ mutation \in Strange
  BY DiffHeapAssumption DEF Strange
<1>5. /\ ApplyInv(V)' /\ Len(heap') = Len(heap) + Len(m.arrays) /\ Len(m.arrays) \in Nat
      /\ \A a \in DOMAIN heap : Lists(heap')[a] = Lists(heap)[a]
      /\ \A a \in DOMAIN m.arrays : Lists(heap')[Len(heap) + a] = Lists(m.arrays)[a]
  BY <1>1, <1>2, <1>4, CreateMeans
<1>6. versions' = versions /\ phase' = "idle"
  BY <1>1, <1>2 DEF Create
<1>7. /\ DOMAIN heap = 1 .. Len(heap) /\ Len(heap) \in Nat
      /\ \A i \in DOMAIN versions : versions[i] \in DOMAIN heap
  BY <1>1, HeapIs, ElementOfSeq DEF ApplyInv
<1>8. IsHeap(heap') /\ Acyclic(heap') /\ DOMAIN heap' = 1 .. Len(heap')
  <2>1. heap' \in Seq(Seq(Cells(1 .. Len(heap')))) /\ Acyclic(heap')
    BY <1>5 DEF ApplyInv, HeapInv, HeapType, WellFormed
  <2>2. DOMAIN heap' = 1 .. Len(heap')
    BY <2>1, LenProperties
  <2> QED
    BY <2>1, <2>2 DEF IsHeap
<1>9. Handed' = Handed
  BY <1>5, <1>6, <1>7, HandedStays
<1>10. Grown(paths, paths', m.path) /\ recorded' = <<entry>>
  <2>1. Len(paths') = N + 1
    BY <1>1, <1>2, <1>4, AppendProperties
  <2> QED
    BY <1>2, <2>1 DEF Grown
<1>11. /\ paths' \in Seq(Seq(Nat)) /\ IsSlice(paths', slice) /\ PathIn(paths', slice) = m.path
  <2>1. /\ Append(paths, m.path) \in Seq(Seq(Nat)) /\ Len(Append(paths, m.path)) = N + 1
        /\ Append(paths, m.path)[N + 1] = m.path
    <3> DEFINE S == Seq(Nat)
    <3>1. paths \in Seq(S) /\ m.path \in S
      BY <1>1, <1>4
    <3> HIDE DEF S
    <3>2. /\ Append(paths, m.path) \in Seq(S) /\ Len(Append(paths, m.path)) = N + 1
          /\ Append(paths, m.path)[N + 1] = m.path
      BY <3>1, AppendProperties
    <3> QED
      BY <3>2 DEF S
  <2>2. paths' \in Seq(Seq(Nat)) /\ Len(paths') = N + 1 /\ paths'[N + 1] = m.path
    BY <1>2, <2>1
  <2>3. slice.array = N + 1 /\ slice.len = Len(m.path) /\ N + 1 # 0 /\ N + 1 \in Nat /\ Len(m.path) \in Nat
    BY <1>1, <1>4, LenProperties
  <2>4. SubSeq(m.path, 1, Len(m.path)) = m.path
    BY <1>4, SubSeqFull
  <2>5. PathIn(paths', slice) = m.path
    BY <2>2, <2>3, <2>4 DEF PathIn
  <2>6. slice \in [array : Nat, len : Nat]
    BY <2>3
  <2> HIDE DEF slice
  <2>7. IsSlice(paths', slice)
    BY <2>2, <2>3, <2>6 DEF IsSlice
  <2> QED
    BY <2>2, <2>5, <2>7
<1>12. cell \in Cells(DOMAIN heap') /\ ValueOf(heap', cell) = ValueOf(m.arrays, m.value)
  <2>1. CASE IsListCell(m.value)
    <3>1. m.value.of \in DOMAIN m.arrays
      BY <1>4, <2>1, PathHeapAssumption DEF Cells, ListCell, IsListCell
    <3>2. DOMAIN m.arrays = 1 .. Len(m.arrays)
      <4>1. m.arrays \in Seq(Seq(Cells(DOMAIN m.arrays)))
        BY <1>4 DEF Made
      <4> QED
        BY <4>1, LenProperties
    <3>3. Len(heap) + m.value.of \in 1 .. Len(heap')
      BY <1>5, <1>7, <3>1, <3>2
    <3>4. cell = ListCell(Len(heap) + m.value.of) /\ IsListCell(cell) /\ cell.of = Len(heap) + m.value.of
      BY <2>1 DEF Moved, ListCell, IsListCell
    <3>5. cell \in Cells(DOMAIN heap')
      BY <1>8, <3>3, <3>4 DEF Cells
    <3>6. Lists(heap')[Len(heap) + m.value.of] = Lists(m.arrays)[m.value.of]
      BY <1>5, <3>1
    <3> QED
      BY <2>1, <3>4, <3>5, <3>6 DEF ValueOf
  <2>2. CASE ~IsListCell(m.value)
    BY <1>4, <2>2 DEF Moved, Cells, ValueOf, ListCell, IsListCell
  <2> QED
    BY <2>1, <2>2
<1>13. slice \in [array : Nat, len : Nat] /\ slice.array # 0
  BY <1>1, <1>11 DEF IsSlice
<1>14. entry \in Entries(heap') /\ entry.path = slice /\ entry.value = cell
  BY <1>12, <1>13 DEF Entries
<1> HIDE DEF slice, cell
<1>15. Mutated(heap', paths', entry) = mutation
  BY <1>11, <1>12, <1>14 DEF Mutated
<1> HIDE DEF entry, mutation
<1>16. Pending' = <<mutation>>
  <2>1. Pending' = ChangesIn(heap', paths', recorded')
    BY <1>3 DEF Pending, ChangesIn, Mutated, PathOf, PathIn, ReadCell
  <2>2. DOMAIN recorded' = 1 .. 1 /\ recorded'[1] = entry
    BY <1>10
  <2>3. ChangesIn(heap', paths', recorded') = [i \in 1 .. 1 |-> mutation]
    <3>1. \A i \in 1 .. 1 : recorded'[i] = entry
      BY <2>2
    <3> QED
      BY <1>15, <2>2, <3>1 DEF ChangesIn
  <2>4. [i \in 1 .. 1 |-> mutation] = <<mutation>>
    OBVIOUS
  <2> QED
    BY <2>1, <2>3, <2>4
<1>17. WalkInv(V)'
  <2>1. recorded' \in Seq(Entries(heap'))
    <3>1. \A S : \A y \in S : <<y>> \in Seq(S)
      OBVIOUS
    <3> QED
      BY <1>10, <1>14, <3>1
  <2>2. \A i \in DOMAIN recorded' : recorded'[i] = entry
    BY <1>10
  <2>3. Len(<<>>) = 0 /\ <<>> \in Seq(Calls(heap'))
    OBVIOUS
  <2>4. WalkShape(V, heap', paths', <<>>, recorded')
    BY <1>11, <1>13, <1>14, <2>1, <2>2, <2>3 DEF WalkShape
  <2> QED
    BY <1>3, <2>3, <2>4 DEF WalkInv
<1>18. JobInv'
  BY <1>6 DEF JobInv
<1> QED
  BY <1>1, <1>4, <1>5, <1>9, <1>16, <1>17, <1>18 DEF DiffInv, Wants

\* ApplyPath is called for the first mutation.
LEMMA ApplyFirstStep ==
    ASSUME NEW V, Holds(V), DiffInv(V), ApplyFirst
    PROVE  DiffInv(V)' /\ Stutters
<1>1. /\ walk = <<>> /\ recorded # <<>> /\ Begin(PathOf(Head(recorded).path), Head(recorded).value)
      /\ paths' = paths /\ walk' = walk /\ recorded' = recorded
  BY DEF ApplyFirst, diffVars
<1>2. /\ ApplyInv(V) /\ WalkShape(V, heap, paths, walk, recorded) /\ IsHeap(heap) /\ Acyclic(heap)
      /\ DOMAIN heap = 1 .. Len(heap) /\ Len(heap) \in Nat
  BY HeapIs DEF DiffInv, WalkInv, ApplyInv
<1>3. /\ paths \in Seq(Seq(Nat)) /\ recorded \in Seq(Entries(heap))
      /\ \A i \in DOMAIN recorded : IsSlice(paths, recorded[i].path)
  BY <1>2 DEF WalkShape
<1>4. recorded[1] \in Entries(heap) /\ Head(recorded) = recorded[1] /\ 1 \in DOMAIN recorded
  BY <1>1, <1>2, <1>3, FirstMutation
<1>5. /\ PathOf(Head(recorded).path) = PathIn(paths, recorded[1].path)
      /\ PathIn(paths, recorded[1].path) \in Seq(Nat)
      /\ Head(recorded).value = recorded[1].value /\ recorded[1].value \in Cells(DOMAIN heap)
  <2>1. PathIn(paths, recorded[1].path) \in Seq(Nat)
    BY <1>3, <1>4, SlicePath
  <2> QED
    BY <1>4, <2>1 DEF PathOf, PathIn, Entries
<1>6. Begin(PathIn(paths, recorded[1].path), recorded[1].value)
  BY <1>1, <1>5
<1>7. ApplyInv(V)'
  BY <1>2, <1>5, <1>6, BeginMeans
<1>8. /\ heap' = heap /\ versions' = versions /\ phase' = "down" /\ base' = Len(heap)
      /\ job'.path = PathIn(paths, recorded[1].path) /\ job'.value = recorded[1].value
  BY <1>6 DEF Begin
<1>9. WalkInv(V)'
  BY <1>1, <1>8 DEF DiffInv, WalkInv
<1>10. JobInv'
  <2>1. ASSUME NEW i \in DOMAIN recorded, IsListCell(recorded[i].value)
        PROVE  recorded[i].value.of <= Len(heap)
    <3>1. recorded[i].value \in Cells(DOMAIN heap)
      <4>1. recorded[i] \in Entries(heap)
        BY <1>3, ElementOfSeq
      <4> QED
        BY <4>1 DEF Entries
    <3>2. recorded[i].value.of \in DOMAIN heap
      BY <2>1, <3>1, PathHeapAssumption DEF Cells, ListCell, IsListCell
    <3> QED
      BY <1>2, <3>2
  <2> QED
    BY <1>1, <1>8, <2>1 DEF JobInv
<1>11. Pending' = Pending
  BY <1>1, <1>8 DEF Pending, PathOf, ReadCell
<1>12. Handed' = Handed
  BY <1>8, HandedStays
<1> QED
  BY <1>7, <1>9, <1>10, <1>11, <1>12 DEF DiffInv, Stutters

\* It works on arrays that no payload and no mutation names.
LEMMA ApplyRunsStep ==
    ASSUME NEW V, Holds(V), DiffInv(V), ApplyRuns
    PROVE  DiffInv(V)' /\ Stutters
<1>1. paths' = paths /\ walk' = walk /\ recorded' = recorded /\ (Copy \/ Write \/ Link)
  BY DEF ApplyRuns, diffVars
<1>2. ApplyInv(V)' /\ \A a \in 1 .. base : Lists(heap')[a] = Lists(heap)[a]
  BY <1>1, CopyMeans, WriteMeans, LinkMeans DEF DiffInv
<1>3. /\ phase # "idle" /\ versions' = versions /\ job' = job /\ base' = base
  BY <1>1 DEF Copy, Write, Link
<1>4. /\ ApplyInv(V) /\ walk = <<>> /\ WalkShape(V, heap, paths, walk, recorded) /\ JobInv
      /\ \A i \in DOMAIN recorded : IsListCell(recorded[i].value) => recorded[i].value.of <= base
  BY <1>3 DEF DiffInv, WalkInv, JobInv
<1>5. /\ DOMAIN heap = 1 .. Len(heap) /\ Len(heap) \in Nat /\ base \in Nat
      /\ versions \in Seq(1 .. Len(heap))
      /\ \A i \in DOMAIN versions : versions[i] <= base
      /\ IsHeap(heap) /\ Acyclic(heap)
  BY <1>3, <1>4, HeapIs DEF ApplyInv, CallShape
<1>6. base \in 0 .. Len(heap') /\ heap' \in Seq(Seq(Cells(1 .. Len(heap')))) /\ DOMAIN heap' = 1 .. Len(heap') /\ Len(heap') \in Nat
  <2>1. base' \in 0 .. Len(heap') /\ heap' \in Seq(Seq(Cells(1 .. Len(heap'))))
    BY <1>2 DEF ApplyInv, HeapInv, HeapType, WellFormed
  <2> QED
    BY <1>3, <2>1, LenProperties
<1>7. \A i \in DOMAIN versions : Lists(heap')[versions[i]] = Lists(heap)[versions[i]]
  <2>1. \A i \in DOMAIN versions : versions[i] \in 1 .. Len(heap)
    BY <1>5, ElementOfSeq
  <2>2. \A i \in DOMAIN versions : versions[i] \in 1 .. base
    BY <1>5, <2>1
  <2> QED
    BY <1>2, <2>2
<1>8. \A i \in DOMAIN recorded :
         /\ recorded[i] \in Entries(heap)
         /\ IsListCell(recorded[i].value) => recorded[i].value.of \in 1 .. base
  <2>1. ASSUME NEW i \in DOMAIN recorded
        PROVE  /\ recorded[i] \in Entries(heap)
               /\ IsListCell(recorded[i].value) => recorded[i].value.of \in 1 .. base
    <3>1. recorded[i] \in Entries(heap)
      BY <1>4, ElementOfSeq DEF WalkShape
    <3>2. recorded[i].value \in Cells(DOMAIN heap)
      BY <3>1 DEF Entries
    <3>3. IsListCell(recorded[i].value) => recorded[i].value.of \in DOMAIN heap
      BY <3>2, PathHeapAssumption DEF Cells, ListCell, IsListCell
    <3> QED
      BY <1>4, <1>5, <3>1, <3>3
  <2> QED
    BY <2>1
<1>9. recorded \in Seq(Entries(heap'))
  <2>1. ASSUME NEW i \in DOMAIN recorded PROVE recorded[i] \in Entries(heap')
    <3>1. recorded[i].value \in Cells(DOMAIN heap')
      <4>1. recorded[i].value \in Cells(DOMAIN heap)
        BY <1>8 DEF Entries
      <4>2. IsListCell(recorded[i].value) => recorded[i].value.of \in DOMAIN heap'
        BY <1>6, <1>8
      <4> QED
        BY <4>1, <4>2 DEF Cells, ListCell, IsListCell
    <3> QED
      BY <1>8, <3>1 DEF Entries
  <2>2. recorded \in Seq(Entries(heap))
    BY <1>4 DEF WalkShape
  <2>3. DOMAIN recorded = 1 .. Len(recorded) /\ Len(recorded) \in Nat
    BY <2>2, LenProperties
  <2>4. \A S, T : \A s \in Seq(S) : (\A i \in 1 .. Len(s) : s[i] \in T) => s \in Seq(T)
    OBVIOUS
  <2> QED
    BY <2>1, <2>2, <2>3, <2>4
<1>10. WalkInv(V)'
  <2>1. WalkShape(V, heap', paths, walk, recorded)
    BY <1>4, <1>9 DEF WalkShape
  <2>2. <<>> \in Seq(Calls(heap'))
    OBVIOUS
  <2> QED
    BY <1>1, <1>4, <2>1, <2>2 DEF WalkInv
<1>11. JobInv'
  BY <1>1, <1>3, <1>4 DEF JobInv
<1>12. Pending' = Pending
  <2>1. /\ Pending = ChangesIn(heap, paths, recorded)
        /\ Pending' = ChangesIn(heap', paths, recorded)
    BY <1>1, <1>4 DEF Pending, ChangesIn, Mutated, PathOf, PathIn, ReadCell
  <2>2. ChangesIn(heap', paths, recorded) = ChangesIn(heap, paths, recorded)
    <3>1. \A i \in DOMAIN recorded : IsListCell(recorded[i].value) =>
             Lists(heap')[recorded[i].value.of] = Lists(heap)[recorded[i].value.of]
      BY <1>2, <1>8
    <3> QED
      BY <3>1, MutationsStay
  <2> QED
    BY <2>1, <2>2
<1>13. Handed' = Handed
  BY <1>3, <1>7, HandedStays
<1> QED
  BY <1>2, <1>10, <1>11, <1>12, <1>13 DEF DiffInv, Stutters

\* The first mutation has been dealt with: the payloads and the mutations left.
LEMMA RecordedShorter ==
    ASSUME NEW V, Holds(V), ApplyInv(V), WalkInv(V), walk = <<>>, recorded # <<>>,
           heap' = heap, paths' = paths, walk' = walk, recorded' = Tail(recorded), phase' = "idle"
    PROVE  /\ WalkInv(V)' /\ JobInv'
           /\ Pending # <<>> /\ Pending' = Tail(Pending)
           /\ Head(Pending) = Mutated(heap, paths, recorded[1])
           /\ Head(recorded) = recorded[1] /\ IsSlice(paths, recorded[1].path)
<1>1. /\ WalkShape(V, heap, paths, walk, recorded) /\ IsHeap(heap) /\ Acyclic(heap)
  BY HeapIs DEF WalkInv, ApplyInv
<1>2. /\ paths \in Seq(Seq(Nat)) /\ recorded \in Seq(Entries(heap))
      /\ \A i \in DOMAIN recorded : IsSlice(paths, recorded[i].path)
  BY <1>1 DEF WalkShape
<1> DEFINE c == ChangesIn(heap, paths, recorded)
           d == ChangesIn(heap, paths, Tail(recorded))
<1>3. /\ c # <<>> /\ Head(recorded) = recorded[1] /\ 1 \in DOMAIN recorded
      /\ Head(c) = Mutated(heap, paths, recorded[1])
      /\ Tail(recorded) \in Seq(Entries(heap))
      /\ \A i \in DOMAIN Tail(recorded) : i + 1 \in DOMAIN recorded /\ Tail(recorded)[i] = recorded[i + 1]
      /\ Tail(c) = d
  BY <1>1, <1>2, FirstMutation
<1>4. Pending = c /\ Pending' = d
  BY DEF Pending, ChangesIn, Mutated, PathOf, PathIn, ReadCell
<1> HIDE DEF c, d
<1>5. WalkInv(V)'
  <2>1. WalkShape(V, heap, paths, walk, Tail(recorded))
    BY <1>1, <1>3 DEF WalkShape
  <2>2. <<>> \in Seq(Calls(heap))
    OBVIOUS
  <2> QED
    BY <2>1, <2>2 DEF WalkInv
<1>6. JobInv'
  BY DEF JobInv
<1> QED
  BY <1>2, <1>3, <1>4, <1>5, <1>6

\* A mutation without a path is refused.
LEMMA ApplyNothingStep ==
    ASSUME NEW V, Holds(V), DiffInv(V), ApplyNothing
    PROVE  DiffInv(V)' /\ Takes
<1>1. /\ phase = "idle" /\ walk = <<>> /\ recorded # <<>> /\ Head(recorded).path.len = 0
      /\ recorded' = Tail(recorded) /\ UNCHANGED heapVars /\ paths' = paths /\ walk' = walk
      /\ heap' = heap /\ versions' = versions /\ phase' = "idle"
  BY DEF ApplyNothing, heapVars
<1>2. ApplyInv(V) /\ WalkInv(V) /\ ApplyInv(V)'
  BY <1>1, ApplyStays DEF DiffInv
<1>3. /\ WalkInv(V)' /\ JobInv' /\ Pending # <<>> /\ Pending' = Tail(Pending)
      /\ Head(Pending) = Mutated(heap, paths, recorded[1])
      /\ Head(recorded) = recorded[1] /\ IsSlice(paths, recorded[1].path)
  BY <1>1, <1>2, RecordedShorter
<1>4. ~Applicable(Last(Handed), Head(Pending))
  <2>1. paths \in Seq(Seq(Nat))
    BY <1>2 DEF WalkInv, WalkShape
  <2>2. PathIn(paths, recorded[1].path) \in Seq(Nat) /\ Len(PathIn(paths, recorded[1].path)) = 0
    BY <1>1, <1>3, <2>1, SlicePath
  <2>3. PathIn(paths, recorded[1].path) = <<>>
    BY <2>2, EmptySeq
  <2>4. Head(Pending).path = <<>>
    BY <1>3, <2>3 DEF Mutated
  <2> QED
    BY <2>4 DEF Applicable
<1>5. Handed' = Handed
  BY <1>1, HandedStays
<1> QED
  BY <1>2, <1>3, <1>4, <1>5 DEF DiffInv, Takes

\* ApplyPath returns the new payload, or an error.
LEMMA ApplyReturnsStep ==
    ASSUME NEW V, Holds(V), DiffInv(V), ApplyReturns
    PROVE  DiffInv(V)' /\ Takes
<1>1. /\ Publish \/ Fail
      /\ recorded' = Tail(recorded) /\ paths' = paths /\ walk' = walk
  BY DEF ApplyReturns
<1>2. ApplyInv(V) /\ WalkInv(V) /\ ApplyInv(V)' /\ heap' = heap
  BY <1>1, ReturnMeans DEF DiffInv
<1>3. phase # "idle" /\ phase' = "idle"
  BY <1>1 DEF Publish, Fail
<1>4. /\ walk = <<>> /\ recorded # <<>>
      /\ job.path = PathIn(paths, recorded[1].path) /\ job.value = recorded[1].value
      /\ job.path # <<>>
  BY <1>3 DEF DiffInv, JobInv, ApplyInv, CallShape
<1>5. /\ WalkInv(V)' /\ JobInv' /\ Pending # <<>> /\ Pending' = Tail(Pending)
      /\ Head(Pending) = Mutated(heap, paths, recorded[1])
  BY <1>1, <1>2, <1>3, <1>4, RecordedShorter
<1>6. Head(Pending).path = job.path /\ Head(Pending).value = ReadCell(job.value)
  BY <1>4, <1>5 DEF Mutated, ReadCell
<1>7. /\ Last(Handed) = Lists(heap)[Current] /\ Handed \in Seq(Seq(V))
      /\ Len(Handed) = Len(versions) /\ Len(versions) \in Nat \ {0}
      /\ \A i \in DOMAIN versions : Handed[i] = Lists(heap)[versions[i]]
  BY <1>2, HandedIs
<1>8. CASE Publish
  <2>1. /\ Reaches(Lists(heap)[Current], job.path) /\ Top.array \in DOMAIN heap
        /\ Lists(heap)[Top.array] = Replace(Lists(heap)[Current], job.path, ReadCell(job.value))
    BY <1>2, <1>8, PublishMeans
  <2>2. Applicable(Last(Handed), Head(Pending))
    BY <1>4, <1>6, <1>7, <2>1 DEF Applicable
  <2>3. Lists(heap)[Top.array] = ApplyPath(Last(Handed), Head(Pending))
    BY <1>6, <1>7, <2>1 DEF ApplyPath
  <2>4. versions' = Append(versions, Top.array)
    BY <1>8 DEF Publish
  <2>5. Handed' = Append(Handed, Lists(heap)[Top.array])
    <3> DEFINE S == Seq(V)
               n == Len(versions)
               new == Lists(heap)[Top.array]
               N == 1 .. Len(heap)
    <3>2. /\ versions \in Seq(N) /\ n \in Nat /\ Top.array \in N /\ new \in S
          /\ Lists(heap) \in [N -> S]
      BY <1>2, <2>1, HeapIs DEF ApplyInv
    <3>8. Handed' = [i \in DOMAIN versions' |-> Lists(heap)[versions'[i]]]
      BY <1>2 DEF Handed, ReadArray
    <3> HIDE DEF S, new, N
    <3>3. /\ versions' \in Seq(N) /\ Len(versions') = n + 1 /\ versions'[n + 1] = Top.array
          /\ \A i \in 1 .. n : versions'[i] = versions[i]
      BY <2>4, <3>2, AppendProperties
    <3>1. /\ Handed' \in Seq(S) /\ Len(Handed') = n + 1
          /\ \A i \in DOMAIN versions' : Handed'[i] = Lists(heap)[versions'[i]]
      <4>1. DOMAIN versions' = 1 .. n + 1 /\ n + 1 \in Nat
        BY <3>2, <3>3, LenProperties
      <4>2. \A i \in 1 .. n + 1 : Lists(heap)[versions'[i]] \in S
        <5>1. \A i \in 1 .. n + 1 : versions'[i] \in N
          BY <3>3, ElementOfSeq
        <5> QED
          BY <3>2, <5>1
      <4> DEFINE g == [i \in 1 .. n + 1 |-> Lists(heap)[versions'[i]]]
                 k == n + 1
      <4>3. g = Handed'
        BY <3>8, <4>1
      <4>4. g \in Seq(S) /\ Len(g) = k
        <5>1. \A i \in 1 .. k : Lists(heap)[versions'[i]] \in S
          BY <4>2
        <5>2. k \in Nat
          BY <4>1
        <5> HIDE DEF k
        <5> QED
          BY <5>1, <5>2 DEF k
      <4> QED
        BY <3>8, <4>3, <4>4
    <3>4. /\ Append(Handed, new) \in Seq(S) /\ Len(Append(Handed, new)) = n + 1
          /\ Append(Handed, new)[n + 1] = new
          /\ \A i \in 1 .. n : Append(Handed, new)[i] = Handed[i]
      <4>1. Handed \in Seq(S) /\ Len(Handed) = n
        BY <1>7 DEF S
      <4> QED
        BY <3>2, <4>1, AppendProperties
    <3>5. DOMAIN versions' = 1 .. n + 1 /\ DOMAIN versions = 1 .. n
      BY <3>2, <3>3, LenProperties
    <3> HIDE DEF n
    <3>6. \A i \in 1 .. n + 1 : Handed'[i] = Append(Handed, new)[i]
      <4>1. \A i \in 1 .. n + 1 : i \in 1 .. n \/ i = n + 1
        BY <3>2
      <4>2. \A i \in 1 .. n : i \in 1 .. n + 1
        BY <3>2
      <4>3. n + 1 \in 1 .. n + 1
        BY <3>2
      <4>4. \A i \in 1 .. n : Handed'[i] = Append(Handed, new)[i]
        <5> TAKE i \in 1 .. n
        <5>1. i \in DOMAIN versions' /\ i \in DOMAIN versions
          BY <3>5, <4>2
        <5>2. Handed'[i] = Lists(heap)[versions[i]]
          BY <3>1, <3>3, <5>1
        <5>3. Handed[i] = Lists(heap)[versions[i]]
          BY <1>7, <5>1
        <5> QED
          BY <3>4, <5>2, <5>3
      <4>5. Handed'[n + 1] = Append(Handed, new)[n + 1]
        BY <3>1, <3>3, <3>4, <3>5, <4>3 DEF new
      <4> QED
        BY <4>1, <4>4, <4>5
    <3>7. Handed' = Append(Handed, new)
      BY <3>1, <3>3, <3>4, <3>6, SeqEqual
    <3> QED
      BY <3>7 DEF new
  <2> QED
    BY <1>2, <1>5, <2>2, <2>3, <2>5 DEF DiffInv, Takes
<1>9. CASE Fail
  <2>1. ~Reaches(Lists(heap)[Current], job.path)
    BY <1>2, <1>9, FailMeans
  <2>2. ~Applicable(Last(Handed), Head(Pending))
    BY <1>6, <1>7, <2>1 DEF Applicable
  <2>3. Handed' = Handed
    BY <1>2, <1>9, HandedStays DEF Fail
  <2> QED
    BY <1>2, <1>5, <2>2, <2>3 DEF DiffInv, Takes
<1> QED
  BY <1>1, <1>8, <1>9

-----------------------------------------------------------------------------
(* Every step is one of the abstract specification, or none.               *)

\* At first the one payload is handed out and there is nothing to apply.
LEMMA DiffInit ==
    ASSUME NEW V, Holds(V), Init
    PROVE  DiffInv(V) /\ HeapInit /\ Handed \in { <<w>> : w \in Wanted } /\ Pending = <<>>
<1>1. /\ heap \in Payloads /\ versions = <<1>> /\ phase = "idle"
      /\ job = [path |-> <<>>, value |-> ListCell(1)] /\ base = 0 /\ frames = <<>>
      /\ paths = <<>> /\ walk = <<>> /\ recorded = <<>>
  BY DEF Init
<1>2. Made(heap) /\ heap # <<>>
  BY <1>1, DiffHeapAssumption
<1>3. IsHeap(heap) /\ Acyclic(heap)
  BY <1>2, MadeIsHeap
<1>4. WellFormed /\ 1 \in DOMAIN heap
  <2>1. DOMAIN heap = 1 .. Len(heap) /\ Len(heap) \in Nat /\ Len(heap) # 0
    BY <1>2, <1>3, LenProperties, EmptySeq DEF IsHeap
  <2> QED
    BY <1>3, <2>1 DEF WellFormed, IsHeap
<1>5. HeapInit
  BY <1>1, <1>4 DEF HeapInit
<1>6. HeapInv
  BY <1>5, HeapInitInv
<1>7. CallShape
  <2>1. Len(frames) = 0
    BY <1>1
  <2>2. Unnamed(heap, base, 0)
    <3>1. base + 1 .. base + 0 = {}
      BY <1>1
    <3> QED
      BY <3>1 DEF Unnamed
  <2> QED
    BY <1>1, <2>1, <2>2 DEF CallShape
<1>8. ApplyInv(V)
  BY <1>1, <1>3, <1>6, <1>7 DEF ApplyInv, CallValue
<1>9. WalkInv(V)
  <2>1. paths \in Seq(Seq(Nat)) /\ recorded \in Seq(Entries(heap)) /\ walk \in Seq(Calls(heap)) /\ Len(walk) = 0
        /\ DOMAIN recorded = {}
    BY <1>1
  <2> QED
    BY <1>1, <2>1 DEF WalkInv, WalkShape
<1>10. DiffInv(V)
  BY <1>1, <1>8, <1>9 DEF DiffInv, JobInv
<1>11. Handed = <<Lists(heap)[1]>>
  <2>1. DOMAIN versions = {1} /\ versions[1] = 1
    BY <1>1
  <2> QED
    BY <2>1 DEF Handed, ReadArray
<1>12. Lists(heap)[1] \in Wanted
  BY <1>1 DEF Wanted
<1>13. Pending = <<>>
  BY <1>1 DEF Pending
<1> QED
  BY <1>5, <1>10, <1>11, <1>12, <1>13

\* Nothing changes.
LEMMA NothingHappens ==
    ASSUME NEW V, DiffInv(V), UNCHANGED vars
    PROVE  DiffInv(V)' /\ Stutters
<1>1. /\ UNCHANGED heapVars /\ heap' = heap /\ versions' = versions /\ phase' = phase /\ job' = job
      /\ base' = base /\ paths' = paths /\ walk' = walk /\ recorded' = recorded
  BY DEF vars, heapVars
<1>2. ApplyInv(V)'
  BY <1>1, ApplyStays DEF DiffInv
<1>3. WalkInv(V)'
  BY <1>1 DEF DiffInv, WalkInv, Sought, Current
<1>4. JobInv'
  BY <1>1 DEF DiffInv, JobInv
<1>5. Handed' = Handed
  BY <1>1, HandedStays
<1>6. Pending' = Pending
  BY <1>1 DEF Pending, PathOf, ReadCell
<1> QED
  BY <1>2, <1>3, <1>4, <1>5, <1>6 DEF DiffInv, Stutters

\* What a step does to the payloads handed out and the mutations to apply.
LEMMA DiffStep ==
    ASSUME NEW V, Holds(V), DiffInv(V), [Next]_vars
    PROVE  DiffInv(V)' /\ (Stutters \/ Wants \/ Takes)
<1>1. CASE Want
  BY <1>1, WantStep
<1>2. CASE WantForeign
  BY <1>2, WantForeignStep
<1>3. CASE DiffDescends \/ DiffSame \/ DiffRecords
  BY <1>3, DiffSteps
<1>4. CASE DiffReturns
  BY <1>4, DiffReturnsStep
<1>5. CASE ApplyFirst
  BY <1>5, ApplyFirstStep
<1>6. CASE ApplyNothing
  BY <1>6, ApplyNothingStep
<1>7. CASE ApplyRuns
  BY <1>7, ApplyRunsStep
<1>8. CASE ApplyReturns
  BY <1>8, ApplyReturnsStep
<1>9. CASE Finished \/ UNCHANGED vars
  BY <1>9, NothingHappens DEF Finished
<1> QED
  BY <1>1, <1>2, <1>3, <1>4, <1>5, <1>6, <1>7, <1>8, <1>9 DEF Next

\* And what it does to the heap, PathHeap knows: ApplyPath may be called so.
LEMMA DiffStepsHeap ==
    ASSUME NEW V, Holds(V), DiffInv(V), [Next]_vars
    PROVE  [HeapNext]_heapVars
<1>0. ApplyInv(V) /\ WalkInv(V)
  BY DEF DiffInv
<1>1. ASSUME NEW p, Made(p), Create(NewArrays(p))
      PROVE  HeapNext
  <2>1. NewArrays(p) \in Seq(Seq(Cells(Nat))) /\ WellFormed'
    BY <1>0, <1>1, CreateMeans
  <2> QED
    BY <1>1, <2>1 DEF HeapNext
<1>2. Made(<<>>) /\ NewArrays(<<>>) = <<>>
  BY DEF Made, NewArrays
<1>3. CASE Want
  BY <1>1, <1>2, <1>3, DiffHeapAssumption DEF Want
<1>4. CASE WantForeign
  BY <1>1, <1>4, DiffHeapAssumption DEF WantForeign
<1>5. CASE DiffDescends \/ DiffSame \/ DiffRecords \/ DiffReturns \/ ApplyNothing
  BY <1>5 DEF DiffDescends, DiffSame, DiffRecords, DiffReturns, ApplyNothing
<1>6. CASE ApplyFirst
  <2>1. /\ recorded # <<>> /\ Begin(PathOf(Head(recorded).path), Head(recorded).value)
    BY <1>6 DEF ApplyFirst
  <2>2. /\ recorded \in Seq(Entries(heap)) /\ paths \in Seq(Seq(Nat))
        /\ \A i \in DOMAIN recorded : IsSlice(paths, recorded[i].path)
    BY <1>0 DEF WalkInv, WalkShape
  <2>3. Head(recorded) \in Entries(heap) /\ Head(recorded) = recorded[1] /\ 1 \in DOMAIN recorded
    <3> DEFINE E == Entries(heap)
    <3>1. recorded \in Seq(E) /\ recorded # <<>>
      BY <2>1, <2>2
    <3> HIDE DEF E
    <3>2. Head(recorded) \in E /\ Head(recorded) = recorded[1] /\ 1 \in DOMAIN recorded
      BY <3>1, EmptySeq, LenProperties, ElementOfSeq
    <3> QED
      BY <3>2 DEF E
  <2>4. PathIn(paths, Head(recorded).path) \in Seq(Nat)
    BY <2>2, <2>3, SlicePath
  <2>5. PathOf(Head(recorded).path) \in Seq(Nat)
    BY <2>4 DEF PathOf, PathIn
  <2>6. Head(recorded).value \in Cells(1 .. Len(heap))
    <3>1. DOMAIN heap = 1 .. Len(heap)
      BY <1>0, HeapIs DEF ApplyInv
    <3> QED
      BY <2>3, <3>1 DEF Entries
  <2> QED
    BY <2>1, <2>5, <2>6 DEF HeapNext
<1>7. CASE ApplyRuns \/ ApplyReturns
  BY <1>7 DEF ApplyRuns, ApplyReturns, HeapNext
<1>8. CASE Finished \/ UNCHANGED vars
  BY <1>8 DEF Finished, vars
<1> QED
  BY <1>3, <1>4, <1>5, <1>6, <1>7, <1>8 DEF Next

-----------------------------------------------------------------------------
(* The operators of the abstract specification are those of Values.        *)

\* Flattening.
LEMMA PayloadFlatten == \A s : Payload!FlattenSeq(s) = FlattenSeq(s)
  BY DEF Payload!FlattenSeq, FlattenSeq

\* The last element and the set of all.
LEMMA PayloadLast == \A s : Payload!Last(s) = Last(s) /\ Payload!ToSet(s) = ToSet(s)
  BY DEF Payload!Last, Last, Payload!ToSet, ToSet

\* The comparison.
LEMMA PayloadEqual == \A l, r : Payload!Equal(l, r) = Equal(l, r)
  BY DEF Payload!Equal, Payload!SameNode, Payload!SameScalar, Payload!ScalarKinds, Payload!IsList,
         Payload!Levels, Payload!Inside, Payload!Depth, Payload!FlattenSeq,
         Equal, SameNode, SameScalar, ScalarKinds, IsList, Levels, Inside, Depth, FlattenSeq

\* The pairs that diffInto compares.
LEMMA PayloadCompared == \A l, r : Payload!Compared(l, r) = Compared(l, r)
  BY DEF Payload!Compared, Payload!Descended, Payload!Descends, Payload!Pairs, Payload!IsList,
         Payload!Levels, Payload!Inside, Payload!Depth, Payload!FlattenSeq,
         Compared, Descended, Descends, Pairs, IsList, Levels, Inside, Depth, FlattenSeq

\* Whether a mutation can be applied.
LEMMA PayloadApplicable == \A l, m : Payload!Applicable(l, m) = Applicable(l, m)
  BY DEF Payload!Applicable, Payload!Reaches, Payload!Walk, Payload!ListAt, Payload!InRange,
         Payload!IsList, Applicable, Reaches, Walk, ListAt, InRange, IsList

\* And what it makes.
LEMMA PayloadApply == \A l, m : Payload!ApplyPath(l, m) = ApplyPath(l, m)
  BY DEF Payload!ApplyPath, Payload!Replace, Payload!Walk, Payload!ListAt, Payload!InRange,
         Payload!IsList, Payload!List, ApplyPath, Replace, Walk, ListAt, InRange, IsList, List

\* The difference.
LEMMA PayloadDiff == \A before, after : Payload!Diff(before, after) = Diff(before, after)
<1>3. \A pairs : Payload!Changes(pairs) = Changes(pairs)
  <2> TAKE pairs
  <2> DEFINE f == [i \in DOMAIN pairs |->
                    IF Payload!Equal(pairs[i].before, pairs[i].after)
                    THEN <<>>
                    ELSE <<[path |-> pairs[i].path, value |-> pairs[i].after]>>]
             g == [i \in DOMAIN pairs |->
                    IF Equal(pairs[i].before, pairs[i].after)
                    THEN <<>>
                    ELSE <<[path |-> pairs[i].path, value |-> pairs[i].after]>>]
  <2>1. f = g
    BY PayloadEqual
  <2>2. Payload!FlattenSeq(f) = FlattenSeq(g)
    BY <2>1, PayloadFlatten
  <2> QED
    BY <2>2 DEF Payload!Changes, Changes
<1> QED
  BY <1>3, PayloadCompared DEF Payload!Diff, Diff

-----------------------------------------------------------------------------
(* The refinement.                                                         *)

PayloadStep == [Payload!PayloadNext]_(Payload!payloadVars)

\* The steps, in the words of the abstract specification.
LEMMA StepIsPayload == Stutters \/ Wants \/ Takes => PayloadStep
<1>1. Stutters => PayloadStep
  BY DEF Stutters, PayloadStep, Payload!payloadVars, Handed
<1>2. Wants => Payload!Want
  BY PayloadDiff, PayloadLast DEF Wants, Payload!Want, Handed, Wanted, Strange
<1>3. Takes => Payload!Take
  BY PayloadApplicable, PayloadApply, PayloadLast DEF Takes, Payload!Take, Handed
<1> QED
  BY <1>1, <1>2, <1>3 DEF PayloadStep, Payload!PayloadNext

\* Diff and ApplyPath on shared arrays are Diff and ApplyPath on values: what was
\* recorded is the difference, whatever shares an array with it by then, and
\* each mutation applied makes of the last payload what it says.
THEOREM DiffIsPayload ==
    ASSUME NEW V, Holds(V)
    PROVE  Spec => ImplementsPayload
<1>1. Init => DiffInv(V) /\ Payload!PayloadInit
  <2>1. ASSUME Init PROVE DiffInv(V) /\ Payload!PayloadInit
    BY <2>1, DiffInit DEF Payload!PayloadInit, Handed, Wanted
  <2> QED
    BY <2>1
<1>2. DiffInv(V) /\ [Next]_vars => DiffInv(V)' /\ PayloadStep
  BY DiffStep, StepIsPayload
<1> QED
  BY <1>1, <1>2, PTL DEF Spec, ImplementsPayload, Payload!PayloadSpec, PayloadStep

\* DiffHeap calls ApplyPath as PathHeap says it may be called.
THEOREM DiffUsesHeap ==
    ASSUME NEW V, Holds(V)
    PROVE  Spec => HeapSpec
<1>1. Init => DiffInv(V) /\ HeapInit
  BY DiffInit
<1>2. DiffInv(V) /\ [Next]_vars => DiffInv(V)' /\ [HeapNext]_heapVars
  BY DiffStep, DiffStepsHeap
<1> QED
  BY <1>1, <1>2, PTL DEF Spec, HeapSpec

\* So no payload that was handed out changes while others are compared with it,
\* changed and made (path.go, "The input is never modified").
THEOREM DiffKeepsPublished ==
    ASSUME NEW V, Holds(V)
    PROVE  Spec => PublishedNeverChanges
  BY DiffUsesHeap, PublishedStays
=============================================================================
