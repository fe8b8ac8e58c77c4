--------------------------- MODULE DispatchProofs ----------------------------
(***************************************************************************)
(* What Dispatch promises, for any payloads, any mutations of a foreign    *)
(* runtime, any layout and any number of subscribers: the emitter's object *)
(* ends as the host's copy did, but for the sign of a zero, read-only      *)
(* fields keep their values, and what is sent is the difference Equal sees *)
(* and no more.                                                            *)
(***************************************************************************)
EXTENDS Dispatch, ValuesProofs

\* Payloads and foreign mutations are of values of V.
Positional(V) ==
    /\ Universe(V)
    /\ Payloads \subseteq Seq(V)
    /\ Foreign \subseteq [path : Seq(Nat), value : V]

\* Mutations as they arrive: their paths may be empty or lead nowhere.
Received(V, mutations) ==
    /\ Len(mutations) \in Nat
    /\ DOMAIN mutations = 1 .. Len(mutations)
    /\ \A i \in 1 .. Len(mutations) : mutations[i] \in [path : Seq(Nat), value : V]

\* The read-only fields of old are the ones new has, but for what is inside.
ReadOnlyKept(old, new) ==
    \A i \in DOMAIN old :
        i > Len(Mutable) \/ ~Mutable[i] =>
            IF IsList(old[i])
            THEN IsList(new[i]) /\ Len(new[i].of) = Len(old[i].of)
            ELSE new[i] = old[i]

Delivered == stage \notin {"start", "refused", "emitted"}

FieldsTyped(V) ==
    /\ sent \in Seq(V) /\ current \in Seq(V) /\ view \in Seq(V) /\ replayed \in Seq(V)
    /\ Received(V, answer)

Underway ==
    /\ stage \in Stages
    /\ turn \in 1 .. Subscribers + 1
    /\ stage \in {"subscriber", "verdict", "unanswered"} => MoreSubscribers
    /\ untouched \in BOOLEAN /\ cancelled \in BOOLEAN

HostCopy == Delivered => Len(current) = Len(sent) /\ ReadOnlyKept(sent, current)

AnswerIsDifference == stage \in {"answered", "done"} => answer = Diff(sent, current)

DispatchInv(V) ==
    /\ FieldsTyped(V)
    /\ Underway
    /\ HostCopy
    /\ AnswerIsDifference
    /\ UntouchedSendsNothing
    /\ ReplayReproduces

-----------------------------------------------------------------------------
(* The mutations of a verdict.                                             *)

\* A field that MutablePath protects stays as it is, or a list of its length.
LEMMA TakenKeeps ==
    ASSUME NEW V, Universe(V), NEW old \in Seq(V), NEW fields \in Seq(V),
           Len(fields) = Len(old), ReadOnlyKept(old, fields),
           NEW mutation \in [path : Seq(Nat), value : V]
    PROVE  /\ Taken(fields, mutation) \in Seq(V)
           /\ Len(Taken(fields, mutation)) = Len(old)
           /\ ReadOnlyKept(old, Taken(fields, mutation))
<1> DEFINE q == mutation.path
           new == Replace(fields, q, mutation.value)
<1>1. CASE ~Accepts(fields, mutation)
  BY <1>1 DEF Taken
<1>2. CASE Accepts(fields, mutation)
  <2>1. /\ q \in Path /\ mutation.value \in V /\ Reaches(fields, q)
        /\ q[1] < Len(Mutable) /\ (Len(q) > 1 \/ Mutable[q[1] + 1])
    BY <1>2 DEF Accepts, Applicable, MutablePath, Path
  <2>2. Taken(fields, mutation) = new
    BY <1>2 DEF Taken, ApplyPath
  <2>3. q \in Seq(Nat) /\ Len(q) \in Nat /\ Len(q) # 0 /\ q[1] \in Nat /\ 1 \in 1 .. Len(q)
    BY <2>1 DEF Path
  <2>4. new \in Seq(V) /\ Len(new) = Len(fields)
    BY <2>1, ReplaceTyped
  <2> HIDE DEF q
  <2>5. ASSUME NEW i \in DOMAIN old, i > Len(Mutable) \/ ~Mutable[i]
        PROVE  IF IsList(old[i])
               THEN IsList(new[i]) /\ Len(new[i].of) = Len(old[i].of)
               ELSE new[i] = old[i]
    <3> DEFINE p == Append(<<>>, i - 1)
    <3>1. i \in DOMAIN fields /\ i \in DOMAIN new /\ i - 1 \in Nat /\ (i - 1) + 1 = i
      BY <2>4
    <3>2. p \in Path /\ Reaches(fields, p) /\ ValueAt(fields, p) = fields[i]
      BY <3>1, OneIndex
    <3> HIDE DEF new
    <3>3. ValueAt(new, p) = new[i]
      BY <2>4, <3>1, OneIndex
    <3>4. Len(p) = 1 /\ p[1] = i - 1
      OBVIOUS
    <3> HIDE DEF p
    <3>5. IF IsList(old[i])
          THEN IsList(fields[i]) /\ Len(fields[i].of) = Len(old[i].of)
          ELSE fields[i] = old[i]
      BY <2>5 DEF ReadOnlyKept
    <3>6. CASE q[1] # i - 1
      <4>1. Diverge(p, q)
        <5>1. 1 \in 1 .. Len(p) /\ 1 <= Len(q) /\ p[1] # q[1] /\ 1 .. 1 - 1 = {}
          BY <2>3, <3>4, <3>6
        <5> QED
          BY <5>1 DEF Diverge
      <4>2. ValueAt(new, p) = ValueAt(fields, p)
        BY <2>1, <3>2, <4>1, ReplaceElsewhere DEF new
      <4> QED
        BY <3>2, <3>3, <3>5, <4>2
    <3>7. CASE q[1] = i - 1
      <4>1. q[1] + 1 = i
        BY <3>1, <3>7
      <4>2. Len(Mutable) \in Nat
        BY DispatchAssumption
      <4>3. i <= Len(Mutable)
        BY <2>1, <3>1, <3>7, <4>2
      <4>4. ~(i > Len(Mutable))
        BY <3>1, <4>2, <4>3
      <4>5. Len(q) > 1
        BY <2>1, <2>5, <4>1, <4>4
      <4>6. Above(p, q)
        <5>1. Len(p) < Len(q) /\ \A k \in 1 .. Len(p) : p[k] = q[k]
          BY <3>4, <3>7, <4>5
        <5> QED
          BY <5>1 DEF Above
      <4>7. /\ IsList(fields[i]) /\ IsList(new[i])
            /\ Len(new[i].of) = Len(fields[i].of)
        BY <2>1, <3>2, <3>3, <4>6, ReplaceInside DEF new
      <4> QED
        BY <3>5, <4>7
    <3> QED
      BY <3>6, <3>7
  <2>6. ReadOnlyKept(old, new)
    BY <2>5 DEF ReadOnlyKept
  <2> HIDE DEF new
  <2> QED
    BY <2>2, <2>4, <2>6
<1> QED
  BY <1>1, <1>2

\* So it does when the mutations of a verdict are taken one after the other.
LEMMA ApplyAllKeeps ==
    ASSUME NEW V, Universe(V), NEW old \in Seq(V), NEW fields \in Seq(V),
           Len(fields) = Len(old), ReadOnlyKept(old, fields),
           NEW mutations, Received(V, mutations)
    PROVE  /\ ApplyAll(fields, mutations) \in Seq(V)
           /\ Len(ApplyAll(fields, mutations)) = Len(old)
           /\ ReadOnlyKept(old, ApplyAll(fields, mutations))
<1> DEFINE N == Len(mutations)
           S == { s \in Seq(V) : Len(s) = Len(old) /\ ReadOnlyKept(old, s) }
           next == [n \in 1 .. N |-> [s \in S |-> Taken(s, mutations[n])]]
           rec == CHOOSE f : f = [n \in 0 .. N |->
                                    IF n = 0 THEN fields ELSE Taken(f[n - 1], mutations[n])]
<1>1. N \in Nat /\ \A n \in 1 .. N : mutations[n] \in [path : Seq(Nat), value : V]
  BY DEF Received
<1>2. fields \in S
  OBVIOUS
<1>3. \A s \in S, n \in 1 .. N : Taken(s, mutations[n]) \in S
  <2> HIDE DEF N
  <2> SUFFICES ASSUME NEW s \in Seq(V), Len(s) = Len(old), ReadOnlyKept(old, s), NEW n \in 1 .. N
               PROVE Taken(s, mutations[n]) \in S
    OBVIOUS
  <2> QED
    BY <1>1, TakenKeeps
<1>4. ApplyAll(fields, mutations) = rec[N]
  BY DEF ApplyAll
<1>5. rec = CHOOSE f : f = [n \in 0 .. N |->
                              IF n = 0 THEN fields ELSE Taken(f[n - 1], mutations[n])]
  OBVIOUS
<1> HIDE DEF S, N
<1>6. PICK f : Iterated(f, N, S, fields, next)
  <2>1. next \in [1 .. N -> [S -> S]]
    BY <1>3
  <2> HIDE DEF next
  <2> QED
    BY <1>1, <1>2, <2>1, Iterates
<1>7. /\ f \in [0 .. N -> S] /\ f[0] = fields
      /\ \A n \in 1 .. N : f[n] = Taken(f[n - 1], mutations[n])
  <2>1. /\ f \in [0 .. N -> S] /\ f[0] = fields
        /\ \A n \in 1 .. N : f[n] = next[n][f[n - 1]]
    BY <1>6 DEF Iterated
  <2>2. \A n \in 1 .. N : n - 1 \in 0 .. N
    BY <1>1
  <2> QED
    BY <2>1, <2>2
<1> HIDE DEF next, rec
<1>8. f = [n \in 0 .. N |-> IF n = 0 THEN fields ELSE Taken(f[n - 1], mutations[n])]
  <2>1. \A n \in 0 .. N : f[n] = IF n = 0 THEN fields ELSE Taken(f[n - 1], mutations[n])
    BY <1>1, <1>7
  <2>2. f = [n \in 0 .. N |-> f[n]]
    BY <1>7
  <2> QED
    BY <2>1, <2>2
<1>9. rec = [n \in 0 .. N |-> IF n = 0 THEN fields ELSE Taken(rec[n - 1], mutations[n])]
  BY <1>5, <1>8
<1> DEFINE T == { n \in 0 .. N : rec[n] = f[n] }
<1>10. 0 \in T
  <2>1. 0 \in 0 .. N
    BY <1>1
  <2>2. rec[0] = fields
    BY <1>9, <2>1
  <2> QED
    BY <1>7, <2>1, <2>2
<1>11. ASSUME NEW n \in 0 .. N - 1, n \in T PROVE n + 1 \in T
  <2>1. n + 1 \in 1 .. N /\ n + 1 \in 0 .. N /\ n + 1 # 0 /\ (n + 1) - 1 = n
    BY <1>1
  <2>2. f[n + 1] = Taken(f[n], mutations[n + 1])
    BY <1>7, <2>1
  <2>3. rec[n + 1] = Taken(rec[n], mutations[n + 1])
    BY <1>9, <2>1
  <2> QED
    BY <1>11, <2>1, <2>2, <2>3
<1> HIDE DEF T
<1>12. 0 .. N \subseteq T
  BY <1>1, <1>10, <1>11, UpTo
<1>13. rec[N] = f[N] /\ f[N] \in S
  <2>1. N \in 0 .. N
    BY <1>1
  <2> QED
    BY <1>7, <1>12, <2>1 DEF T
<1>14. ApplyAll(fields, mutations) \in S
  BY <1>4, <1>13
<1> QED
  BY <1>14 DEF S

\* What Diff answers can be sent, and applies to what it was made from.
LEMMA DiffIsReceived ==
    ASSUME NEW V, Universe(V), NEW before \in Seq(V), NEW after \in Seq(V)
    PROVE  /\ Received(V, Diff(before, after))
           /\ \A i \in DOMAIN Diff(before, after) : Applicable(before, Diff(before, after)[i])
<1> DEFINE changes == Diff(before, after)
<1>1. Difference(V, before, changes)
  BY DiffIs
<1> HIDE DEF changes
<1>2. /\ Len(changes) \in Nat /\ DOMAIN changes = 1 .. Len(changes)
      /\ \A i \in DOMAIN changes :
            /\ changes[i] = [path |-> changes[i].path, value |-> changes[i].value]
            /\ changes[i].path \in Path /\ changes[i].value \in V
            /\ Reaches(before, changes[i].path)
  BY <1>1 DEF Difference, Mutations
<1>3. Received(V, changes)
  BY <1>2 DEF Received, Path
<1>4. \A i \in DOMAIN changes : Applicable(before, changes[i])
  BY <1>2 DEF Applicable, Path
<1> QED
  BY <1>3, <1>4 DEF changes

-----------------------------------------------------------------------------
(* The inductive invariant.                                                *)

\* It holds of an emission that has not started.
LEMMA DispatchStarts ==
    ASSUME NEW CONSTANT V, Positional(V), Init
    PROVE  DispatchInv(V)
<1>1. <<>> \in Seq(V)
  BY EmptySeq
<1>2. FieldsTyped(V)
  BY <1>1 DEF FieldsTyped, Received, Init
<1>3. Underway
  <2>1. Subscribers \in Nat /\ 1 \in 1 .. Subscribers + 1
    BY DispatchAssumption
  <2> QED
    BY <2>1 DEF Init, Underway, Stages
<1>4. HostCopy /\ AnswerIsDifference /\ UntouchedSendsNothing /\ ReplayReproduces
  BY DEF Init, HostCopy, Delivered, AnswerIsDifference, UntouchedSendsNothing, ReplayReproduces
<1> QED
  BY <1>2, <1>3, <1>4 DEF DispatchInv

\* Every step keeps it.
LEMMA DispatchSteps ==
    ASSUME NEW CONSTANT V, Positional(V), DispatchInv(V), [Next]_vars
    PROVE  DispatchInv(V)'
<1> USE DEF DispatchInv
<1>1. /\ Universe(V) /\ Payloads \subseteq Seq(V)
      /\ Foreign \subseteq [path : Seq(Nat), value : V]
  BY DEF Positional
<1>2. Subscribers \in Nat /\ FailClosed \in BOOLEAN
  BY DispatchAssumption
<1>3. CASE Emit
  <2>1. FieldsTyped(V)'
    BY <1>1, <1>3 DEF Emit, FieldsTyped, Received
  <2>2. Underway'
    BY <1>3 DEF Emit, Underway, Stages, MoreSubscribers
  <2>3. HostCopy' /\ AnswerIsDifference' /\ UntouchedSendsNothing' /\ ReplayReproduces'
    BY <1>3 DEF Emit, HostCopy, Delivered, AnswerIsDifference, UntouchedSendsNothing, ReplayReproduces
  <2> QED
    BY <2>1, <2>2, <2>3
<1>4. CASE HostAccepts
  <2>1. FieldsTyped(V)'
    BY <1>4 DEF HostAccepts, FieldsTyped, Received
  <2>2. Underway'
    BY <1>4 DEF HostAccepts, Underway, Stages, MoreSubscribers
  <2>3. HostCopy'
    BY <1>4 DEF HostAccepts, HostCopy, ReadOnlyKept
  <2>4. AnswerIsDifference' /\ UntouchedSendsNothing' /\ ReplayReproduces'
    BY <1>4 DEF HostAccepts, AnswerIsDifference, UntouchedSendsNothing, ReplayReproduces
  <2> QED
    BY <2>1, <2>2, <2>3, <2>4
<1>5. CASE DispatchNext
  <2>1. FieldsTyped(V)'
    BY <1>5 DEF DispatchNext, FieldsTyped, Received
  <2>2. Underway'
    BY <1>2, <1>5 DEF DispatchNext, Skip, Underway, Stages, MoreSubscribers
  <2>3. HostCopy'
    BY <1>5 DEF DispatchNext, Skip, HostCopy, Delivered, ReadOnlyKept
  <2>4. AnswerIsDifference' /\ UntouchedSendsNothing' /\ ReplayReproduces'
    BY <1>5 DEF DispatchNext, Skip, AnswerIsDifference, UntouchedSendsNothing, ReplayReproduces
  <2> QED
    BY <2>1, <2>2, <2>3, <2>4
<1>6. CASE SubscriberAnswers
  <2>1. PICK fields \in Payloads \cup {view} :
           /\ answer' = Diff(view, fields)
           /\ untouched' = (fields = view)
           /\ stage' = IF MutationsPass(answer') THEN "verdict" ELSE "unanswered"
    BY <1>6 DEF SubscriberAnswers
  <2>2. view \in Seq(V) /\ fields \in Seq(V)
    BY <1>1 DEF FieldsTyped
  <2>3. Received(V, Diff(view, fields))
    BY <1>1, <2>2, DiffIsReceived
  <2>4. view = fields => \A i \in DOMAIN Diff(view, fields) :
           Diff(view, fields)[i].value = Scalar("double", NaN)
    BY <1>1, <2>2, DiffIs
  <2>5. FieldsTyped(V)'
    BY <1>6, <2>1, <2>3 DEF SubscriberAnswers, FieldsTyped, Received
  <2>6. Underway'
    BY <1>6, <2>1 DEF SubscriberAnswers, Underway, Stages, MoreSubscribers
  <2>7. HostCopy'
    BY <1>6, <2>1 DEF SubscriberAnswers, HostCopy, Delivered, ReadOnlyKept
  <2>8. UntouchedSendsNothing'
    BY <2>1, <2>4 DEF UntouchedSendsNothing
  <2>9. AnswerIsDifference' /\ ReplayReproduces'
    BY <2>1 DEF AnswerIsDifference, ReplayReproduces
  <2> QED
    BY <2>5, <2>6, <2>7, <2>8, <2>9
<1>7. CASE ForeignAnswers
  <2>1. PICK mutation \in Foreign :
           /\ answer' = <<mutation>>
           /\ stage' = IF MutationsPass(answer') THEN "verdict" ELSE "unanswered"
    BY <1>7 DEF ForeignAnswers
  <2>2. Received(V, <<mutation>>)
    BY <1>1 DEF Received
  <2>3. FieldsTyped(V)'
    BY <1>7, <2>1, <2>2 DEF ForeignAnswers, FieldsTyped, Received
  <2>4. Underway'
    BY <1>7, <2>1 DEF ForeignAnswers, Underway, Stages, MoreSubscribers
  <2>5. HostCopy'
    BY <1>7, <2>1 DEF ForeignAnswers, HostCopy, Delivered, ReadOnlyKept
  <2>6. AnswerIsDifference' /\ UntouchedSendsNothing' /\ ReplayReproduces'
    BY <1>7, <2>1 DEF ForeignAnswers, AnswerIsDifference, UntouchedSendsNothing, ReplayReproduces
  <2> QED
    BY <2>3, <2>4, <2>5, <2>6
<1>8. CASE HostGivesUp
  <2>1. FieldsTyped(V)'
    BY <1>8 DEF HostGivesUp, FieldsTyped, Received
  <2>2. Underway'
    BY <1>2, <1>8 DEF HostGivesUp, Skip, Underway, Stages, MoreSubscribers
  <2>3. HostCopy'
    BY <1>8 DEF HostGivesUp, Skip, HostCopy, Delivered, ReadOnlyKept
  <2>4. AnswerIsDifference' /\ UntouchedSendsNothing' /\ ReplayReproduces'
    BY <1>8 DEF HostGivesUp, Skip, AnswerIsDifference, UntouchedSendsNothing, ReplayReproduces
  <2> QED
    BY <2>1, <2>2, <2>3, <2>4
<1>9. CASE HostApplies
  <2>1. /\ sent \in Seq(V) /\ current \in Seq(V) /\ Received(V, answer)
        /\ Len(current) = Len(sent) /\ ReadOnlyKept(sent, current)
    BY <1>9 DEF HostApplies, FieldsTyped, HostCopy, Delivered
  <2>2. /\ ApplyAll(current, answer) \in Seq(V)
        /\ Len(ApplyAll(current, answer)) = Len(sent)
        /\ ReadOnlyKept(sent, ApplyAll(current, answer))
    BY <1>1, <2>1, ApplyAllKeeps
  <2>3. current' = ApplyAll(current, answer) \/ current' = current
    BY <1>9 DEF HostApplies
  <2>4. current' \in Seq(V) /\ Len(current') = Len(sent) /\ ReadOnlyKept(sent, current')
    BY <2>1, <2>2, <2>3
  <2>5. FieldsTyped(V)'
    BY <1>9, <2>4 DEF HostApplies, FieldsTyped, Received
  <2>6. Underway'
    BY <1>2, <1>9 DEF HostApplies, Underway, Stages, MoreSubscribers
  <2>7. HostCopy'
    BY <1>9, <2>4 DEF HostApplies, HostCopy, ReadOnlyKept
  <2>8. AnswerIsDifference' /\ UntouchedSendsNothing' /\ ReplayReproduces'
    BY <1>9 DEF HostApplies, AnswerIsDifference, UntouchedSendsNothing, ReplayReproduces
  <2> QED
    BY <2>5, <2>6, <2>7, <2>8
<1>10. CASE HostAnswers
  <2>1. Received(V, Diff(sent, current))
    BY <1>1, DiffIsReceived DEF FieldsTyped
  <2>2. FieldsTyped(V)'
    BY <1>10, <2>1 DEF HostAnswers, FieldsTyped, Received
  <2>3. Underway'
    BY <1>10 DEF HostAnswers, Underway, Stages, MoreSubscribers
  <2>4. HostCopy'
    BY <1>10 DEF HostAnswers, HostCopy, Delivered, ReadOnlyKept
  <2>5. AnswerIsDifference'
    BY <1>10 DEF HostAnswers, AnswerIsDifference
  <2>6. UntouchedSendsNothing' /\ ReplayReproduces'
    BY <1>10 DEF HostAnswers, UntouchedSendsNothing, ReplayReproduces
  <2> QED
    BY <2>2, <2>3, <2>4, <2>5, <2>6
<1>11. CASE Replay
  <2>1. stage = "answered" /\ answer = Diff(sent, current) /\ Len(sent) = Len(current)
    BY <1>11 DEF Replay, AnswerIsDifference, HostCopy, Delivered
  <2>2. ApplyEach(sent, answer) \in Seq(V) /\ Alike(ApplyEach(sent, answer), current)
    BY <1>1, <2>1, DiffApplies DEF FieldsTyped
  <2>3. FieldsTyped(V)'
    BY <1>11, <2>2 DEF Replay, FieldsTyped, Received
  <2>4. Underway'
    BY <1>11 DEF Replay, Underway, Stages, MoreSubscribers
  <2>5. HostCopy'
    BY <1>11 DEF Replay, HostCopy, Delivered, ReadOnlyKept
  <2>6. AnswerIsDifference'
    BY <1>11, <2>1 DEF Replay, AnswerIsDifference
  <2>7. UntouchedSendsNothing' /\ ReplayReproduces'
    BY <1>11, <2>2 DEF Replay, UntouchedSendsNothing, ReplayReproduces
  <2> QED
    BY <2>3, <2>4, <2>5, <2>6, <2>7
<1>12. CASE UNCHANGED vars
  BY <1>12 DEF vars, FieldsTyped, Received, Underway, MoreSubscribers, HostCopy, Delivered,
     ReadOnlyKept, AnswerIsDifference, UntouchedSendsNothing, ReplayReproduces
<1>13. CASE Terminated
  BY <1>12, <1>13 DEF Terminated
<1> QED
  BY <1>3, <1>4, <1>5, <1>6, <1>7, <1>8, <1>9, <1>10, <1>11, <1>12, <1>13 DEF Next

\* The invariant of an emission: the host's copy has the fields that were sent,
\* with the read-only ones kept, and the answer is the difference between them.
THEOREM DispatchInvariant ==
    ASSUME NEW CONSTANT V, Positional(V)
    PROVE  Spec => []DispatchInv(V)
<1>1. Init => DispatchInv(V)
  BY DispatchStarts
<1>2. DispatchInv(V) /\ [Next]_vars => DispatchInv(V)'
  BY DispatchSteps
<1> QED
  BY <1>1, <1>2, PTL DEF Spec

-----------------------------------------------------------------------------
(* What it says.                                                           *)

\* The types, the turns of the subscribers, and the number of fields.
THEOREM DispatchTypes ==
    ASSUME NEW CONSTANT V, Positional(V)
    PROVE  Spec => []TypeOK
<1>1. DispatchInv(V) => TypeOK
  <2> SUFFICES ASSUME DispatchInv(V) PROVE TypeOK
    OBVIOUS
  <2>1. \A i \in DOMAIN answer : DOMAIN answer[i] = {"path", "value"}
    BY DEF DispatchInv, FieldsTyped, Received
  <2> QED
    BY <2>1 DEF DispatchInv, Underway, HostCopy, Delivered, TypeOK
<1> QED
  BY <1>1, DispatchInvariant, PTL

\* A field the provider did not declare mutable keeps its value, whatever the
\* subscribers and the runtimes of other versions answer, but for what is inside
\* it when it is a list (manifest.go, MutablePath).
THEOREM ReadOnlyFieldsAreKept ==
    ASSUME NEW CONSTANT V, Positional(V)
    PROVE  Spec => []ReadOnlyFieldsKept
<1>1. DispatchInv(V) => ReadOnlyFieldsKept
  BY DEF DispatchInv, HostCopy, Delivered, ReadOnlyKept, ReadOnlyFieldsKept
<1> QED
  BY <1>1, DispatchInvariant, PTL

\* The emitter's object ends as the host's copy did, at every depth, but for the
\* sign of a zero, which == does not see (value.go:50): Diff answers enough, and
\* ApplyPath in the order of the answer makes it so (value.go, path.go).
THEOREM ReplayIsAlike ==
    ASSUME NEW CONSTANT V, Positional(V)
    PROVE  Spec => []ReplayReproduces
<1>1. DispatchInv(V) => ReplayReproduces
  BY DEF DispatchInv
<1> QED
  BY <1>1, DispatchInvariant, PTL

\* Where the payloads and the mutations have no two zeros that are not the same,
\* the emitter's object is the host's copy, value by value.
THEOREM ReplayIsExact ==
    ASSUME NEW CONSTANT V, Positional(V), OneZero(V)
    PROVE  Spec => [](stage = "done" => replayed = current)
<1>1. DispatchInv(V) => (stage = "done" => replayed = current)
  BY AlikeIsSame DEF DispatchInv, FieldsTyped, ReplayReproduces, Positional
<1> QED
  BY <1>1, DispatchInvariant, PTL

\* A subscriber that changed nothing sends no mutation, but for a double that is
\* NaN (value.go, Equal).
THEOREM UntouchedIsSilent ==
    ASSUME NEW CONSTANT V, Positional(V)
    PROVE  Spec => []UntouchedSendsNothing
<1>1. DispatchInv(V) => UntouchedSendsNothing
  BY DEF DispatchInv
<1> QED
  BY <1>1, DispatchInvariant, PTL

\* The answer has no mutation inside another and none that could be made deeper
\* (value.go, Diff).
THEOREM AnswerIsDeepest ==
    ASSUME NEW CONSTANT V, Positional(V)
    PROVE  Spec => []DeepestChangesOnly
<1>1. DispatchInv(V) => DeepestChangesOnly
  <2> SUFFICES ASSUME DispatchInv(V), stage \in {"answered", "done"}
               PROVE  /\ \A i, j \in DOMAIN answer :
                            i # j => ~IsPrefix(answer[i].path, answer[j].path)
                      /\ \A i \in DOMAIN answer :
                            LET old == ValueAt(sent, answer[i].path)
                                new == answer[i].value
                            IN  ~(IsList(old) /\ IsList(new) /\ Len(old.of) = Len(new.of))
    BY DEF DeepestChangesOnly
  <2>1. sent \in Seq(V) /\ current \in Seq(V) /\ answer = Diff(sent, current) /\ Universe(V)
    BY DEF DispatchInv, FieldsTyped, AnswerIsDifference, Positional
  <2>2. Difference(V, sent, answer)
    BY <2>1, DiffIs
  <2>3. /\ \A i \in DOMAIN answer : answer[i].path \in Seq(Nat)
        /\ \A i, j \in DOMAIN answer : i # j => Diverge(answer[i].path, answer[j].path)
        /\ \A i \in DOMAIN answer : ~Descends(ValueAt(sent, answer[i].path), answer[i].value)
    BY <2>2 DEF Difference, Mutations, Path
  <2>4. ASSUME NEW i \in DOMAIN answer, NEW j \in DOMAIN answer, i # j
        PROVE  ~IsPrefix(answer[i].path, answer[j].path)
    BY <2>3, <2>4, DivergeNoPrefix
  <2> QED
    BY <2>3, <2>4 DEF Descends
<1> QED
  BY <1>1, DispatchInvariant, PTL

\* The guard of Replay never fails: the emitter can apply every mutation of the
\* answer to the fields it sent.
AnswerApplies ==
    stage = "answered" => \A i \in DOMAIN answer : Applicable(sent, answer[i])

\* So no emission that was answered ends with an error of ApplyPath.
THEOREM AnswerNeverRefused ==
    ASSUME NEW CONSTANT V, Positional(V)
    PROVE  Spec => []AnswerApplies
<1>1. DispatchInv(V) => AnswerApplies
  <2> SUFFICES ASSUME DispatchInv(V), stage = "answered"
               PROVE \A i \in DOMAIN answer : Applicable(sent, answer[i])
    BY DEF AnswerApplies
  <2>1. sent \in Seq(V) /\ current \in Seq(V) /\ answer = Diff(sent, current) /\ Universe(V)
    BY DEF DispatchInv, FieldsTyped, AnswerIsDifference, Positional
  <2> QED
    BY <2>1, DiffIsReceived
<1> QED
  BY <1>1, DispatchInvariant, PTL
=============================================================================
