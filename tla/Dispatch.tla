------------------------------- MODULE Dispatch ------------------------------
(***************************************************************************)
(* One emission of a plugin-defined event, from the emitter to the host,   *)
(* from subscriber to subscriber, and back into the emitter's object.      *)
(* Every hop crosses the conversions of src/ipc/convert.go; subscribers    *)
(* answer with abi.Diff, the host accepts a mutation by MutablePath and    *)
(* applies it with abi.ApplyPath, as the emitter does with the answer.     *)
(*                                                                         *)
(* The loop of the host, the handlers of the subscribers and their crashes *)
(* are outside the repository: the actions named host or subscriber below  *)
(* are modelled from the contract in src/abi/v1/envelope.proto.            *)
(***************************************************************************)
EXTENDS Values

CONSTANTS
    Payloads,     \* the field lists a plugin may publish or turn a view into
    Foreign,      \* the mutations of a runtime built against another layout
    Mutable,      \* EventDefinition.Fields: is each field declared mutable
    Subscribers,  \* how many subscriptions the event has
    FailClosed    \* EventDefinition.FailClosed

ASSUME DispatchAssumption ==
    /\ Mutable \in Seq(BOOLEAN)
    /\ Subscribers \in Nat
    /\ FailClosed \in BOOLEAN

VARIABLES
    stage,      \* where the emission stands
    sent,       \* the fields the emitter published, and keeps
    current,    \* the host's copy, as the subscribers have left it
    turn,       \* the next subscription to run
    view,       \* the fields the running subscriber decoded
    answer,     \* the mutations of its verdict
    untouched,  \* its handlers changed nothing
    cancelled,
    replayed    \* the emitter's object after the replay

vars == <<stage, sent, current, turn, view, answer, untouched, cancelled, replayed>>

Stages == {"start", "refused", "emitted", "host", "subscriber", "verdict",
           "answered", "unanswered", "done"}

TypeOK ==
    /\ stage \in Stages
    /\ turn \in 1 .. Subscribers + 1
    /\ untouched \in BOOLEAN /\ cancelled \in BOOLEAN
    /\ \A i \in DOMAIN answer : DOMAIN answer[i] = {"path", "value"}
    /\ stage \notin {"start", "refused", "emitted"} => Len(current) = Len(sent)

Init ==
    /\ stage = "start"
    /\ sent = <<>> /\ current = <<>> /\ view = <<>> /\ replayed = <<>>
    /\ turn = 1
    /\ answer = <<>>
    /\ untouched = FALSE /\ cancelled = FALSE

\* An emission is of a plugin, and of an event that is not native.
Emittable(plugin, typeId) == plugin # "" /\ typeId # 0

\* EncodeEmission: what cannot be encoded never leaves the emitter.
Emit ==
    /\ stage = "start"
    /\ \E fields \in Payloads, plugin \in {"", "shop"}, typeId \in 0 .. 1 :
         /\ sent' = fields
         /\ stage' = IF Emittable(plugin, typeId) /\ AllPass(fields) THEN "emitted" ELSE "refused"
    /\ UNCHANGED <<current, turn, view, answer, untouched, cancelled, replayed>>

\* The host decodes the emission.
HostAccepts ==
    /\ stage = "emitted"
    /\ current' = sent
    /\ stage' = "host"
    /\ UNCHANGED <<sent, turn, view, answer, untouched, cancelled, replayed>>

\* A subscriber that did not answer: skipped, or the event is cancelled.
Skip ==
    /\ turn' = turn + 1
    /\ cancelled' = (cancelled \/ FailClosed)
    /\ stage' = "host"

\* Subscriptions are left to run.
MoreSubscribers == turn <= Subscribers

\* EncodeEvent and DecodeEvent.  An event whose fields do not encode any more
\* reaches no subscriber.
DispatchNext ==
    /\ stage = "host"
    /\ MoreSubscribers
    /\ \/ /\ AllPass(current)
          /\ view' = current
          /\ stage' = "subscriber"
          /\ UNCHANGED <<turn, cancelled>>
       \/ /\ ~AllPass(current)
          /\ Skip
          /\ UNCHANGED view
    /\ UNCHANGED <<sent, current, answer, untouched, replayed>>

\* The handlers turn the view into some payload; the runtime sends the
\* difference, unless EncodeVerdict refuses a value of it.
SubscriberAnswers ==
    /\ stage = "subscriber"
    /\ \E fields \in Payloads \cup {view} :
         /\ answer' = Diff(view, fields)
         /\ untouched' = (fields = view)
         /\ stage' = IF MutationsPass(answer') THEN "verdict" ELSE "unanswered"
    /\ UNCHANGED <<sent, current, turn, view, cancelled, replayed>>

\* A runtime of another version sends a mutation of its own making.
ForeignAnswers ==
    /\ stage = "subscriber"
    /\ \E mutation \in Foreign :
         /\ answer' = <<mutation>>
         /\ stage' = IF MutationsPass(answer') THEN "verdict" ELSE "unanswered"
    /\ untouched' = FALSE
    /\ UNCHANGED <<sent, current, turn, view, cancelled, replayed>>

\* The subscriber does not answer in time, or its verdict does not decode.
HostGivesUp ==
    /\ stage \in {"subscriber", "unanswered"}
    /\ Skip
    /\ UNCHANGED <<sent, current, view, answer, untouched, replayed>>

\* EventDefinition.MutablePath.
MutablePath_anyDepth(path) == path # <<>> /\ path[1] < Len(Mutable)
MutablePath(path) ==
    /\ path # <<>>
    /\ path[1] < Len(Mutable)
    /\ Len(path) > 1 \/ Mutable[path[1] + 1]

Accepts(fields, mutation) == MutablePath(mutation.path) /\ Applicable(fields, mutation)

\* The mutations of one answer, in order; what is refused is skipped.
Taken(fields, mutation) ==
    IF Accepts(fields, mutation) THEN ApplyPath(fields, mutation) ELSE fields
ApplyAll(fields, mutations) ==
    LET applied[n \in 0 .. Len(mutations)] ==
            IF n = 0 THEN fields ELSE Taken(applied[n - 1], mutations[n])
    IN  applied[Len(mutations)]

\* The host applies a verdict, or drops one it has to refuse a part of.
HostApplies ==
    /\ stage = "verdict"
    /\ \E veto \in BOOLEAN : cancelled' = (cancelled \/ veto)
    /\ \/ current' = ApplyAll(current, answer)
       \/ /\ \E i \in DOMAIN answer : ~Accepts(current, answer[i])
          /\ UNCHANGED current
    /\ turn' = turn + 1
    /\ stage' = "host"
    /\ UNCHANGED <<sent, view, answer, untouched, replayed>>

\* EncodeEmissionResult: what the subscribers changed, as a difference against
\* the fields that were sent.
HostAnswers ==
    /\ stage = "host"
    /\ ~MoreSubscribers
    /\ answer' = Diff(sent, current)
    /\ stage' = IF MutationsPass(answer') THEN "answered" ELSE "refused"
    /\ UNCHANGED <<sent, current, turn, view, untouched, cancelled, replayed>>

\* The emitter decodes the result and replays it into what it published.
Replay ==
    /\ stage = "answered"
    /\ \A i \in DOMAIN answer : Applicable(sent, answer[i])
    /\ replayed' = ApplyEach(sent, answer)
    /\ stage' = "done"
    /\ UNCHANGED <<sent, current, turn, view, answer, untouched, cancelled>>

Terminated == stage \in {"refused", "done"} /\ UNCHANGED vars

Next ==
    \/ Emit \/ HostAccepts \/ DispatchNext \/ SubscriberAnswers \/ ForeignAnswers
    \/ HostGivesUp \/ HostApplies \/ HostAnswers \/ Replay \/ Terminated

Spec == Init /\ [][Next]_vars
-----------------------------------------------------------------------------
(* Properties.                                                             *)

\* The replay leaves the emitter with the fields the host ended on, as if the
\* subscribers had run in its own process (envelope.proto:362): at every depth
\* the same, but for the sign of a zero.  A field that went from 0.0 to 1 and
\* on to -0.0 is 0.0 again for the emitter, because Equal compares with ==.
ReplayReproduces == stage = "done" => Alike(replayed, current)

\* A field the provider did not declare mutable keeps its value; only what is
\* inside such a field, when it is a list, may be replaced, so it stays a list
\* of the same length (manifest.go, MutablePath).
ReadOnlyFieldsKept ==
    stage \notin {"start", "refused", "emitted"} =>
        \A i \in DOMAIN sent :
            i > Len(Mutable) \/ ~Mutable[i] =>
                IF IsList(sent[i])
                THEN IsList(current[i]) /\ Len(current[i].of) = Len(sent[i].of)
                ELSE current[i] = sent[i]

\* A subscriber whose handlers changed nothing sends no mutation (value.go:35,
\* never "report a field nobody touched as changed on every single dispatch"),
\* but for a double that is NaN: Equal compares it with ==.
UntouchedSendsNothing ==
    stage = "verdict" /\ untouched =>
        \A i \in DOMAIN answer : answer[i].value = Scalar("double", NaN)

\* The host's answer holds one mutation per place that differs and none deeper
\* could do: no path is a prefix of another, so their order does not matter,
\* and no list is sent whole for a change inside it (value.go, Diff).
DeepestChangesOnly ==
    stage \in {"answered", "done"} =>
        /\ \A i, j \in DOMAIN answer :
              i # j => ~IsPrefix(answer[i].path, answer[j].path)
        /\ \A i \in DOMAIN answer :
              LET old == ValueAt(sent, answer[i].path)
                  new == answer[i].value
              IN  ~(IsList(old) /\ IsList(new) /\ Len(old.of) = Len(new.of))
=============================================================================
