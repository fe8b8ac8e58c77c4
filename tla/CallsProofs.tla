----------------------------- MODULE CallsProofs -----------------------------
(***************************************************************************)
(* What Calls promises, for every manifest, table of ids and list of       *)
(* effects: what a handler reads is what the host wrote, a failed          *)
(* subscriber counts as its policy says, and effects are queued whole.     *)
(***************************************************************************)
EXTENDS Calls, RecursionLemmas

\* The effects a handler may ask for, one by one.
Effects == UNION { ToSet(effects) : effects \in EffectLists }

\* What is injected for a player that holds these nodes.
InjectedFor(held) ==
    LET union == PermissionUnion(Blocks)
    IN  [i \in DOMAIN union |-> Pair(union[i], union[i] \in held)]

\* No binding has the id of the native events, or no name.
TableInv == \A i \in DOMAIN table : Bindable(table[i])

\* The call as the host means it and the message the runtime is to read.
EventOnWire ==
    \E id \in EventIds, policy \in 0 .. 3, fields \in FieldLists :
        /\ message = Event(id, policy, fields)
        /\ call = [kind |-> "event", event |-> EventName(id),
                   policy |-> Named(WirePolicyNames, policy)]

InvokeOnWire ==
    /\ message = Invoke(message.types, message.values, message.player, message.permissions)
    /\ message.types \in Seq(Int)
    /\ call = [kind |-> "invoke",
               types |-> [i \in DOMAIN message.types |-> Named(WireTypeNames, message.types[i])],
               held |-> call.held, foreign |-> call.foreign]
    /\ call.foreign \in BOOLEAN
    /\ ~call.foreign => message.permissions = InjectedFor(call.held)

SentInv == stage = "sent" => EventOnWire \/ InvokeOnWire

\* The call and what the runtime has read of it.
EventRead ==
    \E id \in EventIds, policy \in 0 .. 1, fields \in FieldLists :
        /\ read = Event(id, policy, fields)
        /\ call = [kind |-> "event", event |-> EventName(id),
                   policy |-> PolicyNames[policy + 1]]

InvokeRead ==
    /\ read.kind = "invoke" /\ call.kind = "invoke"
    /\ call.types = [i \in DOMAIN read.types |-> Named(TypeNames, read.types[i])]
    /\ call.foreign \in BOOLEAN
    /\ ~call.foreign => read.permissions = InjectedFor(call.held)

ReadInv == stage = "running" => EventRead \/ InvokeRead

Pending == {"sent", "running", "silent"}

\* How far the host and the runtime have come with a call.
DecisionInv ==
    /\ stage \in Pending \cup {"replied"} /\ outcome # "waiting" => outcome = ByPolicy
    /\ stage \in Pending => said = <<>> /\ (outcome = "waiting" => ~failed)
    /\ stage = "replied" =>
          /\ message = Reply(message.cancelled, message.mutations, message.effects)
          /\ message.effects \in Seq(Effects)
          /\ outcome = "waiting" =>
                IF failed
                THEN message.effects = <<>> /\ Verdict(message.cancelled) = ByPolicy
                ELSE message.effects = said
    /\ failed \in BOOLEAN
    /\ queue \in Seq(Effects)

CallsInv == TableInv /\ SentInv /\ ReadInv /\ DecisionInv /\ FailClosedHolds

-----------------------------------------------------------------------------
(* The enumerations.                                                       *)

\* A policy that EncodeFailurePolicy accepts has the same name on the wire.
LEMMA PolicyEncoded ==
    ASSUME NEW p \in 0 .. 1
    PROVE  /\ EncodeFailurePolicy[p] \in 0 .. 3
           /\ Named(WirePolicyNames, EncodeFailurePolicy[p]) = Named(PolicyNames, p)
BY SMT DEF EncodeFailurePolicy, Named, WirePolicyNames, PolicyNames

\* A policy that DecodeFailurePolicy accepts has the same name in the ABI.
LEMMA PolicyDecoded ==
    ASSUME NEW p \in 1 .. 2
    PROVE  /\ DecodeFailurePolicy[p] \in 0 .. 1
           /\ PolicyNames[DecodeFailurePolicy[p] + 1] = Named(WirePolicyNames, p)
BY SMT DEF DecodeFailurePolicy, Named, WirePolicyNames, PolicyNames

\* The same for the types of arguments, in both directions.
LEMMA TypeConverted ==
    ASSUME NEW t \in 1 .. 11
    PROVE  /\ EncodeArgumentType[t] = t /\ DecodeArgumentType[t] = t
           /\ Named(WireTypeNames, t) = Named(TypeNames, t)
<1>1. EncodeArgumentType[t] = t /\ DecodeArgumentType[t] = t
  BY DEF EncodeArgumentType, DecodeArgumentType
<1>2. CASE t \in {1, 2, 3, 4, 5, 6}
  BY <1>1, <1>2, SMT DEF Named, WireTypeNames, TypeNames
<1>3. CASE t \in {7, 8, 9, 10, 11}
  BY <1>1, <1>3, SMT DEF Named, WireTypeNames, TypeNames
<1> QED
  BY <1>2, <1>3

-----------------------------------------------------------------------------
(* The parts of the invariant.                                             *)

\* Nothing has been called yet.
LEMMA InitHolds == Init => CallsInv
<1> SUFFICES ASSUME Init PROVE CallsInv
  OBVIOUS
<1>1. TableInv
  BY DEF Init, TableInv
<1>2. SentInv /\ ReadInv
  BY DEF Init, SentInv, ReadInv
<1>3. DecisionInv
  <2>1. queue \in Seq(Effects)
    BY DEF Init
  <2> QED
    BY <2>1 DEF Init, DecisionInv, Pending
<1>4. FailClosedHolds
  BY DEF Init, FailClosedHolds
<1> QED
  BY <1>1, <1>2, <1>3, <1>4 DEF CallsInv

\* Only Load touches the table, and takes what passes.
LEMMA TableStep == TableInv /\ [Next]_vars => TableInv'
<1> SUFFICES ASSUME TableInv, [Next]_vars PROVE TableInv'
  OBVIOUS
<1>1. CASE Load
  BY <1>1 DEF Load, TableInv, Bindable
<1>2. CASE UNCHANGED table
  BY <1>2 DEF TableInv, Bindable
<1>3. Load \/ UNCHANGED table
  BY DEF Next, vars, Grant, SendEvent, ForeignEvent, SendInvoke, ForeignInvoke, Send,
         RuntimeReads, HandlerAnswers, HandlerFails, HostHears, HostStopsWaiting, NothingToHear
<1> QED
  BY <1>1, <1>2, <1>3

\* What each call puts on the wire says what the host meant, and Decodes and
\* Decoded keep what it says.
LEMMA SendEventSays == SendEvent => SentInv'
<1> SUFFICES ASSUME SendEvent, stage' = "sent" PROVE EventOnWire'
  BY DEF SentInv
<1>1. PICK id \in EventIds, policy \in 0 .. 2, fields \in FieldLists :
        LET encodes == AllPass(fields) /\ policy \in DOMAIN EncodeFailurePolicy
        IN  Send([kind |-> "event", event |-> EventName(id),
                  policy |-> Named(PolicyNames, policy)],
                 encodes,
                 Event(id, IF encodes THEN EncodeFailurePolicy[policy] ELSE 0, fields))
  BY DEF SendEvent
<1>2. AllPass(fields) /\ policy \in DOMAIN EncodeFailurePolicy
  BY <1>1 DEF Send
<1>3. policy \in 0 .. 1
  BY <1>2 DEF EncodeFailurePolicy
<1> DEFINE wired == EncodeFailurePolicy[policy]
<1>4. /\ message' = Event(id, wired, fields)
      /\ call' = [kind |-> "event", event |-> EventName(id), policy |-> Named(PolicyNames, policy)]
      /\ UNCHANGED table
  BY <1>1, <1>2 DEF Send
<1>5. wired \in 0 .. 3 /\ Named(WirePolicyNames, wired) = Named(PolicyNames, policy)
  BY <1>3, PolicyEncoded
<1>6. /\ EventIds' = EventIds /\ EventName(id)' = EventName(id)
      /\ Event(id, wired, fields)' = Event(id, wired, fields)
  BY <1>4 DEF EventIds, EventName, Event
<1> HIDE DEF wired
<1> QED
  BY <1>4, <1>5, <1>6 DEF EventOnWire

\* What a host of another build may send of an event is such a message.
LEMMA ForeignEventSays == ForeignEvent => SentInv'
<1> SUFFICES ASSUME ForeignEvent, stage' = "sent" PROVE EventOnWire'
  BY DEF SentInv
<1>1. PICK id \in EventIds, policy \in 0 .. 3, fields \in FieldLists :
        Send([kind |-> "event", event |-> EventName(id),
              policy |-> Named(WirePolicyNames, policy)],
             TRUE, Event(id, policy, fields))
  BY DEF ForeignEvent
<1>2. /\ message' = Event(id, policy, fields)
      /\ call' = [kind |-> "event", event |-> EventName(id),
                  policy |-> Named(WirePolicyNames, policy)]
      /\ UNCHANGED table
  BY <1>1 DEF Send
<1>3. /\ EventIds' = EventIds /\ EventName(id)' = EventName(id)
      /\ Event(id, policy, fields)' = Event(id, policy, fields)
  BY <1>2 DEF EventIds, EventName, Event
<1> QED
  BY <1>2, <1>3 DEF EventOnWire

\* EncodeInvoke writes the types and pairs of the call.
LEMMA SendInvokeSays == SendInvoke => SentInv'
<1> SUFFICES ASSUME SendInvoke, stage' = "sent" PROVE InvokeOnWire'
  BY DEF SentInv
<1> DEFINE Accepted(types, values, player) ==
             /\ AllPass(values) /\ Passes(player)
             /\ ToSet(types) \subseteq DOMAIN EncodeArgumentType
<1>1. PICK types \in TypeLists, player \in Players :
        \E values \in Arguments(types, ArgumentValues) :
          Send(MeantInvoke(TypeNames, types, FALSE), Accepted(types, values, player),
               Invoke([i \in DOMAIN types |->
                           IF Accepted(types, values, player)
                           THEN EncodeArgumentType[types[i]] ELSE 0],
                      values, player, Injected))
  BY DEF SendInvoke
<1>2. PICK values \in Arguments(types, ArgumentValues) :
         Send(MeantInvoke(TypeNames, types, FALSE), Accepted(types, values, player),
              Invoke([i \in DOMAIN types |->
                          IF Accepted(types, values, player)
                          THEN EncodeArgumentType[types[i]] ELSE 0],
                     values, player, Injected))
  BY <1>1
<1>3. Accepted(types, values, player)
  BY <1>2 DEF Send
<1>4. ToSet(types) \subseteq DOMAIN EncodeArgumentType
  BY <1>3
<1> HIDE DEF Accepted
<1>5. \A i \in DOMAIN types : types[i] \in 1 .. 11
  BY <1>4 DEF ToSet, EncodeArgumentType
<1>6. types \in Seq(Int)
  BY CallsAssumption
<1>7. /\ message' = Invoke([i \in DOMAIN types |-> EncodeArgumentType[types[i]]],
                           values, player, Injected)
      /\ call' = MeantInvoke(TypeNames, types, FALSE)
  BY <1>2, <1>3 DEF Send
<1>8. [i \in DOMAIN types |-> EncodeArgumentType[types[i]]] = types
  <2>1. \A i \in DOMAIN types : EncodeArgumentType[types[i]] = types[i]
    BY <1>5, TypeConverted
  <2>2. types = [i \in DOMAIN types |-> types[i]]
    BY <1>6
  <2> QED
    BY <2>1, <2>2
<1>9. message' = Invoke(types, values, player, Injected)
  BY <1>7, <1>8
<1>10. [i \in DOMAIN types |-> Named(TypeNames, types[i])]
        = [i \in DOMAIN types |-> Named(WireTypeNames, types[i])]
  BY <1>5, TypeConverted
<1>11. Injected = InjectedFor(granted)
  BY DEF Injected, InjectedFor
<1>12. /\ message'.types = types /\ message'.permissions = InjectedFor(granted)
       /\ message' = Invoke(message'.types, message'.values, message'.player, message'.permissions)
  BY <1>9, <1>11 DEF Invoke
<1>13. /\ call' = [kind |-> "invoke",
                    types |-> [i \in DOMAIN types |-> Named(WireTypeNames, types[i])],
                    held |-> granted, foreign |-> FALSE]
  BY <1>7, <1>10 DEF MeantInvoke
<1>14. call'.held = granted /\ call'.foreign = FALSE
  BY <1>13
<1> QED
  BY <1>6, <1>12, <1>13, <1>14 DEF InvokeOnWire, Invoke, InjectedFor

\* So does a host of another build, with pairs of its own.
LEMMA ForeignInvokeSays == ForeignInvoke => SentInv'
<1> SUFFICES ASSUME ForeignInvoke, stage' = "sent" PROVE InvokeOnWire'
  BY DEF SentInv
<1>1. PICK types \in TypeLists, player \in Players \cup {NilValue}, pairs \in ForeignPairs :
        \E values \in Arguments(types, ArgumentValues \cup {NilValue}) :
          Send(MeantInvoke(WireTypeNames, types, TRUE), TRUE,
               Invoke(types, values, player, pairs))
  BY DEF ForeignInvoke
<1>2. PICK values \in Arguments(types, ArgumentValues \cup {NilValue}) :
        Send(MeantInvoke(WireTypeNames, types, TRUE), TRUE,
             Invoke(types, values, player, pairs))
  BY <1>1
<1>3. types \in Seq(Int)
  BY CallsAssumption
<1>4. /\ message' = Invoke(types, values, player, pairs)
      /\ call' = MeantInvoke(WireTypeNames, types, TRUE)
  BY <1>2 DEF Send
<1>5. /\ message'.types = types
      /\ message' = Invoke(message'.types, message'.values, message'.player, message'.permissions)
  BY <1>4 DEF Invoke
<1>6. /\ call' = [kind |-> "invoke",
                   types |-> [i \in DOMAIN types |-> Named(WireTypeNames, types[i])],
                   held |-> granted, foreign |-> TRUE]
      /\ call'.held = granted /\ call'.foreign = TRUE
  BY <1>4 DEF MeantInvoke
<1> QED
  BY <1>3, <1>5, <1>6 DEF InvokeOnWire, Invoke

\* The message on the wire stays the one of the call.
LEMMA SentStep == CallsInv /\ [Next]_vars => SentInv'
<1> SUFFICES ASSUME CallsInv, [Next]_vars PROVE SentInv'
  OBVIOUS
<1>1. CASE SendEvent \/ ForeignEvent \/ SendInvoke \/ ForeignInvoke
  BY <1>1, SendEventSays, ForeignEventSays, SendInvokeSays, ForeignInvokeSays
<1>2. CASE stage' # "sent"
  BY <1>2 DEF SentInv
<1>3. CASE UNCHANGED <<table, stage, call, message>>
  <2>1. SentInv
    BY DEF CallsInv
  <2>2. EventOnWire => EventOnWire'
    BY <1>3 DEF EventOnWire, EventIds, EventName, Event
  <2>3. InvokeOnWire => InvokeOnWire'
    BY <1>3 DEF InvokeOnWire, Invoke, InjectedFor
  <2> QED
    BY <1>3, <2>1, <2>2, <2>3 DEF SentInv
<1>4. CASE Load \/ RuntimeReads \/ HandlerAnswers \/ HandlerFails \/ HostHears \/ NothingToHear
  BY <1>4, <1>2 DEF Load, RuntimeReads, HandlerAnswers, HandlerFails, HostHears, NothingToHear
<1>5. CASE Grant \/ HostStopsWaiting \/ UNCHANGED vars
  BY <1>5, <1>3 DEF Grant, HostStopsWaiting, vars
<1> QED
  BY <1>1, <1>4, <1>5 DEF Next

\* Decoding leaves the event and the policy the host meant.
LEMMA EventReads ==
    ASSUME EventOnWire, Decodes
    PROVE  \E id \in EventIds, policy \in 0 .. 1, fields \in FieldLists :
             /\ Decoded = Event(id, policy, fields)
             /\ call = [kind |-> "event", event |-> EventName(id),
                        policy |-> PolicyNames[policy + 1]]
<1>1. PICK id \in EventIds, wired \in 0 .. 3, fields \in FieldLists :
        /\ message = Event(id, wired, fields)
        /\ call = [kind |-> "event", event |-> EventName(id),
                   policy |-> Named(WirePolicyNames, wired)]
  BY DEF EventOnWire
<1>2. message.kind = "event" /\ message.policy = wired
  BY <1>1 DEF Event
<1>3. wired \in 1 .. 2
  BY <1>2 DEF Decodes, DecodeFailurePolicy
<1> DEFINE policy == DecodeFailurePolicy[wired]
<1>4. policy \in 0 .. 1 /\ PolicyNames[policy + 1] = Named(WirePolicyNames, wired)
  BY <1>3, PolicyDecoded
<1>5. Decoded = Event(id, policy, fields)
  BY <1>1, <1>2 DEF Decoded, Event
<1> HIDE DEF policy
<1> QED
  BY <1>1, <1>4, <1>5

\* Decoding leaves the types and pairs the host meant.
LEMMA InvokeReads ==
    ASSUME InvokeOnWire, Decodes
    PROVE  /\ Decoded.kind = "invoke" /\ call.kind = "invoke"
           /\ call.types = [i \in DOMAIN Decoded.types |-> Named(TypeNames, Decoded.types[i])]
           /\ call.foreign \in BOOLEAN
           /\ ~call.foreign => Decoded.permissions = InjectedFor(call.held)
<1> DEFINE types == message.types
           decoded == [i \in DOMAIN types |-> DecodeArgumentType[types[i]]]
<1>1. message = [kind |-> "invoke", types |-> types, values |-> message.values, player |-> message.player,
                 permissions |-> message.permissions]
  BY DEF InvokeOnWire, Invoke
<1>2. message.kind = "invoke"
  BY <1>1
<1>3. \A i \in DOMAIN types : types[i] \in 1 .. 11
  BY <1>2 DEF Decodes, ToSet, DecodeArgumentType
<1>4. Decoded = [kind |-> "invoke", types |-> decoded, values |-> message.values, player |-> message.player,
                 permissions |-> message.permissions]
  BY <1>1, <1>2 DEF Decoded
<1>5. \A i \in DOMAIN types : Named(WireTypeNames, types[i]) = Named(TypeNames, decoded[i])
  BY <1>3, TypeConverted
<1>6. call = [kind |-> "invoke", types |-> [i \in DOMAIN types |-> Named(WireTypeNames, types[i])],
              held |-> call.held, foreign |-> call.foreign]
  BY DEF InvokeOnWire
<1>7. call.kind = "invoke" /\ call.types = [i \in DOMAIN types |-> Named(WireTypeNames, types[i])]
  BY <1>6
<1>8. call.types = [i \in DOMAIN decoded |-> Named(TypeNames, decoded[i])]
  BY <1>5, <1>7
<1>9. /\ call.foreign \in BOOLEAN
      /\ ~call.foreign => message.permissions = InjectedFor(call.held)
  BY DEF InvokeOnWire
<1>10. /\ Decoded.kind = "invoke" /\ Decoded.types = decoded
       /\ Decoded.permissions = message.permissions
  BY <1>4
<1> HIDE DEF types, decoded
<1> QED
  BY <1>7, <1>8, <1>9, <1>10

\* What the runtime has read stays what the host wrote.
LEMMA ReadStep == CallsInv /\ [Next]_vars => ReadInv'
<1> SUFFICES ASSUME CallsInv, [Next]_vars PROVE ReadInv'
  OBVIOUS
<1>1. CASE stage' # "running"
  BY <1>1 DEF ReadInv
<1>2. CASE RuntimeReads /\ stage' = "running"
  <2>1. read' = Decoded /\ Decodes /\ stage = "sent" /\ UNCHANGED <<table, call>>
    BY <1>2 DEF RuntimeReads
  <2>2. CASE EventOnWire
    <3>1. PICK id \in EventIds, policy \in 0 .. 1, fields \in FieldLists :
            /\ Decoded = Event(id, policy, fields)
            /\ call = [kind |-> "event", event |-> EventName(id),
                       policy |-> PolicyNames[policy + 1]]
      BY <2>1, <2>2, EventReads
    <3>2. /\ EventIds' = EventIds /\ EventName(id)' = EventName(id)
          /\ Event(id, policy, fields)' = Event(id, policy, fields)
      BY <2>1 DEF EventIds, EventName, Event
    <3> QED
      BY <2>1, <3>1, <3>2 DEF ReadInv, EventRead
  <2>3. CASE InvokeOnWire
    <3>1. /\ read'.kind = "invoke" /\ call'.kind = "invoke"
          /\ call'.types = [i \in DOMAIN read'.types |-> Named(TypeNames, read'.types[i])]
          /\ call'.foreign \in BOOLEAN
          /\ ~call'.foreign => read'.permissions = InjectedFor(call'.held)
      BY <2>1, <2>3, InvokeReads
    <3> QED
      BY <3>1 DEF ReadInv, InvokeRead, InjectedFor
  <2> QED
    BY <2>1, <2>2, <2>3 DEF CallsInv, SentInv
<1>3. CASE UNCHANGED <<table, stage, call, read>>
  <2>1. ReadInv
    BY DEF CallsInv
  <2>2. EventRead => EventRead'
    BY <1>3 DEF EventRead, EventIds, EventName, Event
  <2>3. InvokeRead => InvokeRead'
    BY <1>3 DEF InvokeRead, InjectedFor
  <2> QED
    BY <1>3, <2>1, <2>2, <2>3 DEF ReadInv
<1>4. CASE SendEvent \/ ForeignEvent \/ SendInvoke \/ ForeignInvoke
  BY <1>4, <1>1 DEF SendEvent, ForeignEvent, SendInvoke, ForeignInvoke, Send
<1>5. CASE Load \/ HandlerAnswers \/ HandlerFails \/ HostHears \/ NothingToHear
  BY <1>5, <1>1 DEF Load, HandlerAnswers, HandlerFails, HostHears, NothingToHear
<1>6. CASE Grant \/ HostStopsWaiting \/ UNCHANGED vars
  BY <1>6, <1>3 DEF Grant, HostStopsWaiting, vars
<1> QED
  BY <1>1, <1>2, <1>4, <1>5, <1>6 DEF Next

\* What is decided by the policy is decided as FailClosedHolds asks.
LEMMA PolicyCloses ==
    ASSUME call.kind = "event"
    PROVE  ByPolicy = "cancelled" <=> call.policy = "deny"
BY DEF ByPolicy, Verdict

\* The runtime answers for a handler that failed as the host would.
LEMMA RuntimeAgrees ==
    ASSUME ReadInv, stage = "running"
    PROVE  Verdict(read.kind = "event" /\ read.policy = FailureDeny) = ByPolicy
<1>1. CASE EventRead
  <2>1. PICK id \in EventIds, policy \in 0 .. 1, fields \in FieldLists :
          /\ read = Event(id, policy, fields)
          /\ call = [kind |-> "event", event |-> EventName(id),
                     policy |-> PolicyNames[policy + 1]]
    BY <1>1 DEF EventRead
  <2>2. /\ read.kind = "event" /\ read.policy = policy
        /\ call.kind = "event" /\ call.policy = PolicyNames[policy + 1]
    BY <2>1 DEF Event
  <2>3. policy = 1 <=> PolicyNames[policy + 1] = "deny"
    BY DEF PolicyNames
  <2> QED
    BY <2>2, <2>3 DEF FailureDeny, ByPolicy, Verdict
<1>2. CASE InvokeRead
  BY <1>2 DEF InvokeRead, ByPolicy, Verdict
<1> QED
  BY <1>1, <1>2 DEF ReadInv

\* What a host takes of an answer is a sequence of effects.
LEMMA TakenType ==
    ASSUME NEW reply, reply.effects \in Seq(Effects)
    PROVE  Taken(reply) \in Seq(Effects)
BY DEF Taken

\* How far host and runtime have come stays as DecisionInv says.
LEMMA DecisionStep == CallsInv /\ [Next]_vars => DecisionInv'
<1> SUFFICES ASSUME CallsInv, [Next]_vars PROVE DecisionInv'
  OBVIOUS
<1> USE DEF CallsInv
<1>1. CASE SendEvent \/ ForeignEvent \/ SendInvoke \/ ForeignInvoke
  <2>1. /\ stage' \in {"sent", "idle"}
        /\ outcome' = "waiting" /\ failed' = FALSE /\ said' = <<>>
        /\ UNCHANGED queue
    BY <1>1 DEF SendEvent, ForeignEvent, SendInvoke, ForeignInvoke, Send
  <2> QED
    BY <2>1 DEF DecisionInv, Pending
<1>2. CASE Load
  BY <1>2 DEF Load, DecisionInv, Pending
<1>3. CASE RuntimeReads
  <2>1. /\ stage = "sent" /\ stage' \in {"running", "silent"}
        /\ UNCHANGED <<call, outcome, failed, said, queue>>
    BY <1>3 DEF RuntimeReads
  <2> QED
    BY <2>1 DEF DecisionInv, Pending, ByPolicy, Verdict
<1>4. CASE HandlerAnswers
  <2>1. PICK effects \in EffectLists, cancelled \in BOOLEAN, mutations \in Mutations :
          message' = Reply(cancelled, mutations, effects) /\ said' = effects
    BY <1>4 DEF HandlerAnswers
  <2>2. effects \in Seq(Effects)
    BY CallsAssumption, SMT DEF Effects
  <2>3. /\ message'.cancelled = cancelled /\ message'.effects = effects
        /\ message' = Reply(message'.cancelled, message'.mutations, message'.effects)
    BY <2>1 DEF Reply
  <2>4. /\ stage = "running" /\ stage' = "replied"
        /\ UNCHANGED <<call, outcome, failed, queue>>
    BY <1>4 DEF HandlerAnswers
  <2>5. failed' \in BOOLEAN
    BY <2>4 DEF DecisionInv
  <2> QED
    BY <2>1, <2>2, <2>3, <2>4 DEF DecisionInv, Pending, ByPolicy, Verdict, Reply
<1>5. CASE HandlerFails
  <2>1. /\ stage = "running" /\ stage' = "replied" /\ failed' = TRUE
        /\ message' = Reply(read.kind = "event" /\ read.policy = FailureDeny, <<>>, <<>>)
        /\ UNCHANGED <<call, outcome, said, queue>>
    BY <1>5 DEF HandlerFails
  <2>2. /\ Verdict(message'.cancelled) = ByPolicy /\ message'.effects = <<>>
        /\ message' = Reply(message'.cancelled, message'.mutations, message'.effects)
    BY <2>1, RuntimeAgrees DEF Reply
  <2>3. ByPolicy' = ByPolicy
    BY <2>1 DEF ByPolicy, Verdict
  <2>4. Verdict(message.cancelled)' = ByPolicy
    BY <2>2 DEF Verdict
  <2> QED
    BY <2>1, <2>2, <2>3, <2>4 DEF DecisionInv, Pending, Reply
<1>6. CASE HostHears
  <2>1. stage = "replied" /\ stage' = "idle"
    BY <1>6 DEF HostHears
  <2>2. queue' = queue \/ queue' = queue \o Taken(message)
    BY <1>6 DEF HostHears
  <2>3. queue \in Seq(Effects) /\ Taken(message) \in Seq(Effects)
    BY <2>1, TakenType DEF DecisionInv
  <2>4. queue' \in Seq(Effects)
    <3>1. queue \o Taken(message) \in Seq(Effects)
      BY <2>3, ConcatProperties
    <3> QED
      BY <2>2, <2>3, <3>1
  <2>5. failed' \in BOOLEAN
    BY <1>6 DEF HostHears, DecisionInv
  <2> QED
    BY <2>1, <2>4, <2>5 DEF DecisionInv, Pending
<1>7. CASE HostStopsWaiting
  <2>1. /\ outcome = "waiting" /\ outcome' = ByPolicy /\ failed' = TRUE
        /\ UNCHANGED <<stage, call, message, said, queue>>
    BY <1>7 DEF HostStopsWaiting
  <2>2. ByPolicy' = ByPolicy /\ ByPolicy # "waiting"
    BY <2>1 DEF ByPolicy, Verdict
  <2> QED
    BY <2>1, <2>2 DEF DecisionInv, Pending, Reply
<1>8. CASE NothingToHear
  BY <1>8 DEF NothingToHear, DecisionInv, Pending
<1>9. CASE Grant \/ UNCHANGED vars
  <2>1. UNCHANGED <<stage, call, message, outcome, failed, said, queue>>
    BY <1>9 DEF Grant, vars
  <2> QED
    BY <2>1 DEF DecisionInv, Pending, ByPolicy, Verdict, Reply
<1> QED
  BY <1>1, <1>2, <1>3, <1>4, <1>5, <1>6, <1>7, <1>8, <1>9 DEF Next

\* A failure counts as the policy of the subscriber says.
LEMMA FailClosedStep == CallsInv /\ [Next]_vars => FailClosedHolds'
<1> SUFFICES ASSUME CallsInv, [Next]_vars,
                    call'.kind = "event", failed', outcome' # "waiting"
             PROVE  outcome' = "cancelled" <=> call'.policy = "deny"
  BY DEF FailClosedHolds
<1> USE DEF CallsInv
<1>1. CASE SendEvent \/ ForeignEvent \/ SendInvoke \/ ForeignInvoke
  BY <1>1 DEF SendEvent, ForeignEvent, SendInvoke, ForeignInvoke, Send
<1>2. CASE HandlerFails
  <2>1. stage = "running" /\ UNCHANGED <<call, outcome>>
    BY <1>2 DEF HandlerFails
  <2>2. outcome = ByPolicy
    BY <2>1 DEF DecisionInv, Pending
  <2> QED
    BY <2>1, <2>2, PolicyCloses
<1>3. CASE HostHears
  <2>1. stage = "replied" /\ UNCHANGED call
    BY <1>3 DEF HostHears
  <2>2. CASE outcome # "waiting"
    BY <1>3, <2>1, <2>2 DEF HostHears, FailClosedHolds
  <2>3. CASE outcome' = ByPolicy
    BY <2>1, <2>3, PolicyCloses
  <2>4. CASE outcome = "waiting" /\ outcome' = Verdict(message.cancelled) /\ UNCHANGED failed
    <3>1. Verdict(message.cancelled) = ByPolicy
      BY <2>1, <2>4 DEF DecisionInv
    <3> QED
      BY <2>1, <2>4, <3>1, PolicyCloses
  <2> QED
    BY <1>3, <2>2, <2>3, <2>4 DEF HostHears
<1>4. CASE HostStopsWaiting
  BY <1>4, PolicyCloses DEF HostStopsWaiting
<1>5. CASE UNCHANGED <<call, failed, outcome>>
  BY <1>5 DEF FailClosedHolds
<1>6. CASE Load \/ Grant \/ RuntimeReads \/ HandlerAnswers \/ NothingToHear \/ UNCHANGED vars
  BY <1>6, <1>5 DEF Load, Grant, RuntimeReads, HandlerAnswers, NothingToHear, vars
<1> QED
  BY <1>1, <1>2, <1>3, <1>4, <1>6 DEF Next

-----------------------------------------------------------------------------
(* The theorems.                                                           *)

\* The invariant of a call: what is on the wire, what has been read of it, and
\* what host and runtime have decided (event.go, command.go, convert.go).
THEOREM CallsInvariant == Spec => []CallsInv
<1>1. Init => CallsInv
  BY InitHolds
<1>2. CallsInv /\ [Next]_vars => CallsInv'
  BY TableStep, SentStep, ReadStep, DecisionStep, FailClosedStep DEF CallsInv
<1> QED
  BY <1>1, <1>2, PTL DEF Spec

\* Whatever a handler is run with is what the host wrote, whichever build of
\* it: the event by its name, the policy and every argument type by theirs
\* (convert.go, the decoders of the two enumerations).
THEOREM HandlersReadWhatWasWritten == Spec => []ReadAsWritten
<1>1. CallsInv => ReadAsWritten
  <2> SUFFICES ASSUME CallsInv, stage = "running"
               PROVE  \/ /\ read.kind = "event"
                         /\ Handled(read) = call.event
                         /\ Named(PolicyNames, read.policy) = call.policy
                      \/ /\ read.kind = "invoke"
                         /\ [i \in DOMAIN read.types |-> Named(TypeNames, read.types[i])] = call.types
    BY DEF ReadAsWritten
  <2>1. CASE EventRead
    <3>1. PICK id \in EventIds, policy \in 0 .. 1, fields \in FieldLists :
            /\ read = Event(id, policy, fields)
            /\ call = [kind |-> "event", event |-> EventName(id),
                       policy |-> PolicyNames[policy + 1]]
      BY <2>1 DEF EventRead
    <3>2. /\ read.kind = "event" /\ read.id = id /\ read.policy = policy
          /\ read.type = IF id = 0 THEN EventName(0) ELSE ""
          /\ call.event = EventName(id) /\ call.policy = PolicyNames[policy + 1]
      BY <3>1 DEF Event
    <3>3. Handled(read) = EventName(id)
      <4>1. CASE id = 0
        <5>1. ~\E i \in DOMAIN table : table[i].id = id
          BY <4>1 DEF CallsInv, TableInv, Bindable
        <5> QED
          BY <3>2, <4>1, <5>1 DEF Handled
      <4>2. CASE id # 0
        <5>1. \E i \in DOMAIN table : table[i].id = id
          BY <4>2 DEF EventIds
        <5> QED
          BY <3>2, <4>2, <5>1 DEF Handled, EventName
      <4> QED
        BY <4>1, <4>2
    <3>4. Named(PolicyNames, policy) = PolicyNames[policy + 1]
      BY DEF Named, PolicyNames
    <3> QED
      BY <3>2, <3>3, <3>4
  <2>2. CASE InvokeRead
    BY <2>2 DEF InvokeRead
  <2> QED
    BY <2>1, <2>2 DEF CallsInv, ReadInv
<1> QED
  BY <1>1, CallsInvariant, PTL

\* An event whose subscriber failed is cancelled exactly when its policy is to
\* deny, in whatever order the host's deadline, the runtime's answer for the
\* handler and an answer that does not decode come (envelope.proto, on_failure).
THEOREM FailuresCountByPolicy == Spec => []FailClosedHolds
<1>1. CallsInv => FailClosedHolds
  BY DEF CallsInv
<1> QED
  BY <1>1, CallsInvariant, PTL

\* No step queues part of an answer, an answer that came late, or anything of
\* a call that failed (DecodeVerdict, DecodeCommandResult).
THEOREM EffectsArriveWhole == Spec => EffectsWholeInOrder
<1>1. CallsInv /\ [Next]_vars =>
        [queue' = queue \/ (queue' = queue \o said /\ outcome = "waiting" /\ ~failed')]_vars
  <2> SUFFICES ASSUME CallsInv, [Next]_vars, queue' # queue
               PROVE  queue' = queue \o said /\ outcome = "waiting" /\ ~failed'
    OBVIOUS
  <2>1. HostHears
    BY DEF Next, vars, Load, Grant, SendEvent, ForeignEvent, SendInvoke, ForeignInvoke, Send,
           RuntimeReads, HandlerAnswers, HandlerFails, HostStopsWaiting, NothingToHear
  <2>2. /\ stage = "replied" /\ outcome = "waiting"
        /\ queue' = queue \o Taken(message)
        /\ AnswerPasses(message) => UNCHANGED failed
    BY <2>1 DEF HostHears
  <2>3. queue \in Seq(Effects)
    BY DEF CallsInv, DecisionInv
  <2>4. Taken(message) # <<>>
    BY <2>2, <2>3
  <2>5. AnswerPasses(message) /\ message.effects # <<>> /\ Taken(message) = message.effects
    BY <2>4 DEF Taken
  <2>6. ~failed /\ message.effects = said
    BY <2>2, <2>5 DEF CallsInv, DecisionInv
  <2> QED
    BY <2>2, <2>5, <2>6
<1> QED
  BY <1>1, CallsInvariant, PTL DEF Spec, EffectsWholeInOrder

-----------------------------------------------------------------------------
(* Permissions.                                                            *)

\* The union names what some block names, and nothing else.
LEMMA UnionHasAll ==
    ASSUME NEW subscribe \in Seq([event : STRING, priority : STRING, perms : Seq(STRING)])
    PROVE  /\ PermissionUnion(subscribe) \in Seq(STRING)
           /\ ToSet(PermissionUnion(subscribe))
                = UNION { ToSet(subscribe[i].perms) : i \in DOMAIN subscribe }
<1> DEFINE S == STRING
           perms == [i \in DOMAIN subscribe |-> subscribe[i].perms]
           mentioned == FlattenSeq(perms)
           N == Len(mentioned)
           more(u, n) == IF Contains(u, mentioned[n]) THEN u ELSE Append(u, mentioned[n])
           next == [n \in 1 .. N |-> [u \in Seq(S) |-> more(u, n)]]
           union == CHOOSE u : u = [n \in 0 .. N |->
                       IF n = 0 THEN <<>>
                       ELSE IF Contains(u[n - 1], mentioned[n]) THEN u[n - 1]
                       ELSE Append(u[n - 1], mentioned[n])]
           T == { n \in 0 .. N : /\ union[n] \in Seq(S)
                                 /\ ToSet(union[n]) = { mentioned[i] : i \in 1 .. n } }
<1>1. perms \in Seq(Seq(S))
  <2> DEFINE Block == [event : STRING, priority : STRING, perms : Seq(STRING)]
  <2>1. subscribe \in Seq(Block)
    OBVIOUS
  <2>2. \A b \in Block : b.perms \in Seq(S)
    OBVIOUS
  <2> HIDE DEF Block
  <2>3. /\ Len(subscribe) \in Nat /\ DOMAIN subscribe = 1 .. Len(subscribe)
        /\ \A i \in 1 .. Len(subscribe) : subscribe[i] \in Block
    BY <2>1
  <2>4. /\ DOMAIN perms = 1 .. Len(subscribe)
        /\ \A i \in 1 .. Len(subscribe) : perms[i] \in Seq(S)
    BY <2>2, <2>3
  <2>5. perms = [i \in 1 .. Len(subscribe) |-> perms[i]]
    BY <2>3
  <2> HIDE DEF perms, S
  <2> QED
    BY <2>3, <2>4, <2>5, SeqDef
<1>2. /\ mentioned \in Seq(S)
      /\ ToSet(mentioned) = UNION { ToSet(perms[i]) : i \in DOMAIN perms }
  <2> HIDE DEF perms, S
  <2> QED
    BY <1>1, FlattenToSet
<1>3. UNION { ToSet(perms[i]) : i \in DOMAIN perms }
        = UNION { ToSet(subscribe[i].perms) : i \in DOMAIN subscribe }
  OBVIOUS
<1>4. PermissionUnion(subscribe) = union[N]
  BY DEF PermissionUnion
<1> HIDE DEF mentioned, perms, S
<1>5. N \in Nat /\ \A n \in 1 .. N : mentioned[n] \in S
  BY <1>2
<1> HIDE DEF N
<1>6. \A u \in Seq(S), n \in 1 .. N :
         more(u, n) \in Seq(S) /\ ToSet(more(u, n)) = ToSet(u) \cup {mentioned[n]}
  <2> SUFFICES ASSUME NEW u \in Seq(S), NEW n \in 1 .. N
               PROVE  /\ more(u, n) \in Seq(S)
                      /\ ToSet(more(u, n)) = ToSet(u) \cup {mentioned[n]}
    OBVIOUS
  <2>1. mentioned[n] \in S
    BY <1>5
  <2>2. /\ Append(u, mentioned[n]) \in Seq(S)
        /\ ToSet(Append(u, mentioned[n])) = ToSet(u) \cup {mentioned[n]}
    BY <2>1, AppendToSet
  <2>3. Contains(u, mentioned[n]) => mentioned[n] \in ToSet(u)
    BY DEF Contains, ToSet
  <2> QED
    BY <2>2, <2>3
<1>7. PICK f : Iterated(f, N, Seq(S), <<>>, next)
  <2>1. next \in [1 .. N -> [Seq(S) -> Seq(S)]]
    <3> HIDE DEF more
    <3> QED
      BY <1>6
  <2>2. <<>> \in Seq(S)
    OBVIOUS
  <2> HIDE DEF next
  <2> QED
    BY <1>5, <2>1, <2>2, Iterates
<1>8. \A n \in 1 .. N : f[n - 1] \in Seq(S) /\ f[n] = more(f[n - 1], n)
  <2> SUFFICES ASSUME NEW n \in 1 .. N
               PROVE  f[n - 1] \in Seq(S) /\ f[n] = more(f[n - 1], n)
    OBVIOUS
  <2>1. f[n - 1] \in Seq(S)
    BY <1>5, <1>7 DEF Iterated
  <2>2. f[n] = next[n][f[n - 1]]
    BY <1>7 DEF Iterated
  <2> HIDE DEF more
  <2> QED
    BY <2>1, <2>2
<1>9. f = [n \in 0 .. N |-> IF n = 0 THEN <<>>
                            ELSE IF Contains(f[n - 1], mentioned[n]) THEN f[n - 1]
                            ELSE Append(f[n - 1], mentioned[n])]
  <2>1. f = [n \in 0 .. N |-> f[n]] /\ f[0] = <<>>
    BY <1>7 DEF Iterated
  <2>2. \A n \in 0 .. N : f[n] = IF n = 0 THEN <<>>
                            ELSE IF Contains(f[n - 1], mentioned[n]) THEN f[n - 1]
                            ELSE Append(f[n - 1], mentioned[n])
    <3> SUFFICES ASSUME NEW n \in 0 .. N, n # 0
                 PROVE  f[n] = more(f[n - 1], n)
      BY <2>1
    <3>1. n \in 1 .. N
      BY <1>5
    <3> HIDE DEF more
    <3> QED
      BY <1>8, <3>1
  <2> QED
    BY <2>1, <2>2
<1>10. union = [n \in 0 .. N |-> IF n = 0 THEN <<>>
                                ELSE IF Contains(union[n - 1], mentioned[n]) THEN union[n - 1]
                                ELSE Append(union[n - 1], mentioned[n])]
  BY <1>9
<1> HIDE DEF union
<1>11. union[0] = <<>> /\ \A n \in 1 .. N : union[n] = more(union[n - 1], n)
  <2>1. \A n \in 0 .. N : union[n] = IF n = 0 THEN <<>> ELSE more(union[n - 1], n)
    BY <1>10
  <2> HIDE DEF more
  <2>2. 0 \in 0 .. N /\ \A n \in 1 .. N : n \in 0 .. N /\ n # 0
    BY <1>5
  <2> QED
    BY <2>1, <2>2
<1>12. 0 \in T
  <2>1. ToSet(<<>>) = {} /\ 1 .. 0 = {} /\ <<>> \in Seq(S)
    BY DEF ToSet
  <2>2. 0 \in 0 .. N /\ { mentioned[i] : i \in 1 .. 0 } = {}
    BY <1>5, <2>1
  <2> QED
    BY <1>11, <2>1, <2>2
<1>13. ASSUME NEW n \in 0 .. N - 1, n \in T PROVE n + 1 \in T
  <2>1. n + 1 \in 1 .. N /\ n + 1 \in 0 .. N /\ (n + 1) - 1 = n
    BY <1>5
  <2>2. union[n + 1] = more(union[n], n + 1)
    BY <1>11, <2>1
  <2>3. union[n] \in Seq(S) /\ ToSet(union[n]) = { mentioned[i] : i \in 1 .. n }
    BY <1>13
  <2> HIDE DEF more
  <2>4. /\ union[n + 1] \in Seq(S)
        /\ ToSet(union[n + 1]) = { mentioned[i] : i \in 1 .. n } \cup {mentioned[n + 1]}
    BY <1>6, <2>1, <2>2, <2>3
  <2>5. 1 .. n + 1 = (1 .. n) \cup {n + 1}
    BY <1>5
  <2>6. { mentioned[i] : i \in 1 .. n + 1 } = { mentioned[i] : i \in 1 .. n } \cup {mentioned[n + 1]}
    BY <2>5
  <2> QED
    BY <2>1, <2>4, <2>6
<1>14. N \in T
  <2> HIDE DEF T
  <2>1. 0 .. N \subseteq T
    BY <1>5, <1>12, <1>13, UpTo
  <2> QED
    BY <1>5, <2>1
<1>15. ToSet(mentioned) = { mentioned[i] : i \in 1 .. N }
  BY <1>2 DEF ToSet, N
<1> QED
  BY <1>2, <1>3, <1>4, <1>14, <1>15 DEF S

\* What is injected about a node answers for that node and no other.
LEMMA PairAnswers ==
    ASSUME NEW other, NEW node, NEW allowed
    PROVE  /\ Answers(Pair(other, allowed), node) <=> other = node
           /\ Pair(other, allowed).of[2].of = allowed
BY DEF Pair, Answers, List, Scalar, IsList

\* Asked about a node, what is injected says whether some block names it and
\* the player held it.
LEMMA InjectedSays ==
    ASSUME NEW held, NEW node
    PROVE  Allowed(InjectedFor(held), node) <=>
              /\ node \in held
              /\ \E i \in DOMAIN Blocks : node \in ToSet(Blocks[i].perms)
<1> DEFINE union == PermissionUnion(Blocks)
           pairs == InjectedFor(held)
           about == { i \in DOMAIN pairs : Answers(pairs[i], node) }
<1>1. union \in Seq(STRING) /\ ToSet(union) = UNION { ToSet(Blocks[i].perms) : i \in DOMAIN Blocks }
  BY CallsAssumption, UnionHasAll
<1>2. DOMAIN union \subseteq Nat
  BY <1>1
<1>3. DOMAIN pairs = DOMAIN union /\ \A i \in DOMAIN union : pairs[i] = Pair(union[i], union[i] \in held)
  BY DEF InjectedFor
<1> HIDE DEF union, pairs
<1>4. about = { i \in DOMAIN union : union[i] = node }
  BY <1>3, PairAnswers
<1>5. \A i \in about : pairs[i].of[2].of <=> node \in held
  <2> SUFFICES ASSUME NEW i \in about PROVE pairs[i].of[2].of <=> node \in held
    OBVIOUS
  <2>1. i \in DOMAIN union /\ union[i] = node
    BY <1>4
  <2>2. pairs[i] = Pair(node, node \in held)
    BY <1>3, <2>1
  <2>3. pairs[i].of[2].of = (node \in held)
    BY <2>2, PairAnswers
  <2> QED
    BY <2>3
<1>6. about # {} <=> \E i \in DOMAIN Blocks : node \in ToSet(Blocks[i].perms)
  <2>1. about # {} <=> node \in ToSet(union)
    BY <1>4 DEF ToSet
  <2>2. node \in UNION { ToSet(Blocks[i].perms) : i \in DOMAIN Blocks }
          <=> \E i \in DOMAIN Blocks : node \in ToSet(Blocks[i].perms)
    OBVIOUS
  <2> QED
    BY <1>1, <2>1, <2>2
<1>7. Allowed(pairs, node) <=>
        \E first \in about : (\A i \in about : first <= i) /\ pairs[first].of[2].of
  BY DEF Allowed
<1>8. about # {} => \E first \in about : \A i \in about : first <= i
  BY <1>2, <1>4, Least
<1> HIDE DEF about
<1>9. Allowed(pairs, node) <=> about # {} /\ node \in held
  BY <1>5, <1>7, <1>8
<1> QED
  BY <1>6, <1>9 DEF pairs

\* A handler is allowed exactly the nodes that some block of the manifest names
\* and the player held when the command was sent; of what another build
\* injected, nothing that no pair says (command.go, CommandSender.Allowed).
THEOREM AllowedAsDeclared == Spec => []AllowedIsDeclaredAndHeld
<1>1. CallsInv => AllowedIsDeclaredAndHeld
  <2> SUFFICES ASSUME CallsInv, stage = "running", call.kind = "invoke", NEW node \in Nodes
               PROVE  IF call.foreign
                      THEN Allowed(read.permissions, node) =>
                              \E i \in DOMAIN read.permissions :
                                  Answers(read.permissions[i], node) /\ read.permissions[i].of[2].of
                      ELSE Allowed(read.permissions, node) <=>
                              /\ node \in call.held
                              /\ \E i \in DOMAIN Blocks : node \in ToSet(Blocks[i].perms)
    BY DEF AllowedIsDeclaredAndHeld
  <2>1. InvokeRead
    <3>1. ~EventRead
      BY DEF EventRead
    <3> QED
      BY <3>1 DEF CallsInv, ReadInv
  <2>2. CASE call.foreign
    BY <2>2 DEF Allowed
  <2>3. CASE ~call.foreign
    <3>1. read.permissions = InjectedFor(call.held)
      BY <2>1, <2>3 DEF InvokeRead
    <3>2. Allowed(InjectedFor(call.held), node) <=>
              /\ node \in call.held
              /\ \E i \in DOMAIN Blocks : node \in ToSet(Blocks[i].perms)
      BY InjectedSays
    <3> QED
      BY <2>3, <3>1, <3>2
  <2> QED
    BY <2>2, <2>3
<1> QED
  BY <1>1, CallsInvariant, PTL
=============================================================================
