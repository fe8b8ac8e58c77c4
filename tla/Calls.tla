-------------------------------- MODULE Calls --------------------------------
(***************************************************************************)
(* The calls of a host into one loaded plugin: the table of event ids it   *)
(* is loaded with, native and plugin-defined events and their failure      *)
(* policy, command invocations with the permissions injected into them,    *)
(* and the effects that come back.  Host and runtime link the conversions  *)
(* of src/ipc/convert.go, in builds that need not be the same: what is     *)
(* called foreign below was written by another build.                      *)
(*                                                                         *)
(* The host's deadline and the runtime's handlers are outside the          *)
(* repository; envelope.proto says what they do with what they read.       *)
(***************************************************************************)
EXTENDS WireValues, Manifest

CONSTANTS
    Blocks,           \* the [[subscribe]] blocks of the plugin's manifest
    Nodes,            \* the permission nodes a handler may ask about
    BindingTables,    \* the tables of ids a host may send
    TypeLists,        \* the argument types of a command, as numbers
    ArgumentValues,   \* what the arguments hold
    FieldLists,       \* the fields of an event; the values a verdict puts there
    Players,          \* the PlayerRef of a sender
    ForeignPairs,     \* the permissions another build may inject
    EffectLists,      \* the effects a handler may ask for
    MaxCalls          \* bound: the calls of one behaviour

ASSUME CallsAssumption ==
    /\ Blocks \in Seq([event : STRING, priority : STRING, perms : Seq(STRING)])
    /\ \A bindings \in BindingTables : bindings \in Seq([id : Nat, type : STRING])
    /\ \A types \in TypeLists : types \in Seq(Int)
    /\ \A effects \in EffectLists : effects \in Seq(ToSet(effects))

VARIABLES
    granted,    \* the nodes the player holds just now
    table,      \* the bindings the runtime has
    stage,      \* where the runtime is
    calls,      \* how many calls the host has made
    call,       \* the last one, as the host meant it
    message,    \* what is on the wire
    read,       \* what the runtime decoded
    outcome,    \* what the host decided: "waiting" until it has
    failed,     \* ghost: it was decided without a handler's answer
    said,       \* ghost: the effects of the handler's answer
    queue       \* the effects the host has queued

vars == <<granted, table, stage, calls, call, message, read, outcome, failed, said, queue>>

-----------------------------------------------------------------------------
(* The enumerations, by number, and the conversions between them.  A       *)
(* conversion refuses what is outside its domain.                          *)

PolicyNames == <<"allow", "deny">>
WirePolicyNames == <<"unspecified", "allow", "deny">>
TypeNames ==
    <<"invalid", "integer", "decimal", "string", "greedy", "player", "block_pos",
      "block_state", "item", "duration", "enum", "custom">>
WireTypeNames ==
    <<"unspecified", "integer", "decimal", "string", "greedy", "player", "block_pos",
      "block_state", "item", "duration", "enum", "custom">>

Named(names, n) == IF n + 1 \in DOMAIN names THEN names[n + 1] ELSE "unknown"

FailureDeny == 1

EncodeFailurePolicy == [p \in 0 .. 1 |-> p + 1]
DecodeFailurePolicy_cast == [p \in 0 .. 2 |-> p]
DecodeFailurePolicy == [p \in 1 .. 2 |-> p - 1]

EncodeArgumentType == [t \in 1 .. 11 |-> t]
DecodeArgumentType_cast == [t \in 0 .. 511 |-> t % 256]
DecodeArgumentType == [t \in 1 .. 11 |-> t]

EffectsPass(effects) == \A i \in DOMAIN effects : AllPass(effects[i].fields)

\* A verdict or a result with everything in it.
AnswerPasses(reply) == AllPass(reply.mutations) /\ EffectsPass(reply.effects)

\* The effects that a host takes of an answer.
Taken_whatPasses(reply) ==
    SelectSeq(reply.effects, LAMBDA effect : AllPass(effect.fields))
Taken(reply) == IF AnswerPasses(reply) THEN reply.effects ELSE <<>>

-----------------------------------------------------------------------------
(* Permissions.                                                            *)

Pair(node, allowed) == List(<<Scalar("string", node), Scalar("bool", allowed)>>)

\* What the host injects: every node of the manifest, resolved.
Injected ==
    LET union == PermissionUnion(Blocks)
    IN  [i \in DOMAIN union |-> Pair(union[i], union[i] \in granted)]

\* A pair that CommandSender.Allowed takes for the answer about a node.
Answers(pair, node) ==
    /\ IsList(pair)
    /\ Len(pair.of) = 2
    /\ pair.of[1] = Scalar("string", node)
    /\ pair.of[2].kind = "bool"

\* The first such pair decides.
Allowed(pairs, node) ==
    LET about == { i \in DOMAIN pairs : Answers(pairs[i], node) }
    IN  \E first \in about : (\A i \in about : first <= i) /\ pairs[first].of[2].of

-----------------------------------------------------------------------------
(* Loading.                                                                *)

Bindable_named(binding) == binding.type # ""
Bindable(binding) == binding.id # 0 /\ binding.type # ""

NoCall == [kind |-> "none"]

Init ==
    /\ granted = {}
    /\ table = <<>>
    /\ stage = "load"
    /\ calls = 0
    /\ call = NoCall /\ message = NoCall /\ read = NoCall
    /\ outcome = "waiting" /\ failed = FALSE
    /\ said = <<>> /\ queue = <<>>

\* EncodeEventBindings and DecodeEventBindings refuse the same tables.
Load ==
    /\ stage = "load"
    /\ \E bindings \in BindingTables :
          IF \A i \in DOMAIN bindings : Bindable(bindings[i])
          THEN table' = bindings /\ stage' = "idle"
          ELSE stage' = "unloaded" /\ UNCHANGED table
    /\ UNCHANGED <<granted, calls, call, message, read, outcome, failed, said, queue>>

\* An operator grants or takes a node, whatever is under way.
Grant ==
    /\ \E node \in Nodes :
          granted' = IF node \in granted THEN granted \ {node} ELSE granted \cup {node}
    /\ UNCHANGED <<table, stage, calls, call, message, read, outcome, failed, said, queue>>

-----------------------------------------------------------------------------
(* The host calls.                                                         *)

\* A new call, sent unless its conversion refuses it.
Send(meant, encodes, wired) ==
    /\ stage = "idle"
    /\ calls < MaxCalls
    /\ calls' = calls + 1
    /\ call' = meant
    /\ outcome' = "waiting" /\ failed' = FALSE /\ said' = <<>> /\ read' = NoCall
    /\ IF encodes
       THEN message' = wired /\ stage' = "sent"
       ELSE message' = NoCall /\ UNCHANGED stage
    /\ UNCHANGED <<granted, table, queue>>

\* Native events have the id 0 and their name, the others their id.
EventIds == {0} \cup { table[i].id : i \in DOMAIN table }
Bound(bindings, id) == bindings[CHOOSE i \in DOMAIN bindings : bindings[i].id = id].type
EventName(id) == IF id = 0 THEN "block.break" ELSE Bound(table, id)

Event(id, policy, fields) ==
    [kind |-> "event", id |-> id, type |-> IF id = 0 THEN EventName(0) ELSE "",
     policy |-> policy, fields |-> fields]

\* EncodeEvent.
SendEvent ==
    \E id \in EventIds, policy \in 0 .. 2, fields \in FieldLists :
        LET encodes == AllPass(fields) /\ policy \in DOMAIN EncodeFailurePolicy
        IN  Send([kind |-> "event", event |-> EventName(id),
                  policy |-> Named(PolicyNames, policy)],
                 encodes,
                 Event(id, IF encodes THEN EncodeFailurePolicy[policy] ELSE 0, fields))

ForeignEvent ==
    \E id \in EventIds, policy \in 0 .. 3, fields \in FieldLists :
        Send([kind |-> "event", event |-> EventName(id),
              policy |-> Named(WirePolicyNames, policy)],
             TRUE, Event(id, policy, fields))

Invoke(types, values, player, pairs) ==
    [kind |-> "invoke", types |-> types, values |-> values, player |-> player,
     permissions |-> pairs]
MeantInvoke(names, types, foreign) ==
    [kind |-> "invoke", types |-> [i \in DOMAIN types |-> Named(names, types[i])],
     held |-> granted, foreign |-> foreign]

\* What the arguments of these types hold.
Arguments(types, among) == [DOMAIN types -> among]

\* EncodeCommandInvocation.
SendInvoke ==
    \E types \in TypeLists, player \in Players :
      \E values \in Arguments(types, ArgumentValues) :
        LET encodes == /\ AllPass(values) /\ Passes(player)
                       /\ ToSet(types) \subseteq DOMAIN EncodeArgumentType
        IN  Send(MeantInvoke(TypeNames, types, FALSE), encodes,
                 Invoke([i \in DOMAIN types |->
                             IF encodes THEN EncodeArgumentType[types[i]] ELSE 0],
                        values, player, Injected))

ForeignInvoke ==
    \E types \in TypeLists, player \in Players \cup {NilValue}, pairs \in ForeignPairs :
      \E values \in Arguments(types, ArgumentValues \cup {NilValue}) :
        Send(MeantInvoke(WireTypeNames, types, TRUE), TRUE,
             Invoke(types, values, player, pairs))

-----------------------------------------------------------------------------
(* The runtime reads and answers.                                          *)

\* DecodeEvent and DecodeCommandInvocation.
Decodes ==
    \/ /\ message.kind = "event"
       /\ AllPass(message.fields)
       /\ message.policy \in DOMAIN DecodeFailurePolicy
    \/ /\ message.kind = "invoke"
       /\ ToSet(message.types) \subseteq DOMAIN DecodeArgumentType
       /\ AllPass(message.values)
       /\ Passes(message.player)
       /\ AllPass(message.permissions)

Decoded ==
    IF message.kind = "event"
    THEN [message EXCEPT !.policy = DecodeFailurePolicy[@]]
    ELSE [message EXCEPT !.types = [i \in DOMAIN @ |-> DecodeArgumentType[@[i]]]]

RuntimeReads ==
    /\ stage = "sent"
    /\ IF Decodes
       THEN read' = Decoded /\ stage' = "running"
       ELSE stage' = "silent" /\ UNCHANGED read
    /\ UNCHANGED <<granted, table, calls, call, message, outcome, failed, said, queue>>

Reply(cancelled, mutations, effects) ==
    [kind |-> "reply", cancelled |-> cancelled, mutations |-> mutations, effects |-> effects]

\* The values a verdict may carry; the result of a command carries none.
Mutations == IF read.kind = "event" THEN FieldLists ELSE {<<>>}

\* The handler answers; EncodeVerdict and EncodeCommandResult refuse what
\* another build may send all the same.
HandlerAnswers ==
    /\ stage = "running"
    /\ \E effects \in EffectLists, cancelled \in BOOLEAN, foreign \in BOOLEAN :
          \E mutations \in Mutations :
             /\ message' = Reply(cancelled, mutations, effects)
             /\ foreign \/ AnswerPasses(message')
             /\ said' = effects
    /\ stage' = "replied"
    /\ UNCHANGED <<granted, table, calls, call, read, outcome, failed, queue>>

\* The handler fails: the runtime answers for it, by the policy it read.
HandlerFails ==
    /\ stage = "running"
    /\ message' = Reply(read.kind = "event" /\ read.policy = FailureDeny, <<>>, <<>>)
    /\ failed' = TRUE
    /\ stage' = "replied"
    /\ UNCHANGED <<granted, table, calls, call, read, outcome, said, queue>>

-----------------------------------------------------------------------------
(* The host hears, or stops waiting.                                       *)

Verdict(cancelled) == IF cancelled THEN "cancelled" ELSE "proceeds"
ByPolicy == Verdict(call.kind = "event" /\ call.policy = "deny")

\* DecodeVerdict and DecodeCommandResult; an answer that comes late is dropped.
HostHears ==
    /\ stage = "replied"
    /\ stage' = "idle"
    /\ \/ outcome # "waiting" /\ UNCHANGED <<outcome, failed, queue>>
       \/ /\ outcome = "waiting"
          /\ queue' = queue \o Taken(message)
          /\ IF AnswerPasses(message)
             THEN outcome' = Verdict(message.cancelled) /\ UNCHANGED failed
             ELSE outcome' = ByPolicy /\ failed' = TRUE
    /\ UNCHANGED <<granted, table, calls, call, message, read, said>>

HostStopsWaiting ==
    /\ stage \in {"sent", "running", "replied", "silent"}
    /\ outcome = "waiting"
    /\ outcome' = ByPolicy
    /\ failed' = TRUE
    /\ UNCHANGED <<granted, table, stage, calls, call, message, read, said, queue>>

\* The runtime had nothing to answer, and is called again.
NothingToHear ==
    /\ stage = "silent"
    /\ outcome # "waiting"
    /\ stage' = "idle"
    /\ UNCHANGED <<granted, table, calls, call, message, read, outcome, failed, said, queue>>

Next ==
    \/ Load \/ Grant
    \/ SendEvent \/ ForeignEvent \/ SendInvoke \/ ForeignInvoke
    \/ RuntimeReads \/ HandlerAnswers \/ HandlerFails
    \/ HostHears \/ HostStopsWaiting \/ NothingToHear

Spec == Init /\ [][Next]_vars
-----------------------------------------------------------------------------
(* Properties.                                                             *)

\* The handlers registered for an event: by its id, or by its name.
Handled(event) ==
    IF \E i \in DOMAIN table : table[i].id = event.id THEN Bound(table, event.id) ELSE event.type

\* Whatever a handler is run with is what the host wrote: the event by its
\* name, the policy and each argument type by theirs, though the numbers of
\* the two enumerations differ and a newer build may use more of them
\* (command.go:5, "a cast would turn a value from a newer runtime into
\* whichever constant happened to share its number, silently").
ReadAsWritten ==
    stage = "running" =>
        \/ /\ read.kind = "event"
           /\ Handled(read) = call.event
           /\ Named(PolicyNames, read.policy) = call.policy
        \/ /\ read.kind = "invoke"
           /\ [i \in DOMAIN read.types |-> Named(TypeNames, read.types[i])] = call.types

\* An event whose subscriber failed is cancelled exactly when its policy is
\* to deny, whether the host stopped waiting, could not decode the answer, or
\* the runtime answered for the handler (envelope.proto: the policy "travels
\* with the event so the runtime can answer correctly").
FailClosedHolds ==
    call.kind = "event" /\ failed /\ outcome # "waiting" =>
        (outcome = "cancelled" <=> call.policy = "deny")

\* A handler is allowed what the manifest declares in any block and the player
\* held when the command was sent, no node more and none less (command.go:77);
\* from another build, only what some pair says.
AllowedIsDeclaredAndHeld ==
    stage = "running" /\ call.kind = "invoke" =>
        \A node \in Nodes :
            IF call.foreign
            THEN Allowed(read.permissions, node) =>
                    \E i \in DOMAIN read.permissions :
                        Answers(read.permissions[i], node) /\ read.permissions[i].of[2].of
            ELSE Allowed(read.permissions, node) <=>
                    /\ node \in call.held
                    /\ \E i \in DOMAIN Blocks : node \in ToSet(Blocks[i].perms)

\* The effects of an answer are queued together and in order, or not at all:
\* one that cannot be decoded takes the others with it, as does a mutation,
\* and an answer that came late or belongs to an earlier call adds nothing.
EffectsWholeInOrder ==
    [][queue' = queue \/ (queue' = queue \o said /\ outcome = "waiting" /\ ~failed')]_vars
=============================================================================
