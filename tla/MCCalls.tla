------------------------------- MODULE MCCalls -------------------------------
(***************************************************************************)
(* Two calls into a plugin that subscribes twice and shares a node between *)
(* the two; every number of both enumerations, the first ones beyond them, *)
(* and one that a cast to eight bits would take for another.               *)
(***************************************************************************)
EXTENDS Calls

MCBlocks ==
    <<[event |-> "block.break", priority |-> "", perms |-> <<"p", "q">>],
      [event |-> "shop/buy", priority |-> "high", perms |-> <<"q", "r">>]>>

Binding(id, type) == [id |-> id, type |-> type]
MCBindingTables ==
    { <<>>, <<Binding(1, "shop/buy"), Binding(2, "shop/sell")>>,
      <<Binding(0, "shop/buy")>>, <<Binding(1, "shop/buy"), Binding(2, "")>> }

MCTypeLists ==
    { <<t>> : t \in (0 .. 12) \cup {258} } \cup {<<3, 0>>}

Console == List(<<>>)
MCPlayers == {Console, NoKind}
MCArgumentValues == {Console, NoKind}
MCFieldLists == { <<>>, <<Console, NoKind>> }

MCForeignPairs ==
    { <<>>,
      <<Scalar("string", "p"), List(<<Scalar("string", "s")>>), Pair("p", FALSE), Pair("p", TRUE)>>,
      <<List(<<Scalar("bytes", "p"), Scalar("bool", TRUE)>>),
        List(<<Scalar("string", "s"), Scalar("int64", TRUE)>>), Pair("s", TRUE)>>,
      <<Pair("p", TRUE), NoKind>> }

Effect(type, value) == [type |-> type, fields |-> <<value>>]
MCEffectLists ==
    LET line == Effect("chat.message", Scalar("string", "hello"))
        teleport == Effect("teleport", Console)
        broken == Effect("chat.message", NoKind)
    IN  { <<>>, <<line, teleport>>, <<line, broken>>, <<broken, teleport>> }
=============================================================================
