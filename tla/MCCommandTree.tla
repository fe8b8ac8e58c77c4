---------------------------- MODULE MCCommandTree ----------------------------
(***************************************************************************)
(* Trees of up to four levels and five nodes, against limits of three and  *)
(* four; an int64 of four bits and a double of two.  A file has one byte   *)
(* for each node and one for each permission, and five are too many.       *)
(* Neither bad nor worse is UTF-8, and json writes fffd for both.          *)
(***************************************************************************)
EXTENDS CommandTree

CONSTANTS x, y, odd, op, blank, bad, worse, fffd

MCMinInt == -8

MCFileSize(docs) ==
    Cardinality(DOMAIN docs) + Cardinality({ p \in DOMAIN docs : docs[p].permission # None })

MCMended == (bad :> fffd) @@ (worse :> fffd)
NoMended == <<>>

\* Trees of one command, side by side, and the commands below a node.
Beside(trees) ==
    [p \in UNION { { <<i>> \o Tail(q) : q \in DOMAIN trees[i] } : i \in DOMAIN trees } |->
        trees[p[1]][<<1>> \o Tail(p)]]

Under(n, trees) ==
    (<<1>> :> n) @@ [p \in { <<1>> \o q : q \in DOMAIN Beside(trees) } |-> Beside(trees)[Tail(p)]]

Lit(n, exec, trees) == Under(Literal(n, None, exec), trees)
Arg(n, type, exec, trees) == Under(Argument(n, type, <<>>, None, Free, Free, exec), trees)

\* Arguments of every kind of content, right and wrong.
Leaves ==
    { Under(Argument(x, ArgInteger, <<>>, None, <<lo, hi>>, Free, 1), <<>>) :
          lo \in {None, -8, -7, 0, 5}, hi \in {None, 3, 5, 6, 7} }
    \cup { Under(Argument(x, ArgDecimal, <<>>, None, Free, <<lo, hi>>, 1), <<>>) :
          lo \in {None, -3, Infinity, NaN}, hi \in {None, 3, Infinity, NaN} }
    \cup { Under(Argument(x, type, enum, custom, Free, Free, 1), <<>>) :
          type \in {0, 3, ArgEnum, ArgCustom}, enum \in {<<>>, <<x>>, <<x, y>>, <<x, x>>},
          custom \in {None, y, blank} }
    \cup { Under(Argument(x, ArgDecimal, <<>>, None, <<0, 0>>, Free, 1), <<>>),
           Under(Argument(x, ArgInteger, <<>>, None, Free, <<0, 0>>, 1), <<>>),
           Arg(x, ArgGreedy, 1, <<Lit(y, 2, <<>>)>>),
           Arg(x, ArgGreedy, 1, <<>>) }

Subtrees ==
    LET leaves == { Under(Literal(n, g, e), <<>>) : n \in {x, y}, g \in {None, op}, e \in {0, 1, 2} }
        deeper == { Lit(x, e, <<l>>) : e \in {0, 3}, l \in leaves }
    IN  leaves \cup deeper \cup { Arg(y, 3, e, <<l>>) : e \in {0, 3}, l \in leaves }

Shapes ==
    { Lit(x, 0, <<s>>) : s \in Subtrees \cup Leaves }
    \cup { Under(Literal(x, op, e), <<s, t>>) : e \in {0, 4}, s \in Subtrees, t \in Subtrees }
    \cup { Beside(<<Lit(x, 0, <<Lit(x, e, <<s>>)>>), Lit(y, 5, <<>>)>>) : e \in {0, 4}, s \in Subtrees }

\* Texts that are not UTF-8, where Validate does not look.
Garbled ==
    LET enums == { Argument(x, ArgEnum, e, None, Free, Free, 1) :
                       e \in {<<bad>>, <<bad, y>>, <<bad, worse>>, <<fffd, bad>>} }
        leaves == enums \cup { Argument(bad, ArgCustom, <<>>, y, Free, Free, 1),
                              Argument(x, ArgCustom, <<>>, bad, Free, Free, 1),
                              Literal(x, bad, 1) }
    IN  { Lit(x, 0, <<Under(n, <<>>)>>) : n \in leaves }
        \cup { Beside(<<Lit(n, 1, <<>>), Lit(worse, 2, <<>>)>>) : n \in {x, bad} }

MCTrees ==
    Shapes \cup Garbled \cup { <<>>, Arg(x, 3, 1, <<>>), Lit(odd, 1, <<>>) }

Doc(argument, permission, kind, options, custom, range) ==
    [argument |-> argument, name |-> y, permission |-> permission, kind |-> kind,
     options |-> options, custom |-> custom, range |-> range, runs |-> TRUE]

Extracted(docs) == Under([Doc(FALSE, op, None, None, None, Free) EXCEPT !.name = x], <<docs>>)

Loose ==
    { Doc(a, g, k, o, c, r) :
          a \in BOOLEAN, g \in {None, op}, k \in {None, ArgInteger, 3, ArgEnum, odd},
          o \in {None, <<>>, <<x>>}, c \in {None, y}, r \in {Free, <<-3, 17>>} }

MCDocuments ==
    { Extracted(Under(d, <<>>)) : d \in Loose }
    \cup { Beside(<<Extracted(Under(d, <<>>)),
                   Under(Doc(FALSE, None, None, None, None, Free), <<Under(e, <<>>)>>)>>) :
           d \in { l \in Loose : ~l.argument /\ l.range = Free },
           e \in { l \in Loose : l.argument /\ l.kind = 3 } }
    \cup {<<>>}

WireNode(kind, permission, type, enum, range) ==
    [kind |-> kind, name |-> x, permission |-> permission, type |-> type, enum |-> enum,
     custom |-> None, integer |-> range, decimal |-> Free, executor |-> 1]

MCWireTrees ==
    { Under(WireNode("literal", None, 0, <<>>, Free), <<Under(w, <<>>)>>) :
          w \in { WireNode(k, g, t, e, r) :
                      k \in {"literal", "argument", "unspecified"}, g \in {None, op},
                      t \in {0, 1, 10, 11, 12, -246, -255}, e \in {<<>>, <<x>>, <<bad>>},
                      r \in {Free, <<1, 2>>} } }
    \cup {<<>>}
=============================================================================
