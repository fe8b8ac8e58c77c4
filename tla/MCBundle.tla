------------------------------ MODULE MCBundle -------------------------------
(***************************************************************************)
(* Archives for TLC: every spelling of two or three entries, entries at    *)
(* and around their limits that fail to open, read or close, manifests     *)
(* with every refusal, and manifests with every chain of three records.    *)
(***************************************************************************)
EXTENDS BlankShape

CONSTANTS A, B, C, int, player

Path(elems) == [abs |-> FALSE, backslash |-> FALSE, elems |-> elems]
Entry(path, holds) ==
    [path |-> path, size |-> 1, length |-> 1, fault |-> "none", holds |-> holds]

Field(name, prefix, element) ==
    [name |-> name, type |-> [prefix |-> prefix, element |-> element]]
Record(name, fields) == [name |-> name, fields |-> fields]
Event(type, fields) == [type |-> type, fields |-> fields]
Block(event, priority, perms) == [event |-> event, priority |-> priority, perms |-> perms]

Simple ==
    [known |-> TRUE, id |-> "shop", version |-> "1", api |-> 1, runtime |-> "go",
     tree |-> NoTree, subscribe |-> <<>>, types |-> <<>>, provides |-> <<>>]

TreePath == Path(<<"cmd", "tree">>)
Commanded == [Simple EXCEPT !.tree = TreePath]
Toml(text) == [kind |-> "toml", text |-> text]
Tree == [kind |-> "tree", text |-> Simple]
Junk == [kind |-> "junk", text |-> Simple]

ManifestEntry(text) == Entry(Path(<<"plugin.toml">>), Toml(text))
TreeEntry == Entry(TreePath, Tree)
Archive(entries) == [fault |-> "none", entries |-> entries]
Packed(text) == Archive(<<ManifestEntry(text), TreeEntry>>)

-----------------------------------------------------------------------------
Texts ==
    LET blocks == { Block(e, p, n) : e \in {"break", " "}, p \in {"", "high", "urgent"},
                                     n \in {<<>>, <<"p">>, <<"q", "p">>, <<"p", "p">>, <<" ">>} }
        trees == { Path(<<".">>), Path(<<"..">>), Path(<<"..", "tree">>), Path(<<"cmd", "", "tree">>),
                   Path(<<"x", "..", "tree">>), Path(<<"plugin.toml">>), Path(<<"none">>), TreePath,
                   [TreePath EXCEPT !.abs = TRUE], [TreePath EXCEPT !.backslash = TRUE] }
        provided == { Event(t, f) :
                        t \in {<<"shop", "buy">>, <<"buy">>, <<"shop", "buy", "buy">>, <<"", "buy">>},
                        f \in {<<>>, <<Field("f", "list", A)>>, <<Field("?", "none", int)>>,
                               <<Field("f", "none", int), Field("f", "none", int)>>} }
        tables == { <<>>, <<Record(A, <<Field("f", "none", int)>>)>>,
                    <<Record(A, <<Field("f", "list", A)>>)>>,
                    <<Record(int, <<Field("f", "none", A)>>), Record(A, <<Field("f", "map", int)>>)>> }
    IN  { [Simple EXCEPT !.subscribe = <<b>>] : b \in blocks }
        \cup { [Simple EXCEPT !.subscribe = <<b, Block(e, "low", <<"p">>)>>] :
                   b \in blocks, e \in {"break", "join"} }
        \cup { [Simple EXCEPT !.tree = t] : t \in trees }
        \cup { [Simple EXCEPT !.types = t, !.provides = <<p>>] : t \in tables, p \in provided }
        \cup { [Simple EXCEPT !.types = t, !.provides = <<p, Event(<<"shop", n>>, <<>>)>>] :
                   t \in tables, p \in provided, n \in {"buy", "sell"} }
        \cup { [Simple EXCEPT !.known = FALSE], [Simple EXCEPT !.id = " "], [Simple EXCEPT !.api = 2],
               [Simple EXCEPT !.version = " "], [Simple EXCEPT !.runtime = ""] }

Spellings ==
    { Path(e) : e \in { <<"plugin.toml">>, <<"plugin.toml", "">>, <<"x", "..", "plugin.toml">>,
                        <<"x", "plugin.toml">>, <<"cmd", "tree">>, <<".", "cmd", "", "tree">>, <<"">>,
                        <<"..", "cmd", "tree">>, <<"x", "..", "..", "plugin.toml">>, <<"x", "..">> } }
    \cup {[TreePath EXCEPT !.abs = TRUE], [TreePath EXCEPT !.backslash = TRUE]}

Spelled ==
    { <<Entry(p, Toml(Commanded)), Entry(q, Tree)>> : p \in Spellings, q \in Spellings }
    \cup { <<Entry(p, Toml(Commanded)), TreeEntry, Entry(q, h)>> :
               p \in Spellings, q \in Spellings, h \in {Tree, Toml(Simple)} }
    \cup {<<>>}

Faulty ==
    LET faults(entry, limit) ==
          { [entry EXCEPT !.size = s, !.length = n, !.fault = f, !.holds = h] :
                s \in limit .. limit + 1, n \in limit .. limit + 1,
                f \in {"none", "open", "read", "close"}, h \in {entry.holds, Junk} }
    IN  { <<m, TreeEntry>> : m \in faults(ManifestEntry(Commanded), MaxManifestSize) }
        \cup { <<t, ManifestEntry(Commanded)>> : t \in faults(TreeEntry, MaxTreeSize) }

\* Records nested in every way, and an event with fields of every kind.
Nested ==
    LET inner == [prefix : TypePrefixes, element : {B, C, int}]
        leaf == [prefix : TypePrefixes, element : {int, player}]
        field(type) == <<[name |-> "f", type |-> type]>>
        event == Event(<<"shop", "buy">>,
                       <<Field("f", "none", A), Field("g", "list", A), Field("h", "map", A),
                         Field("i", "list", player), Field("j", "map", int)>>)
    IN  { [Simple EXCEPT !.types = <<Record(A, field(x)), Record(B, field(y)), Record(C, field(z))>>,
                         !.provides = <<event>>] : x \in inner, y \in inner, z \in leaf }

MCArchives ==
    { Archive(e) : e \in Spelled \cup Faulty }
    \cup { Packed(t) : t \in Texts \cup Nested }
    \cup { [Packed(Commanded) EXCEPT !.fault = f] : f \in {"zip", "cwd"} }

NestedArchives == { Packed(t) : t \in Nested }
MCTables == { t.types : t \in Texts \cup Nested }
MCOrder == <<A, B, C, int>>
MCKindOf == [s \in {int} |-> "int64"]
=============================================================================
