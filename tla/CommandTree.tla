----------------------------- MODULE CommandTree -----------------------------
(***************************************************************************)
(* A command tree on its way from a plugin's source to a host, through     *)
(* src/command: the neutral file a build tool writes (EncodeIntermediate,  *)
(* DecodeIntermediate), the commands.pb of a bundle (EncodeTree,           *)
(* DecodeTree), and the rules both ends check (Validate).                  *)
(*                                                                         *)
(* A tree is a function on places.  The place of a node says which of its  *)
(* siblings each node from the root down to it is: <<2, 1>> is the first   *)
(* child of the second command.                                            *)
(*                                                                         *)
(* A decimal is an integer that counts halves, so that it can hold what an *)
(* integer bound cannot; a double has MantissaBits bits, an int64 the      *)
(* range MinInt .. MaxInt.  A name, a permission, a type id and an enum    *)
(* value are compared and never looked into, but for whether there is      *)
(* something to see in them and whether they are UTF-8.                    *)
(***************************************************************************)
EXTENDS Integers, SequencesExt

CONSTANTS
    Trees,          \* the roots a Go plugin or a build tool may assemble
    Documents,      \* the files an extractor may write
    WireTrees,      \* the trees another encoder may ship
    ValidNames,     \* the names nodeIdentity accepts
    None,           \* an empty string, a nil pointer, nil options
    Blanks,         \* the texts that strings.TrimSpace leaves nothing of
    Mended,         \* what encoding/json writes for each text that is not UTF-8
    FileSize(_),    \* the bytes of a neutral file
    MaxFileSize,    \* maximumIntermediateSize
    NaN, Infinity,  \* the doubles that are no number; Infinity is an integer
    MantissaBits, MinInt, MaxInt,
    MaxNodes, MaxDepth   \* maximumCommandNodes, maximumCommandDepth

ArgInteger == 1
ArgDecimal == 2
ArgGreedy == 4
ArgEnum == 10
ArgCustom == 11

Free == <<None, None>>   \* the range of an argument that has none

Literal(name, permission, exec) ==
    [node |-> "literal", name |-> name, permission |-> permission, exec |-> exec]

Argument(name, type, enum, custom, integer, decimal, exec) ==
    [node |-> "argument", name |-> name, type |-> type, enum |-> enum,
     custom |-> custom, integer |-> integer, decimal |-> decimal, exec |-> exec]

\* Every node has its parent and its earlier siblings in the tree.
IsTree(t) ==
    /\ IsFiniteSet(DOMAIN t) /\ t = [p \in DOMAIN t |-> t[p]]
    /\ \A p \in DOMAIN t :
          /\ p \in Seq(Nat \ {0}) /\ p # <<>>
          /\ Front(p) \in DOMAIN t \cup {<<>>}
          /\ Last(p) = 1 \/ Append(Front(p), Last(p) - 1) \in DOMAIN t

Leaf(t, p) == \A q \in DOMAIN t : Front(q) # p

-----------------------------------------------------------------------------
(* Validate.                                                               *)

KnownType_upTo(type) == type <= ArgCustom
KnownType(type) == type \in ArgInteger .. ArgCustom

Ordered(range) == None \in {range[1], range[2]} \/ range[1] <= range[2]

ValidArgument(a) ==
    /\ (a.type = ArgEnum) <=> (a.enum # <<>>)
    /\ IsInjective(a.enum)
    /\ IF a.type = ArgCustom THEN a.custom \notin Blanks ELSE a.custom = None
    /\ a.integer # Free => a.type = ArgInteger
    /\ Ordered(a.integer)
    /\ a.decimal # Free => a.type = ArgDecimal
    /\ NaN \notin {a.decimal[1], a.decimal[2]}
    /\ Ordered(a.decimal)

ValidNode(t, p) ==
    /\ t[p].node = "argument" =>
          /\ KnownType(t[p].type)
          /\ ValidArgument(t[p])
          /\ t[p].type = ArgGreedy => Leaf(t, p)
    /\ t[p].exec # 0 \/ ~Leaf(t, p)

ValidChildren(t) ==
    /\ \A p \in DOMAIN t : t[p].name \in ValidNames /\ ValidNode(t, p)
    /\ \A p, q \in DOMAIN t :
          /\ Front(p) = Front(q)
          /\ t[p].node = t[q].node
          /\ t[p].name = t[q].name
          => p = q

Valid(t) ==
    /\ t # <<>>
    /\ \A p \in DOMAIN t : Len(p) = 1 => t[p].node = "literal"
    /\ ValidChildren(t)

Executors(t) == { t[p].exec : p \in DOMAIN t } \ {0}

-----------------------------------------------------------------------------
(* Texts.                                                                  *)

UTF8(texts) == texts \cap DOMAIN Mended = {}

\* What encoding/json makes of a text.
JsonText(text) == IF UTF8({text}) THEN text ELSE Mended[text]

-----------------------------------------------------------------------------
(* Bounds.  The neutral file has one kind of number, a double.             *)

\* |v| to MantissaBits bits, to nearest and then to even.
RoundedMagnitude(v) ==
    LET ulp == CHOOSE u \in {2 ^ e : e \in 0 .. MaxInt} :
                   /\ v < u * 2 ^ MantissaBits
                   /\ u = 1 \/ v >= (u \div 2) * 2 ^ MantissaBits
        down == v \div ulp
        rest == 2 * (v % ulp)
    IN  ulp * (IF rest > ulp \/ (rest = ulp /\ down % 2 = 1) THEN down + 1 ELSE down)

\* float64(*value), counted in halves.
DecimalBound(v) ==
    IF v = None THEN None
    ELSE 2 * (IF v < 0 THEN -RoundedMagnitude(-v) ELSE RoundedMagnitude(v))

\* int64(*value).  What a double out of range becomes is up to the machine.
WholeBound(d, saturating) ==
    IF d = None THEN None
    ELSE LET whole == IF d < 0 THEN -((-d) \div 2) ELSE d \div 2
         IN  IF whole \in MinInt .. MaxInt THEN whole
             ELSE IF saturating /\ whole > MaxInt THEN MaxInt
             ELSE MinInt

\* A node as the code can hold it: an int64 or nothing for a bound.
IsNode(n) ==
    IF n.node = "literal"
    THEN n = Literal(n.name, n.permission, n.exec)
    ELSE /\ n = Argument(n.name, n.type, n.enum, n.custom, n.integer, n.decimal, n.exec)
         /\ n.enum # None /\ n.enum = [i \in DOMAIN n.enum |-> n.enum[i]]
         /\ n.integer \in ((MinInt .. MaxInt) \cup {None}) \X ((MinInt .. MaxInt) \cup {None})
         /\ n.decimal = <<n.decimal[1], n.decimal[2]>>

\* What a file says, in words.
FileTexts(d) ==
    {d.name, d.permission, d.custom} \cup IF d.options = None THEN {} ELSE ToSet(d.options)

\* The double of an int64 is finite.  What json has mended is UTF-8, and so is
\* whatever json reads from a file.
ASSUME CommandTreeAssumption ==
    /\ MantissaBits \in Nat \ {0}
    /\ MinInt \in Int /\ MaxInt \in Nat /\ MinInt = -MaxInt - 1
    /\ Infinity \in Int /\ None \notin Int
    /\ \A v \in MinInt .. MaxInt : DecimalBound(v) \notin {Infinity, -Infinity}
    /\ MaxNodes \in Nat /\ MaxDepth \in Nat /\ MaxFileSize \in Nat
    /\ None \in Blanks /\ UTF8(Blanks) /\ \A t \in DOMAIN Mended : UTF8({Mended[t]})
    /\ \A t \in Trees \cup Documents \cup WireTrees : IsTree(t)
    /\ \A t \in Trees : \A p \in DOMAIN t : IsNode(t[p])
    /\ \A t \in Documents : \A p \in DOMAIN t : t[p].runs \in BOOLEAN /\ UTF8(FileTexts(t[p]))

-----------------------------------------------------------------------------
(* The neutral form.                                                       *)

\* What the file says of a node's executor.
RunsFlag_leavesOnly(t, p) == t[p].exec # 0 /\ Leaf(t, p)
RunsFlag(t, p) == t[p].exec # 0

DescribeIntermediate(t, p) ==
    LET n == t[p]
        range == CASE n.type = ArgInteger ->
                          <<DecimalBound(n.integer[1]), DecimalBound(n.integer[2])>>
                   [] n.type = ArgDecimal -> n.decimal
                   [] OTHER -> Free
    IN  IF n.node = "literal"
        THEN [argument |-> FALSE, name |-> JsonText(n.name), permission |-> JsonText(n.permission),
              kind |-> None, options |-> None, custom |-> None, range |-> Free,
              runs |-> RunsFlag(t, p)]
        ELSE [argument |-> TRUE, name |-> JsonText(n.name), permission |-> None, kind |-> n.type,
              options |-> IF n.enum = <<>> THEN None
                          ELSE [i \in DOMAIN n.enum |-> JsonText(n.enum[i])],
              custom |-> JsonText(n.custom), range |-> range, runs |-> RunsFlag(t, p)]

Described(t) == [p \in DOMAIN t |-> DescribeIntermediate(t, p)]

\* encoding/json has no way to write an infinity.
Marshals(docs) ==
    \A p \in DOMAIN docs : {Infinity, -Infinity} \cap {docs[p].range[1], docs[p].range[2]} = {}

\* What DecodeIntermediate reads at all.
Fits(docs) == FileSize(docs) <= MaxFileSize

\* The names of the kinds of arguments, as the file spells them.
KnownKind(kind) == kind \in ArgInteger .. ArgCustom

Converts(d) ==
    /\ ~d.argument => d.kind = None /\ d.options = None /\ d.range = Free
    /\ d.argument =>
          /\ d.permission = None
          /\ KnownKind(d.kind)
          /\ d.range # Free => d.kind \in {ArgInteger, ArgDecimal}

\* When the walk is done with p it is done with what is inside of p, and with
\* the earlier siblings of p and of all that p is inside of.
DoneBy_inside(q, p) == IsPrefix(p, q)
DoneBy(q, p) ==
    \/ IsPrefix(p, q)
    \/ \E i \in DOMAIN p \cap DOMAIN q :
          q[i] < p[i] /\ \A k \in 1 .. i - 1 : q[k] = p[k]

\* The counter when the walk is done with p.
Minted(docs, p) == Cardinality({ q \in DOMAIN docs : docs[q].runs /\ DoneBy(q, p) })

ConvertIntermediate(docs, p, saturating) ==
    LET d == docs[p]
        exec == IF d.runs THEN Minted(docs, p) ELSE 0
        whole == <<WholeBound(d.range[1], saturating), WholeBound(d.range[2], saturating)>>
    IN  IF ~d.argument
        THEN Literal(d.name, d.permission, exec)
        ELSE Argument(d.name, d.kind, IF d.options = None THEN <<>> ELSE d.options, d.custom,
                      IF d.kind = ArgInteger THEN whole ELSE Free,
                      IF d.kind = ArgDecimal THEN d.range ELSE Free, exec)

-----------------------------------------------------------------------------
(* The wire form.                                                          *)

EncodeNode(n) ==
    IF n.node = "literal"
    THEN [kind |-> "literal", name |-> n.name, permission |-> n.permission, type |-> 0,
          enum |-> <<>>, custom |-> None, integer |-> Free, decimal |-> Free,
          executor |-> n.exec]
    ELSE [kind |-> "argument", name |-> n.name, permission |-> None, type |-> n.type,
          enum |-> n.enum, custom |-> n.custom, integer |-> n.integer,
          decimal |-> n.decimal, executor |-> n.exec]

\* protobuf neither writes nor reads a text that is not UTF-8.
WireTexts(w) == {w.name, w.permission, w.custom} \cup ToSet(w.enum)
ProtoCarries(nodes) == \A p \in DOMAIN nodes : UTF8(WireTexts(nodes[p]))

WithinLimits_exclusive(nodes) ==
    Cardinality(DOMAIN nodes) < MaxNodes /\ \A p \in DOMAIN nodes : Len(p) <= MaxDepth
WithinLimits(nodes) ==
    Cardinality(DOMAIN nodes) <= MaxNodes /\ \A p \in DOMAIN nodes : Len(p) <= MaxDepth

GuardFits_anywhere(w) == TRUE
GuardFits(w) == w.kind = "argument" => w.permission = None

ConvertsNode(w) ==
    /\ w.kind \in {"literal", "argument"}
    /\ w.kind = "literal" =>
          /\ w.type = 0 /\ w.enum = <<>> /\ w.custom = None
          /\ w.integer = Free /\ w.decimal = Free
    /\ GuardFits(w)
    /\ w.kind = "argument" => w.type <= ArgCustom

\* The type is an int32 on the wire and a uint8 in the tree.
ConvertNode(w) ==
    IF w.kind = "literal"
    THEN Literal(w.name, w.permission, w.executor)
    ELSE Argument(w.name, w.type % 256, w.enum, w.custom, w.integer, w.decimal, w.executor)

-----------------------------------------------------------------------------
(* The way of one tree.                                                    *)

VARIABLES
    stage,       \* how far the commands have come
    saturates,   \* what the build machine makes of an int64 out of range
    author,      \* the root a Go plugin declared, if the commands come from one
    file,        \* the neutral file
    built,       \* the root the build has, with its executor ids
    wire,        \* commands.pb
    host         \* the root the host loaded

vars == <<stage, saturates, author, file, built, wire, host>>

Init ==
    /\ stage = "start"
    /\ saturates \in BOOLEAN
    /\ author = <<>> /\ file = <<>> /\ built = <<>> /\ wire = <<>> /\ host = <<>>

\* By a plugin that declares its tree as code.
EncodeIntermediate ==
    /\ stage = "start"
    /\ \E root \in Trees :
          LET ok == Valid(root) /\ Marshals(Described(root))
          IN  /\ author' = root
              /\ file' = IF ok THEN Described(root) ELSE <<>>
              /\ stage' = IF ok THEN "file" ELSE "refused"
    /\ UNCHANGED <<saturates, built, wire, host>>

\* An extractor of another language writes the file.  One that json does not
\* decode, or of another version, counts as a file of no commands.
Extract ==
    /\ stage = "start"
    /\ file' \in Documents
    /\ stage' = "file"
    /\ UNCHANGED <<saturates, author, built, wire, host>>

DecodeIntermediate ==
    /\ stage = "file"
    /\ LET root == [p \in DOMAIN file |-> ConvertIntermediate(file, p, saturates)]
           ok == /\ Fits(file) /\ file # <<>>
                 /\ \A p \in DOMAIN file : Converts(file[p])
                 /\ Valid(root)
       IN  /\ built' = IF ok THEN root ELSE <<>>
           /\ stage' = IF ok THEN "built" ELSE "refused"
    /\ UNCHANGED <<saturates, author, file, wire, host>>

\* A build tool that is written in Go assembles the tree and its ids itself.
Assemble ==
    /\ stage = "start"
    /\ built' \in Trees
    /\ stage' = "built"
    /\ UNCHANGED <<saturates, author, file, wire, host>>

EncodeTree ==
    /\ stage = "built"
    /\ LET tree == [p \in DOMAIN built |-> EncodeNode(built[p])]
           ok == Valid(built) /\ ProtoCarries(tree)
       IN  /\ wire' = IF ok THEN tree ELSE <<>>
           /\ stage' = IF ok THEN "shipped" ELSE "refused"
    /\ UNCHANGED <<saturates, author, file, built, host>>

\* The bundle was not written by this repository's encoder.  What protobuf does
\* not parse, or the version check refuses, counts as a tree of no commands.
ShipForeign ==
    /\ stage = "start"
    /\ wire' \in WireTrees
    /\ stage' = "shipped"
    /\ UNCHANGED <<saturates, author, file, built, host>>

DecodeTree ==
    /\ stage = "shipped"
    /\ LET root == [p \in DOMAIN wire |-> ConvertNode(wire[p])]
           ok == /\ ProtoCarries(wire)
                 /\ WithinLimits(wire) /\ \A p \in DOMAIN wire : ConvertsNode(wire[p])
                 /\ Valid(root)
       IN  /\ host' = IF ok THEN root ELSE <<>>
           /\ stage' = IF ok THEN "loaded" ELSE "hostRefused"
    /\ UNCHANGED <<saturates, author, file, built, wire>>

Terminated == stage \in {"refused", "hostRefused", "loaded"} /\ UNCHANGED vars

Next ==
    \/ EncodeIntermediate \/ Extract \/ DecodeIntermediate \/ Assemble
    \/ EncodeTree \/ ShipForeign \/ DecodeTree \/ Terminated

Spec == Init /\ [][Next]_vars
-----------------------------------------------------------------------------
(* Properties.                                                             *)

\* A root is empty until its stage, and no root that passed Validate holds an
\* argument of a type the renderers do not know (tree.go:24).
TypeOK ==
    /\ stage \in {"start", "file", "built", "shipped", "loaded", "refused", "hostRefused"}
    /\ saturates \in BOOLEAN
    /\ host # <<>> <=> stage = "loaded"
    /\ \A p \in DOMAIN host :
          host[p].node = "argument" => host[p].type \in ArgInteger .. ArgCustom

FromFile == file # <<>> /\ built # <<>>

\* The ids minted for a file are 1 .. n, one for each node that runs: no two
\* commands are invoked by one id, in whatever order the tree is walked
\* (intermediate.go:22, "They are minted here, once").
ExecutorsDense ==
    FromFile =>
        Executors(built) = 1 .. Cardinality({ p \in DOMAIN file : file[p].runs })

\* A root without its ids: which nodes run, and everything else they carry.
Forget(t) == [p \in DOMAIN t |-> [t[p] EXCEPT !.exec = (@ # 0)]]

\* JSON has the decimal bounds of a tree.
Finite(t) ==
    \A p \in DOMAIN t : t[p].node = "argument" =>
        {Infinity, -Infinity} \cap {t[p].decimal[1], t[p].decimal[2]} = {}

\* A double holds its integer bounds, and its texts are UTF-8.
Exact(t) ==
    \A p \in DOMAIN t :
        /\ UTF8(WireTexts(EncodeNode(t[p])))
        /\ t[p].node = "argument" =>
              \A k \in {1, 2} :
                 WholeBound(DecimalBound(t[p].integer[k]), saturates) = t[p].integer[k]

\* A valid tree that is declared as code has a file unless a decimal bound is
\* infinite (intermediate.go:117).  The build takes a file of 4 MiB at most, and
\* refuses one of them only if the tree is not exact.  What it builds it ships,
\* and that is the tree as it was declared, but for the ids, if the tree is
\* exact: names, permissions, what runs, and where.
BuildKeepsCommands ==
    author # <<>> /\ Valid(author) =>
        /\ file # <<>> <=> Finite(author)
        /\ file # <<>> /\ stage = "refused" /\ FileSize(file) <= MaxFileSize => ~Exact(author)
        /\ built # <<>> =>
              /\ FileSize(file) <= MaxFileSize /\ stage # "refused"
              /\ Exact(author) => Forget(built) = Forget(author)

GuardsKept(from, nodes) ==
    \A p \in DOMAIN from :
        from[p].permission # None =>
            /\ p \in DOMAIN nodes
            /\ nodes[p].node = "literal" /\ nodes[p].permission = from[p].permission

\* No permission is lost on the way to a host: whatever guards a node of a file
\* that builds or of a bundle that loads, whoever wrote it, guards that node
\* of the tree (decode.go:52, "never trusted from the bundle").
PermissionsSurvive ==
    /\ FromFile => GuardsKept(file, built)
    /\ stage = "loaded" => GuardsKept(wire, host)

\* What EncodeTree ships is what the host loads, node for node and id for id,
\* exactly when it is within the limits of the host (encode.go:13).
HostLoadsWhatWasBuilt ==
    built # <<>> /\ stage \in {"loaded", "hostRefused"} =>
        IF /\ Cardinality(DOMAIN built) <= MaxNodes
           /\ \A p \in DOMAIN built : Len(p) <= MaxDepth
        THEN host = built
        ELSE stage = "hostRefused"

\* "A bundle cannot ship something the host will refuse at load"
\* (encode.go:18): DecodeTree takes whatever EncodeTree made.
ShippedIsLoadable == built # <<>> => stage # "hostRefused"

\* EncodeIntermediate writes the tree "dropping the executor ids"
\* (intermediate.go:99), and nothing else: what is built from the file of a
\* valid tree is that tree.
OnlyIdsDropped == author # <<>> /\ built # <<>> => Forget(built) = Forget(author)
=============================================================================
