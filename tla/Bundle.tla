------------------------------- MODULE Bundle --------------------------------
(***************************************************************************)
(* A bundle on its way into a host: gcpkg.Open reads an archive of a build *)
(* tool, or of anybody (src/gcpkg/open.go, entry.go), decodes and          *)
(* validates its manifest (decode.go, with the record table of             *)
(* eventtype.go), reads its command tree, and the host then warms the      *)
(* events the plugin provides (blank.go).                                  *)
(***************************************************************************)
EXTENDS Blank, Manifest

CONSTANTS
    Archives,          \* the archives Open may be given
    MaxManifestSize,   \* maximumManifestSize
    MaxTreeSize        \* maximumCommandTreeSize

\* What may stand in an archive.
Paths == [abs : BOOLEAN, backslash : BOOLEAN, elems : Seq(STRING)]
ManifestTexts ==
    [known : BOOLEAN, id : STRING, version : STRING, api : Nat, runtime : STRING, tree : Paths,
     subscribe : Seq([event : STRING, priority : STRING, perms : Seq(STRING)]),
     types : Tables,
     provides : Seq([type : Seq(STRING), fields : Seq([name : STRING, type : Types])])]
ArchiveEntries ==
    [path : Paths, size : Nat, length : Nat, fault : {"none", "open", "read", "close"},
     holds : [kind : {"toml", "tree", "junk"}, text : ManifestTexts]]

ASSUME BundleAssumption ==
    /\ Archives \subseteq [fault : {"none", "zip", "cwd"}, entries : Seq(ArchiveEntries)]
    /\ MaxManifestSize \in Nat
    /\ MaxTreeSize \in Nat

VARIABLES
    archive,    \* its entries, in order, and what fails about the file itself
    step,       \* how far Open is
    at,         \* the entry, or the provided event, its loop is at
    found,      \* the entry that is the manifest; 0 before there is one
    manifest,   \* Bundle.Manifest
    blanks      \* the payloads of the warm dispatches, one an event

openVars == <<archive, step, at, found, manifest, blanks>>
bundleVars == <<vars, openVars>>

Entries == archive.entries
NoManifest == [subscriptions |-> <<>>, permissions |-> <<>>, tree |-> NoTree, provides |-> <<>>]

BundleInit ==
    /\ table = <<>> /\ Start
    /\ archive \in Archives
    /\ step = "zip"
    /\ at = 1 /\ found = 0
    /\ manifest = NoManifest
    /\ blanks = <<>>

Goto(next) == step' = next /\ UNCHANGED <<vars, archive, at, found, manifest, blanks>>
RefuseBundle == Goto("refused")

-----------------------------------------------------------------------------
(* The entries of the archive.                                             *)

OpenArchive ==
    /\ step = "zip"
    /\ Goto(IF archive.fault = "zip" THEN "refused" ELSE "scan")

\* The path leaves the root of the bundle.
Unsafe_asWritten(path) == path.abs \/ Head(path.elems) = ".."
Unsafe(path) == Clean(path).abs \/ Upwards(Clean(path))

\* One round of Open's loop over the entries.
ScanEntry ==
    /\ step = "scan"
    /\ at <= Len(Entries)
    /\ LET path == Entries[at].path
           isManifest == Clean(path) = ManifestFileName
       IN  IF Unsafe(path) \/ (isManifest /\ found # 0)
           THEN RefuseBundle
           ELSE /\ at' = at + 1
                /\ found' = IF isManifest THEN at ELSE found
                /\ UNCHANGED <<vars, archive, step, manifest, blanks>>

TooLarge_atLimit(size, limit) == size >= limit
TooLarge(size, limit) == size > limit

OpenManifest ==
    /\ step = "scan"
    /\ at > Len(Entries)
    /\ IF \/ found = 0
          \/ TooLarge(Entries[found].size, MaxManifestSize)
          \/ Entries[found].fault = "open"
       THEN RefuseBundle
       ELSE Goto("decode")

-----------------------------------------------------------------------------
(* DecodeManifest.                                                         *)

Content == Entries[found].holds
Parses(entry) ==
    /\ entry.fault # "read"
    /\ ~TooLarge(entry.length, MaxManifestSize)
    /\ entry.holds.kind = "toml"
    /\ entry.holds.text.known
    /\ \A i \in DOMAIN entry.holds.text.subscribe :
          KnownPriority(entry.holds.text.subscribe[i].priority)

\* io.ReadAll of no more than the limit and one byte, the TOML decoder, which
\* refuses unknown fields, and the conversion of each block.
ReadManifest ==
    /\ step = "decode"
    /\ IF Parses(Entries[found])
       THEN /\ manifest' = [subscriptions |-> ReadSubscriptions(Content.text.subscribe),
                            permissions |-> PermissionUnion(Content.text.subscribe),
                            tree |-> Content.text.tree,
                            provides |-> Content.text.provides]
            /\ table' = Content.text.types
            /\ step' = "validate"
            /\ UNCHANGED <<phase, index, state, stack, clock, finish, archive, at, found, blanks>>
       ELSE RefuseBundle

ValidateManifest ==
    /\ step = "validate"
    /\ Goto(IF ValidHead(Content.text) THEN "records" ELSE "refused")

\* validateRecords, as RecordGraph has it.
ValidateRecords ==
    /\ step = "records"
    /\ phase \in Running
    /\ Next
    /\ UNCHANGED openVars

RecordsDone ==
    /\ step = "records"
    /\ phase \notin Running
    /\ IF phase = "accepted"
       THEN at' = 1 /\ step' = "provides" /\ UNCHANGED <<vars, archive, found, manifest, blanks>>
       ELSE RefuseBundle

ProvidedBefore(i) == { manifest.provides[k].type : k \in 1 .. i - 1 }

\* One round of the loop of validateProvides.
ValidateProvided ==
    /\ step = "provides"
    /\ at <= Len(manifest.provides)
    /\ LET definition == manifest.provides[at]
       IN  IF /\ ValidEventType(definition.type)
              /\ definition.type \notin ProvidedBefore(at)
              /\ ValidFields(definition.fields)
              /\ Resolves(definition.fields)
           THEN at' = at + 1 /\ UNCHANGED <<vars, archive, step, found, manifest, blanks>>
           ELSE RefuseBundle

\* The manifest is decoded; closing its entry may still fail.
CloseManifest ==
    /\ step = "provides"
    /\ at > Len(manifest.provides)
    /\ Goto(IF Entries[found].fault = "close" THEN "refused"
            ELSE IF manifest.tree = NoTree THEN "locate" ELSE "tree")

-----------------------------------------------------------------------------
(* The command tree, and the end.                                          *)

Matches(name) == { i \in DOMAIN Entries : Clean(Entries[i].path) = name }

\* readBundleEntry returns the bytes of this entry.
Readable(entry, limit) ==
    /\ ~TooLarge(entry.size, limit)
    /\ entry.fault = "none"
    /\ ~TooLarge(entry.length, limit)

\* readBundleEntry, then command.DecodeTree.
ReadTree ==
    /\ step = "tree"
    /\ LET matches == Matches(Clean(manifest.tree))
       IN  Goto(IF \E i \in matches :
                      /\ matches = {i}
                      /\ Readable(Entries[i], MaxTreeSize)
                      /\ Entries[i].holds.kind = "tree"
                THEN "locate" ELSE "refused")

\* filepath.Abs.
Locate ==
    /\ step = "locate"
    /\ Goto(IF archive.fault = "cwd" THEN "refused" ELSE "loaded")

\* The host sends every provided event once, blank.
Warm ==
    /\ step = "loaded"
    /\ blanks' = [i \in DOMAIN manifest.provides |-> BlankFields(manifest.provides[i].fields)]
    /\ step' = "warm"
    /\ UNCHANGED <<vars, archive, at, found, manifest>>

Opened == step \in {"refused", "warm"} /\ UNCHANGED bundleVars

BundleNext ==
    \/ OpenArchive \/ ScanEntry \/ OpenManifest \/ ReadManifest \/ ValidateManifest
    \/ ValidateRecords \/ RecordsDone \/ ValidateProvided \/ CloseManifest
    \/ ReadTree \/ Locate \/ Warm \/ Opened

BundleSpec == BundleInit /\ [][BundleNext]_bundleVars
-----------------------------------------------------------------------------
(* What a whole archive is, said without the steps above.                  *)

\* How far a path is above where it started, between two of its elements.
Rise(elems, i, j) ==
    Cardinality({ k \in i .. j : elems[k] = ".." })
        - Cardinality({ k \in i .. j : elems[k] \notin {"", ".", ".."} })

Escapes(path) == path.abs \/ \E k \in DOMAIN path.elems : Rise(path.elems, 1, k) > 0

\* The elements of a path that no later ".." takes back.
Kept(elems) ==
    { i \in DOMAIN elems :
        /\ elems[i] \notin {"", ".", ".."}
        /\ \A j \in i + 1 .. Len(elems) : Rise(elems, i + 1, j) <= 0 }

\* These are the elements of a name, in their order.
Leads(elems, name) ==
    \E place \in [DOMAIN name -> DOMAIN elems] :
        /\ \A j, k \in DOMAIN place : j < k => place[j] < place[k]
        /\ { place[k] : k \in DOMAIN place } = Kept(elems)
        /\ \A k \in DOMAIN name : name[k] = elems[place[k]]

At(name) == { i \in DOMAIN Entries : Leads(Entries[i].path.elems, name) }

Sound(entry, limit) ==
    /\ entry.fault = "none"
    /\ entry.size <= limit /\ entry.length <= limit

\* No name is declared twice, and every record that is named is declared and
\* does not contain itself.
TypesSound(text) ==
    LET names == { text.types[i].name : i \in DOMAIN text.types }
        records == names \ Scalars
        named(fields) == { fields[i].type.element : i \in DOMAIN fields } \ Scalars
        inside(n) == UNION { named(text.types[i].fields) :
                                i \in { k \in DOMAIN text.types : text.types[k].name = n } }
        fieldsOf == { text.types[i].fields : i \in DOMAIN text.types }
                        \cup { text.provides[i].fields : i \in DOMAIN text.provides }
    IN  /\ Cardinality(names) = Len(text.types)
        /\ names \subseteq ValidNames
        /\ \A fields \in fieldsOf :
              /\ named(fields) \subseteq records
              /\ { fields[i].name : i \in DOMAIN fields } \subseteq FieldNames
              /\ Cardinality({ fields[i].name : i \in DOMAIN fields }) = Len(fields)
        /\ \A i \in DOMAIN text.types : text.types[i].fields # <<>>
        /\ ~\E S \in SUBSET records : S # {} /\ \A n \in S : inside(n) \cap S # {}

TextSound(text) ==
    LET events == [i \in DOMAIN text.subscribe |-> text.subscribe[i].event]
        types == [i \in DOMAIN text.provides |-> text.provides[i].type]
    IN  /\ text.known /\ text.api = 1
        /\ text.id \in DottedNames
        /\ {text.version, text.runtime} \cap BlankStrings = {}
        /\ IsInjective(events) /\ ToSet(events) \cap BlankStrings = {}
        /\ \A i \in DOMAIN text.subscribe :
              LET block == text.subscribe[i]
              IN  /\ IsInjective(block.perms) /\ ToSet(block.perms) \cap BlankStrings = {}
                  /\ block.priority \in {""} \cup ToSet(Priorities)
        /\ IsInjective(types)
        /\ \A i \in DOMAIN types : types[i] \in DottedNames \X DottedNames
        /\ TypesSound(text)

\* One entry is the manifest, and one, if the manifest names a tree by its
\* shortest relative path, is that tree; each is as large as it may be, and
\* no entry has a path that leaves the root.
Whole ==
    /\ archive.fault = "none"
    /\ \A i \in DOMAIN Entries : ~Escapes(Entries[i].path)
    /\ \E i \in DOMAIN Entries :
          LET text == Entries[i].holds.text
          IN  /\ At(<<"plugin.toml">>) = {i}
              /\ Entries[i].holds.kind = "toml"
              /\ Sound(Entries[i], MaxManifestSize)
              /\ TextSound(text)
              /\ text.tree # NoTree =>
                    /\ ~text.tree.abs /\ ~text.tree.backslash
                    /\ Leads(text.tree.elems, text.tree.elems)
                    /\ \E j \in DOMAIN Entries :
                          /\ At(text.tree.elems) = {j}
                          /\ Entries[j].holds.kind = "tree"
                          /\ Sound(Entries[j], MaxTreeSize)

-----------------------------------------------------------------------------
(* Properties.                                                             *)

\* What Open loads is whole: neither two manifests, nor a tree under a second
\* spelling of its name, nor an entry outside the root, nor a manifest that
\* contradicts itself, nor a file that grew beyond its limit (open.go).
LoadedIsWhole == step \in {"loaded", "warm"} => Whole

\* An archive is refused for a flaw it has: whatever the build tool took the
\* manifest of and packed as it is, the host loads (decode.go:71-74,
\* "build-time and load-time validation cannot drift apart").
RefusedIsFlawed == step = "refused" => ~Whole

\* A blank always crosses the codec: the depth at which blank.go stops, three
\* lists a level, stays within the depth convert.go accepts.
BlankEncodes == step = "warm" => \A i \in DOMAIN blanks : AllPass(blanks[i])
=============================================================================
