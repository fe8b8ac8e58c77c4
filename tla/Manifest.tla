------------------------------ MODULE Manifest -------------------------------
(***************************************************************************)
(* plugin.toml: what src/gcpkg/decode.go makes of its text, and what       *)
(* ValidateManifest asks of it before it looks at the events the plugin    *)
(* provides.  Strings are compared, never spelled; a path is taken apart   *)
(* at its slashes, and so is the name of an event type.                    *)
(***************************************************************************)
EXTENDS Integers, SequencesExt, Functions

CONSTANTS
    DottedNames,    \* the names validDottedName accepts
    BlankStrings    \* the strings strings.TrimSpace leaves nothing of

ManifestFileName == [abs |-> FALSE, elems |-> <<"plugin.toml">>]
CurrentAPIVersion == 1
NoTree == [abs |-> FALSE, backslash |-> FALSE, elems |-> <<>>]

-----------------------------------------------------------------------------
(* Priorities and permissions.                                             *)

Priorities == <<"lowest", "low", "normal", "high", "highest", "monitor">>

KnownPriority(name) == name = "" \/ name \in ToSet(Priorities)
ParsePriority(name) ==
    IF name = "" THEN 2 ELSE (CHOOSE i \in DOMAIN Priorities : Priorities[i] = name) - 1

\* Manifest.Permissions: every node once, in the order of the first mention.
PermissionUnion_lastBlock(subscribe) ==
    IF subscribe = <<>> THEN <<>> ELSE subscribe[Len(subscribe)].perms
PermissionUnion(subscribe) ==
    LET mentioned == FlattenSeq([i \in DOMAIN subscribe |-> subscribe[i].perms])
        union[n \in 0 .. Len(mentioned)] ==
            IF n = 0 THEN <<>>
            ELSE IF Contains(union[n - 1], mentioned[n]) THEN union[n - 1]
            ELSE Append(union[n - 1], mentioned[n])
    IN  union[Len(mentioned)]

ReadSubscriptions(subscribe) ==
    [i \in DOMAIN subscribe |->
        [event |-> subscribe[i].event,
         priority |-> ParsePriority(subscribe[i].priority),
         permissions |-> subscribe[i].perms]]

\* No blank, none twice.
DistinctNames(names) == ToSet(names) \cap BlankStrings = {} /\ IsInjective(names)

ValidSubscriptions(subscribe) ==
    /\ DistinctNames([i \in DOMAIN subscribe |-> subscribe[i].event])
    /\ \A i \in DOMAIN subscribe : DistinctNames(subscribe[i].perms)

-----------------------------------------------------------------------------
(* Paths.                                                                  *)

\* path.Clean, of a path whose backslashes have become slashes: what one
\* element does to those before it, and all of them.
CleanElement(abs, out, e) ==
    CASE e \in {"", "."} -> out
      [] e = ".." /\ out # <<>> /\ Last(out) # ".." -> Front(out)
      [] e = ".." /\ abs /\ out = <<>> -> out
      [] OTHER -> Append(out, e)

Clean(path) ==
    LET out[n \in 0 .. Len(path.elems)] ==
          IF n = 0 THEN <<>> ELSE CleanElement(path.abs, out[n - 1], path.elems[n])
    IN  [abs |-> path.abs, elems |-> out[Len(path.elems)]]

Upwards(clean) == clean.elems # <<>> /\ Head(clean.elems) = ".."

\* validBundleReference.  What cleans to "." has no element left.
ValidBundleReference(path) ==
    /\ ~path.backslash
    /\ ~path.abs
    /\ Clean(path).elems = path.elems
    /\ path.elems # <<>>
    /\ ~Upwards(Clean(path))

ValidDottedName(name) == name \in DottedNames

\* ValidateManifest up to the records.
ValidHead(text) ==
    /\ ValidDottedName(text.id)
    /\ text.version \notin BlankStrings
    /\ text.api = CurrentAPIVersion
    /\ text.runtime \notin BlankStrings
    /\ text.tree # NoTree => ValidBundleReference(text.tree)
    /\ ValidSubscriptions(text.subscribe)

\* validEventType: one slash, a dotted name on either side.
ValidEventType(parts) == Len(parts) = 2 /\ \A i \in 1 .. 2 : ValidDottedName(parts[i])
=============================================================================
