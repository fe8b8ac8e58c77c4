# Verification of gocraft-abi in TLA+

gocraft-abi is the contract between a Minecraft host and the runtimes that load
its plugins: the frame codec of their connection, the values that events carry,
the manifest and the command tree of a plugin bundle. Both ends link this code,
so what it decides, both ends decide alike. This directory models that code,
checks it with TLC on small instances, and proves with TLAPS, for instances of
every size, what matters most about the codec, about values and the dispatch of
events, about the calls into a plugin, about record tables, about the loading of
bundles, about command trees and about copy-on-write.

## The system

| Component | Source | State it keeps | Operations | What is hard | What makes it correct |
|---|---|---|---|---|---|
| Frame codec | `ipc/codec.go` | mutex, two shared buffers, a buffered reader; the stream outside | `Send`, `Receive`, `Close` | concurrent Sends, a Write that parks or fails half way, Close at any moment, a stream cut at any byte, a peer with another limit | whole frames in order, one envelope each; a clean EOF only between frames; Close gets everybody out |
| Values | `abi/v1/value.go`, `path.go` | none | `Equal`, `Diff`, `ApplyPath` | positions that move, lists replaced whole, NaN, two zeros, sharing of arrays | applying a diff reproduces the value it was taken from, but for the sign of a zero |
| Conversions | `ipc/convert.go` | none | one encoder and one decoder per message | nested input, missing parts, a depth limit that counts from the value it is asked about | both sides refuse the same values, nothing is defaulted |
| Dispatch of a plugin-defined event | `abi/v1/envelope.proto`, `gcpkg/manifest.go`, and the two above | the host's copy of the fields | emit, dispatch to each subscriber, verdict, answer, replay | subscribers of other versions, answers that come late or do not decode | the emitter ends with what the host ended with, but for the sign of a zero; fields declared fixed stay |
| Record table | `gcpkg/eventtype.go` | the colours of a depth-first walk | `validateRecords`, `detectCycles` | recursion over what an author wrote | refused exactly when a record contains itself |
| Warm payload | `gcpkg/blank.go` | none | `BlankFields` | two depth limits in two packages | the declared shape, and it crosses the codec |
| Command tree | `command/*.go` | a counter of executor ids | `Validate`, two encoders, two decoders, `Executors` | a build and a host with different checks, numbers and texts that a format rewrites or refuses | the host loads what was built; ids are unique; no permission is lost |
| Manifest | `gcpkg/decode.go`, `manifest.go` | none | `DecodeManifest`, `ValidateManifest` | many small refusals | an accepted manifest is consistent |
| Bundle | `gcpkg/open.go`, `entry.go` | none | `Open` | entries under a second spelling, sizes declared and real, files that fail half way | what loads is whole, what is refused has a flaw |
| Calls into a plugin | `abi/v1/command.go`, `event.go`, `host.go`, `ipc/convert.go` | the table of event ids a runtime was loaded with | bindings, `EncodeEvent`, invocations and results, `Allowed` | builds with other enumerations, late answers, grants that change meanwhile | what is run is what was written; the failure policy holds whoever applies it |
| Schemas | `abi/v1/*.proto`, `abi/v1/wire` | none | generated | — | — |

The parts meet in three places. At build and load time an author's tree goes
through the command codecs into a bundle, and the host reads the manifest, its
record table and the tree out of it. At run time an `Emit` goes through the
conversions and the frame codec to the host, which sends an `Event` to each
subscriber in turn, applies the mutations of its `Verdict` where `MutablePath`
lets it, and answers with the difference, which the emitter replays. And the
permissions a manifest declares, block by block, are injected as one list into
every command invocation, where `Allowed` reads them.

## The modules

| Module | Models | Shape |
|---|---|---|
| `Codec` | `ipc/codec.go`, one direction between two Codecs | state machine, one action per access to shared state |
| `EnvelopeChannel` | what a connection promises | abstract specification that `Codec` implements |
| `CodecProofs` | theorems about `Codec`, and that it implements `EnvelopeChannel` | TLAPS |
| `WireValues` | values, and the value part of `convert.go` | operators |
| `Values` | `value.go`, `path.go` | operators; recursion over a tree goes level by level |
| `ValuesProofs` | what those operators do | TLAPS |
| `PathHeap` | `ApplyPath` on the arrays that slices share | state machine, without recursion |
| `DiffHeap` | `Diff` on those arrays and on those of its paths, then `ApplyPath` | state machine on `PathHeap`; implements `ImmutablePayload` |
| `PathHeapProofs` | theorems about `PathHeap`, and that `DiffHeap` implements `ImmutablePayload` | TLAPS, on `ValuesProofs` |
| `ImmutablePayload` | what the two promise to whoever passes payloads on | abstract specification over `Values` |
| `Dispatch` | one emission through host and subscribers, on `Values` | state machine |
| `DispatchProofs` | theorems about `Dispatch` | TLAPS, on `ValuesProofs` |
| `RecordGraph` | `eventtype.go` | state machine with the recursion as a stack |
| `Manifest` | `decode.go` and `parsePriority`: what the text becomes and what is asked of it | operators |
| `Blank` | `blank.go`, on the tables `RecordGraph` accepts and the limits of `WireValues` | operators |
| `Bundle` | `open.go`, `entry.go`, and the whole way of a bundle into a host | state machine that runs `RecordGraph` inside, on `Manifest` and `Blank` |
| `BlankShape` | the shape a blank should have | operators on a value and its type |
| `BundleProofs` | theorems about `RecordGraph`, `Bundle` and the blanks | TLAPS, on `ValuesProofs` |
| `Calls` | the calls of a host into a plugin | state machine on `WireValues` and `Manifest` |
| `CallsProofs` | theorems about `Calls` | TLAPS |
| `RecursionLemmas` | functions defined by their value one before, `FlattenSeq`, induction by the least number | TLAPS |
| `CommandTree` | `command/*.go` | state machine; a tree is a function on places |
| `CommandTreeProofs` | theorems about `CommandTree` | TLAPS |
| `MC*` | the instances TLC checks | |

**Codec.** A byte of the stream is the pair of the envelope it belongs to and
its place in that envelope's frame, so "a frame is torn" or "out of place" can be
said without spelling bytes. `Send` is `Call` (the nil check), `Lock`, `Marshal`
(`MarshalAppend` into `payload`), `BuildFrame` (the limit, then header and payload
into `frame`), `WriteByte` or `WriteFails`, and `Unlock`, which is the deferred
one. `Receive` is `ReceiveCall`, `LengthByte` (`ReadUvarint`), the limit in
`LengthRead`, `PayloadByte` (`ReadFull`) and `Decode`; `Fill` is the buffered
reader fetching any number of the bytes the stream holds, `ReceiveFails` an end
of the stream met by either. Close is two steps at each end: the call, and the
stream closing. A reader that is out of step reads anything: an announced length
is then any of `JunkLengths`. Envelope ids are sent once each, so that a
duplicate would show. The stream is an external part. Of it the model assumes
what `net.Conn` and a pipe give: accepted bytes arrive in order; a `Write` stops when
either end is closed; and **after a `Write` that failed every later one fails**
(`broken`). Codec has no sticky error of its own, so without that assumption a
`Send` after a torn frame would desynchronise the peer.

**Values and Dispatch.** A value is its kind and its content. Encoding keeps
both, so what a conversion does to a value is refuse it or not (`Passes`, the
depth counted as in `encodeValueAt`). The recursions over a value are told without
recursive operators. `Levels` are the values, what is in the lists among them,
what is in those, and so on; `Passes` and `Equal` look at one level after the
other. `diffInto` is `Compared`: pairs of values, where in each round those it
descends into give way to the pairs inside, until none is left to descend into,
in the order in which the recursion meets them. Doubles are compared with `==`
(value.go:50), so a NaN differs from itself and `Zeros`, the two zeros, are equal though
they are not the same value and are encoded as they are. `Alike` says what holds
nevertheless, of values all the way down: the same, or both a zero. `ApplyPath` is `Walk` down the
path and `Replace` up again. Both `Payloads` and `Foreign` are values and
mutations a runtime can send: subscribers answer with `Diff` of what they were
shown, or, when built against another layout, with any mutation. The host's
loop is not in this repository; the model lets it drop a verdict it has to refuse
a part of, or only that part, and skip or cancel when there is no answer.

**PathHeap, DiffHeap and ImmutablePayload.** Go's slices share arrays, and two
places depend on how. `ApplyPath` copies one array a level and shares all the
rest with its input: `heap` is a sequence of arrays, a list a reference to one, and
`Copy`, `Write`, `Link` and `Publish` are the statements of `applyPath` down and up
its recursion, `frames` being its levels. `diffInto` passes `append(path, index)`
down, so siblings write their index into one array whenever it has room:
`Appended` writes in place or allocates with up to `Spare` places more, the slack
being the allocator's choice. A mutation's path is made anew (`Recorded`) and its
value is the list of the payload it came from, shared. `ImmutablePayload` is the
same story told with values: `Diff` and `ApplyPath` of `Values`, one step each. The
mapping reads the values out of the arrays (`Lists`), so the refinement fails as soon as a
recorded path is rewritten, a pending value changes before it is applied, or a
payload that was handed out does; a mutation that is no difference, taken from
`Foreign`, reaches each error of `ApplyPath`.

**Manifest, Blank and Bundle.** An archive is a sequence of entries: a path, the
size it declares, the length it expands to, what it holds, and what fails when it
is opened, read or closed. A path is the sequence of what stands between its
slashes. `Bundle` follows `Open` statement by statement: `ScanEntry` is one round of
its loop, `OpenManifest`, `ReadManifest` (`DecodeManifest` up to the conversion),
`ValidateManifest`, then the actions of `RecordGraph` as they are, one
`ValidateProvided` a round of `validateProvides`, `CloseManifest` (after the decoder's
own error, as in open.go:46-51), `ReadTree`, `Locate`, and the host's `Warm` of what
loaded. `Whole` is the other definition of what may load: no action of `Bundle` and
no operator of `Manifest` occurs in it, paths are judged by counting how far they
rise and what no later `..` takes back (`Kept`, `Leads`) instead of by cleaning
them, and records by the absence of a set that contains itself instead of by a
walk. `BlankField` has an answer for each depth that `blankField` is called
with, taken from the one a level further in. A record may be named like a scalar; it is
then never the one a type means.

**Calls.** Enumerations are numbers here, with names beside them: a policy is 0 or
1 in Go and 1 or 2 on the wire, and the conversions are functions whose domain is
what they accept. `SendEvent` and `SendInvoke` are this build's host, `ForeignEvent` and
`ForeignInvoke` one that may put any number on the wire. The handler answers,
fails, or is never run because its request did not decode; the host stops waiting
at any moment before it hears, and hears late answers too. `Grant` changes what the
player holds at any moment. The fields of an event, the values of arguments and
of a verdict's mutations are there for what the conversions refuse of them, on
either side; what they are is `Dispatch`'s. `failed` and `said` are ghosts.

**RecordGraph.** The stack of `walk` calls is a sequence of frames,
each at one of its record's fields. `clock` and `finish` are ghosts: the moment
each record was done, which is the rank that proves an accepted table acyclic.
Type strings are taken apart (`Types`), names are sets of valid and invalid ones.

**CommandTree.** A tree is a function from places to nodes, the place of a node
being the positions among their siblings of the nodes from the root down to it; so
what the code does in a recursion over a tree is said of every node, and what
depends on the order of that recursion of the nodes it is done with before
(`DoneBy`: what is inside a node, and the earlier siblings of it and of what it is
inside of). An executor id is the counter of `DecodeIntermediate` at that moment:
how many nodes that run the walk is done with (`Minted`). Stages of one tree: declared as code and described
(`EncodeIntermediate`), extracted by another language (`Extract`), read
(`DecodeIntermediate`), or assembled with its ids by a Go build tool
(`Assemble`); shipped (`EncodeTree`) or written by another encoder
(`ShipForeign`); loaded (`DecodeTree`). Numbers have widths: an int64 of
`MinInt .. MaxInt`, a double of `MantissaBits`, counted in halves because an
integer bound may be written as a fraction; what a double out of range becomes as
an int64 is the machine's choice, made in `Init`. A text is a value that is UTF-8 or not, and
blank or not: `Validate` looks into names only, so a permission, an enum value or a
custom id that is not UTF-8 passes it; `encoding/json` then writes U+FFFD for what is
wrong in it (`JsonText`, after which two texts may be one), and protobuf neither writes
nor reads it (`ProtoCarries`). JSON has no infinities (`Marshals`). The size of a
neutral file is any function of what is in it (`FileSize`), and
`DecodeIntermediate` refuses one beyond 4 MiB (`Fits`), whoever wrote it. Files and
trees that do not parse or are of another version count as empty ones, which
are refused too. (The 10000 levels beyond which `encoding/json` gives up are out of
reach: `EncodeIntermediate` indents, so such a file is far beyond 4 MiB.) The 4 MiB of a
bundle's entry are `Open`'s, in `Bundle`.

## The runs

| Run | Checks | Bounds |
|---|---|---|
| `codec` | types, `BuffersOwned`, `FramesContiguous`, `ResultMeansBytes`, `OrderlyEndIsClean`, `CleanEOFOnlyAroundHeaders`, refinement of `EnvelopeChannel` | two senders; five envelopes: nil, one that encodes to no byte, one with a two-byte header, one over the limit, one that cannot be marshalled; a stream of three bytes, less than the longest frame |
| `codec_skew` | `ReaderInStep`, `CloseReleasesSend`, `CloseReleasesReceive`, `SentIsDelivered` | the sender's limit 3, the receiver's 2; an envelope exactly at the receiver's limit, one beyond it that the sender's allows |
| `codec_eof` | violates `CleanEOFIsOrderly` | two envelopes that both have a payload |
| `dispatch` | types, `ReplayReproduces`, `ReadOnlyFieldsKept`, `UntouchedSendsNothing`, `DeepestChangesOnly` | two fields, two subscribers, eleven values for one field, with NaN and both zeros, and six for the other, up to the depth limit of 3 and one beyond, seventeen foreign mutations |
| `records` | `AcceptedIsRanked`, `RefusedCycleIsReal`, `WalksAreDistinct`, `VerdictMatchesDefinition`, `Decides` | every table of three records with one or two fields, of fewer records, and one for each other refusal |
| `bundle` | `LoadedIsWhole`, `RefusedIsFlawed`, `ShallowBlankFits`, `BlankEncodes` | two or three entries under twelve spellings; sizes and lengths at and beyond the limit with each failure, for either file; a text for every refusal; three records nested in every way and an event with fields of every kind, depth limits 2 and 10: the second is the least that the first needs |
| `blank_shape` | violates `BlankHasShape` | depth limit 1 |
| `commands` | types, `ExecutorsDense`, `BuildKeepsCommands`, `PermissionsSurvive`, `HostLoadsWhatWasBuilt` | trees to four levels and five nodes against limits of three and four, int64 of four bits, doubles of two; files of a size at the limit and beyond; texts that are blank, and that are not UTF-8, two of which JSON makes one |
| `commands_limits` | violates `ShippedIsLoadable` | as `commands` |
| `commands_bounds` | violates `OnlyIdsDropped` | as `commands` |
| `calls` | `ReadAsWritten`, `FailClosedHolds`, `AllowedIsDeclaredAndHeld`, `EffectsWholeInOrder` | two calls, four tables of ids, two blocks that share a node, every number of both enumerations and the first beyond, 258 that eight bits cut to 2, effects of which the first or the second does not decode, fields, arguments and mutations that do not |
| `heap` | `PublishedNeverChanges`, refinement of `ImmutablePayload` | two rounds of changes between payloads of two lists, one nested, and of one double, either zero; append leaves room for none or one; ten mutations that are no difference |

Why these bounds suffice: two senders are all that a mutex has to keep apart, and
the senders are symmetric (symmetry is used only without liveness). A stream
smaller than a frame makes Writes park and reads come in pieces; a two-byte
header is the least that can be cut inside, and an empty envelope the frame that
is all header. Three records give every shape of a walk: self loop, cycle of two
and three, diamond, and a cross edge into what was done. Two subscribers let the
second see, and undo, what the first did. Two rounds on the heap let the second
change what the first published and go back to what was handed out before it,
and two siblings under one parent are what shares an array of a path. Two calls
let an answer come after its call was decided and the next one was made.

**Fairness.** `FairSpec` gives weak fairness to each goroutine that is inside
`Send`, to a `Close` once called, and to a `Receive` once called: Go schedules a
runnable goroutine, and `sync.Mutex` hands over to a waiter that starves. Nobody
owes another call. `SentIsDelivered` is therefore stated under the premise that
the peer's read loop calls `Receive` again and again, which is codec.go's contract
of one read loop and not a fairness of the code. `Lock` needs no strong fairness
for the properties stated: Close makes every other `Send` finish, and each
envelope is sent once. `Decides` needs only that the walk is not stopped.

What the violations show:

* `codec_eof`: the doc of `Receive` promises `io.ErrUnexpectedEOF` for a stream
  cut in mid-frame; a cut right after a whole header gives `io.EOF`
  (codec.go:93). `CleanEOFOnlyAroundHeaders` is what does hold.
* `commands_limits`: `EncodeTree` "cannot ship something the host will refuse at
  load" (encode.go:18), yet only the host counts nodes and depth.
* `commands_bounds`: integer bounds pass through a float64 (intermediate.go:264).
  Beyond 2^53 they are rounded; a maximum of MaxInt64 becomes 2^63, out of range.
  (Texts that are not UTF-8 do not come back either; the instance has none, so that
  the trace is about a bound.)
* `blank_shape`: nothing bounds how deep records nest, so the depth at which
  blank.go stops is reached by a table that loads (blank.go:38).

## What is proved

`CodecProofs` proves, for all sets of senders and envelopes, all sizes, limits
and stream capacities that satisfy `CodecAssumption`:

* `TypeCorrect`: `Spec => []TypeOK`;
* `BuffersSafe`: `Spec => []BuffersOwned`, from `LockInv`: a goroutine past `Lock`
  owns `mu`, and the buffers it reads hold its envelope;
* `StreamInStep`: `Spec => []FramesContiguous`, from `WireInv`: the last byte on the
  stream is the `written`-th of the frame the owner writes, or final, unless the
  stream is broken. The lock invariant is what lets the next byte be appended;
* `ReaderStaysInStep`: `Spec => []ReaderInStep`, from `ReaderInv`: until it
  refused a frame, a Receive in its header stands inside the header that begins
  at `start`, one in its payload inside the payload that begins at `body`, and
  what it needs is what that header announced. Frames being contiguous, bytes
  read so are one envelope's, and a Receive that returned stands at a boundary;
* `ResultsTellTheTruth`: `Spec => []ResultMeansBytes`, from `SendsPending`: a Send
  that has not returned has no result, no byte on the stream before its Write, and
  the first `written` of its frame during it; and no two Sends have one envelope;
* `OrderlyEndReported` and `CleanEndReported`, the two EOF properties, from
  `ReaderInv` and `StreamEnds`.

`CodecAssumption` says no more than that the constants are of their types, that
a varint has at least one byte, that markers are no envelopes, and that only one
envelope encodes to no bytes. The inductive invariants are conjunctions of named
parts; each is preserved by each action, one step per action.

It also proves `CodecIsChannel`: `Spec => ImplementsChannel`, when
`SendLimit <= ReceiveLimit`, as it is between two Codecs of one build
(`maximumFrameSize`) and in the run `codec`. What the channel has accepted is the
envelopes of the whole frames on the stream (`EnvelopesIn`), what it delivered is
`delivered`; the last byte of a frame is `Accept`, `Decode` is `Deliver`, an end of
the stream is `End`, Close at the receiver is `Abort`, and every other step leaves
the channel as it is. The invariant adds that what was delivered is the frames
before the receiver's place, counted. With the larger limit at the sender the
theorem is false: that is the run `codec_skew`.

`ValuesProofs` is about values of any kinds, nested to any depth. Its lemmas are
about a set `V` with `Universe(V)`: every value of `V` is a kind and its content, the
content of a list is a list of values of `V`, a list of values of `V` is in `V`, and
going down the levels of some values there is an end. The set of all finite
trees is such a set; so the hypothesis leaves out no value that the program can
hold. Induction over trees being out of the prover's reach, everything goes by
induction over levels, indices of a path, or rounds, each a set of numbers with 0
and the next of each. The main results:

* `EqualIsAlike`: what `Equal` calls equal is alike, at every level: of one kind and
  length, with the same content, or both a zero; where there is one zero (`OneZero`)
  it is the same;
* `ReplaceHere`, `ReplaceInside`, `ReplaceElsewhere`: what `Replace` leaves at its
  path, above it, and wherever a path parts from its own;
* `DiffIs`: the paths of what `Diff` answers lead somewhere, any two of them part,
  no mutation replaces a list by one of its length, and of values compared with
  themselves only NaN is reported;
* `DiffApplies`: if `Len(before) = Len(after)` then `ApplyEach(before, Diff(before,
  after))` is alike `after`, and is `after` where there is one zero. A pair that is not descended into is equal, and away from all
  mutations, or is a mutation itself; then, from the last round up, a pair that was
  descended into agrees because the pairs inside do and no mutation is at its path
  or above (`NeverAgain`), so it is still a list of its length.
* `DiffSettles`: `Diff` is the changes of the pairs that are left when a list of pairs
  descends no more (`Settles`); what is left of two lists one after the other is what
  is left of each (`SettlesParts`, `SettlesJoin`).

`DispatchProofs` proves of any payloads and foreign mutations over such a `V`
(`Positional(V)`), any layout, any number of subscribers and either failure policy:

* `DispatchInvariant`: `Spec => []DispatchInv(V)`: the fields are values, what
  arrives are mutations, a running subscriber is one of the subscriptions, the
  host's copy has the fields that were sent with the read-only ones kept, and the
  answer is `Diff(sent, current)`;
* from it `DispatchTypes`, `ReplayIsAlike` (by `DiffApplies`; `ReplayIsExact` where there
  is one zero: a field that goes +0, 1, -0 leaves the host with -0 and the emitter with
  +0, so without that hypothesis equality is false of the code),
  `ReadOnlyFieldsAreKept` (`TakenKeeps`: an accepted path parts from a read-only
  field's, or leads past it), `UntouchedIsSilent`, `AnswerIsDeepest`, and
  `AnswerNeverRefused`: the guard of `Replay` always holds.

`CallsProofs` proves, for all tables, manifests, effects and grants that satisfy
`CallsAssumption` (a manifest's blocks are records of text, ids are natural numbers):

* `CallsInvariant`: `Spec => []CallsInv`: the message on the wire is the one of the
  call, what the runtime has read is what the host meant, and the decisions of
  both sides fit;
* from it `HandlersReadWhatWasWritten`, `FailuresCountByPolicy`,
  `EffectsArriveWhole` and `AllowedAsDeclared`. The last one goes through
  `PermissionUnion`: its nodes are those of all blocks, each once, so the first pair
  that names a node is the one the host injected for it.

`PathHeapProofs` proves of `HeapSpec`, which calls `ApplyPath` with any path and any
value on any well-formed heap, any number of times:

* `HeapInvariant`: `HeapSpec => []HeapInv`: references stay inside the heap
  (`HeapType`), a call that descends has a list ahead of it (`ListAhead`), and every
  level of a call under way writes to an array made after the call began
  (`OwnCopies`);
* `PublishedStays`: `HeapSpec => PublishedNeverChanges`. Growing the heap leaves its
  arrays alone; the two actions that write one, `Write` and `Link`, write one that
  `OwnCopies` places beyond all that were published.

Every action of `DiffHeap` is one of `HeapNext` or leaves the heap alone
(`DiffUsesHeap`), so the property holds of the composed machine too
(`DiffKeepsPublished`), where the run `heap` checks it.

And it proves `DiffIsPayload`: `Spec => ImplementsPayload`, for all payloads and
foreign mutations that somebody can have built, a list before what is in it
(`DiffHeapAssumption`), any slack and any number of rounds. Its hypothesis
`Holds(V)` is that the scalars are values of a `V` with `Universe(V)`, as above. The
argument has three layers:

* what arrays hold. No array is inside itself: some rank falls from each to those it
  names (`Acyclic`), so `Lists` reads finite lists out of any heap (`ListsAre`), and
  arrays that are unchanged, or moved together, hold what they held (`SameLists`).
  Building, copying and writing keep the heap so;
* a call of `ApplyPath` (`CallShape`, `CallValue`, in `ApplyInv`). Its levels stand
  one behind the other at the end of the heap and nothing names them yet; going down,
  the array of level `k` is a copy of the list that `Walk` reaches there; going up, it
  holds what `Replace` makes at that level. So what is published is
  `ApplyPath` of the current payload, and an error is a path that does not reach;
* a call of `Diff` (`WalkInv`). A slice of a path stays readable while siblings
  append, because each call of `diffInto` is one longer than the one that called it and
  whoever appends writes behind its own slice (`PathWritten`), while a recorded path
  has an array to itself. Each call has the pairs of `Pairs` from its index on left
  (`Remaining`), and the invariant (`WalkMeans`) is that what was recorded, and then
  what the calls on the stack have left, innermost first, are the changes of the
  difference. `Compared` goes round by round over all pairs at once while `diffInto`
  goes pair by pair: that both end with the same pairs in the same order is
  `SettlesParts` and `SettlesJoin` in `ValuesProofs`.

While a call of `ApplyPath` runs, no recorded mutation names an array that the call has
made (`JobInv`), so what it writes cannot change what is still to be applied. The
operators that `ImmutablePayload` gets from its own instance of `Values` are shown to be
the ones the lemmas are about, one by one (`PayloadDiff`, `PayloadApply`).

`BundleProofs` has three parts. The first proves of every table of records that satisfies
`RecordGraphAssumption` (names, fields and types of their kinds; `Order` lists the
valid names), whatever its size and however its fields name each other:

* `RecordInvariant`: `Spec => []RecordInv`. The invariant is stated of a set `D` of
  names and a function `F` from names to fields, fixed for a behaviour, which
  `TableIs` ties to the table. Before the walk: the records up to `index` are
  checked, then resolved, which makes the table a `Graph`: every field is a
  scalar or a declared record. During it: the records that are `visiting` are those on
  the stack, each once (`VisitingIsStack`); every frame was called for a field
  of the one below it (`StackIsChain`); what a walk, or the outer loop, has passed is
  done or is the next frame (`PassedFields`, `PassedRecords`); and a record that is done
  was done after all it names (`DoneIsRanked`);
* `WalksDistinct`: `Spec => []WalksAreDistinct`, from `VisitingIsStack`;
* `AcceptedTablesRank`: `Spec => []AcceptedIsRanked`: the stack is empty and the
  outer loop has passed every name, so every record is done, hence ranked;
* `ReportedCyclesAreReal`: `Spec => []RefusedCycleIsReal`, from `StackIsChain` and
  the record met again, which is on the stack;
* `VerdictIsDefinition`: `Spec => []VerdictMatchesDefinition`: in a set of accepted
  records, the one done first (the natural numbers are well-founded) names none
  of the set; the frames of a reported cycle are a set each of which names another.

The second proves of every set of archives that satisfies `BundleAssumption` (what
an archive and a manifest are made of), whatever their number of entries,
records and events:

* `BundleInvariant`: `BundleSpec => []BundleInv`. `ArchiveInv` says what the loop over the
  entries has found (`Scanned`), that the entry it goes on with is the only one
  that leads to `plugin.toml` and could be opened; `ManifestInv`, that the manifest
  was read from it (`Decoded`) and has passed the checks behind the step Open is
  at, those of the record table included (`VerdictInv`, on `RecordInv`); and what was
  refused is not whole;
* `LoadedBundlesAreWhole`: `BundleSpec => []LoadedIsWhole`, and
  `RefusedBundlesAreFlawed`: `BundleSpec => []RefusedIsFlawed`. Together: `Open` loads
  an archive exactly when it is `Whole`, if it comes to an end.

`Whole` being a definition of its own, the invariant stands on lemmas that relate the
two: `UnsafeEscapes` and `CleanLeads` (the stack that `path.Clean` keeps is, after
each element, the elements no later `..` takes back, `CleaningIs`; a path in which
it begins with `..` is one that escapes), `TypesSoundIs` and `VerdictOfTable` (the refusals of
`validateRecords`, one by one, against `TypesSound`; a cycle against a set of records
that contains itself, by `VerdictRight`), `TextSoundIs` for the rest of the text,
`ProvidedIs` for the events; `WholeSteps` puts them together. Then each step has a
lemma of its own: it moves on with what it tested, or refuses because
the part of `Whole` that it tests is false.

The third is about the blanks, of any record table that loads and any depth limits:

* `BlanksCross`: `3 * MaxBlankDepth + 4 <= MaxValueDepth => (BundleSpec => []BlankEncodes)`.
  The constants of the code are 8 and 32. What may be `k` levels inside a blank is
  `Stage(k)`, which is empty beyond three levels for each depth.
* `ShallowBlanksFit`: `BundleSpec => []ShallowBlankFits`. A blank and its type are
  `Due` when the type nests no deeper than what is left of the depth it was made at.
  What is due has the outside its type asks for, and what is inside of it is due
  again (`DueFits`): the elements of a list or a map at the same depth, the fields of a
  record one further in, where its records nest one less (`WithinIs`). So no level of
  it misses its type, however deep one looks (`FitsDue`). That the blanks in the
  state are those of the fields in the manifest is `BlanksOfTheManifest`.

Not proved of record tables: `Decides`, a liveness property. That an acyclic table is never
refused for a cycle is in `VerdictMatchesDefinition`; that it is then accepted needs
`Decides`.

`CommandTreeProofs` proves of all trees, files and bundles that satisfy
`CommandTreeAssumption`, of every size and shape. The assumption says that they are
trees (each node has its parent and earlier siblings), that a tree in memory
holds an int64 or nothing for an integer bound, that the numbers have the widths the
code gives them, that the double of an int64 is finite, as it is, and that what JSON
mends or reads is UTF-8. The size of a file is left open.

* `CommandInvariant`: `Spec => []CommandInv`. The invariant says, of each form of the
  commands, that it is what the step before makes of the last: a file that a valid
  tree was described to (`FileStands`), a build that is the conversion of its file
  (`BuildStands`), the wire that is the encoding of the build and a host that loads what
  it takes (`HostStands`); and that a refusal had its reason: `Validate`, an infinite bound,
  a file that does not fit or has fields out of place, a text that protobuf does not
  carry, the limits of the host. No property below is
  inductive: each relates forms that are more than one step apart;
* `CommandTypes`: `Spec => []TypeOK`;
* `IdsAreDense`: `Spec => []ExecutorsDense`. `DoneBy` is a total order on places
  (`DoneByTotal`, `DoneByOneWay`, `DoneByOnward`), so the ids are the ranks of the nodes that
  run, and the ranks of a finite set of `n` elements are `1 .. n` (`RanksAreDense`, by
  the least number that would be left out);
* `CommandsAreKept`: `Spec => []BuildKeepsCommands`. A valid tree has a file exactly
  when its decimal bounds are finite; a file that fits is refused only if the tree is
  not `Exact`, and what is built is shipped (what JSON wrote is UTF-8,
  `ConvertedCarries`). By `TreeIsRebuilt`, described and converted, a node of an exact tree
  comes back but for its id, and `Validate` does not look at ids but
  for whether there is one (`ValidButExec`). A node that runs gets an id that is not 0;
* `GuardsSurvive`: `Spec => []PermissionsSurvive`, for what any extractor or encoder writes;
* `HostTakesWhatWasBuilt`: `Spec => []HostLoadsWhatWasBuilt`, by `EncodedLoads`: what
  `EncodeTree` makes of a valid tree decodes to that tree, and the only check left to fail
  is the one on sizes.

Only model-checked:

* liveness: `Decides`, `CloseReleasesSend`, `CloseReleasesReceive`, `SentIsDelivered`;
* the four runs that show a violation refute their properties on one instance, which
  is all there is to show.

## Not modelled

Host, runtimes, sockets and processes are other repositories; the order of a
session's messages and their sequence numbers are theirs, the schema only has
their layout. Generated code carries no decisions. Syntax (TOML, JSON, protobuf,
zip, names) is abstracted to what is accepted, and the wording of errors is left
out. Priorities are only parsed here: the order of subscribers is the host's, so
nothing here can tell which of `Priority`'s comment ("from earliest to latest",
lowest first) and `parsePriority`'s ("high runs before low") is meant. Integers
are unbounded in `Dispatch`: on a 32-bit platform an index of 2^31 would turn
negative in `int(path[0])` (manifest.go:133, path.go:31).

## Running

    tlc -workers 2 -config MCCodec.cfg MCCodec.tla
    tlapm CodecProofs.tla         (and each other module named *Proofs, RecursionLemmas)

`PROJECT.json` lists the runs, the mutants that show each property can fail, the
lines of source each definition stands for, the hazards and the theorems.
