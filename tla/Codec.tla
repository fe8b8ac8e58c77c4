-------------------------------- MODULE Codec --------------------------------
(***************************************************************************)
(* One direction of an ipc.Codec connection (src/ipc/codec.go): goroutines *)
(* that share a Codec call Send, the stream carries bytes, and the single  *)
(* read loop of the peer's Codec calls Receive.  Either end may Close the  *)
(* stream at any moment, in the middle of a Write or a Read included.      *)
(*                                                                         *)
(* A byte on the stream is the pair <<m, k>>: the k-th byte of the frame   *)
(* of envelope m.  Bytes 1 .. Header[m] are the varint length, the         *)
(* Size[m] bytes after them the encoded envelope.  Only the reader's       *)
(* decisions look at what the bytes say; a byte read out of place, as part *)
(* of something it does not belong to, says anything.                      *)
(***************************************************************************)
EXTENDS Integers, Sequences, FiniteSets

CONSTANTS
    Senders,       \* goroutines that call Send
    NoSender,      \* the value of mu while it is unlocked
    Envelopes,     \* the envelopes a caller may pass to Send, each once
    NoEnvelope,    \* the content of a buffer nothing was put in yet
    Missing,       \* the envelopes that are nil
    Invalid,       \* the envelopes proto.Marshal rejects
    Size,          \* Size[m]: bytes of the encoded envelope
    Header,        \* Header[m]: bytes of the varint that announces Size[m]
    SendLimit,     \* maximumFrameSize in the sender's build
    ReceiveLimit,  \* maximumFrameSize in the receiver's build
    Capacity,      \* bytes the stream holds before a Write parks
    JunkLengths,   \* the lengths a misplaced varint may announce (a bound)
    Junk           \* an envelope decoded from misplaced bytes

ASSUME CodecAssumption ==
    /\ NoSender \notin Senders
    /\ NoEnvelope \notin Envelopes
    /\ Junk \notin Envelopes
    /\ Missing \subseteq Envelopes /\ Invalid \subseteq Envelopes
    /\ Size \in [Envelopes -> Nat]
    /\ Header \in [Envelopes -> Nat \ {0}]
    /\ SendLimit \in Nat /\ ReceiveLimit \in Nat
    /\ Capacity \in Nat \ {0}
    /\ JunkLengths \subseteq Nat
    \* two envelopes that encode to no byte at all are the same envelope
    /\ \A m, n \in Envelopes : Size[m] = 0 /\ Size[n] = 0 => m = n

VARIABLES
    pc, env,        \* per sender: where its Send stands, and its argument
    result,         \* per envelope: what Send returned for it
    mu, payload, frame, written,   \* Codec.mu and the buffers it guards
    wire,           \* every byte the stream accepted, in order
    conn, broken,   \* the two ends of the stream; a Write has failed
    fetched, pos,   \* bytes moved into bufio.Reader; bytes read out of it
    rpc, start, body, need,        \* the Receive under way
    delivered, status, lost        \* what Receive returned

codecVars == <<pc, env, result, mu, payload, frame, written>>
recvVars  == <<fetched, pos, rpc, start, body, need, delivered, status, lost>>
vars      == <<codecVars, wire, conn, broken, recvVars>>

FrameLen(m) == Header[m] + Size[m]
Bytes == Envelopes \X (Nat \ {0})
Final(b) == b[2] = FrameLen(b[1])

Locations  == {"idle", "lock", "marshal", "frame", "write", "unlock"}
Results    == {"unsent", "pending", "sent", "refused", "failed"}
Ends       == {"send", "recv"}
StreamErrs == {"EOF", "UnexpectedEOF", "Closed"}
Statuses   == {"ok", "TooLarge", "Malformed"} \cup StreamErrs

SendTypeOK ==
    /\ pc \in [Senders -> Locations]
    /\ env \in [Senders -> Envelopes \cup {NoEnvelope}]
    /\ result \in [Envelopes -> Results]
    /\ mu \in Senders \cup {NoSender}
    /\ payload \in Envelopes \cup {NoEnvelope}
    /\ frame \in Envelopes \cup {NoEnvelope}
    /\ written \in Nat

StreamTypeOK ==
    /\ wire \in Seq(Bytes)
    /\ conn \in [Ends -> {"open", "closing", "closed"}]
    /\ broken \in BOOLEAN

ReceiveTypeOK ==
    /\ fetched \in 0 .. Len(wire)
    /\ pos \in 0 .. fetched
    /\ rpc \in {"idle", "length", "payload"}
    /\ start \in 0 .. pos
    /\ body \in Nat
    /\ need \in Nat
    /\ delivered \in Seq(Envelopes \cup {Junk})
    /\ status \in Statuses
    /\ lost \in BOOLEAN

TypeOK == SendTypeOK /\ StreamTypeOK /\ ReceiveTypeOK

Init ==
    /\ pc = [s \in Senders |-> "idle"]
    /\ env = [s \in Senders |-> NoEnvelope]
    /\ result = [m \in Envelopes |-> "unsent"]
    /\ mu = NoSender
    /\ payload = NoEnvelope /\ frame = NoEnvelope /\ written = 0
    /\ wire = <<>>
    /\ conn = [e \in Ends |-> "open"]
    /\ broken = FALSE
    /\ fetched = 0 /\ pos = 0
    /\ rpc = "idle" /\ start = 0 /\ body = 0 /\ need = 0
    /\ delivered = <<>> /\ status = "ok" /\ lost = FALSE

-----------------------------------------------------------------------------
(* Send.  Everything between Lock and Unlock reads and writes the two      *)
(* buffers of the Codec, so each access is a step of its own.              *)

Goto(s, l) == pc' = [pc EXCEPT ![s] = l]

\* Send is called; a nil envelope is refused before the lock is taken.
Call(s, m) ==
    /\ pc[s] = "idle"
    /\ result[m] = "unsent"
    /\ IF m \in Missing
       THEN /\ result' = [result EXCEPT ![m] = "refused"]
            /\ UNCHANGED <<pc, env>>
       ELSE /\ result' = [result EXCEPT ![m] = "pending"]
            /\ env' = [env EXCEPT ![s] = m]
            /\ Goto(s, "lock")
    /\ UNCHANGED <<mu, payload, frame, written, wire, conn, broken, recvVars>>

LockFree_unguarded == TRUE
LockFree == mu = NoSender

Lock(s) ==
    /\ pc[s] = "lock"
    /\ LockFree
    /\ mu' = s
    /\ Goto(s, "marshal")
    /\ UNCHANGED <<env, result, payload, frame, written, wire, conn, broken,
                   recvVars>>

Refuse(s) ==
    /\ result' = [result EXCEPT ![env[s]] = "refused"]
    /\ Goto(s, "unlock")

\* MarshalAppend overwrites the payload buffer, or fails.
Marshal(s) ==
    /\ pc[s] = "marshal"
    /\ \/ /\ env[s] \in Invalid
          /\ Refuse(s)
          /\ UNCHANGED payload
       \/ /\ env[s] \notin Invalid
          /\ payload' = env[s]
          /\ Goto(s, "frame")
          /\ UNCHANGED result
    /\ UNCHANGED <<env, mu, frame, written, wire, conn, broken, recvVars>>

TooLargeToSend(m) == Size[m] > SendLimit

\* The limit is checked, then header and payload go into one buffer.
BuildFrame(s) ==
    /\ pc[s] = "frame"
    /\ \/ /\ TooLargeToSend(payload)
          /\ Refuse(s)
          /\ UNCHANGED <<frame, written>>
       \/ /\ ~TooLargeToSend(payload)
          /\ frame' = payload
          /\ written' = 0
          /\ Goto(s, "write")
          /\ UNCHANGED result
    /\ UNCHANGED <<env, mu, payload, wire, conn, broken, recvVars>>

Writable == conn["send"] # "closed" /\ ~broken

\* The stream takes the next byte of the one Write.  It parks while the
\* stream is full; what a closed receiver would not read, it may still take.
WriteByte(s) ==
    /\ pc[s] = "write"
    /\ Writable
    /\ Len(wire) - fetched < Capacity
    /\ wire' = Append(wire, <<frame, written + 1>>)
    /\ written' = written + 1
    /\ IF written + 1 = FrameLen(frame)
       THEN /\ result' = [result EXCEPT ![env[s]] = "sent"]
            /\ Goto(s, "unlock")
       ELSE UNCHANGED <<result, pc>>
    /\ UNCHANGED <<env, mu, payload, frame, conn, broken, recvVars>>

\* What Send returns when its Write fails.
WriteError_dropped == "sent"
WriteError == "failed"

\* The Write fails, wherever it stands, because an end was closed.
WriteFails(s) ==
    /\ pc[s] = "write"
    /\ \/ ~Writable
       \/ conn["recv"] = "closed"
    /\ broken' = TRUE
    /\ result' = [result EXCEPT ![env[s]] = WriteError]
    /\ Goto(s, "unlock")
    /\ UNCHANGED <<env, mu, payload, frame, written, wire, conn, recvVars>>

\* The deferred Unlock, and Send returns.
Unlock(s) ==
    /\ pc[s] = "unlock"
    /\ mu' = NoSender
    /\ env' = [env EXCEPT ![s] = NoEnvelope]
    /\ Goto(s, "idle")
    /\ UNCHANGED <<result, payload, frame, written, wire, conn, broken, recvVars>>

-----------------------------------------------------------------------------
(* Close, at either end.  It does not take mu.                             *)

CloseCall(e) ==
    /\ conn[e] = "open"
    /\ conn' = [conn EXCEPT ![e] = "closing"]
    /\ UNCHANGED <<codecVars, wire, broken, recvVars>>

CloseMayProceed_underLock(e) == e = "send" => mu = NoSender
CloseMayProceed(e) == TRUE

ClosedState_notACloser == "closing"
ClosedState == "closed"

CloseStream(e) ==
    /\ conn[e] = "closing"
    /\ CloseMayProceed(e)
    /\ conn' = [conn EXCEPT ![e] = ClosedState]
    /\ UNCHANGED <<codecVars, wire, broken, recvVars>>

-----------------------------------------------------------------------------
(* Receive.  bufio.Reader fetches what the stream has, ReadUvarint and     *)
(* ReadFull take bytes out of it.  [start + 1 .. pos] is what this Receive *)
(* has read, its payload the bytes after body.                             *)

\* The bufio.Reader lives as long as the Codec: a Receive goes on where the
\* one before it stopped.
ResumeAt_freshReader == fetched
ResumeAt_skipsOne == pos + 1
ResumeAt == pos

\* The loop that owns the stream calls Receive, until the stream fails it.
ReceiveCall ==
    /\ rpc = "idle"
    /\ status \notin StreamErrs
    /\ rpc' = "length"
    /\ start' = ResumeAt
    /\ pos' = ResumeAt
    /\ UNCHANGED <<codecVars, wire, conn, broken, fetched, body, need,
                   delivered, status, lost>>

Wanting == rpc = "length" \/ (rpc = "payload" /\ pos - body < need)

\* An empty bufio.Reader reads: it gets some of the bytes the stream holds.
Fill ==
    /\ Wanting
    /\ pos = fetched
    /\ conn["recv"] # "closed"
    /\ fetched' \in fetched + 1 .. Len(wire)
    /\ UNCHANGED <<codecVars, wire, conn, broken, pos, rpc, start, body, need,
                   delivered, status, lost>>

Return(st) == rpc' = "idle" /\ status' = st

\* ReadUvarint and ReadFull each turn the end of the stream into
\* ErrUnexpectedEOF only when they have read a byte themselves.
ReadSome == IF rpc = "length" THEN pos > start ELSE pos > body

\* Receive returns the error as it is.
EndOfStream_alwaysUnexpected == "UnexpectedEOF"
EndOfStream_alwaysClean == "EOF"
EndOfStream == IF ReadSome THEN "UnexpectedEOF" ELSE "EOF"

ReceiveFails ==
    /\ Wanting
    /\ pos = fetched
    /\ \/ /\ conn["recv"] = "closed"
          /\ Return("Closed")
       \/ /\ conn["recv"] # "closed"
          /\ conn["send"] = "closed"
          /\ fetched = Len(wire)
          /\ Return(EndOfStream)
    /\ UNCHANGED <<codecVars, wire, conn, broken, fetched, pos, start,
                   body, need, delivered, lost>>

TooLargeToReceive_offByOne(n) == n >= ReceiveLimit
TooLargeToReceive(n) == n > ReceiveLimit

\* The length a frame announces is its payload's.
Declared(m) == Size[m]

\* The varint is complete and says n.  A frame over the limit is refused and
\* its payload stays in the stream.  (A varint that overflows 64 bits, which
\* only misplaced bytes can spell, is refused in the same way.)
LengthRead(n) ==
    IF TooLargeToReceive(n)
    THEN /\ Return("TooLarge")
         /\ lost' = TRUE
         /\ UNCHANGED <<body, need>>
    ELSE /\ rpc' = "payload"
         /\ body' = pos'
         /\ need' = n
         /\ UNCHANGED <<status, lost>>

\* The byte at pos + 1 continues a header that this Receive read from its start.
InPlace ==
    LET b == wire[pos + 1]
    IN  /\ b[2] = pos + 1 - start
        /\ b[2] <= Header[b[1]]
        /\ \A i \in start + 1 .. pos : wire[i] = <<b[1], i - start>>

LengthByte ==
    /\ rpc = "length"
    /\ pos < fetched
    /\ pos' = pos + 1
    /\ LET b == wire[pos + 1]
       IN  \/ /\ InPlace
              /\ b[2] < Header[b[1]]
              /\ UNCHANGED <<rpc, body, need, status, lost>>
           \/ /\ InPlace
              /\ b[2] = Header[b[1]]
              /\ LengthRead(Declared(b[1]))
           \/ /\ ~InPlace
              /\ \/ UNCHANGED <<rpc, body, need, status, lost>>
                 \/ \E n \in JunkLengths : LengthRead(n)
    /\ UNCHANGED <<codecVars, wire, conn, broken, fetched, start, delivered>>

PayloadByte ==
    /\ rpc = "payload"
    /\ pos - body < need
    /\ pos < fetched
    /\ pos' = pos + 1
    /\ UNCHANGED <<codecVars, wire, conn, broken, fetched, rpc, start, body,
                   need, delivered, status, lost>>

\* The bytes after body are the encoding of m.
Encodes(m) ==
    /\ Size[m] = need
    /\ \A i \in 1 .. need : wire[body + i] = <<m, Header[m] + i>>

\* proto.Unmarshal, and Receive returns.
Decode ==
    /\ rpc = "payload"
    /\ pos - body = need
    /\ \/ \E m \in Envelopes :
              /\ Encodes(m)
              /\ delivered' = Append(delivered, m)
              /\ Return("ok")
       \/ /\ ~\E m \in Envelopes : Encodes(m)
          /\ \/ /\ delivered' = Append(delivered, Junk)
                /\ Return("ok")
             \/ /\ UNCHANGED delivered
                /\ Return("Malformed")
    /\ UNCHANGED <<codecVars, wire, conn, broken, fetched, pos, start,
                   body, need, lost>>

-----------------------------------------------------------------------------
SendStep(s) ==
    Lock(s) \/ Marshal(s) \/ BuildFrame(s) \/ WriteByte(s) \/ WriteFails(s) \/ Unlock(s)

ReceiveStep == Fill \/ ReceiveFails \/ LengthByte \/ PayloadByte \/ Decode

\* Both ends are closed and nothing is under way.
Terminated ==
    /\ \A s \in Senders : pc[s] = "idle"
    /\ \A e \in Ends : conn[e] = "closed"
    /\ rpc = "idle"
    /\ UNCHANGED vars

Next ==
    \/ \E s \in Senders : SendStep(s) \/ \E m \in Envelopes : Call(s, m)
    \/ \E e \in Ends : CloseCall(e) \/ CloseStream(e)
    \/ ReceiveCall \/ ReceiveStep
    \/ Terminated

\* Whatever has been called runs on; no caller owes another call.
Fairness ==
    /\ \A s \in Senders : WF_vars(SendStep(s))
    /\ \A e \in Ends : WF_vars(CloseStream(e))
    /\ WF_vars(ReceiveStep)

Spec == Init /\ [][Next]_vars
FairSpec == Spec /\ Fairness

-----------------------------------------------------------------------------
(* Properties.                                                             *)

Inside(s) == pc[s] \in {"marshal", "frame", "write", "unlock"}

\* Between Lock and Unlock a goroutine is alone and the shared buffers hold
\* its own envelope: never another Send's, whatever the two are doing
\* (codec.go:28, "Writes are serialised here").
BuffersOwned ==
    \A s \in Senders : Inside(s) =>
        /\ mu = s
        /\ pc[s] = "frame" => payload = env[s]
        /\ pc[s] = "write" => frame = env[s]

\* The stream holds whole frames one after the other, but for the last: each
\* byte follows the one before it of its own frame, and a frame starts only
\* where the one before it ended (codec.go:43, the stream is never
\* desynchronised by a header without its payload).
FramesContiguous ==
    \A i \in 1 .. Len(wire) :
        /\ wire[i][2] \in 1 .. FrameLen(wire[i][1])
        /\ wire[i][2] > 1 => i > 1 /\ wire[i - 1] = <<wire[i][1], wire[i][2] - 1>>
        /\ wire[i][2] = 1 => i = 1 \/ Final(wire[i - 1])

OnWire(m) == \E i \in 1 .. Len(wire) : wire[i][1] = m

\* What Send returned tells what the stream got: nothing of an envelope it
\* refused, all of one it sent, not all of one it failed, and none twice.
ResultMeansBytes ==
    /\ \A m \in Envelopes :
          LET whole == \E i \in 1 .. Len(wire) : wire[i] = <<m, FrameLen(m)>>
          IN  /\ result[m] \in {"unsent", "refused"} => ~OnWire(m)
              /\ (result[m] = "sent") <=> whole
    /\ \A i, j \in 1 .. Len(wire) : wire[i] = wire[j] => i = j

AtBoundary(p) == p = 0 \/ Final(wire[p])

\* A reader that has refused no frame starts every Receive where a frame
\* starts, and never decodes bytes that are not one envelope's.
ReaderInStep ==
    ~lost => /\ AtBoundary(start)
             /\ status # "Malformed"
             /\ \A i \in DOMAIN delivered : delivered[i] # Junk

\* When the peer closed between frames, Receive reports a clean io.EOF and
\* never io.ErrUnexpectedEOF (codec.go:80-81).
OrderlyEndIsClean ==
    ~lost /\ status = "UnexpectedEOF" => ~AtBoundary(Len(wire))

\* A stream cut short in the middle of a frame surfaces as
\* io.ErrUnexpectedEOF, so that io.EOF means an orderly end (codec.go:80-83).
CleanEOFIsOrderly ==
    ~lost /\ status = "EOF" => AtBoundary(Len(wire))

\* What the code does of the sentence above: io.EOF is an orderly end, or a
\* cut exactly between a whole header and the payload it announces.
CleanEOFOnlyAroundHeaders ==
    ~lost /\ status = "EOF" =>
        \/ AtBoundary(Len(wire))
        \/ LET b == wire[Len(wire)] IN b[2] = Header[b[1]]

\* Close gets every Send out, one parked in Write while it holds the mutex
\* included, whether or not the peer reads on (Close does not take mu).
CloseReleasesSend ==
    conn["send"] = "closing" ~> \A s \in Senders : pc[s] = "idle"

\* Close gets a parked Receive out (codec.go:68, "unblocks a read loop").
CloseReleasesReceive ==
    conn["recv"] = "closing" ~> rpc = "idle"

\* An envelope Send has sent reaches a peer whose read loop calls Receive
\* again and again, even when the sender closes right after, unless the peer
\* closes its own end or had to refuse a frame over its own limit.
SentIsDelivered ==
    WF_vars(ReceiveCall) =>
        \A m \in Envelopes :
            result[m] = "sent" ~>
                \/ \E i \in DOMAIN delivered : delivered[i] = m
                \/ conn["recv"] # "open"
                \/ lost /\ \E n \in Envelopes : result[n] = "sent" /\ Size[n] > ReceiveLimit

-----------------------------------------------------------------------------
(* The abstract channel that one direction implements.                     *)

\* How many frames are whole among the first p bytes of w.
WholeFrames(w, p) == Cardinality({i \in 1 .. p : Final(w[i])})

\* Where the k-th frame of w ends.
EndOf(w, k) == CHOOSE i \in 1 .. Len(w) : Final(w[i]) /\ WholeFrames(w, i) = k

EnvelopesIn(w) == [k \in 1 .. WholeFrames(w, Len(w)) |-> w[EndOf(w, k)][1]]

\* The envelopes whose last byte the stream has accepted, in that order.
SentEnvelopes == EnvelopesIn(wire)

Outcome ==
    CASE status \in {"EOF", "UnexpectedEOF"} -> "ended"
      [] status = "Closed" -> "aborted"
      [] OTHER -> "open"

Channel == INSTANCE EnvelopeChannel WITH
    Envelopes <- Envelopes, sent <- SentEnvelopes, got <- delivered, outcome <- Outcome

\* Two Codecs of one build are a channel: every envelope arrives once, in the
\* order of the Sends, and the end of the stream is seen after the last one.
ImplementsChannel == Channel!Spec
=============================================================================
