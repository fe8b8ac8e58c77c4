----------------------------- MODULE CodecProofs -----------------------------
(***************************************************************************)
(* Proofs about Codec, for any number of senders and envelopes, any sizes, *)
(* limits and capacity of the stream: the lock and the stream, then what   *)
(* Send and Receive report, which is true of the bytes on the stream.      *)
(*                                                                         *)
(* Last, one direction of a connection between two Codecs implements a     *)
(* channel of envelopes: first in, first out, nothing lost, nothing        *)
(* invented and nothing twice, and an end that is seen only after the last *)
(* envelope.  The receiver's limit must not be below the sender's, as it   *)
(* never is between two Codecs of one build.                               *)
(***************************************************************************)
EXTENDS Codec, FiniteSetTheorems, SequenceTheorems, TLAPS

USE DEF Locations, Results, Ends, StreamErrs, Statuses

-----------------------------------------------------------------------------
(* The inductive invariant.                                                *)

\* A Send that is under way has an envelope, and a Write has bytes to go.
SendsUnderWay ==
    \A s \in Senders :
        /\ pc[s] # "idle" => env[s] \in Envelopes
        /\ pc[s] = "write" => written < FrameLen(frame)

LockInv == TypeOK /\ BuffersOwned /\ SendsUnderWay

\* The end of the stream is the Write under way, or a boundary.
TailInv ==
    Writable =>
        /\ \A s \in Senders : pc[s] = "write" =>
              IF written = 0
              THEN AtBoundary(Len(wire))
              ELSE Len(wire) > 0 /\ wire[Len(wire)] = <<frame, written>>
        /\ (\A s \in Senders : pc[s] # "write") => AtBoundary(Len(wire))

WireInv == FramesContiguous /\ TailInv

\* Receive has read the first pos - start bytes of the frame of m.
ReadOf(m) == \A i \in start + 1 .. pos : wire[i] = <<m, i - start>>

PositionInv ==
    /\ rpc = "idle" /\ status \notin StreamErrs => AtBoundary(pos)
    /\ rpc = "length" =>
          \/ pos = start
          \/ \E m \in Envelopes : pos - start < Header[m] /\ ReadOf(m)
    /\ rpc = "payload" =>
          \E m \in Envelopes :
             /\ need = Size[m] /\ body = start + Header[m]
             /\ pos \in body .. body + need
             /\ ReadOf(m)

ReaderInv == ReaderInStep /\ (~lost => PositionInv)

-----------------------------------------------------------------------------
(* The lock and the buffers.                                               *)

\* No frame is empty.
LEMMA FrameLenType == \A m \in Envelopes : FrameLen(m) \in Nat \ {0}
  BY CodecAssumption DEF FrameLen

\* A frame is a header, which is not empty, and a payload.
LEMMA Sizes ==
    \A m \in Envelopes : /\ Header[m] \in Nat /\ Header[m] > 0 /\ Size[m] \in Nat
                         /\ FrameLen(m) = Header[m] + Size[m]
  BY CodecAssumption DEF FrameLen

\* Nobody holds the lock at the start.
LEMMA LockInit == Init => LockInv
<1> SUFFICES ASSUME Init PROVE LockInv
  OBVIOUS
<1>1. SendTypeOK
  BY DEF Init, SendTypeOK
<1>2. StreamTypeOK
  <2>1. wire \in Seq(Bytes) /\ conn \in [Ends -> {"open", "closing", "closed"}]
    BY DEF Init
  <2>2. broken \in BOOLEAN
    BY Zenon DEF Init
  <2>3. QED BY <2>1, <2>2 DEF StreamTypeOK
<1>3. ReceiveTypeOK
  <2>1. Len(wire) = 0 /\ delivered \in Seq(Envelopes \cup {Junk})
    BY DEF Init
  <2>2. lost \in BOOLEAN
    BY Zenon DEF Init
  <2>3. status \in Statuses /\ rpc \in {"idle", "length", "payload"}
    BY DEF Init
  <2>4. /\ fetched \in 0 .. Len(wire) /\ pos \in 0 .. fetched
        /\ start \in 0 .. pos /\ body \in Nat /\ need \in Nat
    BY <2>1 DEF Init
  <2>5. QED BY <2>1, <2>2, <2>3, <2>4 DEF ReceiveTypeOK
<1>4. BuffersOwned /\ SendsUnderWay
  BY DEF Init, BuffersOwned, SendsUnderWay, Inside
<1>5. QED BY <1>1, <1>2, <1>3, <1>4 DEF LockInv, TypeOK

\* A step that leaves the senders' state alone keeps their invariant.
LEMMA SendersUntouched ==
    ASSUME LockInv, UNCHANGED codecVars, StreamTypeOK', ReceiveTypeOK'
    PROVE  LockInv'
  BY DEF LockInv, TypeOK, SendTypeOK, BuffersOwned, SendsUnderWay, Inside, codecVars

\* A step that leaves stream and reader alone needs only the senders' part.
LEMMA ReaderUntouched ==
    ASSUME LockInv, UNCHANGED <<wire, conn, recvVars>>, broken' \in BOOLEAN,
           SendTypeOK', BuffersOwned', SendsUnderWay'
    PROVE  LockInv'
  BY DEF LockInv, TypeOK, StreamTypeOK, ReceiveTypeOK, recvVars

\* A step of a sender keeps the lock and the buffer to one Send.
LEMMA SendStepKeepsLockInv ==
    ASSUME LockInv, NEW s \in Senders,
           SendStep(s) \/ \E m \in Envelopes : Call(s, m)
    PROVE  LockInv'
<1> USE CodecAssumption, FrameLenType DEF LockInv, TypeOK
<1>1. ASSUME NEW m \in Envelopes, Call(s, m) PROVE LockInv'
  <2>1. SendTypeOK'
    BY <1>1 DEF Call, Goto, SendTypeOK
  <2>2. BuffersOwned'
    BY <1>1 DEF Call, Goto, SendTypeOK, BuffersOwned, Inside
  <2>3. SendsUnderWay'
    BY <1>1 DEF Call, Goto, SendTypeOK, BuffersOwned, SendsUnderWay, Inside
  <2>4. QED BY <1>1, <2>1, <2>2, <2>3, ReaderUntouched DEF Call, StreamTypeOK
<1>2. ASSUME Lock(s) PROVE LockInv'
  <2>1. SendTypeOK'
    BY <1>2 DEF Lock, LockFree, Goto, SendTypeOK
  <2>2. BuffersOwned'
    BY <1>2 DEF Lock, LockFree, Goto, SendTypeOK, BuffersOwned, Inside
  <2>3. SendsUnderWay'
    BY <1>2 DEF Lock, LockFree, Goto, SendTypeOK, BuffersOwned, SendsUnderWay, Inside
  <2>4. QED BY <1>2, <2>1, <2>2, <2>3, ReaderUntouched DEF Lock, StreamTypeOK
<1>3. ASSUME Marshal(s) PROVE LockInv'
  <2>1. SendTypeOK'
    BY <1>3 DEF Marshal, Refuse, Goto, SendTypeOK
  <2>2. BuffersOwned'
    BY <1>3 DEF Marshal, Refuse, Goto, SendTypeOK, BuffersOwned, Inside
  <2>3. SendsUnderWay'
    BY <1>3 DEF Marshal, Refuse, Goto, SendTypeOK, BuffersOwned, SendsUnderWay, Inside
  <2>4. QED BY <1>3, <2>1, <2>2, <2>3, ReaderUntouched DEF Marshal, StreamTypeOK
<1>4. ASSUME BuildFrame(s) PROVE LockInv'
  <2>1. SendTypeOK'
    BY <1>4 DEF BuildFrame, Refuse, Goto, SendTypeOK
  <2>2. BuffersOwned'
    BY <1>4 DEF BuildFrame, Refuse, Goto, SendTypeOK, BuffersOwned, Inside
  <2>3. SendsUnderWay'
    BY <1>4 DEF BuildFrame, Refuse, Goto, SendTypeOK, BuffersOwned, SendsUnderWay, Inside
  <2>4. QED BY <1>4, <2>1, <2>2, <2>3, ReaderUntouched DEF BuildFrame, StreamTypeOK
<1>5. ASSUME WriteByte(s) PROVE LockInv'
  <2>1. SendTypeOK'
    <3>1. pc' \in [Senders -> Locations] /\ result' \in [Envelopes -> Results]
      <4>1. CASE written + 1 = FrameLen(frame)
        BY <1>5, <4>1 DEF WriteByte, Goto, SendTypeOK
      <4>2. CASE written + 1 # FrameLen(frame)
        BY <1>5, <4>2 DEF WriteByte, SendTypeOK
      <4>3. QED BY <4>1, <4>2
    <3>2. written' \in Nat
      BY <1>5 DEF WriteByte, SendTypeOK
    <3>3. QED BY <1>5, <3>1, <3>2 DEF WriteByte, SendTypeOK
  <2>2. BuffersOwned'
    BY <1>5 DEF WriteByte, Goto, SendTypeOK, BuffersOwned, Inside
  <2>3. SendsUnderWay'
    BY <1>5 DEF WriteByte, Goto, SendTypeOK, BuffersOwned, SendsUnderWay, Inside
  <2>4. StreamTypeOK' /\ ReceiveTypeOK'
    <3>1. <<frame, written + 1>> \in Bytes
      BY <1>5 DEF WriteByte, SendTypeOK, BuffersOwned, SendsUnderWay, Inside, Bytes
    <3>2. wire' \in Seq(Bytes) /\ Len(wire') = Len(wire) + 1
      BY <1>5, <3>1 DEF WriteByte, StreamTypeOK
    <3>3. QED BY <1>5, <3>2 DEF WriteByte, StreamTypeOK, ReceiveTypeOK, recvVars
  <2>5. QED BY <2>1, <2>2, <2>3, <2>4
<1>6. ASSUME WriteFails(s) PROVE LockInv'
  <2>1. SendTypeOK'
    BY <1>6 DEF WriteFails, WriteError, Goto, SendTypeOK
  <2>2. BuffersOwned'
    BY <1>6 DEF WriteFails, WriteError, Goto, SendTypeOK, BuffersOwned, Inside
  <2>3. SendsUnderWay'
    BY <1>6 DEF WriteFails, WriteError, Goto, SendTypeOK, BuffersOwned, SendsUnderWay, Inside
  <2>4. QED BY <1>6, <2>1, <2>2, <2>3, ReaderUntouched DEF WriteFails, StreamTypeOK
<1>7. ASSUME Unlock(s) PROVE LockInv'
  <2>1. SendTypeOK'
    BY <1>7 DEF Unlock, Goto, SendTypeOK
  <2>2. BuffersOwned'
    BY <1>7 DEF Unlock, Goto, SendTypeOK, BuffersOwned, Inside
  <2>3. SendsUnderWay'
    BY <1>7 DEF Unlock, Goto, SendTypeOK, BuffersOwned, SendsUnderWay, Inside
  <2>4. QED BY <1>7, <2>1, <2>2, <2>3, ReaderUntouched DEF Unlock, StreamTypeOK
<1>8. QED
  BY <1>1, <1>2, <1>3, <1>4, <1>5, <1>6, <1>7 DEF SendStep

\* The types of what the end of a length leaves.
LEMMA LengthReadType ==
    ASSUME ReceiveTypeOK, NEW n \in Nat, pos' \in Nat, LengthRead(n)
    PROVE  /\ rpc' \in {"idle", "length", "payload"} /\ body' \in Nat
           /\ need' \in Nat /\ status' \in Statuses /\ lost' \in BOOLEAN
  BY DEF LengthRead, Return, ReceiveTypeOK

\* The types of the receiver.
LEMMA ReceiveStepKeepsType ==
    ASSUME StreamTypeOK, ReceiveTypeOK, ReceiveCall \/ ReceiveStep
    PROVE  ReceiveTypeOK'
<1> USE DEF StreamTypeOK
<1>1. CASE ReceiveCall
  BY <1>1 DEF ReceiveCall, ResumeAt, ReceiveTypeOK
<1>2. CASE Fill
  BY <1>2 DEF Fill, ReceiveTypeOK
<1>3. CASE ReceiveFails
  BY <1>3 DEF ReceiveFails, EndOfStream, Return, ReceiveTypeOK
<1>4. CASE LengthByte
  <2>1. pos' \in 0 .. fetched' /\ pos' \in Nat /\ start' \in 0 .. pos' /\ fetched' \in 0 .. Len(wire')
    BY <1>4 DEF LengthByte, ReceiveTypeOK
  <2>2. Declared(wire[pos + 1][1]) \in Nat
    <3>1. pos + 1 \in 1 .. Len(wire)
      BY <1>4 DEF LengthByte, ReceiveTypeOK
    <3>2. wire[pos + 1] \in Bytes
      BY <3>1
    <3>3. QED BY <3>2, CodecAssumption DEF Declared, Bytes
  <2>3. \/ UNCHANGED <<rpc, body, need, status, lost>>
        \/ \E n \in Nat : LengthRead(n)
    BY <1>4, <2>2, CodecAssumption DEF LengthByte
  <2>4. /\ rpc' \in {"idle", "length", "payload"} /\ body' \in Nat
        /\ need' \in Nat /\ status' \in Statuses /\ lost' \in BOOLEAN
    BY <2>1, <2>3, LengthReadType DEF ReceiveTypeOK
  <2>5. QED BY <1>4, <2>1, <2>4 DEF LengthByte, ReceiveTypeOK
<1>5. CASE PayloadByte
  BY <1>5 DEF PayloadByte, ReceiveTypeOK
<1>6. CASE Decode
  <2>1. delivered' \in Seq(Envelopes \cup {Junk})
    <3>1. \/ \E m \in Envelopes \cup {Junk} : delivered' = Append(delivered, m)
          \/ delivered' = delivered
      BY <1>6 DEF Decode
    <3>2. QED BY <3>1 DEF ReceiveTypeOK
  <2>2. rpc' = "idle" /\ status' \in {"ok", "Malformed"}
    BY <1>6 DEF Decode, Return
  <2>3. UNCHANGED <<wire, fetched, pos, start, body, need, lost>>
    BY <1>6 DEF Decode
  <2>4. QED BY <2>1, <2>2, <2>3 DEF ReceiveTypeOK
<1>7. QED
  BY <1>1, <1>2, <1>3, <1>4, <1>5, <1>6 DEF ReceiveStep

\* Every step keeps the lock, the buffer and the types.
LEMMA LockNext == LockInv /\ [Next]_vars => LockInv'
<1> SUFFICES ASSUME LockInv, [Next]_vars PROVE LockInv'
  OBVIOUS
<1>1. ASSUME NEW s \in Senders, SendStep(s) \/ \E m \in Envelopes : Call(s, m)
      PROVE  LockInv'
  BY <1>1, SendStepKeepsLockInv
<1>2. ASSUME NEW e \in Ends, CloseCall(e) \/ CloseStream(e)
      PROVE  LockInv'
  <2>1. StreamTypeOK' /\ ReceiveTypeOK'
    BY <1>2 DEF CloseCall, CloseStream, ClosedState, LockInv, TypeOK,
                StreamTypeOK, ReceiveTypeOK, recvVars
  <2>2. QED BY <1>2, <2>1, SendersUntouched DEF CloseCall, CloseStream
<1>3. ASSUME ReceiveCall \/ ReceiveStep
      PROVE  LockInv'
  <2>1. UNCHANGED <<codecVars, wire, conn, broken>>
    BY <1>3 DEF ReceiveCall, ReceiveStep, Fill, ReceiveFails, LengthByte, PayloadByte, Decode
  <2>2. ReceiveTypeOK'
    BY <1>3, ReceiveStepKeepsType DEF LockInv, TypeOK
  <2>3. StreamTypeOK'
    BY <2>1 DEF LockInv, TypeOK, StreamTypeOK
  <2>4. QED BY <2>1, <2>2, <2>3, SendersUntouched
<1>4. CASE UNCHANGED vars
  BY <1>4, SendersUntouched DEF vars, recvVars, LockInv, TypeOK, StreamTypeOK, ReceiveTypeOK
<1>5. QED
  BY <1>1, <1>2, <1>3, <1>4 DEF Next, Terminated

\* Every variable keeps its type.
THEOREM TypeCorrect == Spec => []TypeOK
<1>1. Init => LockInv BY LockInit
<1>2. LockInv /\ [Next]_vars => LockInv' BY LockNext
<1>3. LockInv => TypeOK BY DEF LockInv
<1>4. QED BY <1>1, <1>2, <1>3, PTL DEF Spec

\* The mutex gives each Send the Codec's buffers to itself.
THEOREM BuffersSafe == Spec => []BuffersOwned
<1>1. Init => LockInv BY LockInit
<1>2. LockInv /\ [Next]_vars => LockInv' BY LockNext
<1>3. LockInv => BuffersOwned BY DEF LockInv
<1>4. QED BY <1>1, <1>2, <1>3, PTL DEF Spec

-----------------------------------------------------------------------------
(* The bytes on the stream.                                                *)

\* One more byte keeps the frames contiguous when it goes on where they end.
LEMMA AppendContiguous ==
    ASSUME wire \in Seq(Bytes), FramesContiguous,
           NEW m \in Envelopes, NEW k \in 1 .. FrameLen(m),
           wire' = Append(wire, <<m, k>>),
           k = 1 => AtBoundary(Len(wire)),
           k > 1 => Len(wire) > 0 /\ wire[Len(wire)] = <<m, k - 1>>
    PROVE  FramesContiguous'
<1>1. <<m, k>> \in Bytes /\ k \in 1 .. FrameLen(m)
  BY DEF Bytes
<1>2. /\ Len(wire') = Len(wire) + 1 /\ wire'[Len(wire) + 1] = <<m, k>>
      /\ \A i \in 1 .. Len(wire) : wire'[i] = wire[i]
      /\ Len(wire) \in Nat
  BY <1>1
<1>3. SUFFICES ASSUME NEW i \in 1 .. Len(wire')
      PROVE  /\ wire'[i][2] \in 1 .. FrameLen(wire'[i][1])
             /\ wire'[i][2] > 1 =>
                  i > 1 /\ wire'[i - 1] = <<wire'[i][1], wire'[i][2] - 1>>
             /\ wire'[i][2] = 1 => i = 1 \/ Final(wire'[i - 1])
  BY DEF FramesContiguous, Final
<1>4. CASE i \in 1 .. Len(wire)
  <2>1. wire'[i] = wire[i]
    BY <1>2, <1>4
  <2>2. i > 1 => wire'[i - 1] = wire[i - 1]
    BY <1>2, <1>4
  <2>3. /\ wire[i][2] \in 1 .. FrameLen(wire[i][1])
        /\ wire[i][2] > 1 => i > 1 /\ wire[i - 1] = <<wire[i][1], wire[i][2] - 1>>
        /\ wire[i][2] = 1 => i = 1 \/ Final(wire[i - 1])
    BY <1>4 DEF FramesContiguous
  <2>4. i = 1 \/ i > 1
    BY <1>4
  <2>5. QED BY <2>1, <2>2, <2>3, <2>4
<1>5. CASE i = Len(wire) + 1
  <2>1. wire'[i] = <<m, k>> /\ i - 1 = Len(wire)
    BY <1>2, <1>5
  <2>2. Len(wire) > 0 => wire'[i - 1] = wire[Len(wire)]
    BY <1>2, <2>1
  <2>3. k > 1 => i > 1 /\ wire'[i - 1] = <<m, k - 1>>
    BY <1>5, <2>2
  <2>4. k = 1 => i = 1 \/ Final(wire'[i - 1])
    <3>1. CASE Len(wire) = 0
      BY <1>5, <3>1
    <3>2. CASE Len(wire) > 0 /\ k = 1
      <4>1. Final(wire[Len(wire)])
        BY <3>2 DEF AtBoundary
      <4>2. wire'[i - 1] = wire[Len(wire)]
        BY <2>2, <3>2
      <4>3. QED BY <4>1, <4>2 DEF Final
    <3>3. QED BY <3>1, <3>2
  <2>5. QED BY <2>1, <2>3, <2>4
<1>6. i \in 1 .. Len(wire) \/ i = Len(wire) + 1
  BY <1>2
<1>7. QED BY <1>4, <1>5, <1>6

\* An empty stream is made of whole frames.
LEMMA WireInit == Init => WireInv
  BY DEF Init, WireInv, FramesContiguous, TailInv, AtBoundary

\* Only WriteByte touches the wire; what else a sender may do to the tail is
\* start a Write at a boundary or end one.
LEMMA WireUntouched ==
    ASSUME WireInv, UNCHANGED <<wire, frame, written>>, Writable' => Writable,
           \A s \in Senders : pc'[s] = "write" <=> pc[s] = "write"
    PROVE  WireInv'
  BY DEF WireInv, FramesContiguous, TailInv, AtBoundary, Final

\* Every step keeps the frames on the stream contiguous.
LEMMA WireNext == LockInv /\ WireInv /\ [Next]_vars => WireInv'
<1> SUFFICES ASSUME LockInv, WireInv, [Next]_vars PROVE WireInv'
  OBVIOUS
<1> USE CodecAssumption, FrameLenType
\* While s holds the lock no other sender is in its Write.
<1>1. ASSUME NEW s \in Senders, Inside(s), NEW t \in Senders, t # s
      PROVE  pc[t] # "write"
  BY <1>1 DEF LockInv, BuffersOwned, Inside
<1>2. ASSUME NEW s \in Senders, NEW m \in Envelopes, Call(s, m) PROVE WireInv'
  BY <1>2, WireUntouched DEF Call, Goto, LockInv, TypeOK, SendTypeOK, Writable
<1>3. ASSUME NEW s \in Senders, Lock(s) \/ Marshal(s) \/ Unlock(s) PROVE WireInv'
  BY <1>3, WireUntouched
  DEF Lock, Marshal, Unlock, Refuse, Goto, LockInv, TypeOK, SendTypeOK, Writable
<1>4. ASSUME NEW s \in Senders, BuildFrame(s) PROVE WireInv'
  <2>1. \A t \in Senders : pc[t] # "write"
    BY <1>1, <1>4 DEF BuildFrame, Inside
  <2>2. Writable => AtBoundary(Len(wire))
    BY <2>1 DEF WireInv, TailInv
  <2>3. UNCHANGED <<wire, conn, broken>>
    BY <1>4 DEF BuildFrame
  <2>4. \A t \in Senders : pc'[t] = "write" => written' = 0
    BY <1>4, <2>1 DEF BuildFrame, Refuse, Goto, LockInv, TypeOK, SendTypeOK
  <2>5. QED
    BY <2>2, <2>3, <2>4 DEF WireInv, FramesContiguous, TailInv, AtBoundary, Final, Writable
<1>5. ASSUME NEW s \in Senders, WriteByte(s) PROVE WireInv'
  <2>1. frame \in Envelopes /\ written \in Nat /\ written + 1 \in 1 .. FrameLen(frame)
    BY <1>5 DEF WriteByte, LockInv, TypeOK, SendTypeOK, BuffersOwned, SendsUnderWay, Inside
  <2>2. IF written = 0 THEN AtBoundary(Len(wire))
                       ELSE Len(wire) > 0 /\ wire[Len(wire)] = <<frame, written>>
    BY <1>5 DEF WriteByte, WireInv, TailInv
  <2>3. wire \in Seq(Bytes) /\ FramesContiguous /\ wire' = Append(wire, <<frame, written + 1>>)
    BY <1>5 DEF WriteByte, LockInv, TypeOK, StreamTypeOK, WireInv
  <2>4. FramesContiguous'
    <3>1. PICK m \in Envelopes, k \in 1 .. FrameLen(frame) : m = frame /\ k = written + 1
      BY <2>1
    <3>2. k = 1 => AtBoundary(Len(wire))
      BY <2>1, <2>2, <3>1
    <3>3. k > 1 => Len(wire) > 0 /\ wire[Len(wire)] = <<m, k - 1>>
      BY <2>1, <2>2, <3>1
    <3>4. QED BY <2>3, <3>1, <3>2, <3>3, AppendContiguous
  <2>5. <<frame, written + 1>> \in Bytes
    BY <2>1 DEF Bytes
  <2>6. Len(wire') > 0 /\ wire'[Len(wire')] = <<frame, written + 1>>
    BY <2>3, <2>5
  <2>7. \A t \in Senders : t # s => pc'[t] # "write"
    BY <1>1, <1>5 DEF WriteByte, Goto, Inside, LockInv, TypeOK, SendTypeOK
  <2>8. CASE written + 1 = FrameLen(frame)
    <3>1. AtBoundary(Len(wire))'
      BY <2>6, <2>8 DEF AtBoundary, Final
    <3>2. pc'[s] # "write"
      BY <1>5, <2>8 DEF WriteByte, Goto, LockInv, TypeOK, SendTypeOK
    <3>3. QED BY <2>4, <2>7, <3>1, <3>2 DEF WireInv, TailInv
  <2>9. CASE written + 1 # FrameLen(frame)
    <3>1. pc'[s] = "write" /\ frame' = frame /\ written' = written + 1 /\ written' # 0
      BY <1>5, <2>1, <2>9 DEF WriteByte
    <3>2. QED BY <2>4, <2>6, <2>7, <3>1 DEF WireInv, TailInv
  <2>10. QED BY <2>8, <2>9
<1>6. ASSUME NEW s \in Senders, WriteFails(s) PROVE WireInv'
  BY <1>6 DEF WriteFails, WireInv, FramesContiguous, TailInv, Final, Writable
<1>7. ASSUME NEW e \in Ends, CloseCall(e) \/ CloseStream(e) PROVE WireInv'
  <2>1. Writable' => Writable
    BY <1>7 DEF CloseCall, CloseStream, ClosedState, Writable, LockInv, TypeOK, StreamTypeOK
  <2>2. QED BY <1>7, <2>1, WireUntouched DEF CloseCall, CloseStream, codecVars
<1>8. ASSUME ReceiveCall \/ ReceiveStep \/ UNCHANGED vars PROVE WireInv'
  <2>1. UNCHANGED <<codecVars, wire, conn, broken>>
    BY <1>8 DEF vars, ReceiveCall, ReceiveStep, Fill, ReceiveFails, LengthByte, PayloadByte, Decode
  <2>2. QED BY <2>1, WireUntouched DEF codecVars, Writable
<1>9. QED
  BY <1>2, <1>3, <1>4, <1>5, <1>6, <1>7, <1>8 DEF Next, SendStep, Terminated

\* Whatever the senders, the reader and the two Closes do, the stream holds
\* whole frames one after the other, but for the last.
THEOREM StreamInStep == Spec => []FramesContiguous
<1>1. Init => LockInv /\ WireInv BY LockInit, WireInit
<1>2. LockInv /\ WireInv /\ [Next]_vars => (LockInv /\ WireInv)' BY LockNext, WireNext
<1>3. WireInv => FramesContiguous BY DEF WireInv
<1>4. QED BY <1>1, <1>2, <1>3, PTL DEF Spec

-----------------------------------------------------------------------------
(* The reader.                                                             *)

\* What is on the wire stays there.
LEMMA WireGrows ==
    ASSUME LockInv, [Next]_vars
    PROVE  /\ Len(wire) \in Nat /\ Len(wire') \in Nat /\ Len(wire) <= Len(wire')
           /\ \A i \in 1 .. Len(wire) : wire'[i] = wire[i]
<1>1. wire \in Seq(Bytes)
  BY DEF LockInv, TypeOK, StreamTypeOK
<1>2. CASE UNCHANGED wire
  BY <1>1, <1>2
<1>3. CASE \E s \in Senders : WriteByte(s)
  <2>1. <<frame, written + 1>> \in Bytes /\ wire' = Append(wire, <<frame, written + 1>>)
    BY <1>3 DEF WriteByte, LockInv, TypeOK, SendTypeOK, BuffersOwned, SendsUnderWay, Inside, Bytes
  <2>2. QED BY <1>1, <2>1
<1>4. QED
  BY <1>2, <1>3
  DEF Next, SendStep, Call, Lock, Marshal, BuildFrame, WriteFails, Unlock, CloseCall,
      CloseStream, ReceiveCall, ReceiveStep, Fill, ReceiveFails, LengthByte, PayloadByte,
      Decode, Terminated, vars

\* The byte after the first pos - start bytes of a frame is the next one of
\* that frame, and the byte at a boundary the first of some frame.
LEMMA NextByte ==
    ASSUME LockInv, FramesContiguous, AtBoundary(start), pos < Len(wire)
    PROVE  /\ wire[pos + 1][1] \in Envelopes
           /\ pos = start => wire[pos + 1] = <<wire[pos + 1][1], 1>>
           /\ \A m \in Envelopes :
                pos > start /\ ReadOf(m) /\ pos - start < FrameLen(m) =>
                  wire[pos + 1] = <<m, pos + 1 - start>>
<1> USE Sizes
<1>1. /\ wire \in Seq(Bytes) /\ pos \in Nat /\ start \in 0 .. pos
      /\ pos + 1 \in 1 .. Len(wire)
  BY DEF LockInv, TypeOK, StreamTypeOK, ReceiveTypeOK
<1> DEFINE b == wire[pos + 1]
<1>2. b \in Bytes
  BY <1>1
<1>3. b[1] \in Envelopes /\ b[2] \in Nat \ {0} /\ b = <<b[1], b[2]>>
  BY <1>2 DEF Bytes
<1>4. /\ b[2] \in 1 .. FrameLen(b[1])
      /\ b[2] > 1 => pos > 0 /\ wire[pos] = <<b[1], b[2] - 1>>
      /\ b[2] = 1 => pos = 0 \/ Final(wire[pos])
  BY <1>1 DEF FramesContiguous
<1>5. ASSUME pos = start PROVE b[2] = 1
  <2>1. pos = 0 \/ Final(wire[pos])
    BY <1>5 DEF AtBoundary
  <2>2. ASSUME b[2] > 1 PROVE FALSE
    <3>1. Final(wire[pos]) /\ wire[pos][1] = b[1] /\ wire[pos][2] = b[2] - 1
      BY <1>4, <2>1, <2>2
    <3>2. b[2] - 1 = FrameLen(b[1]) /\ b[2] <= FrameLen(b[1]) /\ FrameLen(b[1]) \in Nat
      BY <1>3, <1>4, <3>1 DEF Final
    <3>3. QED BY <1>3, <3>2
  <2>3. QED BY <1>3, <2>2
<1>6. ASSUME NEW m \in Envelopes, pos > start, ReadOf(m), pos - start < FrameLen(m)
      PROVE  b = <<m, pos + 1 - start>>
  <2>1. wire[pos] = <<m, pos - start>>
    BY <1>1, <1>6 DEF ReadOf
  <2>2. b[2] # 1
    BY <1>1, <1>4, <1>6, <2>1 DEF Final
  <2>3. b[1] = m /\ b[2] - 1 = pos - start
    BY <1>3, <1>4, <2>1, <2>2
  <2>4. QED BY <1>1, <1>3, <2>3
<1>7. QED BY <1>3, <1>5, <1>6

\* The senders and the Closes disturb nothing the reader relies on.
LEMMA ReaderUnaffected ==
    ASSUME LockInv, [Next]_vars, ReaderInv, UNCHANGED recvVars
    PROVE  ReaderInv'
<1>1. \A i \in 1 .. pos : wire'[i] = wire[i]
  BY WireGrows DEF LockInv, TypeOK, ReceiveTypeOK
<1>2. pos \in Nat /\ start \in 0 .. pos
  BY WireGrows DEF LockInv, TypeOK, ReceiveTypeOK
<1>3. UNCHANGED <<pos, rpc, start, body, need, delivered, status, lost>>
  BY DEF recvVars
<1>4. (AtBoundary(start) => AtBoundary(start)') /\ (AtBoundary(pos) => AtBoundary(pos)')
  BY <1>1, <1>2, <1>3 DEF AtBoundary, Final
<1>5. \A m \in Envelopes : ReadOf(m) => ReadOf(m)'
  BY <1>1, <1>2, <1>3 DEF ReadOf
<1>6. ReaderInStep'
  BY <1>3, <1>4 DEF ReaderInv, ReaderInStep
<1>7. ~lost' => PositionInv'
  BY <1>3, <1>4, <1>5 DEF ReaderInv, PositionInv
<1>8. QED BY <1>6, <1>7 DEF ReaderInv

\* A receiver that has read nothing is at a boundary.
LEMMA ReaderInit == Init => ReaderInv
  BY DEF Init, ReaderInv, ReaderInStep, PositionInv, AtBoundary

\* A header byte that an in-step reader reads is the next of its frame.
LEMMA HeaderInPlace ==
    ASSUME LockInv, FramesContiguous, ReaderInv, ~lost, LengthByte
    PROVE  /\ InPlace
           /\ \E m \in Envelopes :
                 /\ wire[pos + 1] = <<m, pos + 1 - start>>
                 /\ ReadOf(m)
                 /\ pos + 1 - start <= Header[m]
<1> USE Sizes
<1>1. ReaderInStep /\ PositionInv /\ AtBoundary(start)
  BY DEF ReaderInv, ReaderInStep
<1>2. pos \in Nat /\ start \in 0 .. pos /\ rpc = "length" /\ pos < Len(wire)
  BY WireGrows DEF LengthByte, LockInv, TypeOK, StreamTypeOK, ReceiveTypeOK
<1> DEFINE b == wire[pos + 1]
<1>3. PICK m \in Envelopes :
        b = <<m, pos + 1 - start>> /\ ReadOf(m) /\ pos + 1 - start <= Header[m]
  <2>1. CASE pos = start
    <3>1. b[1] \in Envelopes /\ b = <<b[1], pos + 1 - start>>
      BY <1>1, <1>2, <2>1, NextByte
    <3>2. ReadOf(b[1])
      <4>1. start + 1 .. pos = {}
        BY <1>2, <2>1
      <4>2. QED BY <4>1 DEF ReadOf
    <3>3. pos + 1 - start = 1
      BY <1>2, <2>1
    <3>4. 1 <= Header[b[1]]
      BY <3>1
    <3>5. QED BY <3>1, <3>2, <3>3, <3>4
  <2>2. CASE pos # start
    <3>1. PICK m \in Envelopes : pos - start < Header[m] /\ ReadOf(m)
      BY <1>1, <1>2, <2>2 DEF PositionInv
    <3>2. pos - start < FrameLen(m)
      BY <1>2, <3>1
    <3>3. b = <<m, pos + 1 - start>>
      BY <1>1, <1>2, <2>2, <3>1, <3>2, NextByte
    <3>4. QED BY <1>2, <3>1, <3>3
  <2>3. QED BY <2>1, <2>2
<1>4. InPlace
  <2>1. b[1] = m /\ b[2] = pos + 1 - start
    BY <1>3
  <2>2. b[2] <= Header[b[1]]
    BY <1>3, <2>1
  <2>3. \A i \in start + 1 .. pos : wire[i] = <<b[1], i - start>>
    BY <1>3, <2>1 DEF ReadOf
  <2>4. QED BY <2>1, <2>2, <2>3 DEF InPlace
<1>5. QED BY <1>3, <1>4

\* Reading a byte of a header keeps the receiver in step with the frames.
LEMMA LengthByteKeepsReader ==
    ASSUME LockInv, FramesContiguous, ReaderInv, LengthByte
    PROVE  ReaderInv'
<1> USE Sizes
<1> SUFFICES ASSUME ~lost' PROVE ReaderInStep' /\ PositionInv'
  BY DEF ReaderInv, ReaderInStep
<1>1. ~lost /\ ReaderInStep /\ PositionInv /\ AtBoundary(start)
  BY DEF LengthByte, LengthRead, ReaderInv, ReaderInStep
<1>2. /\ pos \in Nat /\ start \in 0 .. pos /\ pos' = pos + 1 /\ rpc = "length"
      /\ pos < Len(wire) /\ UNCHANGED <<wire, start, delivered>>
  BY WireGrows DEF LengthByte, LockInv, TypeOK, StreamTypeOK, ReceiveTypeOK
<1> DEFINE b == wire[pos + 1]
<1>3. PICK m \in Envelopes :
        b = <<m, pos + 1 - start>> /\ ReadOf(m) /\ pos + 1 - start <= Header[m]
  BY <1>1, HeaderInPlace
<1>4. InPlace
  BY <1>1, HeaderInPlace
<1>5. ReadOf(m)'
  <2>1. SUFFICES ASSUME NEW i \in start + 1 .. pos + 1 PROVE wire[i] = <<m, i - start>>
    BY <1>2 DEF ReadOf
  <2>2. CASE i \in start + 1 .. pos
    BY <1>3, <2>2 DEF ReadOf
  <2>3. CASE i = pos + 1
    BY <1>2, <1>3, <2>3
  <2>4. QED BY <1>2, <2>2, <2>3
<1>6. CASE pos + 1 - start < Header[m]
  <2>1. UNCHANGED <<rpc, body, need, status, lost>>
    BY <1>2, <1>3, <1>4, <1>6 DEF LengthByte
  <2>2. PositionInv'
    BY <1>2, <1>5, <1>6, <2>1 DEF PositionInv
  <2>3. QED BY <1>1, <1>2, <2>1, <2>2 DEF ReaderInStep, AtBoundary, Final
<1>7. CASE pos + 1 - start = Header[m]
  <2>1. LengthRead(Size[m])
    BY <1>2, <1>3, <1>4, <1>7 DEF LengthByte, Declared
  <2>2. rpc' = "payload" /\ body' = pos' /\ need' = Size[m] /\ UNCHANGED <<status, lost>>
    BY <2>1 DEF LengthRead
  <2>3. /\ need' = Size[m] /\ body' = start' + Header[m]
        /\ pos' \in body' .. body' + need'
    <3>1. Header[m] \in Nat /\ Size[m] \in Nat
      OBVIOUS
    <3>2. pos + 1 = start + Header[m] /\ pos + 1 \in pos + 1 .. pos + 1 + Size[m]
      BY <1>2, <1>7, <3>1
    <3>3. QED BY <1>2, <2>2, <3>2
  <2>4. PositionInv'
    BY <1>5, <2>2, <2>3 DEF PositionInv
  <2>5. QED BY <1>1, <1>2, <2>2, <2>4 DEF ReaderInStep, AtBoundary, Final
<1>8. QED BY <1>2, <1>3, <1>6, <1>7

\* Reading a byte of a payload does.
LEMMA PayloadByteKeepsReader ==
    ASSUME LockInv, FramesContiguous, ReaderInv, PayloadByte
    PROVE  ReaderInv'
<1> USE Sizes
<1> SUFFICES ASSUME ~lost PROVE ReaderInStep' /\ PositionInv'
  BY DEF ReaderInv, ReaderInStep, PayloadByte
<1>1. ReaderInStep /\ PositionInv /\ AtBoundary(start)
  BY DEF ReaderInv, ReaderInStep
<1>2. /\ pos \in Nat /\ start \in 0 .. pos /\ pos' = pos + 1 /\ rpc = "payload"
      /\ pos < Len(wire) /\ UNCHANGED <<wire, rpc, start, body, need, delivered, status, lost>>
      /\ need \in Nat /\ pos - body < need
  BY DEF PayloadByte, LockInv, TypeOK, StreamTypeOK, ReceiveTypeOK
<1>3. PICK m \in Envelopes :
        /\ need = Size[m] /\ body = start + Header[m]
        /\ pos \in body .. body + need
        /\ ReadOf(m)
  BY <1>1, <1>2 DEF PositionInv
<1>4. pos > start /\ pos - start < FrameLen(m)
  <2>1. Header[m] \in Nat /\ Header[m] > 0 /\ FrameLen(m) = Header[m] + need
    BY <1>3
  <2>2. pos >= start + Header[m] /\ pos < start + Header[m] + need
    BY <1>2, <1>3, <2>1
  <2>3. QED BY <1>2, <2>1, <2>2
<1>5. wire[pos + 1] = <<m, pos + 1 - start>>
  BY <1>1, <1>2, <1>3, <1>4, NextByte
<1>6. ReadOf(m)' /\ pos' \in body' .. body' + need'
  <2>1. ReadOf(m)'
    <3>1. SUFFICES ASSUME NEW i \in start + 1 .. pos + 1 PROVE wire[i] = <<m, i - start>>
      BY <1>2 DEF ReadOf
    <3>2. CASE i \in start + 1 .. pos
      BY <1>3, <3>2 DEF ReadOf
    <3>3. CASE i = pos + 1
      BY <1>2, <1>5, <3>3
    <3>4. QED BY <1>2, <3>2, <3>3
  <2>2. pos + 1 \in body .. body + need
    <3>1. body \in Int /\ need \in Nat
      BY <1>2, <1>3
    <3>2. pos \in Int /\ pos >= body /\ pos - body < need
      BY <1>2, <1>3
    <3>3. QED BY <3>1, <3>2
  <2>3. QED BY <1>2, <2>1, <2>2
<1>7. PositionInv'
  BY <1>2, <1>3, <1>6 DEF PositionInv
<1>8. QED BY <1>1, <1>2, <1>7 DEF ReaderInStep, AtBoundary, Final

\* Decoding a payload does.
LEMMA DecodeKeepsReader ==
    ASSUME LockInv, ReaderInv, Decode
    PROVE  ReaderInv'
<1> USE Sizes
<1> SUFFICES ASSUME ~lost PROVE ReaderInStep' /\ PositionInv'
  BY DEF ReaderInv, ReaderInStep, Decode
<1>1. ReaderInStep /\ PositionInv /\ AtBoundary(start)
  BY DEF ReaderInv, ReaderInStep
<1>2. /\ rpc = "payload" /\ rpc' = "idle" /\ UNCHANGED <<wire, pos, start>>
      /\ delivered \in Seq(Envelopes \cup {Junk})
  BY DEF Decode, Return, LockInv, TypeOK, ReceiveTypeOK
<1>3. pos \in Nat /\ start \in Nat /\ body \in Nat /\ need \in Nat /\ pos = body + need
  BY DEF Decode, LockInv, TypeOK, StreamTypeOK, ReceiveTypeOK
<1>4. PICK m \in Envelopes :
        need = Size[m] /\ body = start + Header[m] /\ ReadOf(m)
  BY <1>1, <1>2 DEF PositionInv
<1>5. Encodes(m)
  <2>1. ASSUME NEW i \in 1 .. need PROVE wire[body + i] = <<m, Header[m] + i>>
    <3>1. body + i \in start + 1 .. pos /\ body + i - start = Header[m] + i
      BY <1>3, <1>4
    <3>2. wire[body + i] = <<m, body + i - start>>
      BY <1>3, <1>4, <3>1 DEF ReadOf
    <3>3. QED BY <3>1, <3>2
  <2>2. QED BY <1>4, <2>1 DEF Encodes
<1>6. PICK n \in Envelopes : delivered' = Append(delivered, n) /\ status' = "ok"
  BY <1>5 DEF Decode, Return
<1>7. \A i \in DOMAIN delivered' : delivered'[i] # Junk
  <2>1. n \in Envelopes \cup {Junk} /\ n # Junk
    BY CodecAssumption
  <2>2. /\ DOMAIN delivered' = 1 .. Len(delivered) + 1 /\ Len(delivered) \in Nat
        /\ DOMAIN delivered = 1 .. Len(delivered)
        /\ delivered'[Len(delivered) + 1] = n
        /\ \A i \in 1 .. Len(delivered) : delivered'[i] = delivered[i]
    BY <1>2, <1>6, <2>1
  <2>3. \A i \in DOMAIN delivered : delivered[i] # Junk
    BY <1>1 DEF ReaderInStep
  <2>4. QED BY <2>1, <2>2, <2>3
<1>8. AtBoundary(pos)'
  <2>1. pos \in start + 1 .. pos /\ pos - start = FrameLen(m)
    BY <1>3, <1>4
  <2>2. wire[pos] = <<m, FrameLen(m)>>
    BY <1>4, <2>1 DEF ReadOf
  <2>3. QED BY <1>3, <1>2, <2>2 DEF AtBoundary, Final
<1>9. PositionInv'
  BY <1>2, <1>8 DEF PositionInv
<1>10. QED BY <1>1, <1>2, <1>6, <1>7, <1>9 DEF ReaderInStep, AtBoundary, Final

\* Every step keeps the receiver in step until it loses its place.
LEMMA ReaderNext == LockInv /\ WireInv /\ ReaderInv /\ [Next]_vars => ReaderInv'
<1> SUFFICES ASSUME LockInv, WireInv, ReaderInv, [Next]_vars PROVE ReaderInv'
  OBVIOUS
<1>1. CASE UNCHANGED recvVars
  BY <1>1, ReaderUnaffected
<1>2. CASE ReceiveCall
  BY <1>2
  DEF ReceiveCall, ResumeAt, ReaderInv, ReaderInStep, PositionInv, AtBoundary, Final
<1>3. CASE Fill
  BY <1>3 DEF Fill, ReaderInv, ReaderInStep, PositionInv, AtBoundary, Final, ReadOf
<1>4. CASE ReceiveFails
  BY <1>4
  DEF ReceiveFails, EndOfStream, Return, ReaderInv, ReaderInStep, PositionInv, AtBoundary, Final
<1>5. CASE LengthByte
  BY <1>5, LengthByteKeepsReader DEF WireInv
<1>6. CASE PayloadByte
  BY <1>6, PayloadByteKeepsReader DEF WireInv
<1>7. CASE Decode
  BY <1>7, DecodeKeepsReader
<1>8. QED
  BY <1>1, <1>2, <1>3, <1>4, <1>5, <1>6, <1>7
  DEF Next, SendStep, Call, Lock, Marshal, BuildFrame, WriteByte, WriteFails, Unlock,
      CloseCall, CloseStream, ReceiveStep, Terminated, vars

\* As long as it has refused no frame, the reader starts every Receive at a
\* boundary and decodes nothing but whole envelopes, however the two ends
\* are closed and whatever the limits of the two builds.
THEOREM ReaderStaysInStep == Spec => []ReaderInStep
<1>1. Init => LockInv /\ WireInv /\ ReaderInv BY LockInit, WireInit, ReaderInit
<1>2. LockInv /\ WireInv /\ ReaderInv /\ [Next]_vars => (LockInv /\ WireInv /\ ReaderInv)'
  BY LockNext, WireNext, ReaderNext
<1>3. ReaderInv => ReaderInStep BY DEF ReaderInv
<1>4. QED BY <1>1, <1>2, <1>3, PTL DEF Spec

-----------------------------------------------------------------------------
(* The result of a Send.                                                   *)

\* Send has been called and has not settled what it will return.
UnderWay(s) == pc[s] \in {"lock", "marshal", "frame", "write"}

\* The Send under way has put nothing on the wire before its Write, and its
\* first written bytes during it.
SendsPending ==
    \A s \in Senders : UnderWay(s) =>
        /\ result[env[s]] = "pending"
        /\ pc[s] # "write" => ~OnWire(env[s])
        /\ pc[s] = "write" =>
              \A i \in 1 .. Len(wire) : wire[i][1] = env[s] => wire[i][2] <= written

SendsDistinct ==
    \A s, t \in Senders : UnderWay(s) /\ UnderWay(t) /\ s # t => env[s] # env[t]

ReportInv == ResultMeansBytes /\ SendsPending /\ SendsDistinct

\* No Send has a result at the start.
LEMMA ReportInit == Init => ReportInv
  BY DEF Init, ReportInv, ResultMeansBytes, SendsPending, SendsDistinct, UnderWay, OnWire

\* A step that leaves the wire alone, and of the results only m's, where m is
\* neither sent before nor after.
LEMMA WireKept ==
    ASSUME LockInv, ResultMeansBytes, UNCHANGED wire,
           NEW m \in Envelopes, NEW r \in Results,
           result' = [result EXCEPT ![m] = r], result[m] # "sent", r # "sent",
           r \in {"unsent", "refused"} => ~OnWire(m)
    PROVE  ResultMeansBytes'
<1>1. result \in [Envelopes -> Results]
  BY DEF LockInv, TypeOK, SendTypeOK
<1>2. \A n \in Envelopes : result'[n] = IF n = m THEN r ELSE result[n]
  BY <1>1
<1>3. \A n \in Envelopes : OnWire(n)' = OnWire(n)
  BY DEF OnWire
<1>4. QED BY <1>2, <1>3 DEF ResultMeansBytes

\* A Send that is called has no result and nothing on the wire.
LEMMA CallReports ==
    ASSUME LockInv, ReportInv, NEW s \in Senders, NEW m \in Envelopes, Call(s, m)
    PROVE  ReportInv'
<1> USE DEF LockInv, TypeOK, SendTypeOK
<1>1. result[m] = "unsent" /\ ~OnWire(m) /\ UNCHANGED <<wire, written>> /\ pc[s] = "idle"
  BY DEF Call, ReportInv, ResultMeansBytes
<1>2. CASE m \in Missing
  <2>1. result' = [result EXCEPT ![m] = "refused"] /\ UNCHANGED <<pc, env>>
    BY <1>2 DEF Call
  <2>2. ResultMeansBytes'
    BY <1>1, <2>1, WireKept DEF ReportInv
  <2>3. ASSUME NEW t \in Senders, UnderWay(t)
        PROVE  env[t] \in Envelopes /\ result[env[t]] = "pending" /\ env[t] # m
    BY <1>1, <2>3 DEF ReportInv, SendsPending, SendsUnderWay, UnderWay
  <2>4. SendsPending'
    BY <1>1, <2>1, <2>3 DEF ReportInv, SendsPending, UnderWay, OnWire
  <2>5. SendsDistinct'
    BY <2>1 DEF ReportInv, SendsDistinct, UnderWay
  <2>6. QED BY <2>2, <2>4, <2>5 DEF ReportInv
<1>3. CASE m \notin Missing
  <2>1. /\ result' = [result EXCEPT ![m] = "pending"]
        /\ env' = [env EXCEPT ![s] = m]
        /\ pc' = [pc EXCEPT ![s] = "lock"]
    BY <1>3 DEF Call, Goto
  <2>2. ResultMeansBytes'
    BY <1>1, <2>1, WireKept DEF ReportInv
  <2>3. ASSUME NEW t \in Senders, t # s, UnderWay(t)
        PROVE  env[t] \in Envelopes /\ result[env[t]] = "pending" /\ env[t] # m
    BY <1>1, <2>3 DEF ReportInv, SendsPending, SendsUnderWay, UnderWay
  <2>4. /\ pc'[s] = "lock" /\ env'[s] = m /\ result'[m] = "pending"
        /\ \A t \in Senders : t # s => pc'[t] = pc[t] /\ env'[t] = env[t]
        /\ \A n \in Envelopes : n # m => result'[n] = result[n]
    BY <2>1
  <2>5. SendsPending'
    BY <1>1, <2>3, <2>4 DEF ReportInv, SendsPending, UnderWay, OnWire
  <2>6. SendsDistinct'
    BY <2>3, <2>4 DEF ReportInv, SendsDistinct, UnderWay
  <2>7. QED BY <2>2, <2>5, <2>6 DEF ReportInv
<1>4. QED BY <1>2, <1>3

\* A Send under way goes on with the same envelope, before its Write or into it.
LEMMA GoesOn ==
    ASSUME LockInv, ReportInv, NEW s \in Senders, UnderWay(s), pc[s] # "write",
           NEW l \in Locations, Goto(s, l),
           UNCHANGED <<env, wire, result>>,
           \A t \in Senders : pc[t] # "write"
    PROVE  ReportInv'
<1> USE DEF LockInv, TypeOK, SendTypeOK
<1>1. \A t \in Senders : pc'[t] = IF t = s THEN l ELSE pc[t]
  BY DEF Goto
<1>2. \A t \in Senders : UnderWay(t)' => UnderWay(t) /\ ~OnWire(env[t])
  BY <1>1 DEF ReportInv, SendsPending, UnderWay
<1>3. \A n : OnWire(n)' = OnWire(n)
  BY DEF OnWire
<1>4. ResultMeansBytes'
  BY <1>3 DEF ReportInv, ResultMeansBytes
<1>5. SendsPending'
  <2>1. SUFFICES ASSUME NEW t \in Senders, UnderWay(t)'
        PROVE  /\ result[env[t]] = "pending"
               /\ ~OnWire(env[t])'
               /\ \A i \in 1 .. Len(wire) : wire[i][1] # env[t]
    BY DEF SendsPending
  <2>2. result[env[t]] = "pending" /\ ~OnWire(env[t])
    BY <1>2, <2>1 DEF ReportInv, SendsPending
  <2>3. QED BY <1>3, <2>2 DEF OnWire
<1>6. SendsDistinct'
  BY <1>2 DEF ReportInv, SendsDistinct
<1>7. QED BY <1>4, <1>5, <1>6 DEF ReportInv

\* A Send settles for a result other than "sent".
LEMMA GivesUp ==
    ASSUME LockInv, ReportInv, NEW s \in Senders, UnderWay(s),
           NEW r \in {"refused", "failed"}, r = "refused" => pc[s] # "write",
           result' = [result EXCEPT ![env[s]] = r], Goto(s, "unlock"),
           UNCHANGED <<env, wire, written>>
    PROVE  ReportInv'
<1> USE DEF LockInv, TypeOK, SendTypeOK
<1>1. env[s] \in Envelopes /\ result[env[s]] = "pending" /\ (r = "refused" => ~OnWire(env[s]))
  BY DEF ReportInv, SendsPending, SendsUnderWay, UnderWay
<1>2. ResultMeansBytes'
  <2>1. r \in Results
    OBVIOUS
  <2>2. QED BY <1>1, <2>1, WireKept DEF ReportInv
<1>3. /\ \A t \in Senders : pc'[t] = IF t = s THEN "unlock" ELSE pc[t]
      /\ \A n \in Envelopes : n # env[s] => result'[n] = result[n]
  BY <1>1 DEF Goto
<1>4. ASSUME NEW t \in Senders, UnderWay(t)'
      PROVE  UnderWay(t) /\ t # s /\ env[t] # env[s] /\ env[t] \in Envelopes /\ pc'[t] = pc[t]
  BY <1>3, <1>4 DEF ReportInv, SendsDistinct, SendsUnderWay, UnderWay
<1>5. \A n : OnWire(n)' = OnWire(n)
  BY DEF OnWire
<1>6. SendsPending'
  <2>1. SUFFICES ASSUME NEW t \in Senders, UnderWay(t)'
        PROVE  /\ result'[env[t]] = "pending"
               /\ pc'[t] # "write" => ~OnWire(env[t])'
               /\ pc'[t] = "write" =>
                     \A i \in 1 .. Len(wire) : wire[i][1] = env[t] => wire[i][2] <= written
    BY DEF SendsPending
  <2>2. QED BY <1>3, <1>4, <1>5, <2>1 DEF ReportInv, SendsPending
<1>7. SendsDistinct'
  BY <1>4 DEF ReportInv, SendsDistinct
<1>8. QED BY <1>2, <1>6, <1>7 DEF ReportInv

\* While s is between Lock and Unlock, no other Send is in its Write.
LEMMA AloneInside ==
    ASSUME LockInv, NEW s \in Senders, Inside(s) \/ mu = NoSender,
           NEW t \in Senders, t # s
    PROVE  pc[t] # "write"
  BY CodecAssumption DEF LockInv, BuffersOwned, Inside

\* One byte more: the next of the frame of the Send that writes it.
LEMMA WriteByteReports ==
    ASSUME LockInv, ReportInv, NEW s \in Senders, WriteByte(s)
    PROVE  ReportInv'
<1> USE FrameLenType DEF LockInv, TypeOK, SendTypeOK
<1>1. /\ pc[s] = "write" /\ frame = env[s] /\ env[s] \in Envelopes
      /\ written \in Nat /\ written < FrameLen(frame) /\ FrameLen(frame) \in Nat
  BY DEF WriteByte, BuffersOwned, SendsUnderWay, Inside
<1>2. /\ result[env[s]] = "pending"
      /\ \A i \in 1 .. Len(wire) : wire[i][1] = env[s] => wire[i][2] <= written
  BY <1>1 DEF ReportInv, SendsPending, UnderWay
<1>3. wire \in Seq(Bytes) /\ <<frame, written + 1>> \in Bytes
  BY <1>1 DEF StreamTypeOK, Bytes
<1>4. /\ Len(wire) \in Nat /\ Len(wire') = Len(wire) + 1
      /\ \A i \in 1 .. Len(wire) : wire'[i] = wire[i] /\ wire[i] \in Bytes
      /\ wire'[Len(wire) + 1] = <<frame, written + 1>>
  BY <1>3 DEF WriteByte
<1>5. \A i \in 1 .. Len(wire') :
        \/ i \in 1 .. Len(wire) /\ wire'[i] = wire[i]
        \/ i = Len(wire) + 1 /\ wire'[i] = <<frame, written + 1>>
  BY <1>4
<1>6. 1 .. Len(wire) \subseteq 1 .. Len(wire') /\ Len(wire) + 1 \in 1 .. Len(wire')
  BY <1>4
<1>7. \A i \in 1 .. Len(wire) : wire[i] # <<frame, written + 1>>
  <2>1. SUFFICES ASSUME NEW i \in 1 .. Len(wire), wire[i] = <<frame, written + 1>>
        PROVE  FALSE
    OBVIOUS
  <2>2. written + 1 <= written
    BY <1>1, <1>2, <2>1
  <2>3. QED BY <1>1, <2>2
<1>8. \A i, j \in 1 .. Len(wire') : wire'[i] = wire'[j] => i = j
  BY <1>5, <1>7 DEF ReportInv, ResultMeansBytes
<1>9. ASSUME NEW n \in Envelopes, n # frame
      PROVE  OnWire(n)' <=> OnWire(n)
  <2>1. \A i \in 1 .. Len(wire) : wire'[i][1] = n <=> wire[i][1] = n
    BY <1>4
  <2>2. wire'[Len(wire) + 1][1] # n
    BY <1>4, <1>9
  <2>3. \A i \in 1 .. Len(wire') : i \in 1 .. Len(wire) \/ i = Len(wire) + 1
    BY <1>5
  <2>4. (\E i \in 1 .. Len(wire') : wire'[i][1] = n) <=> \E i \in 1 .. Len(wire) : wire[i][1] = n
    BY <1>6, <2>1, <2>2, <2>3
  <2>5. QED BY <2>4 DEF OnWire
<1>10. \A n \in Envelopes : n # frame => result'[n] = result[n]
  BY <1>1 DEF WriteByte
<1>11. result'[frame] = IF written + 1 = FrameLen(frame) THEN "sent" ELSE "pending"
  BY <1>1, <1>2 DEF WriteByte
<1>12. ASSUME NEW n \in Envelopes
       PROVE  (result'[n] = "sent") <=> \E i \in 1 .. Len(wire') : wire'[i] = <<n, FrameLen(n)>>
  <2>1. CASE n # frame
    <3>1. (\E i \in 1 .. Len(wire') : wire'[i] = <<n, FrameLen(n)>>)
          <=> \E i \in 1 .. Len(wire) : wire[i] = <<n, FrameLen(n)>>
      <4>1. <<n, FrameLen(n)>> # <<frame, written + 1>>
        BY <2>1
      <4>2. ASSUME NEW i \in 1 .. Len(wire'), wire'[i] = <<n, FrameLen(n)>>
            PROVE  i \in 1 .. Len(wire) /\ wire[i] = <<n, FrameLen(n)>>
        BY <1>5, <4>1, <4>2
      <4>3. ASSUME NEW i \in 1 .. Len(wire), wire[i] = <<n, FrameLen(n)>>
            PROVE  i \in 1 .. Len(wire') /\ wire'[i] = <<n, FrameLen(n)>>
        BY <1>4, <1>6, <4>3
      <4>4. QED BY <4>2, <4>3
    <3>2. QED BY <1>10, <2>1, <3>1 DEF ReportInv, ResultMeansBytes
  <2>2. CASE n = frame /\ written + 1 = FrameLen(frame)
    BY <1>4, <1>6, <1>11, <2>2
  <2>3. CASE n = frame /\ written + 1 # FrameLen(frame)
    <3>1. result'[n] # "sent"
      BY <1>11, <2>3
    <3>2. \A i \in 1 .. Len(wire) : wire[i] # <<frame, FrameLen(frame)>>
      <4>1. SUFFICES ASSUME NEW i \in 1 .. Len(wire), wire[i] = <<frame, FrameLen(frame)>>
            PROVE  FALSE
        OBVIOUS
      <4>2. FrameLen(frame) <= written
        BY <1>1, <1>2, <4>1
      <4>3. QED BY <1>1, <4>2
    <3>3. <<frame, written + 1>> # <<frame, FrameLen(frame)>>
      BY <2>3
    <3>4. QED BY <1>5, <2>3, <3>1, <3>2, <3>3
  <2>4. QED BY <2>1, <2>2, <2>3
<1>13. ResultMeansBytes'
  <2>1. \A n \in Envelopes : result'[n] \in {"unsent", "refused"} => ~OnWire(n)'
    BY <1>9, <1>10, <1>11 DEF ReportInv, ResultMeansBytes
  <2>2. QED BY <1>8, <1>12, <2>1 DEF ResultMeansBytes, FrameLen
<1>14. /\ UNCHANGED env /\ written' = written + 1
       /\ pc'[s] = IF written + 1 = FrameLen(frame) THEN "unlock" ELSE "write"
       /\ \A t \in Senders : t # s => pc'[t] = pc[t]
  BY <1>1 DEF WriteByte, Goto
<1>15. \A t \in Senders : UnderWay(t)' => UnderWay(t)
  BY <1>1, <1>14 DEF UnderWay
<1>16. ASSUME NEW t \in Senders, UnderWay(t)'
       PROVE  /\ result'[env[t]] = "pending"
              /\ pc'[t] # "write" => ~OnWire(env[t])'
              /\ pc'[t] = "write" =>
                    \A i \in 1 .. Len(wire') : wire'[i][1] = env[t] => wire'[i][2] <= written'
  <2>1. CASE t = s
    <3>1. pc'[s] = "write" /\ result'[env[s]] = "pending"
      BY <1>1, <1>11, <1>14, <1>16, <2>1 DEF UnderWay
    <3>2. ASSUME NEW i \in 1 .. Len(wire'), wire'[i][1] = env[s]
          PROVE  wire'[i][2] <= written + 1
      <4>1. CASE i \in 1 .. Len(wire)
        <5>1. wire'[i] = wire[i] /\ wire[i][2] \in Nat
          BY <1>4, <4>1 DEF Bytes
        <5>2. wire[i][2] <= written
          BY <1>2, <3>2, <4>1, <5>1
        <5>3. QED BY <1>1, <5>1, <5>2
      <4>2. CASE i = Len(wire) + 1
        BY <1>1, <1>4, <4>2
      <4>3. QED BY <1>5, <4>1, <4>2
    <3>3. QED BY <1>14, <2>1, <3>1, <3>2
  <2>2. CASE t # s
    <3>1. UnderWay(t) /\ UnderWay(s) /\ pc'[t] = pc[t] /\ pc[t] # "write" /\ env[t] \in Envelopes
      BY <1>1, <1>14, <1>15, <1>16, <2>2, AloneInside
      DEF Inside, UnderWay, SendsUnderWay
    <3>2. env[t] # frame
      BY <1>1, <2>2, <3>1 DEF ReportInv, SendsDistinct
    <3>3. result[env[t]] = "pending" /\ ~OnWire(env[t])
      BY <3>1 DEF ReportInv, SendsPending
    <3>4. ~OnWire(env[t])'
      BY <1>9, <1>14, <3>1, <3>2, <3>3
    <3>5. QED BY <1>10, <1>14, <3>1, <3>2, <3>3, <3>4
  <2>3. QED BY <2>1, <2>2
<1>17. SendsPending'
  BY <1>14, <1>16 DEF SendsPending
<1>18. SendsDistinct'
  BY <1>14, <1>15 DEF ReportInv, SendsDistinct
<1>19. QED BY <1>13, <1>17, <1>18 DEF ReportInv

\* A Send that returns has settled its result.
LEMMA UnlockReports ==
    ASSUME LockInv, ReportInv, NEW s \in Senders, Unlock(s)
    PROVE  ReportInv'
<1> USE DEF LockInv, TypeOK, SendTypeOK
<1>1. /\ pc'[s] = "idle" /\ UNCHANGED <<result, wire, written>>
      /\ \A t \in Senders : t # s => pc'[t] = pc[t] /\ env'[t] = env[t]
  BY DEF Unlock, Goto
<1>2. \A t \in Senders : UnderWay(t)' => t # s /\ UnderWay(t) /\ env'[t] = env[t] /\ pc'[t] = pc[t]
  BY <1>1 DEF UnderWay
<1>3. ResultMeansBytes'
  <2>1. \A n : OnWire(n)' = OnWire(n)
    BY <1>1 DEF OnWire
  <2>2. QED BY <1>1, <2>1 DEF ReportInv, ResultMeansBytes
<1>4. SendsPending'
  BY <1>1, <1>2 DEF ReportInv, SendsPending, OnWire
<1>5. SendsDistinct'
  BY <1>2 DEF ReportInv, SendsDistinct
<1>6. QED BY <1>3, <1>4, <1>5 DEF ReportInv

\* Every step keeps the results true of the wire.
LEMMA ReportNext == LockInv /\ ReportInv /\ [Next]_vars => ReportInv'
<1> SUFFICES ASSUME LockInv, ReportInv, [Next]_vars PROVE ReportInv'
  OBVIOUS
<1>1. ASSUME NEW s \in Senders, NEW m \in Envelopes, Call(s, m) PROVE ReportInv'
  BY <1>1, CallReports
<1>2. ASSUME NEW s \in Senders, Lock(s) PROVE ReportInv'
  <2>1. \A t \in Senders : pc[t] # "write"
    BY <1>2, AloneInside DEF Lock, LockFree
  <2>2. QED BY <1>2, <2>1, GoesOn DEF Lock, UnderWay
<1>3. ASSUME NEW s \in Senders, Marshal(s) PROVE ReportInv'
  <2>1. \A t \in Senders : pc[t] # "write"
    BY <1>3, AloneInside DEF Marshal, Inside
  <2>2. CASE Goto(s, "frame") /\ UNCHANGED result
    BY <1>3, <2>1, <2>2, GoesOn DEF Marshal, UnderWay
  <2>3. CASE Refuse(s)
    BY <1>3, <2>3, GivesUp DEF Marshal, Refuse, UnderWay
  <2>4. QED BY <1>3, <2>2, <2>3 DEF Marshal
<1>4. ASSUME NEW s \in Senders, BuildFrame(s) PROVE ReportInv'
  <2>1. \A t \in Senders : pc[t] # "write"
    BY <1>4, AloneInside DEF BuildFrame, Inside
  <2>2. CASE Goto(s, "write") /\ UNCHANGED result
    BY <1>4, <2>1, <2>2, GoesOn DEF BuildFrame, UnderWay
  <2>3. CASE Refuse(s) /\ UNCHANGED written
    BY <1>4, <2>3, GivesUp DEF BuildFrame, Refuse, UnderWay
  <2>4. QED BY <1>4, <2>2, <2>3 DEF BuildFrame
<1>5. ASSUME NEW s \in Senders, WriteByte(s) PROVE ReportInv'
  BY <1>5, WriteByteReports
<1>6. ASSUME NEW s \in Senders, WriteFails(s) PROVE ReportInv'
  BY <1>6, GivesUp DEF WriteFails, WriteError, UnderWay
<1>7. ASSUME NEW s \in Senders, Unlock(s) PROVE ReportInv'
  BY <1>7, UnlockReports
<1>8. CASE UNCHANGED <<codecVars, wire>>
  <2>1. UNCHANGED <<pc, env, result, written, wire>>
    BY <1>8 DEF codecVars
  <2>2. \A n : OnWire(n)' = OnWire(n)
    BY <2>1 DEF OnWire
  <2>3. ResultMeansBytes'
    BY <2>1, <2>2 DEF ReportInv, ResultMeansBytes
  <2>4. SendsPending'
    BY <2>1 DEF ReportInv, SendsPending, UnderWay, OnWire
  <2>5. SendsDistinct'
    BY <2>1 DEF ReportInv, SendsDistinct, UnderWay
  <2>6. QED BY <2>3, <2>4, <2>5 DEF ReportInv
<1>9. QED
  BY <1>1, <1>2, <1>3, <1>4, <1>5, <1>6, <1>7, <1>8
  DEF Next, SendStep, CloseCall, CloseStream, ReceiveCall, ReceiveStep, Fill, ReceiveFails,
      LengthByte, PayloadByte, Decode, Terminated, vars

\* What Send returned tells what the stream got, whatever the other Sends and
\* the two Closes do meanwhile.
THEOREM ResultsTellTheTruth == Spec => []ResultMeansBytes
<1>1. Init => LockInv /\ ReportInv BY LockInit, ReportInit
<1>2. LockInv /\ ReportInv /\ [Next]_vars => (LockInv /\ ReportInv)' BY LockNext, ReportNext
<1>3. ReportInv => ResultMeansBytes BY DEF ReportInv
<1>4. QED BY <1>1, <1>2, <1>3, PTL DEF Spec

-----------------------------------------------------------------------------
(* The end of the stream, as Receive reports it.                           *)

\* The error that ends the stream is the last thing Receive returns, and an
\* end of the stream is seen only after the sender closed it.
StreamEnds ==
    /\ status \in StreamErrs => rpc = "idle"
    /\ status \in {"EOF", "UnexpectedEOF"} => conn["send"] = "closed"

EndInv == StreamEnds /\ OrderlyEndIsClean /\ CleanEOFOnlyAroundHeaders

\* The stream has not ended at the start.
LEMMA EndInit == Init => EndInv
  BY DEF Init, EndInv, StreamEnds, OrderlyEndIsClean, CleanEOFOnlyAroundHeaders

\* A byte that is not the last of its frame is no boundary.
LEMMA MidFrame ==
    ASSUME NEW p \in Nat, p > 0, NEW m \in Envelopes, NEW k \in Nat,
           wire[p] = <<m, k>>, k < FrameLen(m)
    PROVE  ~AtBoundary(p)
  BY FrameLenType DEF AtBoundary, Final

\* A reader in step that finds the stream ended stands at a boundary, inside a
\* header, just after one, or inside a payload, and its error tells which.
LEMMA EndSeen ==
    ASSUME LockInv, ReaderInv, ~lost, Wanting, pos = fetched, fetched = Len(wire)
    PROVE  /\ EndOfStream = "UnexpectedEOF" => ~AtBoundary(Len(wire))
           /\ EndOfStream = "EOF" =>
                 \/ AtBoundary(Len(wire))
                 \/ LET b == wire[Len(wire)] IN b[2] = Header[b[1]]
<1> USE Sizes
<1>1. ReaderInStep /\ PositionInv /\ AtBoundary(start)
  BY DEF ReaderInv, ReaderInStep
<1>2. /\ pos \in Nat /\ start \in 0 .. pos /\ body \in Nat /\ need \in Nat
      /\ Len(wire) = pos
  BY DEF LockInv, TypeOK, ReceiveTypeOK, StreamTypeOK
<1>3. CASE rpc = "length"
  <2>1. CASE pos = start
    BY <1>1, <1>2, <1>3, <2>1 DEF EndOfStream, ReadSome
  <2>2. CASE pos # start
    <3>1. PICK m \in Envelopes : pos - start < Header[m] /\ ReadOf(m)
      BY <1>1, <1>3, <2>2 DEF PositionInv
    <3>2. pos > start /\ pos - start \in Nat /\ pos - start < FrameLen(m)
      BY <1>2, <2>2, <3>1
    <3>3. wire[pos] = <<m, pos - start>>
      BY <1>2, <3>1, <3>2 DEF ReadOf
    <3>4. ~AtBoundary(pos)
      BY <1>2, <3>2, <3>3, MidFrame
    <3>5. EndOfStream = "UnexpectedEOF"
      BY <1>3, <3>2 DEF EndOfStream, ReadSome
    <3>6. QED BY <1>2, <3>4, <3>5
  <2>3. QED BY <2>1, <2>2
<1>4. CASE rpc = "payload"
  <2>1. PICK m \in Envelopes :
          /\ need = Size[m] /\ body = start + Header[m]
          /\ pos \in body .. body + need
          /\ ReadOf(m)
    BY <1>1, <1>4 DEF PositionInv
  <2>2. pos - body < need
    BY <1>4 DEF Wanting
  <2>3. pos > start /\ pos - start \in Nat /\ pos - start < FrameLen(m)
    <3>1. Header[m] \in Nat /\ Header[m] > 0 /\ FrameLen(m) = Header[m] + need
      BY <2>1
    <3>2. pos >= start + Header[m] /\ pos < start + Header[m] + need
      BY <1>2, <2>1, <2>2
    <3>3. QED BY <1>2, <3>1, <3>2
  <2>4. wire[pos] = <<m, pos - start>>
    BY <1>2, <2>1, <2>3 DEF ReadOf
  <2>5. ~AtBoundary(pos)
    BY <1>2, <2>3, <2>4, MidFrame
  <2>6. CASE pos = body
    <3>1. EndOfStream = "EOF"
      BY <1>2, <1>4, <2>6 DEF EndOfStream, ReadSome
    <3>2. pos - start = Header[m]
      BY <1>2, <2>1, <2>6
    <3>3. QED BY <1>2, <2>4, <3>1, <3>2
  <2>7. CASE pos # body
    <3>1. EndOfStream = "UnexpectedEOF"
      BY <1>2, <1>4, <2>1, <2>7 DEF EndOfStream, ReadSome
    <3>2. QED BY <1>2, <2>5, <3>1
  <2>8. QED BY <2>6, <2>7
<1>5. QED BY <1>3, <1>4 DEF Wanting

\* A step that leaves the reader's verdict alone, and the wire once the end of
\* the stream has been seen.
LEMMA EndKept ==
    ASSUME EndInv, UNCHANGED <<status, lost>>,
           status \in StreamErrs => rpc' = rpc,
           conn["send"] = "closed" => conn'["send"] = "closed" /\ UNCHANGED wire
    PROVE  EndInv'
<1>1. CASE status \in {"EOF", "UnexpectedEOF"}
  <2>1. UNCHANGED wire
    BY <1>1 DEF EndInv, StreamEnds
  <2>2. QED
    BY <1>1, <2>1
    DEF EndInv, StreamEnds, OrderlyEndIsClean, CleanEOFOnlyAroundHeaders, AtBoundary, Final
<1>2. CASE status \notin {"EOF", "UnexpectedEOF"}
  BY <1>2 DEF EndInv, StreamEnds, OrderlyEndIsClean, CleanEOFOnlyAroundHeaders
<1>3. QED BY <1>1, <1>2

\* Every step keeps what Receive says of the end true.
LEMMA EndNext == LockInv /\ ReaderInv /\ EndInv /\ [Next]_vars => EndInv'
<1> SUFFICES ASSUME LockInv, ReaderInv, EndInv, [Next]_vars PROVE EndInv'
  OBVIOUS
<1>1. CASE UNCHANGED <<wire, conn, recvVars>>
  BY <1>1, EndKept DEF recvVars
<1>2. ASSUME NEW s \in Senders, WriteByte(s) PROVE EndInv'
  <2>1. conn["send"] # "closed" /\ UNCHANGED recvVars
    BY <1>2 DEF WriteByte, Writable
  <2>2. QED BY <2>1, EndKept DEF recvVars
<1>3. ASSUME NEW e \in Ends, CloseCall(e) \/ CloseStream(e) PROVE EndInv'
  <2>1. UNCHANGED <<wire, recvVars>>
    BY <1>3 DEF CloseCall, CloseStream
  <2>2. conn["send"] = "closed" => conn'["send"] = "closed"
    BY <1>3 DEF CloseCall, CloseStream, ClosedState, LockInv, TypeOK, StreamTypeOK
  <2>3. QED BY <2>1, <2>2, EndKept DEF recvVars
<1>4. CASE ReceiveCall
  BY <1>4, EndKept DEF ReceiveCall
<1>5. CASE Fill
  BY <1>5, EndKept DEF Fill
<1>6. CASE PayloadByte
  BY <1>6, EndKept DEF PayloadByte
<1>7. CASE ReceiveFails
  <2>1. UNCHANGED <<wire, conn, lost>> /\ rpc' = "idle"
    BY <1>7 DEF ReceiveFails, Return
  <2>2. CASE status' = "Closed"
    BY <2>1, <2>2 DEF EndInv, StreamEnds, OrderlyEndIsClean, CleanEOFOnlyAroundHeaders
  <2>3. CASE /\ status' = EndOfStream /\ conn["send"] = "closed"
             /\ Wanting /\ pos = fetched /\ fetched = Len(wire)
    <3>1. StreamEnds'
      BY <2>1, <2>3 DEF StreamEnds
    <3>2. (OrderlyEndIsClean /\ CleanEOFOnlyAroundHeaders)'
      BY <2>1, <2>3, EndSeen
      DEF OrderlyEndIsClean, CleanEOFOnlyAroundHeaders, AtBoundary, Final
    <3>3. QED BY <3>1, <3>2 DEF EndInv
  <2>4. QED BY <1>7, <2>2, <2>3 DEF ReceiveFails, Return
<1>8. CASE LengthByte
  <2>1. rpc = "length" /\ status \notin StreamErrs /\ UNCHANGED <<wire, conn>>
    BY <1>8 DEF LengthByte, EndInv, StreamEnds
  <2>2. status' = status \/ status' = "TooLarge"
    BY <1>8 DEF LengthByte, LengthRead, Return
  <2>3. status' \notin StreamErrs
    BY <2>1, <2>2
  <2>4. QED
    BY <2>3 DEF EndInv, StreamEnds, OrderlyEndIsClean, CleanEOFOnlyAroundHeaders
<1>9. CASE Decode
  <2>1. status' \in {"ok", "Malformed"}
    BY <1>9 DEF Decode, Return
  <2>2. QED
    BY <2>1 DEF EndInv, StreamEnds, OrderlyEndIsClean, CleanEOFOnlyAroundHeaders
<1>10. QED
  BY <1>1, <1>2, <1>3, <1>4, <1>5, <1>6, <1>7, <1>8, <1>9
  DEF Next, SendStep, Call, Lock, Marshal, BuildFrame, WriteFails, Unlock, ReceiveStep,
      Terminated, vars

\* What Receive says of the end is true.
LEMMA EndAlways == Spec => []EndInv
<1> DEFINE Inv == LockInv /\ WireInv /\ ReaderInv /\ EndInv
<1>1. Init => Inv BY LockInit, WireInit, ReaderInit, EndInit
<1>2. Inv /\ [Next]_vars => Inv' BY LockNext, WireNext, ReaderNext, EndNext
<1>3. Inv => EndInv OBVIOUS
<1> HIDE DEF Inv
<1>4. QED BY <1>1, <1>2, <1>3, PTL DEF Spec

\* A peer that closed between two frames is never reported as
\* io.ErrUnexpectedEOF.
THEOREM OrderlyEndReported == Spec => []OrderlyEndIsClean
<1>1. EndInv => OrderlyEndIsClean BY DEF EndInv
<1>2. QED BY <1>1, EndAlways, PTL

\* io.EOF is reported at a boundary, or right after the header of a frame.
THEOREM CleanEndReported == Spec => []CleanEOFOnlyAroundHeaders
<1>1. EndInv => CleanEOFOnlyAroundHeaders BY DEF EndInv
<1>2. QED BY <1>1, EndAlways, PTL

-----------------------------------------------------------------------------
(* Counting the frames of a stream.                                        *)

\* No byte, no frame.
LEMMA WholeFramesEmpty == \A w : WholeFrames(w, 0) = 0
<1>1. \A w : {i \in 1 .. 0 : Final(w[i])} = {}
  OBVIOUS
<1>2. QED BY <1>1, FS_EmptySet DEF WholeFrames

\* The frames that end within some bytes are counted.
LEMMA WholeFramesType ==
    ASSUME NEW w, NEW p \in Nat
    PROVE  /\ WholeFrames(w, p) \in Nat
           /\ IsFiniteSet({i \in 1 .. p : Final(w[i])})
<1>1. IsFiniteSet(1 .. p)
  BY FS_Interval
<1>2. {i \in 1 .. p : Final(w[i])} \in SUBSET (1 .. p)
  OBVIOUS
<1>3. IsFiniteSet({i \in 1 .. p : Final(w[i])})
  BY <1>1, <1>2, FS_Subset
<1>4. QED BY <1>3, FS_CardinalityType DEF WholeFrames

\* One more byte counts when it ends its frame.
LEMMA WholeFramesStep ==
    ASSUME NEW w, NEW p \in Nat
    PROVE  WholeFrames(w, p + 1) =
             IF Final(w[p + 1]) THEN WholeFrames(w, p) + 1 ELSE WholeFrames(w, p)
<1> DEFINE S(q) == {i \in 1 .. q : Final(w[i])}
<1>1. IsFiniteSet(S(p)) /\ p + 1 \notin S(p)
  BY WholeFramesType
<1>2. CASE Final(w[p + 1])
  <2>1. S(p + 1) = S(p) \cup {p + 1}
    BY <1>2
  <2>2. Cardinality(S(p) \cup {p + 1}) = Cardinality(S(p)) + 1
    BY <1>1, FS_AddElement
  <2>3. QED BY <1>2, <2>1, <2>2 DEF WholeFrames
<1>3. CASE ~Final(w[p + 1])
  <2>1. S(p + 1) = S(p)
    BY <1>3
  <2>2. QED BY <1>3, <2>1 DEF WholeFrames
<1>4. QED BY <1>2, <1>3

\* Bytes that are the same have the same frames.
LEMMA WholeFramesSame ==
    ASSUME NEW v, NEW w, NEW p \in Nat, \A i \in 1 .. p : v[i] = w[i]
    PROVE  WholeFrames(v, p) = WholeFrames(w, p)
<1>1. {i \in 1 .. p : Final(v[i])} = {i \in 1 .. p : Final(w[i])}
  OBVIOUS
<1>2. QED BY <1>1 DEF WholeFrames

\* Bytes that end no frame do not count.
LEMMA WholeFramesFlat ==
    ASSUME NEW w, NEW p \in Nat, NEW q \in Nat, p <= q,
           \A i \in p + 1 .. q : ~Final(w[i])
    PROVE  WholeFrames(w, q) = WholeFrames(w, p)
<1>1. \A i \in 1 .. q : Final(w[i]) => i \in 1 .. p
  OBVIOUS
<1>2. \A i \in 1 .. p : i \in 1 .. q
  OBVIOUS
<1>3. {i \in 1 .. q : Final(w[i])} = {i \in 1 .. p : Final(w[i])}
  BY <1>1, <1>2
<1>4. QED BY <1>3 DEF WholeFrames

\* More bytes have no fewer frames.
LEMMA WholeFramesGrow ==
    ASSUME NEW w, NEW p \in Nat, NEW q \in Nat, p <= q
    PROVE  WholeFrames(w, p) <= WholeFrames(w, q)
<1>1. \A i \in 1 .. p : i \in 1 .. q
  OBVIOUS
<1>2. {i \in 1 .. p : Final(w[i])} \in SUBSET {i \in 1 .. q : Final(w[i])}
  BY <1>1
<1>3. QED BY <1>2, WholeFramesType, FS_Subset DEF WholeFrames

\* No two frames of a stream have the same number.
LEMMA EndsDiffer ==
    ASSUME NEW w, NEW p \in Nat, NEW q \in Nat, p < q, Final(w[q])
    PROVE  WholeFrames(w, p) < WholeFrames(w, q)
<1>1. q - 1 \in Nat /\ p <= q - 1 /\ (q - 1) + 1 = q
  OBVIOUS
<1>2. WholeFrames(w, q) = WholeFrames(w, q - 1) + 1
  BY <1>1, WholeFramesStep
<1>3. WholeFrames(w, p) <= WholeFrames(w, q - 1)
  BY <1>1, WholeFramesGrow
<1>4. WholeFrames(w, p) \in Nat /\ WholeFrames(w, q - 1) \in Nat
  BY <1>1, WholeFramesType
<1>5. QED BY <1>2, <1>3, <1>4

\* EndOf finds the last byte of a frame by its number.
LEMMA EndOfFrame ==
    ASSUME NEW w, Len(w) \in Nat, NEW e \in 1 .. Len(w), Final(w[e])
    PROVE  EndOf(w, WholeFrames(w, e)) = e
<1>1. ASSUME NEW i \in 1 .. Len(w), Final(w[i]), WholeFrames(w, i) = WholeFrames(w, e)
      PROVE  i = e
  <2>1. i \in Nat /\ e \in Nat
    OBVIOUS
  <2>2. WholeFrames(w, i) \in Nat /\ WholeFrames(w, e) \in Nat
    BY <2>1, WholeFramesType
  <2>3. ~(i < e)
    BY <1>1, <2>1, <2>2, EndsDiffer
  <2>4. ~(e < i)
    BY <1>1, <2>1, <2>2, EndsDiffer
  <2>5. QED BY <2>1, <2>3, <2>4
<1>2. QED BY <1>1 DEF EndOf

-----------------------------------------------------------------------------
(* The envelopes of a stream.                                              *)

\* Every frame that is counted ends somewhere.
Counted(w) ==
    \A k \in 1 .. WholeFrames(w, Len(w)) :
        \E i \in 1 .. Len(w) : Final(w[i]) /\ WholeFrames(w, i) = k

\* The envelopes of a stream, one for each frame, in the order of their ends.
LEMMA EnvelopesType ==
    ASSUME NEW w \in Seq(Bytes), Counted(w)
    PROVE  /\ EnvelopesIn(w) \in Seq(Envelopes)
           /\ Len(EnvelopesIn(w)) = WholeFrames(w, Len(w))
           /\ \A e \in 1 .. Len(w) : Final(w[e]) =>
                 /\ WholeFrames(w, e) \in 1 .. WholeFrames(w, Len(w))
                 /\ EnvelopesIn(w)[WholeFrames(w, e)] = w[e][1]
           /\ \A k \in 1 .. WholeFrames(w, Len(w)) :
                 \E e \in 1 .. Len(w) :
                    /\ Final(w[e]) /\ WholeFrames(w, e) = k
                    /\ EnvelopesIn(w)[k] = w[e][1]
<1> DEFINE n == WholeFrames(w, Len(w))
<1>1. Len(w) \in Nat /\ n \in Nat
  <2>1. Len(w) \in Nat
    OBVIOUS
  <2>2. QED BY <2>1, WholeFramesType
<1>2. ASSUME NEW k \in 1 .. n
      PROVE  \E e \in 1 .. Len(w) :
                 Final(w[e]) /\ WholeFrames(w, e) = k /\ EnvelopesIn(w)[k] = w[e][1]
  <2>1. PICK e \in 1 .. Len(w) : Final(w[e]) /\ WholeFrames(w, e) = k
    BY DEF Counted
  <2>2. EndOf(w, k) = e
    BY <1>1, <2>1, EndOfFrame
  <2>3. EnvelopesIn(w)[k] = w[e][1]
    BY <2>2 DEF EnvelopesIn
  <2>4. QED BY <2>1, <2>3
<1>3. ASSUME NEW e \in 1 .. Len(w), Final(w[e])
      PROVE  WholeFrames(w, e) \in 1 .. n /\ EnvelopesIn(w)[WholeFrames(w, e)] = w[e][1]
  <2>1. e \in Nat /\ 0 < e /\ e <= Len(w)
    BY <1>1
  <2>2. WholeFrames(w, 0) < WholeFrames(w, e)
    BY <1>3, <2>1, EndsDiffer
  <2>3. WholeFrames(w, e) <= n
    BY <1>1, <2>1, WholeFramesGrow
  <2>4. WholeFrames(w, e) \in Nat /\ WholeFrames(w, 0) = 0
    BY <2>1, WholeFramesType, WholeFramesEmpty
  <2>5. WholeFrames(w, e) \in 1 .. n
    BY <1>1, <2>2, <2>3, <2>4
  <2>6. EndOf(w, WholeFrames(w, e)) = e
    BY <1>1, <1>3, EndOfFrame
  <2>7. QED BY <2>5, <2>6 DEF EnvelopesIn
<1>4. EnvelopesIn(w) \in Seq(Envelopes) /\ Len(EnvelopesIn(w)) = n
  <2>1. \A e \in 1 .. Len(w) : w[e][1] \in Envelopes
    BY DEF Bytes
  <2>2. \A k \in 1 .. n : EnvelopesIn(w)[k] \in Envelopes
    BY <1>2, <2>1
  <2>3. DOMAIN EnvelopesIn(w) = 1 .. n
    BY DEF EnvelopesIn
  <2>4. EnvelopesIn(w) \in [1 .. n -> Envelopes]
    BY <2>2, <2>3 DEF EnvelopesIn
  <2>5. QED BY <1>1, <2>4, LenProperties
<1>5. QED BY <1>2, <1>3, <1>4

\* One more byte either ends no frame and changes nothing, or ends one and
\* adds its envelope.
LEMMA EnvelopesStep ==
    ASSUME NEW w \in Seq(Bytes), Counted(w), NEW b \in Bytes
    PROVE  /\ Counted(Append(w, b))
           /\ EnvelopesIn(Append(w, b)) =
                IF Final(b) THEN Append(EnvelopesIn(w), b[1]) ELSE EnvelopesIn(w)
<1> DEFINE v == Append(w, b)
           n == WholeFrames(w, Len(w))
           m == WholeFrames(v, Len(v))
<1>1. /\ v \in Seq(Bytes) /\ Len(w) \in Nat /\ Len(v) = Len(w) + 1
      /\ \A i \in 1 .. Len(w) : v[i] = w[i]
      /\ v[Len(w) + 1] = b
  OBVIOUS
<1> HIDE DEF v
<1>2. \A i \in 1 .. Len(w) : WholeFrames(v, i) = WholeFrames(w, i)
  BY <1>1, WholeFramesSame
<1>3. WholeFrames(v, Len(w)) = n
  BY <1>1, WholeFramesSame
<1>4. n \in Nat /\ m = IF Final(b) THEN n + 1 ELSE n
  BY <1>1, <1>3, WholeFramesStep, WholeFramesType
<1>5. Counted(v)
  <2>1. SUFFICES ASSUME NEW k \in 1 .. m
        PROVE  \E i \in 1 .. Len(v) : Final(v[i]) /\ WholeFrames(v, i) = k
    BY DEF Counted
  <2>2. CASE k \in 1 .. n
    <3>1. PICK i \in 1 .. Len(w) : Final(w[i]) /\ WholeFrames(w, i) = k
      BY <2>2 DEF Counted
    <3>2. i \in 1 .. Len(v) /\ v[i] = w[i] /\ WholeFrames(v, i) = k
      BY <1>1, <1>2, <3>1
    <3>3. QED BY <3>1, <3>2
  <2>3. CASE k \notin 1 .. n
    <3>1. Final(b) /\ k = m
      BY <1>4, <2>3
    <3>2. Len(v) \in 1 .. Len(v) /\ v[Len(v)] = b
      BY <1>1
    <3>3. QED BY <3>1, <3>2
  <2>4. QED BY <2>2, <2>3
<1>6. /\ EnvelopesIn(w) \in Seq(Envelopes) /\ Len(EnvelopesIn(w)) = n
      /\ EnvelopesIn(v) \in Seq(Envelopes) /\ Len(EnvelopesIn(v)) = m
  BY <1>1, <1>5, EnvelopesType
<1>7. \A k \in 1 .. n : EnvelopesIn(v)[k] = EnvelopesIn(w)[k]
  <2>1. TAKE k \in 1 .. n
  <2>2. PICK e \in 1 .. Len(w) :
          Final(w[e]) /\ WholeFrames(w, e) = k /\ EnvelopesIn(w)[k] = w[e][1]
    BY EnvelopesType
  <2>3. e \in 1 .. Len(v) /\ v[e] = w[e] /\ WholeFrames(v, e) = k
    BY <1>1, <1>2, <2>2
  <2>4. EnvelopesIn(v)[WholeFrames(v, e)] = v[e][1]
    BY <1>1, <1>5, <2>2, <2>3, EnvelopesType
  <2>5. QED BY <2>2, <2>3, <2>4
<1>8. CASE Final(b)
  <2>1. EnvelopesIn(v)[m] = b[1]
    <3>1. Len(v) \in 1 .. Len(v) /\ v[Len(v)] = b
      BY <1>1
    <3>2. QED BY <1>1, <1>5, <1>8, <3>1, EnvelopesType
  <2>2. b[1] \in Envelopes
    BY DEF Bytes
  <2>3. /\ Append(EnvelopesIn(w), b[1]) \in Seq(Envelopes)
        /\ Len(Append(EnvelopesIn(w), b[1])) = n + 1
        /\ \A k \in 1 .. n : Append(EnvelopesIn(w), b[1])[k] = EnvelopesIn(w)[k]
        /\ Append(EnvelopesIn(w), b[1])[n + 1] = b[1]
    BY <1>6, <2>2, AppendProperties
  <2>4. m = n + 1 /\ \A k \in 1 .. m : k \in 1 .. n \/ k = n + 1
    BY <1>4, <1>8
  <2>5. \A k \in 1 .. m : EnvelopesIn(v)[k] = Append(EnvelopesIn(w), b[1])[k]
    BY <1>7, <2>1, <2>3, <2>4
  <2>6. EnvelopesIn(v) = Append(EnvelopesIn(w), b[1])
    BY <1>6, <2>3, <2>4, <2>5, SeqEqual
  <2>7. QED BY <1>5, <1>8, <2>6 DEF v
<1>9. CASE ~Final(b)
  <2>1. m = n
    BY <1>4, <1>9
  <2>2. EnvelopesIn(v) = EnvelopesIn(w)
    BY <1>6, <1>7, <2>1, SeqEqual
  <2>3. QED BY <1>5, <1>9, <2>2 DEF v
<1>10. QED BY <1>8, <1>9

-----------------------------------------------------------------------------
(* The inductive invariant of the refinement.                              *)

\* No frame over the sender's limit gets on the wire, so none is refused.
FitInv ==
    /\ \A i \in 1 .. Len(wire) : Size[wire[i][1]] <= SendLimit
    /\ \A s \in Senders : pc[s] = "write" => Size[frame] <= SendLimit
    /\ ~lost

\* Where the frames of the Receives that returned end.
Base == IF rpc = "idle" THEN pos ELSE start

\* The reader has delivered the frames before Base, and no others.
DeliveredInv ==
    status \notin StreamErrs =>
        /\ Len(delivered) = WholeFrames(wire, Base)
        /\ \A k \in 1 .. Len(delivered) : delivered[k] = SentEnvelopes[k]

BaseInv == LockInv /\ WireInv /\ ReaderInv /\ ReportInv /\ EndInv

ChannelInv == BaseInv /\ FitInv /\ Counted(wire) /\ DeliveredInv

\* The invariants of the codec, all of them, at the start.
LEMMA BaseInit == Init => BaseInv
  BY LockInit, WireInit, ReaderInit, ReportInit, EndInit DEF BaseInv

\* And after every step.
LEMMA BaseNext == BaseInv /\ [Next]_vars => BaseInv'
  BY LockNext, WireNext, ReaderNext, ReportNext, EndNext DEF BaseInv

\* A codec that has sent nothing is an empty channel.
LEMMA ChannelInit == Init => ChannelInv /\ Channel!Init
<1> SUFFICES ASSUME Init PROVE ChannelInv /\ Channel!Init
  OBVIOUS
<1>1. wire = <<>> /\ Len(wire) = 0 /\ delivered = <<>> /\ pos = 0 /\ rpc = "idle"
  BY DEF Init
<1>2. WholeFrames(wire, 0) = 0
  BY WholeFramesEmpty
<1>3. Counted(wire)
  BY <1>1, <1>2 DEF Counted
<1>4. FitInv
  BY <1>1 DEF Init, FitInv
<1>5. DeliveredInv
  BY <1>1, <1>2 DEF DeliveredInv, Base
<1>6. SentEnvelopes = <<>>
  <2>1. wire \in Seq(Bytes)
    BY <1>1
  <2>2. EnvelopesIn(wire) \in Seq(Envelopes) /\ Len(EnvelopesIn(wire)) = 0
    BY <1>1, <1>2, <1>3, <2>1, EnvelopesType
  <2>3. QED BY <2>2 DEF SentEnvelopes
<1>7. Channel!Init
  BY <1>1, <1>6 DEF Init, Channel!Init, Outcome
<1>8. QED BY <1>3, <1>4, <1>5, <1>7, BaseInit DEF ChannelInv

\* A reader in step refuses no header of a frame that fits.
LEMMA LengthByteFits ==
    ASSUME SendLimit <= ReceiveLimit, BaseInv, FitInv, LengthByte
    PROVE  UNCHANGED <<status, lost>> /\ (rpc' = "length" \/ rpc' = "payload")
<1> USE Sizes
<1>1. ~lost /\ LockInv /\ FramesContiguous /\ ReaderInv
  BY DEF FitInv, BaseInv, WireInv
<1>2. InPlace /\ rpc = "length"
  BY <1>1, HeaderInPlace DEF LengthByte
<1>3. pos + 1 \in 1 .. Len(wire) /\ wire[pos + 1][1] \in Envelopes
  <2>1. wire \in Seq(Bytes) /\ pos + 1 \in 1 .. Len(wire)
    BY <1>1 DEF LengthByte, LockInv, TypeOK, StreamTypeOK, ReceiveTypeOK
  <2>2. wire[pos + 1] \in Bytes
    BY <2>1
  <2>3. QED BY <2>1, <2>2 DEF Bytes
<1>4. Size[wire[pos + 1][1]] <= SendLimit
  BY <1>3 DEF FitInv
<1>5. ~TooLargeToReceive(Declared(wire[pos + 1][1]))
  BY <1>3, <1>4, CodecAssumption DEF TooLargeToReceive, Declared
<1>6. QED BY <1>2, <1>5 DEF LengthByte, LengthRead

\* A frame that a Send let through, Receive lets through.
LEMMA FitNext ==
    ASSUME SendLimit <= ReceiveLimit, BaseInv, FitInv, [Next]_vars
    PROVE  FitInv'
<1> USE Sizes, CodecAssumption DEF BaseInv, LockInv, TypeOK, SendTypeOK, StreamTypeOK
<1>1. CASE UNCHANGED <<wire, frame, lost>> /\ \A s \in Senders : pc'[s] = "write" => pc[s] = "write"
  BY <1>1 DEF FitInv
<1>2. ASSUME NEW s \in Senders, BuildFrame(s) PROVE FitInv'
  <2>1. UNCHANGED <<wire, lost>>
    BY <1>2 DEF BuildFrame, recvVars
  <2>2. CASE Refuse(s) /\ UNCHANGED frame
    <3>1. \A t \in Senders : pc'[t] = "write" => pc[t] = "write"
      BY <2>2 DEF Refuse, Goto
    <3>2. QED BY <1>1, <2>1, <2>2, <3>1
  <2>3. CASE ~TooLargeToSend(payload) /\ frame' = payload
    <3>1. payload \in Envelopes
      BY <1>2 DEF BuildFrame, BuffersOwned, SendsUnderWay, Inside
    <3>2. Size[frame'] <= SendLimit
      BY <2>3, <3>1 DEF TooLargeToSend
    <3>3. QED BY <2>1, <3>2 DEF FitInv
  <2>4. QED BY <1>2, <2>2, <2>3 DEF BuildFrame
<1>3. ASSUME NEW s \in Senders, WriteByte(s) PROVE FitInv'
  <2>1. /\ UNCHANGED <<frame, lost>>
        /\ Size[frame] <= SendLimit /\ frame \in Envelopes
        /\ \A t \in Senders : pc'[t] = "write" => pc[t] = "write"
    BY <1>3 DEF WriteByte, recvVars, Goto, FitInv, BuffersOwned, SendsUnderWay, Inside
  <2>2. <<frame, written + 1>> \in Bytes /\ wire' = Append(wire, <<frame, written + 1>>)
    <3>1. written \in Nat /\ wire' = Append(wire, <<frame, written + 1>>)
      BY <1>3 DEF WriteByte
    <3>2. written + 1 \in Nat \ {0}
      BY <3>1
    <3>3. QED BY <2>1, <3>1, <3>2 DEF Bytes
  <2>3. \A i \in 1 .. Len(wire') :
          (i \in 1 .. Len(wire) /\ wire'[i] = wire[i]) \/ wire'[i] = <<frame, written + 1>>
    BY <2>2
  <2>4. ASSUME NEW i \in 1 .. Len(wire') PROVE Size[wire'[i][1]] <= SendLimit
    <3>1. CASE i \in 1 .. Len(wire) /\ wire'[i] = wire[i]
      BY <3>1 DEF FitInv
    <3>2. CASE wire'[i] = <<frame, written + 1>>
      <4>1. wire'[i][1] = frame
        BY <3>2
      <4>2. QED BY <2>1, <4>1
    <3>3. QED BY <2>3, <3>1, <3>2
  <2>5. QED BY <2>1, <2>4 DEF FitInv
<1>4. CASE LengthByte
  <2>1. UNCHANGED <<wire, frame, pc, lost>>
    BY <1>4, LengthByteFits DEF LengthByte, codecVars
  <2>2. QED BY <1>1, <2>1
<1>5. ASSUME NEW s \in Senders, NEW m \in Envelopes, Call(s, m) PROVE FitInv'
  <2>1. UNCHANGED <<wire, frame, lost>> /\ \A t \in Senders : pc'[t] = "write" => pc[t] = "write"
    BY <1>5 DEF Call, recvVars, Goto
  <2>2. QED BY <1>1, <2>1
<1>6. ASSUME NEW s \in Senders, Lock(s) \/ Marshal(s) \/ WriteFails(s) \/ Unlock(s) PROVE FitInv'
  <2>1. UNCHANGED <<wire, frame, lost>> /\ \A t \in Senders : pc'[t] = "write" => pc[t] = "write"
    BY <1>6 DEF Lock, Marshal, WriteFails, Unlock, Refuse, recvVars, Goto
  <2>2. QED BY <1>1, <2>1
<1>7. CASE \/ ReceiveCall \/ Fill \/ ReceiveFails \/ PayloadByte \/ Decode \/ UNCHANGED vars
           \/ \E e \in Ends : CloseCall(e) \/ CloseStream(e)
  <2>1. UNCHANGED <<wire, frame, pc, lost>>
    BY <1>7
    DEF ReceiveCall, Fill, ReceiveFails, PayloadByte, Decode, CloseCall, CloseStream,
        vars, codecVars, recvVars
  <2>2. QED BY <1>1, <2>1
<1>8. QED
  BY <1>2, <1>3, <1>4, <1>5, <1>6, <1>7 DEF Next, SendStep, ReceiveStep, Terminated

-----------------------------------------------------------------------------
(* Every step is a step of the channel, or none.                           *)

ChannelStep == [Channel!Next]_(Channel!vars)

\* What the reader has read of the frame it is in the middle of ends no frame.
LEMMA NothingEndsYet ==
    ASSUME BaseInv, ~lost, Wanting
    PROVE  /\ start \in Nat /\ pos \in Nat /\ start <= pos
           /\ \A i \in start + 1 .. pos : ~Final(wire[i])
<1> USE Sizes
<1>1. PositionInv /\ start \in Nat /\ pos \in Nat /\ start <= pos
  BY DEF BaseInv, ReaderInv, LockInv, TypeOK, StreamTypeOK, ReceiveTypeOK
<1>2. CASE pos = start
  BY <1>1, <1>2
<1>3. CASE pos # start
  <2>1. PICK m \in Envelopes : pos - start < FrameLen(m) /\ ReadOf(m)
    <3>1. CASE rpc = "length"
      <4>1. PICK m \in Envelopes : pos - start < Header[m] /\ ReadOf(m)
        BY <1>1, <1>3, <3>1 DEF PositionInv
      <4>2. pos - start < FrameLen(m)
        BY <1>1, <4>1
      <4>3. QED BY <4>1, <4>2
    <3>2. CASE rpc = "payload" /\ pos - body < need
      <4>1. PICK m \in Envelopes :
              need = Size[m] /\ body = start + Header[m] /\ ReadOf(m)
        BY <1>1, <3>2 DEF PositionInv
      <4>2. pos - start < FrameLen(m)
        BY <1>1, <3>2, <4>1
      <4>3. QED BY <4>1, <4>2
    <3>3. QED BY <3>1, <3>2 DEF Wanting
  <2>2. ASSUME NEW i \in start + 1 .. pos PROVE ~Final(wire[i])
    <3>1. wire[i] = <<m, i - start>> /\ i - start \in Int
      BY <1>1, <2>1 DEF ReadOf
    <3>2. i - start <= pos - start /\ pos - start \in Int /\ FrameLen(m) \in Int
      BY <1>1, <2>1, FrameLenType
    <3>3. i - start # FrameLen(m)
      BY <2>1, <3>1, <3>2
    <3>4. QED BY <3>1, <3>3 DEF Final
  <2>3. QED BY <1>1, <2>2
<1>4. QED BY <1>2, <1>3

\* The types those invariants give to what the channel is made from.
LEMMA BaseType ==
    ASSUME BaseInv
    PROVE  /\ wire \in Seq(Bytes) /\ Len(wire) \in Nat
           /\ Base \in 0 .. Len(wire) /\ delivered \in Seq(Envelopes \cup {Junk})
           /\ pos \in 0 .. Len(wire) /\ start \in 0 .. pos
<1>1. wire \in Seq(Bytes) /\ delivered \in Seq(Envelopes \cup {Junk}) /\ Len(wire) \in Nat
  BY DEF BaseInv, LockInv, TypeOK, StreamTypeOK, ReceiveTypeOK
<1>2. pos \in 0 .. Len(wire) /\ start \in 0 .. pos
  BY <1>1 DEF BaseInv, LockInv, TypeOK, ReceiveTypeOK
<1>3. QED BY <1>1, <1>2 DEF Base

\* The last byte of a frame makes the channel accept its envelope.
LEMMA WriteByteAccepts ==
    ASSUME ChannelInv, NEW s \in Senders, WriteByte(s)
    PROVE  Counted(wire)' /\ DeliveredInv' /\ ChannelStep
<1>1. BaseInv /\ Counted(wire) /\ wire \in Seq(Bytes) /\ Len(wire) \in Nat
  BY BaseType DEF ChannelInv
<1> DEFINE b == <<frame, written + 1>>
<1>2. /\ frame = env[s] /\ frame \in Envelopes /\ written \in Nat /\ b \in Bytes
      /\ result[frame] = "pending" /\ wire' = Append(wire, b)
  <2>1. pc[s] = "write" /\ wire' = Append(wire, b)
    BY DEF WriteByte
  <2>2. frame = env[s] /\ frame \in Envelopes /\ written \in Nat
    BY <1>1, <2>1 DEF BaseInv, LockInv, TypeOK, SendTypeOK, BuffersOwned, SendsUnderWay, Inside
  <2>3. result[frame] = "pending"
    BY <1>1, <2>1, <2>2 DEF BaseInv, ReportInv, SendsPending, UnderWay
  <2>4. QED BY <2>1, <2>2, <2>3 DEF Bytes
<1>3. /\ Counted(wire')
      /\ SentEnvelopes' = IF Final(b) THEN Append(SentEnvelopes, frame) ELSE SentEnvelopes
  BY <1>1, <1>2, EnvelopesStep DEF SentEnvelopes
<1>4. /\ SentEnvelopes \in Seq(Envelopes)
      /\ Len(SentEnvelopes) = WholeFrames(wire, Len(wire))
      /\ Len(SentEnvelopes) \in Nat
  <2>1. SentEnvelopes \in Seq(Envelopes) /\ Len(SentEnvelopes) = WholeFrames(wire, Len(wire))
    BY <1>1, EnvelopesType DEF SentEnvelopes
  <2>2. QED BY <2>1
<1>5. UNCHANGED <<delivered, status, rpc, pos, start>>
  BY DEF WriteByte, recvVars
<1>6. DeliveredInv'
  <2>1. SUFFICES ASSUME status \notin StreamErrs
        PROVE  /\ Len(delivered) = WholeFrames(wire', Base)
               /\ \A k \in 1 .. Len(delivered) : delivered[k] = SentEnvelopes'[k]
    BY <1>5 DEF DeliveredInv, Base
  <2>2. /\ Len(delivered) = WholeFrames(wire, Base)
        /\ \A k \in 1 .. Len(delivered) : delivered[k] = SentEnvelopes[k]
    BY <2>1 DEF ChannelInv, DeliveredInv
  <2>3. Base \in Nat /\ Base <= Len(wire)
    BY <1>1, BaseType
  <2>4. WholeFrames(wire', Base) = WholeFrames(wire, Base)
    <3>1. \A i \in 1 .. Base : wire'[i] = wire[i]
      BY <1>1, <1>2, <2>3
    <3>2. QED BY <2>3, <3>1, WholeFramesSame
  <2>5. Len(delivered) <= Len(SentEnvelopes) /\ Len(delivered) \in Nat
    <3>1. WholeFrames(wire, Base) <= WholeFrames(wire, Len(wire)) /\ WholeFrames(wire, Base) \in Nat
      BY <1>1, <2>3, WholeFramesGrow, WholeFramesType
    <3>2. QED BY <1>4, <2>2, <3>1
  <2>6. \A k \in 1 .. Len(SentEnvelopes) : SentEnvelopes'[k] = SentEnvelopes[k]
    BY <1>2, <1>3, <1>4, AppendProperties
  <2>7. \A k \in 1 .. Len(delivered) : k \in 1 .. Len(SentEnvelopes)
    BY <1>4, <2>5
  <2>8. QED BY <2>2, <2>4, <2>6, <2>7
<1>7. Outcome # "ended"
  <2>1. status \notin {"EOF", "UnexpectedEOF"}
    BY <1>1 DEF WriteByte, Writable, BaseInv, EndInv, StreamEnds
  <2>2. QED BY <2>1 DEF Outcome
<1>8. \A k \in DOMAIN SentEnvelopes : SentEnvelopes[k] # frame
  <2>1. DOMAIN SentEnvelopes = 1 .. WholeFrames(wire, Len(wire))
    BY DEF SentEnvelopes, EnvelopesIn
  <2>2. SUFFICES ASSUME NEW k \in 1 .. WholeFrames(wire, Len(wire)), SentEnvelopes[k] = frame
        PROVE  FALSE
    BY <2>1
  <2>3. PICK e \in 1 .. Len(wire) : Final(wire[e]) /\ wire[e][1] = frame
    BY <1>1, <2>2, EnvelopesType DEF SentEnvelopes
  <2>4. wire[e] = <<frame, FrameLen(frame)>>
    BY <1>1, <2>3 DEF Final, Bytes
  <2>5. result[frame] = "sent"
    BY <1>1, <1>2, <2>4 DEF BaseInv, ReportInv, ResultMeansBytes
  <2>6. QED BY <1>2, <2>5
<1>9. Outcome' = Outcome
  BY <1>5 DEF Outcome
<1>10. ChannelStep
  <2>1. CASE Final(b)
    <3>1. Channel!Accept(frame)
      BY <1>3, <1>5, <1>7, <1>8, <1>9, <2>1 DEF Channel!Accept
    <3>2. QED BY <1>2, <3>1 DEF ChannelStep, Channel!Next
  <2>2. CASE ~Final(b)
    BY <1>3, <1>5, <1>9, <2>2 DEF ChannelStep, Channel!vars
  <2>3. QED BY <2>1, <2>2
<1>11. QED BY <1>3, <1>6, <1>10

\* Decoding a frame delivers the next envelope of the channel.
LEMMA DecodeDelivers ==
    ASSUME ChannelInv, Decode
    PROVE  DeliveredInv' /\ ChannelStep
<1>0. pos \in Nat /\ start \in Nat /\ start <= pos
  BY BaseType DEF ChannelInv
<1>1. /\ BaseInv /\ ~lost /\ Counted(wire) /\ PositionInv
      /\ wire \in Seq(Bytes) /\ Len(wire) \in Nat
      /\ pos \in Nat /\ pos <= Len(wire) /\ start \in Nat /\ start <= pos
  BY BaseType DEF ChannelInv, FitInv, BaseInv, ReaderInv
<1>2. /\ rpc = "payload" /\ rpc' = "idle" /\ pos - body = need
      /\ UNCHANGED <<wire, pos, start>>
  BY DEF Decode, Return
<1>3. PICK m \in Envelopes : need = Size[m] /\ body = start + Header[m] /\ ReadOf(m)
  BY <1>1, <1>2 DEF PositionInv
<1>4. /\ pos = start + FrameLen(m) /\ pos = body + need /\ body \in Nat /\ need \in Nat
      /\ pos > 0 /\ Header[m] \in Nat /\ Header[m] > 0 /\ FrameLen(m) = Header[m] + need
  <2>1. /\ Header[m] \in Nat /\ Header[m] > 0 /\ need \in Nat
        /\ FrameLen(m) = Header[m] + need
    BY <1>3, Sizes
  <2>2. body \in Nat /\ pos = body + need
    BY <1>0, <1>2, <1>3, <2>1
  <2>3. QED BY <1>0, <1>3, <2>1, <2>2
<1>5. Encodes(m)
  <2>1. ASSUME NEW i \in 1 .. need PROVE wire[body + i] = <<m, Header[m] + i>>
    <3>1. body + i \in start + 1 .. pos /\ (body + i) - start = Header[m] + i
      <4>1. i \in Nat /\ 1 <= i /\ i <= need
        BY <1>4
      <4>2. QED BY <1>0, <1>3, <1>4, <4>1
    <3>2. wire[body + i] = <<m, (body + i) - start>>
      BY <1>3, <3>1 DEF ReadOf
    <3>3. QED BY <3>1, <3>2
  <2>2. QED BY <1>3, <2>1 DEF Encodes
\* No other envelope has this encoding.
<1>6. ASSUME NEW n \in Envelopes, Encodes(n) PROVE n = m
  <2>1. CASE need = 0
    BY <1>3, <1>6, <2>1, CodecAssumption DEF Encodes
  <2>2. CASE need # 0
    <3>1. 1 \in 1 .. need
      BY <1>4, <2>2
    <3>2. wire[body + 1] = <<n, Header[n] + 1>> /\ wire[body + 1] = <<m, Header[m] + 1>>
      BY <1>5, <1>6, <3>1 DEF Encodes
    <3>3. QED BY <3>2
  <2>3. QED BY <2>1, <2>2
<1>7. delivered' = Append(delivered, m) /\ status' = "ok"
  BY <1>5, <1>6 DEF Decode, Return
<1>8. status \notin StreamErrs
  BY <1>1, <1>2 DEF BaseInv, EndInv, StreamEnds
<1>9. /\ Len(delivered) = WholeFrames(wire, start)
      /\ \A k \in 1 .. Len(delivered) : delivered[k] = SentEnvelopes[k]
  BY <1>2, <1>8 DEF ChannelInv, DeliveredInv, Base
<1>10. wire[pos] = <<m, FrameLen(m)>> /\ Final(wire[pos]) /\ pos \in 1 .. Len(wire)
  <2>1. pos \in start + 1 .. pos /\ pos - start = FrameLen(m)
    BY <1>0, <1>4
  <2>2. wire[pos] = <<m, FrameLen(m)>>
    BY <1>3, <2>1 DEF ReadOf
  <2>3. QED BY <1>1, <1>4, <2>2 DEF Final
<1>11. WholeFrames(wire, pos) = WholeFrames(wire, start) + 1
  <2>1. pos - 1 \in Nat /\ start <= pos - 1 /\ (pos - 1) + 1 = pos
    BY <1>0, <1>4
  <2>2. \A i \in start + 1 .. pos - 1 : ~Final(wire[i])
    <3>1. SUFFICES ASSUME NEW i \in start + 1 .. pos - 1 PROVE ~Final(wire[i])
      OBVIOUS
    <3>2. i \in start + 1 .. pos /\ i - start # FrameLen(m)
      <4>1. FrameLen(m) \in Nat
        BY <1>4
      <4>2. QED BY <1>0, <1>4, <4>1
    <3>3. wire[i] = <<m, i - start>>
      BY <1>3, <3>2 DEF ReadOf
    <3>4. QED BY <3>2, <3>3 DEF Final
  <2>3. WholeFrames(wire, pos - 1) = WholeFrames(wire, start)
    BY <1>1, <2>1, <2>2, WholeFramesFlat
  <2>4. WholeFrames(wire, pos) = WholeFrames(wire, pos - 1) + 1
    BY <1>10, <2>1, WholeFramesStep
  <2>5. QED BY <2>3, <2>4
<1>12. /\ WholeFrames(wire, pos) \in 1 .. Len(SentEnvelopes)
       /\ SentEnvelopes[WholeFrames(wire, pos)] = m
  <2>1. wire[pos][1] = m
    BY <1>10
  <2>2. QED BY <1>1, <1>10, <2>1, EnvelopesType DEF SentEnvelopes
<1>13. /\ delivered \in Seq(Envelopes \cup {Junk}) /\ Len(delivered) \in Nat
       /\ m \in Envelopes \cup {Junk}
  <2>1. delivered \in Seq(Envelopes \cup {Junk})
    BY <1>1, BaseType
  <2>2. QED BY <2>1
<1>14. /\ Len(delivered') = Len(delivered) + 1
       /\ \A k \in 1 .. Len(delivered) : delivered'[k] = delivered[k]
       /\ delivered'[Len(delivered) + 1] = m
  BY <1>7, <1>13, AppendProperties
<1>15. SentEnvelopes' = SentEnvelopes
  BY <1>2 DEF SentEnvelopes
<1>16. DeliveredInv'
  <2>1. Base' = pos
    BY <1>2 DEF Base
  <2>2. Len(delivered') = WholeFrames(wire', Base')
    BY <1>2, <1>9, <1>11, <1>14, <2>1
  <2>3. ASSUME NEW k \in 1 .. Len(delivered') PROVE delivered'[k] = SentEnvelopes'[k]
    <3>1. CASE k \in 1 .. Len(delivered)
      BY <1>9, <1>14, <1>15, <3>1
    <3>2. CASE k = Len(delivered) + 1
      BY <1>9, <1>11, <1>12, <1>14, <1>15, <3>2
    <3>3. QED BY <1>13, <1>14, <3>1, <3>2
  <2>4. QED BY <2>2, <2>3 DEF DeliveredInv
<1>17. Outcome = "open" /\ Outcome' = "open"
  BY <1>7, <1>8 DEF Outcome
<1>18. Channel!Deliver
  <2>1. Len(SentEnvelopes) \in Nat
    <3>1. SentEnvelopes \in Seq(Envelopes)
      BY <1>1, EnvelopesType DEF SentEnvelopes
    <3>2. QED BY <3>1
  <2>2. Len(delivered) + 1 = WholeFrames(wire, pos)
    BY <1>9, <1>11
  <2>3. Len(delivered) < Len(SentEnvelopes)
    BY <1>12, <1>13, <2>1, <2>2
  <2>4. delivered' = Append(delivered, SentEnvelopes[Len(delivered) + 1])
    BY <1>7, <1>12, <2>2
  <2>5. QED BY <1>15, <1>17, <2>3, <2>4 DEF Channel!Deliver
<1>19. QED BY <1>16, <1>18 DEF ChannelStep, Channel!Next

\* The stream's end is the channel's; a Close of the reader aborts it.
LEMMA ReceiveFailsEnds ==
    ASSUME ChannelInv, ReceiveFails
    PROVE  DeliveredInv' /\ ChannelStep
<1>1. BaseInv /\ ~lost /\ Wanting /\ UNCHANGED <<wire, delivered>>
  BY DEF ReceiveFails, ChannelInv, FitInv
<1>2. rpc # "idle" /\ status \notin StreamErrs
  BY <1>1 DEF Wanting, BaseInv, EndInv, StreamEnds
<1>3. status' \in StreamErrs
  BY DEF ReceiveFails, Return, EndOfStream
<1>4. DeliveredInv'
  BY <1>3 DEF DeliveredInv
<1>5. SentEnvelopes' = SentEnvelopes /\ Outcome = "open"
  BY <1>1, <1>2 DEF SentEnvelopes, Outcome
<1>6. CASE status' = "Closed"
  <2>1. Outcome' = "aborted"
    BY <1>6 DEF Outcome
  <2>2. Channel!Abort
    BY <1>1, <1>5, <2>1 DEF Channel!Abort
  <2>3. QED BY <1>4, <2>2 DEF ChannelStep, Channel!Next
<1>7. CASE status' # "Closed"
  <2>1. status' \in {"EOF", "UnexpectedEOF"} /\ pos = Len(wire)
    BY <1>3, <1>7 DEF ReceiveFails, Return
  <2>2. Outcome' = "ended"
    BY <2>1 DEF Outcome
  <2>3. WholeFrames(wire, Len(wire)) = WholeFrames(wire, start)
    BY <1>1, <2>1, NothingEndsYet, WholeFramesFlat
  <2>4. Len(delivered) = WholeFrames(wire, start)
    BY <1>2 DEF ChannelInv, DeliveredInv, Base
  <2>5. Len(SentEnvelopes) = WholeFrames(wire, Len(wire))
    BY <1>1, BaseType, EnvelopesType DEF ChannelInv, SentEnvelopes
  <2>6. Channel!End
    BY <1>1, <1>5, <2>2, <2>3, <2>4, <2>5 DEF Channel!End
  <2>7. QED BY <1>4, <2>6 DEF ChannelStep, Channel!Next
<1>8. QED BY <1>6, <1>7

\* A step that changes neither the wire nor what was delivered is none of the
\* channel's.
LEMMA ChannelStutters ==
    ASSUME ChannelInv, UNCHANGED <<wire, delivered, status>>, Base' = Base
    PROVE  DeliveredInv' /\ ChannelStep
<1>1. SentEnvelopes' = SentEnvelopes /\ Outcome' = Outcome
  BY DEF SentEnvelopes, Outcome
<1>2. DeliveredInv'
  BY <1>1 DEF ChannelInv, DeliveredInv
<1>3. QED BY <1>1, <1>2 DEF ChannelStep, Channel!vars

\* Every step of the codec is a step of the channel or leaves it as it is.
LEMMA ChannelNext ==
    ASSUME SendLimit <= ReceiveLimit, ChannelInv, [Next]_vars
    PROVE  ChannelInv' /\ ChannelStep
<1>1. BaseInv' /\ FitInv'
  BY BaseNext, FitNext DEF ChannelInv
<1>2. SUFFICES Counted(wire)' /\ DeliveredInv' /\ ChannelStep
  BY <1>1 DEF ChannelInv
<1>3. UNCHANGED wire => Counted(wire)'
  BY DEF ChannelInv
<1>4. ASSUME NEW s \in Senders, WriteByte(s)
      PROVE  Counted(wire)' /\ DeliveredInv' /\ ChannelStep
  BY <1>4, WriteByteAccepts
<1>5. CASE Decode
  BY <1>3, <1>5, DecodeDelivers DEF Decode
<1>6. CASE ReceiveFails
  BY <1>3, <1>6, ReceiveFailsEnds DEF ReceiveFails
<1>7. CASE UNCHANGED <<wire, recvVars>>
  <2>1. UNCHANGED <<delivered, status>> /\ Base' = Base
    BY <1>7 DEF recvVars, Base
  <2>2. QED BY <1>3, <1>7, <2>1, ChannelStutters
<1>8. CASE ReceiveCall \/ Fill \/ PayloadByte
  <2>1. UNCHANGED <<wire, delivered, status>>
    BY <1>8 DEF ReceiveCall, Fill, PayloadByte
  <2>2. Base' = Base
    BY <1>8 DEF ReceiveCall, ResumeAt, Fill, PayloadByte, Base
  <2>3. QED BY <1>3, <2>1, <2>2, ChannelStutters
<1>9. CASE LengthByte
  <2>1. UNCHANGED <<wire, delivered, status, start>> /\ rpc = "length" /\ rpc' # "idle"
    BY <1>9, LengthByteFits DEF ChannelInv, LengthByte
  <2>2. Base' = Base
    BY <2>1 DEF Base
  <2>3. QED BY <1>3, <2>1, <2>2, ChannelStutters
<1>10. QED
  BY <1>4, <1>5, <1>6, <1>7, <1>8, <1>9
  DEF Next, SendStep, Call, Lock, Marshal, BuildFrame, WriteFails, Unlock, CloseCall,
      CloseStream, ReceiveStep, Terminated, vars, recvVars

\* Two Codecs of one build, or any two whose receiver allows what the sender
\* allows, are a first-in first-out channel: each envelope whose last byte was
\* written is delivered at most once and in that order, and the end of the
\* stream is reported only after the last of them.
THEOREM CodecIsChannel ==
    ASSUME SendLimit <= ReceiveLimit
    PROVE  Spec => ImplementsChannel
<1>1. Init => ChannelInv /\ Channel!Init
  BY ChannelInit
<1>2. ChannelInv /\ [Next]_vars => ChannelInv' /\ [Channel!Next]_(Channel!vars)
  BY ChannelNext DEF ChannelStep
<1>3. QED
  BY <1>1, <1>2, PTL DEF Spec, ImplementsChannel, Channel!Spec
=============================================================================
