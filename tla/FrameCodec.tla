----------------------------- MODULE FrameCodec -----------------------------
(***************************************************************************)
(* The payload of a packet: the frames write_frame puts into it, or bytes  *)
(* that come from elsewhere, and the loop of the decrypt functions that    *)
(* calls parse_frame until nothing is left or a frame is refused.          *)
(*                                                                         *)
(* A frame is its name, its integers, its byte strings, and one bit: ECN   *)
(* counts (ACK), FIN (STREAM), bidirectional (MAX_STREAMS and              *)
(* STREAMS_BLOCKED), a QUIC error (CONNECTION_CLOSE).                      *)
(***************************************************************************)
EXTENDS VarInt

CONSTANTS Frames,    \* the frames that write_frame is given
          MaxFrames, \* bound: frames in a payload
          MinPayload,\* the length a payload is padded to
          AnyBytes,  \* the bytes of payloads that come from elsewhere
          MaxBytes,  \* bound: the length of those payloads
          Memory     \* the ACK ranges the receiver has memory for

ASSUME FrameAssumption ==
    /\ Quarter = 64
    /\ AnyBytes \subseteq Byte /\ MaxFrames \in Nat /\ MinPayload \in Nat /\ MaxBytes \in Nat
    /\ Memory \in Nat

Frame(kind, ints, data, bit) == [kind |-> kind, ints |-> ints, data |-> data, bit |-> bit]

\* The types of frames, in the order of their numbers. The eight numbers of
\* STREAM (from 8 on) and the two of ACK (from 2 on) hold flags.
KindOf(type) ==
    <<"PADDING", "PING", "ACK", "ACK", "RESET_STREAM", "STOP_SENDING", "CRYPTO", "NEW_TOKEN",
      "STREAM", "STREAM", "STREAM", "STREAM", "STREAM", "STREAM", "STREAM", "STREAM",
      "MAX_DATA", "MAX_STREAM_DATA", "MAX_STREAMS", "MAX_STREAMS", "DATA_BLOCKED",
      "STREAM_DATA_BLOCKED", "STREAMS_BLOCKED", "STREAMS_BLOCKED", "NEW_CONNECTION_ID",
      "RETIRE_CONNECTION_ID", "PATH_CHALLENGE", "PATH_RESPONSE", "CONNECTION_CLOSE",
      "CONNECTION_CLOSE", "HANDSHAKE_DONE">>[type + 1]

MaxType == 30

\* The fields of a kind: how many integers it has, where that is fixed, and the
\* lengths its byte strings may have.
IntCount(kind, bit) ==
    CASE kind \in {"PADDING", "PING", "HANDSHAKE_DONE", "NEW_TOKEN",
                   "PATH_CHALLENGE", "PATH_RESPONSE"} -> 0
      [] kind \in {"CRYPTO", "MAX_DATA", "MAX_STREAMS", "DATA_BLOCKED", "STREAMS_BLOCKED",
                   "RETIRE_CONNECTION_ID"} -> 1
      [] kind \in {"STOP_SENDING", "STREAM", "MAX_STREAM_DATA", "STREAM_DATA_BLOCKED",
                   "NEW_CONNECTION_ID"} -> 2
      [] kind = "RESET_STREAM" -> 3
      [] kind = "CONNECTION_CLOSE" -> IF bit THEN 2 ELSE 1

DataLengths(kind) ==
    CASE kind \in {"CRYPTO", "NEW_TOKEN", "STREAM", "CONNECTION_CLOSE"} -> <<Nat>>
      [] kind \in {"PATH_CHALLENGE", "PATH_RESPONSE"} -> <<{8}>>
      [] kind = "NEW_CONNECTION_ID" -> <<1..20, {16}>>
      [] OTHER -> <<>>

\* A value of the type Frame. An ACK frame has a first range, then pairs of gap
\* and range, then the ECN counts if there are any. The type also has room for an
\* ACK frame without ranges, on which write_frame panics, and for a connection ID
\* of length 0, which parse_frame refuses: nothing builds either.
WellFormed(f) ==
    /\ f \in [kind : {KindOf(type) : type \in 0..MaxType}, ints : Seq(Nat),
               data : Seq(Seq(Byte)), bit : BOOLEAN]
    /\ f.bit => f.kind \in {"ACK", "STREAM", "MAX_STREAMS", "STREAMS_BLOCKED", "CONNECTION_CLOSE"}
    /\ IF f.kind = "ACK"
       THEN \E pairs \in 0..Len(f.ints) : Len(f.ints) = 3 + 2 * pairs + (IF f.bit THEN 3 ELSE 0)
       ELSE Len(f.ints) = IntCount(f.kind, f.bit)
    /\ Len(f.data) = Len(DataLengths(f.kind))
    /\ \A i \in DOMAIN f.data : Len(f.data[i]) \in DataLengths(f.kind)[i]

ASSUME WellFormedAssumption == \A f \in Frames : WellFormed(f)

\* STREAM_OFF_BIT, STREAM_LEN_BIT, STREAM_FIN_BIT of a type.
OffBit(type) == (type \div 4) % 2 = 1
LenBit(type) == (type \div 2) % 2 = 1
FinBit(type) == type % 2 = 1

\* The bit of a frame, by its type.
BitOf(type) ==
    \/ KindOf(type) \in {"ACK", "STREAM"} /\ FinBit(type)
    \/ KindOf(type) \in {"MAX_STREAMS", "STREAMS_BLOCKED", "CONNECTION_CLOSE"} /\ ~FinBit(type)

-----------------------------------------------------------------------------
\* The fields that follow a type: integers; byte strings with their length in
\* front ("bytes"), of one byte ("cid") or of fixed length; what is left.
Layout(type) ==
    LET kind == KindOf(type)
    IN  CASE kind \in {"PADDING", "PING", "HANDSHAKE_DONE"} -> <<>>
          [] kind = "ACK" -> <<"int", "int", "ranges">>
                                 \o IF FinBit(type) THEN <<"int", "int", "int">> ELSE <<>>
          [] kind = "RESET_STREAM" -> <<"int", "int", "int">>
          [] kind \in {"STOP_SENDING", "MAX_STREAM_DATA", "STREAM_DATA_BLOCKED"} -> <<"int", "int">>
          [] kind \in {"MAX_DATA", "MAX_STREAMS", "DATA_BLOCKED", "STREAMS_BLOCKED",
                       "RETIRE_CONNECTION_ID"} -> <<"int">>
          [] kind = "CRYPTO" -> <<"int", "bytes">>
          [] kind = "NEW_TOKEN" -> <<"bytes">>
          [] kind = "STREAM" -> <<"int", IF OffBit(type) THEN "int" ELSE "zero",
                                  IF LenBit(type) THEN "bytes" ELSE "rest">>
          [] kind = "NEW_CONNECTION_ID" -> <<"int", "int", "cid", "token">>
          [] kind \in {"PATH_CHALLENGE", "PATH_RESPONSE"} -> <<"path">>
          [] kind = "CONNECTION_CLOSE" -> IF BitOf(type) THEN <<"int", "int", "bytes">>
                                          ELSE <<"int", "bytes">>

\* What has been read of a frame and what is left of the buffer.
Reader(rest, ints, data) == [rest |-> rest, ints |-> ints, data |-> data]

\* The read_ functions: each takes a reader to a set of at most one reader.
ReadInt(r) ==
    {Reader(SubSeq(r.rest, d.len + 1, Len(r.rest)), Append(r.ints, d.value), r.data) :
         d \in Decode(r.rest)}

ReadBytes(r, n) ==
    IF Len(r.rest) < n THEN {}
    ELSE {Reader(SubSeq(r.rest, n + 1, Len(r.rest)), r.ints,
                 Append(r.data, SubSeq(r.rest, 1, n)))}

ReadVarIntBytes(r) ==
    UNION {ReadBytes([r EXCEPT !.rest = SubSeq(@, d.len + 1, Len(@))], d.value) :
               d \in Decode(r.rest)}

ReadCid(r) ==
    IF r.rest = <<>> \/ r.rest[1] \notin 1..20 THEN {}
    ELSE ReadBytes([r EXCEPT !.rest = Tail(@)], r.rest[1])

ReadInts(r, n) ==
    LET after[i \in 0..n] == IF i = 0 THEN {r} ELSE UNION {ReadInt(x) : x \in after[i - 1]}
    IN  after[n]

\* The count of further ACK ranges, the first range, and as many pairs of gap
\* and range as counted. The count itself is not kept. (Every integer takes a
\* byte: a count above what is left is an error. For TooManyRanges it is worse.)
ReadRanges(r) ==
    UNION {LET after == [r EXCEPT !.rest = SubSeq(@, d.len + 1, Len(@))]
           IN  IF d.value > Len(after.rest) THEN {} ELSE ReadInts(after, 1 + 2 * d.value) :
               d \in Decode(r.rest)}

ReadField(r, field) ==
    CASE field = "int"    -> ReadInt(r)
      [] field = "zero"   -> {[r EXCEPT !.ints = Append(@, 0)]}
      [] field = "bytes"  -> ReadVarIntBytes(r)
      [] field = "rest"   -> ReadBytes(r, Len(r.rest))
      [] field = "cid"    -> ReadCid(r)
      [] field = "token"  -> ReadBytes(r, 16)
      [] field = "path"   -> ReadBytes(r, 8)
      [] field = "ranges" -> ReadRanges(r)

\* One field after the other.
ReadFields(r, fields) ==
    LET after[i \in 0..Len(fields)] ==
            IF i = 0 THEN {r} ELSE UNION {ReadField(x, fields[i]) : x \in after[i - 1]}
    IN  after[Len(fields)]

\* The type as parse_frame sees it: the integer is decoded, whatever its
\* length, and cut to a byte. The test for encodings that are not minimal asks
\* for the shortest length of the value, not for the length that was read.
TypeOf(buf) ==
    {d.value % ByteRadix :
         d \in {d \in Decode(buf) : ~(d.value < Quarter /\ EncodedLen(d.value) # 1)}}

\* Mutant: the type is not counted in what was consumed.
Consumed_NoType(buf, rest) == Len(buf) - Len(rest) - 1

Consumed(buf, rest) == Len(buf) - Len(rest)

\* parse_frame: a set of at most one frame, with the number of bytes it took.
ParseFrame(buf) ==
    UNION {{[ frame |-> Frame(KindOf(type), r.ints, r.data, BitOf(type)),
              len   |-> Consumed(buf, r.rest) ] :
                r \in ReadFields(Reader(Tail(buf), <<>>, <<>>), Layout(type))} :
           type \in {t \in TypeOf(buf) : t <= MaxType}}

\* Vec::with_capacity takes the count of an ACK frame at its word: once the largest
\* number, the delay, the count and the first range are read, it asks for the
\* memory of all ranges, and where that is not to be had the program ends.
TooManyRanges(buf) ==
    /\ TypeOf(buf) \cap {2, 3} # {}
    /\ \E r \in ReadInts(Reader(Tail(buf), <<>>, <<>>), 4) : r.ints[3] > Memory

-----------------------------------------------------------------------------
\* The type write_frame chooses: the number of the kind, and flags.
TypeFor(f) ==
    LET first == CHOOSE t \in 0..MaxType :
                     KindOf(t) = f.kind /\ \A u \in 0..MaxType : KindOf(u) = f.kind => t <= u
    IN  first +
        CASE f.kind = "STREAM" -> (IF f.bit THEN 1 ELSE 0)
                                      + (IF f.data[1] # <<>> THEN 2 ELSE 0)
                                      + (IF f.ints[2] > 0 THEN 4 ELSE 0)
          [] f.kind = "ACK" -> IF f.bit THEN 1 ELSE 0
          [] f.kind \in {"MAX_STREAMS", "STREAMS_BLOCKED", "CONNECTION_CLOSE"} ->
                 IF f.bit THEN 0 ELSE 1
          [] OTHER -> 0

WriteInts(ints) ==
    LET bytes[i \in 0..Len(ints)] == IF i = 0 THEN <<>> ELSE bytes[i - 1] \o Encode(ints[i])
    IN  bytes[Len(ints)]

WriteBytes(data) == Encode(Len(data)) \o data

\* Mutant: the count of ranges includes the first one.
RangeCount_All(f) == 1 + (Len(f.ints) - 3 - (IF f.bit THEN 3 ELSE 0)) \div 2

\* The number of ACK ranges after the first one.
RangeCount(f) == (Len(f.ints) - 3 - (IF f.bit THEN 3 ELSE 0)) \div 2

\* What write_frame is given has no more ranges than there is memory for.
ASSUME RangesAssumption == \A f \in Frames : f.kind = "ACK" => RangeCount(f) <= Memory

\* write_frame. STREAM leaves out an offset of 0, and the length of no data.
WriteFrame(f) ==
    <<TypeFor(f)>> \o
    CASE f.kind = "ACK" ->
             WriteInts(SubSeq(f.ints, 1, 2)) \o Encode(RangeCount(f))
                 \o WriteInts(SubSeq(f.ints, 3, Len(f.ints)))
      [] f.kind = "STREAM" ->
             Encode(f.ints[1]) \o (IF f.ints[2] > 0 THEN Encode(f.ints[2]) ELSE <<>>)
                 \o (IF f.data[1] # <<>> THEN WriteBytes(f.data[1]) ELSE <<>>)
      [] f.kind = "NEW_CONNECTION_ID" ->
             WriteInts(f.ints) \o <<Len(f.data[1])>> \o f.data[1] \o f.data[2]
      [] f.kind \in {"PATH_CHALLENGE", "PATH_RESPONSE"} -> f.data[1]
      [] f.kind \in {"CRYPTO", "NEW_TOKEN", "CONNECTION_CLOSE"} ->
             WriteInts(f.ints) \o WriteBytes(f.data[1])
      [] OTHER -> WriteInts(f.ints)

-----------------------------------------------------------------------------
VARIABLES written,   \* the frames put into the payload
          payload,   \* its bytes
          foreign,   \* are there bytes that write_frame did not write?
          phase,     \* "Write", "Read", then "Done", "Refused" or "Aborted"
          parsed,    \* the frames read so far
          pos        \* the bytes read so far

vars == <<written, payload, foreign, phase, parsed, pos>>

Init ==
    /\ written = <<>> /\ payload = <<>> /\ foreign = FALSE
    /\ phase = "Write" /\ parsed = <<>> /\ pos = 0

\* write_frame succeeds: no integer, length or count is too large.
Writable(f) ==
    /\ \A i \in DOMAIN f.ints : ~TooLarge(f.ints[i])
    /\ \A i \in DOMAIN f.data : ~TooLarge(Len(f.data[i]))
    /\ f.kind = "ACK" => ~TooLarge(RangeCount(f))

\* encrypt_packet: one frame after the other is written to the payload. If one
\* cannot be written, there is no packet.
Put(f) ==
    /\ phase = "Write" /\ ~foreign /\ Len(written) < MaxFrames
    /\ Writable(f)
    /\ written' = Append(written, f)
    /\ payload' = payload \o WriteFrame(f)
    /\ UNCHANGED <<foreign, phase, parsed, pos>>

\* External: a byte of a peer's own making.
PutByte(b) ==
    /\ phase = "Write" /\ written = <<>> /\ Len(payload) < MaxBytes
    /\ payload' = Append(payload, b)
    /\ foreign' = TRUE
    /\ UNCHANGED <<written, phase, parsed, pos>>

\* encrypt_packet pads with zeros what is too short (which is to say, with
\* PADDING frames); the receiver then opens the packet.
Seal ==
    LET missing == IF foreign \/ Len(payload) >= MinPayload THEN 0 ELSE MinPayload - Len(payload)
    IN  /\ phase = "Write" /\ payload # <<>>
        /\ payload' = payload \o [i \in 1..missing |-> 0]
        /\ written' = written \o [i \in 1..missing |-> Frame("PADDING", <<>>, <<>>, FALSE)]
        /\ phase' = "Read"
        /\ UNCHANGED <<foreign, parsed, pos>>

\* Mutant: the loop tries again.
OnError_Retry == "Read"

\* An error of parse_frame ends the loop, and nothing of the packet is used.
OnError == "Refused"

\* The loop of decrypt_and_parse and decrypt_and_parse_long_inner. A panic or
\* an abort in parse_frame ends the program with it.
Parse ==
    /\ phase = "Read"
    /\ LET remaining == SubSeq(payload, pos + 1, Len(payload))
           result    == ParseFrame(remaining)
       IN  \/ /\ remaining = <<>>
              /\ phase' = "Done"
              /\ UNCHANGED <<parsed, pos>>
           \/ /\ TooManyRanges(remaining)
              /\ phase' = "Aborted"
              /\ UNCHANGED <<parsed, pos>>
           \/ /\ remaining # <<>> /\ ~TooManyRanges(remaining) /\ result = {}
              /\ phase' = OnError
              /\ UNCHANGED <<parsed, pos>>
           \/ \E r \in result :
              /\ ~TooManyRanges(remaining)
              /\ parsed' = Append(parsed, r.frame)
              /\ pos' = pos + r.len
              /\ UNCHANGED phase
    /\ UNCHANGED <<written, payload, foreign>>

Next ==
    \/ \E f \in Frames : Put(f)
    \/ \E b \in AnyBytes : PutByte(b)
    \/ Seal
    \/ Parse

Spec == Init /\ [][Next]_vars /\ WF_vars(Parse)

-----------------------------------------------------------------------------
EmptyStream(f) == f.kind = "STREAM" /\ f.data[1] = <<>>

\* What write_frame writes is never refused, nor does it end the receiver, and it
\* is what the receiver reads, frame by frame and with nothing left over, exactly
\* unless a STREAM frame without data is followed by another frame or by padding:
\* its length is left out, and it swallows the rest.
ReadsBackUnlessSwallowed ==
    phase \in {"Done", "Refused", "Aborted"} /\ ~foreign =>
        /\ phase = "Done"
        /\ parsed = written <=> \A i \in 1..(Len(written) - 1) : ~EmptyStream(written[i])

\* parse_frame says that it consumed something, and never more than there is,
\* whatever the bytes are: the slices of the loop stay in bounds.
ConsumesWithinPayload ==
    /\ pos <= Len(payload)
    /\ Len(parsed) <= pos

\* A frame that parse_frame accepts, from any bytes and with any encoding of its
\* integers, is one write_frame can write such that it is read the same.
AcceptedCanBeWritten ==
    \A i \in 1..Len(parsed) :
        ParseFrame(WriteFrame(parsed[i])) =
            {[frame |-> parsed[i], len |-> Len(WriteFrame(parsed[i]))]}

\* The loop ends on every payload: with all of it read, with an error, or, where
\* an ACK frame claims more ranges than there is memory for, with the program.
EveryPayloadEnds == phase = "Read" ~> phase \in {"Done", "Refused", "Aborted"}
=============================================================================
