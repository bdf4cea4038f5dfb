# deerquic in TLA+

A verification development kept beside deerquic, a small QUIC implementation in
Rust (`src/src/`). It holds TLA+ models of the connection state machine, its packet number spaces,
its packet headers and their protection, its frame codec, its event loop and the interop programs on top; TLC configurations
that check them on small instances; and TLAPS proofs that hold for every value
of the constants.

    tlc -workers 2 -config Connection_handshake.cfg MCConnection   # a run
    tlapm ConnectionSafetyProofs.tla                               # a proof

`PROJECT.json` lists, in machine-readable form, the components, the runs, the
source lines behind each definition, the hazards, the findings and the theorems.

## 1. The system

| Component | Source | State | Operations |
|---|---|---|---|
| Connection | `connection.rs` | `state`, three `Space`s, the rustls session, `pending_crypto[3]`, `crypto_recv_offset[3]`, `pending_app_data`, `received_app_data`, `stream_send_offset`, `close_reason` | `connect`, `accept`, `ingest` (with `process_frames`, `handle_crypto_output`), `egest`, `send_data`, `recv_data`; `on_timeout` and `next_timeout` are stubs |
| Packet number space | `space.rs` | keys, `next_send_pn`, `largest_recv_pn`, `pending_acks` | `next_send_pn`, `record_recv_pn`, `take_pending_acks`, `set_keys` |
| Packet number coding | `packet.rs`, `connection.rs` | none | `encoded_pn_len`, `write_pn`, `read_pn`, `decode_packet_number` |
| Header and packet protection | `connection.rs` | none | `encrypt_long`, `encrypt_short`, `decrypt_and_parse*` |
| Header codec | `packet.rs` | none | `parse_long_header`, `parse_short_header`, version negotiation, writers |
| Frame codec, variable-length integers | `frame.rs`, `varint.rs` | none | parse and encode |
| Endpoint and its backend | `runtime.rs` | the socket, two buffers | `ep_client`, `ep_server`, `step`, `flush_egress`, `handshake`, `send_app_data`, `recv_app_data`, `drive_handshake` |
| Stand-alone Initial builder | `handshake.rs` | none | `client_initial` |
| Interop binary | `bin/deerquic-interop.rs` | place in the program, `idle`, `silence`, the answer being sent or received, the files saved | `run_client`, `run_server` |
| Errors, initial keys, examples | the other files | see `PROJECT.json` | |

**How they interact.** A `Connection` does no I/O: `ingest` is handed a datagram,
`egest` a buffer. `ingest` parses the header, removes header protection, decodes
the packet number against the `Space`, opens the payload, records the number,
and walks the frames; a CRYPTO frame at the expected offset goes to rustls,
whose answer is queued at a level and whose new keys go to a space. `egest`
visits the spaces in a fixed order and makes one packet of the first that has
keys and something to say. `Endpoint::step` polls the socket, ingests until the socket
is empty or `ingest` fails, then egests until there is nothing left. The interop programs call `step`, but reach past
it into the connection for `send_data`, `recv_data` and `egest`, and ignore every error.

**What is hard here.** Everything that depends on the order in which packets of
three spaces and two directions cross: late, repeated and lost packets, keys that
arrive before or after the packets they open, three ways to become
`Established`, an error that leaves `step` before its flush, and `egest`, which
takes its data out of the connection before it knows that the packet fits. Sender and receiver compute the layout of a
header independently. The interop programs tell one file from the next by silence alone.
Nothing is retransmitted and ACK frames received are ignored, so the code relies on order more than a complete implementation
would. The full list, at its lines, is under `hazards` in `PROJECT.json`.

**What makes each part correct.**

- *Packet numbers*: a number is decoded to itself within half a window, and the
  base of decoding is the maximum received.
- *Connection*: TLS gets its flights once and in order; a space holds only its own epoch's keys,
  for good; established means able to seal application data; neither side is ahead
  of the other; no nonce is used twice; the state never goes back; stream
  offsets are right.
- *Headers and their protection*: what is sealed is opened as it was, for every mask and every length; no slice is
  out of bounds; Initial packets fill their datagram.
- *Frame loop*: for any sequence of frames it is clear which one decides the state.
- *Event loop*: on a network that loses nothing the handshake completes; it fails in one
  way only, which early data of the server bring about; what is queued leaves; the stream stays in order; and every behaviour of
  the loops is one of the connection model.
- *Interop programs*: no byte is saved twice or out of order; a late answer never makes a file of the right size
  with the wrong contents unless an earlier one came out wrong; the programs end.

## 2. Modules

| Module | Models | Extends |
|---|---|---|
| `PacketNumber` | truncation and decoding of packet numbers, for any even radix | |
| `Space` | the `Space` struct and its methods, as operators on records; the ACK frame built from it | `PacketNumber` |
| `SpaceChannel` | one space from both ends, over a lossy, duplicating, reordering network | `Space` |
| `Connection` | client and server `Connection` over such a network | `Space` |
| `ConnectionInvariant` | the inductive invariants: of the handshake, of acknowledgements, of the stream | `Connection` |
| `KeyAgreement` | abstract specification: what a handshake may do to keys and states, without packets or a network | |
| `ConnectionAgreement` | the refinement mapping from `Connection` to `KeyAgreement` | `ConnectionInvariant` |
| `FrameLoop` | `process_frames`, frame by frame, for packets of any peer | `Connection` |
| `HeaderProtection` | the bits of the first byte and the packet number field, as operators | |
| `PacketHeader` | the three builders, both parsers and both decrypt functions, by the lengths of fields | `HeaderProtection`, `VarInt` |
| `VarInt` | variable-length integers | |
| `FrameCodec` | `write_frame`, `parse_frame` and the loop that reads a payload | `VarInt` |
| `Endpoint` | the two event loops and their sockets, driving the actions of `Connection` | `Connection` |
| `Interop` | `run_client` and `run_server` over two endpoints | `Endpoint` |
| `MCConnection`, `MCFrameLoop`, `MCPacketHeader`, `MCFrameCodec`, `MCEndpoint`, `MCInterop` | bounds for the runs | |
| `SpaceProofs`, `SpaceChannelProofs`, `ConnectionProofs`, `ConnectionSafetyProofs`, `FrameLoopProofs`, `PacketHeaderProofs`, `FrameCodecProofs`, `EndpointProofs` | theorems, those about `Interop` at the end of `EndpointProofs` | |

### Correspondence with the code

*Names.* Variables of `Connection` carry the names of the struct's fields, indexed by
side and, where the code has one per space or an array of three, by space. `written` and
`delivered` are history variables, `sent` is the network: the set of all packets ever
sent. Nothing is ever removed from it, so that any packet may be ingested late,
repeatedly or not at all.

*Packets.* A packet is a record: who sealed it, its header form, the epoch of its keys, its
number, and one field per frame kind that `egest` can put in it. Since `egest` emits
frames in a fixed order (CRYPTO, ACK, HANDSHAKE_DONE, STREAM), the record determines
the sequence. A TLS flight is one message, so offsets count flights; a stream byte is
the position at which the application wrote it.

*TLS* is external: `TlsRead` is what `read_hs` followed by the `write_hs` calls does
to a session: two writes for the server's first answer, one otherwise, an error for
anything but the next flight. A server may emit session tickets after the client's Finished; a client
that has finished takes them in silence.

*Sealing* is modelled by its guarantee. A packet opens only for the other side, with the keys
of its epoch and the packet number it was sealed with, where the number is computed by
`ShortPn` or `LongPn` exactly as the receiver does.

*Actions.* `Connect`, `Accept`, `Ingest`, `Egest`, `SendData`, `RecvData` are the
public operations, each whole. `Ingest` contains the frame loop, the TLS call, the
queueing of its output and the installation of keys; a TLS error leaves the packet
number recorded and the rest undone, as the `?` does. `Egest` takes everything out of
the connection, and then either adds the packet to `sent` or, when it does not fit `room`, drops it. A failed
call that changes nothing is a stuttering step. `PeerClose` is
external: deerquic handles CONNECTION_CLOSE but never sends it, so a run may declare
one side to be another implementation. Such a client closes once the server is there, so that the packet `accept` finds is one of `connect`.

*Frame loop.* `FrameLoop` has the variables of `Connection`, of which it uses one side, and adds the packet, the frame that is
next, and a snapshot of the connection before the packet. There is one action per arm of the `match` in `process_frames`; `OnCryptoError` is the
`?` that leaves the loop. The peer is external: it has the keys and puts any frames, in any order, in any space. `LoopIsIngest` compares
the loop, for the packets that `egest` or a closing peer builds, with the single step `Ingest` of `Connection`, in
every state that any peer can bring about; it is what justifies taking `ingest` as one step there.

*Headers.* In `PacketHeader` a header is the lengths of its fields. `EncryptPacket`, `BuildInitialPacket` and `Standalone` are the builders of
`encrypt_packet`, `connect` and `handshake.rs`, each with its own arithmetic for padding; `HdrPnOffset` is where the receiver looks
for the packet number, `PnOffset` where it is. The AEAD opens a packet if it was found in its place, with its length, and ends where the
datagram ends; and if the keys are those it was sealed with (`SameKeys`), which leaves out 0-RTT packets of others: deerquic looks for their keys in the application data space. `Foreign` is another implementation, with connection ids, tokens, sizes of the Length field, coalesced packets and
cut datagrams of its choice.

*Key agreement.* `KeyAgreement` knows only which epochs' keys each side holds, whether it is live, ready or closed, and whether
the server knows that the client is there. In the mapping, `holds` is the set of keys in the three spaces, `status` is `state`, and
`confirmed` is that the server's TLS has read the client's Finished.

*Interop programs.* `app[s]` is where each program is and `due[s]` whether it has to look at the connection or to call `step`; inside
`step` and inside their own `egest` loops the programs are threads of `Endpoint`. A request is one byte of the client's stream and a chunk of an answer
one byte of the server's, so that a byte is its position. `answers` is a history variable: which request a byte answers. Two requests read at once
make a path that names no file. `idle` and `silence` are counters with the code's comparisons, and the limits are constants.

*Frames.* In `FrameCodec` bytes are bytes. `Layout` is the `match` of `parse_frame` as a table: for each
frame type, the fields that follow it; `WriteFrame` is `write_frame`. A failing read is the empty set, so an error ends
the frame as `?` does. Payloads are either written frame by frame and padded as in `encrypt_packet`, or made of
arbitrary bytes. `Connection` abstracts from this module: its packets are payloads that read back as written, as
`ReadsBackUnlessSwallowed` says of every payload `egest` builds (it never writes a STREAM frame without data).
`Vec::with_capacity` takes the number of ranges in an ACK frame at its word (`TooManyRanges`): where there is no memory for so many the program ends (`"Aborted"`), before a single
range is read and the frame found too short. How many there is memory for is the constant `Memory`.

*Event loop.* `thread[s]` says where in `step` a thread is, so every datagram ingested
and every packet flushed is a step of its own and the two threads interleave freely.
`RecvError` may happen to any packet with a short header, because whether
`parse_short_header` accepts it depends on its ciphertext (section 5). `Strict` is the set of sides
driven by `Endpoint::handshake`, which gives up at the first error; others ignore errors,
as `drive_handshake` and the interop binary do. `handshake` looks at the state before each `step` and not within it: `fatal[s]`, which `Poll` sets, is that the step
under way was called by `handshake`, whose `?` then passes on any error of it, also one that comes after the packet that established the connection. `"Stopped"` is final: the program that called
`handshake` gives up. An error in a later call of the application does not end anything. `EpServerAgain` is the second `ingest` of
the first packet by `ep_server`.

## 3. Runs

| Run | Shows |
|---|---|
| `packet_space` | `TypeOK`, `LargestIsMax`, `DecodesExactlyWithinWindow`, `LongDecodesExactly`: decoding is exact precisely within half a window; `AckExactIffContiguous`: the single ACK range is exact precisely when nothing is missing or repeated |
| `handshake` | nine properties of the handshake under every loss, repetition and order, with packets dropped by `egest`; among them the invariant that the proofs use |
| `traffic` | `StreamOffsetsRight`, `ReceivedWasWritten`, `CloseReasonGiven`, `StateOnlyAdvances`: data, dropped packets, and a peer that closes at any point of the handshake or after it; `ImplementsAgreement`: the refinement of `KeyAgreement` |
| `frame_loop` | `LastWordDecides`: for any frames, which one decides the state and the reason; `EpochOfSpace` under any peer; `LoopIsIngest`: the loop is the atomic step of `Connection` |
| `header_open` | `OpenedAsSealed`, `LongNeverRejected`: packets of all three builders, every mask; `ForeignOpensIff`: exactly which packets of others open; `SampleInBounds`, `InitialFillsDatagram` |
| `frame_payload` | `ReadsBackUnlessSwallowed`, `ConsumesWithinPayload`, `AcceptedCanBeWritten`, `EveryPayloadEnds`: reading gives back what was written, which neither is refused nor ends the receiver; on any bytes the loop is in bounds and ends |
| `event_loop` | on sockets that keep order and lose nothing, with two sides that write: `NoErrorInOrder`: the only way in which `handshake()` fails; `HandshakeCompletes`, `FlightsLeave`: what happens unless it does; `EpTypeOK` |
| `interop` | on sockets that lose: `NeverReordered`: what is read is in order; `AcksNumbersSent`: nobody acknowledges as largest a number the other side has not used; `FilesInOrder`, `RightSizeRightFile`: what is in the files; `Ends`: a side that was established comes to its end |
| `early_done`, `discard`, `header_reserved`, `ack_range` | expected violations, section 5 |

**Bounds.**

- `Radix` is 256 in the code. Its only role is the window. `packet_space` sends 20 packets
  with radix 4, which reaches every case of `encoded_pn_len` and several wrap-arounds with small
  numbers; the proofs cover every even radix. The runs that reorder data use 8, whose
  half window of 4 lets packets that are late by up to two numbers still decode.
- `MaxPn` bounds the packets per side and space. A handshake takes one packet per
  side and space, plus acknowledgements; two per space in `handshake` (three for
  Initial packets in `event_loop`) leave room for a late acknowledgement in each. An acknowledgement of an
  acknowledgement never ends (section 5), so some bound is needed.
- `MaxAcks` and `MaxRecv` bound lists that the code lets grow. A receipt beyond the bound is not
  taken, so the bound only removes behaviours. `packet_space` allows 3
  pending numbers, the runs of `Endpoint` 4, those of `Connection` 1.
- `Rooms` are buffer sizes in units of payload beyond the fixed overhead of a packet. Room 0 drops every flight, room 1
  every write of two bytes or more, room 4 fits everything.
- In `Endpoint` a space that has reached its bound blocks those `egest` would
  visit after it. The bounds of `MCEndpoint` are above what the handshake and a byte of each side take; since Initial packets that acknowledge each other may use up their
  bound before a flight, `event_loop` has 3 for that space and 2 for the others, where no flight has to wait behind acknowledgements.
  Each application may write its byte as soon as its side is established, or later, or never, so the server's byte can reach the client before, in and after the step that establishes it.
- `FrameLoop`: two frames per packet, from a set with every arm of the `match`, and one packet beyond the first in each space. Two frames are what it
  takes for one to undo the other; a third is another pair, and the theorems are for any number.
- `PacketHeader`: frames on both sides of every boundary (the smallest packet, the one and two byte Length of an unpadded Initial, 1200 bytes, the two and four byte Length), connection ids
  of 0, 8 and 21 bytes, with and without a token, bodies below and above the sample, datagrams cut, whole and with a packet behind. The theorems cover the lengths between.
- `Interop`: two files of one chunk, limits of 1 in place of 50 and 30. Limits count steps in which nothing arrived, and one side may take any number of
  steps while the other takes none, so a program can run into either limit, long or short, at every point where it waits; a longer limit only adds empty steps before that. In the last space the server has
  five packets (HANDSHAKE_DONE, two answers, acknowledgements) and the client three. Two files, both right; an answer saved in the file of the
  other request; and two requests read at once all happen.

- `FrameCodec` uses the code's byte (`Quarter` = 64). Payloads are one or two frames of a set
  with every kind, every flag and both sides of every boundary between integer lengths that
  the model checker's own integers can hold (up to 2^30, eight bytes long), padded to `MinPayload` = 6 so that short ones are padded and
  long ones are not; or up to five bytes from a set that starts most kinds of frames and
  integers of every length. Five bytes are what it takes for an ACK frame to get to the reservation; there is memory for 30 ranges, so counts below what is left,
  above it, and above 30 all occur.

`CHECK_DEADLOCK FALSE` is set throughout because a bounded run ends when its packets are used up,
and an idle pair of connections may legitimately stop.

**Fairness.** `interop`: weak fairness of the start of both sides and of each program with its endpoint (`Main`), for the same
reason as below; nothing is assumed of the network, which may lose everything. `frame_payload`: the loop that reads a payload goes on (`WF_vars(Parse)`). `event_loop`: weak fairness of `ep_client`, of `ep_server`
and of each thread's `Run`. A thread is a plain loop that blocks only in `poll`, which has a timeout, so it
always takes its next step. The application's calls are not fair. Message delivery needs no fairness of its
own: a datagram is in the socket from the moment it is sent.

## 4. Proofs

| Theorem | Statement |
|---|---|
| `SpaceProofs!DecodeWindow`, `LongDecodesExactlyTheorem` | decoding is exact within half a window; always for long headers |
| `SpaceChannelProofs!SpaceTypeCorrect`, `LargestIsMaxTheorem`, `WindowTheorem`, `LongChannelTheorem`, `AckExactTheorem` | the invariants of `packet_space` |
| `ConnectionProofs!TypeCorrect`, `HandshakeInvariant` | `Spec => []TypeOK`, `Spec => []HandshakeInv` |
| `ConnectionSafetyProofs!TlsTheorem`, `EpochTheorem`, `EstablishedTheorem`, `AgreementTheorem`, `OneFlightTheorem`, `NonceTheorem`, `KeysTheorem` | the safety properties of `handshake` |
| `ConnectionSafetyProofs!AgreementRefinement` | `Spec => ImplementsAgreement`: the connections implement `KeyAgreement` |
| `ConnectionSafetyProofs!AdvancesTheorem`, `ReasonTheorem`, `OffsetsTheorem`, `WrittenTheorem` | the other properties of `traffic`: `StateOnlyAdvances`, `CloseReasonGiven`, `StreamOffsetsRight`, `ReceivedWasWritten` |
| `ConnectionSafetyProofs!AcksTheorem` | `Spec => []AcksNumbersSent` |
| `FrameLoopProofs!LastWordTheorem`, `LoopEpochTheorem`, `LoopTheorem` | the properties of `frame_loop`, for any number of frames: `LastWordDecides`, `EpochOfSpace`, `LoopIsIngest` |
| `PacketHeaderProofs!OpenedTheorem`, `LongTheorem`, `ForeignTheorem`, `SampleTheorem`, `DatagramTheorem` | the properties of `header_open`, for fields of every length |
| `FrameCodecProofs!VarIntReadsBack`, `FrameReadsBack`, `EmptyStreamSwallows` | for every integer, every frame and every sequence of bytes behind it: what `parse_frame` makes of what `write_frame` wrote |
| `FrameCodecProofs!ConsumesWithinPayloadTheorem`, `AcceptedCanBeWrittenTheorem`, `ReadsBackTheorem` | the invariants of `frame_payload`, for payloads of any frames or of any bytes, of any length |
| `EndpointProofs!EndpointImplementsConnection`, `EndpointSafe`, `EndpointMoves`, `EndpointAgreement`, `EndpointTraffic` | `EpSpec => Spec`, and what is proved of `Connection`, for running endpoints |
| `EndpointProofs!EndpointTypeCorrect`, `OrderTheorem` | `EpSpec => []EpTypeOK`, `EpSpec => []NeverReordered`, on sockets that lose as on those that do not |
| `EndpointProofs!NoErrorTheorem` | `EpSpec => []NoErrorInOrder`, given `FlightsFit` and `NumbersFit` |
| `EndpointProofs!InteropImplementsConnection`, `InteropSafe`, `InteropMoves`, `InteropTraffic`, `InteropOrder` | `IoSpec => Spec`, and the same, with `NeverReordered`, for the interop programs |
| `EndpointProofs!FilesTheorem`, `RightFileTheorem` | `IoSpec => []FilesInOrder`, `IoSpec => []RightSizeRightFile`, for any files and limits |

**Assumptions.** `Radix` is an even number of at least 4 (`RadixAssumption`), the bounds are
naturals (`ConnectionAssumption`, `BoundsAssumption`, `FrameLoopAssumption`), `Lossy` and `Strict` have their types
(`EndpointAssumption`), `Chunks` is a sequence of naturals and the interop programs ignore errors (`InteropAssumption`), the lengths of header
fields are naturals, those of frames not zero, and a byte has eight bits (`HeaderAssumption`; `EncodedLen` is for any size of a byte, but the arithmetic
of padding depends on the size). In the frame codec a byte has eight bits too (`FrameAssumption`), and `Frames` are values of the type `Frame`
(`WellFormedAssumption`), but for two that the type has room for and nothing builds: an ACK frame without ranges, on which `write_frame` panics, and
a connection ID of length 0, which `parse_frame` refuses. `AcceptedCanBeWritten` is proved of payloads shorter than 2^62 bytes, since a byte string of more has a
length that no integer of the protocol holds. The frames that are written have as many ACK ranges as there is memory for (`RangesAssumption`).

Nothing is assumed of the size of the bounds, with one exception. `NoErrorTheorem` has two hypotheses, without which its property is false: `FlightsFit`, every buffer
`egest` is given holds a flight (a flight that is dropped never comes, and the packets behind it do), and `NumbersFit`, four bytes hold every packet number (a long header
with a larger number does not decode) and the bound lets the server send HANDSHAKE_DONE. The run `event_loop` satisfies both: `Rooms` = {2}, at most 3 packets in a space, and
four bytes of radix 8 hold 4096 numbers.

**The argument for `Connection`.** None of the safety properties is inductive. The
invariant `HandshakeInv` (module `ConnectionInvariant`) has five parts:

1. `ClientInv`, `ServerInv`: keys and receive offsets of a side are a function of how far
   its TLS session has got. This is what makes `handle_crypto_output`, which installs keys
   without looking at which epoch they belong to, safe.
2. `PacketInv`: every packet was sealed with the keys of its own space, under a number its sender has
   already used, and holds at most one flight, one its sender may send in that space. Uniqueness of nonces follows from
   the numbers (`NonceUnique` is carried along in the same induction).
3. `PendingInv`: the same for what is queued.
4. `OrderInv`: where the two sessions can be with respect to each other, and which flights
   can exist at that point. The heart of it: once the client has finished, the server's flight is no
   longer queued, so a ticket cannot be put in the same CRYPTO frame as it.

`TypeInv` is `TypeOK` with the fact that pending numbers are naturals and an ACK frame is made of
a list that is not empty. The proof has one lemma per action; `Ingest` is split by side and by what TLS answers.

**Acknowledgements.** That a side acknowledges only what the other has used is about two spaces at two ends of a network, and each operation on a space
is an operation on one of them. `AckInv` says it of the numbers waiting and of the frames in `sent`. A frame never goes stale, because counters do not go back; what
remains is that `accept`, which records 0 without looking at the packet, is right to, and this is `PacketInv`. `FreshInv` is for `connect` and `accept`, which
make new spaces: nobody has acknowledged numbers of a side that does not exist.

**The stream.** `StreamInv` follows a byte from one application to the other: `QueueInv` (what was written is what has left and, after it, what waits),
`FramesInv` (a STREAM frame is a range of positions below its sender's offset, and two ranges of a side do not overlap) and `ArrivedInv` (what
is there to read left the other side before). A packet that `egest` drops leaves a gap between the ranges, and nothing else: `stream_send_offset` has moved with the data.

**State and reason.** `StateOnlyAdvances` uses the eight moves that the refinement below is proved with, each of which goes forward. `ReasonInv` separates the sides that an
implementation of someone else may close (they have no reason) from those that only a CONNECTION_CLOSE closes.

**The argument for the frame loop.** Three invariants, each for any number of frames from any peer.

- `LoopInv` says where the loop is. `LastWordDecides` is then inductive by itself, since each arm of the `match` either adds a last word or says nothing; the lemmas are about the last element
  of a set of positions that grows at its end.
- `KeyInv`: what TLS has read tells which keys there are, and a packet is looked into only in a space that has keys. So TLS, which answers a flight whatever the space, can only answer
  in the space whose next keys the answer brings (`AnswerKeys`), and a peer that sends a flight in the wrong space gets nowhere.
- `OwnInv`: with a packet `p` of deerquic's form, when `m` of its frames are processed, the connection is `After(p, t, m)`, the connection before the packet with the effects of the
  first `m` frames, where `t` are the tickets TLS has put in its answer, if any. Each frame takes `m` to `m + 1`; at the end `After` is what `Ingest` does (`AfterIsIngest`), and where TLS fails
  it is what `Ingest` leaves of the packet then (`ErrorIsIngest`). This is what justifies the step `Ingest` of `Connection`, for a session in any state.

**The argument for headers.** `HeaderInv`: the packet there is was made by a builder (`OwnOK`) or is as RFC 9000 allows (`ForeignOK`), its first byte and its packet number are as header protection
leaves them (`Sealed`), and the outcome, once there is one, is that of this packet (`Judged`). The lemmas that count are that all three builders, each with its own
arithmetic, pad enough (`OwnOK` asks for the sample and, of an Initial, for 1200 bytes) and that a mask applied twice gives back the bits. Which bytes of a packet number rustls unmasks depends on
the masked form of its length; that `Garbled` is empty says that sealing and opening agree on it.

**The argument for the frame codec.** The operators that go along a sequence (`Shift`, `Value`, `ReadInts`, `ReadFields`, `WriteInts`) are recursive functions, and what they yield for sequences of every length is
proved by one lemma of induction, over a set and not over an operator (`Induction`: a set of naturals with 0 and the successors of its members has them all). `StepsExist` derives from it that
`n` steps inside a set can be taken one after the other, `SameSteps` that two functions which take the same steps are the same.

- *One frame.* `Reads(b, fields, ints, data)`: the bytes `b`, whatever follows them, are read as these fields and yield these integers and byte strings. It holds of nothing, and of one more field when it holds of that field
  (`FieldReads`); the body that `write_frame` makes of a kind is put together this way along `Layout`. `Swallows` is the same for a last field without length, and there is only one, that of a STREAM frame without data. With the type in front this gives
  `FrameReadsBack` and `EmptyStreamSwallows`, which leave no third case.
- *What is accepted.* `PayloadInv`: each frame read so far is a value of the type `Frame` (`WellFormed`), its integers fit and its byte strings are no longer than the payload (`Bounded`), and it took a byte at least. This is an induction over the
  fields of `Layout`, each of which takes its bytes from the front of what is left. `AcceptedCanBeWritten` follows with `FrameReadsBack`.
- *The payload.* `ReadBackInv`: the payload is the frames put into it, one behind the other (`Laid`); the loop is either between two of them, with those before it read as written and none of them an empty STREAM
  frame (`OnTrack`), or an empty STREAM frame that was not the last has taken the rest (`Swallowed`). Padding is `Laid` too, as so many PADDING frames, and from `OnTrack` the loop is never refused.

**The argument for `Endpoint`.** The refinement mapping is the identity on the variables of
`Connection`. A step of a thread is a step of `Connection` or leaves its variables
unchanged, provided that every datagram in a socket is in `sent`; this is `SocketInv`, and it is preserved because
`sent` only grows.

*Order.* `ReaderInv` puts one after the other what an application has read, what it has still to read and what is in its socket, and says that positions only grow from one end to the other
(`Arrivals`). Whatever a thread does is one of four moves of the reader (`ReaderMoves`): a packet goes to the end of its socket, and its positions are above all others because
`egest` has just taken them from the queue (`StreamInv`); the first packet goes from the socket to the connection, or is lost, or refused; the application reads. `ep_server` ingests one packet
in addition to `accept`, which takes no data from it, so there is no second copy.

*One way to fail.* `ingest` fails on a packet for which there are no keys, on one whose flight TLS has already had, on a closed connection, and, by what `parse_short_header` makes of protected bits, on any short packet. On a socket that keeps the order, `NoErrorTheorem` shows that a
packet always finds its keys, so that only the last is left, and when; by the invariant `InOrderInv`. Its part `FlightInv` says of the client's socket (`InOrderQueue`) that a Handshake packet is behind the Initial packet with the
server's first flight and an application packet behind the Handshake packet with the second one, unless the client has read that flight; and, which makes this inductive, that a flight that has left the
server's queue is in that socket or read, so that whatever the server sends next joins behind it. `FirstFlush` says that the server has sent nothing in its last space before its flights have left, which is the
order in which `egest` visits the spaces. `ServerGoesOn`: the server is established before it enters a step, so no error of a step ends it. `ShortInv` is about a client
in the step that establishes it, which has used no number of the last space: the server has nothing to acknowledge there, so a short packet that the client may refuse in that step holds data that the server has written, and the client's Finished is still queued. `ClientStops`
is what remains of that when the thread has stopped, which is `NoErrorInOrder`. `QuietInv` collects what cannot happen here: a CONNECTION_CLOSE, a long header number that does not fit, a client that uses 1-RTT keys before
it has read the last flight. Acknowledgements of acknowledgements go on for ever beside all this and do no harm.

**The argument for the key agreement.** By `HandshakeInv`, the keys of a side are a function of how far its TLS session has got, so `holds` is one too; a step of `Connection` then
either leaves it alone or moves TLS to its next state, which adds the next epoch. What must be shown of each step is that state and
keys move together. Two facts are needed beyond the invariant (`AgreementInv`): a packet that closes carries no flight, so one `Ingest` is
never two abstract steps; and a client whose TLS has finished is established or closed, so HANDSHAKE_DONE changes nothing that the last
flight has not. Where `Connection` does two things at once, one of them is not visible: the server reads the client's Finished (`Confirm`) without
a change of state.

**The argument for `Interop`.** Again the identity on the variables of `Connection`. The programs read everything that has arrived, so a read is a `RecvData` of
`Connection` provided that no more waits than its bound; this is `RoomInv`, and with `SocketInv` and `TypeInv` it is inductive.

*Files.* `FilesInv` has four parts. `AskInv`: the client has asked for one file more than it has saved while it receives, and for no more at any other time. `AnswerInv`: answers come in the
order of requests, only to requests the server has read, and no request gets more chunks than its file has. `SavedInv`: files hold bytes the client has read, in the order of the
stream. `RightSizeRightFile` is carried along. The step that matters is a save: when all files so far have their size, so has the new one, and the files before it have used
up all the answers to the earlier requests (`Crowd`: there is no room for more than `n` different numbers within `n`); since nobody has asked for more, the new file is made of answers to the last request.

**Only model-checked.** Liveness: `HandshakeCompletes`, `FlightsLeave`, `EveryPayloadEnds`, `Ends`. A proof from weak fairness goes through `ENABLED`, which the prover does not reason about. All other properties of the passing
runs are proved: every invariant, every action property and the refinement `ImplementsAgreement`.

## 5. Where code and documents disagree

Four runs state what a document or a comment says, and TLC refutes it; the quotation is beside the property.

- `ack_range`: `ep_server` ingests the packet that `accept` has recorded; packet 0 is pending
  twice and the first ACK frame reaches below 0, on a perfect network.
- `early_done`: HANDSHAKE_DONE leaves as soon as the server has 1-RTT keys, before the client's Finished.
- `discard`: `egest` returns 0, documented as "idle", for a packet that does not
  fit, and its contents are lost.
- `header_reserved`: `parse_short_header` checks bits that are still protected, so whether a valid packet
  is accepted depends on its ciphertext.

More departures from RFC 9000, and from what the programs mean to do, can be read off definitions and properties:

- `AckFrame`: with a gap, the range acknowledges packets that never arrived
  (13.1). `AckExactIffContiguous` says exactly when.
- `Ingest`: STREAM frames are appended whatever their offset and however often they arrive, so the
  application reads an ordered stream (2.2) only if the network keeps the order; `NeverReordered`
  shows that this is enough.
- `RecordRecvPn`: every packet is acknowledged, also one that holds only an ACK frame
  (13.2.1), so two idle connections never fall silent.
- `PnLenBits`: a short header encodes the length of its packet number as itself, not as one less
  (17.3.1). Both ends of deerquic agree on it (`OpenedAsSealed`); another implementation would not, so none of its short headers opens.
- `HdrPnOffset`, `Authentic`: a packet with a token, with a Length field longer than necessary, or followed by another packet in its datagram (12.2) does
  not open. `ForeignOpensIff` says exactly which do.
- `NoSample`: a short header packet of another implementation, or a cut one, can be too short for the sample, which is sliced unchecked; deerquic's own never are (`SampleInBounds`).
- `Parses`: `ingest` takes the length of the id it sends *to* for the length of the id in a short header it receives. Both are 8 in deerquic.
- `OnClose`, `OnDone`: the loop goes on after CONNECTION_CLOSE, so a HANDSHAKE_DONE or the last flight behind it in the same packet opens the connection
  again (10.2.2); and HANDSHAKE_DONE is believed in every space, whether there are 1-RTT keys or not, so `EstablishedHasKeys`, which is proved for two deerquic
  connections, depends on the peer. `LastWordDecides` says exactly what happens.
- `TypeOf` (`FrameCodec`): the comment at `frame.rs:177` wants frame types in their shortest encoding; the test below it measures the value instead of what was read and is never
  true of a known type, so longer encodings are accepted, and only their first byte is skipped.
- `Save`, `Read` (`Interop`): an answer that comes after the silence limit is saved in the file of a later request, and two requests that arrive between two reads get no answer.
  `RightSizeRightFile` is what remains true.
- `AfterError` (`Endpoint`): `handshake` is to run "until established or error" (`runtime.rs:231`) and can be both. A server is established as soon as it has answered, so its application may write at once; a client that finds this short packet behind the
  server's flights in its socket is established by the flights and then, for most masks, refuses the packet, all in one step. `handshake` returns the error, the client's Finished stays queued, and the server's TLS never finishes, on a perfect network. `NoErrorInOrder` says that this is the only way to fail.
- `TooManyRanges` (`FrameCodec`): an ACK frame that announces more ranges than there is memory for ends the program where a parse error was due; what deerquic itself writes never does (`ReadsBackUnlessSwallowed`).
- `Handshake` (`Interop`): a side that never becomes established, because a flight was lost or the peer closed, spins for ever; `Ends` shows that this is the only way not to end.

## 6. Not modelled

- *Cryptography*: key derivation (`crypto.rs`), AEAD, the value of the mask. Taken by their guarantees.
- *Timers, loss detection*: stubs in the code.
- *Header writers* `write_long_header` and `write_short_header`: used by their own tests only. `write_short_header` puts a packet number length of 4 into the
  first byte as it is, which sets the key phase bit and leaves a length of 0, which `parse_short_header` refuses.
- *System calls*: epoll and sockets, except as a queue; errors of `send` and `poll`.
- *The limit of 1000 iterations* in `handshake` and `drive_handshake`, far above what the bounds allow; apart from it `drive_handshake`
  is two sides that ignore errors (`Strict` = {}) and take turns, which the free interleaving contains.
- *Files, environment, arguments and log* of the interop binary.
- *Memory*, except for the one reservation whose size is read from the packet (`TooManyRanges`).
- *First packets without a ClientHello*: `accept` also succeeds on an Initial packet that has no CRYPTO frame at offset 0 (`read_hs` of nothing is not an error). `connect` never sends one, and a client of another
  implementation that closes before there is a server is left out (`PeerClose`).
- *Flights of other implementations* that are split over several CRYPTO frames or combined in one: a flight is a frame here. `FrameLoop` has peers that send flights, tickets among them, in any space and order.
- *Sizes in the interop programs*: the server reads a request into 2048 bytes and the client an answer into 16384, and an empty request ends the server. Requests and chunks are single bytes here, and no client sends an empty request.
- *Error tables*, *examples*: data, and calls that `Endpoint` models.

## 7. History and what is left

Done, in this order: `PacketNumber`, `Space`, `SpaceChannel` and their proofs; `Connection`,
its invariant and its proofs; `HeaderProtection`; `Endpoint` and its refinement; `VarInt` and `FrameCodec`; `PacketHeader`; `FrameLoop`; `Interop`
and its refinement; `KeyAgreement` and its refinement; the proofs about acknowledgements, the stream and its order, headers, the frame loop and the files; those
about how the handshake of two event loops can fail, and about the frame codec.

No theorem of this plan is left. What would come next is in the code rather than here: when `on_timeout` and retransmission are written, `egest` has to keep what it
sends, `OneFlightPerFrame` and `StreamOffsetsRight` have to allow for a second copy, and `TlsNeverFails` will depend on `crypto_recv_offset` for more than it does now.
