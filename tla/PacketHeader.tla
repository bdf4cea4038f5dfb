---------------------------- MODULE PacketHeader ----------------------------
(***************************************************************************)
(* Packet headers from the functions that build them to the functions that *)
(* take them apart: where each one believes the packet number to be, how   *)
(* much of the datagram it takes for the packet, and how long packets are  *)
(* padded. A header is represented by the lengths of its fields; its first *)
(* byte and its packet number are those of HeaderProtection.               *)
(*                                                                         *)
(* Packets come from deerquic's three builders or from another             *)
(* implementation, which may use every freedom that RFC 9000 leaves: a     *)
(* token, a Length field that is longer than necessary, connection ids of  *)
(* two lengths, more packets in the same datagram.                         *)
(***************************************************************************)
EXTENDS HeaderProtection, VarInt

CONSTANTS Frames,       \* lengths of the frames deerquic puts in a packet
          ForeignCids,  \* lengths of the connection ids of other implementations
          Tokens,       \* lengths of their tokens
          Bodies,       \* lengths of what follows their packet number
          Extras        \* bytes after the packet in its datagram, or (negative)
                        \* missing at its end

\* Header lengths are counted in bytes, so that a byte is one of eight bits.
ASSUME HeaderAssumption ==
    /\ Quarter = 64
    /\ Frames \subseteq Nat \ {0}
    /\ ForeignCids \subseteq Nat /\ Tokens \subseteq Nat /\ Bodies \subseteq Nat
    /\ Extras \subseteq Int

LongType == {"Initial", "ZeroRtt", "Handshake", "Retry", "VersionNegotiation"}

MaxCidLen == 20
MinInitialSize == 1200

\* External (rustls): the lengths of the AEAD tag and of the sample from which
\* the mask of the header is computed.
TagLen == 16
SampleLen == 16

\* The connection ids that connect and client_initial choose.
CidLen == 8

-----------------------------------------------------------------------------
(* A packet on its way.                                                    *)

\* First byte, version and both connection ids, each with its length.
LongPrefix(p) == 1 + 4 + 1 + p.dcid + 1 + p.scid

\* Where the packet number really is.
PnOffset(p) ==
    IF p.form = "Short" THEN 1 + p.dcid
    ELSE LongPrefix(p) + (IF p.type = "Initial" THEN p.token_size + p.token ELSE 0) + p.len_size

PacketLen(p) == PnOffset(p) + p.pn_len + p.body

DatagramLen(p) == IF PacketLen(p) + p.extra < 1 THEN 1 ELSE PacketLen(p) + p.extra

\* The sizes the integers of the header may have been written in.
Sizes(v) == {n \in {1, 2, 4, 8} : n >= EncodedLen(v)}

-----------------------------------------------------------------------------
(* deerquic's builders.                                                    *)

AtLeast(a, b) == IF a < b THEN b ELSE a

\* hdr_size_long: the estimate of the header's size, from the Length that the
\* packet would have without padding.
HdrSizeLong(dcid, scid, length) == 1 + 4 + 1 + dcid + 1 + scid + 1 + EncodedLen(length)

\* Mutant: the estimate is subtracted twice.
PadInitial_Twice(frames, pn_len) ==
    AtLeast(frames, MinInitialSize - 2 * HdrSizeLong(CidLen, CidLen, frames + pn_len + TagLen) - TagLen)

\* Initial packets are padded to 1200 bytes, header and tag included.
PadInitial(frames, pn_len) ==
    AtLeast(frames, MinInitialSize - (HdrSizeLong(CidLen, CidLen, frames + pn_len + TagLen) + TagLen))

\* Mutant: the tag is taken to be enough for the sample.
PadSample_TagOnly(frames, pn_len) == AtLeast(frames, SampleLen - TagLen)

\* All packets are padded so that the sample lies within the packet.
PadSample(frames, pn_len) == AtLeast(frames, SampleLen + 4 - pn_len)

Own(form, type, payload, pn_len, len_size) ==
    [ foreign |-> FALSE, form |-> form, type |-> type, dcid |-> CidLen, scid |-> CidLen,
      token_size |-> EncodedLen(0), token |-> 0, length |-> pn_len + payload + TagLen,
      len_size |-> len_size, pn_len |-> pn_len, bits |-> PnLenBits(form, pn_len),
      body |-> payload + TagLen, extra |-> 0 ]

\* encrypt_long and encrypt_short.
EncryptLong(type, payload, pn_len) ==
    Own("Long", type, payload, pn_len, EncodedLen(pn_len + payload + TagLen))
EncryptShort(payload, pn_len) == Own("Short", "OneRtt", payload, pn_len, 0)

\* encrypt_packet: padding, then sealing.
EncryptPacket(type, frames, pn_len) ==
    LET padded  == IF type = "Initial" THEN PadInitial(frames, pn_len) ELSE frames
        payload == PadSample(padded, pn_len)
    IN  IF type = "OneRtt" THEN EncryptShort(payload, pn_len)
        ELSE EncryptLong(type, payload, pn_len)

\* build_initial_packet, used by connect.
BuildInitialPacket(frames) == EncryptLong("Initial", PadInitial(frames, 1), 1)

\* handshake.rs reserves two bytes for the Length field before it knows it, ...
StandaloneLenSize == 2

\* ... and varint::encode fails, and no packet is built, if it does not fit in
\* them and the byte of the packet number. A set of at most one packet.
Standalone(frames) ==
    LET header  == 1 + 4 + 1 + CidLen + 1 + CidLen + 1 + StandaloneLenSize + 1
        payload == AtLeast(frames, MinInitialSize - (header + TagLen))
        packet  == Own("Long", "Initial", payload, 1, StandaloneLenSize)
    IN  IF EncodedLen(packet.length) <= StandaloneLenSize + 1 THEN {packet} ELSE {}

-----------------------------------------------------------------------------
(* What ingest makes of a datagram.                                        *)

\* parse_long_header, parse_version_negotiation and parse_short_header accept
\* it. The short header does not say how long its connection id is: ingest
\* takes it to be as long as the id it sends to, which is the one its peer
\* has as its own.
Parses(p, low) ==
    /\ p.dcid <= MaxCidLen /\ p.scid <= MaxCidLen
    /\ ParserAccepts(p.form, low)
    /\ DatagramLen(p) >=
           IF p.form = "Short" THEN 1 + p.scid + low.pn_len
           ELSE IF p.type \in {"Retry", "VersionNegotiation"} THEN LongPrefix(p)
           ELSE PnOffset(p) + low.pn_len + 1

\* Mutant: the size of the Length field is taken as handshake.rs takes it.
HdrPnOffset_Two(p) ==
    IF p.form = "Short" THEN 1 + p.scid
    ELSE LongPrefix(p) + (IF p.type = "Initial" THEN 1 ELSE 0) + 2

\* hdr_pn_offset_long and hdr_pn_offset_short: where ingest looks for the packet
\* number. The parser knows, but what it knows is not used.
HdrPnOffset(p) ==
    IF p.form = "Short" THEN 1 + p.scid
    ELSE LongPrefix(p) + (IF p.type = "Initial" THEN 1 ELSE 0) + EncodedLen(p.length)

\* The sample lies within the datagram.
SampleFits(p) == HdrPnOffset(p) + 4 + SampleLen <= DatagramLen(p)

\* ingest takes the keys of the space its match gives the header, which for 0-RTT
\* are the 1-RTT keys. deerquic seals with those too; others have 0-RTT keys.
SameKeys(p) == p.foreign => p.type # "ZeroRtt"

\* The AEAD (external) opens a packet if the keys are those that sealed it, the
\* packet number was found, read with its length, and everything up to the end
\* of the datagram is the packet.
Authentic(p, len) ==
    /\ SameKeys(p)
    /\ HdrPnOffset(p) = PnOffset(p)
    /\ len = p.pn_len
    /\ p.extra = 0

-----------------------------------------------------------------------------
VARIABLES packet,   \* the packet in the network, a set of at most one
          outcome   \* what ingest made of it, a set of at most one

vars == <<packet, outcome>>

Init == packet = {} /\ outcome = {}

\* Header protection: the mask covers the low bits of the first byte and some
\* of the bytes of the packet number.
Protect(p, mask) ==
    LET plain == [reserved |-> 0, key_phase |-> 0, pn_len |-> p.bits]
    IN  /\ packet' = {[ header |-> p, mask |-> mask, low |-> Xor(plain, mask),
                        masked |-> Covered(p.bits, p.pn_len) ]}
        /\ UNCHANGED outcome

\* egest.
Egest(type, frames, pn_len) ==
    LET p == EncryptPacket(type, frames, pn_len)
    IN  \E mask \in Masks(p.form) : Protect(p, mask)

\* connect.
Connect(frames) == \E mask \in Masks("Long") : Protect(BuildInitialPacket(frames), mask)

\* client_initial of handshake.rs.
ClientInitial(frames) ==
    \E p \in Standalone(frames), mask \in Masks("Long") : Protect(p, mask)

\* External: a packet of another implementation, which writes the length of the
\* packet number as one less in every form (RFC 9000 17.2, 17.3.1).
Foreign(form, type) ==
    \E dcid, scid \in ForeignCids, token \in Tokens, pn_len \in {1, 4}, body \in Bodies,
       extra \in Extras, mask \in Masks(form) :
    \E token_size \in Sizes(token), len_size \in Sizes(pn_len + body) :
        /\ type # "Initial" => token = 0 /\ token_size = 1
        /\ type \in {"Retry", "VersionNegotiation", "OneRtt"} => len_size = EncodedLen(pn_len + body)
        /\ Protect([ foreign |-> TRUE, form |-> form, type |-> type, dcid |-> dcid, scid |-> scid,
                     token_size |-> token_size, token |-> token, length |-> pn_len + body,
                     len_size |-> len_size, pn_len |-> pn_len, bits |-> pn_len - 1,
                     body |-> body, extra |-> extra ], mask)

-----------------------------------------------------------------------------
Result(result, len, garbled) ==
    /\ outcome' = {[result |-> result, len |-> len, garbled |-> garbled]}
    /\ UNCHANGED packet

\* ingest refuses what the parser refuses, and packets without a number.
Refuse(p) ==
    /\ ~Parses(p.header, p.low) \/ p.header.type \in {"Retry", "VersionNegotiation"}
    /\ Result("refused", 0, {})

Accepted(p) ==
    Parses(p.header, p.low) /\ p.header.type \notin {"Retry", "VersionNegotiation"}

\* A datagram too short for the sample is an error if its header is long. If it
\* is short, the slice is out of bounds.
NoSample(p) ==
    /\ Accepted(p) /\ ~SampleFits(p.header)
    /\ Result(IF p.header.form = "Long" THEN "failed" ELSE "panic", 0, {})

\* decrypt_and_parse and decrypt_and_parse_long_inner: four bytes are taken for
\* the packet number, the protection is removed, and as many are kept as the
\* first byte then says.
Decrypt(p) ==
    LET low == Xor(p.low, p.mask)
        len == PnLenRead(p.header.form, low.pn_len)
        garbled == {i \in 1..len : i \in p.masked <=> i \notin Covered(low.pn_len, 4)}
    IN  /\ Accepted(p) /\ SampleFits(p.header)
        /\ Result(IF Authentic(p.header, len) /\ garbled = {} THEN "opened" ELSE "failed",
                  len, garbled)

Send ==
    \/ \E type \in {"Initial", "ZeroRtt", "Handshake", "OneRtt"}, frames \in Frames, pn_len \in PnLen :
           Egest(type, frames, pn_len)
    \/ \E frames \in Frames : Connect(frames)
    \/ \E frames \in Frames : ClientInitial(frames)
    \/ \E type \in LongType : Foreign("Long", type)
    \/ Foreign("Short", "OneRtt")

Next ==
    \/ packet = {} /\ Send
    \/ outcome = {} /\ \E p \in packet : Refuse(p) \/ NoSample(p) \/ Decrypt(p)

Spec == Init /\ [][Next]_vars

-----------------------------------------------------------------------------
\* A packet of deerquic that gets past the parser opens, whatever the mask:
\* sender and receiver compute the place of the packet number independently
\* (the receiver once for three builders) and agree; its length is read from
\* the unprotected byte, never from the header the parser returned; and the
\* bytes rustls leaves masked in a short header are the same both ways.
OpenedAsSealed ==
    \A p \in packet, o \in outcome :
        ~p.header.foreign /\ o.result # "refused" =>
            o.result = "opened" /\ o.len = p.header.pn_len /\ o.garbled = {}

\* No mask makes the parser refuse a long header of deerquic: the handshake,
\* which uses long headers only, does not depend on the ciphertext.
LongNeverRejected ==
    \A p \in packet, o \in outcome :
        ~p.header.foreign /\ p.header.form = "Long" => o.result # "refused"

\* Exactly which packets of other implementations open. hdr_pn_offset_long
\* counts one byte for the token and the shortest encoding of Length, and the
\* rest of the datagram is decrypted whatever Length says: a token, a longer
\* Length field or a coalesced packet (RFC 9000 12.2) makes a valid packet fail.
\* No short header opens, since the two ends write the length of the packet
\* number differently, and no 0-RTT packet, for which deerquic has no keys.
ForeignOpensIff ==
    \A p \in packet, o \in outcome :
        LET h == p.header
        IN  h.foreign =>
                (o.result = "opened" <=>
                    /\ h.type \in {"Initial", "Handshake"}
                    /\ h.dcid <= MaxCidLen /\ h.scid <= MaxCidLen
                    /\ h.token = 0 /\ h.token_size = 1 /\ h.len_size = EncodedLen(h.length)
                    /\ h.extra = 0
                    /\ h.pn_len + h.body >= 4 + SampleLen)

\* No slice is out of bounds for a packet that deerquic builds, at either end,
\* however short its frames and whatever the mask, nor for any long header,
\* however the datagram is cut; decrypt_and_parse, which does not check, is at
\* the mercy of what encrypt_packet pads.
SampleInBounds ==
    /\ \A p \in packet : ~p.header.foreign => 4 - p.header.pn_len + SampleLen <= p.header.body
    /\ \A p \in packet, o \in outcome :
           o.result = "panic" => p.header.foreign /\ p.header.form = "Short"

\* Every Initial packet fills a datagram of 1200 bytes (RFC 9000 14.1), although
\* all three builders pad before they know how long the header will be.
InitialFillsDatagram ==
    \A p \in packet :
        ~p.header.foreign /\ p.header.type = "Initial" => DatagramLen(p.header) >= MinInitialSize

\* RFC 9000 17.3.1, of the reserved bits: "An endpoint MUST treat receipt of a
\* packet that has a non-zero value for these bits, after removing both packet
\* and header protection, as a connection error". parse_short_header looks at
\* them before, and so refuses valid packets for most masks.
ShortNeverRejected ==
    \A p \in packet, o \in outcome :
        ~p.header.foreign /\ p.header.form = "Short" => o.result # "refused"
=============================================================================
