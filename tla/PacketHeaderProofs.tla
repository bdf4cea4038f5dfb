------------------------- MODULE PacketHeaderProofs -------------------------
(***************************************************************************)
(* Headers of every length: what the run checks on the lengths at both     *)
(* sides of each boundary holds between the boundaries too, for frames,    *)
(* connection ids, tokens and bodies of any size and every mask.           *)
(***************************************************************************)
EXTENDS PacketHeader, TLAPS

\* Applying a mask twice gives back the bits.
LEMMA Xor2Twice ==
    ASSUME NEW a \in 0..3, NEW b \in 0..3
    PROVE  Xor2(a, b) \in 0..3 /\ Xor2(Xor2(a, b), b) = a
<1>1. (a = 0 \/ a = 1 \/ a = 2 \/ a = 3) /\ (b = 0 \/ b = 1 \/ b = 2 \/ b = 3)
  OBVIOUS
<1>2. CASE a = 0 BY <1>1, <1>2 DEF Xor2
<1>3. CASE a = 1 BY <1>1, <1>3 DEF Xor2
<1>4. CASE a = 2 BY <1>1, <1>4 DEF Xor2
<1>5. CASE a = 3 BY <1>1, <1>5 DEF Xor2
<1> QED BY <1>1, <1>2, <1>3, <1>4, <1>5

\* The sizes of an integer, and that a larger one is not written shorter.
LEMMA EncodedLenFacts ==
    ASSUME NEW v \in Nat
    PROVE  /\ EncodedLen(v) \in {1, 2, 4, 8}
           /\ v < 64 <=> EncodedLen(v) = 1
           /\ \A w \in Nat : v <= w => EncodedLen(v) <= EncodedLen(w)
<1>1. Quarter = 64 BY HeaderAssumption
<1>2. ByteRadix = 256 BY <1>1 DEF ByteRadix
<1>3. \A x \in Nat : EncodedLen(x) = IF x < 64 THEN 1 ELSE IF x < 16384 THEN 2
                                     ELSE IF x < 1073741824 THEN 4 ELSE 8
  BY <1>1, <1>2 DEF EncodedLen
<1> QED BY <1>3

-----------------------------------------------------------------------------
\* What every builder of deerquic gives to a packet: where the packet number is
\* can be computed from the header, and there is enough behind it for the sample.
OwnOK(h) ==
    /\ h.form \in Form
    /\ h.type \in {"Initial", "ZeroRtt", "Handshake", "OneRtt"}
    /\ h.form = "Short" <=> h.type = "OneRtt"
    /\ h.dcid = CidLen /\ h.scid = CidLen /\ h.token_size = 1 /\ h.token = 0 /\ h.extra = 0
    /\ h.pn_len \in PnLen /\ h.bits = PnLenBits(h.form, h.pn_len)
    /\ h.body \in Nat /\ h.length = h.pn_len + h.body
    /\ h.form = "Long" => h.len_size = EncodedLen(h.length)
    /\ h.pn_len + h.body >= 4 + SampleLen
    /\ h.type = "Initial" => PacketLen(h) >= MinInitialSize

\* What RFC 9000 lets another implementation do.
ForeignOK(h) ==
    /\ (h.form = "Long" /\ h.type \in LongType) \/ (h.form = "Short" /\ h.type = "OneRtt")
    /\ h.dcid \in Nat /\ h.scid \in Nat /\ h.token \in Nat /\ h.extra \in Int
    /\ h.pn_len \in {1, 4} /\ h.bits = h.pn_len - 1
    /\ h.body \in Nat /\ h.length = h.pn_len + h.body
    /\ h.token_size \in Sizes(h.token) /\ h.len_size \in Sizes(h.length)
    /\ h.type # "Initial" => h.token = 0 /\ h.token_size = 1

\* Header protection is as Protect leaves it.
Sealed(p) ==
    /\ p.mask \in Masks(p.header.form)
    /\ p.low = Xor([reserved |-> 0, key_phase |-> 0, pn_len |-> p.header.bits], p.mask)
    /\ p.masked = Covered(p.header.bits, p.header.pn_len)
    /\ p.header.foreign \in BOOLEAN
    /\ IF p.header.foreign THEN ForeignOK(p.header) ELSE OwnOK(p.header)

\* What an encoder of deerquic writes with the right Length field.
LEMMA OwnPacket ==
    ASSUME NEW form \in Form, NEW type \in {"Initial", "ZeroRtt", "Handshake", "OneRtt"},
           form = "Short" <=> type = "OneRtt",
           NEW pn_len \in PnLen, NEW payload \in Nat, pn_len + payload >= 4,
           NEW len_size, form = "Long" => len_size = EncodedLen(pn_len + payload + TagLen),
           type = "Initial" => 24 + len_size + pn_len + payload + TagLen >= MinInitialSize
    PROVE  /\ OwnOK(Own(form, type, payload, pn_len, len_size))
           /\ Own(form, type, payload, pn_len, len_size).foreign = FALSE
<1> DEFINE h == Own(form, type, payload, pn_len, len_size)
<1>1. /\ h.form = form /\ h.type = type /\ h.dcid = CidLen /\ h.scid = CidLen
      /\ h.token_size = EncodedLen(0) /\ h.token = 0 /\ h.extra = 0 /\ h.pn_len = pn_len
      /\ h.bits = PnLenBits(form, pn_len) /\ h.body = payload + TagLen
      /\ h.length = pn_len + payload + TagLen /\ h.len_size = len_size /\ h.foreign = FALSE
  BY DEF Own
<1> HIDE DEF h
<1>2. EncodedLen(0) = 1 BY EncodedLenFacts
<1>3. pn_len \in Nat BY DEF PnLen
<1>4. h.body \in Nat /\ h.length = h.pn_len + h.body /\ h.pn_len + h.body >= 4 + SampleLen
  BY <1>1, <1>3 DEF TagLen, SampleLen
<1>5. type = "Initial" => PacketLen(h) >= MinInitialSize
  <2> SUFFICES ASSUME type = "Initial" PROVE PacketLen(h) >= MinInitialSize
    OBVIOUS
  <2>1. form = "Long" BY DEF Form
  <2>2. len_size \in Nat
    <3>1. pn_len + payload + TagLen \in Nat BY <1>3 DEF TagLen
    <3> QED BY <2>1, <3>1, EncodedLenFacts
  <2>3. PnOffset(h) = 24 + len_size
    BY <1>1, <1>2, <2>1, <2>2 DEF PnOffset, LongPrefix, CidLen
  <2> QED BY <1>1, <1>3, <2>2, <2>3 DEF PacketLen, TagLen
<1>6. OwnOK(h) BY <1>1, <1>2, <1>4, <1>5 DEF OwnOK
<1> QED BY <1>1, <1>6 DEF h

\* Padding from the estimate is enough: the Length field is never shorter in the
\* end than it was in the estimate.
LEMMA PadInitialEnough ==
    ASSUME NEW frames \in Nat, NEW pn_len \in PnLen, NEW payload \in Nat,
           payload >= PadInitial(frames, pn_len)
    PROVE  /\ payload >= 1000
           /\ 24 + EncodedLen(pn_len + payload + TagLen) + pn_len + payload + TagLen >= MinInitialSize
<1> DEFINE est == EncodedLen(frames + pn_len + TagLen)
           len == EncodedLen(pn_len + payload + TagLen)
<1>1. pn_len \in Nat /\ TagLen = 16 /\ MinInitialSize = 1200 /\ pn_len >= 1
  BY DEF PnLen, TagLen, MinInitialSize
<1>2. HdrSizeLong(CidLen, CidLen, frames + pn_len + TagLen) = 24 + est
  <2>1. est \in Nat BY <1>1, EncodedLenFacts
  <2> QED BY <2>1 DEF HdrSizeLong, CidLen
<1>3. payload >= frames /\ payload >= 1200 - (24 + est + 16)
  <2>1. est \in Nat BY <1>1, EncodedLenFacts
  <2> QED BY <1>1, <1>2, <2>1 DEF PadInitial, AtLeast
<1>4. frames + pn_len + TagLen <= pn_len + payload + TagLen
  BY <1>1, <1>3
<1>5. est \in {1, 2, 4, 8} /\ len \in {1, 2, 4, 8} /\ est <= len
  BY <1>1, <1>4, EncodedLenFacts
<1> HIDE DEF est, len
<1>6. 24 + len + pn_len + payload + 16 >= 1200
  BY <1>1, <1>3, <1>5
<1> QED BY <1>1, <1>3, <1>5, <1>6 DEF len

\* encrypt_packet builds a packet that can be found again, of any type.
LEMMA EncryptPacketOwn ==
    ASSUME NEW type \in {"Initial", "ZeroRtt", "Handshake", "OneRtt"},
           NEW frames \in Nat, NEW pn_len \in PnLen
    PROVE  LET h == EncryptPacket(type, frames, pn_len)
           IN  OwnOK(h) /\ h.foreign = FALSE
<1> DEFINE padded == IF type = "Initial" THEN PadInitial(frames, pn_len) ELSE frames
           payload == PadSample(padded, pn_len)
<1>1. pn_len \in Nat /\ pn_len >= 1 /\ pn_len <= 4 BY DEF PnLen
<1>2. PadInitial(frames, pn_len) \in Int
  <2>1. EncodedLen(frames + pn_len + TagLen) \in Nat BY <1>1, EncodedLenFacts DEF TagLen
  <2> QED BY <2>1 DEF PadInitial, AtLeast, HdrSizeLong, MinInitialSize, TagLen, CidLen
<1>3. padded \in Int BY <1>2
<1>4. payload \in Nat /\ payload >= padded /\ pn_len + payload >= 20
  <2> HIDE DEF padded
  <2> QED BY <1>1, <1>3 DEF PadSample, AtLeast, SampleLen
<1>5. CASE type = "OneRtt"
  <2>1. EncryptPacket(type, frames, pn_len) = Own("Short", "OneRtt", payload, pn_len, 0)
    BY <1>5 DEF EncryptPacket, EncryptShort
  <2> HIDE DEF payload, padded
  <2>2. pn_len + payload >= 4 /\ "Short" \in Form BY <1>1, <1>4 DEF Form
  <2>3. OwnOK(Own("Short", "OneRtt", payload, pn_len, 0)) /\ Own("Short", "OneRtt", payload, pn_len, 0).foreign = FALSE
    BY <1>4, <2>2, OwnPacket
  <2> QED BY <2>1, <2>3
<1>6. CASE type # "OneRtt"
  <2>1. EncryptPacket(type, frames, pn_len) =
            Own("Long", type, payload, pn_len, EncodedLen(pn_len + payload + TagLen))
    BY <1>6 DEF EncryptPacket, EncryptLong
  <2>2. type = "Initial" => payload >= PadInitial(frames, pn_len)
    BY <1>4
  <2> HIDE DEF payload, padded
  <2>3. pn_len + payload >= 4 /\ "Long" \in Form BY <1>1, <1>4 DEF Form
  <2>4. type = "Initial" =>
            24 + EncodedLen(pn_len + payload + TagLen) + pn_len + payload + TagLen >= MinInitialSize
    BY <1>4, <2>2, PadInitialEnough
  <2>5. PICK size : size = EncodedLen(pn_len + payload + TagLen) OBVIOUS
  <2>6. OwnOK(Own("Long", type, payload, pn_len, size)) /\ Own("Long", type, payload, pn_len, size).foreign = FALSE
    BY <1>4, <1>6, <2>3, <2>4, <2>5, OwnPacket
  <2> QED BY <2>1, <2>5, <2>6
<1> QED BY <1>5, <1>6

\* So does build_initial_packet, which does not pad for the sample ...
LEMMA BuildInitialOwn ==
    ASSUME NEW frames \in Nat
    PROVE  OwnOK(BuildInitialPacket(frames)) /\ BuildInitialPacket(frames).foreign = FALSE
<1> DEFINE payload == PadInitial(frames, 1)
<1>1. 1 \in PnLen /\ "Long" \in Form BY DEF PnLen, Form
<1>2. payload \in Nat
  <2>1. EncodedLen(frames + 1 + TagLen) \in Nat BY EncodedLenFacts DEF TagLen
  <2> QED BY <2>1 DEF PadInitial, AtLeast, HdrSizeLong, MinInitialSize, TagLen, CidLen
<1>3. BuildInitialPacket(frames) = Own("Long", "Initial", payload, 1, EncodedLen(1 + payload + TagLen))
  BY DEF BuildInitialPacket, EncryptLong
<1>4. /\ payload >= 1000
      /\ 24 + EncodedLen(1 + payload + TagLen) + 1 + payload + TagLen >= MinInitialSize
  BY <1>1, <1>2, PadInitialEnough
<1> HIDE DEF payload
<1>5. PICK size : size = EncodedLen(1 + payload + TagLen) OBVIOUS
<1>6. OwnOK(Own("Long", "Initial", payload, 1, size)) /\ Own("Long", "Initial", payload, 1, size).foreign = FALSE
  <2>1. 1 + payload >= 4 BY <1>2, <1>4
  <2>2. 24 + size + 1 + payload + TagLen >= MinInitialSize BY <1>4, <1>5
  <2> QED BY <1>1, <1>2, <1>5, <2>1, <2>2, OwnPacket
<1> QED BY <1>3, <1>5, <1>6

\* ... and the builder of handshake.rs, whose Length field always has two bytes:
\* what it builds needs two.
LEMMA StandaloneOwn ==
    ASSUME NEW frames \in Nat, NEW h \in Standalone(frames)
    PROVE  OwnOK(h) /\ h.foreign = FALSE
<1> DEFINE payload == AtLeast(frames, 1200 - (27 + 16))
<1>1. 1 \in PnLen /\ "Long" \in Form BY DEF PnLen, Form
<1>2. payload \in Nat /\ payload >= 1157 BY DEF AtLeast
<1>3. h = Own("Long", "Initial", payload, 1, 2) /\ EncodedLen(h.length) <= 3
  BY DEF Standalone, StandaloneLenSize, CidLen, MinInitialSize, TagLen
<1> HIDE DEF payload
<1>4. h.length = 1 + payload + TagLen BY <1>3 DEF Own
<1>5. 1 + payload + TagLen \in Nat /\ 1 + payload + TagLen >= 64 BY <1>2 DEF TagLen
<1>6. EncodedLen(1 + payload + TagLen) = 2
  BY <1>3, <1>4, <1>5, EncodedLenFacts
<1>7. 24 + 2 + 1 + payload + TagLen >= MinInitialSize /\ 1 + payload >= 4
  BY <1>2 DEF TagLen, MinInitialSize
<1>8. PICK size : size = EncodedLen(1 + payload + TagLen) OBVIOUS
<1>9. OwnOK(Own("Long", "Initial", payload, 1, size)) /\ Own("Long", "Initial", payload, 1, size).foreign = FALSE
  <2>1. 24 + size + 1 + payload + TagLen >= MinInitialSize BY <1>6, <1>7, <1>8
  <2> QED BY <1>1, <1>2, <1>7, <1>8, <2>1, OwnPacket
<1> QED BY <1>3, <1>6, <1>8, <1>9

-----------------------------------------------------------------------------
\* The packet number length that is read, and the bytes of the packet number
\* that come out wrong.
LenRead(p) == PnLenRead(p.header.form, Xor(p.low, p.mask).pn_len)
Garbled(p) ==
    {i \in 1..LenRead(p) : i \in p.masked <=> i \notin Covered(Xor(p.low, p.mask).pn_len, 4)}

\* What ingest makes of a packet.
Judged(p, o) ==
    \/ ~Accepted(p) /\ o.result = "refused"
    \/ /\ Accepted(p) /\ ~SampleFits(p.header)
       /\ o.result = IF p.header.form = "Long" THEN "failed" ELSE "panic"
    \/ /\ Accepted(p) /\ SampleFits(p.header)
       /\ o.result = IF Authentic(p.header, LenRead(p)) /\ Garbled(p) = {}
                     THEN "opened" ELSE "failed"
       /\ o.len = LenRead(p) /\ o.garbled = Garbled(p)

\* There is one packet, sealed as one of the builders does, and one outcome,
\* which is that of this packet.
HeaderInv ==
    /\ \A p \in packet : Sealed(p)
    /\ \A p \in packet, o \in outcome : Judged(p, o)
    /\ \A p, q \in packet : p = q
    /\ packet = {} => outcome = {}

\* Without the mask, the bits are those of the sender.
LEMMA Unmasked ==
    ASSUME NEW p, Sealed(p)
    PROVE  /\ Xor(p.low, p.mask).pn_len = p.header.bits
           /\ p.low.pn_len \in 0..3 /\ p.header.bits \in 0..3
<1>1. p.mask.pn_len \in 0..3 BY DEF Sealed, Masks, LowBits
<1>2. p.header.bits \in 0..3
  <2>1. CASE p.header.foreign = TRUE BY <2>1 DEF Sealed, ForeignOK
  <2>2. CASE p.header.foreign = FALSE BY <2>2 DEF Sealed, OwnOK, PnLen, PnLenBits, Form
  <2> QED BY <2>1, <2>2 DEF Sealed
<1>3. p.low.pn_len = Xor2(p.header.bits, p.mask.pn_len) BY DEF Sealed, Xor
<1>4. Xor(p.low, p.mask).pn_len = Xor2(p.low.pn_len, p.mask.pn_len) BY DEF Xor
<1> QED BY <1>1, <1>2, <1>3, <1>4, Xor2Twice

\* deerquic finds the packet number of its own packets and reads it as it was
\* written, although a short header of its own is not one of RFC 9000.
LEMMA OwnOpens ==
    ASSUME NEW p, Sealed(p), p.header.foreign = FALSE
    PROVE  /\ SampleFits(p.header)
           /\ Authentic(p.header, LenRead(p)) /\ LenRead(p) = p.header.pn_len
           /\ Garbled(p) = {}
           /\ p.header.form = "Long" => Accepted(p)
<1> DEFINE h == p.header
           bits == Xor(p.low, p.mask).pn_len
<1>1. OwnOK(h) /\ p.masked = Covered(h.bits, h.pn_len) BY DEF Sealed
<1>2. bits = h.bits /\ p.low.pn_len \in 0..3 BY Unmasked
<1>3. h.pn_len \in {1, 2, 4} /\ h.form \in {"Long", "Short"} /\ h.bits = PnLenBits(h.form, h.pn_len)
  BY <1>1 DEF OwnOK, PnLen, Form
<1>4. LenRead(p) = h.pn_len
  BY <1>2, <1>3 DEF LenRead, PnLenRead, PnLenBits
<1>5. Garbled(p) = {}
  <2> SUFFICES ASSUME NEW i \in 1..h.pn_len,
                      i \in Covered(h.bits, h.pn_len) <=> i \notin Covered(h.bits, 4)
               PROVE  FALSE
    BY <1>1, <1>2, <1>4 DEF Garbled
  <2>1. h.bits \in Int BY <1>3 DEF PnLenBits
  <2>2. i \in 1..4 BY <1>3
  <2> QED BY <2>1, <2>2 DEF Covered
<1>6. HdrPnOffset(h) = PnOffset(h) /\ PnOffset(h) \in Nat /\ PnOffset(h) >= 9
  <2>1. CASE h.form = "Short" BY <1>1, <2>1 DEF OwnOK, HdrPnOffset, PnOffset, CidLen
  <2>2. CASE h.form = "Long"
    <3>1. EncodedLen(h.length) \in Nat
      <4>1. h.length \in Nat BY <1>1, <1>3 DEF OwnOK
      <4> QED BY <4>1, EncodedLenFacts
    <3> QED BY <1>1, <2>2, <3>1 DEF OwnOK, HdrPnOffset, PnOffset, LongPrefix, CidLen
  <2> QED BY <1>3, <2>1, <2>2
<1>7. Authentic(h, LenRead(p)) BY <1>1, <1>4, <1>6 DEF Authentic, SameKeys, OwnOK
<1>8. DatagramLen(h) >= PnOffset(h) + 20
  <2>1. h.pn_len + h.body >= 20 /\ h.body \in Nat /\ h.extra = 0 /\ h.pn_len \in Nat
    BY <1>1, <1>3 DEF OwnOK, SampleLen
  <2> QED BY <1>6, <2>1 DEF DatagramLen, PacketLen
<1>9. DatagramLen(h) \in Int
  BY <1>1, <1>3, <1>6 DEF DatagramLen, PacketLen, OwnOK
<1>10. SampleFits(h) BY <1>6, <1>8, <1>9 DEF SampleFits, SampleLen
<1>11. h.form = "Long" => Accepted(p)
  <2> SUFFICES ASSUME h.form = "Long" PROVE Accepted(p)
    OBVIOUS
  <2>1. h.type \in {"Initial", "ZeroRtt", "Handshake"} /\ h.dcid = 8 /\ h.scid = 8
    BY <1>1 DEF OwnOK, CidLen
  <2>2. ParserAccepts(h.form, p.low) BY DEF ParserAccepts
  <2>3. DatagramLen(h) >= PnOffset(h) + p.low.pn_len + 1 BY <1>2, <1>6, <1>8, <1>9
  <2> QED BY <2>1, <2>2, <2>3 DEF Accepted, Parses, MaxCidLen
<1> QED BY <1>4, <1>5, <1>7, <1>10, <1>11

\* The packets of other implementations that deerquic finds its way through.
Plain(h) ==
    /\ h.type \in {"Initial", "Handshake"}
    /\ h.dcid <= MaxCidLen /\ h.scid <= MaxCidLen
    /\ h.token = 0 /\ h.token_size = 1 /\ h.len_size = EncodedLen(h.length)
    /\ h.extra = 0
    /\ h.pn_len + h.body >= 4 + SampleLen

\* Those, and no others, are opened.
LEMMA ForeignOpens ==
    ASSUME NEW p, Sealed(p), p.header.foreign = TRUE
    PROVE  /\ Accepted(p) /\ SampleFits(p.header)
           /\ Authentic(p.header, LenRead(p)) /\ Garbled(p) = {}
           <=> Plain(p.header)
<1> DEFINE h == p.header
           bits == Xor(p.low, p.mask).pn_len
<1>1. ForeignOK(h) /\ p.masked = Covered(h.bits, h.pn_len) BY DEF Sealed
<1>2. bits = h.bits /\ p.low.pn_len \in 0..3 BY Unmasked
<1>3. h.pn_len \in {1, 4} /\ h.bits = h.pn_len - 1 BY <1>1 DEF ForeignOK
<1>4. CASE h.form = "Short"
  <2>1. h.type = "OneRtt" BY <1>1, <1>4 DEF ForeignOK
  <2>2. ~Plain(h) BY <2>1 DEF Plain
  <2>3. LenRead(p) # h.pn_len BY <1>2, <1>3, <1>4 DEF LenRead, PnLenRead
  <2>4. ~Authentic(h, LenRead(p)) BY <2>3 DEF Authentic
  <2> QED BY <2>2, <2>4
<1>5. CASE h.form = "Long"
  <2>1. h.type \in LongType BY <1>1, <1>5 DEF ForeignOK
  <2>2. LenRead(p) = h.pn_len BY <1>2, <1>3, <1>5 DEF LenRead, PnLenRead
  <2>3. Garbled(p) = {}
    <3> SUFFICES ASSUME NEW i \in 1..h.pn_len,
                        i \in Covered(h.bits, h.pn_len) <=> i \notin Covered(h.bits, 4)
                 PROVE  FALSE
      BY <1>1, <1>2, <2>2 DEF Garbled
    <3>1. h.bits \in Int /\ i \in 1..4 BY <1>3
    <3> QED BY <3>1 DEF Covered
  <2>4. /\ h.dcid \in Nat /\ h.scid \in Nat /\ h.token \in Nat /\ h.body \in Nat /\ h.extra \in Int
        /\ h.pn_len \in Nat /\ h.length \in Nat
        /\ h.type # "Initial" => h.token = 0 /\ h.token_size = 1
    BY <1>1, <1>3 DEF ForeignOK
  <2>5. /\ h.token_size \in {1, 2, 4, 8} /\ h.len_size \in {1, 2, 4, 8}
        /\ h.len_size >= EncodedLen(h.length) /\ EncodedLen(h.length) \in {1, 2, 4, 8}
    BY <1>1, <2>4, EncodedLenFacts DEF ForeignOK, Sizes
  <2>6. HdrPnOffset(h) = PnOffset(h) <=> h.token = 0 /\ h.token_size = 1 /\ h.len_size = EncodedLen(h.length)
    <3>1. CASE h.type = "Initial"
      BY <1>5, <2>4, <2>5, <3>1 DEF HdrPnOffset, PnOffset, LongPrefix
    <3>2. CASE h.type # "Initial"
      BY <1>5, <2>4, <2>5, <3>2 DEF HdrPnOffset, PnOffset, LongPrefix
    <3> QED BY <3>1, <3>2
  <2>7. PnOffset(h) \in Nat /\ PnOffset(h) >= 1
    BY <1>5, <2>4, <2>5 DEF PnOffset, LongPrefix
  <2>8. h.extra = 0 => DatagramLen(h) = PnOffset(h) + h.pn_len + h.body
    BY <2>4, <2>7 DEF DatagramLen, PacketLen
  <2>9. ASSUME Plain(h) PROVE Accepted(p) /\ SampleFits(h) /\ Authentic(h, LenRead(p))
    <3>1. HdrPnOffset(h) = PnOffset(h) /\ h.extra = 0 /\ h.pn_len + h.body >= 20
      BY <2>6, <2>9 DEF Plain, SampleLen
    <3>2. DatagramLen(h) >= PnOffset(h) + 20 /\ DatagramLen(h) \in Nat
      BY <2>4, <2>7, <2>8, <3>1
    <3>3. DatagramLen(h) >= PnOffset(h) + p.low.pn_len + 1 BY <1>2, <2>7, <3>2
    <3>4. ParserAccepts(h.form, p.low) BY <1>5 DEF ParserAccepts
    <3>5. Accepted(p) BY <1>5, <2>9, <3>3, <3>4 DEF Accepted, Parses, Plain
    <3>6. SampleFits(h) BY <2>7, <3>1, <3>2 DEF SampleFits, SampleLen
    <3>7. SameKeys(h) BY <2>9 DEF SameKeys, Plain
    <3> QED BY <2>2, <3>1, <3>5, <3>6, <3>7 DEF Authentic
  <2>10. ASSUME Accepted(p), SampleFits(h), Authentic(h, LenRead(p)) PROVE Plain(h)
    <3>1. HdrPnOffset(h) = PnOffset(h) /\ h.extra = 0 BY <2>10 DEF Authentic
    <3>2. h.dcid <= MaxCidLen /\ h.scid <= MaxCidLen /\ h.type \in {"Initial", "Handshake"}
      BY <2>1, <2>10 DEF Accepted, Parses, LongType, Authentic, SameKeys
    <3>3. PnOffset(h) + 4 + SampleLen <= PnOffset(h) + h.pn_len + h.body
      BY <2>8, <2>10, <3>1 DEF SampleFits
    <3>4. h.pn_len + h.body >= 4 + SampleLen BY <2>4, <2>7, <3>3 DEF SampleLen
    <3> QED BY <2>6, <3>1, <3>2, <3>4 DEF Plain
  <2> QED BY <2>3, <2>9, <2>10
<1>6. h.form \in {"Long", "Short"} BY <1>1 DEF ForeignOK
<1> QED BY <1>4, <1>5, <1>6

\* A packet of any builder is sealed as one.
LEMMA ProtectSeals ==
    ASSUME NEW h, NEW mask \in Masks(h.form), Protect(h, mask), h.foreign \in BOOLEAN,
           IF h.foreign THEN ForeignOK(h) ELSE OwnOK(h)
    PROVE  /\ \A p \in packet' : Sealed(p)
           /\ \A p, q \in packet' : p = q
           /\ packet' # {} /\ outcome' = outcome
  BY DEF Protect, Sealed

\* Whatever is sent is sealed.
LEMMA SendSeals ==
    ASSUME Send
    PROVE  /\ \A p \in packet' : Sealed(p)
           /\ \A p, q \in packet' : p = q
           /\ packet' # {} /\ outcome' = outcome
<1> DEFINE Goal == /\ \A p \in packet' : Sealed(p)
                   /\ \A p, q \in packet' : p = q
                   /\ packet' # {} /\ outcome' = outcome
<1>0. Frames \subseteq Nat BY HeaderAssumption
<1>1. ASSUME NEW type \in {"Initial", "ZeroRtt", "Handshake", "OneRtt"}, NEW frames \in Frames,
             NEW pn_len \in PnLen, Egest(type, frames, pn_len)
      PROVE  Goal
  <2> DEFINE h == EncryptPacket(type, frames, pn_len)
  <2>1. OwnOK(h) /\ h.foreign = FALSE BY <1>0, EncryptPacketOwn
  <2>2. PICK mask \in Masks(h.form) : Protect(h, mask) BY <1>1 DEF Egest
  <2> HIDE DEF h
  <2> QED BY <2>1, <2>2, ProtectSeals
<1>2. ASSUME NEW frames \in Frames, Connect(frames) PROVE Goal
  <2> DEFINE h == BuildInitialPacket(frames)
  <2>1. OwnOK(h) /\ h.foreign = FALSE BY <1>0, BuildInitialOwn
  <2>2. h.form = "Long" BY DEF BuildInitialPacket, EncryptLong, Own
  <2>3. PICK mask \in Masks("Long") : Protect(h, mask) BY <1>2 DEF Connect
  <2> HIDE DEF h
  <2> QED BY <2>1, <2>2, <2>3, ProtectSeals
<1>3. ASSUME NEW frames \in Frames, ClientInitial(frames) PROVE Goal
  <2>1. PICK h \in Standalone(frames), mask \in Masks("Long") : Protect(h, mask)
    BY <1>3 DEF ClientInitial
  <2>2. OwnOK(h) /\ h.foreign = FALSE BY <1>0, StandaloneOwn
  <2>3. h.form = "Long" BY DEF Standalone, Own
  <2> QED BY <2>1, <2>2, <2>3, ProtectSeals
<1>4. ASSUME NEW form, NEW type, Foreign(form, type),
             (form = "Long" /\ type \in LongType) \/ (form = "Short" /\ type = "OneRtt")
      PROVE  Goal
  <2> DEFINE Header(dcid, scid, token, pn_len, body, extra, token_size, len_size) ==
                 [ foreign |-> TRUE, form |-> form, type |-> type, dcid |-> dcid, scid |-> scid,
                   token_size |-> token_size, token |-> token, length |-> pn_len + body,
                   len_size |-> len_size, pn_len |-> pn_len, bits |-> pn_len - 1,
                   body |-> body, extra |-> extra ]
  <2>0. PICK dcid \in ForeignCids, scid \in ForeignCids, token \in Tokens, pn_len \in {1, 4},
             body \in Bodies, extra \in Extras, mask \in Masks(form) :
            \E token_size \in Sizes(token), len_size \in Sizes(pn_len + body) :
                /\ type # "Initial" => token = 0 /\ token_size = 1
                /\ type \in {"Retry", "VersionNegotiation", "OneRtt"} =>
                       len_size = EncodedLen(pn_len + body)
                /\ Protect(Header(dcid, scid, token, pn_len, body, extra, token_size, len_size), mask)
    BY <1>4 DEF Foreign
  <2>1. PICK token_size \in Sizes(token), len_size \in Sizes(pn_len + body) :
                /\ type # "Initial" => token = 0 /\ token_size = 1
                /\ type \in {"Retry", "VersionNegotiation", "OneRtt"} =>
                       len_size = EncodedLen(pn_len + body)
                /\ Protect(Header(dcid, scid, token, pn_len, body, extra, token_size, len_size), mask)
    BY <2>0
  <2> DEFINE h == Header(dcid, scid, token, pn_len, body, extra, token_size, len_size)
  <2>2. /\ dcid \in Nat /\ scid \in Nat /\ token \in Nat /\ body \in Nat /\ extra \in Int
    BY HeaderAssumption
  <2>3. ForeignOK(h) BY <1>4, <2>1, <2>2 DEF ForeignOK
  <2>4. h.form = form /\ h.foreign = TRUE OBVIOUS
  <2>5. Protect(h, mask) BY <2>1
  <2> HIDE DEF h
  <2> QED BY <2>3, <2>4, <2>5, ProtectSeals
<1> QED BY <1>1, <1>2, <1>3, <1>4 DEF Send

\* Every packet and every verdict is as the invariant says.
LEMMA HeaderInvariant == Spec => []HeaderInv
<1>1. Init => HeaderInv BY DEF Init, HeaderInv
<1>2. HeaderInv /\ [Next]_vars => HeaderInv'
  <2> SUFFICES ASSUME HeaderInv, [Next]_vars PROVE HeaderInv'
    OBVIOUS
  <2>1. CASE packet = {} /\ Send
    <3>1. outcome' = {} BY <2>1, SendSeals DEF HeaderInv
    <3> QED BY <2>1, <3>1, SendSeals DEF HeaderInv
  <2>2. ASSUME outcome = {}, NEW p \in packet, Refuse(p) \/ NoSample(p) \/ Decrypt(p)
        PROVE  HeaderInv'
    <3>1. packet' = packet /\ \A q \in packet : q = p
      BY <2>2 DEF Refuse, NoSample, Decrypt, Result, HeaderInv
    <3>2. \A o \in outcome' : Judged(p, o)
      <4>1. CASE Refuse(p) BY <4>1 DEF Refuse, Result, Judged, Accepted
      <4>2. CASE NoSample(p) BY <4>2 DEF NoSample, Result, Judged
      <4>3. CASE Decrypt(p) BY <4>3 DEF Decrypt, Result, Judged, LenRead, Garbled
      <4> QED BY <2>2, <4>1, <4>2, <4>3
    <3> QED BY <3>1, <3>2 DEF HeaderInv
  <2>3. CASE UNCHANGED vars BY <2>3 DEF vars, HeaderInv
  <2> QED BY <2>1, <2>2, <2>3 DEF Next
<1> QED BY <1>1, <1>2, PTL DEF Spec

-----------------------------------------------------------------------------
\* A packet of deerquic that gets past the parser opens, however long its frames
\* are and whatever the mask.
THEOREM OpenedTheorem == Spec => []OpenedAsSealed
<1>1. HeaderInv => OpenedAsSealed
  <2> SUFFICES ASSUME HeaderInv, NEW p \in packet, NEW o \in outcome,
                      ~p.header.foreign, o.result # "refused"
               PROVE  o.result = "opened" /\ o.len = p.header.pn_len /\ o.garbled = {}
    BY DEF OpenedAsSealed
  <2>1. Sealed(p) /\ Judged(p, o) BY DEF HeaderInv
  <2>2. p.header.foreign = FALSE BY <2>1 DEF Sealed
  <2> QED BY <2>1, <2>2, OwnOpens DEF Judged
<1> QED BY <1>1, HeaderInvariant, PTL

\* No mask makes the parser refuse a long header of deerquic, of any length.
THEOREM LongTheorem == Spec => []LongNeverRejected
<1>1. HeaderInv => LongNeverRejected
  <2> SUFFICES ASSUME HeaderInv, NEW p \in packet, NEW o \in outcome,
                      ~p.header.foreign, p.header.form = "Long"
               PROVE  o.result # "refused"
    BY DEF LongNeverRejected
  <2>1. Sealed(p) /\ Judged(p, o) BY DEF HeaderInv
  <2>2. p.header.foreign = FALSE BY <2>1 DEF Sealed
  <2> QED BY <2>1, <2>2, OwnOpens DEF Judged
<1> QED BY <1>1, HeaderInvariant, PTL

\* Exactly the plain packets of other implementations open, whatever the lengths
\* of their connection ids, tokens and bodies and wherever the datagram is cut.
THEOREM ForeignTheorem == Spec => []ForeignOpensIff
<1>1. HeaderInv => ForeignOpensIff
  <2> SUFFICES ASSUME HeaderInv, NEW p \in packet, NEW o \in outcome, p.header.foreign
               PROVE  o.result = "opened" <=> Plain(p.header)
    BY DEF ForeignOpensIff, Plain
  <2>1. Sealed(p) /\ Judged(p, o) BY DEF HeaderInv
  <2>2. p.header.foreign = TRUE BY <2>1 DEF Sealed
  <2> QED BY <2>1, <2>2, ForeignOpens DEF Judged
<1> QED BY <1>1, HeaderInvariant, PTL

\* No packet of deerquic and no long header leads to a slice out of bounds.
THEOREM SampleTheorem == Spec => []SampleInBounds
<1>1. HeaderInv => SampleInBounds
  <2> SUFFICES ASSUME HeaderInv PROVE SampleInBounds
    OBVIOUS
  <2>1. ASSUME NEW p \in packet, ~p.header.foreign
        PROVE  4 - p.header.pn_len + SampleLen <= p.header.body
    <3>1. OwnOK(p.header) BY <2>1 DEF HeaderInv, Sealed
    <3> QED BY <3>1 DEF OwnOK, PnLen, SampleLen
  <2>2. ASSUME NEW p \in packet, NEW o \in outcome, o.result = "panic"
        PROVE  p.header.foreign /\ p.header.form = "Short"
    <3>1. Sealed(p) /\ Judged(p, o) BY DEF HeaderInv
    <3>2. ~SampleFits(p.header) /\ p.header.form # "Long" BY <2>2, <3>1 DEF Judged
    <3>3. p.header.foreign = TRUE BY <3>1, <3>2, OwnOpens DEF Sealed
    <3> QED BY <3>1, <3>2, <3>3 DEF Sealed, ForeignOK
  <2> QED BY <2>1, <2>2 DEF SampleInBounds
<1> QED BY <1>1, HeaderInvariant, PTL

\* Every Initial packet fills a datagram of 1200 bytes, whatever it carries.
THEOREM DatagramTheorem == Spec => []InitialFillsDatagram
<1>1. HeaderInv => InitialFillsDatagram
  <2> SUFFICES ASSUME HeaderInv, NEW p \in packet, ~p.header.foreign, p.header.type = "Initial"
               PROVE  DatagramLen(p.header) >= MinInitialSize
    BY DEF InitialFillsDatagram
  <2>1. OwnOK(p.header) BY DEF HeaderInv, Sealed
  <2>2. PacketLen(p.header) >= 1200 /\ p.header.extra = 0
    BY <2>1 DEF OwnOK, MinInitialSize
  <2>3. PacketLen(p.header) \in Int
    <3>1. p.header.form = "Long" /\ p.header.length \in Nat BY <2>1 DEF OwnOK, Form, PnLen
    <3>2. p.header.len_size \in Nat BY <2>1, <3>1, EncodedLenFacts DEF OwnOK
    <3> QED BY <2>1, <3>1, <3>2 DEF OwnOK, PacketLen, PnOffset, LongPrefix, CidLen, PnLen
  <2> QED BY <2>2, <2>3 DEF DatagramLen, MinInitialSize
<1> QED BY <1>1, HeaderInvariant, PTL
=============================================================================
