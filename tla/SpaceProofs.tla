----------------------------- MODULE SpaceProofs -----------------------------
(***************************************************************************)
(* Packet number coding and the operations of a packet number space, for   *)
(* every radix: lemmas that the proofs about the modules using Space cite. *)
(***************************************************************************)
EXTENDS Space, TLAPS

\* A window is an even number of values, so that "half" is exact, and half a
\* window holds at least two values.
LEMMA WinFacts ==
    ASSUME NEW len \in PnLengths
    PROVE  /\ Win(len) \in Nat
           /\ HalfWin(len) \in Nat
           /\ Win(len) = 2 * HalfWin(len)
           /\ HalfWin(len) >= 2
<1> DEFINE h == Radix \div 2
<1>1. h \in Nat /\ Radix = 2 * h /\ h >= 2 /\ Radix \in Nat
  BY RadixAssumption
<1> HIDE DEF h
<1>2. ASSUME NEW w \in Nat, w >= 1
      PROVE  /\ 2 * (h * w) \in Nat
             /\ (2 * (h * w)) \div 2 = h * w
             /\ h * w >= 2
             /\ Radix * w = 2 * (h * w)
             /\ Radix * w >= 1
  <2>1. h * w \in Nat BY <1>1, <1>2
  <2>2. h * w >= 2 BY <1>1, <1>2
  <2>3. Radix * w = 2 * (h * w) BY <1>1, <1>2
  <2>4. ASSUME NEW m \in Nat PROVE (2 * m) \div 2 = m
    OBVIOUS
  <2> QED BY <2>1, <2>2, <2>3, <2>4
<1>3. CASE len = 1
  BY <1>1, <1>2, <1>3 DEF Win, HalfWin
<1>4. CASE len = 2
  BY <1>1, <1>2, <1>4 DEF Win, HalfWin
<1>5. /\ Radix * Radix \in Nat
      /\ Radix * Radix >= 1
      /\ Radix * Radix * Radix \in Nat
      /\ Radix * Radix * Radix >= 1
      /\ Radix * Radix * Radix = Radix * (Radix * Radix)
      /\ Radix * Radix * Radix * Radix = Radix * (Radix * Radix * Radix)
  BY <1>1, <1>2
<1>6. CASE len = 3
  BY <1>1, <1>2, <1>5, <1>6 DEF Win, HalfWin
<1>7. CASE len = 4
  BY <1>1, <1>2, <1>5, <1>7 DEF Win, HalfWin
<1> QED BY <1>3, <1>4, <1>6, <1>7 DEF PnLengths

\* The number of bytes encoded_pn_len chooses holds the whole packet number, as
\* long as four bytes do: the truncated value is the packet number itself.
LEMMA EncodedPnLenHolds ==
    ASSUME NEW pn \in Nat, pn < Win(4)
    PROVE  /\ EncodedPnLen(pn) \in PnLengths
           /\ pn < Win(EncodedPnLen(pn))
           /\ Truncate(pn, EncodedPnLen(pn)) = pn
<1>1. EncodedPnLen(pn) \in PnLengths /\ pn < Win(EncodedPnLen(pn))
  BY DEF EncodedPnLen, PnLengths
<1>2. ASSUME NEW w \in Nat, pn < w PROVE pn % w = pn
  BY <1>2
<1> QED BY <1>1, <1>2, WinFacts DEF Truncate

\* The window that holds a number starts at a multiple of its size.
LEMMA WindowStart ==
    ASSUME NEW e \in Nat, NEW w \in Nat, w > 0
    PROVE  /\ w * (e \div w) \in Nat
           /\ w * (e \div w) <= e
           /\ e < w * (e \div w) + w
           /\ e < w => w * (e \div w) = 0
           /\ w <= e /\ e < 2 * w => w * (e \div w) = w
           /\ 2 * w <= e => w * (e \div w) >= 2 * w
<1> DEFINE q == e \div w
<1>1. q \in Nat /\ e = w * q + (e % w) /\ e % w \in 0..(w - 1)
  OBVIOUS
<1> HIDE DEF q
<1>2. w * q \in Nat /\ w * q <= e /\ e < w * q + w
  BY <1>1
<1>3. CASE q = 0
  BY <1>1, <1>2, <1>3 DEF q
<1>4. CASE q = 1
  BY <1>1, <1>2, <1>4 DEF q
<1>5. CASE q >= 2
  <2>1. w * q >= 2 * w BY <1>1, <1>5
  <2> QED BY <1>1, <1>2, <2>1 DEF q
<1> QED BY <1>1, <1>3, <1>4, <1>5

\* decode_packet_number against what encoded_pn_len and write_pn put on the
\* wire: the packet number comes back exactly when it is less than half a
\* window behind the next expected number.
THEOREM DecodeWindow ==
    ASSUME NEW largest \in Nat, NEW pn \in Nat, pn < Win(4)
    PROVE  ShortPn(largest, pn) = pn <=> largest + 1 < pn + HalfWin(EncodedPnLen(pn))
<1> DEFINE len == EncodedPnLen(pn)
           w == Win(len)
           hf == HalfWin(len)
           e == largest + 1
           start == w * (e \div w)
<1>1. /\ w \in Nat /\ hf \in Nat /\ w = 2 * hf /\ hf >= 2
      /\ pn < w /\ Truncate(pn, len) = pn
  BY WinFacts, EncodedPnLenHolds
<1>2. /\ start \in Nat /\ start <= e /\ e < start + w
      /\ e < w => start = 0
      /\ w <= e /\ e < 2 * w => start = w
      /\ 2 * w <= e => start >= 2 * w
  <2>1. e \in Nat /\ w \in Nat /\ w > 0
    BY <1>1
  <2> HIDE DEF e, w
  <2> QED BY <2>1, WindowStart
<1>3. ShortPn(largest, pn) =
          IF start + pn + hf <= e
          THEN start + pn + w
          ELSE IF start + pn > e + hf /\ start + pn > w
               THEN start + pn - w
               ELSE start + pn
  BY <1>1 DEF ShortPn, DecodePacketNumber, DecodeNear
<1> HIDE DEF start, w, hf, len
<1> QED BY <1>1, <1>2, <1>3 DEF len, hf

\* Long header packets are decoded against 0 and come back exact, whatever was
\* received before, for every number that four bytes hold.
THEOREM LongDecodesExactlyTheorem ==
    ASSUME NEW pn \in Nat, pn < Win(4)
    PROVE  LongPn(pn) = pn
<1>1. LongPn(pn) = ShortPn(0, pn)
  BY DEF LongPn, ShortPn
<1>2. HalfWin(EncodedPnLen(pn)) \in Nat /\ HalfWin(EncodedPnLen(pn)) >= 2
  BY WinFacts, EncodedPnLenHolds
<1> QED BY <1>1, <1>2, DecodeWindow

-----------------------------------------------------------------------------
\* The list has a largest entry, the one an ACK frame names. Any list of
\* numbers has one; the operations of a space are shown to keep it.
HasLargest(seq) ==
    seq # <<>> => \E i \in 1..Len(seq) : \A j \in 1..Len(seq) : seq[i] >= seq[j]

\* A list with a largest entry still has one when a number is appended.
LEMMA AppendHasLargest ==
    ASSUME NEW old \in Seq(Nat), NEW pn \in Nat, HasLargest(old)
    PROVE  HasLargest(Append(old, pn))
<1>1. PICK new : new = Append(old, pn)
  OBVIOUS
<1>2. PICK n \in Nat : n = Len(old)
  OBVIOUS
<1>3. /\ \A j \in 1..n : old[j] \in Nat /\ new[j] = old[j]
      /\ new[n + 1] = pn
      /\ Len(new) = n + 1
  BY <1>1, <1>2
<1>4. n > 0 => \E i \in 1..n : \A j \in 1..n : old[i] >= old[j]
  <2>1. n > 0 => old # <<>> BY <1>2
  <2> QED BY <1>2, <2>1 DEF HasLargest
<1>5. \A j \in 1..(n + 1) : j \in 1..n \/ j = n + 1
  OBVIOUS
<1>6. \E i \in 1..(n + 1) : \A j \in 1..(n + 1) : new[i] >= new[j]
  <2>1. CASE n = 0
    <3>1. \A j \in 1..(n + 1) : new[n + 1] >= new[j] BY <1>3, <1>5, <2>1
    <3> QED BY <3>1
  <2>2. CASE n > 0
    <3>1. PICK i \in 1..n : \A j \in 1..n : old[i] >= old[j]
      BY <1>4, <2>2
    <3>2. i \in 1..(n + 1) /\ old[i] \in Nat
      BY <1>3
    <3>3. CASE old[i] >= pn
      <4>1. \A j \in 1..(n + 1) : new[i] >= new[j] BY <1>3, <1>5, <3>1, <3>3
      <4> QED BY <3>2, <4>1
    <3>4. CASE ~(old[i] >= pn)
      <4>1. ASSUME NEW j \in 1..n PROVE new[n + 1] >= new[j]
        <5>1. old[j] \in Nat /\ old[i] >= old[j] /\ new[j] = old[j]
          BY <1>3, <3>1
        <5> QED BY <1>3, <3>2, <3>4, <5>1
      <4>2. new[n + 1] >= new[n + 1] BY <1>3
      <4>3. \A j \in 1..(n + 1) : new[n + 1] >= new[j]
        BY <1>5, <4>1, <4>2
      <4> QED BY <4>3
    <3> QED BY <3>3, <3>4
  <2> QED BY <2>1, <2>2
<1> QED BY <1>1, <1>3, <1>6 DEF HasLargest

\* A fresh space and the two sending operations keep a space well formed.
LEMMA SpaceTypes ==
    /\ SpaceNew \in Space
    /\ \A sp \in Space : NextSendPn(sp) \in Space
    /\ \A sp \in Space : TakePendingAcks(sp) \in Space
<1>1. <<>> \in Seq(Nat)
  OBVIOUS
<1>2. SpaceNew \in Space
  BY <1>1 DEF SpaceNew, Space
<1>3. ASSUME NEW sp \in Space PROVE NextSendPn(sp) \in Space
  BY DEF NextSendPn, Space
<1>4. ASSUME NEW sp \in Space PROVE TakePendingAcks(sp) \in Space
  BY <1>1 DEF TakePendingAcks, Space
<1> QED BY <1>2, <1>3, <1>4

\* record_recv_pn keeps a space well formed and its pending list bounded by
\* the largest entry.
LEMMA RecordRecvPnFacts ==
    ASSUME NEW sp \in Space, NEW pn \in Nat, HasLargest(sp.pending_acks)
    PROVE  /\ RecordRecvPn(sp, pn) \in Space
           /\ RecordRecvPn(sp, pn).next_send_pn = sp.next_send_pn
           /\ RecordRecvPn(sp, pn).pending_acks = Append(sp.pending_acks, pn)
           /\ HasLargest(RecordRecvPn(sp, pn).pending_acks)
<1>1. Append(sp.pending_acks, pn) \in Seq(Nat)
  BY DEF Space
<1>2. /\ RecordRecvPn(sp, pn) \in Space
      /\ RecordRecvPn(sp, pn).next_send_pn = sp.next_send_pn
      /\ RecordRecvPn(sp, pn).pending_acks = Append(sp.pending_acks, pn)
  BY <1>1 DEF RecordRecvPn, Space
<1>3. sp.pending_acks \in Seq(Nat) BY DEF Space
<1> QED BY <1>2, <1>3, AppendHasLargest

\* The largest element of a set of numbers is its maximum.
LEMMA MaxUnique ==
    ASSUME NEW S, S \subseteq Nat, NEW L \in S, \A y \in S : L >= y
    PROVE  Max(S) = L
<1>1. Max(S) \in S /\ \A y \in S : Max(S) >= y
  BY DEF Max
<1>2. L \in Nat /\ Max(S) \in Nat BY <1>1
<1>3. L >= Max(S) /\ Max(S) >= L BY <1>1
<1> QED BY <1>2, <1>3

\* An ACK frame built from a non-empty list names one of its entries, and one
\* that no other entry exceeds.
LEMMA AckFrameFacts ==
    ASSUME NEW seq \in Seq(Nat), seq # <<>>, HasLargest(seq)
    PROVE  /\ AckFrame(seq) \in [largest : Nat, first_range : Nat]
           /\ AckFrame(seq).largest \in Range(seq)
           /\ \A j \in 1..Len(seq) : AckFrame(seq).largest >= seq[j]
<1>1. PICK i \in 1..Len(seq) : \A j \in 1..Len(seq) : seq[i] >= seq[j]
  BY DEF HasLargest
<1>2. DOMAIN seq = 1..Len(seq) /\ Len(seq) \in Nat /\ Len(seq) >= 1
  OBVIOUS
<1>3. seq[i] \in Range(seq) /\ \A y \in Range(seq) : seq[i] >= y
  BY <1>1, <1>2 DEF Range
<1>4. /\ Max(Range(seq)) \in Range(seq)
      /\ \A y \in Range(seq) : Max(Range(seq)) >= y
  BY <1>3 DEF Max
<1>5. \A y \in Range(seq) : y \in Nat
  BY <1>2 DEF Range
<1>6. \A j \in 1..Len(seq) : seq[j] \in Range(seq)
  BY <1>2 DEF Range
<1> DEFINE m == Max(Range(seq))
<1>7. AckFrame(seq) = [largest |-> m, first_range |-> Len(seq) - 1]
  BY DEF AckFrame
<1>8. m \in Nat /\ m \in Range(seq) /\ \A j \in 1..Len(seq) : m >= seq[j]
  BY <1>4, <1>5, <1>6
<1> HIDE DEF m
<1> QED BY <1>2, <1>7, <1>8
=============================================================================
