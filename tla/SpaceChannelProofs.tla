------------------------- MODULE SpaceChannelProofs -------------------------
(***************************************************************************)
(* What both ends of a packet number space may rely on, for every radix,   *)
(* every bound and every schedule of the network.                          *)
(***************************************************************************)
EXTENDS SpaceChannel, SpaceProofs, FiniteSetTheorems

\* LargestIsMax without CHOOSE: the form the induction needs.
LargestBounds ==
    \/ received = {} /\ receiver.largest_recv_pn = 0
    \/ /\ receiver.largest_recv_pn \in received
       /\ \A pn \in received : receiver.largest_recv_pn >= pn

\* The inductive invariant. That the pending list has a largest entry, the one
\* an ACK frame names, is what AckExactIffContiguous needs.
IInv == TypeOK /\ LargestBounds /\ HasLargest(receiver.pending_acks)

\* Initially nothing was sent or received.
LEMMA IInvInit == Init => IInv
<1> SUFFICES ASSUME Init PROVE IInv
  OBVIOUS
<1>1. receiver.pending_acks = <<>> BY DEF Init, SpaceNew
<1> QED BY <1>1, SpaceTypes DEF Init, IInv, TypeOK, LargestBounds, HasLargest, SpaceNew

\* Every operation of the sender and of the receiver keeps the invariant.
LEMMA IInvNext == IInv /\ [Next]_vars => IInv'
<1> SUFFICES ASSUME IInv, [Next]_vars PROVE IInv'
  OBVIOUS
<1>1. CASE Send
  <2>1. NextSendPn(sender) \in Space
    BY SpaceTypes DEF IInv, TypeOK
  <2> QED BY <1>1, <2>1 DEF Send, IInv, TypeOK, LargestBounds, HasLargest
<1>2. ASSUME NEW pn \in Sent, Record(pn) PROVE IInv'
  <2>1. pn \in Nat
    BY BoundsAssumption DEF Sent
  <2>2. receiver \in Space /\ HasLargest(receiver.pending_acks)
    BY DEF IInv, TypeOK
  <2>3. /\ receiver' \in Space
        /\ HasLargest(receiver'.pending_acks)
    BY <1>2, <2>1, <2>2, RecordRecvPnFacts DEF Record
  <2>4. receiver'.largest_recv_pn =
            IF pn > receiver.largest_recv_pn THEN pn ELSE receiver.largest_recv_pn
    BY <1>2, <2>1, <2>2 DEF Record, RecordRecvPn, Space
  <2>5. LargestBounds'
    <3>1. received \subseteq Nat /\ receiver.largest_recv_pn \in Nat
      BY <2>2 DEF IInv, TypeOK, Space
    <3>2. received' = received \cup {pn}
      BY <1>2 DEF Record
    <3> QED BY <2>1, <2>4, <3>1, <3>2 DEF IInv, LargestBounds
  <2>6. TypeOK'
    BY <1>2, <2>1, <2>3 DEF Record, IInv, TypeOK
  <2> QED BY <2>3, <2>5, <2>6 DEF IInv
<1>3. CASE SendAck
  <2>1. receiver \in Space /\ HasLargest(receiver.pending_acks)
    BY DEF IInv, TypeOK
  <2>4. /\ receiver' \in Space
        /\ receiver'.pending_acks = <<>>
        /\ receiver'.largest_recv_pn = receiver.largest_recv_pn
    <3>1. receiver' = TakePendingAcks(receiver) BY <1>3 DEF SendAck
    <3> QED BY <2>1, <3>1, SpaceTypes DEF TakePendingAcks, Space
  <2>5. TypeOK' BY <1>3, <2>4 DEF SendAck, IInv, TypeOK
  <2>6. LargestBounds' BY <1>3, <2>4 DEF SendAck, IInv, LargestBounds
  <2> QED BY <2>4, <2>5, <2>6 DEF IInv, HasLargest
<1>4. CASE UNCHANGED vars
  BY <1>4 DEF vars, IInv, TypeOK, LargestBounds, HasLargest
<1> QED BY <1>1, <1>2, <1>3, <1>4 DEF Next, RecvShort, RecvLong

\* The records of both ends stay well formed.
THEOREM SpaceTypeCorrect == Spec => []TypeOK
<1>1. IInv => TypeOK BY DEF IInv
<1> QED BY <1>1, IInvInit, IInvNext, PTL DEF Spec

\* record_recv_pn keeps the largest authenticated number under every order of
\* arrival, with duplicates and gaps.
THEOREM LargestIsMaxTheorem == Spec => []LargestIsMax
<1>1. IInv => LargestIsMax
  <2> SUFFICES ASSUME IInv PROVE LargestIsMax
    OBVIOUS
  <2>1. CASE received = {}
    BY <2>1 DEF IInv, LargestBounds, LargestIsMax
  <2>2. CASE received # {}
    <3>1. /\ receiver.largest_recv_pn \in received
          /\ \A pn \in received : receiver.largest_recv_pn >= pn
      BY <2>2 DEF IInv, LargestBounds
    <3>2. received \subseteq Nat
      BY DEF IInv, TypeOK
    <3> QED BY <2>2, <3>1, <3>2, MaxUnique DEF LargestIsMax
  <2> QED BY <2>1, <2>2
<1> QED BY <1>1, IInvInit, IInvNext, PTL DEF Spec

\* In every reachable state the receiver reads a short header packet with the
\* number it was sent with exactly when the packet is less than half a window
\* behind the next expected one.
THEOREM WindowTheorem == Spec => []DecodesExactlyWithinWindow
<1>1. IInv => DecodesExactlyWithinWindow
  <2> SUFFICES ASSUME IInv, NEW pn \in Sent, pn < Win(4)
               PROVE  ShortPn(receiver.largest_recv_pn, pn) = pn
                        <=> receiver.largest_recv_pn + 1 < pn + HalfWin(EncodedPnLen(pn))
    BY DEF DecodesExactlyWithinWindow
  <2>1. pn \in Nat /\ receiver.largest_recv_pn \in Nat
    BY BoundsAssumption DEF Sent, IInv, TypeOK, Space
  <2> QED BY <2>1, DecodeWindow
<1> QED BY <1>1, IInvInit, IInvNext, PTL DEF Spec

\* Long headers are read against 0, and every number in the network that four
\* bytes hold comes back, whatever the receiver has recorded by then.
THEOREM LongChannelTheorem == Spec => []LongDecodesExactly
<1>1. IInv => LongDecodesExactly
  <2> SUFFICES ASSUME NEW pn \in Sent, pn < Win(4) PROVE LongPn(pn) = pn
    BY DEF LongDecodesExactly
  <2>1. pn \in Nat BY BoundsAssumption DEF Sent
  <2> QED BY <2>1, LongDecodesExactlyTheorem
<1> QED BY <1>1, IInvInit, IInvNext, PTL DEF Spec

\* The range of an ACK frame built from a non-empty list of n numbers is made
\* of the n numbers up to the largest one, so it is the list's set of numbers
\* exactly if these are n numbers without a gap.
LEMMA RangeExact ==
    ASSUME NEW seq \in Seq(Nat), seq # <<>>, HasLargest(seq)
    PROVE  Acknowledged(AckFrame(seq)) = Range(seq) <=> Contiguous(seq)
<1> DEFINE m == Max(Range(seq))
           n == Len(seq)
<1>1. n \in Nat /\ n >= 1
  OBVIOUS
<1>2. AckFrame(seq).largest = m /\ AckFrame(seq).first_range = n - 1
  BY DEF AckFrame
<1>3. m \in Nat /\ m \in Range(seq)
  BY <1>2, AckFrameFacts
<1>4. \A y \in Range(seq) : y \in Nat
  BY DEF Range
<1>5. Acknowledged(AckFrame(seq)) = (m - (n - 1))..m
  BY <1>2 DEF Acknowledged
<1> HIDE DEF m, n
<1>6. ASSUME Range(seq) = (m - (n - 1))..m PROVE Contiguous(seq)
  <2>1. m - (n - 1) \in Range(seq)
    BY <1>1, <1>3, <1>6
  <2>2. Cardinality(Range(seq)) = n
    <3>1. Cardinality((m - (n - 1))..m) = m - (m - (n - 1)) + 1
      BY <1>1, <1>3, FS_Interval
    <3> QED BY <1>1, <1>3, <1>6, <3>1
  <2> QED BY <1>6, <2>1, <2>2 DEF Contiguous, m, n
<1>7. ASSUME Contiguous(seq) PROVE Range(seq) = (m - (n - 1))..m
  <2>1. Cardinality(Range(seq)) = n
    BY <1>7 DEF Contiguous, n
  <2>2. PICK low \in Range(seq) : Range(seq) = low..m
    BY <1>7 DEF Contiguous, m
  <2>3. low \in Nat /\ low <= m
    BY <1>3, <1>4, <2>2
  <2>4. Cardinality(low..m) = m - low + 1
    BY <1>3, <2>3, FS_Interval
  <2>5. low = m - (n - 1)
    BY <1>1, <1>3, <2>1, <2>2, <2>3, <2>4
  <2> QED BY <2>2, <2>5
<1> QED BY <1>5, <1>6, <1>7

\* Whatever the network does, egest's ACK frame is exact if and only if the
\* pending numbers leave no gap and none came twice.
THEOREM AckExactTheorem == Spec => []AckExactIffContiguous
<1>1. IInv => AckExactIffContiguous
  <2> SUFFICES ASSUME IInv, receiver.pending_acks # <<>>
               PROVE  Acknowledged(AckFrame(receiver.pending_acks)) = Range(receiver.pending_acks)
                          <=> Contiguous(receiver.pending_acks)
    BY DEF AckExactIffContiguous
  <2>1. receiver.pending_acks \in Seq(Nat) /\ HasLargest(receiver.pending_acks)
    BY DEF IInv, TypeOK, Space
  <2> QED BY <2>1, RangeExact
<1> QED BY <1>1, IInvInit, IInvNext, PTL DEF Spec
=============================================================================
