---------------------------- MODULE SpaceChannel ----------------------------
(***************************************************************************)
(* One packet number space seen from both ends: the sender's counter, and  *)
(* the receiver's record of what arrived, over a network that loses,       *)
(* duplicates and reorders. Every number below the sender's counter is in  *)
(* the network for ever: it may arrive at any time, any number of times,   *)
(* or never.                                                               *)
(***************************************************************************)
EXTENDS Space, FiniteSets

CONSTANTS MaxPn,    \* bound: packets sent
          MaxRecv,  \* bound: different packets received
          MaxAcks   \* bound: numbers waiting to be acknowledged

ASSUME BoundsAssumption == MaxPn \in Nat /\ MaxRecv \in Nat /\ MaxAcks \in Nat

VARIABLES sender,    \* the Space record of the sending endpoint
          receiver,  \* the Space record of the receiving endpoint
          received   \* history: the numbers the receiver authenticated

vars == <<sender, receiver, received>>

Init ==
    /\ sender = SpaceNew
    /\ receiver = SpaceNew
    /\ received = {}

Sent == {pn \in 0..MaxPn : pn < sender.next_send_pn}

Send ==
    /\ sender.next_send_pn < MaxPn
    /\ sender' = NextSendPn(sender)
    /\ UNCHANGED <<receiver, received>>

\* The packet opens only if the receiver computes the nonce it was sealed with,
\* i.e. the packet number it was sent with; otherwise nothing is recorded.
Record(pn) ==
    /\ Len(receiver.pending_acks) < MaxAcks
    /\ Cardinality(received \cup {pn}) <= MaxRecv
    /\ receiver' = RecordRecvPn(receiver, pn)
    /\ received' = received \cup {pn}
    /\ UNCHANGED sender

RecvShort(pn) == ShortPn(receiver.largest_recv_pn, pn) = pn /\ Record(pn)

RecvLong(pn) == LongPn(pn) = pn /\ Record(pn)

\* egest puts AckFrame(receiver.pending_acks) in a packet, which the sender
\* ignores (process_frames does nothing with ACK frames).
SendAck ==
    /\ receiver.pending_acks # <<>>
    /\ receiver' = TakePendingAcks(receiver)
    /\ UNCHANGED <<sender, received>>

Next ==
    \/ Send
    \/ \E pn \in Sent : RecvShort(pn)
    \/ \E pn \in Sent : RecvLong(pn)
    \/ SendAck

Spec == Init /\ [][Next]_vars
-----------------------------------------------------------------------------
\* Both Space records are well formed, and what was received are packet numbers.
TypeOK ==
    /\ sender \in Space
    /\ receiver \in Space
    /\ received \subseteq Nat

\* record_recv_pn keeps the largest number received, in whatever order and
\* however often packets arrive; it is the base of the next decoding.
LargestIsMax ==
    receiver.largest_recv_pn = IF received = {} THEN 0 ELSE Max(received)

\* The reach of decode_packet_number given what encoded_pn_len wrote: a packet
\* of a short header is read with the number it was sent with exactly when it
\* is less than half a window behind the next expected number. A packet ahead
\* of everything received always is: loss cannot desynchronise the two ends.
DecodesExactlyWithinWindow ==
    \A pn \in Sent :
        pn < Win(4) =>
            (ShortPn(receiver.largest_recv_pn, pn) = pn
                <=> receiver.largest_recv_pn + 1 < pn + HalfWin(EncodedPnLen(pn)))

\* Decoding against 0 (long headers) is exact for every number four bytes hold.
LongDecodesExactly == \A pn \in Sent : pn < Win(4) => LongPn(pn) = pn

\* No gap and no repetition.
Contiguous(seq) ==
    /\ Cardinality(Range(seq)) = Len(seq)
    /\ \E low \in Range(seq) : Range(seq) = low..Max(Range(seq))

\* The single range of egest's ACK frame, as long as the list of pending
\* numbers, acknowledges what was received and nothing else exactly when the
\* numbers, in whatever order they arrived, leave no gap and none came twice.
AckExactIffContiguous ==
    LET pending == receiver.pending_acks
    IN  pending # <<>> =>
            (Acknowledged(AckFrame(pending)) = Range(pending) <=> Contiguous(pending))
=============================================================================
