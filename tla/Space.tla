-------------------------------- MODULE Space --------------------------------
(***************************************************************************)
(* The state one endpoint keeps for one packet number space (struct Space) *)
(* and the methods that change it, as operators on records. The key        *)
(* material of the struct is kept by the modules that use this one, which  *)
(* is where keys appear; the receive timestamp is never read by the        *)
(* connection and is left out.                                             *)
(***************************************************************************)
EXTENDS PacketNumber, Sequences, FiniteSetsExt, Functions

Space ==
    [ next_send_pn    : Nat,        \* next packet number to use for sending
      largest_recv_pn : Nat,        \* largest authenticated number, 0 if none
      pending_acks    : Seq(Nat) ]  \* received, not yet acknowledged, in order

\* Mutant: "nothing received" is the number before 0.
SpaceNew_MinusOne == [next_send_pn |-> 0, largest_recv_pn |-> -1, pending_acks |-> <<>>]

SpaceNew == [next_send_pn |-> 0, largest_recv_pn |-> 0, pending_acks |-> <<>>]

\* Mutant: the counter is left where it is.
NextSendPn_Stuck(sp) == sp

\* next_send_pn(): the caller uses sp.next_send_pn for its packet.
NextSendPn(sp) == [sp EXCEPT !.next_send_pn = @ + 1]

\* Mutant: the largest number follows the latest packet, not the largest one.
RecordRecvPn_Latest(sp, pn) ==
    [sp EXCEPT !.largest_recv_pn = pn, !.pending_acks = Append(@, pn)]

\* record_recv_pn(): no check that the number was received before.
RecordRecvPn(sp, pn) ==
    [ next_send_pn    |-> sp.next_send_pn,
      largest_recv_pn |-> IF pn > sp.largest_recv_pn THEN pn ELSE sp.largest_recv_pn,
      pending_acks    |-> Append(sp.pending_acks, pn) ]

TakePendingAcks(sp) == [sp EXCEPT !.pending_acks = <<>>]

-----------------------------------------------------------------------------
\* Mutants: the range counts one packet too many; the frame names the number
\* after the largest one.
AckFrame_OffByOne(acks) == [largest |-> Max(Range(acks)), first_range |-> Len(acks)]
AckFrame_NextExpected(acks) == [largest |-> Max(Range(acks)) + 1, first_range |-> Len(acks)]

\* The ACK frame egest builds from the pending numbers (never from none): one
\* range, whose length is the number of entries of the list.
AckFrame(acks) == [largest |-> Max(Range(acks)), first_range |-> Len(acks) - 1]

\* The packet numbers an ACK frame acknowledges (RFC 9000 19.3.1).
Acknowledged(ack) == (ack.largest - ack.first_range)..ack.largest
=============================================================================
