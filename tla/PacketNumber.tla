---------------------------- MODULE PacketNumber ----------------------------
(***************************************************************************)
(* Packet numbers on the wire: how many bytes the sender writes, what      *)
(* those bytes hold, and the full number the receiver reconstructs.        *)
(* Radix is the number of values of one byte, 256 in the code; the model   *)
(* checker uses a smaller even radix so that every wrap-around is reached. *)
(***************************************************************************)
EXTENDS Integers

CONSTANT Radix

ASSUME RadixAssumption ==
    /\ Radix \in Nat
    /\ Radix >= 4
    /\ Radix % 2 = 0

PnLengths == 1..4

\* win = 1 << (8 * pn_len): how many values pn_len bytes can hold.
Win(len) ==
    CASE len = 1 -> Radix
      [] len = 2 -> Radix * Radix
      [] len = 3 -> Radix * Radix * Radix
      [] len = 4 -> Radix * Radix * Radix * Radix

HalfWin(len) == Win(len) \div 2

-----------------------------------------------------------------------------
\* encoded_pn_len: chosen from the packet number alone; the second argument of
\* the code's function, the largest acknowledged number, is discarded there.
EncodedPnLen(pn) ==
    IF pn < Win(1) THEN 1 ELSE IF pn < Win(2) THEN 2 ELSE 4

\* write_pn followed by read_pn: the pn_len low-order bytes.
Truncate(pn, len) == pn % Win(len)

-----------------------------------------------------------------------------
\* Mutant: a window is subtracted although there is none to give back.
DecodeNear_NoUnderflowGuard(expected, truncated, len) ==
    LET candidate == Win(len) * (expected \div Win(len)) + truncated
    IN  IF candidate + HalfWin(len) <= expected
        THEN candidate + Win(len)
        ELSE IF candidate > expected + HalfWin(len)
             THEN candidate - Win(len)
             ELSE candidate

\* The body of decode_packet_number once "expected" is known. In the code
\* candidate = (expected & !mask) | truncated: the start of the window that
\* holds the expected number, plus the truncated value.
DecodeNear(expected, truncated, len) ==
    LET win       == Win(len)
        half      == HalfWin(len)
        candidate == win * (expected \div win) + truncated
    IN  IF candidate + half <= expected
        THEN candidate + win
        ELSE IF candidate > expected + half /\ candidate > win
             THEN candidate - win
             ELSE candidate

\* Mutant: the largest number itself is taken for the expected one.
DecodePacketNumber_NoIncrement(largest, truncated, len) ==
    DecodeNear(largest, truncated, len)

\* decode_packet_number: the next number after the largest one is expected.
DecodePacketNumber(largest, truncated, len) ==
    DecodeNear(largest + 1, truncated, len)

\* The number the receiver of a short header packet computes.
ShortPn(largest, pn) ==
    DecodePacketNumber(largest, Truncate(pn, EncodedPnLen(pn)), EncodedPnLen(pn))

\* The number the receiver of a long header packet computes: the code passes 0
\* for the largest number known, whatever the space has received.
LongPn(pn) ==
    DecodePacketNumber(0, Truncate(pn, EncodedPnLen(pn)), EncodedPnLen(pn))
=============================================================================
