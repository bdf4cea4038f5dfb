------------------------------- MODULE VarInt -------------------------------
(***************************************************************************)
(* Variable-length integers: the upper two bits of the first byte give the *)
(* length, 1, 2, 4 or 8. Quarter is the number of values of the other bits *)
(* of that byte, 64 in the code, where a byte has 256 values.              *)
(***************************************************************************)
EXTENDS Integers, Sequences

CONSTANT Quarter

ASSUME QuarterAssumption == Quarter \in Nat \ {0}

ByteRadix == 4 * Quarter
Byte == 0..(ByteRadix - 1)

\* v >> 8k.
Shift(v, k) ==
    LET shifted[j \in 0..k] == IF j = 0 THEN v ELSE shifted[j - 1] \div ByteRadix
    IN  shifted[k]

\* v > VARINT_MAX: more than eight bytes hold.
TooLarge(v) == Shift(v, 7) >= Quarter

\* encoded_len: up to 63, 16383 and 1073741823 in the code.
EncodedLen(v) ==
    IF v < Quarter THEN 1
    ELSE IF v < Quarter * ByteRadix THEN 2
    ELSE IF v < Quarter * ByteRadix * ByteRadix * ByteRadix THEN 4
    ELSE 8

\* The bits that announce a length, and the length they announce.
Prefix(len) == IF len = 1 THEN 0 ELSE IF len = 2 THEN 1 ELSE IF len = 4 THEN 2 ELSE 3
LenOf(first) ==
    LET bits == first \div Quarter
    IN  IF bits = 0 THEN 1 ELSE IF bits = 1 THEN 2 ELSE IF bits = 2 THEN 4 ELSE 8

\* Mutant: a value of two bytes is written without its length.
Encode_NoPrefix(v) ==
    [i \in 1..EncodedLen(v) |-> Shift(v, EncodedLen(v) - i) % ByteRadix]

\* put_varint of a value that is not too large: the shortest encoding.
Encode(v) ==
    LET len == EncodedLen(v)
    IN  [i \in 1..len |->
            IF i = 1 THEN Prefix(len) * Quarter + Shift(v, len - 1)
            ELSE Shift(v, len - i) % ByteRadix]

\* The number in the first n bytes, the announcing bits left out.
Value(buf, n) ==
    LET val[i \in 1..n] ==
            IF i = 1 THEN buf[1] % Quarter ELSE val[i - 1] * ByteRadix + buf[i]
    IN  val[n]

\* decode: a set of at most one result, none if the buffer is too short. Longer
\* encodings than necessary are accepted.
Decode(buf) ==
    IF buf = <<>> \/ Len(buf) < LenOf(buf[1]) THEN {}
    ELSE {[value |-> Value(buf, LenOf(buf[1])), len |-> LenOf(buf[1])]}
=============================================================================
