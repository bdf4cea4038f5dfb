-------------------------- MODULE HeaderProtection --------------------------
(***************************************************************************)
(* The first byte of a packet and its packet number field: how the length  *)
(* of the packet number is written into the first byte, what header        *)
(* protection hides, what the header parsers read while it is still        *)
(* hidden, and what is used once it is removed.                            *)
(*                                                                         *)
(* A packet number byte is represented by whether it is masked. The mask   *)
(* of the first byte is a hash of the ciphertext: any value may occur.     *)
(***************************************************************************)
EXTENDS Integers

Form == {"Long", "Short"}

\* The lengths encoded_pn_len chooses.
PnLen == {1, 2, 4}

\* The bits of the first byte that header protection covers: two reserved bits,
\* the key phase (short headers only) and two bits for the packet number length.
LowBits == [reserved : 0..3, key_phase : 0..1, pn_len : 0..3]

Masks(form) ==
    {m \in LowBits : form = "Long" => m.key_phase = 0}

\* Exclusive or of two numbers of two bits.
Xor2(a, b) ==
    LET bit(x, i) == (x \div i) % 2
    IN  ((bit(a, 1) + bit(b, 1)) % 2) + 2 * ((bit(a, 2) + bit(b, 2)) % 2)

Xor(a, b) ==
    [ reserved  |-> Xor2(a.reserved, b.reserved),
      key_phase |-> Xor2(a.key_phase, b.key_phase),
      pn_len    |-> Xor2(a.pn_len, b.pn_len) ]

\* How encrypt_long and encrypt_short write the length of the packet number.
PnLenBits(form, len) ==
    IF form = "Long" THEN len - 1 ELSE IF len = 4 THEN 0 ELSE len

\* Mutant: the length of a short header is read as that of a long one.
PnLenRead_AsLong(form, bits) == bits + 1

\* How the decrypt functions read it, once the protection is removed.
PnLenRead(form, bits) ==
    IF form = "Long" THEN bits + 1 ELSE IF bits = 0 THEN 4 ELSE bits

\* External (rustls): the packet number bytes that protection covers, among
\* those it is given. It reads the unprotected length as one less than the
\* number of bytes, whatever the form.
Covered(bits, given) == {i \in 1..given : i <= bits + 1}

\* Mutant: the reserved bits of a long header are checked like those of a
\* short one.
ParserAccepts_LongReserved(form, low) ==
    low.reserved = 0 /\ (form = "Short" => low.pn_len # 0)

\* What the header parsers ask of the bits, still protected. parse_long_header
\* does not look at the reserved bits; parse_short_header does, and refuses a
\* packet number length of 0 too.
ParserAccepts(form, low) ==
    form = "Short" => low.reserved = 0 /\ low.pn_len # 0
=============================================================================
