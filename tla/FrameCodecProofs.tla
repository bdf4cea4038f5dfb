-------------------------- MODULE FrameCodecProofs --------------------------
(***************************************************************************)
(* Frames of every kind with any fields, payloads of any length, and any   *)
(* bytes: parse_frame takes at least one byte and never more than there    *)
(* are, what it accepts write_frame can write again, and what write_frame  *)
(* writes parse_frame reads back, unless it is an empty STREAM that is not *)
(* the last.                                                               *)
(*                                                                         *)
(* The recursive functions of the codec are unrolled with one lemma of     *)
(* induction over a set, StepsExist: a function that starts with a and     *)
(* takes n steps inside S exists, is unique, and has its values in S.      *)
(***************************************************************************)
EXTENDS FrameCodec, SequenceTheorems, WellFoundedInduction, TLAPS

-----------------------------------------------------------------------------
(* Induction.                                                              *)

\* A set of natural numbers that holds 0 and every successor of its members
\* holds them all.
LEMMA Induction ==
    ASSUME NEW S, 0 \in S, \A n \in Nat : n \in S => n + 1 \in S
    PROVE  \A n \in Nat : n \in S
<1> DEFINE Less == {ss \in Nat \X Nat : ss[1] < ss[2]}
           T == Nat \ S
<1>1. IsWellFoundedOn(Less, Nat)
  BY NatLessThanWellFounded, Zenon DEF OpToRel
<1> SUFFICES ASSUME T # {} PROVE FALSE
  OBVIOUS
<1>2. PICK x \in T : \A y \in T : <<y, x>> \notin Less
  <2>1. T \in SUBSET Nat
    OBVIOUS
  <2> HIDE DEF T, Less
  <2> QED BY <1>1, <2>1, WFMin
<1>3. x \in Nat /\ x # 0
  OBVIOUS
<1>4. x - 1 \in Nat /\ (x - 1) + 1 = x /\ x - 1 < x
  BY <1>3
<1>5. x - 1 \notin T
  <2>1. <<x - 1, x>> \in Less
    BY <1>3, <1>4
  <2> HIDE DEF Less
  <2> QED BY <1>2, <2>1
<1> QED BY <1>3, <1>4, <1>5

\* Two sequences that start the same and take the same steps.
SameFrom(n, f, g) ==
    /\ f[0] = g[0]
    /\ \A i \in 1..n : f[i - 1] = g[i - 1] => f[i] = g[i]

SameUpTo(n, f, g) == \A i \in 0..n : f[i] = g[i]

\* They are the same.
LEMMA SameSteps ==
    ASSUME NEW n \in Nat, NEW f, NEW g, SameFrom(n, f, g)
    PROVE  SameUpTo(n, f, g)
<1> DEFINE S == {i \in Nat : i <= n => f[i] = g[i]}
<1>1. 0 \in S
  BY DEF SameFrom
<1>2. ASSUME NEW i \in Nat, i \in S PROVE i + 1 \in S
  <2>1. i + 1 <= n => i + 1 \in 1..n /\ (i + 1) - 1 = i /\ i <= n
    OBVIOUS
  <2> QED BY <1>2, <2>1 DEF SameFrom
<1> HIDE DEF S
<1>3. \A i \in Nat : i \in S
  BY <1>1, <1>2, Induction
<1>4. \A i \in 0..n : f[i] = g[i]
  BY <1>3 DEF S
<1> QED BY <1>4 DEF SameUpTo

\* f starts with a and takes n steps, in S.
Run(n, S, a, step, f) ==
    /\ f = [i \in 0..n |-> f[i]]
    /\ f[0] = a
    /\ \A i \in 0..n : f[i] \in S
    /\ \A i \in 1..n : f[i] = step[i][f[i - 1]]

\* Steps that stay in a set can be taken one after the other.
LEMMA StepsExist ==
    ASSUME NEW n \in Nat, NEW S, NEW a \in S, NEW step,
           \A i \in 1..n : \A x \in S : step[i][x] \in S
    PROVE  \E f : Run(n, S, a, step, f)
<1> DEFINE T == {m \in Nat : m <= n => \E f : Run(m, S, a, step, f)}
<1>1. 0 \in T
  <2>1. Run(0, S, a, step, [i \in 0..0 |-> a])
    BY DEF Run
  <2> QED BY <2>1
<1>2. ASSUME NEW m \in Nat, m \in T PROVE m + 1 \in T
  <2> SUFFICES ASSUME m + 1 <= n PROVE \E f : Run(m + 1, S, a, step, f)
    OBVIOUS
  <2>1. m <= n /\ m + 1 \in 1..n
    OBVIOUS
  <2>2. PICK f : Run(m, S, a, step, f)
    BY <1>2, <2>1
  <2> DEFINE last == step[m + 1][f[m]]
             g == [i \in 0..(m + 1) |-> IF i = m + 1 THEN last ELSE f[i]]
  <2>3. last \in S
    BY <2>1, <2>2 DEF Run
  <2> HIDE DEF last
  <2>4. g[m + 1] = last /\ \A i \in 0..m : g[i] = f[i]
    OBVIOUS
  <2>5. ASSUME NEW i \in 1..(m + 1) PROVE g[i] = step[i][g[i - 1]]
    <3>1. CASE i = m + 1
      <4>1. i - 1 = m /\ m \in 0..m
        BY <3>1
      <4> QED BY <2>4, <3>1, <4>1 DEF last
    <3>2. CASE i # m + 1
      <4>1. i \in 1..m /\ i \in 0..m /\ i - 1 \in 0..m
        BY <3>2
      <4> QED BY <2>2, <2>4, <4>1 DEF Run
    <3> QED BY <3>1, <3>2
  <2>6. g[0] = a
    BY <2>2, <2>4 DEF Run
  <2>7. \A i \in 0..(m + 1) : g[i] \in S
    <3>1. \A i \in 0..(m + 1) : i = m + 1 \/ i \in 0..m
      OBVIOUS
    <3> QED BY <2>2, <2>3, <2>4, <3>1 DEF Run
  <2>8. g = [i \in 0..(m + 1) |-> g[i]]
    OBVIOUS
  <2> HIDE DEF g
  <2> QED BY <2>5, <2>6, <2>7, <2>8 DEF Run
<1> HIDE DEF T
<1>3. n \in T
  BY <1>1, <1>2, Induction
<1> QED BY <1>3 DEF T

-----------------------------------------------------------------------------
(* Integers.                                                               *)

\* A byte has 256 values, a first byte 64 beside the announced length.
LEMMA ByteFacts == Quarter = 64 /\ ByteRadix = 256 /\ Byte = 0..255
  BY FrameAssumption DEF ByteRadix, Byte

\* Bytes are numbers.
LEMMA ByteNumbers == \A b : /\ b \in Byte <=> b \in Nat /\ b < 256
                            /\ b \in Byte <=> b \in 0..255
  BY FrameAssumption DEF ByteRadix, Byte

\* s are the values of the recursive function behind Shift.
ShiftRun(v, k, s) ==
    /\ s[0] = v
    /\ \A j \in 0..k : s[j] \in Nat
    /\ \A j \in 1..k : s[j] = s[j - 1] \div 256
    /\ Shift(v, k) = s[k]

\* The recursive function behind Shift is what it says.
LEMMA ShiftSteps ==
    ASSUME NEW v \in Nat, NEW k \in Nat
    PROVE  \E s : ShiftRun(v, k, s)
<1> DEFINE P(s) == s = [j \in 0..k |-> IF j = 0 THEN v ELSE s[j - 1] \div ByteRadix]
           c == CHOOSE s : P(s)
           step == [j \in 1..k |-> [x \in Nat |-> x \div 256]]
<1>1. \A j \in 1..k : \A x \in Nat : step[j][x] \in Nat /\ step[j][x] = x \div 256
  OBVIOUS
<1>2. PICK f : Run(k, Nat, v, step, f)
  <2> HIDE DEF step
  <2>1. \A j \in 1..k : \A x \in Nat : step[j][x] \in Nat
    BY <1>1
  <2> QED BY <2>1, StepsExist
<1>3. \A j \in 1..k : f[j] = f[j - 1] \div 256
  <2> HIDE DEF step
  <2> SUFFICES ASSUME NEW j \in 1..k PROVE f[j] = f[j - 1] \div 256
    OBVIOUS
  <2>1. f[j - 1] \in Nat
    BY <1>2 DEF Run
  <2>2. f[j] = step[j][f[j - 1]]
    BY <1>2 DEF Run
  <2> QED BY <1>1, <2>1, <2>2
<1>4. P(f)
  <2> HIDE DEF step
  <2>1. \A j \in 0..k : j = 0 \/ j \in 1..k
    OBVIOUS
  <2>2. \A j \in 0..k : f[j] = IF j = 0 THEN v ELSE f[j - 1] \div ByteRadix
    BY <1>2, <1>3, <2>1, ByteFacts DEF Run
  <2> QED BY <1>2, <2>2 DEF Run
<1>5. P(c)
  <2> HIDE DEF P
  <2> QED BY <1>4
<1>6. Shift(v, k) = c[k]
  BY DEF Shift
<1>7. c[0] = v /\ \A j \in 1..k : c[j] = c[j - 1] \div 256
  <2> HIDE DEF c
  <2>1. \A j \in 0..k : c[j] = IF j = 0 THEN v ELSE c[j - 1] \div ByteRadix
    BY <1>5
  <2> QED BY <2>1, ByteFacts
<1> HIDE DEF c, P, step
<1>8. \A j \in 0..k : c[j] = f[j]
  <2>1. c[0] = f[0]
    BY <1>2, <1>7 DEF Run
  <2>2. \A j \in 1..k : c[j - 1] = f[j - 1] => c[j] = f[j]
    BY <1>3, <1>7
  <2>8. SameFrom(k, c, f)
    BY <2>1, <2>2 DEF SameFrom
  <2>9. SameUpTo(k, c, f)
    BY <2>1, <2>2, <2>8, SameSteps
  <2> QED BY <2>9 DEF SameUpTo
<1>9. ShiftRun(v, k, c)
  BY <1>2, <1>6, <1>7, <1>8 DEF Run, ShiftRun
<1> QED BY <1>9

\* Shifting by one byte more divides once more.
LEMMA ShiftFacts ==
    ASSUME NEW v \in Nat
    PROVE  /\ \A k \in Nat : Shift(v, k) \in Nat
           /\ Shift(v, 0) = v
           /\ \A k \in Nat : Shift(v, k + 1) = Shift(v, k) \div 256
<1>1. \A k \in Nat : Shift(v, k) \in Nat
  <2> SUFFICES ASSUME NEW k \in Nat PROVE Shift(v, k) \in Nat
    OBVIOUS
  <2>1. PICK s : ShiftRun(v, k, s)
    BY ShiftSteps
  <2> QED BY <2>1 DEF ShiftRun
<1>2. Shift(v, 0) = v
  <2>1. PICK s : ShiftRun(v, 0, s)
    BY ShiftSteps
  <2> QED BY <2>1 DEF ShiftRun
<1>3. ASSUME NEW k \in Nat PROVE Shift(v, k + 1) = Shift(v, k) \div 256
  <2>1. PICK s : ShiftRun(v, k, s)
    BY ShiftSteps
  <2>2. PICK t : ShiftRun(v, k + 1, t)
    <3>1. k + 1 \in Nat
      OBVIOUS
    <3> QED BY <3>1, ShiftSteps
  <2>3. \A j \in 0..k : s[j] = t[j]
    <3>1. \A j \in 1..k : s[j - 1] = t[j - 1] => s[j] = t[j]
      BY <2>1, <2>2 DEF ShiftRun
    <3>2. s[0] = t[0]
      BY <2>1, <2>2 DEF ShiftRun
    <3>8. SameFrom(k, s, t)
      BY <3>1, <3>2 DEF SameFrom
    <3>9. SameUpTo(k, s, t)
      BY <3>1, <3>2, <3>8, SameSteps
    <3> QED BY <3>9 DEF SameUpTo
  <2>4. t[k + 1] = t[k] \div 256
    BY <2>2 DEF ShiftRun
  <2> QED BY <2>1, <2>2, <2>3, <2>4 DEF ShiftRun
<1> QED BY <1>1, <1>2, <1>3

\* The bytes of a value, from the last one up to the first one of eight.
LEMMA ShiftBytes ==
    ASSUME NEW v \in Nat
    PROVE  /\ \A k \in 0..7 : Shift(v, k) \in Nat
           /\ Shift(v, 0) = v
           /\ \A k \in 1..7 : Shift(v, k - 1) = 256 * Shift(v, k) + (Shift(v, k - 1) % 256)
           /\ \A k \in 1..7 : Shift(v, k) = Shift(v, k - 1) \div 256
<1>1. \A x \in Nat : x = 256 * (x \div 256) + (x % 256)
  OBVIOUS
<1>2. ASSUME NEW k \in 1..7
      PROVE  /\ Shift(v, k - 1) = 256 * Shift(v, k) + (Shift(v, k - 1) % 256)
             /\ Shift(v, k) = Shift(v, k - 1) \div 256
  <2>1. k - 1 \in Nat /\ (k - 1) + 1 = k
    OBVIOUS
  <2>2. Shift(v, k) = Shift(v, k - 1) \div 256 /\ Shift(v, k - 1) \in Nat
    BY <2>1, ShiftFacts
  <2> QED BY <1>1, <2>2
<1> QED BY <1>2, ShiftFacts

\* What announces a length fits the first byte with it.
LEMMA LengthFits ==
    ASSUME NEW v \in Nat, ~TooLarge(v)
    PROVE  /\ EncodedLen(v) \in {1, 2, 4, 8}
           /\ Shift(v, EncodedLen(v) - 1) \in 0..63
           /\ v < 64 <=> EncodedLen(v) = 1
<1>1. /\ \A k \in 0..7 : Shift(v, k) \in Nat
      /\ Shift(v, 0) = v
      /\ \A k \in 1..7 : Shift(v, k) = Shift(v, k - 1) \div 256
  BY ShiftBytes
<1>2. EncodedLen(v) = IF v < 64 THEN 1 ELSE IF v < 16384 THEN 2
                      ELSE IF v < 1073741824 THEN 4 ELSE 8
  BY ByteFacts DEF EncodedLen
<1>3. Shift(v, 7) < 64
  BY <1>1, ByteFacts DEF TooLarge
<1>4. /\ Shift(v, 1) = Shift(v, 0) \div 256 /\ Shift(v, 2) = Shift(v, 1) \div 256
      /\ Shift(v, 3) = Shift(v, 2) \div 256
  <2>1. 1 \in 1..7 /\ 2 \in 1..7 /\ 3 \in 1..7 /\ 1 - 1 = 0 /\ 2 - 1 = 1 /\ 3 - 1 = 2
    OBVIOUS
  <2> QED BY <1>1, <2>1
<1>5. PICK a, b, c, d \in Nat : /\ a = v /\ b = Shift(v, 1) /\ c = Shift(v, 2) /\ d = Shift(v, 3)
                                /\ b = a \div 256 /\ c = b \div 256 /\ d = c \div 256
  <2>1. Shift(v, 0) = v /\ Shift(v, 1) \in Nat /\ Shift(v, 2) \in Nat /\ Shift(v, 3) \in Nat
    BY <1>1
  <2> QED BY <1>4, <2>1
<1>6. a < 16384 => b < 64
  BY <1>5
<1>7. a < 1073741824 => d < 64
  BY <1>5
<1>8. Shift(v, 7) \in Nat /\ 2 - 1 = 1 /\ 4 - 1 = 3 /\ 8 - 1 = 7 /\ 1 - 1 = 0
  BY <1>1
<1> QED BY <1>1, <1>2, <1>3, <1>5, <1>6, <1>7, <1>8

\* w is v with the byte b appended.
ByteAppended(v, b, w) == w = v * 256 + b

\* w shifted by a byte more is v shifted.
ShiftedByte(v, w) == \A k \in Nat : Shift(w, k + 1) = Shift(v, k)

\* A byte appended to a value is what is shifted out of it first.
LEMMA ShiftAppended ==
    ASSUME NEW x \in Nat, NEW b \in 0..255, NEW y, ByteAppended(x, b, y)
    PROVE  ShiftedByte(x, y)
<1> DEFINE S == {k \in Nat : Shift(y, k + 1) = Shift(x, k)}
<1>1. y \in Nat /\ y \div 256 = x
  BY DEF ByteAppended
<1>2. /\ Shift(x, 0) = x /\ Shift(y, 0) = y
      /\ \A k \in Nat : Shift(x, k + 1) = Shift(x, k) \div 256
      /\ \A k \in Nat : Shift(y, k + 1) = Shift(y, k) \div 256
  <2>1. /\ Shift(x, 0) = x /\ \A k \in Nat : Shift(x, k + 1) = Shift(x, k) \div 256
    BY ShiftFacts
  <2>2. /\ Shift(y, 0) = y /\ \A k \in Nat : Shift(y, k + 1) = Shift(y, k) \div 256
    BY <1>1, ShiftFacts
  <2> QED BY <2>1, <2>2
<1>3. 0 \in S
  BY <1>1, <1>2
<1>4. ASSUME NEW k \in Nat, k \in S PROVE k + 1 \in S
  <2>1. Shift(y, (k + 1) + 1) = Shift(y, k + 1) \div 256
    <3>1. k + 1 \in Nat
      OBVIOUS
    <3> QED BY <1>2, <3>1
  <2>2. Shift(x, k + 1) = Shift(x, k) \div 256
    BY <1>2
  <2> QED BY <1>4, <2>1, <2>2
<1> HIDE DEF S
<1>5. \A k \in Nat : k \in S
  BY <1>3, <1>4, Induction
<1> QED BY <1>5 DEF S, ShiftedByte

\* val are the values of the recursive function behind Value.
ValueRun(buf, n, val) ==
    /\ val[1] = buf[1] % 64
    /\ \A i \in 1..n : val[i] \in Nat
    /\ \A i \in 2..n : val[i] = val[i - 1] * 256 + buf[i]
    /\ Value(buf, n) = val[n]

\* The recursive function behind Value is what it says.
LEMMA ValueSteps ==
    ASSUME NEW buf \in Seq(Byte), NEW n \in 1..Len(buf)
    PROVE  \E val : ValueRun(buf, n, val)
<1> DEFINE P(s) == s = [i \in 1..n |-> IF i = 1 THEN buf[1] % Quarter
                                       ELSE s[i - 1] * ByteRadix + buf[i]]
           c == CHOOSE s : P(s)
           step == [i \in 1..(n - 1) |-> [x \in Nat |-> x * 256 + buf[i + 1]]]
<1>0. \A i \in 1..Len(buf) : buf[i] \in Nat
  <2>1. \A i \in 1..Len(buf) : buf[i] \in Byte
    OBVIOUS
  <2> QED BY <2>1, ByteNumbers
<1>1. \A i \in 1..(n - 1) : \A x \in Nat :
          step[i][x] \in Nat /\ step[i][x] = x * 256 + buf[i + 1]
  <2>1. \A i \in 1..(n - 1) : i + 1 \in 1..Len(buf)
    OBVIOUS
  <2>2. \A i \in 1..(n - 1) : buf[i + 1] \in Nat
    BY <1>0, <2>1
  <2>3. \A x \in Nat : \A b \in Nat : x * 256 + b \in Nat
    OBVIOUS
  <2> QED BY <2>2, <2>3
<1> DEFINE a == buf[1] % 64
<1>2. a \in Nat /\ n - 1 \in Nat
  BY <1>0
<1>3. PICK f : Run(n - 1, Nat, a, step, f)
  <2> HIDE DEF step, a
  <2>1. \A i \in 1..(n - 1) : \A x \in Nat : step[i][x] \in Nat
    BY <1>1
  <2> QED BY <1>2, <2>1, StepsExist
<1> DEFINE g == [i \in 1..n |-> f[i - 1]]
<1>4. \A i \in 1..n : g[i] \in Nat
  <2> SUFFICES ASSUME NEW i \in 1..n PROVE f[i - 1] \in Nat
    OBVIOUS
  <2>1. i - 1 \in 0..(n - 1)
    OBVIOUS
  <2> QED BY <1>3, <2>1 DEF Run
<1>5. g[1] = a
  <2> HIDE DEF a
  <2>1. f[0] = a
    BY <1>3 DEF Run
  <2> QED BY <2>1
<1>6. \A i \in 2..n : g[i] = g[i - 1] * 256 + buf[i]
  <2> HIDE DEF step
  <2> SUFFICES ASSUME NEW i \in 2..n PROVE g[i] = g[i - 1] * 256 + buf[i]
    OBVIOUS
  <2>1. i - 1 \in 1..(n - 1) /\ (i - 1) + 1 = i /\ g[i] = f[i - 1] /\ g[i - 1] = f[(i - 1) - 1]
    OBVIOUS
  <2>2. f[i - 1] = step[i - 1][f[(i - 1) - 1]]
    BY <1>3, <2>1 DEF Run
  <2>3. f[(i - 1) - 1] \in Nat
    <3>1. i - 1 \in 1..n
      OBVIOUS
    <3> QED BY <1>4, <2>1, <3>1
  <2> HIDE DEF g
  <2>4. i - 1 \in 1..(n - 1) /\ step[i - 1][f[(i - 1) - 1]] = f[(i - 1) - 1] * 256 + buf[(i - 1) + 1]
    BY <1>1, <2>1, <2>3
  <2>5. g[i] = f[i - 1] /\ f[(i - 1) - 1] = g[i - 1]
    BY <2>1
  <2>6. buf[(i - 1) + 1] = buf[i]
    BY <2>1
  <2> QED BY <2>2, <2>4, <2>5, <2>6, Zenon
<1>7. P(g)
  <2> HIDE DEF step
  <2>1. g = [i \in 1..n |-> g[i]]
    OBVIOUS
  <2> HIDE DEF g
  <2>2. \A i \in 1..n : i = 1 \/ i \in 2..n
    OBVIOUS
  <2>3. \A i \in 1..n : g[i] = IF i = 1 THEN buf[1] % Quarter ELSE g[i - 1] * ByteRadix + buf[i]
    BY <1>5, <1>6, <2>2, ByteFacts
  <2> QED BY <2>1, <2>3
<1>8. P(c)
  <2> HIDE DEF P
  <2> QED BY <1>7
<1>9. Value(buf, n) = c[n]
  BY DEF Value
<1> HIDE DEF c
<1>10. c[1] = buf[1] % 64 /\ \A i \in 2..n : c[i] = c[i - 1] * 256 + buf[i]
  <2>1. \A i \in 1..n : c[i] = IF i = 1 THEN buf[1] % Quarter ELSE c[i - 1] * ByteRadix + buf[i]
    BY <1>8
  <2>2. 1 \in 1..n /\ \A i \in 2..n : i \in 1..n /\ i # 1
    OBVIOUS
  <2> HIDE DEF P
  <2> QED BY <2>1, <2>2, ByteFacts
<1> DEFINE S == {i \in Nat : i + 1 <= n => c[i + 1] \in Nat}
<1>11. 0 \in S
  BY <1>2, <1>10
<1>12. ASSUME NEW i \in Nat, i \in S PROVE i + 1 \in S
  <2> SUFFICES ASSUME (i + 1) + 1 <= n PROVE c[(i + 1) + 1] \in Nat
    OBVIOUS
  <2>1. (i + 1) + 1 \in 2..n /\ ((i + 1) + 1) - 1 = i + 1 /\ i + 1 <= n /\ (i + 1) + 1 \in 1..Len(buf)
    OBVIOUS
  <2>2. c[i + 1] \in Nat /\ buf[(i + 1) + 1] \in Nat
    BY <1>0, <1>12, <2>1
  <2>3. c[(i + 1) + 1] = c[i + 1] * 256 + buf[(i + 1) + 1]
    BY <1>10, <2>1
  <2> QED BY <2>2, <2>3
<1> HIDE DEF S
<1>13. \A i \in Nat : i \in S
  BY <1>11, <1>12, Induction
<1>14. \A i \in 1..n : c[i] \in Nat
  <2> SUFFICES ASSUME NEW i \in 1..n PROVE c[i] \in Nat
    OBVIOUS
  <2>1. i - 1 \in Nat /\ (i - 1) + 1 = i
    OBVIOUS
  <2>2. i - 1 \in S
    BY <1>13, <2>1
  <2>3. (i - 1) + 1 <= n => c[(i - 1) + 1] \in Nat
    BY <2>2 DEF S
  <2> QED BY <2>1, <2>3
<1>15. ValueRun(buf, n, c)
  BY <1>9, <1>10, <1>14 DEF ValueRun
<1> QED BY <1>15

\* Shifting further does not make more of a value.
LEMMA ShiftDecreases ==
    ASSUME NEW v \in Nat
    PROVE  /\ Shift(v, 1) <= Shift(v, 0) /\ Shift(v, 3) <= Shift(v, 1)
           /\ Shift(v, 7) <= Shift(v, 3)
<1>1. \A x \in Nat : x \div 256 \in Nat /\ x \div 256 <= x
  OBVIOUS
<1>2. \A k \in 1..7 : Shift(v, k) <= Shift(v, k - 1) /\ Shift(v, k) \in Nat /\ Shift(v, k - 1) \in Nat
  <2>1. \A k \in 1..7 : k \in 0..7 /\ k - 1 \in 0..7
    OBVIOUS
  <2>2. /\ \A k \in 0..7 : Shift(v, k) \in Nat
        /\ \A k \in 1..7 : Shift(v, k) = Shift(v, k - 1) \div 256
    BY ShiftBytes
  <2> QED BY <1>1, <2>1, <2>2
<1>3. /\ Shift(v, 1) <= Shift(v, 0) /\ Shift(v, 2) <= Shift(v, 1) /\ Shift(v, 3) <= Shift(v, 2)
      /\ Shift(v, 4) <= Shift(v, 3) /\ Shift(v, 5) <= Shift(v, 4) /\ Shift(v, 6) <= Shift(v, 5)
      /\ Shift(v, 7) <= Shift(v, 6)
  <2>1. 1 \in 1..7 /\ 2 \in 1..7 /\ 3 \in 1..7 /\ 4 \in 1..7 /\ 5 \in 1..7 /\ 6 \in 1..7 /\ 7 \in 1..7
    OBVIOUS
  <2>2. 1 - 1 = 0 /\ 2 - 1 = 1 /\ 3 - 1 = 2 /\ 4 - 1 = 3 /\ 5 - 1 = 4 /\ 6 - 1 = 5 /\ 7 - 1 = 6
    OBVIOUS
  <2> QED BY <1>2, <2>1, <2>2
<1>4. \A k \in 0..7 : Shift(v, k) \in Nat
  BY ShiftBytes
<1>5. /\ Shift(v, 0) \in Nat /\ Shift(v, 1) \in Nat /\ Shift(v, 2) \in Nat /\ Shift(v, 3) \in Nat
      /\ Shift(v, 4) \in Nat /\ Shift(v, 5) \in Nat /\ Shift(v, 6) \in Nat /\ Shift(v, 7) \in Nat
  BY <1>4
<1> QED BY <1>3, <1>5

\* A decoded value takes what its first byte announces, which is there, and
\* could be encoded again.
LEMMA DecodeFacts ==
    ASSUME NEW buf \in Seq(Byte), NEW d \in Decode(buf)
    PROVE  /\ d.value \in Nat /\ ~TooLarge(d.value)
           /\ d.len \in {1, 2, 4, 8} /\ d.len \in 1..Len(buf)
           /\ d.len = LenOf(buf[1]) /\ buf # <<>>
<1> DEFINE n == LenOf(buf[1])
<1>1. buf # <<>> /\ n <= Len(buf) /\ d.value = Value(buf, n) /\ d.len = n
  <2>1. n \in Int /\ Len(buf) \in Nat
    BY DEF LenOf
  <2> QED BY <2>1 DEF Decode
<1>2. n \in {1, 2, 4, 8}
  BY DEF LenOf
<1> HIDE DEF n
<1>3. n \in 1..Len(buf)
  BY <1>1, <1>2
<1>4. PICK val : ValueRun(buf, n, val)
  BY <1>3, ValueSteps
<1>5. \A i \in 1..Len(buf) : buf[i] \in 0..255
  <2>1. \A i \in 1..Len(buf) : buf[i] \in Byte
    OBVIOUS
  <2> QED BY <2>1, ByteNumbers
<1>6. d.value \in Nat /\ d.value = val[n]
  BY <1>1, <1>3, <1>4 DEF ValueRun
<1> DEFINE S == {i \in Nat : i < n => Shift(val[i + 1], i) < 64}
<1>7. 0 \in S
  <2>1. val[1] \in Nat /\ val[1] < 64
    <3>1. 1 \in 1..Len(buf)
      BY <1>3
    <3>2. buf[1] \in 0..255
      BY <1>5, <3>1
    <3>3. val[1] = buf[1] % 64
      BY <1>4 DEF ValueRun
    <3>4. \A x \in 0..255 : x % 64 \in Nat /\ x % 64 < 64
      OBVIOUS
    <3> QED BY <3>2, <3>3, <3>4
  <2>2. Shift(val[1], 0) = val[1]
    BY <2>1, ShiftFacts
  <2> QED BY <2>1, <2>2
<1>8. ASSUME NEW i \in Nat, i \in S PROVE i + 1 \in S
  <2> SUFFICES ASSUME i + 1 < n PROVE Shift(val[(i + 1) + 1], i + 1) < 64
    OBVIOUS
  <2>1. /\ (i + 1) + 1 \in 2..n /\ ((i + 1) + 1) - 1 = i + 1 /\ i < n
        /\ (i + 1) + 1 \in 1..Len(buf) /\ i + 1 \in 1..n
    BY <1>3
  <2>2. val[(i + 1) + 1] = val[i + 1] * 256 + buf[(i + 1) + 1]
    BY <1>4, <2>1 DEF ValueRun
  <2>3. val[i + 1] \in Nat /\ buf[(i + 1) + 1] \in 0..255
    BY <1>4, <1>5, <2>1 DEF ValueRun
  <2> DEFINE x == val[i + 1]
             b == buf[(i + 1) + 1]
             y == val[(i + 1) + 1]
  <2>4. x \in Nat /\ b \in 0..255 /\ y = x * 256 + b
    BY <2>2, <2>3
  <2>5. Shift(x, i) < 64
    BY <1>8, <2>1
  <2> HIDE DEF x, b, y
  <2>6. x \in Nat /\ b \in 0..255 /\ ByteAppended(x, b, y)
    BY <2>4 DEF ByteAppended
  <2>7. Shift(y, i + 1) = Shift(x, i)
    <3>1. ShiftedByte(x, y)
      BY <2>6, ShiftAppended
    <3> QED BY <3>1 DEF ShiftedByte
  <2>8. Shift(y, i + 1) < 64
    BY <2>5, <2>7
  <2> QED BY <2>8 DEF y
<1> HIDE DEF S
<1>9. \A i \in Nat : i \in S
  BY <1>7, <1>8, Induction
<1>10. Shift(d.value, n - 1) < 64
  <2>1. n - 1 \in Nat /\ n - 1 < n /\ (n - 1) + 1 = n
    BY <1>2
  <2>2. n - 1 \in S
    BY <1>9, <2>1
  <2>3. n - 1 < n => Shift(val[(n - 1) + 1], n - 1) < 64
    BY <2>2 DEF S
  <2> QED BY <1>6, <2>1, <2>3
<1>11. Shift(d.value, 7) < 64
  <2>1. /\ Shift(d.value, 1) <= Shift(d.value, 0) /\ Shift(d.value, 3) <= Shift(d.value, 1)
        /\ Shift(d.value, 7) <= Shift(d.value, 3)
    BY <1>6, ShiftDecreases
  <2>2. \A k \in Nat : Shift(d.value, k) \in Nat
    BY <1>6, ShiftFacts
  <2>3. /\ Shift(d.value, 0) \in Nat /\ Shift(d.value, 1) \in Nat
        /\ Shift(d.value, 3) \in Nat /\ Shift(d.value, 7) \in Nat
    BY <2>2
  <2>4. n - 1 = 0 \/ n - 1 = 1 \/ n - 1 = 3 \/ n - 1 = 7
    BY <1>2
  <2> QED BY <1>10, <2>1, <2>3, <2>4
<1>12. ~TooLarge(d.value)
  <2>1. Shift(d.value, 7) \in Nat
    BY <1>6, ShiftFacts
  <2> QED BY <1>11, <2>1, ByteFacts DEF TooLarge
<1> QED BY <1>1, <1>2, <1>3, <1>6, <1>12 DEF n

\* The bytes of an encoded value.
LEMMA EncodeFacts ==
    ASSUME NEW v \in Nat, ~TooLarge(v)
    PROVE  /\ Encode(v) \in Seq(Byte) /\ Len(Encode(v)) = EncodedLen(v)
           /\ EncodedLen(v) \in {1, 2, 4, 8}
           /\ LenOf(Encode(v)[1]) = EncodedLen(v)
           /\ Encode(v)[1] % 64 = Shift(v, EncodedLen(v) - 1)
           /\ \A i \in 2..EncodedLen(v) : Encode(v)[i] = Shift(v, EncodedLen(v) - i) % 256
<1> DEFINE n == EncodedLen(v)
           b == Shift(v, n - 1)
           p == Prefix(n)
<1>1. n \in {1, 2, 4, 8} /\ b \in 0..63
  BY LengthFits
<1>2. Encode(v) = [i \in 1..n |-> IF i = 1 THEN p * Quarter + b ELSE Shift(v, n - i) % ByteRadix]
  BY DEF Encode
<1>3. p \in 0..3 /\ (n = 1 <=> p = 0) /\ (n = 2 <=> p = 1) /\ (n = 4 <=> p = 2) /\ (n = 8 <=> p = 3)
  BY <1>1 DEF Prefix
<1> HIDE DEF n, b, p
<1>4. /\ Encode(v)[1] = p * 64 + b
      /\ \A i \in 2..n : Encode(v)[i] = Shift(v, n - i) % 256
  <2>1. 1 \in 1..n /\ \A i \in 2..n : i \in 1..n /\ i # 1
    BY <1>1
  <2> QED BY <1>2, <2>1, ByteFacts
<1>5. (p * 64 + b) \div 64 = p /\ (p * 64 + b) % 64 = b /\ p * 64 + b \in 0..255
  BY <1>1, <1>3
<1>6. LenOf(Encode(v)[1]) = n
  <2>1. Encode(v)[1] \div Quarter = p
    BY <1>4, <1>5, ByteFacts
  <2> QED BY <1>1, <1>3, <2>1 DEF LenOf
<1>7. Encode(v) \in Seq(Byte) /\ Len(Encode(v)) = n
  <2>1. \A i \in 2..n : Shift(v, n - i) % 256 \in Byte
    <3>1. \A i \in 2..n : n - i \in Nat
      BY <1>1
    <3>2. \A i \in 2..n : Shift(v, n - i) \in Nat
      BY <3>1, ShiftFacts
    <3>3. \A x \in Nat : x % 256 \in Nat /\ x % 256 < 256
      OBVIOUS
    <3> QED BY <3>2, <3>3, ByteNumbers
  <2>2. Encode(v)[1] \in Byte
    BY <1>4, <1>5, ByteNumbers
  <2>3. \A i \in 1..n : Encode(v)[i] \in Byte
    <3>1. \A i \in 1..n : i = 1 \/ i \in 2..n
      BY <1>1
    <3> QED BY <1>4, <2>1, <2>2, <3>1
  <2>4. n \in Nat
    BY <1>1
  <2> QED BY <1>2, <2>3, <2>4
<1> QED BY <1>1, <1>4, <1>5, <1>6, <1>7 DEF n, b

\* What put_varint writes, decode reads, whatever follows.
THEOREM VarIntReadsBack ==
    ASSUME NEW v \in Nat, ~TooLarge(v), NEW rest \in Seq(Byte)
    PROVE  Decode(Encode(v) \o rest) = {[value |-> v, len |-> EncodedLen(v)]}
<1> DEFINE n == EncodedLen(v)
           buf == Encode(v) \o rest
<1>1. /\ Encode(v) \in Seq(Byte) /\ Len(Encode(v)) = n /\ n \in {1, 2, 4, 8}
      /\ LenOf(Encode(v)[1]) = n
      /\ Encode(v)[1] % 64 = Shift(v, n - 1)
      /\ \A i \in 2..n : Encode(v)[i] = Shift(v, n - i) % 256
  BY EncodeFacts
<1> HIDE DEF n
<1>2. /\ buf \in Seq(Byte) /\ Len(buf) = n + Len(rest) /\ n \in 1..Len(buf)
      /\ \A i \in 1..n : buf[i] = Encode(v)[i]
  BY <1>1
<1> HIDE DEF buf
<1>3. LenOf(buf[1]) = n
  BY <1>1, <1>2
<1>4. PICK val : ValueRun(buf, n, val)
  BY <1>2, ValueSteps
<1> DEFINE S == {i \in Nat : i < n => val[i + 1] = Shift(v, n - (i + 1))}
<1>5. 0 \in S
  <2>1. 1 \in 1..n
    BY <1>2
  <2> QED BY <1>1, <1>2, <1>4, <2>1 DEF ValueRun
<1>6. ASSUME NEW i \in Nat, i \in S PROVE i + 1 \in S
  <2> SUFFICES ASSUME i + 1 < n PROVE val[(i + 1) + 1] = Shift(v, n - ((i + 1) + 1))
    OBVIOUS
  <2> DEFINE m == n - (i + 1)
  <2>1. /\ (i + 1) + 1 \in 2..n /\ ((i + 1) + 1) - 1 = i + 1 /\ i < n
        /\ (i + 1) + 1 \in 1..n /\ m \in 1..7 /\ n - ((i + 1) + 1) = m - 1
    BY <1>1
  <2>2. val[(i + 1) + 1] = val[i + 1] * 256 + buf[(i + 1) + 1]
    BY <1>4, <2>1 DEF ValueRun
  <2>3. buf[(i + 1) + 1] = Shift(v, m - 1) % 256
    BY <1>1, <1>2, <2>1
  <2>4. val[i + 1] = Shift(v, m)
    BY <1>6, <2>1
  <2> HIDE DEF m
  <2>5. /\ Shift(v, m - 1) = 256 * Shift(v, m) + (Shift(v, m - 1) % 256)
        /\ Shift(v, m) \in Nat
    <3>1. m \in 0..7
      BY <2>1
    <3>2. /\ \A k \in 0..7 : Shift(v, k) \in Nat
          /\ \A k \in 1..7 : Shift(v, k - 1) = 256 * Shift(v, k) + (Shift(v, k - 1) % 256)
      BY ShiftBytes
    <3>3. Shift(v, m) \in Nat
      BY <3>1, <3>2
    <3> QED BY <2>1, <3>2, <3>3
  <2>6. Shift(v, m) * 256 = 256 * Shift(v, m)
    BY <2>5
  <2> QED BY <2>1, <2>2, <2>3, <2>4, <2>5, <2>6
<1> HIDE DEF S
<1>7. \A i \in Nat : i \in S
  BY <1>5, <1>6, Induction
<1>8. Value(buf, n) = v
  <2>1. n - 1 \in Nat /\ n - 1 < n /\ (n - 1) + 1 = n /\ n - ((n - 1) + 1) = 0
    BY <1>1
  <2>2. n - 1 \in S
    BY <1>7, <2>1
  <2>3. n - 1 < n => val[(n - 1) + 1] = Shift(v, n - ((n - 1) + 1))
    BY <2>2 DEF S
  <2>4. Value(buf, n) = val[n]
    BY <1>4 DEF ValueRun
  <2>5. Shift(v, 0) = v
    BY ShiftFacts
  <2> QED BY <2>1, <2>3, <2>4, <2>5
<1>9. Decode(buf) = {[value |-> v, len |-> n]}
  <2>1. buf # <<>> /\ ~(Len(buf) < LenOf(buf[1]))
    BY <1>1, <1>2, <1>3
  <2> QED BY <1>3, <1>8, <2>1 DEF Decode
<1> QED BY <1>9 DEF n, buf

-----------------------------------------------------------------------------
(* Readers.                                                                *)

\* The integers that put_varint writes.
Fit == {v \in Nat : ~TooLarge(v)}

\* The readers of byte strings, all of whose integers have been decoded.
Readers == [rest : Seq(Byte), ints : Seq(Fit), data : Seq(Seq(Byte))]

\* The two parts of a concatenation.
LEMMA ConcatParts ==
    ASSUME NEW S, NEW s \in Seq(S), NEW t \in Seq(S)
    PROVE  /\ SubSeq(s \o t, 1, Len(s)) = s
           /\ SubSeq(s \o t, Len(s) + 1, Len(s \o t)) = t
<1>1. s \o t \in Seq(S) /\ Len(s \o t) = Len(s) + Len(t) /\ Len(s) \in Nat /\ Len(t) \in Nat
  OBVIOUS
<1>2. /\ \A i \in 1..Len(s) : (s \o t)[i] = s[i]
      /\ \A i \in 1..Len(t) : (s \o t)[Len(s) + i] = t[i]
  OBVIOUS
<1> DEFINE u == s \o t
<1> HIDE DEF u
<1>3. SubSeq(u, 1, Len(s)) = s
  <2>1. SubSeq(u, 1, Len(s)) \in Seq(S) /\ Len(SubSeq(u, 1, Len(s))) = Len(s)
    BY <1>1 DEF u
  <2>2. \A i \in 1..Len(s) : SubSeq(u, 1, Len(s))[i] = s[i]
    BY <1>1, <1>2 DEF u
  <2> QED BY <2>1, <2>2, SeqEqual
<1>4. SubSeq(u, Len(s) + 1, Len(u)) = t
  <2>1. SubSeq(u, Len(s) + 1, Len(u)) \in Seq(S) /\ Len(SubSeq(u, Len(s) + 1, Len(u))) = Len(t)
    BY <1>1 DEF u
  <2>2. \A i \in 1..Len(t) : SubSeq(u, Len(s) + 1, Len(u))[i] = t[i]
    BY <1>1, <1>2 DEF u
  <2> QED BY <2>1, <2>2, SeqEqual
<1> QED BY <1>3, <1>4 DEF u

\* What is left after n bytes.
LEMMA Dropped ==
    ASSUME NEW S, NEW s \in Seq(S), NEW n \in 0..Len(s)
    PROVE  /\ SubSeq(s, n + 1, Len(s)) \in Seq(S)
           /\ Len(SubSeq(s, n + 1, Len(s))) = Len(s) - n
           /\ SubSeq(s, 1, n) \in Seq(S) /\ Len(SubSeq(s, 1, n)) = n
  OBVIOUS

\* read_varint: one more integer, at least one byte less.
LEMMA ReadIntFacts ==
    ASSUME NEW r \in Readers, NEW x \in ReadInt(r)
    PROVE  /\ x \in Readers /\ Len(x.rest) < Len(r.rest)
           /\ Len(x.ints) = Len(r.ints) + 1 /\ x.data = r.data
<1>1. r.rest \in Seq(Byte) /\ r.ints \in Seq(Fit) /\ r.data \in Seq(Seq(Byte))
  BY DEF Readers
<1>2. PICK d \in Decode(r.rest) :
          x = Reader(SubSeq(r.rest, d.len + 1, Len(r.rest)), Append(r.ints, d.value), r.data)
  BY DEF ReadInt
<1>3. /\ d.value \in Nat /\ ~TooLarge(d.value) /\ d.len \in 1..Len(r.rest)
  BY <1>1, DecodeFacts
<1>4. d.value \in Fit
  BY <1>3 DEF Fit
<1> DEFINE n == d.len
           left == SubSeq(r.rest, n + 1, Len(r.rest))
           more == Append(r.ints, d.value)
<1>5. left \in Seq(Byte) /\ Len(left) < Len(r.rest)
  <2>1. n \in 0..Len(r.rest) /\ n > 0 /\ Len(r.rest) \in Nat
    BY <1>1, <1>3
  <2> HIDE DEF n
  <2>2. left \in Seq(Byte) /\ Len(left) = Len(r.rest) - n
    BY <1>1, <2>1, Dropped
  <2> QED BY <2>1, <2>2
<1>6. more \in Seq(Fit) /\ Len(more) = Len(r.ints) + 1
  BY <1>1, <1>4
<1>7. x = [rest |-> left, ints |-> more, data |-> r.data]
  BY <1>2 DEF Reader
<1> HIDE DEF left, more
<1> QED BY <1>1, <1>5, <1>6, <1>7 DEF Readers

\* read_bytes and read_exact: n bytes less, and they are one string more.
LEMMA ReadBytesFacts ==
    ASSUME NEW r \in Readers, NEW n \in Nat, NEW x \in ReadBytes(r, n)
    PROVE  /\ x \in Readers /\ Len(x.rest) <= Len(r.rest) /\ x.ints = r.ints
           /\ \E b \in Seq(Byte) : /\ Len(b) = n /\ n <= Len(r.rest)
                                   /\ x.data = Append(r.data, b)
<1>1. r.rest \in Seq(Byte) /\ r.ints \in Seq(Fit) /\ r.data \in Seq(Seq(Byte))
  BY DEF Readers
<1> DEFINE left == SubSeq(r.rest, n + 1, Len(r.rest))
           b == SubSeq(r.rest, 1, n)
           more == Append(r.data, b)
<1>2. Len(r.rest) \in Nat /\ n <= Len(r.rest) /\ x = [rest |-> left, ints |-> r.ints, data |-> more]
  BY <1>1 DEF ReadBytes, Reader
<1>3. left \in Seq(Byte) /\ Len(left) = Len(r.rest) - n /\ b \in Seq(Byte) /\ Len(b) = n
  <2>1. n \in 0..Len(r.rest)
    BY <1>2
  <2> QED BY <1>1, <2>1, Dropped
<1> HIDE DEF b
<1>4. more \in Seq(Seq(Byte))
  BY <1>1, <1>3
<1>5. x.data = Append(r.data, b)
  BY <1>2
<1> HIDE DEF left, more
<1>6. x \in Readers /\ Len(x.rest) <= Len(r.rest) /\ x.ints = r.ints
  BY <1>1, <1>2, <1>3, <1>4 DEF Readers
<1> QED BY <1>2, <1>3, <1>5, <1>6

\* The fields of a reader.
LEMMA ReaderFields ==
    ASSUME NEW a \in Seq(Byte), NEW b \in Seq(Fit), NEW c \in Seq(Seq(Byte))
    PROVE  /\ Reader(a, b, c) \in Readers
           /\ Reader(a, b, c).rest = a /\ Reader(a, b, c).ints = b /\ Reader(a, b, c).data = c
  BY DEF Reader, Readers

\* A reader that has passed n bytes.
LEMMA Passed ==
    ASSUME NEW r \in Readers, NEW n \in 0..Len(r.rest), NEW s,
           s = [r EXCEPT !.rest = SubSeq(@, n + 1, Len(@))]
    PROVE  /\ s \in Readers /\ s.ints = r.ints /\ s.data = r.data
           /\ s = Reader(SubSeq(r.rest, n + 1, Len(r.rest)), r.ints, r.data)
           /\ s.rest = SubSeq(r.rest, n + 1, Len(r.rest))
           /\ Len(s.rest) = Len(r.rest) - n
<1> DEFINE left == SubSeq(r.rest, n + 1, Len(r.rest))
<1>1. r.rest \in Seq(Byte) /\ r.ints \in Seq(Fit) /\ r.data \in Seq(Seq(Byte))
  BY DEF Readers
<1>2. left \in Seq(Byte) /\ Len(left) = Len(r.rest) - n
  BY <1>1, Dropped
<1>3. s = [r EXCEPT !.rest = left]
  OBVIOUS
<1> HIDE DEF left
<1>4. s = [rest |-> left, ints |-> r.ints, data |-> r.data]
  BY <1>3 DEF Readers
<1>5. /\ s \in Readers /\ s.ints = r.ints /\ s.data = r.data /\ s.rest = left
      /\ s = Reader(left, r.ints, r.data)
  <2>2. s = Reader(left, r.ints, r.data)
    BY <1>4 DEF Reader
  <2>1. s \in Readers
    <3>1. Reader(left, r.ints, r.data) \in Readers
      BY <1>1, <1>2, ReaderFields
    <3> QED BY <2>2, <3>1, Zenon
  <2>3. s.ints = r.ints /\ s.data = r.data /\ s.rest = left
    BY <1>4
  <2> QED BY <2>1, <2>2, <2>3
<1> QED BY <1>2, <1>5 DEF left

\* read_varint_bytes.
LEMMA ReadVarIntBytesFacts ==
    ASSUME NEW r \in Readers, NEW x \in ReadVarIntBytes(r)
    PROVE  /\ x \in Readers /\ Len(x.rest) <= Len(r.rest) /\ x.ints = r.ints
           /\ \E b \in Seq(Byte) : Len(b) <= Len(r.rest) /\ x.data = Append(r.data, b)
<1>1. PICK d \in Decode(r.rest) :
          x \in ReadBytes([r EXCEPT !.rest = SubSeq(@, d.len + 1, Len(@))], d.value)
  BY DEF ReadVarIntBytes
<1>2. r.rest \in Seq(Byte)
  BY DEF Readers
<1>3. d.value \in Nat /\ d.len \in 0..Len(r.rest)
  BY <1>2, DecodeFacts
<1> DEFINE s == [r EXCEPT !.rest = SubSeq(@, d.len + 1, Len(@))]
<1>4. s \in Readers /\ s.ints = r.ints /\ s.data = r.data /\ Len(s.rest) = Len(r.rest) - d.len
  <2> DEFINE n == d.len
  <2>1. n \in 0..Len(r.rest) /\ s = [r EXCEPT !.rest = SubSeq(@, n + 1, Len(@))]
    BY <1>3
  <2> HIDE DEF s, n
  <2>2. s \in Readers /\ s.ints = r.ints /\ s.data = r.data /\ Len(s.rest) = Len(r.rest) - n
    BY <2>1, Passed
  <2> QED BY <2>2 DEF n
<1>5. x \in ReadBytes(s, d.value)
  BY <1>1
<1> HIDE DEF s
<1>6. /\ x \in Readers /\ Len(x.rest) <= Len(s.rest) /\ x.ints = s.ints
      /\ \E b \in Seq(Byte) : /\ Len(b) = d.value /\ d.value <= Len(s.rest)
                              /\ x.data = Append(s.data, b)
  BY <1>3, <1>4, <1>5, ReadBytesFacts
<1>7. PICK b \in Seq(Byte) : /\ Len(b) = d.value /\ d.value <= Len(s.rest)
                             /\ x.data = Append(s.data, b)
  BY <1>6
<1>8. Len(s.rest) <= Len(r.rest) /\ Len(x.rest) <= Len(r.rest) /\ Len(b) <= Len(r.rest)
  <2>1. Len(r.rest) \in Nat /\ Len(x.rest) \in Nat /\ Len(s.rest) \in Nat
    BY <1>2, <1>4, <1>6 DEF Readers
  <2> QED BY <1>3, <1>4, <1>6, <1>7, <2>1
<1> QED BY <1>4, <1>6, <1>7, <1>8

\* The connection ID of NEW_CONNECTION_ID.
LEMMA ReadCidFacts ==
    ASSUME NEW r \in Readers, NEW x \in ReadCid(r)
    PROVE  /\ x \in Readers /\ Len(x.rest) <= Len(r.rest) /\ x.ints = r.ints
           /\ \E b \in Seq(Byte) : /\ Len(b) \in 1..20 /\ Len(b) <= Len(r.rest)
                                   /\ x.data = Append(r.data, b)
<1> DEFINE n == r.rest[1]
           s == [r EXCEPT !.rest = Tail(@)]
<1>1. r.rest # <<>> /\ n \in 1..20 /\ x \in ReadBytes(s, n)
  BY DEF ReadCid
<1>2. r.rest \in Seq(Byte) /\ Len(r.rest) \in Nat /\ 1 \in 0..Len(r.rest)
  BY <1>1 DEF Readers
<1> DEFINE one == 1
<1>3. s = [r EXCEPT !.rest = SubSeq(@, one + 1, Len(@))]
  <2>1. Tail(r.rest) = SubSeq(r.rest, one + 1, Len(r.rest))
    BY <1>1, <1>2, TailIsSubSeq
  <2> QED BY <2>1
<1>4. s \in Readers /\ s.ints = r.ints /\ s.data = r.data /\ Len(s.rest) = Len(r.rest) - 1
  <2>1. one = 1 /\ one \in 0..Len(r.rest)
    BY <1>2
  <2>2. s = [r EXCEPT !.rest = SubSeq(@, one + 1, Len(@))]
    BY <1>3
  <2> HIDE DEF one, s
  <2>3. s \in Readers /\ s.ints = r.ints /\ s.data = r.data /\ Len(s.rest) = Len(r.rest) - one
    BY <2>1, <2>2, Passed, ZenonT(60)
  <2> QED BY <2>1, <2>3
<1> HIDE DEF s, n
<1>5. n \in Nat
  BY <1>1
<1>6. /\ x \in Readers /\ Len(x.rest) <= Len(s.rest) /\ x.ints = s.ints
      /\ \E b \in Seq(Byte) : /\ Len(b) = n /\ n <= Len(s.rest)
                              /\ x.data = Append(s.data, b)
  BY <1>1, <1>4, <1>5, ReadBytesFacts
<1>7. PICK b \in Seq(Byte) : /\ Len(b) = n /\ n <= Len(s.rest)
                             /\ x.data = Append(s.data, b)
  BY <1>6
<1>8. Len(s.rest) <= Len(r.rest) /\ Len(x.rest) <= Len(r.rest) /\ Len(b) <= Len(r.rest)
  <2>1. Len(r.rest) \in Nat /\ Len(x.rest) \in Nat /\ Len(s.rest) \in Nat
    BY <1>2, <1>4, <1>6 DEF Readers
  <2> QED BY <1>4, <1>6, <1>7, <2>1
<1> QED BY <1>1, <1>4, <1>6, <1>7, <1>8

\* The steps of a reader: step i takes the readers before it to those after it.
\* after are the values of the recursive function behind ReadInts.
IntsRun(r, n, after) ==
    /\ after[0] = {r}
    /\ \A i \in 0..n : after[i] \in SUBSET Readers
    /\ \A i \in 1..n : after[i] = UNION {ReadInt(x) : x \in after[i - 1]}
    /\ ReadInts(r, n) = after[n]

\* The recursive function behind ReadInts is what it says.
LEMMA IntsSteps ==
    ASSUME NEW r \in Readers, NEW n \in Nat
    PROVE  \E after : IntsRun(r, n, after)
<1> DEFINE P(s) == s = [i \in 0..n |-> IF i = 0 THEN {r} ELSE UNION {ReadInt(x) : x \in s[i - 1]}]
           c == CHOOSE s : P(s)
           R == SUBSET Readers
           step == [i \in 1..n |-> [X \in R |-> UNION {ReadInt(x) : x \in X}]]
<1>1. \A X \in R : UNION {ReadInt(x) : x \in X} \in R
  BY ReadIntFacts
<1>2. \A i \in 1..n : \A X \in R : step[i][X] \in R /\ step[i][X] = UNION {ReadInt(x) : x \in X}
  BY <1>1
<1>3. {r} \in R
  OBVIOUS
<1> HIDE DEF R, step
<1>4. PICK f : Run(n, R, {r}, step, f)
  BY <1>2, <1>3, StepsExist
<1>5. \A i \in 1..n : f[i] = UNION {ReadInt(x) : x \in f[i - 1]}
  <2> SUFFICES ASSUME NEW i \in 1..n PROVE f[i] = UNION {ReadInt(x) : x \in f[i - 1]}
    OBVIOUS
  <2>1. f[i - 1] \in R
    BY <1>4 DEF Run
  <2>2. f[i] = step[i][f[i - 1]]
    BY <1>4 DEF Run
  <2> QED BY <1>2, <2>1, <2>2
<1>6. P(f)
  <2>1. \A i \in 0..n : i = 0 \/ i \in 1..n
    OBVIOUS
  <2>2. \A i \in 0..n : f[i] = IF i = 0 THEN {r} ELSE UNION {ReadInt(x) : x \in f[i - 1]}
    BY <1>4, <1>5, <2>1 DEF Run
  <2> QED BY <1>4, <2>2 DEF Run
<1>7. P(c)
  <2> HIDE DEF P
  <2> QED BY <1>6
<1>8. ReadInts(r, n) = c[n]
  BY DEF ReadInts
<1> HIDE DEF c
<1>9. c[0] = {r} /\ \A i \in 1..n : c[i] = UNION {ReadInt(x) : x \in c[i - 1]}
  <2>1. \A i \in 0..n : c[i] = IF i = 0 THEN {r} ELSE UNION {ReadInt(x) : x \in c[i - 1]}
    BY <1>7
  <2> HIDE DEF P
  <2>2. c[0] = {r}
    <3>1. 0 \in 0..n
      OBVIOUS
    <3> QED BY <2>1, <3>1
  <2>3. ASSUME NEW i \in 1..n PROVE c[i] = UNION {ReadInt(x) : x \in c[i - 1]}
    <3>1. i \in 0..n /\ i # 0
      OBVIOUS
    <3> QED BY <2>1, <3>1
  <2> QED BY <2>2, <2>3
<1> HIDE DEF P
<1>10. \A i \in 0..n : c[i] = f[i]
  <2>1. c[0] = f[0]
    BY <1>4, <1>9 DEF Run
  <2>2. \A i \in 1..n : c[i - 1] = f[i - 1] => c[i] = f[i]
    <3> SUFFICES ASSUME NEW i \in 1..n, c[i - 1] = f[i - 1] PROVE c[i] = f[i]
      OBVIOUS
    <3> QED BY <1>5, <1>9
  <2>8. SameFrom(n, c, f)
    BY <2>1, <2>2 DEF SameFrom
  <2>9. SameUpTo(n, c, f)
    BY <2>1, <2>2, <2>8, SameSteps
  <2> QED BY <2>9 DEF SameUpTo
<1>11. IntsRun(r, n, c)
  BY <1>4, <1>8, <1>9, <1>10 DEF Run, IntsRun, R
<1> QED BY <1>11

\* One integer after the other.
LEMMA ReadIntsNext ==
    ASSUME NEW r \in Readers
    PROVE  /\ ReadInts(r, 0) = {r}
           /\ \A n \in Nat : ReadInts(r, n) \in SUBSET Readers
           /\ \A n \in Nat : ReadInts(r, n + 1) = UNION {ReadInt(x) : x \in ReadInts(r, n)}
<1>1. ReadInts(r, 0) = {r}
  <2>1. PICK a : IntsRun(r, 0, a)
    BY IntsSteps
  <2> QED BY <2>1 DEF IntsRun
<1>2. ASSUME NEW n \in Nat PROVE ReadInts(r, n) \in SUBSET Readers
  <2>1. PICK a : IntsRun(r, n, a)
    BY IntsSteps
  <2> QED BY <2>1 DEF IntsRun
<1>3. ASSUME NEW n \in Nat PROVE ReadInts(r, n + 1) = UNION {ReadInt(x) : x \in ReadInts(r, n)}
  <2>1. PICK a : IntsRun(r, n, a)
    BY IntsSteps
  <2> DEFINE m == n + 1
  <2>2. m \in Nat /\ m \in 1..m /\ m - 1 = n /\ n \in 0..n /\ \A i \in 1..n : i \in 1..m
    OBVIOUS
  <2> HIDE DEF m
  <2>3. PICK b : IntsRun(r, m, b)
    BY <2>2, IntsSteps
  <2>4. \A i \in 0..n : a[i] = b[i]
    <3>1. a[0] = b[0]
      BY <2>1, <2>3 DEF IntsRun
    <3>2. ASSUME NEW i \in 1..n, a[i - 1] = b[i - 1] PROVE a[i] = b[i]
      <4>1. a[i] = UNION {ReadInt(x) : x \in a[i - 1]}
        BY <2>1 DEF IntsRun
      <4>2. b[i] = UNION {ReadInt(x) : x \in b[i - 1]}
        BY <2>2, <2>3 DEF IntsRun
      <4> QED BY <3>2, <4>1, <4>2
    <3>8. SameFrom(n, a, b)
      BY <3>1, <3>2 DEF SameFrom
    <3>9. SameUpTo(n, a, b)
      BY <3>1, <3>2, <3>8, SameSteps
    <3> QED BY <3>9 DEF SameUpTo
  <2>5. b[m] = UNION {ReadInt(x) : x \in b[m - 1]}
    BY <2>2, <2>3 DEF IntsRun
  <2>6. ReadInts(r, m) = b[m] /\ ReadInts(r, n) = a[n] /\ a[n] = b[n] /\ b[m - 1] = b[n]
    BY <2>1, <2>2, <2>3, <2>4 DEF IntsRun
  <2>7. ReadInts(r, m) = UNION {ReadInt(x) : x \in ReadInts(r, n)}
    BY <2>5, <2>6
  <2> QED BY <2>7 DEF m
<1> QED BY <1>1, <1>2, <1>3

\* n integers more, and nothing else.
LEMMA ReadIntsFacts ==
    ASSUME NEW r \in Readers, NEW n \in Nat, NEW x \in ReadInts(r, n)
    PROVE  /\ x \in Readers /\ Len(x.rest) <= Len(r.rest)
           /\ Len(x.ints) = Len(r.ints) + n /\ x.data = r.data
<1> DEFINE Good(y, i) == /\ Len(y.rest) <= Len(r.rest)
                         /\ Len(y.ints) = Len(r.ints) + i /\ y.data = r.data
           S == {i \in Nat : \A y \in ReadInts(r, i) : Good(y, i)}
<1>1. /\ ReadInts(r, 0) = {r}
      /\ \A i \in Nat : ReadInts(r, i) \in SUBSET Readers
      /\ \A i \in Nat : ReadInts(r, i + 1) = UNION {ReadInt(y) : y \in ReadInts(r, i)}
  BY ReadIntsNext
<1>2. \A y \in Readers : Len(y.rest) \in Nat /\ Len(y.ints) \in Nat
  BY DEF Readers
<1>3. 0 \in S
  <2>1. Good(r, 0)
    BY <1>2
  <2> HIDE DEF Good
  <2> QED BY <1>1, <2>1
<1>4. ASSUME NEW i \in Nat, i \in S PROVE i + 1 \in S
  <2> SUFFICES ASSUME NEW z \in ReadInts(r, i + 1) PROVE Good(z, i + 1)
    OBVIOUS
  <2>1. PICK y \in ReadInts(r, i) : z \in ReadInt(y)
    BY <1>1
  <2>2. y \in Readers /\ Good(y, i)
    BY <1>1, <1>4
  <2>3. z \in Readers /\ Len(z.rest) < Len(y.rest) /\ Len(z.ints) = Len(y.ints) + 1 /\ z.data = y.data
    BY <2>1, <2>2, ReadIntFacts
  <2>4. Len(y.ints) = Len(r.ints) + i /\ Len(y.rest) <= Len(r.rest) /\ y.data = r.data
    BY <2>2
  <2>5. /\ Len(y.ints) \in Nat /\ Len(y.rest) \in Nat /\ Len(z.rest) \in Nat
        /\ Len(r.ints) \in Nat /\ Len(r.rest) \in Nat
    BY <1>2, <2>2, <2>3
  <2>6. Len(z.ints) = Len(r.ints) + (i + 1) /\ Len(z.rest) <= Len(r.rest)
    <3> HIDE DEF S, Good
    <3>1. Len(z.ints) = Len(y.ints) + 1
      BY <2>3
    <3>2. Len(z.ints) = Len(r.ints) + (i + 1)
      <4> DEFINE a == Len(r.ints)
                 b == Len(y.ints)
      <4>1. a \in Nat /\ b = a + i /\ Len(z.ints) = b + 1
        BY <3>1, <2>4, <2>5
      <4> HIDE DEF a, b
      <4>2. b + 1 = a + (i + 1)
        BY <4>1
      <4>3. Len(z.ints) = a + (i + 1)
        BY <4>1, <4>2
      <4> QED BY <4>3 DEF a
    <3>3. Len(z.rest) < Len(y.rest)
      BY <2>3
    <3> QED BY <2>4, <2>5, <3>2, <3>3
  <2> QED BY <2>3, <2>4, <2>6
<1> HIDE DEF S
<1>5. \A i \in Nat : i \in S
  BY <1>3, <1>4, Induction
<1>6. Good(x, n)
  <2>1. n \in S
    BY <1>5
  <2> HIDE DEF Good
  <2> QED BY <2>1 DEF S
<1> QED BY <1>1, <1>6

\* The ranges of an ACK frame: an odd number of integers more.
LEMMA ReadRangesFacts ==
    ASSUME NEW r \in Readers, NEW x \in ReadRanges(r)
    PROVE  /\ x \in Readers /\ Len(x.rest) <= Len(r.rest) /\ x.data = r.data
           /\ \E k \in 0..Len(r.rest) : Len(x.ints) = Len(r.ints) + (1 + 2 * k)
<1>1. PICK d \in Decode(r.rest) :
          LET after == [r EXCEPT !.rest = SubSeq(@, d.len + 1, Len(@))]
          IN  x \in IF d.value > Len(after.rest) THEN {} ELSE ReadInts(after, 1 + 2 * d.value)
  BY DEF ReadRanges
<1>2. r.rest \in Seq(Byte)
  BY DEF Readers
<1> DEFINE n == d.len
           k == d.value
           s == [r EXCEPT !.rest = SubSeq(@, n + 1, Len(@))]
<1>3. k \in Nat /\ n \in 1..Len(r.rest)
  BY <1>2, DecodeFacts
<1>4. ~(k > Len(s.rest)) /\ x \in ReadInts(s, 1 + 2 * k)
  BY <1>1
<1>5. n \in 0..Len(r.rest) /\ s = [r EXCEPT !.rest = SubSeq(@, n + 1, Len(@))]
  BY <1>3
<1> HIDE DEF s, n, k
<1>6. s \in Readers /\ s.ints = r.ints /\ s.data = r.data /\ Len(s.rest) = Len(r.rest) - n
  BY <1>5, Passed
<1> DEFINE m == 1 + 2 * k
<1>7. m \in Nat /\ x \in ReadInts(s, m)
  BY <1>3, <1>4
<1> HIDE DEF m
<1>8. x \in Readers /\ Len(x.rest) <= Len(s.rest) /\ Len(x.ints) = Len(s.ints) + m /\ x.data = s.data
  BY <1>6, <1>7, ReadIntsFacts
<1>9. Len(r.rest) \in Nat /\ Len(x.rest) \in Nat
  BY <1>2, <1>8 DEF Readers
<1>10. Len(x.rest) <= Len(r.rest) /\ k \in 0..Len(r.rest)
  BY <1>3, <1>4, <1>6, <1>8, <1>9
<1> QED BY <1>6, <1>8, <1>10 DEF m

-----------------------------------------------------------------------------
(* Fields.                                                                 *)

\* What a layout is made of.
Fields == {"int", "zero", "bytes", "rest", "cid", "token", "path", "ranges"}

\* What each field is read by.
LEMMA FieldReaders ==
    ASSUME NEW r
    PROVE  /\ ReadField(r, "int") = ReadInt(r)
           /\ ReadField(r, "zero") = {[r EXCEPT !.ints = Append(@, 0)]}
           /\ ReadField(r, "bytes") = ReadVarIntBytes(r)
           /\ ReadField(r, "rest") = ReadBytes(r, Len(r.rest))
           /\ ReadField(r, "cid") = ReadCid(r)
           /\ ReadField(r, "token") = ReadBytes(r, 16)
           /\ ReadField(r, "path") = ReadBytes(r, 8)
           /\ ReadField(r, "ranges") = ReadRanges(r)
  BY DEF ReadField

\* An offset that is left out.
LEMMA ReadZeroFacts ==
    ASSUME NEW r \in Readers
    PROVE  /\ [r EXCEPT !.ints = Append(@, 0)] = Reader(r.rest, Append(r.ints, 0), r.data)
           /\ Append(r.ints, 0) \in Seq(Fit) /\ Len(Append(r.ints, 0)) = Len(r.ints) + 1
<1>1. 0 \in Fit
  <2>1. /\ Shift(0, 1) <= Shift(0, 0) /\ Shift(0, 3) <= Shift(0, 1) /\ Shift(0, 7) <= Shift(0, 3)
    BY ShiftDecreases
  <2>2. Shift(0, 0) = 0 /\ \A k \in Nat : Shift(0, k) \in Nat
    BY ShiftFacts
  <2>3. Shift(0, 1) \in Nat /\ Shift(0, 3) \in Nat /\ Shift(0, 7) \in Nat
    BY <2>2
  <2>4. Shift(0, 7) = 0
    BY <2>1, <2>2, <2>3
  <2> QED BY <2>4, ByteFacts DEF Fit, TooLarge
<1>2. r.rest \in Seq(Byte) /\ r.ints \in Seq(Fit) /\ r.data \in Seq(Seq(Byte))
  BY DEF Readers
<1>3. [r EXCEPT !.ints = Append(@, 0)] = Reader(r.rest, Append(r.ints, 0), r.data)
  <2> DEFINE a == Append(r.ints, 0)
  <2>1. [r EXCEPT !.ints = Append(@, 0)] = [r EXCEPT !.ints = a]
    OBVIOUS
  <2> HIDE DEF a
  <2>2. [r EXCEPT !.ints = a] = [rest |-> r.rest, ints |-> a, data |-> r.data]
    <3>1. r = [rest |-> r.rest, ints |-> r.ints, data |-> r.data]
      BY DEF Readers
    <3> DEFINE p == r.rest
               q == r.ints
               t == r.data
    <3>2. r = [rest |-> p, ints |-> q, data |-> t]
      BY <3>1
    <3> HIDE DEF p, q, t
    <3>3. [[rest |-> p, ints |-> q, data |-> t] EXCEPT !.ints = a] = [rest |-> p, ints |-> a, data |-> t]
      OBVIOUS
    <3> QED BY <3>2, <3>3 DEF p, t
  <2> QED BY <2>1, <2>2 DEF Reader, a
<1> QED BY <1>1, <1>2, <1>3

\* Reading a field leaves a reader, with no more than there was.
LEMMA ReadFieldFacts ==
    ASSUME NEW r \in Readers, NEW field \in Fields, NEW x \in ReadField(r, field)
    PROVE  x \in Readers /\ Len(x.rest) <= Len(r.rest)
<1>1. r.rest \in Seq(Byte) /\ r.ints \in Seq(Fit) /\ r.data \in Seq(Seq(Byte)) /\ Len(r.rest) \in Nat
  BY DEF Readers
<1>2. CASE field = "int"
  <2>1. x \in ReadInt(r)
    BY <1>2, FieldReaders
  <2>2. x \in Readers /\ Len(x.rest) < Len(r.rest)
    BY <2>1, ReadIntFacts
  <2>3. Len(x.rest) \in Nat
    BY <2>2 DEF Readers
  <2> QED BY <1>1, <2>2, <2>3
<1>3. CASE field = "zero"
  <2> DEFINE a == Append(r.ints, 0)
  <2>1. x = [r EXCEPT !.ints = Append(@, 0)]
    BY <1>3, FieldReaders
  <2>2. x \in Readers /\ x.rest = r.rest
    <3>1. [r EXCEPT !.ints = Append(@, 0)] = Reader(r.rest, a, r.data) /\ a \in Seq(Fit)
      BY ReadZeroFacts
    <3> HIDE DEF a
    <3>2. Reader(r.rest, a, r.data) \in Readers /\ Reader(r.rest, a, r.data).rest = r.rest
      BY <1>1, <3>1, ReaderFields
    <3> QED BY <2>1, <3>1, <3>2
  <2> QED BY <1>1, <2>2
<1>4. CASE field = "bytes"
  <2>1. x \in ReadVarIntBytes(r)
    BY <1>4, FieldReaders
  <2> QED BY <2>1, ReadVarIntBytesFacts
<1>5. CASE field = "rest" \/ field = "token" \/ field = "path"
  <2>1. \E n \in Nat : x \in ReadBytes(r, n)
    <3>1. x \in ReadBytes(r, Len(r.rest)) \/ x \in ReadBytes(r, 16) \/ x \in ReadBytes(r, 8)
      BY <1>5, FieldReaders
    <3> QED BY <1>1, <3>1
  <2> QED BY <2>1, ReadBytesFacts
<1>6. CASE field = "cid"
  <2>1. x \in ReadCid(r)
    BY <1>6, FieldReaders
  <2> QED BY <2>1, ReadCidFacts
<1>7. CASE field = "ranges"
  <2>1. x \in ReadRanges(r)
    BY <1>7, FieldReaders
  <2> QED BY <2>1, ReadRangesFacts
<1> QED BY <1>2, <1>3, <1>4, <1>5, <1>6, <1>7 DEF Fields

\* after are the values of the recursive function behind ReadFields.
FieldsRun(r, fs, after) ==
    /\ after[0] = {r}
    /\ \A i \in 0..Len(fs) : after[i] \in SUBSET Readers
    /\ \A i \in 1..Len(fs) : after[i] = UNION {ReadField(x, fs[i]) : x \in after[i - 1]}
    /\ ReadFields(r, fs) = after[Len(fs)]

\* The recursive function behind ReadFields is what it says.
LEMMA FieldsSteps ==
    ASSUME NEW r \in Readers, NEW fs \in Seq(Fields)
    PROVE  \E after : FieldsRun(r, fs, after)
<1> DEFINE n == Len(fs)
           P(s) == s = [i \in 0..Len(fs) |-> IF i = 0 THEN {r}
                                             ELSE UNION {ReadField(x, fs[i]) : x \in s[i - 1]}]
           c == CHOOSE s : P(s)
           R == SUBSET Readers
           step == [i \in 1..n |-> [X \in R |-> UNION {ReadField(x, fs[i]) : x \in X}]]
<1>1. n \in Nat /\ \A i \in 1..n : fs[i] \in Fields
  OBVIOUS
<1>2. ReadFields(r, fs) = c[n]
  BY DEF ReadFields
<1>3. \A s : P(s) <=> s = [i \in 0..n |-> IF i = 0 THEN {r}
                                          ELSE UNION {ReadField(x, fs[i]) : x \in s[i - 1]}]
  OBVIOUS
<1> HIDE DEF n, c, P
<1>4. ASSUME NEW i \in 1..n, NEW X \in R
      PROVE  step[i][X] \in R /\ step[i][X] = UNION {ReadField(x, fs[i]) : x \in X}
  <2>1. UNION {ReadField(x, fs[i]) : x \in X} \in R
    <3>1. \A x \in X : ReadField(x, fs[i]) \subseteq Readers
      <4> SUFFICES ASSUME NEW x \in X, NEW y \in ReadField(x, fs[i]) PROVE y \in Readers
        OBVIOUS
      <4>1. x \in Readers /\ fs[i] \in Fields
        BY <1>1
      <4> QED BY <4>1, ReadFieldFacts
    <3> QED BY <3>1
  <2> QED BY <2>1
<1>5. {r} \in R
  OBVIOUS
<1> HIDE DEF R, step
<1>6. PICK f : Run(n, R, {r}, step, f)
  BY <1>1, <1>4, <1>5, StepsExist
<1>7. \A i \in 1..n : f[i] = UNION {ReadField(x, fs[i]) : x \in f[i - 1]}
  <2> SUFFICES ASSUME NEW i \in 1..n PROVE f[i] = UNION {ReadField(x, fs[i]) : x \in f[i - 1]}
    OBVIOUS
  <2>1. f[i - 1] \in R
    <3>1. i - 1 \in 0..n
      BY <1>1
    <3> QED BY <1>6, <3>1 DEF Run
  <2>2. f[i] = step[i][f[i - 1]]
    BY <1>6 DEF Run
  <2> QED BY <1>4, <2>1, <2>2
<1>8. P(f)
  <2>1. \A i \in 0..n : i = 0 \/ i \in 1..n
    OBVIOUS
  <2>2. \A i \in 0..n : f[i] = IF i = 0 THEN {r} ELSE UNION {ReadField(x, fs[i]) : x \in f[i - 1]}
    BY <1>6, <1>7, <2>1 DEF Run
  <2>3. f = [i \in 0..n |-> IF i = 0 THEN {r} ELSE UNION {ReadField(x, fs[i]) : x \in f[i - 1]}]
    BY <1>6, <2>2 DEF Run
  <2> QED BY <1>3, <2>3
<1>9. P(c)
  BY <1>8 DEF c
<1>10. c[0] = {r} /\ \A i \in 1..n : c[i] = UNION {ReadField(x, fs[i]) : x \in c[i - 1]}
  <2>1. c = [i \in 0..n |-> IF i = 0 THEN {r} ELSE UNION {ReadField(x, fs[i]) : x \in c[i - 1]}]
    BY <1>3, <1>9
  <2>2. \A i \in 0..n : c[i] = IF i = 0 THEN {r} ELSE UNION {ReadField(x, fs[i]) : x \in c[i - 1]}
    BY <2>1
  <2>3. c[0] = {r}
    <3>1. 0 \in 0..n
      BY <1>1
    <3> QED BY <2>2, <3>1
  <2>4. ASSUME NEW i \in 1..n PROVE c[i] = UNION {ReadField(x, fs[i]) : x \in c[i - 1]}
    <3>1. i \in 0..n /\ i # 0
      OBVIOUS
    <3> QED BY <2>2, <3>1
  <2> QED BY <2>3, <2>4
<1>11. \A i \in 0..n : c[i] = f[i]
  <2>1. c[0] = f[0]
    BY <1>6, <1>10 DEF Run
  <2>2. \A i \in 1..n : c[i - 1] = f[i - 1] => c[i] = f[i]
    <3> SUFFICES ASSUME NEW i \in 1..n, c[i - 1] = f[i - 1] PROVE c[i] = f[i]
      OBVIOUS
    <3> QED BY <1>7, <1>10
  <2>8. SameFrom(n, c, f)
    BY <1>1, <2>1, <2>2 DEF SameFrom
  <2>9. SameUpTo(n, c, f)
    BY <1>1, <2>1, <2>2, <2>8, SameSteps
  <2> QED BY <2>9 DEF SameUpTo
<1>12. \A i \in 0..n : c[i] \in SUBSET Readers
  BY <1>6, <1>11 DEF Run, R
<1>13. FieldsRun(r, fs, c)
  BY <1>2, <1>10, <1>12 DEF FieldsRun, n
<1> QED BY <1>13

\* One field after the other.
LEMMA ReadFieldsNext ==
    ASSUME NEW r \in Readers
    PROVE  /\ ReadFields(r, <<>>) = {r}
           /\ \A fs \in Seq(Fields) : ReadFields(r, fs) \in SUBSET Readers
           /\ \A fs \in Seq(Fields), field \in Fields :
                  ReadFields(r, Append(fs, field)) =
                      UNION {ReadField(x, field) : x \in ReadFields(r, fs)}
<1>1. ReadFields(r, <<>>) = {r}
  <2>1. <<>> \in Seq(Fields) /\ Len(<<>>) = 0
    OBVIOUS
  <2>2. PICK a : FieldsRun(r, <<>>, a)
    BY <2>1, FieldsSteps
  <2> QED BY <2>1, <2>2 DEF FieldsRun
<1>2. ASSUME NEW fs \in Seq(Fields) PROVE ReadFields(r, fs) \in SUBSET Readers
  <2>1. PICK a : FieldsRun(r, fs, a)
    BY FieldsSteps
  <2>2. Len(fs) \in 0..Len(fs)
    OBVIOUS
  <2> QED BY <2>1, <2>2 DEF FieldsRun
<1>3. ASSUME NEW fs \in Seq(Fields), NEW field \in Fields
      PROVE  ReadFields(r, Append(fs, field)) =
                 UNION {ReadField(x, field) : x \in ReadFields(r, fs)}
  <2> DEFINE gs == Append(fs, field)
             n == Len(fs)
             m == n + 1
  <2>1. /\ gs \in Seq(Fields) /\ Len(gs) = m /\ gs[m] = field /\ n \in Nat
        /\ \A i \in 1..n : gs[i] = fs[i]
    OBVIOUS
  <2>2. m \in Nat /\ m \in 1..m /\ m - 1 = n /\ n \in 0..n /\ \A i \in 1..n : i \in 1..m
    OBVIOUS
  <2> HIDE DEF gs, m
  <2>3. PICK a : FieldsRun(r, fs, a)
    BY FieldsSteps
  <2>4. PICK b : FieldsRun(r, gs, b)
    BY <2>1, FieldsSteps
  <2>5. \A i \in 0..n : a[i] = b[i]
    <3>1. a[0] = b[0]
      BY <2>3, <2>4 DEF FieldsRun
    <3>2. ASSUME NEW i \in 1..n, a[i - 1] = b[i - 1] PROVE a[i] = b[i]
      <4>1. a[i] = UNION {ReadField(x, fs[i]) : x \in a[i - 1]}
        BY <2>3 DEF FieldsRun
      <4>2. b[i] = UNION {ReadField(x, gs[i]) : x \in b[i - 1]}
        BY <2>1, <2>2, <2>4 DEF FieldsRun
      <4> QED BY <2>1, <3>2, <4>1, <4>2
    <3>3. n \in Nat /\ \A i \in 1..n : a[i - 1] = b[i - 1] => a[i] = b[i]
      BY <3>2
    <3> HIDE DEF n
    <3>8. SameFrom(n, a, b)
      BY <3>1, <3>3 DEF SameFrom
    <3>9. SameUpTo(n, a, b)
      BY <3>1, <3>3, <3>8, SameSteps
    <3> QED BY <3>9 DEF SameUpTo
  <2>6. b[m] = UNION {ReadField(x, gs[m]) : x \in b[m - 1]}
    BY <2>1, <2>2, <2>4 DEF FieldsRun
  <2>7. ReadFields(r, gs) = b[m] /\ ReadFields(r, fs) = a[n] /\ a[n] = b[n] /\ b[m - 1] = b[n]
    BY <2>1, <2>2, <2>3, <2>4, <2>5 DEF FieldsRun
  <2>8. ReadFields(r, gs) = UNION {ReadField(x, field) : x \in ReadFields(r, fs)}
    BY <2>1, <2>6, <2>7
  <2> QED BY <2>8 DEF gs
<1> QED BY <1>1, <1>2, <1>3

\* Reading fields leaves no more than there was.
LEMMA ReadFieldsFacts ==
    ASSUME NEW r \in Readers, NEW fs \in Seq(Fields), NEW x \in ReadFields(r, fs)
    PROVE  x \in Readers /\ Len(x.rest) <= Len(r.rest)
<1>1. PICK after : FieldsRun(r, fs, after)
  BY FieldsSteps
<1> DEFINE S == {i \in Nat : i <= Len(fs) => \A y \in after[i] : y \in Readers /\ Len(y.rest) <= Len(r.rest)}
<1>0. \A y \in Readers : Len(y.rest) \in Nat
  BY DEF Readers
<1>2. 0 \in S
  <2>1. after[0] = {r} /\ Len(r.rest) \in Nat
    BY <1>0, <1>1 DEF FieldsRun
  <2> QED BY <2>1
<1>3. ASSUME NEW i \in Nat, i \in S PROVE i + 1 \in S
  <2> SUFFICES ASSUME i + 1 <= Len(fs), NEW y \in after[i + 1]
               PROVE  y \in Readers /\ Len(y.rest) <= Len(r.rest)
    OBVIOUS
  <2>1. i + 1 \in 1..Len(fs) /\ (i + 1) - 1 = i /\ i <= Len(fs)
    OBVIOUS
  <2>2. after[i + 1] = UNION {ReadField(z, fs[i + 1]) : z \in after[i]}
    BY <1>1, <2>1 DEF FieldsRun
  <2>3. PICK z \in after[i] : y \in ReadField(z, fs[i + 1])
    BY <2>2
  <2>4. z \in Readers /\ Len(z.rest) <= Len(r.rest)
    BY <1>3, <2>1
  <2>5. fs[i + 1] \in Fields
    BY <2>1
  <2>6. y \in Readers /\ Len(y.rest) <= Len(z.rest)
    BY <2>3, <2>4, <2>5, ReadFieldFacts
  <2>7. Len(y.rest) \in Nat /\ Len(z.rest) \in Nat /\ Len(r.rest) \in Nat
    BY <1>0, <2>4, <2>6
  <2> QED BY <2>4, <2>6, <2>7
<1> HIDE DEF S
<1>4. Len(fs) \in S
  <2>1. \A i \in Nat : i \in S
    BY <1>2, <1>3, Induction
  <2> QED BY <2>1
<1> QED BY <1>1, <1>4 DEF S, FieldsRun

-----------------------------------------------------------------------------
(* Types.                                                                  *)

\* The kinds, by number.
LEMMA KindTable ==
    /\ KindOf(0) = "PADDING" /\ KindOf(1) = "PING"
    /\ KindOf(2) = "ACK" /\ KindOf(3) = "ACK"
    /\ KindOf(4) = "RESET_STREAM" /\ KindOf(5) = "STOP_SENDING"
    /\ KindOf(6) = "CRYPTO" /\ KindOf(7) = "NEW_TOKEN"
    /\ KindOf(8) = "STREAM" /\ KindOf(9) = "STREAM"
    /\ KindOf(10) = "STREAM" /\ KindOf(11) = "STREAM"
    /\ KindOf(12) = "STREAM" /\ KindOf(13) = "STREAM"
    /\ KindOf(14) = "STREAM" /\ KindOf(15) = "STREAM"
    /\ KindOf(16) = "MAX_DATA" /\ KindOf(17) = "MAX_STREAM_DATA"
    /\ KindOf(18) = "MAX_STREAMS" /\ KindOf(19) = "MAX_STREAMS"
    /\ KindOf(20) = "DATA_BLOCKED" /\ KindOf(21) = "STREAM_DATA_BLOCKED"
    /\ KindOf(22) = "STREAMS_BLOCKED" /\ KindOf(23) = "STREAMS_BLOCKED"
    /\ KindOf(24) = "NEW_CONNECTION_ID" /\ KindOf(25) = "RETIRE_CONNECTION_ID"
    /\ KindOf(26) = "PATH_CHALLENGE" /\ KindOf(27) = "PATH_RESPONSE"
    /\ KindOf(28) = "CONNECTION_CLOSE" /\ KindOf(29) = "CONNECTION_CLOSE"
    /\ KindOf(30) = "HANDSHAKE_DONE"
  BY DEF KindOf

\* There are 31 types.
LEMMA TypeCases ==
    ASSUME NEW t \in 0..MaxType
    PROVE  \/ t = 0 \/ t = 1 \/ t = 2 \/ t = 3 \/ t = 4 \/ t = 5 \/ t = 6 \/ t = 7
           \/ t = 8 \/ t = 9 \/ t = 10 \/ t = 11 \/ t = 12 \/ t = 13 \/ t = 14 \/ t = 15
           \/ t = 16 \/ t = 17 \/ t = 18 \/ t = 19 \/ t = 20 \/ t = 21 \/ t = 22 \/ t = 23
           \/ t = 24 \/ t = 25 \/ t = 26 \/ t = 27 \/ t = 28 \/ t = 29 \/ t = 30
  BY DEF MaxType

\* A tuple of two, as its last element was appended.
LEMMA AppendTwo ==
    ASSUME NEW S, NEW a \in S, NEW b \in S
    PROVE  Append(<<a>>, b) = <<a, b>>
<1> DEFINE s == Append(<<a>>, b)
           t == <<a, b>>
<1>1. s \in Seq(S) /\ t \in Seq(S) /\ Len(s) = 2 /\ Len(t) = 2
  OBVIOUS
<1>2. s[1] = t[1] /\ s[2] = t[2]
  OBVIOUS
<1> HIDE DEF s, t
<1>3. \A i \in 1..Len(s) : i = 1 \/ i = 2
  BY <1>1
<1>4. s = t
  BY <1>1, <1>2, <1>3, SeqEqual
<1> QED BY <1>4 DEF s, t

\* A tuple of three, as its last element was appended.
LEMMA AppendThree ==
    ASSUME NEW S, NEW a \in S, NEW b \in S, NEW c \in S
    PROVE  Append(<<a, b>>, c) = <<a, b, c>>
<1> DEFINE s == Append(<<a, b>>, c)
           t == <<a, b, c>>
<1>1. s \in Seq(S) /\ t \in Seq(S) /\ Len(s) = 3 /\ Len(t) = 3
  OBVIOUS
<1>2. s[1] = t[1] /\ s[2] = t[2] /\ s[3] = t[3]
  OBVIOUS
<1> HIDE DEF s, t
<1>3. \A i \in 1..Len(s) : i = 1 \/ i = 2 \/ i = 3
  BY <1>1
<1>4. s = t
  BY <1>1, <1>2, <1>3, SeqEqual
<1> QED BY <1>4 DEF s, t

\* A tuple of four, as its last element was appended.
LEMMA AppendFour ==
    ASSUME NEW S, NEW a \in S, NEW b \in S, NEW c \in S, NEW d \in S
    PROVE  Append(<<a, b, c>>, d) = <<a, b, c, d>>
<1> DEFINE s == Append(<<a, b, c>>, d)
           t == <<a, b, c, d>>
<1>1. s \in Seq(S) /\ t \in Seq(S) /\ Len(s) = 4 /\ Len(t) = 4
  OBVIOUS
<1>2. s[1] = t[1] /\ s[2] = t[2] /\ s[3] = t[3] /\ s[4] = t[4]
  OBVIOUS
<1> HIDE DEF s, t
<1>3. \A i \in 1..Len(s) : i = 1 \/ i = 2 \/ i = 3 \/ i = 4
  BY <1>1
<1>4. s = t
  BY <1>1, <1>2, <1>3, SeqEqual
<1> QED BY <1>4 DEF s, t

\* A tuple of five, as its last element was appended.
LEMMA AppendFive ==
    ASSUME NEW S, NEW a \in S, NEW b \in S, NEW c \in S, NEW d \in S, NEW e \in S
    PROVE  Append(<<a, b, c, d>>, e) = <<a, b, c, d, e>>
<1> DEFINE s == Append(<<a, b, c, d>>, e)
           t == <<a, b, c, d, e>>
<1>1. s \in Seq(S) /\ t \in Seq(S) /\ Len(s) = 5 /\ Len(t) = 5
  OBVIOUS
<1>2. s[1] = t[1] /\ s[2] = t[2] /\ s[3] = t[3] /\ s[4] = t[4] /\ s[5] = t[5]
  OBVIOUS
<1> HIDE DEF s, t
<1>3. \A i \in 1..Len(s) : i = 1 \/ i = 2 \/ i = 3 \/ i = 4 \/ i = 5
  BY <1>1
<1>4. s = t
  BY <1>1, <1>2, <1>3, SeqEqual
<1> QED BY <1>4 DEF s, t

\* A tuple of six, as its last element was appended.
LEMMA AppendSix ==
    ASSUME NEW S, NEW a \in S, NEW b \in S, NEW c \in S, NEW d \in S, NEW e \in S, NEW f \in S
    PROVE  Append(<<a, b, c, d, e>>, f) = <<a, b, c, d, e, f>>
<1> DEFINE s == Append(<<a, b, c, d, e>>, f)
           t == <<a, b, c, d, e, f>>
<1>1. s \in Seq(S) /\ t \in Seq(S) /\ Len(s) = 6 /\ Len(t) = 6
  OBVIOUS
<1>2. s[1] = t[1] /\ s[2] = t[2] /\ s[3] = t[3] /\ s[4] = t[4] /\ s[5] = t[5] /\ s[6] = t[6]
  OBVIOUS
<1> HIDE DEF s, t
<1>3. \A i \in 1..Len(s) : i = 1 \/ i = 2 \/ i = 3 \/ i = 4 \/ i = 5 \/ i = 6
  BY <1>1
<1>4. s = t
  BY <1>1, <1>2, <1>3, SeqEqual
<1> QED BY <1>4 DEF s, t

\* Two triples in a row.
LEMMA TwoTriples ==
    ASSUME NEW S, NEW a \in S, NEW b \in S, NEW c \in S, NEW d \in S, NEW e \in S, NEW f \in S
    PROVE  <<a, b, c>> \o <<d, e, f>> = <<a, b, c, d, e, f>>
<1> DEFINE s == <<a, b, c>> \o <<d, e, f>>
           t == <<a, b, c, d, e, f>>
<1>1. s \in Seq(S) /\ t \in Seq(S) /\ Len(s) = 6 /\ Len(t) = 6
  OBVIOUS
<1>2. s[1] = t[1] /\ s[2] = t[2] /\ s[3] = t[3] /\ s[4] = t[4] /\ s[5] = t[5] /\ s[6] = t[6]
  OBVIOUS
<1> HIDE DEF s, t
<1>3. \A i \in 1..Len(s) : i = 1 \/ i = 2 \/ i = 3 \/ i = 4 \/ i = 5 \/ i = 6
  BY <1>1
<1>4. s = t
  BY <1>1, <1>2, <1>3, SeqEqual
<1> QED BY <1>4 DEF s, t

\* The kinds of frames.
Kinds == {"PADDING", "PING", "ACK", "RESET_STREAM", "STOP_SENDING", "CRYPTO", "NEW_TOKEN", "STREAM",
          "MAX_DATA", "MAX_STREAM_DATA", "MAX_STREAMS", "DATA_BLOCKED", "STREAM_DATA_BLOCKED",
          "STREAMS_BLOCKED", "NEW_CONNECTION_ID", "RETIRE_CONNECTION_ID", "PATH_CHALLENGE",
          "PATH_RESPONSE", "CONNECTION_CLOSE", "HANDSHAKE_DONE"}

\* Every type has a kind.
LEMMA KindOfType ==
    ASSUME NEW t \in 0..MaxType
    PROVE  KindOf(t) \in Kinds
  BY TypeCases, KindTable DEF Kinds

\* What follows a type, by its kind and flags.
LEMMA LayoutOfKind ==
    ASSUME NEW t
    PROVE  /\ KindOf(t) \in {"PADDING", "PING", "HANDSHAKE_DONE"} => Layout(t) = <<>>
           /\ KindOf(t) = "ACK" /\ ~FinBit(t) => Layout(t) = <<"int", "int", "ranges">>
           /\ KindOf(t) = "ACK" /\ FinBit(t) =>
                  Layout(t) = <<"int", "int", "ranges", "int", "int", "int">>
           /\ KindOf(t) = "RESET_STREAM" => Layout(t) = <<"int", "int", "int">>
           /\ KindOf(t) \in {"STOP_SENDING", "MAX_STREAM_DATA", "STREAM_DATA_BLOCKED"} =>
                  Layout(t) = <<"int", "int">>
           /\ KindOf(t) \in {"MAX_DATA", "MAX_STREAMS", "DATA_BLOCKED", "STREAMS_BLOCKED",
                             "RETIRE_CONNECTION_ID"} => Layout(t) = <<"int">>
           /\ KindOf(t) = "CRYPTO" => Layout(t) = <<"int", "bytes">>
           /\ KindOf(t) = "NEW_TOKEN" => Layout(t) = <<"bytes">>
           /\ KindOf(t) = "STREAM" =>
                  Layout(t) = <<"int", IF OffBit(t) THEN "int" ELSE "zero",
                                IF LenBit(t) THEN "bytes" ELSE "rest">>
           /\ KindOf(t) = "NEW_CONNECTION_ID" => Layout(t) = <<"int", "int", "cid", "token">>
           /\ KindOf(t) \in {"PATH_CHALLENGE", "PATH_RESPONSE"} => Layout(t) = <<"path">>
           /\ KindOf(t) = "CONNECTION_CLOSE" /\ BitOf(t) => Layout(t) = <<"int", "int", "bytes">>
           /\ KindOf(t) = "CONNECTION_CLOSE" /\ ~BitOf(t) => Layout(t) = <<"int", "bytes">>
<1>1. CASE KindOf(t) = "ACK"
  <2>1. Layout(t) = <<"int", "int", "ranges">> \o IF FinBit(t) THEN <<"int", "int", "int">> ELSE <<>>
    BY <1>1 DEF Layout
  <2>2. /\ <<"int", "int", "ranges">> \o <<"int", "int", "int">>
               = <<"int", "int", "ranges", "int", "int", "int">>
        /\ <<"int", "int", "ranges">> \o <<>> = <<"int", "int", "ranges">>
    <3>1. "int" \in Fields /\ "ranges" \in Fields
      BY DEF Fields
    <3> DEFINE i == "int"
               j == "ranges"
    <3>2. i \in Fields /\ j \in Fields
      BY <3>1
    <3> HIDE DEF i, j
    <3>3. <<i, i, j>> \o <<i, i, i>> = <<i, i, j, i, i, i>>
      BY <3>2, TwoTriples
    <3>4. <<i, i, j>> \o <<>> = <<i, i, j>>
      BY <3>2
    <3> QED BY <3>3, <3>4 DEF i, j
  <2> QED BY <1>1, <2>1, <2>2
<1>2. CASE KindOf(t) \in {"STREAM", "CONNECTION_CLOSE"}
  BY <1>2 DEF Layout
<1>3. CASE KindOf(t) \notin {"ACK", "STREAM", "CONNECTION_CLOSE"}
  BY <1>3 DEF Layout
<1> QED BY <1>1, <1>2, <1>3

\* What follows a type can be read.
LEMMA LayoutFields ==
    ASSUME NEW t \in 0..MaxType
    PROVE  Layout(t) \in Seq(Fields)
<1>1. \A a, b, c, d, e, f \in Fields :
          /\ <<>> \in Seq(Fields) /\ <<a>> \in Seq(Fields) /\ <<a, b>> \in Seq(Fields)
          /\ <<a, b, c>> \in Seq(Fields) /\ <<a, b, c, d>> \in Seq(Fields)
          /\ <<a, b, c, d, e, f>> \in Seq(Fields)
  OBVIOUS
<1>2. /\ "int" \in Fields /\ "zero" \in Fields /\ "bytes" \in Fields /\ "rest" \in Fields
      /\ "cid" \in Fields /\ "token" \in Fields /\ "path" \in Fields /\ "ranges" \in Fields
  BY DEF Fields
<1>3. KindOf(t) \in Kinds
  BY KindOfType
<1>4. \/ Layout(t) \in {<<>>, <<"int", "int", "ranges">>, <<"int", "int", "int">>, <<"int", "int">>,
                        <<"int">>, <<"int", "bytes">>, <<"bytes">>, <<"path">>,
                        <<"int", "int", "bytes">>, <<"int", "int", "cid", "token">>,
                        <<"int", "int", "ranges", "int", "int", "int">>}
      \/ Layout(t) = <<"int", IF OffBit(t) THEN "int" ELSE "zero",
                       IF LenBit(t) THEN "bytes" ELSE "rest">>
  BY <1>3, LayoutOfKind DEF Kinds
<1>5. <<"int", IF OffBit(t) THEN "int" ELSE "zero", IF LenBit(t) THEN "bytes" ELSE "rest">> \in Seq(Fields)
  BY <1>1, <1>2
<1>6. /\ <<>> \in Seq(Fields)
      /\ <<"int", "int", "ranges">> \in Seq(Fields)
      /\ <<"int", "int", "int">> \in Seq(Fields)
      /\ <<"int", "int">> \in Seq(Fields)
      /\ <<"int">> \in Seq(Fields)
      /\ <<"int", "bytes">> \in Seq(Fields)
      /\ <<"bytes">> \in Seq(Fields)
      /\ <<"path">> \in Seq(Fields)
      /\ <<"int", "int", "bytes">> \in Seq(Fields)
      /\ <<"int", "int", "cid", "token">> \in Seq(Fields)
      /\ <<"int", "int", "ranges", "int", "int", "int">> \in Seq(Fields)
  BY <1>1, <1>2
<1> QED BY <1>4, <1>5, <1>6, Zenon

-----------------------------------------------------------------------------
(* What is parsed.                                                         *)

\* How many integers a reader has, the lengths of its byte strings, and that
\* none is longer than m.
Has(x, counts, lens, m) ==
    /\ Len(x.ints) \in counts
    /\ Len(x.data) = Len(lens)
    /\ \A i \in 1..Len(lens) : Len(x.data[i]) \in lens[i] /\ Len(x.data[i]) <= m

\* Every reader that is left by these fields.
AllHave(r, fs, counts, lens, m) == \A x \in ReadFields(r, fs) : Has(x, counts, lens, m)

\* A byte string more.
LEMMA HasString ==
    ASSUME NEW x \in Readers, NEW y \in Readers, NEW b \in Seq(Byte), NEW m \in Nat,
           NEW counts, NEW lens \in Seq(SUBSET Nat), NEW L \in SUBSET Nat,
           Has(x, counts, lens, m), y.ints = x.ints, y.data = Append(x.data, b),
           Len(b) \in L, Len(b) <= m
    PROVE  Has(y, counts, Append(lens, L), m)
<1> DEFINE more == Append(lens, L)
           data == x.data
           n == Len(lens)
<1>1. data \in Seq(Seq(Byte)) /\ Len(data) = n /\ n \in Nat
  BY DEF Readers, Has
<1>2. \A i \in 1..n : Len(data[i]) \in lens[i] /\ Len(data[i]) <= m
  BY DEF Has
<1>3. /\ Len(more) = n + 1 /\ \A i \in 1..n : more[i] = lens[i]
      /\ more[n + 1] = L
  OBVIOUS
<1> HIDE DEF more, data
<1>4. /\ Len(y.data) = n + 1 /\ \A i \in 1..n : y.data[i] = data[i]
      /\ y.data[n + 1] = b
  BY <1>1 DEF data
<1> HIDE DEF n
<1>5. \A i \in 1..(n + 1) : i \in 1..n \/ i = n + 1
  BY <1>1
<1>6. \A i \in 1..(n + 1) : Len(y.data[i]) \in more[i] /\ Len(y.data[i]) <= m
  <2> SUFFICES ASSUME NEW i \in 1..(n + 1)
               PROVE  Len(y.data[i]) \in more[i] /\ Len(y.data[i]) <= m
    OBVIOUS
  <2>1. CASE i \in 1..n
    BY <1>2, <1>3, <1>4, <2>1
  <2>2. CASE i = n + 1
    BY <1>3, <1>4, <2>2
  <2> QED BY <1>5, <2>1, <2>2
<1>7. Len(y.ints) \in counts
  BY DEF Has
<1> QED BY <1>3, <1>4, <1>6, <1>7 DEF Has, more

\* One field after the other.
LEMMA AllHaveNext ==
    ASSUME NEW r \in Readers, NEW fs \in Seq(Fields), NEW counts \in SUBSET Nat,
           NEW lens \in Seq(SUBSET Nat), NEW m \in Nat, Len(r.rest) <= m,
           AllHave(r, fs, counts, lens, m)
    PROVE  /\ AllHave(r, Append(fs, "int"), {i + 1 : i \in counts}, lens, m)
           /\ AllHave(r, Append(fs, "zero"), {i + 1 : i \in counts}, lens, m)
           /\ AllHave(r, Append(fs, "bytes"), counts, Append(lens, Nat), m)
           /\ AllHave(r, Append(fs, "rest"), counts, Append(lens, Nat), m)
           /\ AllHave(r, Append(fs, "cid"), counts, Append(lens, 1..20), m)
           /\ AllHave(r, Append(fs, "token"), counts, Append(lens, {16}), m)
           /\ AllHave(r, Append(fs, "path"), counts, Append(lens, {8}), m)
           /\ AllHave(r, Append(fs, "ranges"),
                      {n \in Nat : \E i \in counts : \E k \in 0..m : n = i + (1 + 2 * k)}, lens, m)
<1>0. Len(r.rest) \in Nat
  BY DEF Readers
<1>1. ASSUME NEW field \in Fields, NEW y \in ReadFields(r, Append(fs, field))
      PROVE  \E x \in ReadFields(r, fs) :
                 /\ x \in Readers /\ Has(x, counts, lens, m)
                 /\ Len(x.rest) \in Nat /\ Len(x.rest) <= m /\ y \in ReadField(x, field)
  <2>1. ReadFields(r, Append(fs, field)) = UNION {ReadField(x, field) : x \in ReadFields(r, fs)}
    BY ReadFieldsNext
  <2>2. PICK x \in ReadFields(r, fs) : y \in ReadField(x, field)
    BY <1>1, <2>1
  <2>3. x \in Readers /\ Len(x.rest) <= Len(r.rest)
    BY ReadFieldsFacts
  <2>4. Len(x.rest) \in Nat
    BY <2>3 DEF Readers
  <2>5. Len(x.rest) <= m
    BY <1>0, <2>3, <2>4
  <2>6. Has(x, counts, lens, m)
    BY DEF AllHave
  <2> QED BY <2>2, <2>3, <2>4, <2>5, <2>6
<1>2. /\ "int" \in Fields /\ "zero" \in Fields /\ "bytes" \in Fields /\ "rest" \in Fields
      /\ "cid" \in Fields /\ "token" \in Fields /\ "path" \in Fields /\ "ranges" \in Fields
  BY DEF Fields
<1>3. AllHave(r, Append(fs, "int"), {i + 1 : i \in counts}, lens, m)
  <2> SUFFICES ASSUME NEW y \in ReadFields(r, Append(fs, "int"))
               PROVE  Has(y, {i + 1 : i \in counts}, lens, m)
    BY DEF AllHave
  <2>1. PICK x \in ReadFields(r, fs) :
            x \in Readers /\ Has(x, counts, lens, m) /\ y \in ReadField(x, "int")
    BY <1>1, <1>2
  <2>2. y \in ReadInt(x)
    BY <2>1, FieldReaders
  <2>3. Len(y.ints) = Len(x.ints) + 1 /\ y.data = x.data
    BY <2>1, <2>2, ReadIntFacts
  <2> QED BY <2>1, <2>3 DEF Has
<1>4. AllHave(r, Append(fs, "zero"), {i + 1 : i \in counts}, lens, m)
  <2> SUFFICES ASSUME NEW y \in ReadFields(r, Append(fs, "zero"))
               PROVE  Has(y, {i + 1 : i \in counts}, lens, m)
    BY DEF AllHave
  <2>1. PICK x \in ReadFields(r, fs) :
            x \in Readers /\ Has(x, counts, lens, m) /\ y \in ReadField(x, "zero")
    BY <1>1, <1>2
  <2>2. y = [x EXCEPT !.ints = Append(@, 0)]
    BY <2>1, FieldReaders
  <2> DEFINE a == Append(x.ints, 0)
  <2>3. y = Reader(x.rest, a, x.data) /\ a \in Seq(Fit) /\ Len(a) = Len(x.ints) + 1
    BY <2>1, <2>2, ReadZeroFacts
  <2> HIDE DEF a
  <2>4. y.ints = a /\ y.data = x.data
    BY <2>3 DEF Reader
  <2> QED BY <2>1, <2>3, <2>4 DEF Has
<1>5. AllHave(r, Append(fs, "bytes"), counts, Append(lens, Nat), m)
  <2> SUFFICES ASSUME NEW y \in ReadFields(r, Append(fs, "bytes"))
               PROVE  Has(y, counts, Append(lens, Nat), m)
    BY DEF AllHave
  <2>1. PICK x \in ReadFields(r, fs) :
            /\ x \in Readers /\ Has(x, counts, lens, m)
            /\ Len(x.rest) \in Nat /\ Len(x.rest) <= m /\ y \in ReadField(x, "bytes")
    BY <1>1, <1>2
  <2>2. y \in ReadVarIntBytes(x)
    BY <2>1, FieldReaders
  <2>3. PICK b \in Seq(Byte) : Len(b) <= Len(x.rest) /\ y.data = Append(x.data, b)
    BY <2>1, <2>2, ReadVarIntBytesFacts
  <2>4. y \in Readers /\ y.ints = x.ints
    BY <2>1, <2>2, ReadVarIntBytesFacts
  <2>5. Len(b) \in Nat /\ Len(b) <= m
    BY <2>1, <2>3
  <2> QED BY <2>1, <2>3, <2>4, <2>5, HasString
<1>6. ASSUME NEW field \in {"rest", "token", "path"}, NEW L \in SUBSET Nat,
             field = "rest" => L = Nat, field = "token" => L = {16}, field = "path" => L = {8}
      PROVE  AllHave(r, Append(fs, field), counts, Append(lens, L), m)
  <2> SUFFICES ASSUME NEW y \in ReadFields(r, Append(fs, field))
               PROVE  Has(y, counts, Append(lens, L), m)
    BY DEF AllHave
  <2>1. PICK x \in ReadFields(r, fs) :
            /\ x \in Readers /\ Has(x, counts, lens, m)
            /\ Len(x.rest) \in Nat /\ Len(x.rest) <= m /\ y \in ReadField(x, field)
    BY <1>1, <1>2
  <2>2. PICK n \in L : y \in ReadBytes(x, n)
    BY <1>6, <2>1, FieldReaders
  <2>3. PICK b \in Seq(Byte) : Len(b) = n /\ n <= Len(x.rest) /\ y.data = Append(x.data, b)
    BY <2>1, <2>2, ReadBytesFacts
  <2>4. y \in Readers /\ y.ints = x.ints
    BY <2>1, <2>2, ReadBytesFacts
  <2>5. Len(b) \in L /\ Len(b) <= m
    BY <2>1, <2>2, <2>3
  <2> QED BY <2>1, <2>3, <2>4, <2>5, HasString
<1>7. AllHave(r, Append(fs, "cid"), counts, Append(lens, 1..20), m)
  <2> DEFINE L == 1..20
  <2>0. L \in SUBSET Nat
    OBVIOUS
  <2> SUFFICES ASSUME NEW y \in ReadFields(r, Append(fs, "cid"))
               PROVE  Has(y, counts, Append(lens, L), m)
    BY DEF AllHave
  <2>1. PICK x \in ReadFields(r, fs) :
            /\ x \in Readers /\ Has(x, counts, lens, m)
            /\ Len(x.rest) \in Nat /\ Len(x.rest) <= m /\ y \in ReadField(x, "cid")
    BY <1>1, <1>2
  <2>2. y \in ReadCid(x)
    BY <2>1, FieldReaders
  <2>3. PICK b \in Seq(Byte) : Len(b) \in L /\ Len(b) <= Len(x.rest) /\ y.data = Append(x.data, b)
    BY <2>1, <2>2, ReadCidFacts
  <2>4. y \in Readers /\ y.ints = x.ints
    BY <2>1, <2>2, ReadCidFacts
  <2>5. Len(b) <= m
    BY <2>1, <2>3
  <2> HIDE DEF L
  <2> QED BY <2>0, <2>1, <2>3, <2>4, <2>5, HasString
<1>8. AllHave(r, Append(fs, "ranges"),
                      {n \in Nat : \E i \in counts : \E k \in 0..m : n = i + (1 + 2 * k)}, lens, m)
  <2> DEFINE N == {n \in Nat : \E i \in counts : \E k \in 0..m : n = i + (1 + 2 * k)}
  <2>1. ASSUME NEW i \in counts, NEW k \in 0..m PROVE i + (1 + 2 * k) \in N
    OBVIOUS
  <2> HIDE DEF N
  <2>2. ASSUME NEW y \in ReadFields(r, Append(fs, "ranges")) PROVE Has(y, N, lens, m)
    <3>1. PICK x \in ReadFields(r, fs) :
              /\ x \in Readers /\ Has(x, counts, lens, m)
              /\ Len(x.rest) \in Nat /\ Len(x.rest) <= m /\ y \in ReadField(x, "ranges")
      BY <1>1, <1>2, <2>2
    <3>2. y \in ReadRanges(x)
      BY <3>1, FieldReaders
    <3>3. PICK k \in 0..Len(x.rest) : Len(y.ints) = Len(x.ints) + (1 + 2 * k)
      BY <3>1, <3>2, ReadRangesFacts
    <3>4. k \in 0..m
      BY <3>1
    <3>5. y.data = x.data
      BY <3>1, <3>2, ReadRangesFacts
    <3>6. Len(y.ints) \in N
      BY <2>1, <3>1, <3>3, <3>4 DEF Has
    <3> QED BY <3>1, <3>5, <3>6 DEF Has
  <2>3. AllHave(r, Append(fs, "ranges"), N, lens, m)
    BY <2>2 DEF AllHave
  <2> QED BY <2>3 DEF N
<1>9. /\ AllHave(r, Append(fs, "rest"), counts, Append(lens, Nat), m)
      /\ AllHave(r, Append(fs, "token"), counts, Append(lens, {16}), m)
      /\ AllHave(r, Append(fs, "path"), counts, Append(lens, {8}), m)
  BY <1>6
<1> QED BY <1>3, <1>4, <1>5, <1>7, <1>8, <1>9

\* The numbers of integers that a kind has, with at most m further ACK ranges.
Counts(kind, bit, m) ==
    IF kind = "ACK"
    THEN {n \in Nat : \E k \in 0..m : n = 3 + 2 * k + (IF bit THEN 3 ELSE 0)}
    ELSE {IntCount(kind, bit)}

\* Every layout is one of these, field by field.
LEMMA ReadShapes ==
    ASSUME NEW r \in Readers, r.ints = <<>>, r.data = <<>>, NEW m \in Nat, Len(r.rest) <= m
    PROVE  /\ AllHave(r, <<>>, {0}, <<>>, m)
           /\ AllHave(r, <<"int">>, {1}, <<>>, m)
           /\ AllHave(r, <<"int", "int">>, {2}, <<>>, m)
           /\ AllHave(r, <<"int", "int", "int">>, {3}, <<>>, m)
           /\ AllHave(r, <<"bytes">>, {0}, <<Nat>>, m)
           /\ AllHave(r, <<"int", "bytes">>, {1}, <<Nat>>, m)
           /\ AllHave(r, <<"int", "int", "bytes">>, {2}, <<Nat>>, m)
           /\ AllHave(r, <<"int", "int", "rest">>, {2}, <<Nat>>, m)
           /\ AllHave(r, <<"int", "zero", "bytes">>, {2}, <<Nat>>, m)
           /\ AllHave(r, <<"int", "zero", "rest">>, {2}, <<Nat>>, m)
           /\ AllHave(r, <<"path">>, {0}, <<{8}>>, m)
           /\ AllHave(r, <<"int", "int", "cid", "token">>, {2}, <<1..20, {16}>>, m)
           /\ AllHave(r, <<"int", "int", "ranges">>,
                      {n \in Nat : \E k \in 0..m : n = 3 + 2 * k}, <<>>, m)
           /\ AllHave(r, <<"int", "int", "ranges", "int", "int", "int">>,
                      {n \in Nat : \E k \in 0..m : n = 6 + 2 * k}, <<>>, m)
<1> DEFINE int == "int"
           zero == "zero"
           bytes == "bytes"
           left == "rest"
           cid == "cid"
           token == "token"
           path == "path"
           ranges == "ranges"
           All(fs, counts, lens) == AllHave(r, fs, counts, lens, m)
           Sets == SUBSET Nat
           Odd(j) == {n \in Nat : \E k \in 0..m : n = j + 2 * k}
           cids == 1..20
           tokens == {16}
           paths == {8}
<1>1. /\ int \in Fields /\ zero \in Fields /\ bytes \in Fields /\ left \in Fields
      /\ cid \in Fields /\ token \in Fields /\ path \in Fields /\ ranges \in Fields
  BY DEF Fields
<1>2. ASSUME NEW fs \in Seq(Fields), NEW counts \in Sets, NEW lens \in Seq(Sets), All(fs, counts, lens)
      PROVE  /\ All(Append(fs, int), {i + 1 : i \in counts}, lens)
             /\ All(Append(fs, zero), {i + 1 : i \in counts}, lens)
             /\ All(Append(fs, bytes), counts, Append(lens, Nat))
             /\ All(Append(fs, left), counts, Append(lens, Nat))
             /\ All(Append(fs, cid), counts, Append(lens, cids))
             /\ All(Append(fs, token), counts, Append(lens, tokens))
             /\ All(Append(fs, path), counts, Append(lens, paths))
             /\ All(Append(fs, ranges),
                    {n \in Nat : \E i \in counts : \E k \in 0..m : n = i + (1 + 2 * k)}, lens)
  BY <1>2, AllHaveNext
<1>3. All(<<>>, {0}, <<>>)
  <2>1. ReadFields(r, <<>>) = {r}
    BY ReadFieldsNext
  <2>2. Has(r, {0}, <<>>, m)
    BY DEF Has
  <2> QED BY <2>1, <2>2 DEF AllHave
<1>4. /\ {0} \in Sets /\ {1} \in Sets /\ {2} \in Sets /\ {3} \in Sets /\ Nat \in Sets
      /\ cids \in Sets /\ tokens \in Sets /\ paths \in Sets
      /\ \A j \in Nat : Odd(j) \in Sets
  OBVIOUS
<1>5. /\ {i + 1 : i \in {0}} = {1} /\ {i + 1 : i \in {1}} = {2} /\ {i + 1 : i \in {2}} = {3}
  OBVIOUS
<1>6. {n \in Nat : \E i \in {2} : \E k \in 0..m : n = i + (1 + 2 * k)} = Odd(3)
  OBVIOUS
<1>7. ASSUME NEW j \in Nat PROVE {i + 1 : i \in Odd(j)} = Odd(j + 1)
  <2>1. ASSUME NEW n \in Odd(j + 1) PROVE \E i \in Odd(j) : n = i + 1
    <3>1. PICK k \in 0..m : n = (j + 1) + 2 * k
      BY <2>1
    <3>2. j + 2 * k \in Odd(j) /\ n = (j + 2 * k) + 1
      BY <3>1
    <3> QED BY <3>2
  <2>2. ASSUME NEW i \in Odd(j) PROVE i + 1 \in Odd(j + 1)
    <3>1. PICK k \in 0..m : i = j + 2 * k
      BY <2>2
    <3>2. i + 1 = (j + 1) + 2 * k /\ i + 1 \in Nat
      BY <3>1
    <3> QED BY <3>2
  <2> HIDE DEF Odd
  <2> QED BY <2>1, <2>2
<1> HIDE DEF int, zero, bytes, left, cid, token, path, ranges, All, Sets, Odd, cids, tokens, paths
<1>8. <<>> \in Seq(Sets) /\ <<cids>> \in Seq(Sets)
  BY <1>4
<1>9. Append(<<>>, int) = <<int>> /\ Append(<<>>, bytes) = <<bytes>> /\ Append(<<>>, path) = <<path>>
  OBVIOUS
<1>10. Append(<<>>, Nat) = <<Nat>> /\ Append(<<>>, paths) = <<paths>> /\ Append(<<>>, cids) = <<cids>>
  OBVIOUS
<1>11. Append(<<cids>>, tokens) = <<cids, tokens>>
  BY <1>4, AppendTwo
<1>12. All(<<int>>, {1}, <<>>)
  <2>1. <<>> \in Seq(Fields)
    OBVIOUS
  <2>2. All(Append(<<>>, int), {i + 1 : i \in {0}}, <<>>)
    BY <1>2, <1>3, <1>4, <1>8, <2>1
  <2> QED BY <1>5, <1>9, <2>2
<1>13. <<int, int>> \in Seq(Fields) /\ <<int>> \in Seq(Fields) /\ <<>> \in Seq(Fields)
  BY <1>1
<1>14. All(<<int, int>>, {2}, <<>>)
  <2>1. All(Append(<<int>>, int), {i + 1 : i \in {1}}, <<>>)
    BY <1>2, <1>4, <1>8, <1>12, <1>13
  <2>2. Append(<<int>>, int) = <<int, int>>
    BY <1>1, AppendTwo
  <2> QED BY <1>5, <2>1, <2>2
<1>15. /\ All(<<int, int, int>>, {3}, <<>>)
       /\ All(<<int, int, bytes>>, {2}, <<Nat>>)
       /\ All(<<int, int, left>>, {2}, <<Nat>>)
       /\ All(<<int, int, cid>>, {2}, <<cids>>)
       /\ All(<<int, int, ranges>>, Odd(3), <<>>)
  <2>1. /\ All(Append(<<int, int>>, int), {i + 1 : i \in {2}}, <<>>)
        /\ All(Append(<<int, int>>, bytes), {2}, Append(<<>>, Nat))
        /\ All(Append(<<int, int>>, left), {2}, Append(<<>>, Nat))
        /\ All(Append(<<int, int>>, cid), {2}, Append(<<>>, cids))
        /\ All(Append(<<int, int>>, ranges),
               {n \in Nat : \E i \in {2} : \E k \in 0..m : n = i + (1 + 2 * k)}, <<>>)
    BY <1>2, <1>4, <1>8, <1>14, <1>13
  <2>2. Append(<<int, int>>, int) = <<int, int, int>>
    BY <1>1, AppendThree
  <2>3. Append(<<int, int>>, bytes) = <<int, int, bytes>>
    BY <1>1, AppendThree
  <2>4. Append(<<int, int>>, left) = <<int, int, left>>
    BY <1>1, AppendThree
  <2>5. Append(<<int, int>>, cid) = <<int, int, cid>>
    BY <1>1, AppendThree
  <2>6. Append(<<int, int>>, ranges) = <<int, int, ranges>>
    BY <1>1, AppendThree
  <2> QED BY <1>5, <1>6, <1>10, <2>1, <2>2, <2>3, <2>4, <2>5, <2>6
<1>16. /\ All(<<bytes>>, {0}, <<Nat>>)
       /\ All(<<path>>, {0}, <<paths>>)
  <2>1. All(Append(<<>>, bytes), {0}, Append(<<>>, Nat)) /\ All(Append(<<>>, path), {0}, Append(<<>>, paths))
    BY <1>2, <1>3, <1>4, <1>8, <1>13
  <2> QED BY <1>9, <1>10, <2>1
<1>17. /\ All(<<int, bytes>>, {1}, <<Nat>>)
       /\ All(<<int, zero>>, {2}, <<>>)
  <2>1. /\ All(Append(<<int>>, bytes), {1}, Append(<<>>, Nat))
        /\ All(Append(<<int>>, zero), {i + 1 : i \in {1}}, <<>>)
    BY <1>2, <1>4, <1>8, <1>12, <1>13
  <2>2. Append(<<int>>, bytes) = <<int, bytes>>
    BY <1>1, AppendTwo
  <2>3. Append(<<int>>, zero) = <<int, zero>>
    BY <1>1, AppendTwo
  <2> QED BY <1>5, <1>10, <2>1, <2>2, <2>3
<1>18. /\ All(<<int, zero, bytes>>, {2}, <<Nat>>)
       /\ All(<<int, zero, left>>, {2}, <<Nat>>)
  <2>1. <<int, zero>> \in Seq(Fields)
    BY <1>1
  <2>2. /\ All(Append(<<int, zero>>, bytes), {2}, Append(<<>>, Nat))
        /\ All(Append(<<int, zero>>, left), {2}, Append(<<>>, Nat))
    BY <1>2, <1>4, <1>8, <1>17, <2>1
  <2>3. Append(<<int, zero>>, bytes) = <<int, zero, bytes>>
    BY <1>1, AppendThree
  <2>4. Append(<<int, zero>>, left) = <<int, zero, left>>
    BY <1>1, AppendThree
  <2> QED BY <1>10, <2>2, <2>3, <2>4
<1>19. All(<<int, int, cid, token>>, {2}, <<cids, tokens>>)
  <2>1. <<int, int, cid>> \in Seq(Fields)
    BY <1>1
  <2>2. All(Append(<<int, int, cid>>, token), {2}, Append(<<cids>>, tokens))
    BY <1>2, <1>4, <1>8, <1>15, <2>1
  <2>3. Append(<<int, int, cid>>, token) = <<int, int, cid, token>>
    BY <1>1, AppendFour
  <2> QED BY <1>11, <2>2, <2>3
<1>20. All(<<int, int, ranges, int, int, int>>, Odd(6), <<>>)
  <2>1. /\ <<int, int, ranges>> \in Seq(Fields) /\ <<int, int, ranges, int>> \in Seq(Fields)
        /\ <<int, int, ranges, int, int>> \in Seq(Fields)
    BY <1>1
  <2>2. Odd(3) \in Sets /\ Odd(4) \in Sets /\ Odd(5) \in Sets
    BY <1>4
  <2>3. {i + 1 : i \in Odd(3)} = Odd(4) /\ {i + 1 : i \in Odd(4)} = Odd(5) /\ {i + 1 : i \in Odd(5)} = Odd(6)
    <3>1. 3 + 1 = 4 /\ 4 + 1 = 5 /\ 5 + 1 = 6
      OBVIOUS
    <3>2. \A j \in Nat : {i + 1 : i \in Odd(j)} = Odd(j + 1)
      BY <1>7
    <3>3. {i + 1 : i \in Odd(3)} = Odd(3 + 1) /\ {i + 1 : i \in Odd(4)} = Odd(4 + 1) /\ {i + 1 : i \in Odd(5)} = Odd(5 + 1)
      BY <3>2
    <3> QED BY <3>1, <3>3
  <2>4. Append(<<int, int, ranges>>, int) = <<int, int, ranges, int>>
    BY <1>1, AppendFour
  <2>5. Append(<<int, int, ranges, int>>, int) = <<int, int, ranges, int, int>>
    BY <1>1, AppendFive
  <2>6. Append(<<int, int, ranges, int, int>>, int) = <<int, int, ranges, int, int, int>>
    BY <1>1, AppendSix
  <2>7. All(<<int, int, ranges, int>>, Odd(4), <<>>)
    <3>1. All(Append(<<int, int, ranges>>, int), {i + 1 : i \in Odd(3)}, <<>>)
      BY <1>2, <1>8, <1>15, <2>1, <2>2
    <3> QED BY <2>3, <2>4, <3>1
  <2>8. All(<<int, int, ranges, int, int>>, Odd(5), <<>>)
    <3>1. All(Append(<<int, int, ranges, int>>, int), {i + 1 : i \in Odd(4)}, <<>>)
      BY <1>2, <1>8, <2>1, <2>2, <2>7
    <3> QED BY <2>3, <2>5, <3>1
  <2>9. All(Append(<<int, int, ranges, int, int>>, int), {i + 1 : i \in Odd(5)}, <<>>)
    BY <1>2, <1>8, <2>1, <2>2, <2>8
  <2> QED BY <2>3, <2>6, <2>9
<1> QED BY <1>3, <1>12, <1>14, <1>15, <1>16, <1>17, <1>18, <1>19, <1>20
        DEF int, zero, bytes, left, cid, token, path, ranges, All, Odd, cids, tokens, paths

\* What is read after a type has as many integers and byte strings as its kind.
LEMMA LayoutShape ==
    ASSUME NEW r \in Readers, r.ints = <<>>, r.data = <<>>, NEW m \in Nat, Len(r.rest) <= m,
           NEW t \in 0..MaxType
    PROVE  AllHave(r, Layout(t), Counts(KindOf(t), BitOf(t), m), DataLengths(KindOf(t)), m)
<1> DEFINE k == KindOf(t)
           b == BitOf(t)
<1>1. k \in Kinds
  BY KindOfType
<1>2. CASE k \in {"PADDING", "PING", "HANDSHAKE_DONE"}
  <2>1. Layout(t) = <<>> /\ Counts(k, b, m) = {0} /\ DataLengths(k) = <<>>
    BY <1>2, LayoutOfKind DEF Counts, IntCount, DataLengths
  <2> QED BY <2>1, ReadShapes
<1>3. CASE k = "ACK"
  <2>1. DataLengths(k) = <<>> /\ (b <=> FinBit(t))
    BY <1>3 DEF DataLengths, BitOf
  <2>2. CASE FinBit(t)
    <3>1. Layout(t) = <<"int", "int", "ranges", "int", "int", "int">>
      BY <1>3, <2>2, LayoutOfKind
    <3>2. Counts(k, b, m) = {n \in Nat : \E i \in 0..m : n = 6 + 2 * i}
      BY <1>3, <2>1, <2>2 DEF Counts
    <3> HIDE DEF k, b
    <3> QED BY <2>1, <3>1, <3>2, ReadShapes DEF k, b
  <2>3. CASE ~FinBit(t)
    <3>1. Layout(t) = <<"int", "int", "ranges">>
      BY <1>3, <2>3, LayoutOfKind
    <3>2. Counts(k, b, m) = {n \in Nat : \E i \in 0..m : n = 3 + 2 * i}
      BY <1>3, <2>1, <2>3 DEF Counts
    <3> QED BY <2>1, <3>1, <3>2, ReadShapes DEF k, b
  <2> QED BY <2>2, <2>3
<1>4. CASE k = "RESET_STREAM"
  <2>1. Layout(t) = <<"int", "int", "int">> /\ Counts(k, b, m) = {3} /\ DataLengths(k) = <<>>
    BY <1>4, LayoutOfKind DEF Counts, IntCount, DataLengths
  <2> QED BY <2>1, ReadShapes
<1>5. CASE k \in {"STOP_SENDING", "MAX_STREAM_DATA", "STREAM_DATA_BLOCKED"}
  <2>1. Layout(t) = <<"int", "int">> /\ Counts(k, b, m) = {2} /\ DataLengths(k) = <<>>
    BY <1>5, LayoutOfKind DEF Counts, IntCount, DataLengths
  <2> QED BY <2>1, ReadShapes
<1>6. CASE k \in {"MAX_DATA", "MAX_STREAMS", "DATA_BLOCKED", "STREAMS_BLOCKED", "RETIRE_CONNECTION_ID"}
  <2>1. Layout(t) = <<"int">> /\ Counts(k, b, m) = {1} /\ DataLengths(k) = <<>>
    BY <1>6, LayoutOfKind DEF Counts, IntCount, DataLengths
  <2> QED BY <2>1, ReadShapes
<1>7. CASE k = "CRYPTO"
  <2>1. Layout(t) = <<"int", "bytes">> /\ Counts(k, b, m) = {1} /\ DataLengths(k) = <<Nat>>
    BY <1>7, LayoutOfKind DEF Counts, IntCount, DataLengths
  <2> QED BY <2>1, ReadShapes
<1>8. CASE k = "NEW_TOKEN"
  <2>1. Layout(t) = <<"bytes">> /\ Counts(k, b, m) = {0} /\ DataLengths(k) = <<Nat>>
    BY <1>8, LayoutOfKind DEF Counts, IntCount, DataLengths
  <2> QED BY <2>1, ReadShapes
<1>9. CASE k = "STREAM"
  <2>1. Counts(k, b, m) = {2} /\ DataLengths(k) = <<Nat>>
    BY <1>9 DEF Counts, IntCount, DataLengths
  <2>2. Layout(t) \in {<<"int", "int", "bytes">>, <<"int", "int", "rest">>,
                       <<"int", "zero", "bytes">>, <<"int", "zero", "rest">>}
    BY <1>9, LayoutOfKind
  <2> QED BY <2>1, <2>2, ReadShapes
<1>10. CASE k = "NEW_CONNECTION_ID"
  <2>1. /\ Layout(t) = <<"int", "int", "cid", "token">> /\ Counts(k, b, m) = {2}
        /\ DataLengths(k) = <<1..20, {16}>>
    BY <1>10, LayoutOfKind DEF Counts, IntCount, DataLengths
  <2> QED BY <2>1, ReadShapes
<1>11. CASE k \in {"PATH_CHALLENGE", "PATH_RESPONSE"}
  <2>1. Layout(t) = <<"path">> /\ Counts(k, b, m) = {0} /\ DataLengths(k) = <<{8}>>
    BY <1>11, LayoutOfKind DEF Counts, IntCount, DataLengths
  <2> QED BY <2>1, ReadShapes
<1>12. CASE k = "CONNECTION_CLOSE"
  <2>1. DataLengths(k) = <<Nat>> /\ Counts(k, b, m) = {IF b THEN 2 ELSE 1}
    BY <1>12 DEF Counts, IntCount, DataLengths
  <2>2. Layout(t) = IF b THEN <<"int", "int", "bytes">> ELSE <<"int", "bytes">>
    BY <1>12, LayoutOfKind
  <2> QED BY <2>1, <2>2, ReadShapes
<1> QED BY <1>1, <1>2, <1>3, <1>4, <1>5, <1>6, <1>7, <1>8, <1>9, <1>10, <1>11, <1>12 DEF Kinds

\* An accepted frame, as long as what it was read from at most.
Bounded(f, m) ==
    /\ f.ints \in Seq(Fit)
    /\ \A i \in DOMAIN f.data : Len(f.data[i]) \in 0..m
    /\ f.kind = "ACK" => RangeCount(f) \in 0..m

\* Kinds with a bit.
LEMMA BitKinds ==
    ASSUME NEW t, BitOf(t)
    PROVE  KindOf(t) \in {"ACK", "STREAM", "MAX_STREAMS", "STREAMS_BLOCKED", "CONNECTION_CLOSE"}
  BY DEF BitOf

\* There is a length for every byte string of a kind.
LEMMA DataLengthsFacts ==
    ASSUME NEW k
    PROVE  DataLengths(k) \in Seq(SUBSET Nat)
<1>1. <<>> \in Seq(SUBSET Nat) /\ <<Nat>> \in Seq(SUBSET Nat) /\ <<{8}>> \in Seq(SUBSET Nat)
  OBVIOUS
<1>2. <<1..20, {16}>> \in Seq(SUBSET Nat)
  OBVIOUS
<1>3. DataLengths(k) \in {<<>>, <<Nat>>, <<{8}>>, <<1..20, {16}>>}
  BY DEF DataLengths
<1> QED BY <1>1, <1>2, <1>3

\* A reader with what a type asks for is a frame.
LEMMA FrameOfReader ==
    ASSUME NEW x \in Readers, NEW m \in Nat, NEW t \in 0..MaxType,
           Has(x, Counts(KindOf(t), BitOf(t), m), DataLengths(KindOf(t)), m)
    PROVE  /\ WellFormed(Frame(KindOf(t), x.ints, x.data, BitOf(t)))
           /\ Bounded(Frame(KindOf(t), x.ints, x.data, BitOf(t)), m)
<1> DEFINE k == KindOf(t)
           b == BitOf(t)
           f == Frame(k, x.ints, x.data, b)
           lens == DataLengths(k)
<1>1. x.ints \in Seq(Fit) /\ x.data \in Seq(Seq(Byte))
  BY DEF Readers
<1>2. x.ints \in Seq(Nat)
  BY <1>1 DEF Fit
<1>3. b \in BOOLEAN /\ k \in {KindOf(type) : type \in 0..MaxType}
  BY DEF BitOf
<1>4. b => k \in {"ACK", "STREAM", "MAX_STREAMS", "STREAMS_BLOCKED", "CONNECTION_CLOSE"}
  BY BitKinds
<1>5. lens \in Seq(SUBSET Nat)
  BY DataLengthsFacts
<1> HIDE DEF lens, b, k
<1>6. f.kind = k /\ f.ints = x.ints /\ f.data = x.data /\ f.bit = b
  BY DEF Frame
<1>7. f \in [kind : {KindOf(type) : type \in 0..MaxType}, ints : Seq(Nat),
             data : Seq(Seq(Byte)), bit : BOOLEAN]
  BY <1>1, <1>2, <1>3 DEF Frame
<1> HIDE DEF f
<1>8. /\ Len(x.ints) \in Counts(k, b, m) /\ Len(x.data) = Len(lens)
      /\ \A i \in 1..Len(lens) : Len(x.data[i]) \in lens[i] /\ Len(x.data[i]) <= m
  BY DEF Has, k, b, lens
<1>9. Len(x.ints) \in Nat /\ DOMAIN x.data = 1..Len(x.data) /\ \A i \in 1..Len(x.data) : Len(x.data[i]) \in Nat
  BY <1>1
<1>10. CASE k = "ACK"
  <2>1. PICK n \in 0..m : Len(x.ints) = 3 + 2 * n + (IF b THEN 3 ELSE 0)
    BY <1>8, <1>10 DEF Counts
  <2>2. n \in 0..Len(x.ints)
    BY <1>9, <2>1
  <2>3. RangeCount(f) = n
    <3>1. RangeCount(f) = (Len(x.ints) - 3 - (IF b THEN 3 ELSE 0)) \div 2
      BY <1>6 DEF RangeCount
    <3>2. Len(x.ints) - 3 - (IF b THEN 3 ELSE 0) = 2 * n
      BY <2>1, <1>9
    <3>3. (2 * n) \div 2 = n
      OBVIOUS
    <3> QED BY <3>1, <3>2, <3>3
  <2>4. \E pairs \in 0..Len(f.ints) : Len(f.ints) = 3 + 2 * pairs + (IF f.bit THEN 3 ELSE 0)
    BY <1>6, <2>1, <2>2
  <2>5. WellFormed(f)
    BY <1>4, <1>6, <1>7, <1>8, <1>9, <1>10, <2>4 DEF WellFormed, lens
  <2>6. Bounded(f, m)
    BY <1>1, <1>6, <1>8, <1>9, <2>3 DEF Bounded
  <2> QED BY <2>5, <2>6 DEF f, k, b
<1>11. CASE k # "ACK"
  <2>1. Len(f.ints) = IntCount(f.kind, f.bit)
    BY <1>6, <1>8, <1>11 DEF Counts
  <2>2. WellFormed(f)
    BY <1>4, <1>6, <1>7, <1>8, <1>9, <1>11, <2>1 DEF WellFormed, lens
  <2>3. Bounded(f, m)
    BY <1>1, <1>6, <1>8, <1>9, <1>11 DEF Bounded
  <2> QED BY <2>2, <2>3 DEF f, k, b
<1> QED BY <1>10, <1>11

\* The type of a frame is one byte, whatever the integer.
LEMMA TypeOfFacts ==
    ASSUME NEW buf \in Seq(Byte), NEW t \in TypeOf(buf)
    PROVE  t \in Nat /\ buf # <<>>
<1>1. PICK d \in Decode(buf) : t = d.value % 256
  BY ByteFacts DEF TypeOf
<1>2. d.value \in Nat /\ buf # <<>>
  BY DecodeFacts
<1> QED BY <1>1, <1>2

\* What parse_frame makes of bytes: a frame, which took some of them.
LEMMA ParsedFacts ==
    ASSUME NEW buf \in Seq(Byte), NEW p \in ParseFrame(buf)
    PROVE  /\ p.len \in 1..Len(buf)
           /\ WellFormed(p.frame) /\ Bounded(p.frame, Len(buf))
<1> DEFINE r == Reader(Tail(buf), <<>>, <<>>)
<1>1. PICK t \in TypeOf(buf) : t <= MaxType /\
          \E x \in ReadFields(r, Layout(t)) :
              p = [frame |-> Frame(KindOf(t), x.ints, x.data, BitOf(t)),
                   len |-> Consumed(buf, x.rest)]
  BY DEF ParseFrame
<1>2. PICK x \in ReadFields(r, Layout(t)) :
          p = [frame |-> Frame(KindOf(t), x.ints, x.data, BitOf(t)), len |-> Consumed(buf, x.rest)]
  BY <1>1
<1>3. t \in 0..MaxType /\ buf # <<>>
  <2>1. t \in Nat /\ buf # <<>>
    BY TypeOfFacts
  <2>2. t <= 30
    BY <1>1 DEF MaxType
  <2> QED BY <2>1, <2>2 DEF MaxType
<1>4. Tail(buf) \in Seq(Byte) /\ Len(Tail(buf)) = Len(buf) - 1 /\ Len(buf) \in Nat
  BY <1>3
<1>5. r \in Readers /\ r.rest = Tail(buf) /\ r.ints = <<>> /\ r.data = <<>>
  <2> DEFINE a == Tail(buf)
             none == <<>>
  <2>1. a \in Seq(Byte) /\ none \in Seq(Fit) /\ none \in Seq(Seq(Byte))
    BY <1>4
  <2>2. r = Reader(a, none, none)
    OBVIOUS
  <2> HIDE DEF a, none, r
  <2>3. r \in Readers /\ r.rest = a /\ r.ints = none /\ r.data = none
    BY <2>1, <2>2, ReaderFields
  <2> QED BY <2>3 DEF a, none
<1> HIDE DEF r
<1>6. Layout(t) \in Seq(Fields)
  BY <1>3, LayoutFields
<1>7. x \in Readers /\ Len(x.rest) <= Len(r.rest)
  BY <1>5, <1>6, ReadFieldsFacts
<1>8. Len(x.rest) \in Nat
  BY <1>7 DEF Readers
<1>9. p.len \in 1..Len(buf)
  <2>1. p.len = Len(buf) - Len(x.rest)
    BY <1>2 DEF Consumed
  <2> QED BY <1>4, <1>5, <1>7, <1>8, <2>1
<1>10. Has(x, Counts(KindOf(t), BitOf(t), Len(buf)), DataLengths(KindOf(t)), Len(buf))
  <2>1. Len(r.rest) <= Len(buf)
    BY <1>4, <1>5
  <2>2. AllHave(r, Layout(t), Counts(KindOf(t), BitOf(t), Len(buf)), DataLengths(KindOf(t)), Len(buf))
    BY <1>3, <1>4, <1>5, <2>1, LayoutShape
  <2> QED BY <2>2 DEF AllHave
<1>11. p.frame = Frame(KindOf(t), x.ints, x.data, BitOf(t))
  BY <1>2
<1> QED BY <1>3, <1>4, <1>7, <1>9, <1>10, <1>11, FrameOfReader

-----------------------------------------------------------------------------
(* What is written.                                                        *)

\* What put_varint writes are bytes, one at least.
LEMMA EncodeTypes ==
    ASSUME NEW v \in Fit
    PROVE  Encode(v) \in Seq(Byte) /\ Len(Encode(v)) \in Nat /\ Len(Encode(v)) >= 1
<1>1. v \in Nat /\ ~TooLarge(v)
  BY DEF Fit
<1>2. Encode(v) \in Seq(Byte) /\ Len(Encode(v)) = EncodedLen(v) /\ EncodedLen(v) \in {1, 2, 4, 8}
  BY <1>1, EncodeFacts
<1> QED BY <1>2

\* bytes are the values of the recursive function behind WriteInts.
WriteRun(s, bytes) ==
    /\ bytes[0] = <<>>
    /\ \A i \in 0..Len(s) : bytes[i] \in Seq(Byte)
    /\ \A i \in 1..Len(s) : bytes[i] = bytes[i - 1] \o Encode(s[i])
    /\ WriteInts(s) = bytes[Len(s)]

\* The recursive function behind WriteInts is what it says.
LEMMA WriteSteps ==
    ASSUME NEW s \in Seq(Fit)
    PROVE  \E bytes : WriteRun(s, bytes)
<1> DEFINE n == Len(s)
           P(b) == b = [i \in 0..Len(s) |-> IF i = 0 THEN <<>> ELSE b[i - 1] \o Encode(s[i])]
           c == CHOOSE b : P(b)
           B == Seq(Byte)
           none == <<>>
           step == [i \in 1..n |-> [x \in B |-> x \o Encode(s[i])]]
<1>1. n \in Nat /\ \A i \in 1..n : s[i] \in Fit
  OBVIOUS
<1>2. WriteInts(s) = c[n]
  BY DEF WriteInts
<1>3. \A b : P(b) <=> b = [i \in 0..n |-> IF i = 0 THEN none ELSE b[i - 1] \o Encode(s[i])]
  OBVIOUS
<1>4. none \in B
  OBVIOUS
<1> HIDE DEF n, c, P, none
<1>5. ASSUME NEW i \in 1..n, NEW x \in B
      PROVE  step[i][x] \in B /\ step[i][x] = x \o Encode(s[i])
  <2>1. Encode(s[i]) \in Seq(Byte)
    BY <1>1, EncodeTypes
  <2> QED BY <2>1
<1> HIDE DEF B, step
<1>6. PICK f : Run(n, B, none, step, f)
  BY <1>1, <1>4, <1>5, StepsExist
<1>7. \A i \in 1..n : f[i] = f[i - 1] \o Encode(s[i])
  <2> SUFFICES ASSUME NEW i \in 1..n PROVE f[i] = f[i - 1] \o Encode(s[i])
    OBVIOUS
  <2>1. f[i - 1] \in B
    <3>1. i - 1 \in 0..n
      BY <1>1
    <3> QED BY <1>6, <3>1 DEF Run
  <2>2. f[i] = step[i][f[i - 1]]
    BY <1>6 DEF Run
  <2> QED BY <1>5, <2>1, <2>2
<1>8. P(f)
  <2>1. \A i \in 0..n : i = 0 \/ i \in 1..n
    OBVIOUS
  <2>2. \A i \in 0..n : f[i] = IF i = 0 THEN none ELSE f[i - 1] \o Encode(s[i])
    BY <1>6, <1>7, <2>1 DEF Run
  <2>3. f = [i \in 0..n |-> IF i = 0 THEN none ELSE f[i - 1] \o Encode(s[i])]
    BY <1>6, <2>2 DEF Run
  <2> QED BY <1>3, <2>3
<1>9. P(c)
  BY <1>8 DEF c
<1>10. c[0] = none /\ \A i \in 1..n : c[i] = c[i - 1] \o Encode(s[i])
  <2>1. c = [i \in 0..n |-> IF i = 0 THEN none ELSE c[i - 1] \o Encode(s[i])]
    BY <1>3, <1>9
  <2>2. \A i \in 0..n : c[i] = IF i = 0 THEN none ELSE c[i - 1] \o Encode(s[i])
    BY <2>1
  <2>3. c[0] = none
    <3>1. 0 \in 0..n
      BY <1>1
    <3> QED BY <2>2, <3>1
  <2>4. ASSUME NEW i \in 1..n PROVE c[i] = c[i - 1] \o Encode(s[i])
    <3>1. i \in 0..n /\ i # 0
      OBVIOUS
    <3> QED BY <2>2, <3>1
  <2> QED BY <2>3, <2>4
<1>11. \A i \in 0..n : c[i] = f[i]
  <2>1. c[0] = f[0]
    BY <1>6, <1>10 DEF Run
  <2>2. \A i \in 1..n : c[i - 1] = f[i - 1] => c[i] = f[i]
    <3> SUFFICES ASSUME NEW i \in 1..n, c[i - 1] = f[i - 1] PROVE c[i] = f[i]
      OBVIOUS
    <3> QED BY <1>7, <1>10
  <2>8. SameFrom(n, c, f)
    BY <1>1, <2>1, <2>2 DEF SameFrom
  <2>9. SameUpTo(n, c, f)
    BY <1>1, <2>1, <2>2, <2>8, SameSteps
  <2> QED BY <2>9 DEF SameUpTo
<1>12. \A i \in 0..n : c[i] \in B
  BY <1>6, <1>11 DEF Run
<1>13. WriteRun(s, c)
  BY <1>2, <1>10, <1>12 DEF WriteRun, n, B, none
<1> QED BY <1>13

\* One integer after the other.
LEMMA WriteIntsNext ==
    /\ WriteInts(<<>>) = <<>>
    /\ \A s \in Seq(Fit) : WriteInts(s) \in Seq(Byte)
    /\ \A s \in Seq(Fit), v \in Fit : WriteInts(Append(s, v)) = WriteInts(s) \o Encode(v)
<1>1. WriteInts(<<>>) = <<>>
  <2>1. <<>> \in Seq(Fit) /\ Len(<<>>) = 0
    OBVIOUS
  <2>2. PICK a : WriteRun(<<>>, a)
    BY <2>1, WriteSteps
  <2> QED BY <2>1, <2>2 DEF WriteRun
<1>2. ASSUME NEW s \in Seq(Fit) PROVE WriteInts(s) \in Seq(Byte)
  <2>1. PICK a : WriteRun(s, a)
    BY WriteSteps
  <2>2. Len(s) \in 0..Len(s)
    OBVIOUS
  <2> QED BY <2>1, <2>2 DEF WriteRun
<1>3. ASSUME NEW s \in Seq(Fit), NEW v \in Fit
      PROVE  WriteInts(Append(s, v)) = WriteInts(s) \o Encode(v)
  <2> DEFINE t == Append(s, v)
             n == Len(s)
             m == n + 1
  <2>1. /\ t \in Seq(Fit) /\ Len(t) = m /\ t[m] = v /\ n \in Nat
        /\ \A i \in 1..n : t[i] = s[i]
    OBVIOUS
  <2>2. m \in Nat /\ m \in 1..m /\ m - 1 = n /\ n \in 0..n /\ \A i \in 1..n : i \in 1..m
    OBVIOUS
  <2> HIDE DEF t, m
  <2>3. PICK a : WriteRun(s, a)
    BY WriteSteps
  <2>4. PICK b : WriteRun(t, b)
    BY <2>1, WriteSteps
  <2>5. \A i \in 0..n : a[i] = b[i]
    <3>1. a[0] = b[0]
      BY <2>3, <2>4 DEF WriteRun
    <3>2. ASSUME NEW i \in 1..n, a[i - 1] = b[i - 1] PROVE a[i] = b[i]
      <4>1. a[i] = a[i - 1] \o Encode(s[i])
        BY <2>3 DEF WriteRun
      <4>2. b[i] = b[i - 1] \o Encode(t[i])
        BY <2>1, <2>2, <2>4 DEF WriteRun
      <4> QED BY <2>1, <3>2, <4>1, <4>2
    <3>3. n \in Nat /\ \A i \in 1..n : a[i - 1] = b[i - 1] => a[i] = b[i]
      BY <3>2
    <3> HIDE DEF n
    <3>8. SameFrom(n, a, b)
      BY <3>1, <3>3 DEF SameFrom
    <3>9. SameUpTo(n, a, b)
      BY <3>1, <3>3, <3>8, SameSteps
    <3> QED BY <3>9 DEF SameUpTo
  <2>6. b[m] = b[m - 1] \o Encode(t[m])
    BY <2>1, <2>2, <2>4 DEF WriteRun
  <2>7. WriteInts(t) = b[m] /\ WriteInts(s) = a[n] /\ a[n] = b[n] /\ b[m - 1] = b[n]
    BY <2>1, <2>2, <2>3, <2>4, <2>5 DEF WriteRun
  <2>8. WriteInts(t) = WriteInts(s) \o Encode(v)
    BY <2>1, <2>6, <2>7
  <2> QED BY <2>8 DEF t
<1> QED BY <1>1, <1>2, <1>3

\* A sequence of integers without its last one.
LEMMA LastInt ==
    ASSUME NEW S, NEW s \in Seq(S), NEW n \in Nat, Len(s) = n + 1
    PROVE  \E t \in Seq(S), v \in S : s = Append(t, v) /\ Len(t) = n
<1>1. s # <<>>
  OBVIOUS
<1>2. PICK t \in Seq(S), v \in S : s = Append(t, v)
  BY <1>1, SequenceEmptyOrAppend
<1>3. Len(t) = n
  BY <1>2
<1> QED BY <1>2, <1>3

\* There is a byte for every integer.
LEMMA WriteIntsLength ==
    ASSUME NEW s \in Seq(Fit)
    PROVE  Len(s) <= Len(WriteInts(s))
<1> DEFINE S == {n \in Nat : \A t \in Seq(Fit) : Len(t) = n => n <= Len(WriteInts(t))}
<1>1. \A t \in Seq(Fit) : WriteInts(t) \in Seq(Byte) /\ Len(WriteInts(t)) \in Nat
  BY WriteIntsNext
<1>2. 0 \in S
  BY <1>1
<1>3. ASSUME NEW n \in Nat, n \in S PROVE n + 1 \in S
  <2> SUFFICES ASSUME NEW t \in Seq(Fit), Len(t) = n + 1 PROVE n + 1 <= Len(WriteInts(t))
    OBVIOUS
  <2>1. PICK u \in Seq(Fit), v \in Fit : t = Append(u, v) /\ Len(u) = n
    BY LastInt
  <2>2. n <= Len(WriteInts(u))
    BY <1>3, <2>1
  <2>3. WriteInts(t) = WriteInts(u) \o Encode(v)
    BY <2>1, WriteIntsNext
  <2>4. Encode(v) \in Seq(Byte) /\ Len(Encode(v)) \in Nat /\ Len(Encode(v)) >= 1
    BY EncodeTypes
  <2>5. WriteInts(u) \in Seq(Byte) /\ Len(WriteInts(u)) \in Nat
    BY <1>1
  <2>6. Len(WriteInts(t)) = Len(WriteInts(u)) + Len(Encode(v))
    BY <2>3, <2>4, <2>5
  <2> QED BY <2>2, <2>4, <2>5, <2>6
<1> HIDE DEF S
<1>4. Len(s) \in S
  <2>1. \A n \in Nat : n \in S
    BY <1>2, <1>3, Induction
  <2> QED BY <2>1
<1> QED BY <1>4 DEF S

-----------------------------------------------------------------------------
(* What is written is read.                                                *)

\* An integer.
LEMMA IntReadsBack ==
    ASSUME NEW v \in Fit, NEW rest \in Seq(Byte), NEW is \in Seq(Fit), NEW ds \in Seq(Seq(Byte))
    PROVE  /\ Reader(Encode(v) \o rest, is, ds) \in Readers
           /\ ReadInt(Reader(Encode(v) \o rest, is, ds)) = {Reader(rest, Append(is, v), ds)}
<1> DEFINE e == Encode(v)
           buf == e \o rest
           r == Reader(buf, is, ds)
           d == [value |-> v, len |-> EncodedLen(v)]
<1>1. v \in Nat /\ ~TooLarge(v)
  BY DEF Fit
<1>2. e \in Seq(Byte) /\ Len(e) = EncodedLen(v)
  BY <1>1, EncodeFacts
<1>3. Decode(buf) = {d}
  BY <1>1, VarIntReadsBack
<1> HIDE DEF e
<1>4. buf \in Seq(Byte) /\ SubSeq(buf, Len(e) + 1, Len(buf)) = rest
  BY <1>2, ConcatParts
<1> HIDE DEF buf
<1>5. r \in Readers /\ r.rest = buf /\ r.ints = is /\ r.data = ds
  BY <1>4, ReaderFields
<1> HIDE DEF r
<1>6. ReadInt(r) = {Reader(SubSeq(buf, x.len + 1, Len(buf)), Append(is, x.value), ds) : x \in {d}}
  BY <1>3, <1>5 DEF ReadInt
<1>7. d.len = Len(e) /\ d.value = v
  BY <1>2
<1> HIDE DEF d
<1>8. ReadInt(r) = {Reader(SubSeq(buf, d.len + 1, Len(buf)), Append(is, d.value), ds)}
  BY <1>6
<1>9. ReadInt(r) = {Reader(rest, Append(is, v), ds)}
  BY <1>4, <1>7, <1>8
<1> QED BY <1>5, <1>9 DEF r, buf, e

\* A byte string whose length is known.
LEMMA BytesReadBack ==
    ASSUME NEW b \in Seq(Byte), NEW rest \in Seq(Byte), NEW is \in Seq(Fit), NEW ds \in Seq(Seq(Byte))
    PROVE  /\ Reader(b \o rest, is, ds) \in Readers
           /\ ReadBytes(Reader(b \o rest, is, ds), Len(b)) = {Reader(rest, is, Append(ds, b))}
<1> DEFINE buf == b \o rest
           r == Reader(buf, is, ds)
<1>1. /\ buf \in Seq(Byte) /\ Len(buf) = Len(b) + Len(rest) /\ SubSeq(buf, 1, Len(b)) = b
      /\ SubSeq(buf, Len(b) + 1, Len(buf)) = rest
  BY ConcatParts
<1> HIDE DEF buf
<1>2. r \in Readers /\ r.rest = buf /\ r.ints = is /\ r.data = ds
  BY <1>1, ReaderFields
<1> HIDE DEF r
<1>3. ~(Len(r.rest) < Len(b))
  BY <1>1, <1>2
<1>4. ReadBytes(r, Len(b)) = {Reader(SubSeq(r.rest, Len(b) + 1, Len(r.rest)), r.ints,
                                     Append(r.data, SubSeq(r.rest, 1, Len(b))))}
  BY <1>3 DEF ReadBytes
<1>5. ReadBytes(r, Len(b)) = {Reader(rest, is, Append(ds, b))}
  BY <1>1, <1>2, <1>4
<1> QED BY <1>2, <1>5 DEF r, buf

\* Bytes in three parts may be put together in either order.
Associates(a, b, c) == (a \o b) \o c = a \o (b \o c)

\* Any bytes.
LEMMA BytesAssociate ==
    ASSUME NEW a \in Seq(Byte), NEW b \in Seq(Byte), NEW c \in Seq(Byte)
    PROVE  Associates(a, b, c)
<1>1. (a \o b) \o c = a \o (b \o c)
  BY ConcatAssociative
<1> QED BY <1>1 DEF Associates

\* A byte string with its length in front.
LEMMA VarIntBytesReadBack ==
    ASSUME NEW b \in Seq(Byte), Len(b) \in Fit, NEW rest \in Seq(Byte),
           NEW is \in Seq(Fit), NEW ds \in Seq(Seq(Byte))
    PROVE  /\ WriteBytes(b) \in Seq(Byte)
           /\ Reader(WriteBytes(b) \o rest, is, ds) \in Readers
           /\ ReadVarIntBytes(Reader(WriteBytes(b) \o rest, is, ds)) = {Reader(rest, is, Append(ds, b))}
<1> DEFINE v == Len(b)
           e == Encode(v)
           tail == b \o rest
           buf == e \o tail
           r == Reader(buf, is, ds)
           d == [value |-> v, len |-> EncodedLen(v)]
<1>1. v \in Nat /\ ~TooLarge(v)
  BY DEF Fit
<1> HIDE DEF v
<1>2. e \in Seq(Byte) /\ Len(e) = EncodedLen(v)
  BY <1>1, EncodeFacts
<1>3. tail \in Seq(Byte)
  OBVIOUS
<1> HIDE DEF tail
<1>4. Decode(buf) = {d}
  BY <1>1, <1>3, VarIntReadsBack
<1> HIDE DEF e
<1>5. buf \in Seq(Byte) /\ SubSeq(buf, Len(e) + 1, Len(buf)) = tail /\ Len(e) \in 0..Len(buf)
  BY <1>2, <1>3, ConcatParts
<1>6. WriteBytes(b) = e \o b /\ WriteBytes(b) \in Seq(Byte) /\ WriteBytes(b) \o rest = buf
  <2>1. WriteBytes(b) = e \o b
    BY DEF WriteBytes, e, v
  <2>2. (e \o b) \o rest = e \o (b \o rest)
    <3>1. Associates(e, b, rest)
      BY <1>2, BytesAssociate
    <3> QED BY <3>1 DEF Associates
  <2>3. e \o b \in Seq(Byte)
    BY <1>2
  <2> QED BY <2>1, <2>2, <2>3 DEF tail
<1> HIDE DEF buf
<1>7. r \in Readers /\ r.rest = buf /\ r.ints = is /\ r.data = ds
  BY <1>5, ReaderFields
<1> HIDE DEF r
<1>8. d.len = Len(e) /\ d.value = v
  BY <1>2
<1>9. ReadVarIntBytes(r) =
          UNION {ReadBytes([r EXCEPT !.rest = SubSeq(@, x.len + 1, Len(@))], x.value) : x \in {d}}
  BY <1>4, <1>7 DEF ReadVarIntBytes
<1> HIDE DEF d
<1>10. ReadVarIntBytes(r) = ReadBytes([r EXCEPT !.rest = SubSeq(@, d.len + 1, Len(@))], d.value)
  BY <1>9
<1> DEFINE s == [r EXCEPT !.rest = SubSeq(@, d.len + 1, Len(@))]
<1>11. s = Reader(tail, is, ds)
  <2> DEFINE n == Len(e)
  <2>1. s = [r EXCEPT !.rest = SubSeq(@, n + 1, Len(@))] /\ n \in 0..Len(r.rest)
    BY <1>5, <1>7, <1>8
  <2> HIDE DEF s, n
  <2>2. s = Reader(SubSeq(r.rest, n + 1, Len(r.rest)), r.ints, r.data)
    BY <1>7, <2>1, Passed
  <2> QED BY <1>5, <1>7, <2>2 DEF n
<1> HIDE DEF s
<1>12. ReadBytes(Reader(tail, is, ds), v) = {Reader(rest, is, Append(ds, b))}
  BY BytesReadBack DEF tail, v
<1>13. ReadVarIntBytes(r) = {Reader(rest, is, Append(ds, b))}
  BY <1>8, <1>10, <1>11, <1>12 DEF s
<1> QED BY <1>6, <1>7, <1>13 DEF r

\* A connection ID.
LEMMA CidReadsBack ==
    ASSUME NEW b \in Seq(Byte), Len(b) \in 1..20, NEW rest \in Seq(Byte),
           NEW is \in Seq(Fit), NEW ds \in Seq(Seq(Byte))
    PROVE  /\ <<Len(b)>> \o (b \o rest) \in Seq(Byte)
           /\ Reader(<<Len(b)>> \o (b \o rest), is, ds) \in Readers
           /\ ReadCid(Reader(<<Len(b)>> \o (b \o rest), is, ds)) = {Reader(rest, is, Append(ds, b))}
<1> DEFINE v == Len(b)
           tail == b \o rest
           buf == <<v>> \o tail
           r == Reader(buf, is, ds)
           s == [r EXCEPT !.rest = Tail(@)]
<1>1. v \in 1..20 /\ v \in Byte
  <2>1. \A x \in 1..20 : x \in 0..255
    OBVIOUS
  <2>2. Byte = 0..255
    BY ByteFacts DEF Byte
  <2>3. v \in 1..20
    OBVIOUS
  <2> QED BY <2>1, <2>2, <2>3
<1>2. tail \in Seq(Byte)
  OBVIOUS
<1> HIDE DEF v, tail
<1>3. <<v>> \in Seq(Byte) /\ Len(<<v>>) = 1
  BY <1>1
<1>4. buf \in Seq(Byte) /\ buf # <<>> /\ buf[1] = v /\ 1 \in 0..Len(buf)
  BY <1>1, <1>2, <1>3
<1>5. SubSeq(buf, 1 + 1, Len(buf)) = tail
  BY <1>2, <1>3, ConcatParts
<1> HIDE DEF buf
<1>6. Tail(buf) = tail
  <2>1. Tail(buf) = SubSeq(buf, 2, Len(buf))
    BY <1>4, TailIsSubSeq
  <2>2. 1 + 1 = 2
    OBVIOUS
  <2> QED BY <1>5, <2>1, <2>2
<1>7. r \in Readers /\ r.rest = buf /\ r.ints = is /\ r.data = ds
  BY <1>4, ReaderFields
<1> HIDE DEF r
<1>8. s = Reader(tail, is, ds)
  <2> DEFINE n == 1
  <2>1. s = [r EXCEPT !.rest = SubSeq(@, n + 1, Len(@))] /\ n \in 0..Len(r.rest)
    BY <1>4, <1>5, <1>6, <1>7
  <2>2. SubSeq(buf, n + 1, Len(buf)) = tail
    BY <1>5
  <2> HIDE DEF s, n
  <2>3. s = Reader(SubSeq(r.rest, n + 1, Len(r.rest)), r.ints, r.data)
    BY <1>7, <2>1, Passed
  <2> QED BY <1>7, <2>2, <2>3
<1>9. ReadCid(r) = ReadBytes(s, v)
  BY <1>1, <1>4, <1>7 DEF ReadCid
<1> HIDE DEF s
<1>10. ReadBytes(Reader(tail, is, ds), v) = {Reader(rest, is, Append(ds, b))}
  BY BytesReadBack DEF tail, v
<1>11. ReadCid(r) = {Reader(rest, is, Append(ds, b))}
  BY <1>8, <1>9, <1>10
<1> QED BY <1>4, <1>7, <1>11 DEF r, buf, tail, v

\* Bytes in three parts.
LEMMA BytesConcat ==
    \A a, b, c \in Seq(Byte) : (a \o b) \o c = a \o (b \o c) /\ a \o b \in Seq(Byte)
<1> TAKE a, b, c \in Seq(Byte)
<1>1. (a \o b) \o c = a \o (b \o c)
  BY ConcatAssociative
<1> QED BY <1>1

\* Integers that are written are read, before whatever follows.
IntsRead(t, n, after, is, ds) ==
    /\ Reader(WriteInts(t) \o after, is, ds) \in Readers
    /\ ReadInts(Reader(WriteInts(t) \o after, is, ds), n) = {Reader(after, is \o t, ds)}

\* One integer more.
LEMMA IntMoreReadsBack ==
    ASSUME NEW u \in Seq(Fit), NEW v \in Fit, NEW after \in Seq(Byte), NEW n \in Nat,
           NEW is \in Seq(Fit), NEW ds \in Seq(Seq(Byte)),
           IntsRead(u, n, Encode(v) \o after, is, ds)
    PROVE  IntsRead(Append(u, v), n + 1, after, is, ds)
<1> DEFINE mid == Encode(v) \o after
           r == Reader(WriteInts(u) \o mid, is, ds)
           js == is \o u
           y == Reader(mid, js, ds)
<1>1. WriteInts(u) \in Seq(Byte) /\ Encode(v) \in Seq(Byte)
  BY WriteIntsNext, EncodeTypes
<1>2. WriteInts(Append(u, v)) \o after = WriteInts(u) \o mid
  <2>1. WriteInts(Append(u, v)) = WriteInts(u) \o Encode(v)
    BY WriteIntsNext
  <2>2. Associates(WriteInts(u), Encode(v), after)
    BY <1>1, BytesAssociate
  <2> QED BY <2>1, <2>2 DEF Associates
<1>3. is \o Append(u, v) = Append(js, v) /\ js \in Seq(Fit)
  OBVIOUS
<1>4. r \in Readers /\ ReadInts(r, n) = {y}
  BY DEF IntsRead
<1> HIDE DEF js
<1>5. ReadInt(y) = {Reader(after, Append(js, v), ds)}
  BY <1>3, IntReadsBack
<1> HIDE DEF r, y
<1>6. ReadInts(r, n + 1) = UNION {ReadInt(x) : x \in ReadInts(r, n)}
  BY <1>4, ReadIntsNext
<1>7. ReadInts(r, n + 1) = {Reader(after, Append(js, v), ds)}
  BY <1>4, <1>5, <1>6
<1> QED BY <1>2, <1>3, <1>4, <1>7 DEF IntsRead, r

\* Several integers.
LEMMA IntsReadBack ==
    ASSUME NEW s \in Seq(Fit), NEW rest \in Seq(Byte), NEW is \in Seq(Fit), NEW ds \in Seq(Seq(Byte))
    PROVE  IntsRead(s, Len(s), rest, is, ds)
<1> DEFINE S == {n \in Nat : \A t \in Seq(Fit) : Len(t) = n =>
                                 \A after \in Seq(Byte) : IntsRead(t, n, after, is, ds)}
<1>1. 0 \in S
  <2> SUFFICES ASSUME NEW t \in Seq(Fit), Len(t) = 0, NEW after \in Seq(Byte)
               PROVE  IntsRead(t, 0, after, is, ds)
    OBVIOUS
  <2>1. t = <<>>
    OBVIOUS
  <2>2. WriteInts(t) \o after = after
    BY <2>1, WriteIntsNext
  <2>3. is \o t = is
    BY <2>1
  <2>4. Reader(after, is, ds) \in Readers
    BY ReaderFields
  <2>5. ReadInts(Reader(after, is, ds), 0) = {Reader(after, is, ds)}
    BY <2>4, ReadIntsNext
  <2> QED BY <2>2, <2>3, <2>4, <2>5 DEF IntsRead
<1>2. ASSUME NEW n \in Nat, n \in S PROVE n + 1 \in S
  <2> SUFFICES ASSUME NEW t \in Seq(Fit), Len(t) = n + 1, NEW after \in Seq(Byte)
               PROVE  IntsRead(t, n + 1, after, is, ds)
    OBVIOUS
  <2>1. PICK u \in Seq(Fit), v \in Fit : t = Append(u, v) /\ Len(u) = n
    BY LastInt
  <2>2. Encode(v) \o after \in Seq(Byte)
    BY EncodeTypes, BytesConcat
  <2>3. IntsRead(u, n, Encode(v) \o after, is, ds)
    BY <1>2, <2>1, <2>2
  <2>4. IntsRead(Append(u, v), n + 1, after, is, ds)
    BY <2>3, IntMoreReadsBack
  <2> QED BY <2>1, <2>4
<1> HIDE DEF S
<1>3. Len(s) \in S
  <2>1. \A n \in Nat : n \in S
    BY <1>1, <1>2, Induction
  <2> QED BY <2>1
<1> QED BY <1>3 DEF S

\* Integers in two parts.
LEMMA WriteIntsConcat ==
    ASSUME NEW s \in Seq(Fit), NEW t \in Seq(Fit)
    PROVE  WriteInts(s \o t) = WriteInts(s) \o WriteInts(t)
<1> DEFINE S == {n \in Nat : \A u \in Seq(Fit) : Len(u) = n => WriteInts(s \o u) = WriteInts(s) \o WriteInts(u)}
<1>1. WriteInts(s) \in Seq(Byte)
  BY WriteIntsNext
<1>2. 0 \in S
  <2> SUFFICES ASSUME NEW u \in Seq(Fit), Len(u) = 0
               PROVE  WriteInts(s \o u) = WriteInts(s) \o WriteInts(u)
    OBVIOUS
  <2>1. u = <<>> /\ s \o u = s
    OBVIOUS
  <2>2. WriteInts(u) = <<>>
    BY <2>1, WriteIntsNext
  <2>3. WriteInts(s) \o <<>> = WriteInts(s)
    BY <1>1
  <2> QED BY <2>1, <2>2, <2>3
<1>3. ASSUME NEW n \in Nat, n \in S PROVE n + 1 \in S
  <2> SUFFICES ASSUME NEW u \in Seq(Fit), Len(u) = n + 1
               PROVE  WriteInts(s \o u) = WriteInts(s) \o WriteInts(u)
    OBVIOUS
  <2>1. PICK a \in Seq(Fit), v \in Fit : u = Append(a, v) /\ Len(a) = n
    BY LastInt
  <2>2. s \o u = Append(s \o a, v) /\ s \o a \in Seq(Fit)
    BY <2>1
  <2>3. WriteInts(s \o u) = WriteInts(s \o a) \o Encode(v)
    BY <2>2, WriteIntsNext
  <2>4. WriteInts(s \o a) = WriteInts(s) \o WriteInts(a)
    BY <1>3, <2>1
  <2>5. WriteInts(u) = WriteInts(a) \o Encode(v)
    BY <2>1, WriteIntsNext
  <2>6. WriteInts(a) \in Seq(Byte) /\ Encode(v) \in Seq(Byte)
    BY WriteIntsNext, EncodeTypes
  <2>7. (WriteInts(s) \o WriteInts(a)) \o Encode(v) = WriteInts(s) \o (WriteInts(a) \o Encode(v))
    <3> DEFINE a1 == WriteInts(s)
               a2 == WriteInts(a)
               a3 == Encode(v)
    <3>1. a1 \in Seq(Byte) /\ a2 \in Seq(Byte) /\ a3 \in Seq(Byte)
      BY <1>1, <2>6
    <3> HIDE DEF a1, a2, a3
    <3>2. Associates(a1, a2, a3)
      BY <3>1, BytesAssociate
    <3> QED BY <3>2 DEF Associates, a1, a2, a3
  <2> QED BY <2>3, <2>4, <2>5, <2>7
<1> HIDE DEF S
<1>4. Len(t) \in S
  <2>1. \A n \in Nat : n \in S
    BY <1>2, <1>3, Induction
  <2> QED BY <2>1
<1> QED BY <1>4 DEF S

\* The ranges of an ACK frame: their count, and the integers.
LEMMA RangesReadBack ==
    ASSUME NEW k \in Fit, NEW s \in Seq(Fit), Len(s) = 1 + 2 * k, NEW rest \in Seq(Byte),
           NEW is \in Seq(Fit), NEW ds \in Seq(Seq(Byte))
    PROVE  ReadRanges(Reader((Encode(k) \o WriteInts(s)) \o rest, is, ds)) = {Reader(rest, is \o s, ds)}
<1> DEFINE e == Encode(k)
           tail == WriteInts(s) \o rest
           buf == e \o tail
           r == Reader(buf, is, ds)
           d == [value |-> k, len |-> EncodedLen(k)]
<1>1. k \in Nat /\ ~TooLarge(k)
  BY DEF Fit
<1>2. e \in Seq(Byte) /\ Len(e) = EncodedLen(k)
  BY <1>1, EncodeFacts
<1>3. WriteInts(s) \in Seq(Byte) /\ Len(s) <= Len(WriteInts(s))
  BY WriteIntsNext, WriteIntsLength
<1>4. tail \in Seq(Byte) /\ ~(k > Len(tail))
  <2>1. tail \in Seq(Byte) /\ Len(tail) = Len(WriteInts(s)) + Len(rest)
    BY <1>3
  <2>2. Len(WriteInts(s)) \in Nat /\ Len(rest) \in Nat /\ Len(s) \in Nat
    BY <1>3
  <2> HIDE DEF tail
  <2> DEFINE l == Len(tail)
             a == Len(WriteInts(s))
             b == Len(rest)
  <2>3. l = a + b /\ a \in Nat /\ b \in Nat /\ 1 + 2 * k <= a
    BY <1>3, <2>1, <2>2
  <2> HIDE DEF l, a, b
  <2>4. ~(k > l)
    BY <1>1, <2>3
  <2> QED BY <2>1, <2>4 DEF l
<1>5. (e \o WriteInts(s)) \o rest = buf
  <2> DEFINE w == WriteInts(s)
  <2>1. w \in Seq(Byte) /\ e \in Seq(Byte)
    BY <1>2, <1>3
  <2> HIDE DEF w, e
  <2>2. Associates(e, w, rest)
    BY <2>1, BytesAssociate
  <2> QED BY <2>2 DEF Associates, w, tail
<1>6. Decode(buf) = {d}
  BY <1>1, <1>4, VarIntReadsBack
<1>7. ReadInts(Reader(tail, is, ds), 1 + 2 * k) = {Reader(rest, is \o s, ds)}
  BY IntsReadBack DEF IntsRead
<1> HIDE DEF e, tail
<1>8. buf \in Seq(Byte) /\ SubSeq(buf, Len(e) + 1, Len(buf)) = tail /\ Len(e) \in 0..Len(buf)
  BY <1>2, <1>4, ConcatParts
<1> HIDE DEF buf
<1>9. r \in Readers /\ r.rest = buf /\ r.ints = is /\ r.data = ds
  BY <1>8, ReaderFields
<1> HIDE DEF r
<1>10. d.len = Len(e) /\ d.value = k
  BY <1>2
<1> DEFINE Branch(x) == LET after == [r EXCEPT !.rest = SubSeq(@, x.len + 1, Len(@))]
                        IN  IF x.value > Len(after.rest) THEN {} ELSE ReadInts(after, 1 + 2 * x.value)
<1>11. ReadRanges(r) = UNION {Branch(x) : x \in {d}}
  BY <1>6, <1>9 DEF ReadRanges
<1> HIDE DEF d
<1>12. ReadRanges(r) = Branch(d)
  <2> HIDE DEF Branch
  <2> QED BY <1>11
<1> DEFINE t == [r EXCEPT !.rest = SubSeq(@, d.len + 1, Len(@))]
<1>13. t = Reader(tail, is, ds) /\ t.rest = tail
  <2> DEFINE n == Len(e)
  <2>1. t = [r EXCEPT !.rest = SubSeq(@, n + 1, Len(@))] /\ n \in 0..Len(r.rest)
    BY <1>8, <1>9, <1>10
  <2> HIDE DEF t, n
  <2>2. t = Reader(SubSeq(r.rest, n + 1, Len(r.rest)), r.ints, r.data)
        /\ t.rest = SubSeq(r.rest, n + 1, Len(r.rest))
    BY <1>9, <2>1, Passed
  <2> QED BY <1>8, <1>9, <2>2 DEF n
<1>14. Branch(d) = IF d.value > Len(t.rest) THEN {} ELSE ReadInts(t, 1 + 2 * d.value)
  OBVIOUS
<1> HIDE DEF t, Branch
<1>15. Branch(d) = ReadInts(t, 1 + 2 * k)
  BY <1>4, <1>10, <1>13, <1>14
<1>16. ReadRanges(r) = {Reader(rest, is \o s, ds)}
  BY <1>7, <1>12, <1>13, <1>15
<1> QED BY <1>5, <1>16 DEF r, e

-----------------------------------------------------------------------------
(* Fields that are written are read.                                       *)

\* These bytes are read as these fields, whatever follows, and make these
\* integers and byte strings.
Reads(b, fs, is, ds) ==
    \A rest \in Seq(Byte) :
        ReadFields(Reader(b \o rest, <<>>, <<>>), fs) = {Reader(rest, is, ds)}

\* These bytes are read as one field, and make the second of these integers and
\* byte strings of the first.
FieldReads(e, field, is, ds, js, cs) ==
    \A rest \in Seq(Byte) : ReadField(Reader(e \o rest, is, ds), field) = {Reader(rest, js, cs)}

\* What parse_frame starts with after the type.
LEMMA StartFacts ==
    ASSUME NEW buf \in Seq(Byte)
    PROVE  /\ Reader(buf, <<>>, <<>>) \in Readers
           /\ Reader(buf, <<>>, <<>>).rest = buf
           /\ Reader(buf, <<>>, <<>>).ints = <<>> /\ Reader(buf, <<>>, <<>>).data = <<>>
<1> DEFINE none == <<>>
<1>1. none \in Seq(Fit) /\ none \in Seq(Seq(Byte))
  OBVIOUS
<1> HIDE DEF none
<1>2. /\ Reader(buf, none, none) \in Readers /\ Reader(buf, none, none).rest = buf
      /\ Reader(buf, none, none).ints = none /\ Reader(buf, none, none).data = none
  BY <1>1, ReaderFields
<1> QED BY <1>2 DEF none

\* No fields.
LEMMA ReadsNothing == Reads(<<>>, <<>>, <<>>, <<>>)
<1> SUFFICES ASSUME NEW rest \in Seq(Byte)
             PROVE  ReadFields(Reader(<<>> \o rest, <<>>, <<>>), <<>>) = {Reader(rest, <<>>, <<>>)}
  BY DEF Reads
<1>1. <<>> \o rest = rest
  OBVIOUS
<1> DEFINE r == Reader(rest, <<>>, <<>>)
<1>2. r \in Readers
  BY StartFacts
<1> HIDE DEF r
<1>3. ReadFields(r, <<>>) = {r}
  BY <1>2, ReadFieldsNext
<1> QED BY <1>1, <1>3 DEF r

\* A field more.
LEMMA ReadsNext ==
    ASSUME NEW b \in Seq(Byte), NEW e \in Seq(Byte), NEW fs \in Seq(Fields), NEW field \in Fields,
           NEW is, NEW ds, NEW js, NEW cs,
           Reads(b, fs, is, ds), FieldReads(e, field, is, ds, js, cs)
    PROVE  Reads(b \o e, Append(fs, field), js, cs)
<1> SUFFICES ASSUME NEW rest \in Seq(Byte)
             PROVE  ReadFields(Reader((b \o e) \o rest, <<>>, <<>>), Append(fs, field))
                        = {Reader(rest, js, cs)}
  BY DEF Reads
<1> DEFINE mid == e \o rest
           buf == b \o mid
           r == Reader(buf, <<>>, <<>>)
           y == Reader(mid, is, ds)
<1>1. mid \in Seq(Byte) /\ buf \in Seq(Byte) /\ (b \o e) \o rest = buf
  BY BytesConcat
<1>2. ReadField(y, field) = {Reader(rest, js, cs)}
  BY DEF FieldReads
<1> HIDE DEF mid
<1>3. ReadFields(r, fs) = {y}
  BY <1>1 DEF Reads
<1> HIDE DEF buf, y
<1>4. r \in Readers
  BY <1>1, StartFacts
<1> HIDE DEF r
<1>5. ReadFields(r, Append(fs, field)) = UNION {ReadField(x, field) : x \in ReadFields(r, fs)}
  BY <1>4, ReadFieldsNext
<1>6. ReadFields(r, Append(fs, field)) = {Reader(rest, js, cs)}
  BY <1>2, <1>3, <1>5
<1> QED BY <1>1, <1>6 DEF r

\* The fields that are integers.
LEMMA IntFieldsRead ==
    ASSUME NEW is \in Seq(Fit), NEW ds \in Seq(Seq(Byte))
    PROVE  /\ \A v \in Fit : FieldReads(Encode(v), "int", is, ds, Append(is, v), ds)
           /\ FieldReads(<<>>, "zero", is, ds, Append(is, 0), ds)
           /\ \A k \in Fit, s \in Seq(Fit) :
                  Len(s) = 1 + 2 * k =>
                      FieldReads(Encode(k) \o WriteInts(s), "ranges", is, ds, is \o s, ds)
<1>1. ASSUME NEW v \in Fit PROVE FieldReads(Encode(v), "int", is, ds, Append(is, v), ds)
  <2> SUFFICES ASSUME NEW rest \in Seq(Byte)
               PROVE  ReadField(Reader(Encode(v) \o rest, is, ds), "int")
                          = {Reader(rest, Append(is, v), ds)}
    BY DEF FieldReads
  <2> DEFINE r == Reader(Encode(v) \o rest, is, ds)
  <2>1. ReadInt(r) = {Reader(rest, Append(is, v), ds)}
    BY IntReadsBack
  <2> HIDE DEF r
  <2>2. ReadField(r, "int") = ReadInt(r)
    BY FieldReaders
  <2> QED BY <2>1, <2>2 DEF r
<1>2. FieldReads(<<>>, "zero", is, ds, Append(is, 0), ds)
  <2> SUFFICES ASSUME NEW rest \in Seq(Byte)
               PROVE  ReadField(Reader(<<>> \o rest, is, ds), "zero")
                          = {Reader(rest, Append(is, 0), ds)}
    BY DEF FieldReads
  <2> DEFINE r == Reader(rest, is, ds)
  <2>1. <<>> \o rest = rest
    OBVIOUS
  <2>2. r \in Readers /\ r.rest = rest /\ r.ints = is /\ r.data = ds
    BY ReaderFields
  <2> HIDE DEF r
  <2>3. [r EXCEPT !.ints = Append(@, 0)] = Reader(r.rest, Append(r.ints, 0), r.data)
    BY <2>2, ReadZeroFacts
  <2>4. ReadField(r, "zero") = {[r EXCEPT !.ints = Append(@, 0)]}
    BY FieldReaders
  <2>5. ReadField(r, "zero") = {Reader(rest, Append(is, 0), ds)}
    BY <2>2, <2>3, <2>4
  <2> QED BY <2>1, <2>5 DEF r
<1>3. ASSUME NEW k \in Fit, NEW s \in Seq(Fit), Len(s) = 1 + 2 * k
      PROVE  FieldReads(Encode(k) \o WriteInts(s), "ranges", is, ds, is \o s, ds)
  <2> SUFFICES ASSUME NEW rest \in Seq(Byte)
               PROVE  ReadField(Reader((Encode(k) \o WriteInts(s)) \o rest, is, ds), "ranges")
                          = {Reader(rest, is \o s, ds)}
    BY DEF FieldReads
  <2> DEFINE r == Reader((Encode(k) \o WriteInts(s)) \o rest, is, ds)
  <2>1. ReadRanges(r) = {Reader(rest, is \o s, ds)}
    BY <1>3, RangesReadBack
  <2> HIDE DEF r
  <2>2. ReadField(r, "ranges") = ReadRanges(r)
    BY FieldReaders
  <2> QED BY <2>1, <2>2 DEF r
<1> QED BY <1>1, <1>2, <1>3

\* The fields that are byte strings, but for the one without a length.
LEMMA StringFieldsRead ==
    ASSUME NEW is \in Seq(Fit), NEW ds \in Seq(Seq(Byte)), NEW b \in Seq(Byte)
    PROVE  /\ Len(b) \in Fit => FieldReads(WriteBytes(b), "bytes", is, ds, is, Append(ds, b))
           /\ Len(b) \in 1..20 => FieldReads(<<Len(b)>> \o b, "cid", is, ds, is, Append(ds, b))
           /\ Len(b) = 16 => FieldReads(b, "token", is, ds, is, Append(ds, b))
           /\ Len(b) = 8 => FieldReads(b, "path", is, ds, is, Append(ds, b))
<1>1. ASSUME Len(b) \in Fit PROVE FieldReads(WriteBytes(b), "bytes", is, ds, is, Append(ds, b))
  <2> SUFFICES ASSUME NEW rest \in Seq(Byte)
               PROVE  ReadField(Reader(WriteBytes(b) \o rest, is, ds), "bytes")
                          = {Reader(rest, is, Append(ds, b))}
    BY DEF FieldReads
  <2> DEFINE r == Reader(WriteBytes(b) \o rest, is, ds)
  <2>1. ReadVarIntBytes(r) = {Reader(rest, is, Append(ds, b))}
    BY <1>1, VarIntBytesReadBack
  <2> HIDE DEF r
  <2>2. ReadField(r, "bytes") = ReadVarIntBytes(r)
    BY FieldReaders
  <2> QED BY <2>1, <2>2 DEF r
<1>2. ASSUME Len(b) \in 1..20 PROVE FieldReads(<<Len(b)>> \o b, "cid", is, ds, is, Append(ds, b))
  <2> SUFFICES ASSUME NEW rest \in Seq(Byte)
               PROVE  ReadField(Reader((<<Len(b)>> \o b) \o rest, is, ds), "cid")
                          = {Reader(rest, is, Append(ds, b))}
    BY DEF FieldReads
  <2> DEFINE r == Reader(<<Len(b)>> \o (b \o rest), is, ds)
  <2>1. ReadCid(r) = {Reader(rest, is, Append(ds, b))}
    BY <1>2, CidReadsBack
  <2>2. (<<Len(b)>> \o b) \o rest = <<Len(b)>> \o (b \o rest)
    <3>1. <<Len(b)>> \in Seq(Nat) /\ b \in Seq(Nat) /\ rest \in Seq(Nat)
      BY ByteNumbers
    <3> QED BY <3>1, ConcatAssociative
  <2> HIDE DEF r
  <2>3. ReadField(r, "cid") = ReadCid(r)
    BY FieldReaders
  <2> QED BY <2>1, <2>2, <2>3 DEF r
<1>3. ASSUME NEW field, NEW n \in Nat, \A r : ReadField(r, field) = ReadBytes(r, n), Len(b) = n
      PROVE  FieldReads(b, field, is, ds, is, Append(ds, b))
  <2> SUFFICES ASSUME NEW rest \in Seq(Byte)
               PROVE  ReadField(Reader(b \o rest, is, ds), field) = {Reader(rest, is, Append(ds, b))}
    BY DEF FieldReads
  <2> DEFINE r == Reader(b \o rest, is, ds)
  <2>1. ReadBytes(r, Len(b)) = {Reader(rest, is, Append(ds, b))}
    BY BytesReadBack
  <2> HIDE DEF r
  <2>2. ReadField(r, field) = ReadBytes(r, n)
    BY <1>3
  <2> QED BY <1>3, <2>1, <2>2 DEF r
<1>4. /\ Len(b) = 16 => FieldReads(b, "token", is, ds, is, Append(ds, b))
      /\ Len(b) = 8 => FieldReads(b, "path", is, ds, is, Append(ds, b))
  <2>1. \A r : ReadField(r, "token") = ReadBytes(r, 16) /\ ReadField(r, "path") = ReadBytes(r, 8)
    BY FieldReaders
  <2> QED BY <1>3, <2>1
<1> QED BY <1>1, <1>2, <1>4

-----------------------------------------------------------------------------
(* The type of a frame that is written.                                    *)

\* n is the first type of its kind.
FirstType(kind, n) ==
    n \in 0..MaxType /\ KindOf(n) = kind /\ \A u \in 0..MaxType : KindOf(u) = kind => n <= u

\* The first type is the one that is chosen.
LEMMA FirstTypeChosen ==
    ASSUME NEW kind, NEW n, FirstType(kind, n)
    PROVE  (CHOOSE t \in 0..MaxType :
                KindOf(t) = kind /\ \A u \in 0..MaxType : KindOf(u) = kind => t <= u) = n
<1> DEFINE P(t) == KindOf(t) = kind /\ \A u \in 0..MaxType : KindOf(u) = kind => t <= u
           c == CHOOSE t \in 0..MaxType : P(t)
<1>1. n \in 0..MaxType /\ P(n)
  BY DEF FirstType
<1>2. c \in 0..MaxType /\ P(c)
  BY <1>1
<1>3. n <= c /\ c <= n
  BY <1>1, <1>2
<1> HIDE DEF P, c
<1>4. n \in Int /\ c \in Int
  BY <1>1, <1>2 DEF MaxType
<1>5. c = n
  BY <1>3, <1>4
<1> QED BY <1>5 DEF P, c

\* The first type of every kind.
LEMMA FirstTypes ==
    /\ FirstType("PADDING", 0)
    /\ FirstType("PING", 1)
    /\ FirstType("ACK", 2)
    /\ FirstType("RESET_STREAM", 4)
    /\ FirstType("STOP_SENDING", 5)
    /\ FirstType("CRYPTO", 6)
    /\ FirstType("NEW_TOKEN", 7)
    /\ FirstType("STREAM", 8)
    /\ FirstType("MAX_DATA", 16)
    /\ FirstType("MAX_STREAM_DATA", 17)
    /\ FirstType("MAX_STREAMS", 18)
    /\ FirstType("DATA_BLOCKED", 20)
    /\ FirstType("STREAM_DATA_BLOCKED", 21)
    /\ FirstType("STREAMS_BLOCKED", 22)
    /\ FirstType("NEW_CONNECTION_ID", 24)
    /\ FirstType("RETIRE_CONNECTION_ID", 25)
    /\ FirstType("PATH_CHALLENGE", 26)
    /\ FirstType("PATH_RESPONSE", 27)
    /\ FirstType("CONNECTION_CLOSE", 28)
    /\ FirstType("HANDSHAKE_DONE", 30)
<1>0. MaxType = 30 /\ \A n \in 0..30 : n \in 0..MaxType
  BY DEF MaxType
<1>1. FirstType("PADDING", 0)
  <2>1. \A u \in 0..MaxType : KindOf(u) = "PADDING" => 0 <= u
    BY TypeCases, KindTable
  <2> QED BY <1>0, <2>1, KindTable DEF FirstType
<1>2. FirstType("PING", 1)
  <2>1. \A u \in 0..MaxType : KindOf(u) = "PING" => 1 <= u
    BY TypeCases, KindTable
  <2> QED BY <1>0, <2>1, KindTable DEF FirstType
<1>3. FirstType("ACK", 2)
  <2>1. \A u \in 0..MaxType : KindOf(u) = "ACK" => 2 <= u
    BY TypeCases, KindTable
  <2> QED BY <1>0, <2>1, KindTable DEF FirstType
<1>4. FirstType("RESET_STREAM", 4)
  <2>1. \A u \in 0..MaxType : KindOf(u) = "RESET_STREAM" => 4 <= u
    BY TypeCases, KindTable
  <2> QED BY <1>0, <2>1, KindTable DEF FirstType
<1>5. FirstType("STOP_SENDING", 5)
  <2>1. \A u \in 0..MaxType : KindOf(u) = "STOP_SENDING" => 5 <= u
    BY TypeCases, KindTable
  <2> QED BY <1>0, <2>1, KindTable DEF FirstType
<1>6. FirstType("CRYPTO", 6)
  <2>1. \A u \in 0..MaxType : KindOf(u) = "CRYPTO" => 6 <= u
    BY TypeCases, KindTable
  <2> QED BY <1>0, <2>1, KindTable DEF FirstType
<1>7. FirstType("NEW_TOKEN", 7)
  <2>1. \A u \in 0..MaxType : KindOf(u) = "NEW_TOKEN" => 7 <= u
    BY TypeCases, KindTable
  <2> QED BY <1>0, <2>1, KindTable DEF FirstType
<1>8. FirstType("STREAM", 8)
  <2>1. \A u \in 0..MaxType : KindOf(u) = "STREAM" => 8 <= u
    BY TypeCases, KindTable
  <2> QED BY <1>0, <2>1, KindTable DEF FirstType
<1>9. FirstType("MAX_DATA", 16)
  <2>1. \A u \in 0..MaxType : KindOf(u) = "MAX_DATA" => 16 <= u
    BY TypeCases, KindTable
  <2> QED BY <1>0, <2>1, KindTable DEF FirstType
<1>10. FirstType("MAX_STREAM_DATA", 17)
  <2>1. \A u \in 0..MaxType : KindOf(u) = "MAX_STREAM_DATA" => 17 <= u
    BY TypeCases, KindTable
  <2> QED BY <1>0, <2>1, KindTable DEF FirstType
<1>11. FirstType("MAX_STREAMS", 18)
  <2>1. \A u \in 0..MaxType : KindOf(u) = "MAX_STREAMS" => 18 <= u
    BY TypeCases, KindTable
  <2> QED BY <1>0, <2>1, KindTable DEF FirstType
<1>12. FirstType("DATA_BLOCKED", 20)
  <2>1. \A u \in 0..MaxType : KindOf(u) = "DATA_BLOCKED" => 20 <= u
    BY TypeCases, KindTable
  <2> QED BY <1>0, <2>1, KindTable DEF FirstType
<1>13. FirstType("STREAM_DATA_BLOCKED", 21)
  <2>1. \A u \in 0..MaxType : KindOf(u) = "STREAM_DATA_BLOCKED" => 21 <= u
    BY TypeCases, KindTable
  <2> QED BY <1>0, <2>1, KindTable DEF FirstType
<1>14. FirstType("STREAMS_BLOCKED", 22)
  <2>1. \A u \in 0..MaxType : KindOf(u) = "STREAMS_BLOCKED" => 22 <= u
    BY TypeCases, KindTable
  <2> QED BY <1>0, <2>1, KindTable DEF FirstType
<1>15. FirstType("NEW_CONNECTION_ID", 24)
  <2>1. \A u \in 0..MaxType : KindOf(u) = "NEW_CONNECTION_ID" => 24 <= u
    BY TypeCases, KindTable
  <2> QED BY <1>0, <2>1, KindTable DEF FirstType
<1>16. FirstType("RETIRE_CONNECTION_ID", 25)
  <2>1. \A u \in 0..MaxType : KindOf(u) = "RETIRE_CONNECTION_ID" => 25 <= u
    BY TypeCases, KindTable
  <2> QED BY <1>0, <2>1, KindTable DEF FirstType
<1>17. FirstType("PATH_CHALLENGE", 26)
  <2>1. \A u \in 0..MaxType : KindOf(u) = "PATH_CHALLENGE" => 26 <= u
    BY TypeCases, KindTable
  <2> QED BY <1>0, <2>1, KindTable DEF FirstType
<1>18. FirstType("PATH_RESPONSE", 27)
  <2>1. \A u \in 0..MaxType : KindOf(u) = "PATH_RESPONSE" => 27 <= u
    BY TypeCases, KindTable
  <2> QED BY <1>0, <2>1, KindTable DEF FirstType
<1>19. FirstType("CONNECTION_CLOSE", 28)
  <2>1. \A u \in 0..MaxType : KindOf(u) = "CONNECTION_CLOSE" => 28 <= u
    BY TypeCases, KindTable
  <2> QED BY <1>0, <2>1, KindTable DEF FirstType
<1>20. FirstType("HANDSHAKE_DONE", 30)
  <2>1. \A u \in 0..MaxType : KindOf(u) = "HANDSHAKE_DONE" => 30 <= u
    BY TypeCases, KindTable
  <2> QED BY <1>0, <2>1, KindTable DEF FirstType
<1> QED BY <1>1, <1>2, <1>3, <1>4, <1>5, <1>6, <1>7, <1>8, <1>9, <1>10, <1>11, <1>12, <1>13, <1>14,
           <1>15, <1>16, <1>17, <1>18, <1>19, <1>20

\* The type write_frame chooses.
LEMMA TypeForKind ==
    ASSUME NEW f
    PROVE  /\ \A n : f.kind \notin {"STREAM", "ACK", "MAX_STREAMS", "STREAMS_BLOCKED",
                                    "CONNECTION_CLOSE"} /\ FirstType(f.kind, n) /\ n \in Nat =>
                         TypeFor(f) = n
           /\ f.kind = "ACK" => TypeFor(f) = IF f.bit THEN 3 ELSE 2
           /\ f.kind = "MAX_STREAMS" => TypeFor(f) = IF f.bit THEN 18 ELSE 19
           /\ f.kind = "STREAMS_BLOCKED" => TypeFor(f) = IF f.bit THEN 22 ELSE 23
           /\ f.kind = "CONNECTION_CLOSE" => TypeFor(f) = IF f.bit THEN 28 ELSE 29
           /\ f.kind = "STREAM" =>
                  TypeFor(f) = IF f.ints[2] > 0
                               THEN IF f.data[1] # <<>> THEN IF f.bit THEN 15 ELSE 14
                                    ELSE IF f.bit THEN 13 ELSE 12
                               ELSE IF f.data[1] # <<>> THEN IF f.bit THEN 11 ELSE 10
                                    ELSE IF f.bit THEN 9 ELSE 8
<1> DEFINE first == CHOOSE t \in 0..MaxType :
                        KindOf(t) = f.kind /\ \A u \in 0..MaxType : KindOf(u) = f.kind => t <= u
           flags == CASE f.kind = "STREAM" -> (IF f.bit THEN 1 ELSE 0)
                                      + (IF f.data[1] # <<>> THEN 2 ELSE 0)
                                      + (IF f.ints[2] > 0 THEN 4 ELSE 0)
          [] f.kind = "ACK" -> IF f.bit THEN 1 ELSE 0
          [] f.kind \in {"MAX_STREAMS", "STREAMS_BLOCKED", "CONNECTION_CLOSE"} ->
                 IF f.bit THEN 0 ELSE 1
          [] OTHER -> 0
<1>1. TypeFor(f) = first + flags
  BY DEF TypeFor
<1>2. \A n : FirstType(f.kind, n) => first = n
  BY FirstTypeChosen
<1> HIDE DEF first
<1>3. ASSUME NEW n \in Nat, FirstType(f.kind, n),
             f.kind \notin {"STREAM", "ACK", "MAX_STREAMS", "STREAMS_BLOCKED", "CONNECTION_CLOSE"}
      PROVE  TypeFor(f) = n
  <2>1. flags = 0
    BY <1>3
  <2>2. first = n
    BY <1>2, <1>3
  <2> QED BY <1>1, <2>1, <2>2
<1>4. CASE f.kind = "ACK"
  <2>1. first = 2 /\ flags = IF f.bit THEN 1 ELSE 0
    BY <1>2, <1>4, FirstTypes
  <2> HIDE DEF flags
  <2> QED BY <1>1, <1>4, <2>1
<1>5. CASE f.kind \in {"MAX_STREAMS", "STREAMS_BLOCKED", "CONNECTION_CLOSE"}
  <2>1. flags = IF f.bit THEN 0 ELSE 1
    BY <1>5
  <2>2. /\ f.kind = "MAX_STREAMS" => first = 18
        /\ f.kind = "STREAMS_BLOCKED" => first = 22
        /\ f.kind = "CONNECTION_CLOSE" => first = 28
    BY <1>2, FirstTypes
  <2> HIDE DEF flags
  <2> QED BY <1>1, <1>5, <2>1, <2>2
<1>6. CASE f.kind = "STREAM"
  <2>1. first = 8
    BY <1>2, <1>6, FirstTypes
  <2>2. flags = (IF f.bit THEN 1 ELSE 0) + (IF f.data[1] # <<>> THEN 2 ELSE 0)
                    + (IF f.ints[2] > 0 THEN 4 ELSE 0)
    BY <1>6
  <2> HIDE DEF flags
  <2> DEFINE len == f.data[1] # <<>>
             off == f.ints[2] > 0
  <2>3. flags = (IF f.bit THEN 1 ELSE 0) + (IF len THEN 2 ELSE 0) + (IF off THEN 4 ELSE 0)
    BY <2>2
  <2> HIDE DEF len, off
  <2>4. TypeFor(f) = IF off THEN IF len THEN IF f.bit THEN 15 ELSE 14 ELSE IF f.bit THEN 13 ELSE 12
                     ELSE IF len THEN IF f.bit THEN 11 ELSE 10 ELSE IF f.bit THEN 9 ELSE 8
    BY <1>1, <2>1, <2>3
  <2> QED BY <1>6, <2>4 DEF len, off
<1> QED BY <1>3, <1>4, <1>5, <1>6

\* The flags in a type.
LEMMA TypeBits ==
    /\ ~FinBit(2) /\ FinBit(3) /\ FinBit(9) /\ FinBit(11) /\ FinBit(13) /\ FinBit(15)
    /\ ~FinBit(8) /\ ~FinBit(10) /\ ~FinBit(12) /\ ~FinBit(14)
    /\ ~LenBit(8) /\ ~LenBit(9) /\ ~LenBit(12) /\ ~LenBit(13)
    /\ LenBit(10) /\ LenBit(11) /\ LenBit(14) /\ LenBit(15)
    /\ ~OffBit(8) /\ ~OffBit(9) /\ ~OffBit(10) /\ ~OffBit(11)
    /\ OffBit(12) /\ OffBit(13) /\ OffBit(14) /\ OffBit(15)
    /\ ~FinBit(18) /\ FinBit(19) /\ ~FinBit(22) /\ FinBit(23) /\ ~FinBit(28) /\ FinBit(29)
  BY DEF FinBit, LenBit, OffBit

\* The type tells what the frame is.
LEMMA TypeForFacts ==
    ASSUME NEW f, WellFormed(f)
    PROVE  /\ TypeFor(f) \in 0..MaxType /\ KindOf(TypeFor(f)) = f.kind /\ BitOf(TypeFor(f)) = f.bit
           /\ f.kind = "ACK" => (FinBit(TypeFor(f)) <=> f.bit)
           /\ f.kind = "STREAM" => /\ OffBit(TypeFor(f)) <=> f.ints[2] > 0
                                   /\ LenBit(TypeFor(f)) <=> f.data[1] # <<>>
<1> DEFINE t == TypeFor(f)
<1>1. f.bit \in BOOLEAN /\ f.kind \in Kinds
  <2>1. f.kind \in {KindOf(type) : type \in 0..MaxType}
    BY DEF WellFormed
  <2> QED BY <2>1, KindOfType DEF WellFormed
<1>2. f.bit => f.kind \in {"ACK", "STREAM", "MAX_STREAMS", "STREAMS_BLOCKED", "CONNECTION_CLOSE"}
  BY DEF WellFormed
<1>3. ASSUME NEW n, n \in 0..30 PROVE n \in 0..MaxType
  BY <1>3 DEF MaxType
<1>4. CASE f.kind \notin {"STREAM", "ACK", "MAX_STREAMS", "STREAMS_BLOCKED", "CONNECTION_CLOSE"}
  <2>1. PICK n \in 0..MaxType : FirstType(f.kind, n)
    <3>1. \E n : FirstType(f.kind, n)
      BY <1>1, FirstTypes DEF Kinds
    <3> QED BY <3>1 DEF FirstType
  <2>2. t = n
    <3>1. n \in Nat
      BY DEF MaxType
    <3> QED BY <1>4, <2>1, <3>1, TypeForKind
  <2>3. KindOf(t) = f.kind
    BY <2>1, <2>2 DEF FirstType
  <2> HIDE DEF t
  <2>4. ~BitOf(t) /\ ~f.bit
    BY <1>2, <1>4, <2>3 DEF BitOf
  <2>5. BitOf(t) = f.bit
    BY <1>1, <2>4 DEF BitOf
  <2> QED BY <1>4, <2>2, <2>3, <2>5 DEF t
<1>5. CASE f.kind = "ACK"
  <2>1. (t = 2 /\ ~f.bit) \/ (t = 3 /\ f.bit)
    BY <1>5, TypeForKind
  <2> HIDE DEF t
  <2>2. t \in 0..MaxType /\ KindOf(t) = f.kind /\ (FinBit(t) <=> f.bit)
    BY <1>3, <1>5, <2>1, KindTable, TypeBits
  <2>3. BitOf(t) = f.bit
    BY <1>1, <1>5, <2>2 DEF BitOf
  <2> QED BY <1>5, <2>2, <2>3 DEF t
<1>6. CASE f.kind \in {"MAX_STREAMS", "STREAMS_BLOCKED", "CONNECTION_CLOSE"}
  <2>1. /\ f.kind = "MAX_STREAMS" => (t = 18 /\ f.bit) \/ (t = 19 /\ ~f.bit)
        /\ f.kind = "STREAMS_BLOCKED" => (t = 22 /\ f.bit) \/ (t = 23 /\ ~f.bit)
        /\ f.kind = "CONNECTION_CLOSE" => (t = 28 /\ f.bit) \/ (t = 29 /\ ~f.bit)
    BY TypeForKind
  <2> HIDE DEF t
  <2>2. t \in 0..MaxType /\ KindOf(t) = f.kind /\ (~FinBit(t) <=> f.bit)
    BY <1>3, <1>6, <2>1, KindTable, TypeBits
  <2>3. BitOf(t) = f.bit
    BY <1>1, <1>6, <2>2 DEF BitOf
  <2> QED BY <1>6, <2>2, <2>3 DEF t
<1>7. CASE f.kind = "STREAM"
  <2> DEFINE len == f.data[1] # <<>>
             off == f.ints[2] > 0
  <2>1. t = IF off THEN IF len THEN IF f.bit THEN 15 ELSE 14 ELSE IF f.bit THEN 13 ELSE 12
            ELSE IF len THEN IF f.bit THEN 11 ELSE 10 ELSE IF f.bit THEN 9 ELSE 8
    BY <1>7, TypeForKind
  <2> HIDE DEF t, len, off
  <2>2. /\ t \in 0..MaxType /\ KindOf(t) = "STREAM"
        /\ FinBit(t) <=> f.bit
        /\ OffBit(t) <=> off
        /\ LenBit(t) <=> len
    BY <1>3, <2>1, KindTable, TypeBits
  <2>3. BitOf(t) = f.bit
    BY <1>1, <2>2 DEF BitOf
  <2> QED BY <1>7, <2>2, <2>3 DEF t, len, off
<1> QED BY <1>4, <1>5, <1>6, <1>7

-----------------------------------------------------------------------------
(* What follows the type of a frame that is written.                       *)

\* An integer more.
LEMMA ReadsInt ==
    ASSUME NEW b \in Seq(Byte), NEW fs \in Seq(Fields), NEW is \in Seq(Fit), NEW ds \in Seq(Seq(Byte)),
           NEW t \in Seq(Fit), NEW v \in Fit,
           Reads(b \o WriteInts(t), fs, is \o t, ds)
    PROVE  Reads(b \o WriteInts(Append(t, v)), Append(fs, "int"), is \o Append(t, v), ds)
<1> DEFINE c == b \o WriteInts(t)
           js == is \o t
           e == Encode(v)
<1>1. c \in Seq(Byte) /\ e \in Seq(Byte) /\ b \o WriteInts(Append(t, v)) = c \o e
  <2>1. WriteInts(t) \in Seq(Byte) /\ Encode(v) \in Seq(Byte)
    BY WriteIntsNext, EncodeTypes
  <2>2. WriteInts(Append(t, v)) = WriteInts(t) \o Encode(v)
    BY WriteIntsNext
  <2>3. (b \o WriteInts(t)) \o Encode(v) = b \o (WriteInts(t) \o Encode(v)) /\ b \o WriteInts(t) \in Seq(Byte)
    BY <2>1, BytesConcat
  <2> QED BY <2>1, <2>2, <2>3
<1>2. js \in Seq(Fit) /\ is \o Append(t, v) = Append(js, v)
  OBVIOUS
<1>3. Reads(c, fs, js, ds)
  OBVIOUS
<1> HIDE DEF c, js
<1>4. FieldReads(e, "int", js, ds, Append(js, v), ds)
  BY <1>2, IntFieldsRead
<1> HIDE DEF e
<1>5. "int" \in Fields
  BY DEF Fields
<1>6. Reads(c \o e, Append(fs, "int"), Append(js, v), ds)
  BY <1>1, <1>3, <1>4, <1>5, ReadsNext
<1> QED BY <1>1, <1>2, <1>6

\* One to three integers more.
LEMMA ReadsInts ==
    ASSUME NEW b \in Seq(Byte), NEW fs \in Seq(Fields), NEW is \in Seq(Fit), NEW ds \in Seq(Seq(Byte)),
           NEW s \in Seq(Fit), Reads(b, fs, is, ds)
    PROVE  /\ Len(s) = 0 => Reads(b \o WriteInts(s), fs, is \o s, ds)
           /\ Len(s) = 1 => Reads(b \o WriteInts(s), Append(fs, "int"), is \o s, ds)
           /\ Len(s) = 2 => Reads(b \o WriteInts(s), Append(Append(fs, "int"), "int"), is \o s, ds)
           /\ Len(s) = 3 =>
                  Reads(b \o WriteInts(s), Append(Append(Append(fs, "int"), "int"), "int"), is \o s, ds)
<1> DEFINE All(n, gs) == \A t \in Seq(Fit) : Len(t) = n => Reads(b \o WriteInts(t), gs, is \o t, ds)
<1>1. All(0, fs)
  <2> SUFFICES ASSUME NEW t \in Seq(Fit), Len(t) = 0 PROVE Reads(b \o WriteInts(t), fs, is \o t, ds)
    OBVIOUS
  <2>1. t = <<>> /\ is \o t = is
    OBVIOUS
  <2>2. b \o WriteInts(t) = b
    <3>1. WriteInts(t) = <<>>
      BY <2>1, WriteIntsNext
    <3> QED BY <3>1
  <2> QED BY <2>1, <2>2
<1>2. ASSUME NEW n \in Nat, NEW gs \in Seq(Fields), All(n, gs) PROVE All(n + 1, Append(gs, "int"))
  <2> SUFFICES ASSUME NEW t \in Seq(Fit), Len(t) = n + 1
               PROVE  Reads(b \o WriteInts(t), Append(gs, "int"), is \o t, ds)
    OBVIOUS
  <2>1. PICK u \in Seq(Fit), v \in Fit : t = Append(u, v) /\ Len(u) = n
    BY LastInt
  <2>2. Reads(b \o WriteInts(u), gs, is \o u, ds)
    BY <1>2, <2>1
  <2>3. Reads(b \o WriteInts(Append(u, v)), Append(gs, "int"), is \o Append(u, v), ds)
    BY <2>2, ReadsInt
  <2> QED BY <2>1, <2>3
<1>3. ASSUME NEW gs \in Seq(Fields) PROVE Append(gs, "int") \in Seq(Fields)
  <2>1. "int" \in Fields
    BY DEF Fields
  <2> QED BY <2>1
<1> HIDE DEF All
<1> DEFINE f1 == Append(fs, "int")
           f2 == Append(f1, "int")
           f3 == Append(f2, "int")
<1>4. f1 \in Seq(Fields) /\ f2 \in Seq(Fields)
  BY <1>3
<1>5. All(1, f1) /\ All(2, f2) /\ All(3, f3)
  <2>1. 0 + 1 = 1 /\ 1 + 1 = 2 /\ 2 + 1 = 3
    OBVIOUS
  <2> HIDE DEF f1
  <2>2. All(0 + 1, Append(fs, "int"))
    BY <1>1, <1>2
  <2>3. All(1, f1)
    BY <2>1, <2>2 DEF f1
  <2> HIDE DEF f2
  <2>4. All(1 + 1, Append(f1, "int"))
    BY <1>2, <1>4, <2>3
  <2>5. All(2, f2)
    BY <2>1, <2>4 DEF f2
  <2> HIDE DEF f3
  <2>6. All(2 + 1, Append(f2, "int"))
    BY <1>2, <1>4, <2>5
  <2>7. All(3, f3)
    BY <2>1, <2>6 DEF f3
  <2> QED BY <2>3, <2>5, <2>7
<1> HIDE DEF f1, f2, f3
<1>6. /\ Len(s) = 0 => Reads(b \o WriteInts(s), fs, is \o s, ds)
      /\ Len(s) = 1 => Reads(b \o WriteInts(s), f1, is \o s, ds)
      /\ Len(s) = 2 => Reads(b \o WriteInts(s), f2, is \o s, ds)
      /\ Len(s) = 3 => Reads(b \o WriteInts(s), f3, is \o s, ds)
  BY <1>1, <1>5 DEF All
<1> QED BY <1>6 DEF f1, f2, f3

\* The fields, as they were appended.
LEMMA FieldLists ==
    /\ Append(<<>>, "int") = <<"int">> /\ Append(<<>>, "bytes") = <<"bytes">>
    /\ Append(<<>>, "path") = <<"path">>
    /\ Append(<<"int">>, "int") = <<"int", "int">>
    /\ Append(<<"int">>, "zero") = <<"int", "zero">>
    /\ Append(<<"int">>, "bytes") = <<"int", "bytes">>
    /\ Append(<<"int", "int">>, "int") = <<"int", "int", "int">>
    /\ Append(<<"int", "int">>, "bytes") = <<"int", "int", "bytes">>
    /\ Append(<<"int", "int">>, "rest") = <<"int", "int", "rest">>
    /\ Append(<<"int", "zero">>, "bytes") = <<"int", "zero", "bytes">>
    /\ Append(<<"int", "zero">>, "rest") = <<"int", "zero", "rest">>
    /\ Append(<<"int", "int">>, "cid") = <<"int", "int", "cid">>
    /\ Append(<<"int", "int">>, "ranges") = <<"int", "int", "ranges">>
    /\ Append(<<"int", "int", "cid">>, "token") = <<"int", "int", "cid", "token">>
    /\ Append(Append(Append(<<"int", "int", "ranges">>, "int"), "int"), "int")
           = <<"int", "int", "ranges", "int", "int", "int">>
<1> DEFINE i == "int"
           z == "zero"
           y == "bytes"
           p == "path"
           r == "rest"
           c == "cid"
           k == "token"
           g == "ranges"
<1>1. /\ i \in Fields /\ z \in Fields /\ y \in Fields /\ p \in Fields
      /\ r \in Fields /\ c \in Fields /\ k \in Fields /\ g \in Fields
  BY DEF Fields
<1> HIDE DEF i, z, y, p, r, c, k, g
<1>2. Append(<<>>, i) = <<i>> /\ Append(<<>>, y) = <<y>> /\ Append(<<>>, p) = <<p>>
  BY <1>1
<1>3. Append(<<i>>, i) = <<i, i>> /\ Append(<<i>>, z) = <<i, z>> /\ Append(<<i>>, y) = <<i, y>>
  BY <1>1, AppendTwo
<1>4. /\ Append(<<i, i>>, i) = <<i, i, i>> /\ Append(<<i, i>>, y) = <<i, i, y>>
      /\ Append(<<i, i>>, r) = <<i, i, r>>
  BY <1>1, AppendThree
<1>5. /\ Append(<<i, z>>, y) = <<i, z, y>> /\ Append(<<i, z>>, r) = <<i, z, r>>
  BY <1>1, AppendThree
<1>6. Append(<<i, i>>, c) = <<i, i, c>> /\ Append(<<i, i>>, g) = <<i, i, g>>
  BY <1>1, AppendThree
<1>7. Append(<<i, i, c>>, k) = <<i, i, c, k>>
  BY <1>1, AppendFour
<1>8. Append(Append(Append(<<i, i, g>>, i), i), i) = <<i, i, g, i, i, i>>
  <2>1. Append(<<i, i, g>>, i) = <<i, i, g, i>>
    BY <1>1, AppendFour
  <2>2. Append(<<i, i, g, i>>, i) = <<i, i, g, i, i>>
    BY <1>1, AppendFive
  <2>3. Append(<<i, i, g, i, i>>, i) = <<i, i, g, i, i, i>>
    BY <1>1, AppendSix
  <2> QED BY <2>1, <2>2, <2>3, Zenon
<1> QED BY <1>2, <1>3, <1>4, <1>5, <1>6, <1>7, <1>8, Zenon DEF i, z, y, p, r, c, k, g

\* These lists are lists of fields.
LEMMA FieldListTypes ==
    /\ <<>> \in Seq(Fields) /\ <<"int">> \in Seq(Fields) /\ <<"int", "int">> \in Seq(Fields)
    /\ <<"int", "int", "int">> \in Seq(Fields) /\ <<"int", "zero">> \in Seq(Fields)
    /\ <<"int", "int", "cid">> \in Seq(Fields) /\ <<"int", "int", "ranges">> \in Seq(Fields)
<1>1. \A a, b, c \in Fields :
          /\ <<>> \in Seq(Fields) /\ <<a>> \in Seq(Fields) /\ <<a, b>> \in Seq(Fields)
          /\ <<a, b, c>> \in Seq(Fields)
  OBVIOUS
<1>2. "int" \in Fields /\ "zero" \in Fields /\ "cid" \in Fields /\ "ranges" \in Fields
  BY DEF Fields
<1> QED BY <1>1, <1>2

\* Integers only.
LEMMA OnlyInts ==
    ASSUME NEW s \in Seq(Fit)
    PROVE  /\ Len(s) = 0 => Reads(WriteInts(s), <<>>, s, <<>>)
           /\ Len(s) = 1 => Reads(WriteInts(s), <<"int">>, s, <<>>)
           /\ Len(s) = 2 => Reads(WriteInts(s), <<"int", "int">>, s, <<>>)
           /\ Len(s) = 3 => Reads(WriteInts(s), <<"int", "int", "int">>, s, <<>>)
<1> DEFINE none == <<>>
           w == WriteInts(s)
<1>1. none \in Seq(Byte) /\ none \in Seq(Fields) /\ none \in Seq(Fit) /\ none \in Seq(Seq(Byte))
  OBVIOUS
<1>2. none \o w = w /\ none \o s = s
  <2>1. w \in Seq(Byte)
    BY WriteIntsNext
  <2> HIDE DEF w
  <2> QED BY <2>1
<1>3. Reads(none, none, none, none)
  BY ReadsNothing
<1> HIDE DEF none
<1>4. /\ Len(s) = 0 => Reads(none \o w, none, none \o s, none)
      /\ Len(s) = 1 => Reads(none \o w, Append(none, "int"), none \o s, none)
      /\ Len(s) = 2 => Reads(none \o w, Append(Append(none, "int"), "int"), none \o s, none)
      /\ Len(s) = 3 => Reads(none \o w, Append(Append(Append(none, "int"), "int"), "int"), none \o s, none)
  BY <1>1, <1>3, ReadsInts
<1> HIDE DEF w
<1>5. /\ Append(none, "int") = <<"int">> /\ Append(<<"int">>, "int") = <<"int", "int">>
      /\ Append(<<"int", "int">>, "int") = <<"int", "int", "int">>
  BY FieldLists DEF none
<1>6. /\ Len(s) = 0 => Reads(w, none, s, none)
      /\ Len(s) = 1 => Reads(w, <<"int">>, s, none)
      /\ Len(s) = 2 => Reads(w, <<"int", "int">>, s, none)
      /\ Len(s) = 3 => Reads(w, <<"int", "int", "int">>, s, none)
  BY <1>2, <1>4, <1>5, Zenon
<1> QED BY <1>6 DEF none, w

\* Integers, and a byte string.
LEMMA IntsThenBytes ==
    ASSUME NEW s \in Seq(Fit), NEW b \in Seq(Byte), Len(b) \in Fit
    PROVE  /\ WriteInts(s) \o WriteBytes(b) \in Seq(Byte)
           /\ Len(s) = 0 => Reads(WriteInts(s) \o WriteBytes(b), <<"bytes">>, s, <<b>>)
           /\ Len(s) = 1 => Reads(WriteInts(s) \o WriteBytes(b), <<"int", "bytes">>, s, <<b>>)
           /\ Len(s) = 2 => Reads(WriteInts(s) \o WriteBytes(b), <<"int", "int", "bytes">>, s, <<b>>)
<1> DEFINE none == <<>>
           w == WriteInts(s)
           e == WriteBytes(b)
           ds == <<b>>
<1>1. w \in Seq(Byte) /\ none \in Seq(Seq(Byte)) /\ ds = Append(none, b)
  BY WriteIntsNext
<1>2. e \in Seq(Byte)
  <2>1. <<>> \in Seq(Byte) /\ <<>> \in Seq(Fit) /\ <<>> \in Seq(Seq(Byte))
    OBVIOUS
  <2> QED BY <2>1, VarIntBytesReadBack
<1>3. /\ Len(s) = 0 => Reads(w, <<>>, s, none)
      /\ Len(s) = 1 => Reads(w, <<"int">>, s, none)
      /\ Len(s) = 2 => Reads(w, <<"int", "int">>, s, none)
  BY OnlyInts
<1> HIDE DEF none
<1>4. FieldReads(e, "bytes", s, none, s, Append(none, b))
  BY <1>1, StringFieldsRead
<1> HIDE DEF w, e
<1>5. "bytes" \in Fields
  BY DEF Fields
<1>6. ASSUME NEW fs \in Seq(Fields), Reads(w, fs, s, none)
      PROVE  Reads(w \o e, Append(fs, "bytes"), s, ds)
  <2>1. Reads(w \o e, Append(fs, "bytes"), s, Append(none, b))
    BY <1>1, <1>2, <1>4, <1>5, <1>6, ReadsNext
  <2> QED BY <1>1, <2>1
<1>7. /\ Append(<<>>, "bytes") = <<"bytes">> /\ Append(<<"int">>, "bytes") = <<"int", "bytes">>
      /\ Append(<<"int", "int">>, "bytes") = <<"int", "int", "bytes">>
  BY FieldLists
<1>8. /\ Len(s) = 0 => Reads(w \o e, Append(<<>>, "bytes"), s, ds)
      /\ Len(s) = 1 => Reads(w \o e, Append(<<"int">>, "bytes"), s, ds)
      /\ Len(s) = 2 => Reads(w \o e, Append(<<"int", "int">>, "bytes"), s, ds)
  <2>1. <<>> \in Seq(Fields) /\ <<"int">> \in Seq(Fields) /\ <<"int", "int">> \in Seq(Fields)
    BY FieldListTypes
  <2> HIDE DEF ds
  <2> QED BY <1>3, <1>6, <2>1, Zenon
<1>9. w \o e \in Seq(Byte)
  BY <1>1, <1>2
<1> HIDE DEF ds
<1>10. /\ Len(s) = 0 => Reads(w \o e, <<"bytes">>, s, ds)
       /\ Len(s) = 1 => Reads(w \o e, <<"int", "bytes">>, s, ds)
       /\ Len(s) = 2 => Reads(w \o e, <<"int", "int", "bytes">>, s, ds)
  BY <1>7, <1>8, Zenon
<1> QED BY <1>9, <1>10 DEF w, e, ds

\* PATH_CHALLENGE and PATH_RESPONSE.
LEMMA PathShape ==
    ASSUME NEW b \in Seq(Byte), Len(b) = 8
    PROVE  Reads(b, <<"path">>, <<>>, <<b>>)
<1> DEFINE none == <<>>
           ds == <<b>>
<1>1. /\ none \in Seq(Byte) /\ none \in Seq(Seq(Byte)) /\ none \in Seq(Fit) /\ none \in Seq(Fields)
      /\ ds = Append(none, b) /\ none \o b = b
  OBVIOUS
<1>2. Reads(none, none, none, none)
  BY ReadsNothing
<1>3. Append(none, "path") = <<"path">>
  BY FieldLists
<1> HIDE DEF none, ds
<1>4. FieldReads(b, "path", none, none, none, Append(none, b))
  BY <1>1, StringFieldsRead
<1>5. "path" \in Fields
  BY DEF Fields
<1>6. Reads(none \o b, Append(none, "path"), none, Append(none, b))
  BY <1>1, <1>2, <1>4, <1>5, ReadsNext
<1>7. Reads(b, <<"path">>, none, ds)
  BY <1>1, <1>3, <1>6
<1> QED BY <1>7 DEF none, ds

\* NEW_CONNECTION_ID.
LEMMA NewCidShape ==
    ASSUME NEW s \in Seq(Fit), Len(s) = 2, NEW b \in Seq(Byte), Len(b) \in 1..20,
           NEW c \in Seq(Byte), Len(c) = 16
    PROVE  /\ WriteInts(s) \o <<Len(b)>> \o b \o c \in Seq(Byte)
           /\ Reads(WriteInts(s) \o <<Len(b)>> \o b \o c, <<"int", "int", "cid", "token">>, s, <<b, c>>)
<1> DEFINE none == <<>>
           w == WriteInts(s)
           l == <<Len(b)>>
           e == l \o b
<1>1. w \in Seq(Byte) /\ none \in Seq(Seq(Byte)) /\ <<b>> = Append(none, b) /\ <<b>> \in Seq(Seq(Byte))
  BY WriteIntsNext
<1>2. <<b, c>> = Append(<<b>>, c)
  <2>1. b \in Seq(Byte) /\ c \in Seq(Byte)
    OBVIOUS
  <2> QED BY <2>1, AppendTwo
<1>3. l \in Seq(Byte)
  <2>1. \A x \in 1..20 : x \in 0..255
    OBVIOUS
  <2>2. Len(b) \in Byte
    BY <2>1, ByteFacts
  <2> QED BY <2>2
<1>4. Reads(w, <<"int", "int">>, s, none)
  BY OnlyInts
<1>5. FieldReads(e, "cid", s, none, s, Append(none, b))
  BY <1>1, StringFieldsRead
<1>6. FieldReads(c, "token", s, <<b>>, s, Append(<<b>>, c))
  BY <1>1, StringFieldsRead
<1>7. w \o l \o b \o c = (w \o e) \o c /\ w \o e \in Seq(Byte) /\ e \in Seq(Byte)
  <2> HIDE DEF w, l
  <2>1. l \o b \in Seq(Byte) /\ w \o (l \o b) \in Seq(Byte)
    BY <1>1, <1>3
  <2>2. Associates(w, l, b)
    BY <1>1, <1>3, BytesAssociate
  <2>3. (w \o l) \o b = w \o (l \o b)
    BY <2>2 DEF Associates
  <2> QED BY <2>1, <2>3
<1>8. w \o l \o b \o c \in Seq(Byte)
  <2> HIDE DEF w, l, e
  <2> QED BY <1>7, BytesConcat
<1> DEFINE ds == <<b>>
           bc == <<b, c>>
<1>9. /\ "cid" \in Fields /\ "token" \in Fields
      /\ <<"int", "int">> \in Seq(Fields) /\ <<"int", "int", "cid">> \in Seq(Fields)
  BY FieldListTypes DEF Fields
<1>10. /\ Append(<<"int", "int">>, "cid") = <<"int", "int", "cid">>
       /\ Append(<<"int", "int", "cid">>, "token") = <<"int", "int", "cid", "token">>
  BY FieldLists
<1> HIDE DEF none, w, l, e
<1>11. Reads(w \o e, Append(<<"int", "int">>, "cid"), s, Append(none, b))
  BY <1>1, <1>4, <1>5, <1>7, <1>9, ReadsNext
<1> HIDE DEF ds, bc
<1> DEFINE f3 == <<"int", "int", "cid">>
           f4 == <<"int", "int", "cid", "token">>
<1>12. Reads(w \o e, f3, s, ds)
  BY <1>1, <1>10, <1>11 DEF ds
<1>13. FieldReads(c, "token", s, ds, s, bc) /\ f3 \in Seq(Fields) /\ Append(f3, "token") = f4
  BY <1>2, <1>6, <1>9, <1>10 DEF ds, bc
<1> HIDE DEF f3, f4
<1>14. Reads((w \o e) \o c, Append(f3, "token"), s, bc)
  BY <1>7, <1>9, <1>12, <1>13, ReadsNext
<1>15. Reads(w \o l \o b \o c, f4, s, bc)
  BY <1>7, <1>13, <1>14
<1> QED BY <1>8, <1>15 DEF w, l, bc, f4

\* Bytes in four parts: the two in the middle belong together.
FourParts(w, e, x, y) ==
    /\ w \o e \o (x \o y) = (w \o (e \o x)) \o y
    /\ e \o x \in Seq(Byte) /\ w \o (e \o x) \in Seq(Byte) /\ w \o e \o (x \o y) \in Seq(Byte)

\* They may be put together in either order.
LEMMA BytesConcatFour ==
    ASSUME NEW w \in Seq(Byte), NEW e \in Seq(Byte), NEW x \in Seq(Byte), NEW y \in Seq(Byte)
    PROVE  FourParts(w, e, x, y)
<1>1. e \o x \in Seq(Byte) /\ w \o e \in Seq(Byte) /\ x \o y \in Seq(Byte)
  BY BytesConcat
<1>2. w \o (e \o x) \in Seq(Byte) /\ (w \o e) \o (x \o y) \in Seq(Byte)
  BY <1>1, BytesConcat
<1>3. (w \o e) \o x = w \o (e \o x)
  BY BytesConcat
<1> DEFINE we == w \o e
<1>4. we \in Seq(Byte)
  BY <1>1
<1> HIDE DEF we
<1>5. Associates(we, x, y)
  BY <1>4, BytesAssociate
<1> QED BY <1>1, <1>2, <1>3, <1>5 DEF we, FourParts, Associates

\* ACK: two integers, the ranges, and the ECN counts if there are any.
LEMMA AckShape ==
    ASSUME NEW a \in Seq(Fit), Len(a) = 2, NEW k \in Fit, NEW m \in Seq(Fit), Len(m) = 1 + 2 * k,
           NEW u \in Seq(Fit)
    PROVE  /\ WriteInts(a) \o Encode(k) \o WriteInts(m \o u) \in Seq(Byte)
           /\ Len(u) = 0 => Reads(WriteInts(a) \o Encode(k) \o WriteInts(m \o u),
                                  <<"int", "int", "ranges">>, (a \o m) \o u, <<>>)
           /\ Len(u) = 3 => Reads(WriteInts(a) \o Encode(k) \o WriteInts(m \o u),
                                  <<"int", "int", "ranges", "int", "int", "int">>, (a \o m) \o u, <<>>)
<1> DEFINE none == <<>>
           w == WriteInts(a)
           e == Encode(k)
           x == WriteInts(m)
           y == WriteInts(u)
           b == w \o (e \o x)
           is == a \o m
<1>1. /\ w \in Seq(Byte) /\ e \in Seq(Byte) /\ x \in Seq(Byte) /\ y \in Seq(Byte)
      /\ none \in Seq(Seq(Byte)) /\ is \in Seq(Fit)
  BY WriteIntsNext, EncodeTypes
<1>2. WriteInts(m \o u) = x \o y
  BY WriteIntsConcat
<1>3. Reads(w, <<"int", "int">>, a, none)
  BY OnlyInts
<1>4. FieldReads(e \o x, "ranges", a, none, is, none)
  BY <1>1, IntFieldsRead
<1> HIDE DEF none, w, e, x, y, is
<1>5. w \o e \o (x \o y) = b \o y /\ b \in Seq(Byte) /\ w \o e \o (x \o y) \in Seq(Byte) /\ e \o x \in Seq(Byte)
  <2>1. FourParts(w, e, x, y)
    BY <1>1, BytesConcatFour
  <2> QED BY <2>1 DEF FourParts
<1>6. "ranges" \in Fields /\ <<"int", "int">> \in Seq(Fields) /\ <<"int", "int", "ranges">> \in Seq(Fields)
  BY FieldListTypes DEF Fields
<1>7. Reads(b, Append(<<"int", "int">>, "ranges"), is, none)
  BY <1>1, <1>3, <1>4, <1>5, <1>6, ReadsNext
<1> HIDE DEF b
<1> DEFINE f3 == <<"int", "int", "ranges">>
           f6 == <<"int", "int", "ranges", "int", "int", "int">>
<1>8. Reads(b, f3, is, none) /\ f3 \in Seq(Fields) /\ Append(Append(Append(f3, "int"), "int"), "int") = f6
  BY <1>6, <1>7, FieldLists
<1> HIDE DEF f3, f6
<1>9. /\ Len(u) = 0 => Reads(b \o y, f3, is \o u, none)
      /\ Len(u) = 3 => Reads(b \o y, Append(Append(Append(f3, "int"), "int"), "int"), is \o u, none)
  BY <1>1, <1>5, <1>8, ReadsInts DEF y
<1>10. /\ Len(u) = 0 => Reads(b \o y, f3, is \o u, none)
       /\ Len(u) = 3 => Reads(b \o y, f6, is \o u, none)
  BY <1>8, <1>9
<1>11. WriteInts(a) \o Encode(k) \o WriteInts(m \o u) = b \o y
  BY <1>2, <1>5 DEF w, e, y
<1>12. b \o y \in Seq(Byte)
  BY <1>5
<1> QED BY <1>10, <1>11, <1>12 DEF none, is, f3, f6, y

\* These bytes are read as these fields, and so is everything that follows.
Swallows(b, fs, is) ==
    \A rest \in Seq(Byte) :
        ReadFields(Reader(b \o rest, <<>>, <<>>), fs) = {Reader(<<>>, is, <<rest>>)}

\* A byte string without a length.
LEMMA SwallowsNext ==
    ASSUME NEW b \in Seq(Byte), NEW fs \in Seq(Fields), NEW is \in Seq(Fit), Reads(b, fs, is, <<>>)
    PROVE  Swallows(b, Append(fs, "rest"), is)
<1> SUFFICES ASSUME NEW rest \in Seq(Byte)
             PROVE  ReadFields(Reader(b \o rest, <<>>, <<>>), Append(fs, "rest"))
                        = {Reader(<<>>, is, <<rest>>)}
  BY DEF Swallows
<1> DEFINE none == <<>>
           buf == b \o rest
           r == Reader(buf, none, none)
           y == Reader(rest, is, none)
<1>1. buf \in Seq(Byte) /\ none \in Seq(Seq(Byte)) /\ none \in Seq(Byte) /\ rest \o none = rest
      /\ Append(none, rest) = <<rest>>
  BY BytesConcat
<1>2. ReadFields(r, fs) = {y}
  BY DEF Reads
<1>3. r \in Readers
  BY <1>1, StartFacts
<1>4. "rest" \in Fields
  BY DEF Fields
<1> HIDE DEF none, r
<1>5. ReadFields(r, Append(fs, "rest")) = UNION {ReadField(x, "rest") : x \in ReadFields(r, fs)}
  BY <1>3, <1>4, ReadFieldsNext
<1>6. ReadBytes(Reader(rest \o none, is, none), Len(rest)) = {Reader(none, is, Append(none, rest))}
  BY <1>1, BytesReadBack
<1>7. y.rest = rest
  BY <1>1, ReaderFields
<1>8. ReadField(y, "rest") = ReadBytes(y, Len(rest))
  <2>1. ReadField(y, "rest") = ReadBytes(y, Len(y.rest))
    BY FieldReaders
  <2> HIDE DEF y
  <2> QED BY <1>7, <2>1
<1>9. ReadField(y, "rest") = {Reader(none, is, <<rest>>)}
  BY <1>1, <1>6, <1>8
<1> HIDE DEF y
<1>10. ReadFields(r, Append(fs, "rest")) = {Reader(none, is, <<rest>>)}
  BY <1>2, <1>5, <1>9
<1> QED BY <1>10 DEF none, r, buf

\* The stream and the offset of STREAM, where an offset of zero is left out.
StreamStart(i, j) == Encode(i) \o (IF j > 0 THEN Encode(j) ELSE <<>>)

\* They are read.
LEMMA StreamStartReads ==
    ASSUME NEW i \in Fit, NEW j \in Fit
    PROVE  /\ StreamStart(i, j) \in Seq(Byte) /\ <<i, j>> \in Seq(Fit)
           /\ Reads(StreamStart(i, j), <<"int", IF j > 0 THEN "int" ELSE "zero">>, <<i, j>>, <<>>)
<1> DEFINE none == <<>>
           p == <<i>>
           ij == <<i, j>>
           f1 == <<"int">>
<1>1. /\ none \in Seq(Byte) /\ none \in Seq(Seq(Byte)) /\ none \in Seq(Fit) /\ none \in Seq(Fields)
      /\ p = Append(none, i) /\ p \in Seq(Fit) /\ ij \in Seq(Fit)
  OBVIOUS
<1>2. ij = Append(p, j)
  <2>1. i \in Fit /\ j \in Fit
    OBVIOUS
  <2> QED BY <2>1, AppendTwo
<1>3. /\ "int" \in Fields /\ "zero" \in Fields /\ f1 \in Seq(Fields) /\ Append(none, "int") = f1
      /\ Append(f1, "int") = <<"int", "int">> /\ Append(f1, "zero") = <<"int", "zero">>
  BY FieldLists, FieldListTypes DEF Fields
<1>4. Reads(none, none, none, none)
  BY ReadsNothing
<1>5. Encode(i) \in Seq(Byte) /\ Encode(j) \in Seq(Byte) /\ none \o Encode(i) = Encode(i)
      /\ Encode(i) \o none = Encode(i)
  <2>1. Encode(i) \in Seq(Byte) /\ Encode(j) \in Seq(Byte)
    BY EncodeTypes
  <2> QED BY <2>1
<1> HIDE DEF p, ij, f1
<1>6. FieldReads(Encode(i), "int", none, none, Append(none, i), none)
  BY <1>1, IntFieldsRead
<1>7. /\ FieldReads(Encode(j), "int", p, none, Append(p, j), none)
      /\ FieldReads(<<>>, "zero", p, none, Append(p, 0), none)
  BY <1>1, IntFieldsRead
<1>8. FieldReads(none, "zero", p, none, Append(p, 0), none)
  BY <1>7
<1> HIDE DEF none
<1>9. Reads(none \o Encode(i), Append(none, "int"), Append(none, i), none)
  BY <1>1, <1>3, <1>4, <1>5, <1>6, ReadsNext
<1>10. Reads(Encode(i), f1, p, none)
  BY <1>1, <1>3, <1>5, <1>9
<1>11. CASE j > 0
  <2>1. Reads(Encode(i) \o Encode(j), Append(f1, "int"), Append(p, j), none)
    BY <1>3, <1>5, <1>7, <1>10, ReadsNext
  <2>2. StreamStart(i, j) = Encode(i) \o Encode(j)
    BY <1>11 DEF StreamStart
  <2>3. StreamStart(i, j) \in Seq(Byte)
    BY <1>5, <2>2, BytesConcat
  <2>4. <<"int", IF j > 0 THEN "int" ELSE "zero">> = Append(f1, "int")
    BY <1>3, <1>11
  <2>5. Reads(StreamStart(i, j), <<"int", IF j > 0 THEN "int" ELSE "zero">>, ij, none)
    BY <1>2, <2>1, <2>2, <2>4, Zenon
  <2> QED BY <1>1, <2>3, <2>5 DEF ij, none
<1>12. CASE ~(j > 0)
  <2>1. j = 0
    BY <1>12 DEF Fit
  <2>2. Reads(Encode(i) \o none, Append(f1, "zero"), Append(p, 0), none)
    BY <1>1, <1>3, <1>5, <1>8, <1>10, ReadsNext
  <2>3. StreamStart(i, j) = Encode(i) \o none
    BY <1>12 DEF StreamStart, none
  <2>4. StreamStart(i, j) \in Seq(Byte)
    BY <1>5, <2>3
  <2>5. <<"int", IF j > 0 THEN "int" ELSE "zero">> = Append(f1, "zero")
    BY <1>3, <1>12
  <2>6. Reads(StreamStart(i, j), <<"int", IF j > 0 THEN "int" ELSE "zero">>, ij, none)
    BY <1>2, <2>1, <2>2, <2>3, <2>5, Zenon
  <2> QED BY <1>1, <2>4, <2>6 DEF ij, none
<1> QED BY <1>11, <1>12

\* STREAM, with data and without.
LEMMA StreamShape ==
    ASSUME NEW i \in Fit, NEW j \in Fit, NEW b \in Seq(Byte), Len(b) \in Fit
    PROVE  /\ StreamStart(i, j) \o WriteBytes(b) \in Seq(Byte)
           /\ Reads(StreamStart(i, j) \o WriteBytes(b),
                    <<"int", IF j > 0 THEN "int" ELSE "zero", "bytes">>, <<i, j>>, <<b>>)
           /\ Swallows(StreamStart(i, j), <<"int", IF j > 0 THEN "int" ELSE "zero", "rest">>, <<i, j>>)
<1> DEFINE none == <<>>
           w == StreamStart(i, j)
           e == WriteBytes(b)
           ij == <<i, j>>
           ds == <<b>>
           f2 == <<"int", IF j > 0 THEN "int" ELSE "zero">>
           fb == <<"int", IF j > 0 THEN "int" ELSE "zero", "bytes">>
           fr == <<"int", IF j > 0 THEN "int" ELSE "zero", "rest">>
<1>1. w \in Seq(Byte) /\ ij \in Seq(Fit) /\ Reads(w, f2, ij, none)
  BY StreamStartReads
<1>2. none \in Seq(Seq(Byte)) /\ ds = Append(none, b)
  OBVIOUS
<1>3. e \in Seq(Byte)
  <2>1. <<>> \in Seq(Byte) /\ <<>> \in Seq(Fit) /\ <<>> \in Seq(Seq(Byte))
    OBVIOUS
  <2> QED BY <2>1, VarIntBytesReadBack
<1>4. f2 \in Seq(Fields) /\ "bytes" \in Fields /\ "rest" \in Fields
  BY FieldListTypes DEF Fields
<1>5. Append(f2, "bytes") = fb /\ Append(f2, "rest") = fr
  <2>1. CASE j > 0
    <3>1. f2 = <<"int", "int">> /\ fb = <<"int", "int", "bytes">> /\ fr = <<"int", "int", "rest">>
      BY <2>1
    <3> HIDE DEF f2, fb, fr
    <3> QED BY <3>1, FieldLists
  <2>2. CASE ~(j > 0)
    <3>1. f2 = <<"int", "zero">> /\ fb = <<"int", "zero", "bytes">> /\ fr = <<"int", "zero", "rest">>
      BY <2>2
    <3> HIDE DEF f2, fb, fr
    <3> QED BY <3>1, FieldLists
  <2> QED BY <2>1, <2>2
<1> HIDE DEF w, ij, ds, f2, fb, fr
<1>6. FieldReads(e, "bytes", ij, none, ij, Append(none, b))
  BY <1>1, <1>2, StringFieldsRead
<1>7. Swallows(w, Append(f2, "rest"), ij)
  BY <1>1, <1>4, SwallowsNext
<1> HIDE DEF none, e
<1>8. Reads(w \o e, Append(f2, "bytes"), ij, Append(none, b))
  BY <1>1, <1>2, <1>3, <1>4, <1>6, ReadsNext
<1>9. w \o e \in Seq(Byte)
  BY <1>1, <1>3, BytesConcat
<1>10. Reads(w \o e, fb, ij, ds) /\ Swallows(w, fr, ij)
  BY <1>2, <1>5, <1>7, <1>8
<1> QED BY <1>9, <1>10 DEF w, e, ij, ds, fb, fr

\* What write_frame writes after the type.
Body(f) ==
    CASE f.kind = "ACK" ->
             WriteInts(SubSeq(f.ints, 1, 2)) \o Encode(RangeCount(f))
                 \o WriteInts(SubSeq(f.ints, 3, Len(f.ints)))
      [] f.kind = "STREAM" ->
             Encode(f.ints[1]) \o (IF f.ints[2] > 0 THEN Encode(f.ints[2]) ELSE <<>>)
                 \o (IF f.data[1] # <<>> THEN WriteBytes(f.data[1]) ELSE <<>>)
      [] f.kind = "NEW_CONNECTION_ID" ->
             WriteInts(f.ints) \o <<Len(f.data[1])>> \o f.data[1] \o f.data[2]
      [] f.kind \in {"PATH_CHALLENGE", "PATH_RESPONSE"} -> f.data[1]
      [] f.kind \in {"CRYPTO", "NEW_TOKEN", "CONNECTION_CLOSE"} ->
             WriteInts(f.ints) \o WriteBytes(f.data[1])
      [] OTHER -> WriteInts(f.ints)

\* The parts of a frame that can be written.
LEMMA FrameParts ==
    ASSUME NEW f, WellFormed(f), Writable(f)
    PROVE  /\ f.kind \in Kinds /\ f.ints \in Seq(Fit) /\ f.data \in Seq(Seq(Byte)) /\ f.bit \in BOOLEAN
           /\ f.kind # "ACK" => Len(f.ints) = IntCount(f.kind, f.bit)
           /\ DataLengths(f.kind) = <<>> => f.data = <<>>
           /\ \A L : DataLengths(f.kind) = <<L>> =>
                  /\ f.data = <<f.data[1]>> /\ f.data[1] \in Seq(Byte)
                  /\ Len(f.data[1]) \in L /\ Len(f.data[1]) \in Fit
           /\ \A L, M : DataLengths(f.kind) = <<L, M>> =>
                  /\ f.data = <<f.data[1], f.data[2]>>
                  /\ f.data[1] \in Seq(Byte) /\ Len(f.data[1]) \in L
                  /\ f.data[2] \in Seq(Byte) /\ Len(f.data[2]) \in M
<1> DEFINE lens == DataLengths(f.kind)
           ds == f.data
           is == f.ints
<1>1. /\ f.kind \in {KindOf(type) : type \in 0..MaxType} /\ is \in Seq(Nat) /\ ds \in Seq(Seq(Byte))
      /\ f.bit \in BOOLEAN /\ Len(ds) = Len(lens) /\ \A i \in DOMAIN ds : Len(ds[i]) \in lens[i]
  BY DEF WellFormed
<1>2. /\ \A i \in DOMAIN is : ~TooLarge(is[i])
      /\ \A i \in DOMAIN ds : ~TooLarge(Len(ds[i]))
  BY DEF Writable
<1>3. f.kind \in Kinds
  BY <1>1, KindOfType
<1>4. is \in Seq(Fit)
  <2> HIDE DEF is
  <2>1. \A i \in 1..Len(is) : is[i] \in Fit
    BY <1>1, <1>2 DEF Fit
  <2> QED BY <1>1, <2>1
<1>5. f.kind # "ACK" => Len(f.ints) = IntCount(f.kind, f.bit)
  BY DEF WellFormed
<1> HIDE DEF lens, ds, is
<1>6. ASSUME lens = <<>> PROVE ds = <<>>
  BY <1>1, <1>6
<1>7. \A i \in DOMAIN ds : ds[i] \in Seq(Byte) /\ Len(ds[i]) \in Fit
  BY <1>1, <1>2 DEF Fit
<1>8. ASSUME NEW L, lens = <<L>>
      PROVE  ds = <<ds[1]>> /\ ds[1] \in Seq(Byte) /\ Len(ds[1]) \in L /\ Len(ds[1]) \in Fit
  <2>1. Len(ds) = 1 /\ lens[1] = L
    BY <1>1, <1>8
  <2>2. 1 \in DOMAIN ds
    BY <1>1, <2>1
  <2>3. ds = <<ds[1]>>
    BY <1>1, <2>1
  <2> QED BY <1>1, <1>7, <2>1, <2>2, <2>3
<1>9. ASSUME NEW L, NEW M, lens = <<L, M>>
      PROVE  /\ ds = <<ds[1], ds[2]>>
             /\ ds[1] \in Seq(Byte) /\ Len(ds[1]) \in L
             /\ ds[2] \in Seq(Byte) /\ Len(ds[2]) \in M
  <2>1. Len(ds) = 2 /\ lens[1] = L /\ lens[2] = M
    BY <1>1, <1>9
  <2>2. 1 \in DOMAIN ds /\ 2 \in DOMAIN ds
    BY <1>1, <2>1
  <2>3. ds = <<ds[1], ds[2]>>
    <3> DEFINE a == ds[1]
               b == ds[2]
               t == <<a, b>>
    <3>1. a \in Seq(Byte) /\ b \in Seq(Byte)
      BY <1>7, <2>2
    <3>2. t \in Seq(Seq(Byte)) /\ Len(t) = 2 /\ t[1] = ds[1] /\ t[2] = ds[2]
      BY <3>1
    <3> HIDE DEF t
    <3>3. \A i \in 1..Len(ds) : ds[i] = t[i]
      BY <2>1, <3>2
    <3>4. ds = t
      <4> DEFINE B == Seq(Byte)
      <4>1. ds \in Seq(B) /\ t \in Seq(B) /\ Len(ds) = Len(t)
        BY <1>1, <2>1, <3>2
      <4> HIDE DEF B, ds
      <4> QED BY <3>3, <4>1, SeqEqual
    <3> QED BY <3>4 DEF t
  <2> QED BY <1>1, <1>7, <2>1, <2>2, <2>3
<1> QED BY <1>1, <1>3, <1>4, <1>5, <1>6, <1>7, <1>8, <1>9 DEF lens, ds, is

\* STREAM is written with its start, and with its data if there are any.
LEMMA StreamBody ==
    ASSUME NEW f, WellFormed(f), Writable(f), f.kind = "STREAM"
    PROVE  /\ f.ints[1] \in Fit /\ f.ints[2] \in Fit /\ f.ints = <<f.ints[1], f.ints[2]>>
           /\ f.data = <<f.data[1]>> /\ f.data[1] \in Seq(Byte) /\ Len(f.data[1]) \in Fit
           /\ f.data[1] # <<>> =>
                  /\ Body(f) = StreamStart(f.ints[1], f.ints[2]) \o WriteBytes(f.data[1])
                  /\ Layout(TypeFor(f)) = <<"int", IF f.ints[2] > 0 THEN "int" ELSE "zero", "bytes">>
           /\ f.data[1] = <<>> =>
                  /\ Body(f) = StreamStart(f.ints[1], f.ints[2])
                  /\ Layout(TypeFor(f)) = <<"int", IF f.ints[2] > 0 THEN "int" ELSE "zero", "rest">>
<1>1. /\ DataLengths(f.kind) = <<Nat>> /\ IntCount(f.kind, f.bit) = 2
  BY DEF DataLengths, IntCount
<1>2. /\ f.data = <<f.data[1]>> /\ f.data[1] \in Seq(Byte) /\ Len(f.data[1]) \in Fit
  BY <1>1, FrameParts
<1>3. f.ints \in Seq(Fit) /\ Len(f.ints) = 2
  BY <1>1, FrameParts
<1> DEFINE i == f.ints[1]
           j == f.ints[2]
           b == f.data[1]
<1>4. i \in Fit /\ j \in Fit
  BY <1>3
<1>5. f.ints = <<i, j>>
  <2> DEFINE s == f.ints
             t == <<i, j>>
  <2>1. t \in Seq(Fit) /\ Len(t) = 2 /\ t[1] = s[1] /\ t[2] = s[2]
    BY <1>4
  <2> HIDE DEF t
  <2>2. \A n \in 1..Len(s) : s[n] = t[n]
    BY <1>3, <2>1
  <2>3. s = t
    BY <1>3, <2>1, <2>2, SeqEqual
  <2> QED BY <2>3 DEF t
<1>6. Body(f) = StreamStart(i, j) \o (IF b # <<>> THEN WriteBytes(b) ELSE <<>>)
  BY DEF Body, StreamStart
<1>7. Layout(TypeFor(f)) = <<"int", IF j > 0 THEN "int" ELSE "zero", IF b # <<>> THEN "bytes" ELSE "rest">>
  BY TypeForFacts, LayoutOfKind
<1>8. StreamStart(i, j) \in Seq(Byte)
  BY <1>4, StreamStartReads
<1> HIDE DEF i, j, b
<1>9. ASSUME b # <<>>
      PROVE  /\ Body(f) = StreamStart(i, j) \o WriteBytes(b)
             /\ Layout(TypeFor(f)) = <<"int", IF j > 0 THEN "int" ELSE "zero", "bytes">>
  BY <1>6, <1>7, <1>9
<1>10. ASSUME b = <<>>
       PROVE  /\ Body(f) = StreamStart(i, j)
              /\ Layout(TypeFor(f)) = <<"int", IF j > 0 THEN "int" ELSE "zero", "rest">>
  <2>1. Body(f) = StreamStart(i, j) \o <<>>
    BY <1>6, <1>10
  <2>2. StreamStart(i, j) \o <<>> = StreamStart(i, j)
    BY <1>8
  <2> QED BY <1>7, <1>10, <2>1, <2>2
<1> QED BY <1>2, <1>4, <1>5, <1>9, <1>10 DEF i, j, b

\* The elements of a concatenation.
LEMMA ConcatElements ==
    ASSUME NEW S, NEW s \in Seq(S), NEW t \in Seq(S), NEW c, c = s \o t
    PROVE  /\ c \in Seq(S) /\ Len(c) = Len(s) + Len(t)
           /\ \A i \in 1..Len(s) : c[i] = s[i]
           /\ \A i \in 1..Len(t) : c[Len(s) + i] = t[i]
  OBVIOUS

\* Integers that are put together in either order.
LEMMA IntsConcat ==
    \A x, y, z \in Seq(Fit) : (x \o y) \o z = x \o (y \o z)
<1> TAKE x, y, z \in Seq(Fit)
<1> QED BY ConcatAssociative

\* Integers in three parts, at p and q.
LEMMA IntsInThree ==
    ASSUME NEW s \in Seq(Fit), NEW p \in 1..Len(s), NEW q \in 0..Len(s), p - 1 <= q
    PROVE  \E a, m, u \in Seq(Fit) :
              /\ a = SubSeq(s, 1, p - 1) /\ Len(a) = p - 1
              /\ Len(m) = q - p + 1 /\ Len(u) = Len(s) - q
              /\ SubSeq(s, p, Len(s)) = m \o u /\ s = (a \o m) \o u
<1> DEFINE n == Len(s)
           a == SubSeq(s, 1, p - 1)
           m == SubSeq(s, p, q)
           u == SubSeq(s, q + 1, n)
           t == SubSeq(s, p, n)
<1>0. n \in Nat /\ p \in Nat /\ q \in Nat /\ p >= 1 /\ p <= n /\ q <= n /\ p - 1 <= q
  OBVIOUS
<1>1. a \in Seq(Fit) /\ Len(a) = p - 1 /\ \A i \in 1..(p - 1) : a[i] = s[i]
  OBVIOUS
<1>2. m \in Seq(Fit) /\ Len(m) = q - p + 1 /\ \A i \in 1..(q - p + 1) : m[i] = s[p + i - 1]
  OBVIOUS
<1>3. u \in Seq(Fit) /\ Len(u) = n - q /\ \A i \in 1..(n - q) : u[i] = s[q + i]
  OBVIOUS
<1>4. t \in Seq(Fit) /\ Len(t) = n - p + 1 /\ \A i \in 1..(n - p + 1) : t[i] = s[p + i - 1]
  OBVIOUS
<1> HIDE DEF a, m, u, t
<1>5. t = m \o u
  <2> DEFINE c == m \o u
  <2>1. /\ c \in Seq(Fit) /\ Len(c) = Len(m) + Len(u)
        /\ \A i \in 1..Len(m) : c[i] = m[i]
        /\ \A i \in 1..Len(u) : c[Len(m) + i] = u[i]
    <3>1. c = m \o u /\ m \in Seq(Fit) /\ u \in Seq(Fit)
      BY <1>2, <1>3
    <3> HIDE DEF c
    <3> QED BY <3>1, ConcatElements
  <2> HIDE DEF c, n
  <2>2. Len(c) = n - p + 1
    BY <1>0, <1>2, <1>3, <2>1
  <2>3. \A i \in 1..(n - p + 1) : t[i] = c[i]
    <3> SUFFICES ASSUME NEW i \in 1..(n - p + 1) PROVE t[i] = c[i]
      OBVIOUS
    <3>1. t[i] = s[p + i - 1]
      BY <1>4
    <3>2. CASE i <= q - p + 1
      <4>1. i \in 1..(q - p + 1)
        BY <1>0, <3>2
      <4> QED BY <1>2, <2>1, <3>1, <4>1
    <3>3. CASE i > q - p + 1
      <4> DEFINE j == i - (q - p + 1)
      <4>1. j \in 1..(n - q) /\ (q - p + 1) + j = i /\ q + j = p + i - 1
        BY <1>0, <3>3
      <4> HIDE DEF j
      <4>2. c[(q - p + 1) + j] = u[j]
        BY <1>2, <1>3, <2>1, <4>1
      <4>3. u[j] = s[q + j]
        BY <1>3, <4>1
      <4> QED BY <3>1, <4>1, <4>2, <4>3
    <3>4. i \in Int /\ q - p + 1 \in Int
      BY <1>0
    <3> QED BY <3>2, <3>3, <3>4
  <2>4. t = c
    BY <1>4, <2>1, <2>2, <2>3, SeqEqual
  <2> QED BY <2>4 DEF c
<1>6. s = (a \o m) \o u
  <2>1. s = a \o t
    <3> DEFINE c == a \o t
    <3>1. /\ c \in Seq(Fit) /\ Len(c) = Len(a) + Len(t)
          /\ \A i \in 1..Len(a) : c[i] = a[i]
          /\ \A i \in 1..Len(t) : c[Len(a) + i] = t[i]
      <4>1. c = a \o t /\ a \in Seq(Fit) /\ t \in Seq(Fit)
        BY <1>1, <1>4
      <4> HIDE DEF c
      <4> QED BY <4>1, ConcatElements
    <3>2. s \in Seq(Fit) /\ Len(s) = n
      OBVIOUS
    <3> HIDE DEF c, n
    <3>3. Len(c) = n
      BY <1>0, <1>1, <1>4, <3>1
    <3>4. \A i \in 1..n : s[i] = c[i]
      <4> SUFFICES ASSUME NEW i \in 1..n PROVE s[i] = c[i]
        OBVIOUS
      <4>1. CASE i <= p - 1
        <5>1. i \in 1..(p - 1)
          BY <1>0, <4>1
        <5> QED BY <1>1, <3>1, <5>1
      <4>2. CASE i > p - 1
        <5> DEFINE j == i - (p - 1)
        <5>1. j \in 1..(n - p + 1) /\ (p - 1) + j = i /\ p + j - 1 = i
          BY <1>0, <4>2
        <5> HIDE DEF j
        <5>2. c[(p - 1) + j] = t[j]
          BY <1>1, <1>4, <3>1, <5>1
        <5>3. t[j] = s[p + j - 1]
          BY <1>4, <5>1
        <5> QED BY <5>1, <5>2, <5>3
      <4>3. i \in Int /\ p - 1 \in Int
        BY <1>0
      <4> QED BY <4>1, <4>2, <4>3
    <3>5. s = c
      BY <3>1, <3>2, <3>3, <3>4, SeqEqual
    <3> QED BY <3>5 DEF c
  <2>2. (a \o m) \o u = a \o (m \o u)
    <3>1. a \in Seq(Fit) /\ m \in Seq(Fit) /\ u \in Seq(Fit)
      BY <1>1, <1>2, <1>3
    <3> QED BY <3>1, IntsConcat, Zenon
  <2> QED BY <1>5, <2>1, <2>2
<1> HIDE DEF n
<1>7. SubSeq(s, p, Len(s)) = m \o u /\ a = SubSeq(s, 1, p - 1) /\ Len(u) = Len(s) - q
  BY <1>3, <1>5 DEF t, n, a
<1> QED BY <1>1, <1>2, <1>3, <1>6, <1>7

\* ACK is written with its ranges, and with the ECN counts if there are any.
LEMMA AckBody ==
    ASSUME NEW f, WellFormed(f), Writable(f), f.kind = "ACK"
    PROVE  Body(f) \in Seq(Byte) /\ Reads(Body(f), Layout(TypeFor(f)), f.ints, f.data)
<1> DEFINE s == f.ints
           ecn == IF f.bit THEN 3 ELSE 0
<1>1. s \in Seq(Fit) /\ f.bit \in BOOLEAN /\ f.data = <<>>
  <2>1. DataLengths(f.kind) = <<>>
    BY DEF DataLengths
  <2> QED BY <2>1, FrameParts
<1>2. PICK k \in 0..Len(s) : Len(s) = 3 + 2 * k + ecn
  BY DEF WellFormed
<1>3. RangeCount(f) = k
  <2>1. Len(s) - 3 - ecn = 2 * k
    BY <1>1, <1>2
  <2>2. RangeCount(f) = (Len(s) - 3 - ecn) \div 2
    BY DEF RangeCount
  <2>3. (2 * k) \div 2 = k
    OBVIOUS
  <2> QED BY <2>1, <2>2, <2>3
<1>4. k \in Fit
  BY <1>3 DEF Writable, Fit
<1> DEFINE q == 3 + 2 * k
<1>5. 3 \in 1..Len(s) /\ q \in 0..Len(s) /\ 3 - 1 <= q /\ Len(s) = q + ecn /\ ecn \in {0, 3}
  BY <1>1, <1>2
<1> HIDE DEF s, q
<1>6. PICK a, m, u \in Seq(Fit) :
          /\ a = SubSeq(s, 1, 3 - 1) /\ Len(a) = 3 - 1
          /\ Len(m) = q - 3 + 1 /\ Len(u) = Len(s) - q
          /\ SubSeq(s, 3, Len(s)) = m \o u /\ s = (a \o m) \o u
  BY <1>1, <1>5, IntsInThree
<1>7. Len(a) = 2 /\ Len(m) = 1 + 2 * k /\ Len(u) = ecn /\ a = SubSeq(s, 1, 2)
  <2>1. q \in Int /\ ecn \in Int /\ 3 - 1 = 2 /\ k \in Int
    BY <1>5
  <2>2. Len(u) = (q + ecn) - q /\ (q + ecn) - q = ecn
    BY <1>5, <1>6, <2>1
  <2>3. Len(m) = 1 + 2 * k
    BY <1>6, <2>1 DEF q
  <2> QED BY <1>6, <2>1, <2>2, <2>3
<1> DEFINE w == WriteInts(a) \o Encode(k) \o WriteInts(m \o u)
<1>8. Body(f) = w
  <2>1. Body(f) = WriteInts(SubSeq(f.ints, 1, 2)) \o Encode(RangeCount(f))
                      \o WriteInts(SubSeq(f.ints, 3, Len(f.ints)))
    BY DEF Body
  <2> QED BY <1>3, <1>6, <1>7, <2>1, Zenon DEF s
<1>9. /\ w \in Seq(Byte)
      /\ Len(u) = 0 => Reads(w, <<"int", "int", "ranges">>, (a \o m) \o u, <<>>)
      /\ Len(u) = 3 => Reads(w, <<"int", "int", "ranges", "int", "int", "int">>, (a \o m) \o u, <<>>)
  BY <1>4, <1>7, AckShape
<1> HIDE DEF w
<1>10. FinBit(TypeFor(f)) <=> f.bit
  BY TypeForFacts
<1>11. KindOf(TypeFor(f)) = "ACK"
  BY TypeForFacts
<1>12. CASE f.bit
  <2>1. Layout(TypeFor(f)) = <<"int", "int", "ranges", "int", "int", "int">>
    BY <1>10, <1>11, <1>12, LayoutOfKind
  <2>2. Len(u) = 3
    BY <1>7, <1>12
  <2>3. Reads(w, Layout(TypeFor(f)), s, <<>>)
    BY <1>6, <1>9, <2>1, <2>2
  <2> QED BY <1>1, <1>8, <1>9, <2>3 DEF s
<1>13. CASE ~f.bit
  <2>1. Layout(TypeFor(f)) = <<"int", "int", "ranges">>
    BY <1>10, <1>11, <1>13, LayoutOfKind
  <2>2. Len(u) = 0
    BY <1>7, <1>13
  <2>3. Reads(w, Layout(TypeFor(f)), s, <<>>)
    BY <1>6, <1>9, <2>1, <2>2
  <2> QED BY <1>1, <1>8, <1>9, <2>3 DEF s
<1> QED BY <1>1, <1>12, <1>13

\* Every frame but an empty STREAM is read as it was written, whatever follows.
LEMMA BodyReads ==
    ASSUME NEW f, WellFormed(f), Writable(f), ~EmptyStream(f)
    PROVE  Body(f) \in Seq(Byte) /\ Reads(Body(f), Layout(TypeFor(f)), f.ints, f.data)
<1> DEFINE k == f.kind
           t == TypeFor(f)
           s == f.ints
<1>1. k \in Kinds /\ s \in Seq(Fit) /\ f.bit \in BOOLEAN
  BY FrameParts
<1>2. KindOf(t) = k /\ BitOf(t) = f.bit
  BY TypeForFacts
<1>3. CASE k = "ACK"
  BY <1>3, AckBody
<1>4. CASE k = "STREAM"
  <2>1. f.data[1] # <<>>
    BY <1>4 DEF EmptyStream
  <2> DEFINE i == f.ints[1]
             j == f.ints[2]
             b == f.data[1]
  <2>2. i \in Fit /\ j \in Fit /\ f.ints = <<i, j>> /\ f.data = <<b>> /\ b \in Seq(Byte) /\ Len(b) \in Fit
    BY <1>4, StreamBody
  <2>3. /\ Body(f) = StreamStart(i, j) \o WriteBytes(b)
        /\ Layout(TypeFor(f)) = <<"int", IF j > 0 THEN "int" ELSE "zero", "bytes">>
    BY <1>4, <2>1, StreamBody
  <2> HIDE DEF i, j, b
  <2>4. /\ StreamStart(i, j) \o WriteBytes(b) \in Seq(Byte)
        /\ Reads(StreamStart(i, j) \o WriteBytes(b),
                 <<"int", IF j > 0 THEN "int" ELSE "zero", "bytes">>, <<i, j>>, <<b>>)
    BY <2>2, StreamShape
  <2> QED BY <2>2, <2>3, <2>4
<1>5. CASE k = "NEW_CONNECTION_ID"
  <2>1. DataLengths(k) = <<1..20, {16}>> /\ IntCount(k, f.bit) = 2
    BY <1>5 DEF DataLengths, IntCount
  <2> DEFINE b == f.data[1]
             c == f.data[2]
  <2>2. f.data = <<b, c>> /\ b \in Seq(Byte) /\ Len(b) \in 1..20 /\ c \in Seq(Byte) /\ Len(c) = 16
    <3>1. /\ f.data = <<f.data[1], f.data[2]>>
          /\ f.data[1] \in Seq(Byte) /\ Len(f.data[1]) \in 1..20
          /\ f.data[2] \in Seq(Byte) /\ Len(f.data[2]) \in {16}
      BY <2>1, FrameParts, Zenon
    <3> QED BY <3>1
  <2>3. Len(s) = 2
    BY <1>5, <2>1, FrameParts
  <2>4. Body(f) = WriteInts(s) \o <<Len(b)>> \o b \o c
    BY <1>5 DEF Body
  <2>5. Layout(t) = <<"int", "int", "cid", "token">>
    BY <1>2, <1>5, LayoutOfKind
  <2> HIDE DEF s, t, b, c
  <2>6. /\ WriteInts(s) \o <<Len(b)>> \o b \o c \in Seq(Byte)
        /\ Reads(WriteInts(s) \o <<Len(b)>> \o b \o c, <<"int", "int", "cid", "token">>, s, <<b, c>>)
    BY <1>1, <2>2, <2>3, NewCidShape
  <2>7. Body(f) \in Seq(Byte) /\ Reads(Body(f), Layout(t), s, f.data)
    BY <2>2, <2>4, <2>5, <2>6
  <2> QED BY <2>7 DEF s, t
<1>6. CASE k \in {"PATH_CHALLENGE", "PATH_RESPONSE"}
  <2>1. DataLengths(k) = <<{8}>> /\ IntCount(k, f.bit) = 0
    BY <1>6 DEF DataLengths, IntCount
  <2> DEFINE b == f.data[1]
  <2>2. f.data = <<b>> /\ b \in Seq(Byte) /\ Len(b) = 8
    <3> DEFINE L == {8}
    <3>1. DataLengths(f.kind) = <<L>>
      BY <2>1
    <3> HIDE DEF L
    <3>2. f.data = <<f.data[1]>> /\ f.data[1] \in Seq(Byte) /\ Len(f.data[1]) \in L
      BY <3>1, FrameParts
    <3> QED BY <3>2 DEF L
  <2>3. s = <<>>
    BY <1>1, <1>6, <2>1, FrameParts
  <2>4. Body(f) = b
    BY <1>6 DEF Body
  <2>5. Layout(t) = <<"path">>
    BY <1>2, <1>6, LayoutOfKind
  <2> HIDE DEF s, t, b
  <2>6. Reads(b, <<"path">>, <<>>, <<b>>)
    BY <2>2, PathShape
  <2>7. Body(f) \in Seq(Byte) /\ Reads(Body(f), Layout(t), s, f.data)
    BY <2>2, <2>3, <2>4, <2>5, <2>6
  <2> QED BY <2>7 DEF s, t
<1>7. CASE k \in {"CRYPTO", "NEW_TOKEN", "CONNECTION_CLOSE"}
  <2>1. DataLengths(k) = <<Nat>>
    BY <1>7 DEF DataLengths
  <2> DEFINE b == f.data[1]
  <2>2. f.data = <<b>> /\ b \in Seq(Byte) /\ Len(b) \in Fit
    BY <2>1, FrameParts
  <2>3. Body(f) = WriteInts(s) \o WriteBytes(b)
    BY <1>7 DEF Body
  <2>4. \/ Len(s) = 0 /\ Layout(t) = <<"bytes">>
        \/ Len(s) = 1 /\ Layout(t) = <<"int", "bytes">>
        \/ Len(s) = 2 /\ Layout(t) = <<"int", "int", "bytes">>
    <3>1. Len(s) = IntCount(k, f.bit)
      BY <1>7, FrameParts
    <3>2. CASE k = "CRYPTO"
      BY <1>2, <3>1, <3>2, LayoutOfKind DEF IntCount
    <3>3. CASE k = "NEW_TOKEN"
      BY <1>2, <3>1, <3>3, LayoutOfKind DEF IntCount
    <3>4. CASE k = "CONNECTION_CLOSE"
      BY <1>1, <1>2, <3>1, <3>4, LayoutOfKind DEF IntCount
    <3> QED BY <1>7, <3>2, <3>3, <3>4
  <2> HIDE DEF s, t, b
  <2>5. /\ WriteInts(s) \o WriteBytes(b) \in Seq(Byte)
        /\ Len(s) = 0 => Reads(WriteInts(s) \o WriteBytes(b), <<"bytes">>, s, <<b>>)
        /\ Len(s) = 1 => Reads(WriteInts(s) \o WriteBytes(b), <<"int", "bytes">>, s, <<b>>)
        /\ Len(s) = 2 => Reads(WriteInts(s) \o WriteBytes(b), <<"int", "int", "bytes">>, s, <<b>>)
    BY <1>1, <2>2, IntsThenBytes
  <2>6. Body(f) \in Seq(Byte) /\ Reads(Body(f), Layout(t), s, f.data)
    BY <2>2, <2>3, <2>4, <2>5
  <2> QED BY <2>6 DEF s, t
<1>8. CASE k \in Kinds \ {"ACK", "STREAM", "NEW_CONNECTION_ID", "PATH_CHALLENGE", "PATH_RESPONSE",
                          "CRYPTO", "NEW_TOKEN", "CONNECTION_CLOSE"}
  <2>1. DataLengths(k) = <<>>
    BY <1>8 DEF DataLengths
  <2>2. f.data = <<>>
    BY <2>1, FrameParts
  <2>3. Body(f) = WriteInts(s)
    BY <1>8 DEF Body
  <2>4. \/ Len(s) = 0 /\ Layout(t) = <<>>
        \/ Len(s) = 1 /\ Layout(t) = <<"int">>
        \/ Len(s) = 2 /\ Layout(t) = <<"int", "int">>
        \/ Len(s) = 3 /\ Layout(t) = <<"int", "int", "int">>
    <3>1. Len(s) = IntCount(k, f.bit)
      BY <1>8, FrameParts
    <3>2. CASE k \in {"PADDING", "PING", "HANDSHAKE_DONE"}
      BY <1>2, <3>1, <3>2, LayoutOfKind DEF IntCount
    <3>3. CASE k \in {"MAX_DATA", "MAX_STREAMS", "DATA_BLOCKED", "STREAMS_BLOCKED", "RETIRE_CONNECTION_ID"}
      BY <1>2, <3>1, <3>3, LayoutOfKind DEF IntCount
    <3>4. CASE k \in {"STOP_SENDING", "MAX_STREAM_DATA", "STREAM_DATA_BLOCKED"}
      BY <1>2, <3>1, <3>4, LayoutOfKind DEF IntCount
    <3>5. CASE k = "RESET_STREAM"
      BY <1>2, <3>1, <3>5, LayoutOfKind DEF IntCount
    <3> QED BY <1>8, <3>2, <3>3, <3>4, <3>5 DEF Kinds
  <2>5. WriteInts(s) \in Seq(Byte)
    BY <1>1, WriteIntsNext
  <2> HIDE DEF s, t
  <2>6. /\ Len(s) = 0 => Reads(WriteInts(s), <<>>, s, <<>>)
        /\ Len(s) = 1 => Reads(WriteInts(s), <<"int">>, s, <<>>)
        /\ Len(s) = 2 => Reads(WriteInts(s), <<"int", "int">>, s, <<>>)
        /\ Len(s) = 3 => Reads(WriteInts(s), <<"int", "int", "int">>, s, <<>>)
    BY <1>1, OnlyInts
  <2>7. Body(f) \in Seq(Byte) /\ Reads(Body(f), Layout(t), s, f.data)
    BY <2>2, <2>3, <2>4, <2>5, <2>6
  <2> QED BY <2>7 DEF s, t
<1> QED BY <1>1, <1>3, <1>4, <1>5, <1>6, <1>7, <1>8

\* An empty STREAM swallows whatever follows.
LEMMA BodySwallows ==
    ASSUME NEW f, WellFormed(f), Writable(f), EmptyStream(f)
    PROVE  Body(f) \in Seq(Byte) /\ Swallows(Body(f), Layout(TypeFor(f)), f.ints)
<1> DEFINE i == f.ints[1]
           j == f.ints[2]
<1>1. f.kind = "STREAM" /\ f.data[1] = <<>>
  BY DEF EmptyStream
<1>2. i \in Fit /\ j \in Fit /\ f.ints = <<i, j>>
  BY <1>1, StreamBody
<1>3. /\ Body(f) = StreamStart(i, j)
      /\ Layout(TypeFor(f)) = <<"int", IF j > 0 THEN "int" ELSE "zero", "rest">>
  BY <1>1, StreamBody
<1>4. f.data[1] \in Seq(Byte) /\ Len(f.data[1]) \in Fit
  BY <1>1, StreamBody
<1> HIDE DEF i, j
<1>5. Swallows(StreamStart(i, j), <<"int", IF j > 0 THEN "int" ELSE "zero", "rest">>, <<i, j>>)
  BY <1>2, <1>4, StreamShape
<1>6. StreamStart(i, j) \in Seq(Byte)
  BY <1>2, StreamStartReads
<1> QED BY <1>2, <1>3, <1>5, <1>6

-----------------------------------------------------------------------------
(* Frames that are written are read.                                       *)

\* A type takes one byte, and is read from it.
LEMMA TypeReadsBack ==
    ASSUME NEW t \in 0..MaxType, NEW tail \in Seq(Byte)
    PROVE  /\ <<t>> \in Seq(Byte) /\ <<t>> \o tail \in Seq(Byte)
           /\ TypeOf(<<t>> \o tail) = {t} /\ Tail(<<t>> \o tail) = tail
<1>1. t \in Nat /\ t < 64 /\ t \in Byte
  <2>1. t \in 0..30
    BY DEF MaxType
  <2>2. \A n \in 0..30 : n \in Nat /\ n < 64 /\ n \in 0..255
    OBVIOUS
  <2> QED BY <2>1, <2>2, ByteFacts
<1>2. EncodedLen(t) = 1
  BY <1>1, ByteFacts DEF EncodedLen
<1>3. Shift(t, 0) = t /\ ~TooLarge(t)
  <2>1. Shift(t, 0) = t /\ \A k \in Nat : Shift(t, k) \in Nat
    BY <1>1, ShiftFacts
  <2>2. Shift(t, 1) <= Shift(t, 0) /\ Shift(t, 3) <= Shift(t, 1) /\ Shift(t, 7) <= Shift(t, 3)
    BY <1>1, ShiftDecreases
  <2>3. Shift(t, 1) \in Nat /\ Shift(t, 3) \in Nat /\ Shift(t, 7) \in Nat
    BY <2>1
  <2>4. Shift(t, 7) < 64
    BY <1>1, <2>1, <2>2, <2>3
  <2> QED BY <2>1, <2>3, <2>4, ByteFacts DEF TooLarge
<1>4. Encode(t) = <<t>>
  <2>1. Encode(t) = [i \in 1..1 |-> IF i = 1 THEN Prefix(1) * Quarter + Shift(t, 1 - 1)
                                    ELSE Shift(t, 1 - i) % ByteRadix]
    BY <1>2 DEF Encode
  <2>2. Prefix(1) * Quarter + Shift(t, 1 - 1) = t
    <3>1. Prefix(1) = 0 /\ 1 - 1 = 0
      BY DEF Prefix
    <3>2. 0 * Quarter = 0
      BY ByteFacts
    <3>3. 0 + t = t
      BY <1>1
    <3> QED BY <1>3, <3>1, <3>2, <3>3
  <2>3. Encode(t) = [i \in 1..1 |-> t]
    BY <2>1, <2>2
  <2> QED BY <2>3
<1> DEFINE d == [value |-> t, len |-> 1]
           buf == <<t>> \o tail
<1>5. Decode(buf) = {d}
  <2>1. Decode(Encode(t) \o tail) = {[value |-> t, len |-> EncodedLen(t)]}
    BY <1>1, <1>3, VarIntReadsBack
  <2> QED BY <1>2, <1>4, <2>1
<1>6. buf \in Seq(Byte) /\ Tail(buf) = tail /\ <<t>> \in Seq(Byte)
  <2>1. <<t>> \in Seq(Byte) /\ Len(<<t>>) = 1
    BY <1>1
  <2>2. buf \in Seq(Byte) /\ buf # <<>>
    BY <2>1
  <2>3. SubSeq(buf, 1 + 1, Len(buf)) = tail
    BY <2>1, ConcatParts
  <2> HIDE DEF buf
  <2>4. Tail(buf) = SubSeq(buf, 2, Len(buf))
    BY <2>2, TailIsSubSeq
  <2>5. 1 + 1 = 2
    OBVIOUS
  <2> QED BY <2>1, <2>2, <2>3, <2>4, <2>5
<1> HIDE DEF buf
<1>7. TypeOf(buf) = {t}
  <2>1. d.value = t /\ t % 256 = t
    BY <1>1
  <2>2. ~(d.value < Quarter /\ EncodedLen(d.value) # 1)
    BY <1>2, <2>1
  <2> HIDE DEF d
  <2>3. {x \in {d} : ~(x.value < Quarter /\ EncodedLen(x.value) # 1)} = {d}
    BY <2>2
  <2>4. TypeOf(buf) = {x.value % 256 : x \in {d}}
    BY <1>5, <2>3, ByteFacts DEF TypeOf
  <2> QED BY <2>1, <2>4
<1> QED BY <1>6, <1>7 DEF buf

\* What write_frame writes, and what parse_frame makes of a type and what follows it.
LEMMA FrameBytes ==
    ASSUME NEW f, WellFormed(f), Body(f) \in Seq(Byte), NEW rest \in Seq(Byte)
    PROVE  /\ WriteFrame(f) \in Seq(Byte) /\ Len(WriteFrame(f)) \in Nat /\ Len(WriteFrame(f)) >= 1
           /\ WriteFrame(f) \o rest \in Seq(Byte)
           /\ \A x : ReadFields(Reader(Body(f) \o rest, <<>>, <<>>), Layout(TypeFor(f))) = {x} =>
                  ParseFrame(WriteFrame(f) \o rest) =
                      {[frame |-> Frame(f.kind, x.ints, x.data, f.bit),
                        len |-> Len(WriteFrame(f) \o rest) - Len(x.rest)]}
<1> DEFINE t == TypeFor(f)
           b == Body(f)
           w == WriteFrame(f)
           tail == b \o rest
           buf == w \o rest
<1>1. t \in 0..MaxType /\ KindOf(t) = f.kind /\ BitOf(t) = f.bit
  BY TypeForFacts
<1>2. w = <<t>> \o b
  BY DEF WriteFrame, Body
<1> HIDE DEF t, b, w
<1>3. tail \in Seq(Byte) /\ b \in Seq(Byte) /\ <<t>> \in Seq(Byte)
  <2>1. b \in Seq(Byte)
    BY DEF b
  <2> QED BY <1>1, <2>1, TypeReadsBack, BytesConcat
<1>4. w \in Seq(Byte) /\ Len(w) \in Nat /\ Len(w) >= 1
  <2>1. Len(<<t>>) = 1
    OBVIOUS
  <2>2. w \in Seq(Byte) /\ Len(w) = Len(<<t>>) + Len(b)
    BY <1>2, <1>3
  <2>3. Len(b) \in Nat
    BY <1>3
  <2> QED BY <2>1, <2>2, <2>3
<1>5. buf = <<t>> \o tail /\ buf \in Seq(Byte)
  BY <1>2, <1>3, <1>4, BytesConcat
<1> HIDE DEF tail, buf
<1>6. TypeOf(buf) = {t} /\ Tail(buf) = tail
  BY <1>1, <1>3, <1>5, TypeReadsBack
<1>7. ASSUME NEW x, ReadFields(Reader(tail, <<>>, <<>>), Layout(t)) = {x}
      PROVE  ParseFrame(buf) = {[frame |-> Frame(f.kind, x.ints, x.data, f.bit),
                                 len |-> Len(buf) - Len(x.rest)]}
  <2> DEFINE P(type) == {[ frame |-> Frame(KindOf(type), r.ints, r.data, BitOf(type)),
                           len   |-> Consumed(buf, r.rest) ] :
                              r \in ReadFields(Reader(Tail(buf), <<>>, <<>>), Layout(type))}
  <2>1. {n \in TypeOf(buf) : n <= MaxType} = {t}
    <3>1. t <= MaxType
      BY <1>1 DEF MaxType
    <3> QED BY <1>6, <3>1
  <2>2. ParseFrame(buf) = UNION {P(type) : type \in {t}}
    BY <2>1 DEF ParseFrame
  <2>3. ParseFrame(buf) = P(t)
    <3> HIDE DEF P
    <3> QED BY <2>2
  <2>4. P(t) = {[frame |-> Frame(f.kind, r.ints, r.data, f.bit), len |-> Consumed(buf, r.rest)] : r \in {x}}
    BY <1>1, <1>6, <1>7
  <2>5. P(t) = {[frame |-> Frame(f.kind, x.ints, x.data, f.bit), len |-> Consumed(buf, x.rest)]}
    BY <2>4
  <2> QED BY <2>3, <2>5 DEF Consumed
<1> QED BY <1>4, <1>5, <1>7 DEF t, b, w, tail, buf

\* A frame is its four parts.
LEMMA FrameOfParts ==
    ASSUME NEW f, WellFormed(f)
    PROVE  /\ Frame(f.kind, f.ints, f.data, f.bit) = f
           /\ \A ds : Frame(f.kind, f.ints, ds, f.bit).data = ds
<1>1. f \in [kind : {KindOf(type) : type \in 0..MaxType}, ints : Seq(Nat),
             data : Seq(Seq(Byte)), bit : BOOLEAN]
  BY DEF WellFormed
<1>2. f = [kind |-> f.kind, ints |-> f.ints, data |-> f.data, bit |-> f.bit]
  BY <1>1
<1> QED BY <1>2 DEF Frame

\* A frame that write_frame can write, but for a STREAM frame without data, is
\* what parse_frame reads, whatever follows it, and it takes what was written.
THEOREM FrameReadsBack ==
    ASSUME NEW f, WellFormed(f), Writable(f), ~EmptyStream(f), NEW rest \in Seq(Byte)
    PROVE  /\ WriteFrame(f) \in Seq(Byte)
           /\ ParseFrame(WriteFrame(f) \o rest) = {[frame |-> f, len |-> Len(WriteFrame(f))]}
<1> DEFINE x == Reader(rest, f.ints, f.data)
           w == WriteFrame(f)
<1>1. Body(f) \in Seq(Byte) /\ Reads(Body(f), Layout(TypeFor(f)), f.ints, f.data)
  BY BodyReads
<1>2. ReadFields(Reader(Body(f) \o rest, <<>>, <<>>), Layout(TypeFor(f))) = {x}
  BY <1>1 DEF Reads
<1>3. x.ints = f.ints /\ x.data = f.data /\ x.rest = rest
  BY DEF Reader
<1> HIDE DEF x
<1>4. w \in Seq(Byte) /\ ParseFrame(w \o rest) =
          {[frame |-> Frame(f.kind, x.ints, x.data, f.bit), len |-> Len(w \o rest) - Len(x.rest)]}
  BY <1>1, <1>2, FrameBytes
<1> HIDE DEF w
<1>5. Len(w \o rest) - Len(rest) = Len(w)
  <2>1. Len(w \o rest) = Len(w) + Len(rest) /\ Len(w) \in Nat /\ Len(rest) \in Nat
    BY <1>4
  <2>2. \A m, n \in Nat : (m + n) - n = m
    OBVIOUS
  <2> QED BY <2>1, <2>2
<1>6. Frame(f.kind, x.ints, x.data, f.bit) = f
  BY <1>3, FrameOfParts
<1>7. ParseFrame(w \o rest) = {[frame |-> f, len |-> Len(w)]}
  BY <1>3, <1>4, <1>5, <1>6
<1> QED BY <1>4, <1>7 DEF w

\* A STREAM frame without data reads whatever follows it as its data, to the end.
THEOREM EmptyStreamSwallows ==
    ASSUME NEW f, WellFormed(f), Writable(f), EmptyStream(f), NEW rest \in Seq(Byte)
    PROVE  /\ WriteFrame(f) \in Seq(Byte)
           /\ ParseFrame(WriteFrame(f) \o rest) =
                  {[frame |-> Frame(f.kind, f.ints, <<rest>>, f.bit), len |-> Len(WriteFrame(f) \o rest)]}
<1> DEFINE x == Reader(<<>>, f.ints, <<rest>>)
           w == WriteFrame(f)
           n == Len(w \o rest)
<1>1. Body(f) \in Seq(Byte) /\ Swallows(Body(f), Layout(TypeFor(f)), f.ints)
  BY BodySwallows
<1>2. ReadFields(Reader(Body(f) \o rest, <<>>, <<>>), Layout(TypeFor(f))) = {x}
  BY <1>1 DEF Swallows
<1>3. x.ints = f.ints /\ x.data = <<rest>> /\ x.rest = <<>>
  BY DEF Reader
<1> HIDE DEF x
<1>4. w \in Seq(Byte) /\ w \o rest \in Seq(Byte) /\ ParseFrame(w \o rest) =
          {[frame |-> Frame(f.kind, x.ints, x.data, f.bit), len |-> n - Len(x.rest)]}
  BY <1>1, <1>2, FrameBytes
<1> HIDE DEF w
<1>5. n - Len(x.rest) = n
  <2>1. n \in Nat
    BY <1>4
  <2>2. Len(x.rest) = 0
    BY <1>3
  <2> HIDE DEF n
  <2> QED BY <2>1, <2>2
<1>6. ParseFrame(w \o rest) = {[frame |-> Frame(f.kind, f.ints, <<rest>>, f.bit), len |-> n]}
  BY <1>3, <1>4, <1>5
<1> QED BY <1>4, <1>6 DEF w, n

-----------------------------------------------------------------------------
(* The payload.                                                            *)

\* The type of frames.
FrameRecords == [kind : {KindOf(type) : type \in 0..MaxType}, ints : Seq(Nat),
                 data : Seq(Seq(Byte)), bit : BOOLEAN]

\* The payload is bytes, the frames put into it could be written, those read from
\* it are frames no longer than it, and each took a byte at least.
PayloadInv ==
    /\ phase \in {"Write", "Read", "Done", "Refused", "Aborted"}
    /\ payload \in Seq(Byte) /\ pos \in 0..Len(payload)
    /\ written \in Seq(FrameRecords)
    /\ \A i \in 1..Len(written) : WellFormed(written[i]) /\ Writable(written[i])
    /\ parsed \in Seq(FrameRecords) /\ Len(parsed) <= pos
    /\ \A i \in 1..Len(parsed) : WellFormed(parsed[i]) /\ Bounded(parsed[i], Len(payload))
    /\ phase = "Write" => pos = 0 /\ parsed = <<>>

\* A frame of the type Frame is a record.
LEMMA FrameRecord == \A f : WellFormed(f) => f \in FrameRecords
  BY DEF WellFormed, FrameRecords

\* PADDING, which is written as a zero.
Padding == Frame("PADDING", <<>>, <<>>, FALSE)

\* It can be written.
LEMMA PaddingFacts == WellFormed(Padding) /\ Writable(Padding) /\ WriteFrame(Padding) = <<0>>
<1> DEFINE f == Padding
           none == <<>>
<1>1. f.kind = "PADDING" /\ f.ints = none /\ f.data = none /\ f.bit = FALSE
  BY DEF Padding, Frame
<1>2. 0 \in 0..MaxType /\ KindOf(0) = "PADDING"
  BY KindTable DEF MaxType
<1>3. /\ none \in Seq(Nat) /\ none \in Seq(Seq(Byte)) /\ Len(none) = 0 /\ DOMAIN none = {}
  OBVIOUS
<1>4. "PADDING" \in {KindOf(type) : type \in 0..MaxType}
  BY <1>2
<1> HIDE DEF none
<1>5. f \in FrameRecords
  BY <1>3, <1>4 DEF FrameRecords, Padding, Frame, none
<1> HIDE DEF f
<1>6. WellFormed(f)
  <2>1. IntCount("PADDING", FALSE) = 0 /\ DataLengths("PADDING") = none
    BY DEF IntCount, DataLengths, none
  <2> QED BY <1>1, <1>3, <1>5, <2>1 DEF WellFormed, FrameRecords
<1>7. Writable(f)
  BY <1>1, <1>3 DEF Writable
<1>8. WriteFrame(f) = <<0>>
  <2>1. TypeFor(f) = 0
    BY <1>1, FirstTypes, TypeForKind
  <2>2. Body(f) = WriteInts(none)
    BY <1>1 DEF Body
  <2>3. WriteInts(none) = <<>>
    BY WriteIntsNext DEF none
  <2>4. WriteFrame(f) = <<TypeFor(f)>> \o Body(f)
    BY DEF WriteFrame, Body
  <2>5. <<0>> \o <<>> = <<0>>
    OBVIOUS
  <2> QED BY <2>1, <2>2, <2>3, <2>4, <2>5
<1> QED BY <1>6, <1>7, <1>8 DEF f

\* What write_frame writes are bytes.
LEMMA WrittenBytes ==
    ASSUME NEW f, WellFormed(f), Writable(f)
    PROVE  WriteFrame(f) \in Seq(Byte) /\ Len(WriteFrame(f)) \in Nat /\ Len(WriteFrame(f)) >= 1
<1>1. Body(f) \in Seq(Byte)
  BY BodyReads, BodySwallows
<1>2. <<>> \in Seq(Byte)
  OBVIOUS
<1> QED BY <1>1, <1>2, FrameBytes

\* What is left of a payload.
Remaining == SubSeq(payload, pos + 1, Len(payload))

\* It holds of an empty payload.
LEMMA PayloadInit == Init => PayloadInv
<1> SUFFICES ASSUME Init PROVE PayloadInv
  OBVIOUS
<1> DEFINE none == <<>>
<1>1. none \in Seq(Byte) /\ none \in Seq(FrameRecords) /\ Len(none) = 0
  OBVIOUS
<1>2. payload = none /\ written = none /\ parsed = none /\ pos = 0 /\ phase = "Write"
  BY DEF Init
<1> HIDE DEF none
<1>3. 0 \in 0..0 /\ ~(\E i \in 1..0 : TRUE)
  OBVIOUS
<1> QED BY <1>1, <1>2, <1>3 DEF PayloadInv, none

\* A frame is put into the payload.
LEMMA PayloadPut ==
    ASSUME PayloadInv, NEW f \in Frames, Put(f)
    PROVE  PayloadInv'
<1>1. WellFormed(f) /\ Writable(f)
  BY WellFormedAssumption DEF Put
<1>2. WriteFrame(f) \in Seq(Byte)
  BY <1>1, WrittenBytes
<1>3. f \in FrameRecords
  BY <1>1, FrameRecord
<1>4. /\ phase = "Write" /\ phase' = phase /\ written' = Append(written, f)
      /\ payload' = payload \o WriteFrame(f) /\ parsed' = parsed /\ pos' = pos
  BY DEF Put
<1>5. payload' \in Seq(Byte) /\ Len(payload') \in Nat
  <2>1. payload \in Seq(Byte)
    BY DEF PayloadInv
  <2> QED BY <1>2, <1>4, <2>1
<1>6. /\ written' \in Seq(FrameRecords)
      /\ \A i \in 1..Len(written') : WellFormed(written'[i]) /\ Writable(written'[i])
  <2> DEFINE n == Len(written)
  <2>1. written \in Seq(FrameRecords) /\ \A i \in 1..n : WellFormed(written[i]) /\ Writable(written[i])
    BY DEF PayloadInv
  <2>2. /\ written' \in Seq(FrameRecords) /\ Len(written') = n + 1 /\ written'[n + 1] = f /\ n \in Nat
        /\ \A i \in 1..n : written'[i] = written[i]
    BY <1>3, <1>4, <2>1
  <2> HIDE DEF n
  <2>3. \A i \in 1..(n + 1) : i \in 1..n \/ i = n + 1
    BY <2>2
  <2> QED BY <1>1, <2>1, <2>2, <2>3
<1>7. /\ pos' = 0 /\ parsed' = <<>> /\ parsed' \in Seq(FrameRecords) /\ Len(parsed') = 0
  BY <1>4 DEF PayloadInv
<1>8. \A i \in 1..Len(parsed') : WellFormed(parsed'[i]) /\ Bounded(parsed'[i], Len(payload'))
  BY <1>7
<1>9. pos' \in 0..Len(payload')
  BY <1>5, <1>7
<1> QED BY <1>4, <1>5, <1>6, <1>7, <1>8, <1>9 DEF PayloadInv

\* A byte of a peer's own making.
LEMMA PayloadPutByte ==
    ASSUME PayloadInv, NEW b \in AnyBytes, PutByte(b)
    PROVE  PayloadInv'
<1>1. b \in Byte
  BY FrameAssumption
<1>2. /\ phase = "Write" /\ phase' = phase /\ written' = written
      /\ payload' = Append(payload, b) /\ parsed' = parsed /\ pos' = pos
  BY DEF PutByte
<1>3. payload' \in Seq(Byte) /\ Len(payload') \in Nat
  <2>1. payload \in Seq(Byte)
    BY DEF PayloadInv
  <2> QED BY <1>1, <1>2, <2>1
<1>4. /\ pos' = 0 /\ parsed' = <<>> /\ parsed' \in Seq(FrameRecords) /\ Len(parsed') = 0
  BY <1>2 DEF PayloadInv
<1>5. \A i \in 1..Len(parsed') : WellFormed(parsed'[i]) /\ Bounded(parsed'[i], Len(payload'))
  BY <1>4
<1>6. pos' \in 0..Len(payload')
  BY <1>3, <1>4
<1> QED BY <1>2, <1>3, <1>4, <1>5, <1>6 DEF PayloadInv

\* The payload is padded.
LEMMA PayloadSeal ==
    ASSUME PayloadInv, Seal
    PROVE  PayloadInv'
<1> DEFINE missing == IF foreign \/ Len(payload) >= MinPayload THEN 0 ELSE MinPayload - Len(payload)
           zeros == [i \in 1..missing |-> 0]
           pads == [i \in 1..missing |-> Padding]
<1>1. /\ phase = "Write" /\ phase' = "Read" /\ written' = written \o pads
      /\ payload' = payload \o zeros /\ parsed' = parsed /\ pos' = pos
  BY DEF Seal, Padding
<1>2. payload \in Seq(Byte) /\ Len(payload) \in Nat /\ MinPayload \in Nat
  BY FrameAssumption DEF PayloadInv
<1>3. missing \in Nat
  BY <1>2
<1> HIDE DEF missing
<1>4. 0 \in Byte
  BY ByteNumbers
<1>5. zeros \in Seq(Byte)
  BY <1>3, <1>4
<1>6. Padding \in FrameRecords /\ WellFormed(Padding) /\ Writable(Padding)
  BY PaddingFacts, FrameRecord
<1>7. pads \in Seq(FrameRecords) /\ Len(pads) = missing /\ \A i \in 1..missing : pads[i] = Padding
  BY <1>3, <1>6
<1> HIDE DEF zeros, pads
<1>8. payload' \in Seq(Byte) /\ Len(payload') \in Nat
  BY <1>1, <1>2, <1>5
<1>9. /\ written' \in Seq(FrameRecords)
      /\ \A i \in 1..Len(written') : WellFormed(written'[i]) /\ Writable(written'[i])
  <2> DEFINE n == Len(written)
             w == written'
  <2>1. written \in Seq(FrameRecords) /\ \A i \in 1..n : WellFormed(written[i]) /\ Writable(written[i])
    BY DEF PayloadInv
  <2>2. w = written \o pads
    BY <1>1
  <2> HIDE DEF w
  <2>3. /\ w \in Seq(FrameRecords) /\ Len(w) = n + missing /\ n \in Nat
        /\ \A i \in 1..n : w[i] = written[i]
        /\ \A i \in 1..missing : w[n + i] = pads[i]
    <3>1. /\ w \in Seq(FrameRecords) /\ Len(w) = Len(written) + Len(pads)
          /\ \A i \in 1..Len(written) : w[i] = written[i]
          /\ \A i \in 1..Len(pads) : w[Len(written) + i] = pads[i]
      <4> DEFINE a == written
                 F == FrameRecords
      <4>1. a \in Seq(F) /\ pads \in Seq(F) /\ w = a \o pads
        BY <1>7, <2>1, <2>2
      <4> HIDE DEF a, F
      <4>2. /\ w \in Seq(F) /\ Len(w) = Len(a) + Len(pads)
            /\ \A i \in 1..Len(a) : w[i] = a[i]
            /\ \A i \in 1..Len(pads) : w[Len(a) + i] = pads[i]
        BY <4>1, ConcatElements
      <4> QED BY <4>2 DEF a, F
    <3>2. Len(written) \in Nat
      BY <2>1
    <3> QED BY <1>7, <3>1, <3>2
  <2> HIDE DEF n
  <2>4. \A i \in 1..(n + missing) : i \in 1..n \/ (i - n \in 1..missing /\ n + (i - n) = i)
    BY <1>3, <2>3
  <2>5. ASSUME NEW i \in 1..(n + missing) PROVE WellFormed(w[i]) /\ Writable(w[i])
    <3>1. CASE i \in 1..n
      BY <2>1, <2>3, <3>1 DEF n
    <3>2. CASE i - n \in 1..missing /\ n + (i - n) = i
      <4> DEFINE j == i - n
      <4>1. w[n + j] = pads[j] /\ pads[j] = Padding /\ n + j = i
        BY <1>7, <2>3, <3>2
      <4> HIDE DEF j
      <4> QED BY <1>6, <4>1
    <3> QED BY <2>4, <3>1, <3>2
  <2> QED BY <2>3, <2>5 DEF w
<1>10. /\ pos' = 0 /\ parsed' = <<>> /\ parsed' \in Seq(FrameRecords) /\ Len(parsed') = 0
  BY <1>1 DEF PayloadInv
<1>11. \A i \in 1..Len(parsed') : WellFormed(parsed'[i]) /\ Bounded(parsed'[i], Len(payload'))
  BY <1>10
<1>12. pos' \in 0..Len(payload')
  BY <1>8, <1>10
<1> QED BY <1>1, <1>8, <1>9, <1>10, <1>11, <1>12 DEF PayloadInv

\* What is left are bytes.
LEMMA RemainingFacts ==
    ASSUME PayloadInv
    PROVE  Remaining \in Seq(Byte) /\ Len(Remaining) = Len(payload) - pos
<1>1. payload \in Seq(Byte) /\ pos \in 0..Len(payload)
  BY DEF PayloadInv
<1> QED BY <1>1, Dropped DEF Remaining

\* A frame that was accepted stays as short when it was shorter than a part.
LEMMA BoundedMore ==
    ASSUME NEW f, NEW m \in Nat, NEW n \in Nat, m <= n, Bounded(f, m)
    PROVE  Bounded(f, n)
<1>1. \A x \in 0..m : x \in 0..n
  OBVIOUS
<1> QED BY <1>1 DEF Bounded

\* A frame is read, or the loop ends.
LEMMA PayloadParse ==
    ASSUME PayloadInv, Parse
    PROVE  PayloadInv'
<1>1. phase = "Read" /\ written' = written /\ payload' = payload
  BY DEF Parse
<1>2. /\ payload \in Seq(Byte) /\ pos \in 0..Len(payload) /\ Len(payload) \in Nat
      /\ parsed \in Seq(FrameRecords) /\ Len(parsed) <= pos /\ Len(parsed) \in Nat
      /\ \A i \in 1..Len(parsed) : WellFormed(parsed[i]) /\ Bounded(parsed[i], Len(payload))
  BY DEF PayloadInv
<1>3. CASE UNCHANGED <<parsed, pos>> /\ phase' \in {"Done", "Refused", "Aborted"}
  BY <1>1, <1>3 DEF PayloadInv
<1>4. CASE \E r \in ParseFrame(Remaining) :
               parsed' = Append(parsed, r.frame) /\ pos' = pos + r.len /\ phase' = phase
  <2>1. PICK r \in ParseFrame(Remaining) :
            parsed' = Append(parsed, r.frame) /\ pos' = pos + r.len /\ phase' = phase
    BY <1>4
  <2>2. Remaining \in Seq(Byte) /\ Len(Remaining) = Len(payload) - pos
    BY RemainingFacts
  <2> DEFINE f == r.frame
             l == r.len
             m == Len(Remaining)
             n == Len(parsed)
             s == Len(payload)
  <2>3. l \in 1..m /\ WellFormed(f) /\ Bounded(f, m)
    BY <2>2, ParsedFacts
  <2>4. m = s - pos /\ s \in Nat /\ pos \in 0..s
    BY <1>2, <2>2
  <2>5. f \in FrameRecords
    BY <2>3, FrameRecord
  <2>6. /\ parsed' \in Seq(FrameRecords) /\ Len(parsed') = n + 1 /\ parsed'[n + 1] = f /\ n \in Nat
        /\ \A i \in 1..n : parsed'[i] = parsed[i]
    BY <1>2, <2>1, <2>5
  <2>7. n <= pos /\ pos' = pos + l
    BY <1>2, <2>1
  <2>9. \A i \in 1..n : WellFormed(parsed[i]) /\ Bounded(parsed[i], s)
    BY <1>2
  <2> HIDE DEF f, l, m, n, s
  <2>10. m \in Nat /\ m <= s
    BY <2>4
  <2>11. Bounded(f, s)
    BY <2>3, <2>4, <2>10, BoundedMore
  <2>12. pos' \in 0..s /\ n + 1 <= pos'
    BY <2>3, <2>4, <2>6, <2>7
  <2>13. \A i \in 1..(n + 1) : i \in 1..n \/ i = n + 1
    BY <2>6
  <2>14. \A i \in 1..(n + 1) : WellFormed(parsed'[i]) /\ Bounded(parsed'[i], s)
    BY <2>3, <2>6, <2>9, <2>11, <2>13
  <2>15. Len(payload') = s
    BY <1>1 DEF s
  <2>16. pos' \in 0..Len(payload') /\ Len(parsed') <= pos'
    BY <2>6, <2>12, <2>15
  <2>17. \A i \in 1..Len(parsed') : WellFormed(parsed'[i]) /\ Bounded(parsed'[i], Len(payload'))
    BY <2>6, <2>14, <2>15
  <2>18. /\ written' \in Seq(FrameRecords) /\ payload' \in Seq(Byte)
         /\ \A i \in 1..Len(written') : WellFormed(written'[i]) /\ Writable(written'[i])
    BY <1>1 DEF PayloadInv
  <2>19. phase' = "Read"
    BY <1>1, <2>1
  <2> QED BY <2>6, <2>16, <2>17, <2>18, <2>19 DEF PayloadInv
<1> QED BY <1>3, <1>4 DEF Parse, OnError, Remaining

\* No step of encrypt_packet or of the loop that parses breaks PayloadInv.
LEMMA PayloadStep == PayloadInv /\ [Next]_vars => PayloadInv'
<1> SUFFICES ASSUME PayloadInv, [Next]_vars PROVE PayloadInv'
  OBVIOUS
<1>1. ASSUME NEW f \in Frames, Put(f) PROVE PayloadInv'
  BY <1>1, PayloadPut
<1>2. ASSUME NEW b \in AnyBytes, PutByte(b) PROVE PayloadInv'
  BY <1>2, PayloadPutByte
<1>3. CASE Seal
  BY <1>3, PayloadSeal
<1>4. CASE Parse
  BY <1>4, PayloadParse
<1>5. CASE UNCHANGED vars
  BY <1>5 DEF vars, PayloadInv
<1> QED BY <1>1, <1>2, <1>3, <1>4, <1>5 DEF Next

\* Whatever write_frame wrote or a peer made up, the payload and what parse_frame made
\* of it are as PayloadInv says.
THEOREM PayloadInvariant == Spec => []PayloadInv
  BY PayloadInit, PayloadStep, PTL DEF Spec

\* parse_frame never takes more than there is, and always something, whatever the
\* bytes are: the slices of the loop of the decrypt functions stay in bounds.
THEOREM ConsumesWithinPayloadTheorem == Spec => []ConsumesWithinPayload
<1>1. PayloadInv => ConsumesWithinPayload
  BY DEF PayloadInv, ConsumesWithinPayload
<1> QED BY <1>1, PayloadInvariant, PTL

\* What is below a number that put_varint writes is not too large either.
LEMMA TooLargeMore ==
    ASSUME NEW v \in Nat, NEW w \in Nat, v <= w, ~TooLarge(w)
    PROVE  ~TooLarge(v)
<1> DEFINE S == {k \in Nat : Shift(v, k) <= Shift(w, k)}
<1>1. /\ \A k \in Nat : Shift(v, k) \in Nat /\ Shift(w, k) \in Nat
      /\ Shift(v, 0) = v /\ Shift(w, 0) = w
      /\ \A k \in Nat : Shift(v, k + 1) = Shift(v, k) \div 256 /\ Shift(w, k + 1) = Shift(w, k) \div 256
  <2>1. /\ \A k \in Nat : Shift(v, k) \in Nat
        /\ Shift(v, 0) = v
        /\ \A k \in Nat : Shift(v, k + 1) = Shift(v, k) \div 256
    BY ShiftFacts
  <2>2. /\ \A k \in Nat : Shift(w, k) \in Nat
        /\ Shift(w, 0) = w
        /\ \A k \in Nat : Shift(w, k + 1) = Shift(w, k) \div 256
    BY ShiftFacts
  <2> QED BY <2>1, <2>2
<1>2. \A a, b \in Nat : a <= b => a \div 256 <= b \div 256
  OBVIOUS
<1>3. 0 \in S
  BY <1>1
<1>4. ASSUME NEW k \in Nat, k \in S PROVE k + 1 \in S
  <2> DEFINE a == Shift(v, k)
             b == Shift(w, k)
  <2>1. a \in Nat /\ b \in Nat /\ a <= b
    BY <1>1, <1>4
  <2> HIDE DEF a, b
  <2>2. a \div 256 <= b \div 256
    BY <1>2, <2>1
  <2>3. Shift(v, k + 1) = a \div 256 /\ Shift(w, k + 1) = b \div 256
    BY <1>1 DEF a, b
  <2>4. Shift(v, k + 1) <= Shift(w, k + 1)
    BY <2>2, <2>3
  <2> QED BY <2>4
<1> HIDE DEF S
<1>5. 7 \in S
  <2>1. \A k \in Nat : k \in S
    BY <1>3, <1>4, Induction
  <2> QED BY <2>1
<1>6. Shift(v, 7) <= Shift(w, 7)
  BY <1>5 DEF S
<1>7. Shift(v, 7) \in Nat /\ Shift(w, 7) \in Nat
  BY <1>1
<1> QED BY <1>6, <1>7, ByteFacts DEF TooLarge

\* A frame that was accepted can be written, if it is not too long.
LEMMA AcceptedWritable ==
    ASSUME NEW f, NEW m \in Nat, ~TooLarge(m), WellFormed(f), Bounded(f, m)
    PROVE  Writable(f)
<1>1. \A n \in 0..m : ~TooLarge(n)
  <2> SUFFICES ASSUME NEW n \in 0..m PROVE ~TooLarge(n)
    OBVIOUS
  <2>1. n \in Nat /\ n <= m
    OBVIOUS
  <2> QED BY <2>1, TooLargeMore
<1>2. \A i \in DOMAIN f.ints : ~TooLarge(f.ints[i])
  BY DEF Bounded, Fit
<1>3. \A i \in DOMAIN f.data : ~TooLarge(Len(f.data[i]))
  BY <1>1 DEF Bounded
<1>4. f.kind = "ACK" => ~TooLarge(RangeCount(f))
  BY <1>1 DEF Bounded
<1> QED BY <1>2, <1>3, <1>4 DEF Writable

\* A frame alone is read as it was written.
LEMMA AloneReadsBack ==
    ASSUME NEW f, WellFormed(f), Writable(f)
    PROVE  ParseFrame(WriteFrame(f)) = {[frame |-> f, len |-> Len(WriteFrame(f))]}
<1> DEFINE none == <<>>
           w == WriteFrame(f)
<1>1. none \in Seq(Byte)
  OBVIOUS
<1>2. w \in Seq(Byte)
  BY WrittenBytes
<1>3. w \o none = w
  BY <1>2
<1>4. CASE ~EmptyStream(f)
  <2>1. ParseFrame(WriteFrame(f) \o none) = {[frame |-> f, len |-> Len(WriteFrame(f))]}
    BY <1>1, <1>4, FrameReadsBack
  <2> QED BY <1>3, <2>1
<1>5. CASE EmptyStream(f)
  <2>1. ParseFrame(WriteFrame(f) \o none) =
            {[frame |-> Frame(f.kind, f.ints, <<none>>, f.bit), len |-> Len(WriteFrame(f) \o none)]}
    BY <1>1, <1>5, EmptyStreamSwallows
  <2>2. f.data = <<none>>
    <3>1. f.kind = "STREAM" /\ f.data[1] = none
      BY <1>5 DEF EmptyStream
    <3>2. f.data = <<f.data[1]>>
      BY <3>1, StreamBody
    <3> QED BY <3>1, <3>2
  <2>3. Frame(f.kind, f.ints, <<none>>, f.bit) = f
    BY <2>2, FrameOfParts
  <2> HIDE DEF none, w
  <2> QED BY <1>3, <2>1, <2>3 DEF w
<1> QED BY <1>4, <1>5

\* A frame that parse_frame accepts, from any bytes and with any encoding of its
\* integers, is one write_frame can write such that it is read the same. (Nothing
\* can write a frame of more bytes than a variable-length integer counts; a payload
\* is never that long.)
THEOREM AcceptedCanBeWrittenTheorem == Spec => [](~TooLarge(Len(payload)) => AcceptedCanBeWritten)
<1>1. PayloadInv => (~TooLarge(Len(payload)) => AcceptedCanBeWritten)
  <2> SUFFICES ASSUME PayloadInv, ~TooLarge(Len(payload)), NEW i \in 1..Len(parsed)
               PROVE  ParseFrame(WriteFrame(parsed[i])) =
                          {[frame |-> parsed[i], len |-> Len(WriteFrame(parsed[i]))]}
    BY DEF AcceptedCanBeWritten
  <2> DEFINE f == parsed[i]
             m == Len(payload)
  <2>1. WellFormed(f) /\ Bounded(f, m) /\ m \in Nat /\ ~TooLarge(m)
    BY DEF PayloadInv
  <2> HIDE DEF f, m
  <2>2. Writable(f)
    BY <2>1, AcceptedWritable
  <2>3. ParseFrame(WriteFrame(f)) = {[frame |-> f, len |-> Len(WriteFrame(f))]}
    BY <2>1, <2>2, AloneReadsBack
  <2> QED BY <2>3 DEF f
<1> QED BY <1>1, PayloadInvariant, PTL

-----------------------------------------------------------------------------
(* What was put into a payload comes out of it.                            *)

\* These bytes are these frames, one after the other: rests[i] is what is left
\* after i of them.
Laid(fs, bytes, rests) ==
    /\ rests[0] = bytes /\ rests[Len(fs)] = <<>>
    /\ \A i \in 0..Len(fs) : rests[i] \in Seq(Byte)
    /\ \A i \in 1..Len(fs) : rests[i - 1] = WriteFrame(fs[i]) \o rests[i]

\* These bytes are these frames.
IsLaid(fs, bytes) == \E rests : Laid(fs, bytes, rests)

\* No frames.
LEMMA LaidNothing == IsLaid(<<>>, <<>>)
<1> DEFINE rests == [i \in 0..0 |-> <<>>]
           none == <<>>
<1>1. Len(none) = 0 /\ none \in Seq(Byte)
  OBVIOUS
<1>2. rests[0] = none
  OBVIOUS
<1>3. \A i \in 0..0 : i = 0
  OBVIOUS
<1>4. \A i \in 1..0 : FALSE
  OBVIOUS
<1> HIDE DEF rests, none
<1>5. Laid(none, none, rests)
  BY <1>1, <1>2, <1>3, <1>4 DEF Laid, none
<1>6. IsLaid(none, none)
  BY <1>5 DEF IsLaid
<1> QED BY <1>6 DEF none

\* One frame.
LEMMA LaidOne ==
    ASSUME NEW f, WriteFrame(f) \in Seq(Byte)
    PROVE  IsLaid(<<f>>, WriteFrame(f))
<1> DEFINE w == WriteFrame(f)
           none == <<>>
           rests == [i \in 0..1 |-> IF i = 0 THEN w ELSE none]
           fs == <<f>>
<1>1. Len(fs) = 1 /\ fs[1] = f /\ none \in Seq(Byte) /\ w \in Seq(Byte) /\ w \o none = w
  OBVIOUS
<1> HIDE DEF w, none, fs
<1>2. rests[0] = w /\ rests[1] = none
  OBVIOUS
<1>3. \A i \in 0..1 : i = 0 \/ i = 1
  OBVIOUS
<1> HIDE DEF rests
<1>4. Laid(fs, w, rests)
  <2>1. rests[0] = w /\ rests[Len(fs)] = <<>>
    BY <1>1, <1>2 DEF none
  <2>2. \A i \in 0..Len(fs) : rests[i] \in Seq(Byte)
    BY <1>1, <1>2, <1>3
  <2>3. \A i \in 1..Len(fs) : rests[i - 1] = WriteFrame(fs[i]) \o rests[i]
    <3> SUFFICES ASSUME NEW i \in 1..Len(fs) PROVE rests[i - 1] = WriteFrame(fs[i]) \o rests[i]
      OBVIOUS
    <3>1. i = 1 /\ i - 1 = 0
      BY <1>1
    <3>2. WriteFrame(fs[i]) = w
      BY <1>1, <3>1 DEF w
    <3> QED BY <1>1, <1>2, <3>1, <3>2
  <2> QED BY <2>1, <2>2, <2>3 DEF Laid
<1>5. IsLaid(fs, w)
  BY <1>4 DEF IsLaid
<1> QED BY <1>5 DEF fs, w

\* Padding.
LEMMA LaidPadding ==
    ASSUME NEW m \in Nat
    PROVE  IsLaid([i \in 1..m |-> Padding], [i \in 1..m |-> 0])
<1> DEFINE pads == [i \in 1..m |-> Padding]
           rests == [i \in 0..m |-> [j \in 1..(m - i) |-> 0]]
           zeros == [i \in 1..m |-> 0]
<1>1. Len(pads) = m /\ \A i \in 1..m : pads[i] = Padding
  OBVIOUS
<1>2. rests[0] = zeros
  <2>1. 0 \in 0..m /\ m - 0 = m
    OBVIOUS
  <2> QED BY <2>1
<1>3. rests[m] = <<>>
  <2>1. m \in 0..m /\ m - m = 0
    OBVIOUS
  <2>2. rests[m] = [j \in 1..0 |-> 0]
    BY <2>1
  <2>3. [j \in 1..0 |-> 0] = <<>>
    OBVIOUS
  <2> QED BY <2>2, <2>3
<1>4. ASSUME NEW n \in Nat PROVE [j \in 1..n |-> 0] \in Seq(Byte)
  <2>1. 0 \in Byte
    BY ByteNumbers
  <2> QED BY <2>1
<1>5. \A i \in 0..m : rests[i] \in Seq(Byte)
  <2> SUFFICES ASSUME NEW i \in 0..m PROVE rests[i] \in Seq(Byte)
    OBVIOUS
  <2> DEFINE n == m - i
  <2>1. n \in Nat /\ rests[i] = [j \in 1..n |-> 0]
    OBVIOUS
  <2> HIDE DEF n, rests
  <2> QED BY <1>4, <2>1
<1>6. ASSUME NEW n \in Nat PROVE [j \in 1..(n + 1) |-> 0] = <<0>> \o [j \in 1..n |-> 0]
  <2> DEFINE a == [j \in 1..(n + 1) |-> 0]
             z == [j \in 1..n |-> 0]
             b == <<0>> \o z
  <2>1. a \in Seq(Nat) /\ Len(a) = n + 1 /\ \A i \in 1..(n + 1) : a[i] = 0
    OBVIOUS
  <2>2. z \in Seq(Nat) /\ Len(z) = n /\ \A i \in 1..n : z[i] = 0
    OBVIOUS
  <2>3. <<0>> \in Seq(Nat) /\ Len(<<0>>) = 1 /\ <<0>>[1] = 0
    OBVIOUS
  <2> DEFINE o == <<0>>
  <2>4. o \in Seq(Nat) /\ Len(o) = 1 /\ o[1] = 0 /\ b = o \o z
    BY <2>3
  <2> HIDE DEF a, z, b, o
  <2>5. /\ b \in Seq(Nat) /\ Len(b) = Len(o) + Len(z)
        /\ \A i \in 1..Len(o) : b[i] = o[i]
        /\ \A i \in 1..Len(z) : b[Len(o) + i] = z[i]
    <3>1. o \in Seq(Nat) /\ z \in Seq(Nat) /\ b = o \o z
      BY <2>2, <2>4
    <3> QED BY <3>1, ConcatElements
  <2>6. Len(b) = n + 1
    BY <2>2, <2>4, <2>5
  <2>7. \A i \in 1..(n + 1) : i = 1 \/ (i - 1 \in 1..n /\ 1 + (i - 1) = i)
    OBVIOUS
  <2>8. \A i \in 1..(n + 1) : b[i] = 0
    <3> SUFFICES ASSUME NEW i \in 1..(n + 1) PROVE b[i] = 0
      OBVIOUS
    <3>1. CASE i = 1
      BY <2>4, <2>5, <3>1
    <3>2. CASE i - 1 \in 1..n /\ 1 + (i - 1) = i
      <4> DEFINE j == i - 1
      <4>1. j \in 1..n /\ 1 + j = i
        BY <3>2
      <4> HIDE DEF j
      <4>2. b[1 + j] = z[j] /\ z[j] = 0
        BY <2>2, <2>4, <2>5, <4>1
      <4> QED BY <4>1, <4>2
    <3> QED BY <2>7, <3>1, <3>2
  <2>9. a = b
    BY <2>1, <2>5, <2>6, <2>8, SeqEqual
  <2> QED BY <2>9 DEF a, b, z
<1>7. \A i \in 1..m : rests[i - 1] = WriteFrame(pads[i]) \o rests[i]
  <2> SUFFICES ASSUME NEW i \in 1..m PROVE rests[i - 1] = WriteFrame(pads[i]) \o rests[i]
    OBVIOUS
  <2> DEFINE n == m - i
  <2>1. n \in Nat /\ m - (i - 1) = n + 1 /\ i \in 0..m /\ i - 1 \in 0..m
    OBVIOUS
  <2>2. rests[i] = [j \in 1..n |-> 0] /\ rests[i - 1] = [j \in 1..(n + 1) |-> 0]
    BY <2>1
  <2>3. WriteFrame(pads[i]) = <<0>>
    BY <1>1, PaddingFacts
  <2> HIDE DEF n, rests
  <2>4. [j \in 1..(n + 1) |-> 0] = <<0>> \o [j \in 1..n |-> 0]
    BY <1>6, <2>1
  <2> QED BY <2>2, <2>3, <2>4
<1> HIDE DEF pads, rests, zeros
<1>8. Laid(pads, zeros, rests)
  BY <1>1, <1>2, <1>3, <1>5, <1>7 DEF Laid
<1>9. IsLaid(pads, zeros)
  BY <1>8 DEF IsLaid
<1> QED BY <1>9 DEF pads, zeros

\* More frames.
LEMMA LaidMore ==
    ASSUME NEW S, NEW fs \in Seq(S), NEW gs \in Seq(S), NEW b \in Seq(Byte), NEW c \in Seq(Byte),
           IsLaid(fs, b), IsLaid(gs, c),
           \A i \in 1..Len(fs) : WriteFrame(fs[i]) \in Seq(Byte)
    PROVE  IsLaid(fs \o gs, b \o c)
<1> DEFINE n == Len(fs)
           m == Len(gs)
           hs == fs \o gs
<1>1. PICK p : Laid(fs, b, p)
  BY DEF IsLaid
<1>2. PICK q : Laid(gs, c, q)
  BY DEF IsLaid
<1>3. n \in Nat /\ m \in Nat
  OBVIOUS
<1>4. /\ hs \in Seq(S) /\ Len(hs) = n + m
      /\ \A i \in 1..n : hs[i] = fs[i]
      /\ \A i \in 1..m : hs[n + i] = gs[i]
  BY ConcatElements
<1>5. /\ p[0] = b /\ p[n] = <<>>
      /\ \A i \in 0..n : p[i] \in Seq(Byte)
      /\ \A i \in 1..n : p[i - 1] = WriteFrame(fs[i]) \o p[i]
  BY <1>1 DEF Laid
<1>6. /\ q[0] = c /\ q[m] = <<>>
      /\ \A i \in 0..m : q[i] \in Seq(Byte)
      /\ \A i \in 1..m : q[i - 1] = WriteFrame(gs[i]) \o q[i]
  BY <1>2 DEF Laid
<1>7. \A i \in 1..n : WriteFrame(fs[i]) \in Seq(Byte)
  OBVIOUS
<1> HIDE DEF n, m, hs
<1> DEFINE r == [i \in 0..(n + m) |-> IF i <= n THEN p[i] \o c ELSE q[i - n]]
<1>8. p[n] \o c = q[0]
  <2>1. <<>> \o c = c
    OBVIOUS
  <2> QED BY <1>5, <1>6, <2>1
<1>9. /\ \A i \in 0..n : r[i] = p[i] \o c
      /\ \A i \in 0..m : r[n + i] = q[i]
  <2>1. \A i \in 0..n : r[i] = p[i] \o c
    BY <1>3
  <2>2. ASSUME NEW i \in 0..m PROVE r[n + i] = q[i]
    <3>1. CASE i = 0
      <4>1. n + i = n /\ n \in 0..n
        BY <1>3, <3>1
      <4> HIDE DEF r
      <4> QED BY <1>8, <2>1, <3>1, <4>1
    <3>2. CASE i # 0
      <4>1. n + i \in 0..(n + m) /\ ~(n + i <= n) /\ (n + i) - n = i
        BY <1>3, <3>2
      <4> QED BY <4>1
    <3> QED BY <3>1, <3>2
  <2> HIDE DEF r
  <2> QED BY <2>1, <2>2
<1> HIDE DEF r
<1>10. \A i \in 0..(n + m) : i \in 0..n \/ (i - n \in 0..m /\ n + (i - n) = i)
  BY <1>3
<1>11. \A i \in 1..(n + m) : i \in 1..n \/ (i - n \in 1..m /\ n + (i - n) = i)
  BY <1>3
<1>12. \A i \in 0..(n + m) : r[i] \in Seq(Byte)
  <2> SUFFICES ASSUME NEW i \in 0..(n + m) PROVE r[i] \in Seq(Byte)
    OBVIOUS
  <2>1. CASE i \in 0..n
    <3>1. r[i] = p[i] \o c /\ p[i] \in Seq(Byte)
      BY <1>5, <1>9, <2>1
    <3> QED BY <3>1, BytesConcat
  <2>2. CASE i - n \in 0..m /\ n + (i - n) = i
    <3> DEFINE j == i - n
    <3>1. j \in 0..m /\ n + j = i
      BY <2>2
    <3> HIDE DEF j
    <3> QED BY <1>6, <1>9, <3>1
  <2> QED BY <1>10, <2>1, <2>2
<1>13. \A i \in 1..(n + m) : r[i - 1] = WriteFrame(hs[i]) \o r[i]
  <2> SUFFICES ASSUME NEW i \in 1..(n + m) PROVE r[i - 1] = WriteFrame(hs[i]) \o r[i]
    OBVIOUS
  <2>1. CASE i \in 1..n
    <3>1. i \in 0..n /\ i - 1 \in 0..n
      BY <1>3, <2>1
    <3>2. r[i] = p[i] \o c /\ r[i - 1] = p[i - 1] \o c
      BY <1>9, <3>1
    <3>3. p[i - 1] = WriteFrame(fs[i]) \o p[i] /\ p[i] \in Seq(Byte) /\ WriteFrame(fs[i]) \in Seq(Byte)
      BY <1>5, <1>7, <2>1, <3>1
    <3> DEFINE w == WriteFrame(fs[i])
               x == p[i]
    <3>4. w \in Seq(Byte) /\ x \in Seq(Byte)
      BY <3>3
    <3> HIDE DEF w, x
    <3>5. Associates(w, x, c)
      BY <3>4, BytesAssociate
    <3>6. hs[i] = fs[i]
      BY <1>4, <2>1
    <3> QED BY <3>2, <3>3, <3>5, <3>6 DEF Associates, w, x
  <2>2. CASE i - n \in 1..m /\ n + (i - n) = i
    <3> DEFINE j == i - n
    <3>1. j \in 1..m /\ n + j = i /\ j \in 0..m /\ j - 1 \in 0..m /\ n + (j - 1) = i - 1
      BY <1>3, <2>2
    <3> HIDE DEF j
    <3> DEFINE l == j - 1
    <3>2. l \in 0..m /\ n + l = i - 1 /\ q[l] = WriteFrame(gs[j]) \o q[j]
      BY <1>6, <3>1
    <3> HIDE DEF l
    <3>3. r[n + j] = q[j] /\ r[n + l] = q[l] /\ hs[n + j] = gs[j]
      BY <1>4, <1>9, <3>1, <3>2
    <3>4. r[i] = q[j] /\ r[i - 1] = q[l] /\ hs[i] = gs[j]
      BY <3>1, <3>2, <3>3
    <3> QED BY <3>2, <3>4
  <2> QED BY <1>11, <2>1, <2>2
<1>14. r[0] = b \o c /\ r[n + m] = <<>>
  <2>1. 0 \in 0..n /\ m \in 0..m
    BY <1>3
  <2>2. r[0] = p[0] \o c /\ r[n + m] = q[m]
    BY <1>9, <2>1
  <2> QED BY <1>5, <1>6, <2>2
<1>15. Laid(hs, b \o c, r)
  BY <1>4, <1>12, <1>13, <1>14 DEF Laid
<1>16. IsLaid(hs, b \o c)
  BY <1>15 DEF IsLaid
<1> QED BY <1>16 DEF hs

-----------------------------------------------------------------------------
(* There is memory for the ranges of the frames that are written.          *)

\* An ACK frame has no more ranges than there is memory for.
FewRanges(f) == f.kind = "ACK" => RangeCount(f) <= Memory

\* So have all that were put into the payload.
RangesInv == \A i \in 1..Len(written) : FewRanges(written[i])

\* s are the first four integers of the frame, as parse_frame reads them: the third
\* is the number of its ranges.
StartsWith(f, rest, s) ==
    /\ s[3] = RangeCount(f)
    /\ \E after : ReadInts(Reader(Body(f) \o rest, <<>>, <<>>), 4) = {Reader(after, s, <<>>)}

\* An ACK frame is written with its largest number, its delay, the number of its
\* ranges, and the first range.
LEMMA AckStart ==
    ASSUME NEW f, WellFormed(f), Writable(f), f.kind = "ACK", NEW rest \in Seq(Byte)
    PROVE  \E s : StartsWith(f, rest, s)
<1> DEFINE s == f.ints
           k == RangeCount(f)
           z == SubSeq(s, 3, Len(s))
<1>1. s \in Seq(Fit)
  BY FrameParts
<1>2. Len(s) >= 3 /\ Len(s) \in Nat
  <2>1. PICK n \in 0..Len(s) : Len(s) = 3 + 2 * n + (IF f.bit THEN 3 ELSE 0)
    BY DEF WellFormed
  <2> QED BY <1>1, <2>1
<1>3. k \in Fit
  <2>1. ~TooLarge(k) /\ k \in Nat
    <3>1. PICK n \in 0..Len(s) : Len(s) = 3 + 2 * n + (IF f.bit THEN 3 ELSE 0)
      BY DEF WellFormed
    <3>2. Len(s) - 3 - (IF f.bit THEN 3 ELSE 0) = 2 * n /\ (2 * n) \div 2 = n
      BY <1>1, <3>1
    <3>3. k = n
      BY <3>2 DEF RangeCount
    <3> QED BY <3>3 DEF Writable
  <2> HIDE DEF k
  <2> QED BY <2>1 DEF Fit
<1>4. Body(f) = WriteInts(SubSeq(s, 1, 2)) \o Encode(k) \o WriteInts(z)
  BY Zenon DEF Body
<1> HIDE DEF s, k
<1>5. PICK a, c, t \in Seq(Fit) : /\ a = SubSeq(s, 1, 2) /\ Len(a) = 2 /\ Len(c) = 1
                                  /\ z = c \o t
  <2>1. 3 \in 1..Len(s) /\ 3 \in 0..Len(s) /\ 3 - 1 <= 3 /\ 3 - 1 = 2 /\ 3 - 3 + 1 = 1
    BY <1>2
  <2>2. PICK a, c, t \in Seq(Fit) :
            /\ a = SubSeq(s, 1, 3 - 1) /\ Len(a) = 3 - 1
            /\ Len(c) = 3 - 3 + 1 /\ Len(t) = Len(s) - 3
            /\ SubSeq(s, 3, Len(s)) = c \o t /\ s = (a \o c) \o t
    BY <1>1, <2>1, IntsInThree
  <2> QED BY <2>1, <2>2
<1> HIDE DEF z
<1> DEFINE ak == Append(a, k)
           q == ak \o c
<1>6. ak \in Seq(Fit) /\ WriteInts(ak) = WriteInts(a) \o Encode(k)
  <2>1. a \in Seq(Fit) /\ k \in Fit
    BY <1>3, <1>5
  <2>2. ak \in Seq(Fit)
    BY <2>1
  <2>3. WriteInts(Append(a, k)) = WriteInts(a) \o Encode(k)
    BY <2>1, WriteIntsNext
  <2> QED BY <2>2, <2>3
<1>7. Len(ak) = 3 /\ ak[3] = k
  <2>1. Len(ak) = Len(a) + 1 /\ ak[Len(a) + 1] = k
    BY <1>3, <1>5
  <2>2. Len(a) + 1 = 3
    BY <1>5
  <2> HIDE DEF ak
  <2> QED BY <2>1, <2>2
<1>8. Len(c) = 1
  BY <1>5
<1> HIDE DEF ak
<1>9. q \in Seq(Fit) /\ Len(q) = 4 /\ q[3] = k
  <2>0. ak \in Seq(Fit) /\ c \in Seq(Fit) /\ q = ak \o c
    BY <1>5, <1>6
  <2> HIDE DEF q
  <2>1. /\ q \in Seq(Fit) /\ Len(q) = Len(ak) + Len(c)
        /\ \A i \in 1..Len(ak) : q[i] = ak[i]
    BY <2>0, ConcatElements
  <2>2. Len(ak) + Len(c) = 4 /\ 3 \in 1..Len(ak)
    BY <1>7, <1>8
  <2> QED BY <1>7, <2>1, <2>2
<1>10. WriteInts(q) = WriteInts(ak) \o WriteInts(c) /\ WriteInts(z) = WriteInts(c) \o WriteInts(t)
  BY <1>5, <1>6, WriteIntsConcat
<1> HIDE DEF q
<1> DEFINE W == WriteInts(ak)
           X == WriteInts(c)
           Y == WriteInts(t)
           WX == W \o X
<1>11. W \in Seq(Byte) /\ X \in Seq(Byte) /\ Y \in Seq(Byte)
  BY <1>5, <1>6, WriteIntsNext
<1>12. Body(f) = W \o (X \o Y) /\ WriteInts(q) = WX
  <2>1. Body(f) = WriteInts(ak) \o WriteInts(z)
    BY <1>4, <1>5, <1>6
  <2> QED BY <1>10, <2>1
<1> HIDE DEF W, X, Y
<1>13. WX \in Seq(Byte) /\ Y \o rest \in Seq(Byte)
  BY <1>11, BytesConcat
<1>14. Associates(W, X, Y)
  BY <1>11, BytesAssociate
<1>15. Body(f) = WX \o Y
  BY <1>12, <1>14 DEF Associates
<1> HIDE DEF WX
<1>16. Associates(WX, Y, rest)
  BY <1>11, <1>13, BytesAssociate
<1>17. Body(f) \o rest = WriteInts(q) \o (Y \o rest)
  BY <1>12, <1>15, <1>16 DEF Associates
<1> DEFINE after == Y \o rest
           none == <<>>
<1>18. after \in Seq(Byte) /\ none \in Seq(Fit) /\ none \in Seq(Seq(Byte)) /\ none \o q = q
  BY <1>9, <1>13
<1> HIDE DEF after, none
<1>19. IntsRead(q, Len(q), after, none, none)
  BY <1>9, <1>18, IntsReadBack
<1>20. ReadInts(Reader(WriteInts(q) \o after, none, none), 4) = {Reader(after, q, none)}
  BY <1>9, <1>18, <1>19 DEF IntsRead
<1>21. StartsWith(f, rest, q)
  BY <1>9, <1>17, <1>20 DEF StartsWith, after, none, k
<1> QED BY <1>21

\* A frame with few ranges does not end the receiver, whatever follows it.
LEMMA WrittenIsHeld ==
    ASSUME NEW f, WellFormed(f), Writable(f), FewRanges(f), NEW rest \in Seq(Byte)
    PROVE  ~TooManyRanges(WriteFrame(f) \o rest)
<1> DEFINE t == TypeFor(f)
           b == Body(f)
           w == WriteFrame(f)
           tail == b \o rest
           buf == w \o rest
<1>1. t \in 0..MaxType /\ KindOf(t) = f.kind
  BY TypeForFacts
<1>2. b \in Seq(Byte)
  BY BodyReads, BodySwallows
<1>3. w = <<t>> \o b
  BY DEF WriteFrame, Body
<1> HIDE DEF t, b, w
<1>4. tail \in Seq(Byte) /\ <<t>> \in Seq(Byte)
  BY <1>1, <1>2, TypeReadsBack, BytesConcat
<1>5. buf = <<t>> \o tail
  BY <1>2, <1>3, <1>4, BytesConcat
<1> HIDE DEF tail, buf
<1>6. TypeOf(buf) = {t} /\ Tail(buf) = tail
  BY <1>1, <1>4, <1>5, TypeReadsBack
<1> SUFFICES ASSUME TooManyRanges(buf) PROVE FALSE
  BY DEF buf, w
<1>7. t \in {2, 3}
  BY <1>6 DEF TooManyRanges
<1>8. f.kind = "ACK"
  BY <1>1, <1>7, KindTable
<1>9. PICK r \in ReadInts(Reader(tail, <<>>, <<>>), 4) : r.ints[3] > Memory
  BY <1>6 DEF TooManyRanges
<1>10. PICK s : StartsWith(f, rest, s)
  BY <1>8, AckStart
<1>11. r.ints = s
  <2>1. PICK after : ReadInts(Reader(tail, <<>>, <<>>), 4) = {Reader(after, s, <<>>)}
    BY <1>10 DEF StartsWith, tail, b
  <2> QED BY <1>9, <2>1 DEF Reader
<1>12. RangeCount(f) > Memory /\ RangeCount(f) <= Memory
  BY <1>8, <1>9, <1>10, <1>11 DEF StartsWith, FewRanges
<1>13. RangeCount(f) \in Int /\ Memory \in Int
  <2>1. f.ints \in Seq(Fit)
    BY FrameParts
  <2> QED BY <2>1, FrameAssumption DEF RangeCount
<1> QED BY <1>12, <1>13

\* No step breaks RangesInv.
LEMMA RangesStep == PayloadInv /\ RangesInv /\ [Next]_vars => RangesInv'
<1> SUFFICES ASSUME PayloadInv, RangesInv, [Next]_vars PROVE RangesInv'
  OBVIOUS
<1> DEFINE a == written
           F == FrameRecords
<1>0. a \in Seq(F)
  BY DEF PayloadInv
<1>1. ASSUME NEW f \in Frames, Put(f) PROVE RangesInv'
  <2>1. written' = Append(a, f) /\ FewRanges(f) /\ \A i \in 1..Len(a) : FewRanges(a[i])
    BY <1>1, RangesAssumption DEF Put, FewRanges, RangesInv
  <2>2. WellFormed(f)
    BY WellFormedAssumption
  <2>3. f \in F
    BY <2>2, FrameRecord
  <2> HIDE DEF a, F
  <2>4. /\ Len(Append(a, f)) = Len(a) + 1 /\ Append(a, f)[Len(a) + 1] = f /\ Len(a) \in Nat
        /\ \A i \in 1..Len(a) : Append(a, f)[i] = a[i]
    BY <1>0, <2>3
  <2>5. \A i \in 1..(Len(a) + 1) : i \in 1..Len(a) \/ i = Len(a) + 1
    BY <2>4
  <2>6. \A i \in 1..Len(written') : FewRanges(written'[i])
    BY <2>1, <2>4, <2>5
  <2> QED BY <2>6 DEF RangesInv, FewRanges
<1>2. CASE Seal
  <2> DEFINE missing == IF foreign \/ Len(payload) >= MinPayload THEN 0 ELSE MinPayload - Len(payload)
             pads == [i \in 1..missing |-> Padding]
             w == a \o pads
  <2>1. written' = w
    BY <1>2 DEF Seal, Padding
  <2>2. missing \in Nat
    <3>1. Len(payload) \in Nat /\ MinPayload \in Nat
      BY FrameAssumption DEF PayloadInv
    <3> QED BY <3>1
  <2> HIDE DEF missing
  <2>3. Padding \in F /\ FewRanges(Padding)
    <3>1. Padding.kind = "PADDING"
      BY DEF Padding, Frame
    <3> QED BY <3>1, PaddingFacts, FrameRecord DEF FewRanges
  <2>4. pads \in Seq(F) /\ Len(pads) = missing /\ \A i \in 1..missing : pads[i] = Padding
    BY <2>2, <2>3
  <2>5. \A i \in 1..Len(a) : FewRanges(a[i])
    BY DEF RangesInv
  <2> HIDE DEF pads, a, F
  <2>6. /\ w \in Seq(F) /\ Len(w) = Len(a) + Len(pads) /\ Len(a) \in Nat
        /\ \A i \in 1..Len(a) : w[i] = a[i]
        /\ \A i \in 1..Len(pads) : w[Len(a) + i] = pads[i]
    BY <1>0, <2>4, ConcatElements
  <2> HIDE DEF w
  <2>7. ASSUME NEW i \in 1..Len(w) PROVE FewRanges(w[i])
    <3>1. CASE i \in 1..Len(a)
      BY <2>5, <2>6, <3>1
    <3>2. CASE i \notin 1..Len(a)
      <4> DEFINE j == i - Len(a)
      <4>1. j \in 1..Len(pads) /\ Len(a) + j = i
        BY <2>2, <2>4, <2>6, <3>2
      <4> HIDE DEF j
      <4>2. w[i] = Padding
        BY <2>4, <2>6, <4>1
      <4> QED BY <2>3, <4>2
    <3> QED BY <3>1, <3>2
  <2>8. \A i \in 1..Len(written') : FewRanges(written'[i])
    BY <2>1, <2>7
  <2> QED BY <2>8 DEF RangesInv, FewRanges
<1>3. CASE \E b \in AnyBytes : PutByte(b)
  BY <1>3 DEF PutByte, RangesInv, FewRanges
<1>4. CASE Parse
  BY <1>4 DEF Parse, RangesInv, FewRanges
<1>5. CASE UNCHANGED vars
  BY <1>5 DEF vars, RangesInv, FewRanges
<1> QED BY <1>1, <1>2, <1>3, <1>4, <1>5 DEF Next

\* The frames of a payload have no more ranges than there is memory for.
LEMMA RangesInvariant == Spec => []RangesInv
<1>1. Init => RangesInv
  BY DEF Init, RangesInv
<1> QED BY <1>1, PayloadInvariant, RangesStep, PTL DEF Spec

-----------------------------------------------------------------------------
(* What is read of the frames that were written.                           *)

\* The frames read so far are those that were written, none of them but the last
\* is a STREAM frame without data, and what is left is what comes after them.
OnTrack(rests) ==
    /\ Laid(written, payload, rests)
    /\ Len(parsed) <= Len(written)
    /\ \A i \in 1..Len(parsed) : parsed[i] = written[i]
    /\ \A i \in 1..Len(parsed) : i < Len(written) => ~EmptyStream(written[i])
    /\ Remaining = rests[Len(parsed)]

\* A STREAM frame without data has taken all that came after it.
Swallowed ==
    /\ Remaining = <<>>
    /\ \E i \in 1..Len(parsed) :
           i < Len(written) /\ EmptyStream(written[i]) /\ parsed[i] # written[i]

\* Some of the frames that were written have been read, or swallowed.
Reading == Swallowed \/ \E rests : OnTrack(rests)

\* A payload that write_frame wrote is the frames put into it, none of it is refused,
\* and the loop ends only when nothing is left.
ReadBackInv ==
    ~foreign =>
        /\ IsLaid(written, payload)
        /\ phase # "Write" => Reading
        /\ phase \notin {"Refused", "Aborted"}
        /\ phase = "Done" => Remaining = <<>>

\* It holds of an empty payload.
LEMMA ReadBackInit == Init => ReadBackInv
<1> SUFFICES ASSUME Init PROVE ReadBackInv
  OBVIOUS
<1>1. written = <<>> /\ payload = <<>> /\ phase = "Write"
  BY DEF Init
<1>2. IsLaid(written, payload)
  BY <1>1, LaidNothing
<1> QED BY <1>1, <1>2 DEF ReadBackInv

\* A frame is put into the payload.
LEMMA ReadBackPut ==
    ASSUME PayloadInv, ReadBackInv, NEW f \in Frames, Put(f)
    PROVE  ReadBackInv'
<1>1. WellFormed(f) /\ Writable(f)
  BY WellFormedAssumption DEF Put
<1> DEFINE w == WriteFrame(f)
           c == payload
           fs == written
           gs == <<f>>
           F == FrameRecords
<1>2. w \in Seq(Byte) /\ f \in F
  BY <1>1, WrittenBytes, FrameRecord
<1>3. c \in Seq(Byte) /\ fs \in Seq(F) /\ \A i \in 1..Len(fs) : WriteFrame(fs[i]) \in Seq(Byte)
  <2>1. \A i \in 1..Len(written) : WellFormed(written[i]) /\ Writable(written[i])
    BY DEF PayloadInv
  <2>2. \A i \in 1..Len(written) : WriteFrame(written[i]) \in Seq(Byte)
    BY <2>1, WrittenBytes
  <2> QED BY <2>2 DEF PayloadInv
<1>4. ~foreign /\ phase = "Write" /\ phase' = phase /\ written' = Append(fs, f) /\ payload' = c \o w
  BY DEF Put
<1>5. IsLaid(fs, c)
  BY <1>4 DEF ReadBackInv
<1>6. IsLaid(gs, w)
  BY <1>2, LaidOne
<1> HIDE DEF w, c, fs, F
<1>7. gs \in Seq(F) /\ Append(fs, f) = fs \o gs
  BY <1>2, <1>3
<1> HIDE DEF gs
<1>8. IsLaid(fs \o gs, c \o w)
  BY <1>2, <1>3, <1>5, <1>6, <1>7, LaidMore
<1>9. IsLaid(written', payload')
  BY <1>4, <1>7, <1>8
<1> QED BY <1>4, <1>9 DEF ReadBackInv

\* Nothing has been read of a payload that was just finished.
LEMMA ReadingStarts ==
    ASSUME NEW fs, NEW bytes \in Seq(Byte), Len(fs) \in Nat, IsLaid(fs, bytes),
           written' = fs, payload' = bytes, pos' = 0, parsed' = <<>>
    PROVE  Reading'
<1>1. PICK rests : Laid(fs, bytes, rests)
  BY DEF IsLaid
<1>2. SubSeq(bytes, 0 + 1, Len(bytes)) = bytes
  OBVIOUS
<1>3. Len(parsed') = 0 /\ \A i \in 1..Len(parsed') : FALSE
  <2>1. Len(<<>>) = 0 /\ \A i \in 1..0 : FALSE
    OBVIOUS
  <2> QED BY <2>1
<1>4. Remaining' = rests[Len(parsed')]
  <2>1. Remaining' = SubSeq(bytes, 0 + 1, Len(bytes))
    BY DEF Remaining
  <2>2. rests[0] = bytes
    BY <1>1 DEF Laid
  <2> QED BY <1>2, <1>3, <2>1, <2>2
<1>5. Len(parsed') <= Len(written')
  BY <1>3
<1>6. Laid(written', payload', rests)
  BY <1>1
<1>7. Laid(written, payload, rests)'
  BY <1>6
<1>8. OnTrack(rests)'
  BY <1>3, <1>4, <1>5, <1>7 DEF OnTrack
<1> QED BY <1>8 DEF Reading

\* What is left of what is left.
LEMMA DropMore ==
    ASSUME NEW S, NEW s \in Seq(S), NEW n \in 0..Len(s), NEW t, t = SubSeq(s, n + 1, Len(s)),
           NEW m \in 0..Len(t)
    PROVE  SubSeq(s, (n + m) + 1, Len(s)) = SubSeq(t, m + 1, Len(t))
<1> DEFINE a == SubSeq(s, (n + m) + 1, Len(s))
           b == SubSeq(t, m + 1, Len(t))
           L == Len(s)
<1>1. t \in Seq(S) /\ Len(t) = L - n /\ L \in Nat /\ n \in 0..L
  BY Dropped
<1>2. m \in 0..(L - n)
  BY <1>1
<1>3. n + m \in 0..L /\ L - (n + m) = (L - n) - m
  BY <1>1, <1>2
<1>4. a \in Seq(S) /\ Len(a) = L - (n + m)
  BY <1>3, Dropped
<1>5. b \in Seq(S) /\ Len(b) = Len(t) - m
  BY <1>1, Dropped
<1>6. \A i \in 1..(L - (n + m)) : a[i] = s[(n + m) + i]
  BY <1>3
<1>7. \A i \in 1..(L - n) : t[i] = s[n + i]
  BY <1>1
<1>8. \A i \in 1..(Len(t) - m) : b[i] = t[m + i]
  BY <1>1, <1>2
<1> HIDE DEF a, b, L
<1>9. ASSUME NEW i \in 1..Len(a) PROVE a[i] = b[i]
  <2>1. i \in 1..(L - (n + m)) /\ i \in 1..(Len(t) - m) /\ m + i \in 1..(L - n) /\ n + (m + i) = (n + m) + i
    BY <1>1, <1>2, <1>3, <1>4
  <2>2. a[i] = s[(n + m) + i] /\ b[i] = t[m + i] /\ t[m + i] = s[n + (m + i)]
    BY <1>6, <1>7, <1>8, <2>1
  <2> QED BY <2>1, <2>2
<1>10. Len(a) = Len(b)
  BY <1>1, <1>3, <1>4, <1>5
<1> QED BY <1>4, <1>5, <1>9, <1>10, SeqEqual DEF a, b, L

\* A byte of a peer's own making.
LEMMA ReadBackPutByte ==
    ASSUME NEW b \in AnyBytes, PutByte(b)
    PROVE  ReadBackInv'
  BY DEF PutByte, ReadBackInv

\* The payload is padded.
LEMMA ReadBackSeal ==
    ASSUME PayloadInv, ReadBackInv, Seal
    PROVE  ReadBackInv'
<1> DEFINE missing == IF foreign \/ Len(payload) >= MinPayload THEN 0 ELSE MinPayload - Len(payload)
           zeros == [i \in 1..missing |-> 0]
           pads == [i \in 1..missing |-> Padding]
           c == payload
           fs == written
           F == FrameRecords
<1>1. /\ phase = "Write" /\ phase' = "Read" /\ written' = fs \o pads /\ foreign' = foreign
      /\ payload' = c \o zeros /\ parsed' = parsed /\ pos' = pos
  BY DEF Seal, Padding
<1>2. c \in Seq(Byte) /\ Len(c) \in Nat /\ MinPayload \in Nat
  BY FrameAssumption DEF PayloadInv
<1>3. missing \in Nat
  BY <1>2
<1> HIDE DEF missing
<1>4. 0 \in Byte
  BY ByteNumbers
<1>5. zeros \in Seq(Byte)
  BY <1>3, <1>4
<1>6. Padding \in F
  BY PaddingFacts, FrameRecord
<1>7. pads \in Seq(F)
  BY <1>3, <1>6
<1>8. IsLaid(pads, zeros)
  BY <1>3, LaidPadding
<1>9. fs \in Seq(F) /\ \A i \in 1..Len(fs) : WriteFrame(fs[i]) \in Seq(Byte)
  <2>1. \A i \in 1..Len(written) : WellFormed(written[i]) /\ Writable(written[i])
    BY DEF PayloadInv
  <2>2. \A i \in 1..Len(written) : WriteFrame(written[i]) \in Seq(Byte)
    BY <2>1, WrittenBytes
  <2> QED BY <2>2 DEF PayloadInv
<1>10. pos' = 0 /\ parsed' = <<>>
  BY <1>1 DEF PayloadInv
<1> SUFFICES ASSUME ~foreign' PROVE ReadBackInv'
  BY DEF ReadBackInv
<1>11. IsLaid(fs, c)
  BY <1>1 DEF ReadBackInv
<1> HIDE DEF zeros, pads, c, fs, F
<1>12. IsLaid(fs \o pads, c \o zeros)
  BY <1>2, <1>5, <1>7, <1>8, <1>9, <1>11, LaidMore
<1> DEFINE ws == fs \o pads
           bytes == c \o zeros
<1>13. Len(ws) \in Nat /\ bytes \in Seq(Byte)
  BY <1>2, <1>5, <1>7, <1>9
<1>14. written' = ws /\ payload' = bytes /\ IsLaid(ws, bytes)
  BY <1>1, <1>12
<1> HIDE DEF ws, bytes
<1>15. Reading'
  BY <1>10, <1>13, <1>14, ReadingStarts
<1>16. IsLaid(written', payload')
  BY <1>14
<1> QED BY <1>1, <1>15, <1>16 DEF ReadBackInv

\* The next frame was the next one written.
LEMMA OnTrackNext ==
    ASSUME NEW rests, NEW ws, NEW bytes, NEW ps, NEW left,
           written' = ws, payload' = bytes, parsed' = ps, Remaining' = left,
           Laid(ws, bytes, rests), Len(ps) <= Len(ws), left = rests[Len(ps)],
           \A i \in 1..Len(ps) : ps[i] = ws[i],
           \A i \in 1..Len(ps) : i < Len(ws) => ~EmptyStream(ws[i])
    PROVE  Reading'
<1>1. Laid(written', payload', rests)
  OBVIOUS
<1>2. Laid(written, payload, rests)'
  BY <1>1
<1>3. \A i \in 1..Len(parsed') : i < Len(written') =>
          ~(written'[i].kind = "STREAM" /\ written'[i].data[1] = <<>>)
  BY DEF EmptyStream
<1>4. Remaining' = rests[Len(parsed')] /\ Len(parsed') <= Len(written')
  OBVIOUS
<1>5. \A i \in 1..Len(parsed') : parsed'[i] = written'[i]
  OBVIOUS
<1>6. OnTrack(rests)'
  BY <1>2, <1>3, <1>4, <1>5 DEF OnTrack, EmptyStream
<1> QED BY <1>6 DEF Reading

\* The next frame took all that was left, and that was too much.
LEMMA SwallowedNext ==
    ASSUME NEW ws, NEW ps, NEW i \in 1..Len(ps),
           written' = ws, parsed' = ps, Remaining' = <<>>,
           i < Len(ws), EmptyStream(ws[i]), ps[i] # ws[i]
    PROVE  Reading'
<1>1. i \in 1..Len(parsed') /\ i < Len(written') /\ parsed'[i] # written'[i]
  OBVIOUS
<1>2. written'[i].kind = "STREAM" /\ written'[i].data[1] = <<>>
  BY DEF EmptyStream
<1>3. Swallowed'
  BY <1>1, <1>2 DEF Swallowed, EmptyStream
<1> QED BY <1>3 DEF Reading

\* Nothing is no frame.
LEMMA NoBytesNoFrame == ParseFrame(<<>>) = {}
<1> DEFINE none == <<>>
<1>1. none \in Seq(Byte) /\ Len(none) = 0
  OBVIOUS
<1> HIDE DEF none
<1> SUFFICES ASSUME NEW p \in ParseFrame(none) PROVE FALSE
  BY DEF none
<1>2. p.len \in 1..0
  BY <1>1, ParsedFacts
<1> QED BY <1>2

\* After k frames come this frame and these bytes, if any frame is left after it.
ComesNext(k, f, after) ==
    /\ k \in Nat /\ Len(written) \in Nat /\ k + 1 <= Len(written)
    /\ WellFormed(f) /\ Writable(f) /\ after \in Seq(Byte)
    /\ WriteFrame(f) \in Seq(Byte) /\ Len(WriteFrame(f)) >= 1
    /\ Remaining = WriteFrame(f) \o after
    /\ k + 1 = Len(written) => after = <<>>
    /\ k + 1 < Len(written) => after # <<>>

\* What comes next in a payload that is read as it was written.
LEMMA NextOnTrack ==
    ASSUME PayloadInv, NEW rests, OnTrack(rests), NEW k, k = Len(parsed), k # Len(written),
           NEW f, f = written[k + 1], NEW after, after = rests[k + 1]
    PROVE  ComesNext(k, f, after)
<1> DEFINE n == Len(written)
<1>1. k \in Nat /\ n \in Nat /\ k <= n
  BY DEF PayloadInv, OnTrack
<1>2. \A i \in 1..n : WellFormed(written[i]) /\ Writable(written[i])
  BY DEF PayloadInv
<1>3. /\ rests[n] = <<>>
      /\ \A i \in 0..n : rests[i] \in Seq(Byte)
      /\ \A i \in 1..n : rests[i - 1] = WriteFrame(written[i]) \o rests[i]
  BY DEF OnTrack, Laid
<1>4. Remaining = rests[k]
  BY DEF OnTrack
<1> HIDE DEF n
<1>5. k + 1 \in 1..n /\ k + 1 \in 0..n /\ (k + 1) - 1 = k
  BY <1>1 DEF n
<1>6. WellFormed(f) /\ Writable(f) /\ after \in Seq(Byte)
  BY <1>2, <1>3, <1>5
<1>7. WriteFrame(f) \in Seq(Byte) /\ Len(WriteFrame(f)) >= 1
  BY <1>6, WrittenBytes
<1>8. Remaining = WriteFrame(f) \o after
  BY <1>3, <1>4, <1>5
<1>9. ASSUME k + 1 < n PROVE after # <<>>
  <2> DEFINE g == written[k + 2]
             w == WriteFrame(g)
             x == rests[k + 2]
  <2>1. k + 2 \in 1..n /\ k + 2 \in 0..n /\ (k + 2) - 1 = k + 1
    BY <1>1, <1>9
  <2>2. WellFormed(g) /\ Writable(g) /\ x \in Seq(Byte)
    BY <1>2, <1>3, <2>1
  <2> HIDE DEF g
  <2>3. w \in Seq(Byte) /\ Len(w) >= 1
    BY <2>2, WrittenBytes
  <2>4. after = w \o x
    BY <1>3, <2>1 DEF g
  <2> HIDE DEF w, x
  <2>5. Len(w \o x) = Len(w) + Len(x) /\ Len(w) \in Nat /\ Len(x) \in Nat
    BY <2>2, <2>3
  <2>6. Len(after) # 0
    BY <2>3, <2>4, <2>5
  <2> QED BY <2>6
<1> QED BY <1>1, <1>3, <1>5, <1>6, <1>7, <1>8, <1>9 DEF n, ComesNext

\* Nothing is refused of a payload that write_frame wrote: what parse_frame refuses is
\* the end of it.
LEMMA NotRefused ==
    ASSUME PayloadInv, Reading, ParseFrame(Remaining) = {}
    PROVE  Remaining = <<>>
<1>1. CASE Swallowed
  BY <1>1 DEF Swallowed
<1>2. CASE \E rests : OnTrack(rests)
  <2>1. PICK rests : OnTrack(rests)
    BY <1>2
  <2> DEFINE k == Len(parsed)
  <2>2. CASE k = Len(written)
    BY <2>1, <2>2 DEF OnTrack, Laid
  <2>3. CASE k # Len(written)
    <3> DEFINE f == written[k + 1]
               after == rests[k + 1]
    <3>1. k = Len(parsed) /\ k # Len(written) /\ f = written[k + 1] /\ after = rests[k + 1]
      BY <2>3
    <3> HIDE DEF k, f, after
    <3>2. ComesNext(k, f, after)
      BY <2>1, <3>1, NextOnTrack
    <3>3. WellFormed(f) /\ Writable(f) /\ after \in Seq(Byte) /\ Remaining = WriteFrame(f) \o after
      BY <3>2 DEF ComesNext
    <3>4. ParseFrame(WriteFrame(f) \o after) # {}
      <4>1. CASE ~EmptyStream(f)
        BY <3>3, <4>1, FrameReadsBack
      <4>2. CASE EmptyStream(f)
        <5>1. ParseFrame(WriteFrame(f) \o after) =
                  {[frame |-> Frame(f.kind, f.ints, <<after>>, f.bit), len |-> Len(WriteFrame(f) \o after)]}
          BY <3>3, <4>2, EmptyStreamSwallows
        <5> QED BY <5>1
      <4> QED BY <4>1, <4>2
    <3> QED BY <3>3, <3>4
  <2> QED BY <2>2, <2>3
<1> QED BY <1>1, <1>2 DEF Reading

\* Nothing of a payload that write_frame wrote claims more ranges than there is memory for.
LEMMA NotAborted ==
    ASSUME PayloadInv, RangesInv, Reading
    PROVE  ~TooManyRanges(Remaining)
<1>1. CASE Remaining = <<>>
  <2> DEFINE none == <<>>
  <2>1. none \in Seq(Byte) /\ none = <<>>
    OBVIOUS
  <2> HIDE DEF none
  <2>2. \A t \in TypeOf(none) : FALSE
    BY <2>1, TypeOfFacts
  <2>3. TypeOf(Remaining) = {}
    BY <1>1, <2>1, <2>2
  <2> QED BY <2>3 DEF TooManyRanges
<1>2. CASE Remaining # <<>>
  <2>1. PICK rests : OnTrack(rests)
    BY <1>2 DEF Reading, Swallowed
  <2> DEFINE k == Len(parsed)
             f == written[k + 1]
             after == rests[k + 1]
  <2>2. k # Len(written)
    BY <1>2, <2>1 DEF OnTrack, Laid
  <2>3. k = Len(parsed) /\ k # Len(written) /\ f = written[k + 1] /\ after = rests[k + 1]
    BY <2>2
  <2> HIDE DEF k, f, after
  <2>4. ComesNext(k, f, after)
    BY <2>1, <2>3, NextOnTrack
  <2>5. FewRanges(f)
    <3>1. k + 1 \in 1..Len(written)
      BY <2>4 DEF ComesNext
    <3> QED BY <2>3, <3>1 DEF RangesInv
  <2>6. WellFormed(f) /\ Writable(f) /\ after \in Seq(Byte) /\ Remaining = WriteFrame(f) \o after
    BY <2>4 DEF ComesNext
  <2>7. ~TooManyRanges(WriteFrame(f) \o after)
    BY <2>5, <2>6, WrittenIsHeld
  <2> QED BY <2>6, <2>7
<1> QED BY <1>1, <1>2

\* A frame is read.
LEMMA ReadBackFrame ==
    ASSUME PayloadInv, Reading, NEW r \in ParseFrame(Remaining),
           written' = written, payload' = payload, parsed' = Append(parsed, r.frame), pos' = pos + r.len
    PROVE  Reading'
<1> DEFINE k == Len(parsed)
           n == Len(written)
           f == written[k + 1]
           g == r.frame
           l == r.len
           ps == Append(parsed, g)
           R == Remaining
           left == SubSeq(R, l + 1, Len(R))
<1>1. R # <<>>
  BY NoBytesNoFrame
<1>2. PICK rests : OnTrack(rests)
  BY <1>1 DEF Reading, Swallowed
<1> DEFINE after == rests[k + 1]
<1>3. k # n
  BY <1>1, <1>2 DEF OnTrack, Laid
<1>4. /\ k \in Nat /\ n \in Nat /\ k + 1 <= n
      /\ WellFormed(f) /\ Writable(f) /\ after \in Seq(Byte)
      /\ WriteFrame(f) \in Seq(Byte) /\ Len(WriteFrame(f)) >= 1
      /\ R = WriteFrame(f) \o after
      /\ k + 1 = n => after = <<>>
      /\ k + 1 < n => after # <<>>
  <2>1. k = Len(parsed) /\ k # Len(written) /\ f = written[k + 1] /\ after = rests[k + 1]
    BY <1>3
  <2> HIDE DEF k, f, after
  <2>2. ComesNext(k, f, after)
    BY <1>2, <2>1, NextOnTrack
  <2> QED BY <2>2 DEF ComesNext
<1>5. R \in Seq(Byte) /\ l \in 1..Len(R) /\ WellFormed(g) /\ g \in FrameRecords
  <2>1. R \in Seq(Byte)
    BY RemainingFacts
  <2>2. l \in 1..Len(R) /\ WellFormed(g)
    BY <2>1, ParsedFacts
  <2> QED BY <2>1, <2>2, FrameRecord
<1>6. Remaining' = left
  <2> DEFINE s == payload
             p == pos
  <2>1. s \in Seq(Byte) /\ p \in 0..Len(s) /\ R = SubSeq(s, p + 1, Len(s))
    BY DEF PayloadInv, Remaining
  <2>2. l \in 0..Len(R)
    BY <1>5
  <2>3. Remaining' = SubSeq(s, (p + l) + 1, Len(s))
    BY DEF Remaining
  <2> HIDE DEF s, p, R, l
  <2>4. SubSeq(s, (p + l) + 1, Len(s)) = SubSeq(R, l + 1, Len(R))
    BY <2>1, <2>2, DropMore
  <2> QED BY <2>3, <2>4
<1>7. /\ Len(ps) = k + 1 /\ ps[k + 1] = g
      /\ \A i \in 1..k : ps[i] = parsed[i]
  <2> DEFINE a == parsed
             F == FrameRecords
  <2>1. a \in Seq(F) /\ g \in F
    BY <1>5 DEF PayloadInv
  <2> HIDE DEF a, F, g
  <2>2. Len(Append(a, g)) = Len(a) + 1 /\ Append(a, g)[Len(a) + 1] = g
        /\ \A i \in 1..Len(a) : Append(a, g)[i] = a[i]
    BY <2>1
  <2> QED BY <2>2 DEF a
<1>8. /\ \A i \in 1..k : parsed[i] = written[i]
      /\ \A i \in 1..k : i < n => ~EmptyStream(written[i])
      /\ Laid(written, payload, rests)
  BY <1>2 DEF OnTrack
<1>9. written' = written /\ payload' = payload /\ parsed' = ps
  OBVIOUS
<1>10. r \in ParseFrame(WriteFrame(f) \o after) /\ r.frame = g /\ r.len = l
  BY <1>4
<1> HIDE DEF k, n, f, g, l, ps, R, left, after
<1>11. \A i \in 1..(k + 1) : i \in 1..k \/ i = k + 1
  BY <1>4
<1>12. ASSUME g = f, left = after, k + 1 < n => ~EmptyStream(f)
       PROVE  Reading'
  <2>1. \A i \in 1..Len(ps) : ps[i] = written[i]
    BY <1>7, <1>8, <1>11, <1>12 DEF f
  <2>2. \A i \in 1..Len(ps) : i < Len(written) => ~EmptyStream(written[i])
    BY <1>7, <1>8, <1>11, <1>12 DEF f, n
  <2>3. Len(ps) <= Len(written) /\ left = rests[Len(ps)]
    BY <1>4, <1>7, <1>12 DEF n, after
  <2> QED BY <1>6, <1>8, <1>9, <2>1, <2>2, <2>3, OnTrackNext
<1>13. CASE ~EmptyStream(f)
  <2> DEFINE w == WriteFrame(f)
  <2>1. ParseFrame(w \o after) = {[frame |-> f, len |-> Len(w)]}
    BY <1>4, <1>13, FrameReadsBack
  <2>2. r = [frame |-> f, len |-> Len(w)]
    BY <1>10, <2>1
  <2>3. g = f /\ l = Len(w)
    BY <1>10, <2>2
  <2>4. w \in Seq(Byte) /\ after \in Seq(Byte) /\ R = w \o after
    BY <1>4
  <2> HIDE DEF w
  <2>5. SubSeq(w \o after, Len(w) + 1, Len(w \o after)) = after
    BY <2>4, ConcatParts
  <2>6. left = after
    BY <2>3, <2>4, <2>5 DEF left
  <2> QED BY <1>12, <1>13, <2>3, <2>6
<1>14. CASE EmptyStream(f)
  <2> DEFINE w == WriteFrame(f)
             taken == Frame(f.kind, f.ints, <<after>>, f.bit)
  <2>1. ParseFrame(w \o after) = {[frame |-> taken, len |-> Len(w \o after)]}
    BY <1>4, <1>14, EmptyStreamSwallows
  <2>2. R = w \o after
    BY <1>4
  <2> HIDE DEF w, taken
  <2>3. r = [frame |-> taken, len |-> Len(w \o after)]
    BY <1>10, <2>1 DEF w
  <2>4. g = taken /\ l = Len(R)
    BY <1>10, <2>2, <2>3
  <2>5. left = <<>>
    <3>1. SubSeq(R, Len(R) + 1, Len(R)) = <<>>
      BY <1>5
    <3> QED BY <2>4, <3>1 DEF left
  <2>6. taken.data = <<after>>
    BY <1>4, FrameOfParts DEF taken
  <2>7. CASE k + 1 = n
    <3>1. after = <<>>
      BY <1>4, <2>7
    <3>2. f.kind = "STREAM" /\ f.data[1] = <<>>
      BY <1>14 DEF EmptyStream
    <3>3. f.data = <<f.data[1]>>
      BY <1>4, <3>2, StreamBody
    <3>4. f.data = <<after>>
      BY <3>1, <3>2, <3>3
    <3>5. taken = f
      BY <1>4, <3>4, FrameOfParts DEF taken
    <3>6. ~(k + 1 < n)
      BY <1>4, <2>7
    <3> QED BY <1>12, <2>4, <2>5, <3>1, <3>5, <3>6
  <2>8. CASE k + 1 # n
    <3>1. k + 1 < n /\ after # <<>>
      BY <1>4, <2>8
    <3>2. taken.data[1] = after
      <4>1. <<after>>[1] = after
        OBVIOUS
      <4> QED BY <2>6, <4>1
    <3>3. f.data[1] = <<>>
      BY <1>14 DEF EmptyStream
    <3>4. taken # f
      BY <3>1, <3>2, <3>3
    <3>5. /\ k + 1 \in 1..Len(ps) /\ k + 1 < Len(written)
          /\ EmptyStream(written[k + 1]) /\ ps[k + 1] # written[k + 1]
      <4>1. k + 1 \in 1..Len(ps) /\ k + 1 < Len(written)
        BY <1>4, <1>7, <3>1 DEF n
      <4>2. written[k + 1] = f /\ ps[k + 1] = taken
        BY <1>7, <2>4 DEF f
      <4> QED BY <1>14, <3>4, <4>1, <4>2
    <3>6. Remaining' = <<>>
      BY <1>6, <2>5
    <3> DEFINE j == k + 1
    <3>7. j \in 1..Len(ps) /\ j < Len(written) /\ EmptyStream(written[j]) /\ ps[j] # written[j]
      BY <3>5
    <3> HIDE DEF j
    <3> QED BY <1>9, <3>6, <3>7, SwallowedNext
  <2> QED BY <2>7, <2>8
<1> QED BY <1>13, <1>14

\* A frame is read, or the loop ends.
LEMMA ReadBackParse ==
    ASSUME PayloadInv, RangesInv, ReadBackInv, Parse
    PROVE  ReadBackInv'
<1>1. /\ phase = "Read" /\ written' = written /\ payload' = payload /\ foreign' = foreign
  BY DEF Parse
<1> SUFFICES ASSUME ~foreign PROVE ReadBackInv'
  BY <1>1 DEF ReadBackInv
<1>2. IsLaid(written, payload) /\ Reading
  BY <1>1 DEF ReadBackInv
<1>3. IsLaid(written, payload)'
  <2>1. IsLaid(written', payload')
    BY <1>1, <1>2
  <2> QED BY <2>1
<1>4. CASE Remaining = <<>> /\ phase' = "Done" /\ UNCHANGED <<parsed, pos>>
  <2>1. UNCHANGED <<written, payload, parsed, pos>>
    BY <1>1, <1>4
  <2>2. Reading'
    BY <1>2, <2>1 DEF Reading, Swallowed, OnTrack, Remaining, EmptyStream, Laid
  <2>3. Remaining' = <<>>
    BY <1>4, <2>1 DEF Remaining
  <2> QED BY <1>3, <1>4, <2>2, <2>3 DEF ReadBackInv
<1>5. CASE Remaining # <<>> /\ ParseFrame(Remaining) = {}
  BY <1>2, <1>5, NotRefused
<1>6. CASE \E r \in ParseFrame(Remaining) :
               parsed' = Append(parsed, r.frame) /\ pos' = pos + r.len /\ phase' = phase
  <2>1. PICK r \in ParseFrame(Remaining) :
            parsed' = Append(parsed, r.frame) /\ pos' = pos + r.len /\ phase' = phase
    BY <1>6
  <2>2. Reading'
    BY <1>1, <1>2, <2>1, ReadBackFrame
  <2> QED BY <1>1, <1>3, <2>1, <2>2 DEF ReadBackInv
<1>7. CASE TooManyRanges(Remaining)
  BY <1>2, <1>7, NotAborted
<1> QED BY <1>4, <1>5, <1>6, <1>7 DEF Parse, Remaining

\* No step of encrypt_packet or of the loop that parses breaks ReadBackInv.
LEMMA ReadBackStep == PayloadInv /\ RangesInv /\ ReadBackInv /\ [Next]_vars => ReadBackInv'
<1> SUFFICES ASSUME PayloadInv, RangesInv, ReadBackInv, [Next]_vars PROVE ReadBackInv'
  OBVIOUS
<1>1. ASSUME NEW f \in Frames, Put(f) PROVE ReadBackInv'
  BY <1>1, ReadBackPut
<1>2. ASSUME NEW b \in AnyBytes, PutByte(b) PROVE ReadBackInv'
  BY <1>2, ReadBackPutByte
<1>3. CASE Seal
  BY <1>3, ReadBackSeal
<1>4. CASE Parse
  BY <1>4, ReadBackParse
<1>5. CASE UNCHANGED vars
  BY <1>5 DEF vars, ReadBackInv, IsLaid, Reading, Swallowed, OnTrack, Remaining, EmptyStream, Laid
<1> QED BY <1>1, <1>2, <1>3, <1>4, <1>5 DEF Next

\* A payload that write_frame wrote is read along the frames put into it, never refused,
\* and never the end of the receiver.
THEOREM ReadBackInvariant == Spec => []ReadBackInv
  BY PayloadInvariant, RangesInvariant, ReadBackInit, ReadBackStep, PTL DEF Spec

\* What was read is what was written, unless a STREAM frame without data came
\* before the last frame.
LEMMA ReadBackEnd ==
    ASSUME PayloadInv, Reading, Remaining = <<>>
    PROVE  parsed = written <=> \A i \in 1..(Len(written) - 1) : ~EmptyStream(written[i])
<1> DEFINE n == Len(written)
           k == Len(parsed)
<1>1. n \in Nat /\ k \in Nat /\ written \in Seq(FrameRecords) /\ parsed \in Seq(FrameRecords)
  BY DEF PayloadInv
<1>2. CASE Swallowed
  <2>1. PICK i \in 1..k : i < n /\ EmptyStream(written[i]) /\ parsed[i] # written[i]
    BY <1>2 DEF Swallowed
  <2> HIDE DEF n, k
  <2>2. i \in 1..(n - 1)
    BY <1>1, <2>1
  <2> QED BY <2>1, <2>2 DEF n
<1>3. CASE \E rests : OnTrack(rests)
  <2>1. PICK rests : OnTrack(rests)
    BY <1>3
  <2>2. k = n
    <3> SUFFICES ASSUME k # n PROVE FALSE
      OBVIOUS
    <3> DEFINE f == written[k + 1]
               after == rests[k + 1]
               w == WriteFrame(f)
    <3>1. k = Len(parsed) /\ k # Len(written) /\ f = written[k + 1] /\ after = rests[k + 1]
      OBVIOUS
    <3> HIDE DEF k, f, after
    <3>2. ComesNext(k, f, after)
      BY <2>1, <3>1, NextOnTrack
    <3>3. w \in Seq(Byte) /\ after \in Seq(Byte) /\ Len(w) >= 1 /\ w \o after = <<>>
      BY <3>2 DEF ComesNext
    <3> HIDE DEF w
    <3>4. Len(w \o after) = Len(w) + Len(after) /\ Len(w) \in Nat /\ Len(after) \in Nat
      BY <3>3
    <3>5. Len(w \o after) = 0
      BY <3>3
    <3> QED BY <3>3, <3>4, <3>5
  <2>3. /\ \A i \in 1..k : parsed[i] = written[i]
        /\ \A i \in 1..k : i < n => ~EmptyStream(written[i])
    BY <2>1 DEF OnTrack
  <2>4. parsed = written
    BY <1>1, <2>2, <2>3, SeqEqual
  <2> HIDE DEF n, k
  <2>5. \A i \in 1..(n - 1) : i \in 1..k /\ i < n
    BY <1>1, <2>2
  <2>6. \A i \in 1..(n - 1) : ~EmptyStream(written[i])
    BY <2>3, <2>5
  <2> QED BY <2>4, <2>6 DEF n
<1> QED BY <1>2, <1>3 DEF Reading

\* What write_frame writes is never refused, nor does it end the receiver, and it is
\* what the receiver reads, frame by frame and with nothing left over, exactly unless
\* a STREAM frame without data, whose length is left out, is followed by another frame
\* or by padding.
THEOREM ReadsBackTheorem == Spec => []ReadsBackUnlessSwallowed
<1>1. PayloadInv /\ ReadBackInv => ReadsBackUnlessSwallowed
  <2> SUFFICES ASSUME PayloadInv, ReadBackInv, phase \in {"Done", "Refused", "Aborted"}, ~foreign
               PROVE  phase = "Done" /\ (parsed = written
                          <=> \A i \in 1..(Len(written) - 1) : ~EmptyStream(written[i]))
    BY DEF ReadsBackUnlessSwallowed
  <2>1. phase = "Done" /\ Remaining = <<>> /\ Reading
    BY DEF ReadBackInv
  <2> QED BY <2>1, ReadBackEnd
<1> QED BY <1>1, PayloadInvariant, ReadBackInvariant, PTL

=============================================================================
