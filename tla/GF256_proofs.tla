------------------------------ MODULE GF256_proofs ------------------------------
(***************************************************************************)
(* The byte arithmetic of shamir.py is that of a field: _gf_mul is a       *)
(* product and a^254 an inverse, for all bytes at once, by hand and not by *)
(* trying them.  Everything is linear over exclusive or, and every byte    *)
(* comes of 1 by Shift and exclusive or (ByteGenerated), so that a law     *)
(* need only be carried over those two.                                    *)
(***************************************************************************)
EXTENDS Shamir, Arithmetic

(*****************************************************************************)
(* Binary digits, and exclusive or on them.                                *)
(*****************************************************************************)
(* Bytes are numbers, and what is no greater than a byte is one.           *)
LEMMA BytesAre ==
  /\ Byte \subseteq Nat /\ 0 \in Byte /\ 1 \in Byte /\ {0, 1} \subseteq Byte
  /\ \A n \in Byte, m \in Nat : m <= n => m \in Byte
<1>1. Byte \subseteq Nat /\ 0 \in Byte /\ 1 \in Byte
  BY DEF Byte
<1>2. \A n \in Byte, m \in Nat : m <= n => m \in Byte
  BY DEF Byte
<1> QED
  BY <1>1, <1>2

(* The number written with these binary digits.                            *)
Binary(d) == d[0] + 2 * d[1] + 4 * d[2] + 8 * d[3] + 16 * d[4] + 32 * d[5] + 64 * d[6] + 128 * d[7]

Digits(a) == [i \in 0 .. 7 |-> Bit(a, i)]

(* A byte is written with its own digits.                                  *)
LEMMA DigitsOf ==
  ASSUME NEW a \in Byte
  PROVE  Digits(a) \in [0 .. 7 -> {0, 1}] /\ a = Binary(Digits(a))
<1>1. /\ Bit(a, 0) = a % 2 /\ Bit(a, 1) = (a \div 2) % 2
      /\ Bit(a, 2) = (a \div 4) % 2 /\ Bit(a, 3) = (a \div 8) % 2
      /\ Bit(a, 4) = (a \div 16) % 2 /\ Bit(a, 5) = (a \div 32) % 2
      /\ Bit(a, 6) = (a \div 64) % 2 /\ Bit(a, 7) = (a \div 128) % 2
  BY DEF Bit, Byte
<1>2. \A i \in 0 .. 7 : Bit(a, i) \in {0, 1}
  <2> SUFFICES ASSUME NEW i \in 0 .. 7 PROVE Bit(a, i) \in {0, 1}
    OBVIOUS
  <2>1. i \in {0, 1, 2, 3, 4, 5, 6, 7}
    OBVIOUS
  <2> QED
    BY <1>1, <2>1 DEF Byte
<1>3. a = (a % 2) + 2 * ((a \div 2) % 2) + 4 * ((a \div 4) % 2) + 8 * ((a \div 8) % 2)
            + 16 * ((a \div 16) % 2) + 32 * ((a \div 32) % 2) + 64 * ((a \div 64) % 2)
            + 128 * ((a \div 128) % 2)
  BY DEF Byte
<1> QED
  BY <1>1, <1>2, <1>3 DEF Digits, Binary

(* The digits of a number that is written with eight of them.              *)
LEMMA DigitsRead ==
  ASSUME NEW b0 \in 0 .. 1, NEW b1 \in 0 .. 1, NEW b2 \in 0 .. 1, NEW b3 \in 0 .. 1,
         NEW b4 \in 0 .. 1, NEW b5 \in 0 .. 1, NEW b6 \in 0 .. 1, NEW b7 \in 0 .. 1,
         NEW a, a = b0 + 2 * b1 + 4 * b2 + 8 * b3 + 16 * b4 + 32 * b5 + 64 * b6 + 128 * b7
  PROVE  /\ a \in 0 .. 255
         /\ Bit(a, 0) = b0 /\ Bit(a, 1) = b1 /\ Bit(a, 2) = b2 /\ Bit(a, 3) = b3
         /\ Bit(a, 4) = b4 /\ Bit(a, 5) = b5 /\ Bit(a, 6) = b6 /\ Bit(a, 7) = b7
<1>1. a \in 0 .. 255
  OBVIOUS
<1>2. /\ Bit(a, 0) = a % 2 /\ Bit(a, 1) = (a \div 2) % 2
      /\ Bit(a, 2) = (a \div 4) % 2 /\ Bit(a, 3) = (a \div 8) % 2
      /\ Bit(a, 4) = (a \div 16) % 2 /\ Bit(a, 5) = (a \div 32) % 2
      /\ Bit(a, 6) = (a \div 64) % 2 /\ Bit(a, 7) = (a \div 128) % 2
  BY <1>1 DEF Bit
<1>3. a % 2 = b0 /\ (a \div 2) % 2 = b1
  OBVIOUS
<1>4. (a \div 4) % 2 = b2 /\ (a \div 8) % 2 = b3
  OBVIOUS
<1>5. (a \div 16) % 2 = b4 /\ (a \div 32) % 2 = b5
  OBVIOUS
<1>6. (a \div 64) % 2 = b6 /\ (a \div 128) % 2 = b7
  OBVIOUS
<1> QED
  BY <1>1, <1>2, <1>3, <1>4, <1>5, <1>6

(* Any eight digits make a byte, and can be read off it.                   *)
LEMMA DigitsMake ==
  ASSUME NEW d \in [0 .. 7 -> {0, 1}]
  PROVE  Binary(d) \in Byte /\ Digits(Binary(d)) = d
<1> DEFINE a == Binary(d)
<1>1. \A i \in 0 .. 7 : d[i] \in 0 .. 1
  OBVIOUS
<1>2. a = d[0] + 2 * d[1] + 4 * d[2] + 8 * d[3] + 16 * d[4] + 32 * d[5] + 64 * d[6] + 128 * d[7]
  BY DEF Binary
<1>3. /\ d[0] \in 0 .. 1 /\ d[1] \in 0 .. 1 /\ d[2] \in 0 .. 1 /\ d[3] \in 0 .. 1
      /\ d[4] \in 0 .. 1 /\ d[5] \in 0 .. 1 /\ d[6] \in 0 .. 1 /\ d[7] \in 0 .. 1
  BY <1>1
<1> HIDE DEF a
<1>4. /\ a \in 0 .. 255
      /\ Bit(a, 0) = d[0] /\ Bit(a, 1) = d[1] /\ Bit(a, 2) = d[2] /\ Bit(a, 3) = d[3]
      /\ Bit(a, 4) = d[4] /\ Bit(a, 5) = d[5] /\ Bit(a, 6) = d[6] /\ Bit(a, 7) = d[7]
  BY <1>2, <1>3, DigitsRead
<1>5. \A i \in 0 .. 7 : Bit(a, i) = d[i]
  <2> SUFFICES ASSUME NEW i \in 0 .. 7 PROVE Bit(a, i) = d[i]
    OBVIOUS
  <2>1. i \in {0, 1, 2, 3, 4, 5, 6, 7}
    OBVIOUS
  <2> QED
    BY <1>4, <2>1
<1>6. Digits(a) = d
  BY <1>5 DEF Digits
<1> QED
  BY <1>4, <1>6 DEF a, Byte

(* Exclusive or, digit by digit.                                           *)
Plus(x, y) == (x + y) % 2

(* BitwiseXor is exclusive or of the digits.                               *)
LEMMA XorIsBitwise ==
  ASSUME NEW a \in Byte, NEW b \in Byte
  PROVE  a \oplus b = Binary([i \in 0 .. 7 |-> Plus(Digits(a)[i], Digits(b)[i])])
<1> DEFINE d == [i \in 0 .. 7 |-> Plus(Digits(a)[i], Digits(b)[i])]
           term == [i \in 1 .. 8 |-> 2^(i - 1) * ((Bit(a, i - 1) + Bit(b, i - 1)) % 2)]
           Loop(g) == g = [i \in 0 .. 8 |->
             IF i = 0 THEN 0
             ELSE g[i - 1] + 2^(i - 1) * ((Bit(a, i - 1) + Bit(b, i - 1)) % 2)]
           low == CHOOSE g : Loop(g)
           step == [i \in 1 .. 8 |-> [v \in Int |-> v + term[i]]]
<1>1. a \oplus b = low[8]
  BY DEF \oplus, XorTable, XorOf
<1>2. \A i \in 0 .. 7 : d[i] = Plus(Bit(a, i), Bit(b, i)) /\ d[i] \in {0, 1}
  <2>1. \A i \in 0 .. 7 : Bit(a, i) \in {0, 1} /\ Bit(b, i) \in {0, 1}
    BY DigitsOf DEF Digits
  <2> QED
    BY <2>1 DEF Digits, Plus
<1> HIDE DEF d
<1>3. /\ term[1] = d[0] /\ term[2] = 2 * d[1] /\ term[3] = 4 * d[2] /\ term[4] = 8 * d[3]
      /\ term[5] = 16 * d[4] /\ term[6] = 32 * d[5] /\ term[7] = 64 * d[6] /\ term[8] = 128 * d[7]
  BY <1>2 DEF Plus
<1>4. \A i \in 1 .. 8 : term[i] \in Int
  <2> SUFFICES ASSUME NEW i \in 1 .. 8 PROVE term[i] \in Int
    OBVIOUS
  <2>1. i \in {1, 2, 3, 4, 5, 6, 7, 8}
    OBVIOUS
  <2> HIDE DEF term
  <2> QED
    BY <1>2, <1>3, <2>1
<1>5. \A i \in 1 .. 8 : term[i] = 2^(i - 1) * ((Bit(a, i - 1) + Bit(b, i - 1)) % 2)
  OBVIOUS
<1> HIDE DEF term
<1>6. step \in [1 .. 8 -> [Int -> Int]]
  BY <1>4
<1> HIDE DEF step
<1>7. PICK g \in [0 .. 8 -> Int] : Turns(g, 0, step, 8)
  <2>1. 8 \in Nat /\ 0 \in Int
    OBVIOUS
  <2> HIDE DEF Loop, low
  <2> QED
    BY <1>6, <2>1, LoopRuns
<1>8. Loop(g)
  <2>1. g = [i \in 0 .. 8 |-> g[i]]
    OBVIOUS
  <2>2. g[0] = 0 /\ \A i \in 1 .. 8 : g[i] = g[i - 1] + term[i]
    BY <1>7 DEF Turns, step
  <2> QED
    BY <1>5, <2>1, <2>2
<1>9. Loop(low)
  <2> HIDE DEF Loop
  <2> QED
    BY <1>8
<1>10. low[8] = Binary(d)
  <2> HIDE DEF low
  <2>1. low[0] = 0 /\ \A i \in 1 .. 8 : low[i] = low[i - 1] + term[i]
    BY <1>5, <1>9
  <2>2. /\ low[1] = low[0] + d[0] /\ low[2] = low[1] + 2 * d[1] /\ low[3] = low[2] + 4 * d[2]
        /\ low[4] = low[3] + 8 * d[3] /\ low[5] = low[4] + 16 * d[4]
        /\ low[6] = low[5] + 32 * d[5] /\ low[7] = low[6] + 64 * d[6]
        /\ low[8] = low[7] + 128 * d[7]
    BY <1>3, <2>1
  <2> QED
    BY <1>2, <2>1, <2>2 DEF Binary
<1> QED
  <2> HIDE DEF low, Loop
  <2> QED
    BY <1>1, <1>10 DEF d

(* The same, read digit by digit.                                          *)
LEMMA XorDigits ==
  ASSUME NEW a \in Byte, NEW b \in Byte
  PROVE  /\ a \oplus b \in Byte
         /\ \A i \in 0 .. 7 : Digits(a \oplus b)[i] = Plus(Digits(a)[i], Digits(b)[i])
<1> DEFINE d == [i \in 0 .. 7 |-> Plus(Digits(a)[i], Digits(b)[i])]
<1>1. d \in [0 .. 7 -> {0, 1}]
  BY DigitsOf DEF Plus
<1>2. a \oplus b = Binary(d)
  BY XorIsBitwise
<1>3. \A i \in 0 .. 7 : d[i] = Plus(Digits(a)[i], Digits(b)[i])
  OBVIOUS
<1> HIDE DEF d
<1> QED
  BY <1>1, <1>2, <1>3, DigitsMake

(* A byte is known by its digits.                                          *)
LEMMA SameDigits ==
  ASSUME NEW a \in Byte, NEW b \in Byte, \A i \in 0 .. 7 : Digits(a)[i] = Digits(b)[i]
  PROVE  a = b
<1>1. Binary(Digits(a)) = Binary(Digits(b))
  BY DEF Binary
<1> QED
  BY <1>1, DigitsOf

(* Bytes under exclusive or are a group in which each is its own inverse.  *)
LEMMA XorLaws ==
  ASSUME NEW a \in Byte, NEW b \in Byte, NEW c \in Byte
  PROVE  /\ a \oplus b = b \oplus a
         /\ a \oplus (b \oplus c) = (a \oplus b) \oplus c
         /\ 0 \in Byte /\ a \oplus 0 = a /\ a \oplus a = 0
<1>1. 0 \in Byte /\ \A i \in 0 .. 7 : Digits(0)[i] = 0
  <2> DEFINE d == [i \in 0 .. 7 |-> 0]
  <2>1. d \in [0 .. 7 -> {0, 1}] /\ \A i \in 0 .. 7 : d[i] = 0
    OBVIOUS
  <2> HIDE DEF d
  <2>2. Binary(d) = 0
    BY <2>1 DEF Binary
  <2> QED
    BY <2>1, <2>2, DigitsMake
<1>2. \A i \in 0 .. 7 : Digits(a)[i] \in {0, 1} /\ Digits(b)[i] \in {0, 1} /\ Digits(c)[i] \in {0, 1}
  BY DigitsOf
<1>3. a \oplus b = b \oplus a
  <2>1. \A i \in 0 .. 7 : Digits(a \oplus b)[i] = Digits(b \oplus a)[i]
    BY <1>2, XorDigits DEF Plus
  <2> QED
    BY <2>1, XorDigits, SameDigits
<1>4. a \oplus (b \oplus c) = (a \oplus b) \oplus c
  <2>1. a \oplus b \in Byte /\ b \oplus c \in Byte
    BY XorDigits
  <2>2. \A i \in 0 .. 7 : Digits(a \oplus (b \oplus c))[i] = Digits((a \oplus b) \oplus c)[i]
    <3> SUFFICES ASSUME NEW i \in 0 .. 7
                 PROVE  Digits(a \oplus (b \oplus c))[i] = Digits((a \oplus b) \oplus c)[i]
      OBVIOUS
    <3>1. /\ Digits(a \oplus (b \oplus c))[i] = Plus(Digits(a)[i], Plus(Digits(b)[i], Digits(c)[i]))
          /\ Digits((a \oplus b) \oplus c)[i] = Plus(Plus(Digits(a)[i], Digits(b)[i]), Digits(c)[i])
      BY <2>1, XorDigits
    <3> QED
      BY <1>2, <3>1 DEF Plus
  <2>3. a \oplus (b \oplus c) \in Byte /\ (a \oplus b) \oplus c \in Byte
    BY <2>1, XorDigits
  <2> QED
    BY <2>2, <2>3, SameDigits
<1>5. a \oplus 0 = a
  <2>1. \A i \in 0 .. 7 : Digits(a \oplus 0)[i] = Digits(a)[i]
    BY <1>1, <1>2, XorDigits DEF Plus
  <2> QED
    BY <1>1, <2>1, XorDigits, SameDigits
<1>6. a \oplus a = 0
  <2>1. \A i \in 0 .. 7 : Digits(a \oplus a)[i] = Digits(0)[i]
    BY <1>1, <1>2, XorDigits DEF Plus
  <2> QED
    BY <1>1, <2>1, XorDigits, SameDigits
<1> QED
  BY <1>1, <1>3, <1>4, <1>5, <1>6

(* a written in binary, lowest digit first.                                *)
Written(a, d0, d1, d2, d3, d4, d5, d6, d7) ==
  /\ d0 \in 0 .. 1 /\ d1 \in 0 .. 1 /\ d2 \in 0 .. 1 /\ d3 \in 0 .. 1
  /\ d4 \in 0 .. 1 /\ d5 \in 0 .. 1 /\ d6 \in 0 .. 1 /\ d7 \in 0 .. 1
  /\ a = d0 + 2 * d1 + 4 * d2 + 8 * d3 + 16 * d4 + 32 * d5 + 64 * d6 + 128 * d7

HasDigits(a, d0, d1, d2, d3, d4, d5, d6, d7) ==
  /\ a \in Byte
  /\ Digits(a)[0] = d0 /\ Digits(a)[1] = d1 /\ Digits(a)[2] = d2 /\ Digits(a)[3] = d3
  /\ Digits(a)[4] = d4 /\ Digits(a)[5] = d5 /\ Digits(a)[6] = d6 /\ Digits(a)[7] = d7

(* What is written in binary has these digits.                             *)
LEMMA WrittenDigits ==
  ASSUME NEW a, NEW d0, NEW d1, NEW d2, NEW d3, NEW d4, NEW d5, NEW d6, NEW d7,
         Written(a, d0, d1, d2, d3, d4, d5, d6, d7)
  PROVE  HasDigits(a, d0, d1, d2, d3, d4, d5, d6, d7)
<1>1. /\ a \in 0 .. 255
      /\ Bit(a, 0) = d0 /\ Bit(a, 1) = d1 /\ Bit(a, 2) = d2 /\ Bit(a, 3) = d3
      /\ Bit(a, 4) = d4 /\ Bit(a, 5) = d5 /\ Bit(a, 6) = d6 /\ Bit(a, 7) = d7
  BY DigitsRead DEF Written
<1> QED
  BY <1>1 DEF Digits, Byte, HasDigits

(* Every byte can be written so.                                           *)
LEMMA WriteByte ==
  ASSUME NEW a \in Byte
  PROVE  \E d0, d1, d2, d3, d4, d5, d6, d7 : Written(a, d0, d1, d2, d3, d4, d5, d6, d7)
<1>1. Digits(a) \in [0 .. 7 -> {0, 1}] /\ a = Binary(Digits(a))
  BY DigitsOf
<1>2. Written(a, Digits(a)[0], Digits(a)[1], Digits(a)[2], Digits(a)[3],
                 Digits(a)[4], Digits(a)[5], Digits(a)[6], Digits(a)[7])
  BY <1>1 DEF Binary, Written
<1> QED
  BY <1>2

(* The digits of a sum.                                                    *)
LEMMA XorWritten ==
  ASSUME NEW a, NEW d0, NEW d1, NEW d2, NEW d3, NEW d4, NEW d5, NEW d6, NEW d7,
         Written(a, d0, d1, d2, d3, d4, d5, d6, d7),
         NEW b, NEW e0, NEW e1, NEW e2, NEW e3, NEW e4, NEW e5, NEW e6, NEW e7,
         Written(b, e0, e1, e2, e3, e4, e5, e6, e7)
  PROVE  Written(a \oplus b, Plus(d0, e0), Plus(d1, e1), Plus(d2, e2), Plus(d3, e3),
                             Plus(d4, e4), Plus(d5, e5), Plus(d6, e6), Plus(d7, e7))
<1>1. /\ HasDigits(a, d0, d1, d2, d3, d4, d5, d6, d7)
      /\ HasDigits(b, e0, e1, e2, e3, e4, e5, e6, e7)
  BY WrittenDigits
<1> DEFINE c == [i \in 0 .. 7 |-> Plus(Digits(a)[i], Digits(b)[i])]
<1>2. a \oplus b = Binary(c)
  BY <1>1, XorIsBitwise DEF HasDigits
<1>3. /\ c[0] = Plus(d0, e0) /\ c[1] = Plus(d1, e1) /\ c[2] = Plus(d2, e2) /\ c[3] = Plus(d3, e3)
      /\ c[4] = Plus(d4, e4) /\ c[5] = Plus(d5, e5) /\ c[6] = Plus(d6, e6) /\ c[7] = Plus(d7, e7)
  BY <1>1 DEF HasDigits
<1> HIDE DEF c
<1>4. \A x, y \in 0 .. 1 : Plus(x, y) \in 0 .. 1
  BY DEF Plus
<1> QED
  BY <1>2, <1>3, <1>4 DEF Binary, Written

(* Shift moves each digit up and adds the highest at 0, 1, 3 and 4.        *)
LEMMA ShiftWritten ==
  ASSUME NEW a, NEW d0, NEW d1, NEW d2, NEW d3, NEW d4, NEW d5, NEW d6, NEW d7,
         Written(a, d0, d1, d2, d3, d4, d5, d6, d7)
  PROVE  Written(Shift(a), d7, Plus(d0, d7), d1, Plus(d2, d7), Plus(d3, d7), d4, d5, d6)
<1> DEFINE w == 0 + 2 * d0 + 4 * d1 + 8 * d2 + 16 * d3 + 32 * d4 + 64 * d5 + 128 * d6
<1>1. Written(w, 0, d0, d1, d2, d3, d4, d5, d6)
  BY DEF Written
<1>2. w \in 0 .. 255
  BY DEF Written
<1>3. 2 * a = w + 256 * d7
  BY DEF Written
<1>4. a \in Int /\ d7 \in 0 .. 1 /\ (a >= 128 <=> d7 = 1)
  BY DEF Written
<1> HIDE DEF w
<1>5. \A x \in 0 .. 1 : Plus(x, 0) = x /\ Plus(0, x) = x
  BY DEF Plus
<1>6. CASE d7 = 0
  <2>1. Shift(a) = w
    BY <1>2, <1>3, <1>4, <1>6 DEF Shift
  <2> QED
    BY <1>1, <1>5, <1>6, <2>1 DEF Written
<1>7. CASE d7 = 1
  <2>1. (2 * a) % 256 = w /\ a >= 128
    BY <1>2, <1>3, <1>4, <1>7
  <2>2. Shift(a) = w \oplus 27
    BY <2>1 DEF Shift
  <2>3. Written(27, 1, 1, 0, 1, 1, 0, 0, 0)
    BY DEF Written
  <2>4. Written(w \oplus 27, Plus(0, 1), Plus(d0, 1), Plus(d1, 0), Plus(d2, 1),
                             Plus(d3, 1), Plus(d4, 0), Plus(d5, 0), Plus(d6, 0))
    BY <1>1, <2>3, XorWritten
  <2>5. Plus(0, 1) = 1 /\ Plus(d1, 0) = d1 /\ Plus(d4, 0) = d4 /\ Plus(d5, 0) = d5 /\ Plus(d6, 0) = d6
    BY <1>5 DEF Written
  <2> QED
    BY <1>7, <2>2, <2>4, <2>5
<1> QED
  BY <1>4, <1>6, <1>7

ShiftsTo(c, a) ==
  /\ Digits(c)[0] = Digits(a)[7] /\ Digits(c)[1] = Plus(Digits(a)[0], Digits(a)[7])
  /\ Digits(c)[2] = Digits(a)[1] /\ Digits(c)[3] = Plus(Digits(a)[2], Digits(a)[7])
  /\ Digits(c)[4] = Plus(Digits(a)[3], Digits(a)[7]) /\ Digits(c)[5] = Digits(a)[4]
  /\ Digits(c)[6] = Digits(a)[5] /\ Digits(c)[7] = Digits(a)[6]

(* The same, read digit by digit.                                          *)
LEMMA ShiftDigits ==
  ASSUME NEW a \in Byte
  PROVE  Shift(a) \in Byte /\ ShiftsTo(Shift(a), a)
<1>1. PICK d0, d1, d2, d3, d4, d5, d6, d7 : Written(a, d0, d1, d2, d3, d4, d5, d6, d7)
  BY WriteByte
<1>2. HasDigits(a, d0, d1, d2, d3, d4, d5, d6, d7)
  BY <1>1, WrittenDigits
<1>3. HasDigits(Shift(a), d7, Plus(d0, d7), d1, Plus(d2, d7), Plus(d3, d7), d4, d5, d6)
  BY <1>1, ShiftWritten, WrittenDigits
<1> QED
  BY <1>2, <1>3 DEF HasDigits, ShiftsTo

(* Shift is linear.                                                        *)
LEMMA ShiftAdds ==
  ASSUME NEW a \in Byte, NEW b \in Byte
  PROVE  Shift(a \oplus b) = Shift(a) \oplus Shift(b)
<1>1. /\ a \oplus b \in Byte /\ Shift(a) \in Byte /\ Shift(b) \in Byte
      /\ Shift(a \oplus b) \in Byte /\ Shift(a) \oplus Shift(b) \in Byte
  BY XorDigits, ShiftDigits
<1>2. /\ ShiftsTo(Shift(a), a) /\ ShiftsTo(Shift(b), b) /\ ShiftsTo(Shift(a \oplus b), a \oplus b)
  BY <1>1, ShiftDigits
<1>3. \A i \in 0 .. 7 : /\ Digits(a)[i] \in {0, 1} /\ Digits(b)[i] \in {0, 1}
                        /\ Digits(a \oplus b)[i] = Plus(Digits(a)[i], Digits(b)[i])
                        /\ Digits(Shift(a) \oplus Shift(b))[i]
                             = Plus(Digits(Shift(a))[i], Digits(Shift(b))[i])
  BY <1>1, DigitsOf, XorDigits
<1>4. ASSUME NEW x \in {0, 1}, NEW y \in {0, 1}, NEW u \in {0, 1}, NEW v \in {0, 1}
      PROVE  Plus(Plus(x, y), Plus(u, v)) = Plus(Plus(x, u), Plus(y, v))
  BY DEF Plus
<1>5. \A i \in 0 .. 7 : Digits(Shift(a \oplus b))[i] = Digits(Shift(a) \oplus Shift(b))[i]
  <2> SUFFICES ASSUME NEW i \in 0 .. 7
               PROVE  Digits(Shift(a \oplus b))[i] = Digits(Shift(a) \oplus Shift(b))[i]
    OBVIOUS
  <2>1. i \in {0, 1, 2, 3, 4, 5, 6, 7}
    OBVIOUS
  <2> QED
    BY <1>2, <1>3, <1>4, <2>1 DEF ShiftsTo
<1> QED
  BY <1>1, <1>5, SameDigits

(* Half of a byte and the bit that is lost.                                *)
LEMMA Halves ==
  ASSUME NEW a \in Byte
  PROVE  /\ a \div 2 \in Byte /\ a % 2 \in {0, 1} /\ a \div 2 < 128
         /\ Shift(a \div 2) = 2 * (a \div 2)
         /\ a = Shift(a \div 2) \oplus (a % 2)
         /\ a # 0 => a \div 2 < a
<1>1. PICK d0, d1, d2, d3, d4, d5, d6, d7 : Written(a, d0, d1, d2, d3, d4, d5, d6, d7)
  BY WriteByte
<1> DEFINE h == d1 + 2 * d2 + 4 * d3 + 8 * d4 + 16 * d5 + 32 * d6 + 64 * d7 + 128 * 0
           b == 2 * h
<1>2. Written(h, d1, d2, d3, d4, d5, d6, d7, 0)
  BY <1>1 DEF Written
<1>3. h \in 0 .. 127 /\ a = 2 * h + d0 /\ d0 \in 0 .. 1
  BY <1>1 DEF Written
<1>4. Written(b, 0, d1, d2, d3, d4, d5, d6, d7)
  BY <1>1 DEF Written
<1> HIDE DEF h
<1>5. a \div 2 = h /\ a % 2 = d0
  BY <1>3
<1>6. Shift(h) = b /\ (a # 0 => h < a)
  BY <1>3 DEF Shift
<1> HIDE DEF b
<1>7. Written(d0, d0, 0, 0, 0, 0, 0, 0, 0)
  BY <1>3 DEF Written
<1>8. Written(b \oplus d0, Plus(0, d0), Plus(d1, 0), Plus(d2, 0), Plus(d3, 0),
                           Plus(d4, 0), Plus(d5, 0), Plus(d6, 0), Plus(d7, 0))
  BY <1>4, <1>7, XorWritten
<1>9. \A x \in 0 .. 1 : Plus(x, 0) = x /\ Plus(0, x) = x
  BY DEF Plus
<1>10. b \oplus d0 = a
  BY <1>1, <1>8, <1>9 DEF Written
<1> QED
  BY <1>3, <1>5, <1>6, <1>10 DEF Byte, b

(* a without its lowest digit, d, is h.                                    *)
DigitOff(a, h, d) == a \in Byte /\ h = a \div 2 /\ d = a % 2

(* Taking the lowest digit off moves the others down.                      *)
LEMMA HalfWritten ==
  ASSUME NEW a, NEW d0, NEW d1, NEW d2, NEW d3, NEW d4, NEW d5, NEW d6, NEW d7,
         Written(a, d0, d1, d2, d3, d4, d5, d6, d7)
  PROVE  \E h : DigitOff(a, h, d0) /\ Written(h, d1, d2, d3, d4, d5, d6, d7, 0)
<1> DEFINE h == d1 + 2 * d2 + 4 * d3 + 8 * d4 + 16 * d5 + 32 * d6 + 64 * d7 + 128 * 0
<1>1. Written(h, d1, d2, d3, d4, d5, d6, d7, 0)
  BY DEF Written
<1>2. h \in 0 .. 127 /\ a = 2 * h + d0 /\ d0 \in 0 .. 1
  BY DEF Written
<1> HIDE DEF h
<1>3. DigitOff(a, h, d0)
  BY <1>2 DEF DigitOff, Byte
<1> QED
  BY <1>1, <1>3

(* Halving is linear.                                                      *)
LEMMA HalvesAdd ==
  ASSUME NEW a \in Byte, NEW b \in Byte
  PROVE  /\ (a \oplus b) \div 2 = (a \div 2) \oplus (b \div 2)
         /\ (a \oplus b) % 2 = Plus(a % 2, b % 2)
<1>1. PICK d0, d1, d2, d3, d4, d5, d6, d7 : Written(a, d0, d1, d2, d3, d4, d5, d6, d7)
  BY WriteByte
<1>2. PICK e0, e1, e2, e3, e4, e5, e6, e7 : Written(b, e0, e1, e2, e3, e4, e5, e6, e7)
  BY WriteByte
<1>3. Written(a \oplus b, Plus(d0, e0), Plus(d1, e1), Plus(d2, e2), Plus(d3, e3),
                          Plus(d4, e4), Plus(d5, e5), Plus(d6, e6), Plus(d7, e7))
  BY <1>1, <1>2, XorWritten
<1>4. PICK h : DigitOff(a, h, d0) /\ Written(h, d1, d2, d3, d4, d5, d6, d7, 0)
  BY <1>1, HalfWritten
<1>5. PICK g : DigitOff(b, g, e0) /\ Written(g, e1, e2, e3, e4, e5, e6, e7, 0)
  BY <1>2, HalfWritten
<1>6. PICK x : DigitOff(a \oplus b, x, Plus(d0, e0))
               /\ Written(x, Plus(d1, e1), Plus(d2, e2), Plus(d3, e3),
                          Plus(d4, e4), Plus(d5, e5), Plus(d6, e6), Plus(d7, e7), 0)
  BY <1>3, HalfWritten
<1>7. Written(h \oplus g, Plus(d1, e1), Plus(d2, e2), Plus(d3, e3),
              Plus(d4, e4), Plus(d5, e5), Plus(d6, e6), Plus(d7, e7), Plus(0, 0))
  BY <1>4, <1>5, XorWritten
<1>8. Plus(0, 0) = 0
  BY DEF Plus
<1>9. x = h \oplus g
  BY <1>6, <1>7, <1>8 DEF Written
<1> QED
  BY <1>4, <1>5, <1>6, <1>9 DEF DigitOff
-----------------------------------------------------------------------------
(*****************************************************************************)
(* Multiplication.                                                         *)
(*****************************************************************************)
(* The rounds of the peasant multiplication.                               *)
Peasant(a, b) ==
  LET after[i \in 0 .. 8] ==
        IF i = 0 THEN [r |-> 0, a |-> a, b |-> b]
        ELSE [r |-> IF after[i - 1].b % 2 = 1 THEN after[i - 1].r \oplus after[i - 1].a
                    ELSE after[i - 1].r,
              a |-> Shift(after[i - 1].a),
              b |-> after[i - 1].b \div 2]
  IN after

PeasantRuns(f, a, b) ==
  /\ f[0].r = 0 /\ f[0].a = a /\ f[0].b = b
  /\ \A i \in 0 .. 8 : f[i].r \in Byte /\ f[i].a \in Byte /\ f[i].b \in Byte
  /\ \A i \in 0 .. 7 :
       /\ f[i + 1].r = IF f[i].b % 2 = 1 THEN f[i].r \oplus f[i].a ELSE f[i].r
       /\ f[i + 1].a = Shift(f[i].a)
       /\ f[i + 1].b = f[i].b \div 2

(* The recursion makes these rounds, and the product is what the eighth    *)
(* leaves.                                                                 *)
LEMMA PeasantFacts ==
  ASSUME NEW a \in Byte, NEW b \in Byte
  PROVE  PeasantRuns(Peasant(a, b), a, b) /\ a \otimes b = Peasant(a, b)[8].r
<1> DEFINE X == [r : Byte, a : Byte, b : Byte]
           start == [r |-> 0, a |-> a, b |-> b]
           Round(s) == [r |-> IF s.b % 2 = 1 THEN s.r \oplus s.a ELSE s.r,
                        a |-> Shift(s.a),
                        b |-> s.b \div 2]
           Loop(f) == f = [i \in 0 .. 8 |-> IF i = 0 THEN start ELSE Round(f[i - 1])]
           step == [i \in 1 .. 8 |-> [s \in X |-> Round(s)]]
           after == Peasant(a, b)
<1>1. a \otimes b = after[8].r
  BY DEF \otimes, MulTable, GfMul, EightTimes, Peasant
<1>2. after = CHOOSE f : Loop(f)
  BY DEF Peasant
<1> HIDE DEF after
<1>3. ASSUME NEW s \in X
      PROVE  /\ Round(s) \in X
             /\ Round(s).r = IF s.b % 2 = 1 THEN s.r \oplus s.a ELSE s.r
             /\ Round(s).a = Shift(s.a) /\ Round(s).b = s.b \div 2
  <2>1. s.r \oplus s.a \in Byte /\ Shift(s.a) \in Byte /\ s.b \div 2 \in Byte
    BY XorDigits, ShiftDigits, Halves
  <2> QED
    BY <2>1
<1>4. start \in X /\ start.r = 0 /\ start.a = a /\ start.b = b
  BY DEF Byte
<1> HIDE DEF Round, start, X
<1>5. step \in [1 .. 8 -> [X -> X]]
  BY <1>3
<1>6. \A i \in 1 .. 8, s \in X : step[i][s] = Round(s)
  OBVIOUS
<1> HIDE DEF step
<1>7. PICK g \in [0 .. 8 -> X] : Turns(g, start, step, 8)
  <2>1. 8 \in Nat
    OBVIOUS
  <2> QED
    BY <1>4, <1>5, <2>1, LoopRuns
<1>8. Loop(g)
  <2>1. g = [i \in 0 .. 8 |-> g[i]]
    OBVIOUS
  <2>2. g[0] = start /\ \A i \in 1 .. 8 : g[i] = Round(g[i - 1])
    BY <1>6, <1>7 DEF Turns
  <2> QED
    BY <2>1, <2>2
<1>9. Loop(after)
  <2> HIDE DEF Loop
  <2> QED
    BY <1>2, <1>8
<1>10. after[0] = start /\ \A i \in 0 .. 7 : after[i + 1] = Round(after[i])
  <2>1. after[0] = start /\ \A i \in 1 .. 8 : after[i] = Round(after[i - 1])
    BY <1>9
  <2>2. \A i \in 0 .. 7 : i + 1 \in 1 .. 8 /\ (i + 1) - 1 = i
    OBVIOUS
  <2> QED
    BY <2>1, <2>2
<1>11. \A i \in 0 .. 8 : after[i] \in X
  <2>1. SameTurns(after, g, 8)
    <3>1. g[0] = start /\ \A i \in 1 .. 8 : g[i] = Round(g[i - 1])
      BY <1>6, <1>7 DEF Turns
    <3>2. after[0] = start /\ \A i \in 1 .. 8 : after[i] = Round(after[i - 1])
      BY <1>9
    <3> QED
      BY <3>1, <3>2 DEF SameTurns
  <2>2. \A i \in 0 .. 8 : after[i] = g[i]
    <3>1. 8 \in Nat
      OBVIOUS
    <3> QED
      BY <2>1, <3>1, LoopsAgree
  <2> QED
    BY <2>2
<1>12. PeasantRuns(after, a, b)
  <2>1. \A i \in 0 .. 8 : after[i].r \in Byte /\ after[i].a \in Byte /\ after[i].b \in Byte
    BY <1>11 DEF X
  <2>2. \A i \in 0 .. 7 :
          /\ after[i + 1].r = IF after[i].b % 2 = 1 THEN after[i].r \oplus after[i].a ELSE after[i].r
          /\ after[i + 1].a = Shift(after[i].a)
          /\ after[i + 1].b = after[i].b \div 2
    BY <1>3, <1>10, <1>11
  <2> QED
    BY <1>4, <1>10, <2>1, <2>2 DEF PeasantRuns
<1> QED
  BY <1>1, <1>12 DEF after

(* What holds before every round, for a set in the place of a predicate.   *)
LEMMA EightRounds ==
  ASSUME NEW S, 0 \in S, \A i \in 0 .. 7 : i \in S => i + 1 \in S
  PROVE  \A i \in 0 .. 8 : i \in S
<1> DEFINE R == {i \in Nat : i <= 8 => i \in S}
<1>1. 0 \in R
  OBVIOUS
<1>2. ASSUME NEW i \in Nat, i \in R PROVE i + 1 \in R
  BY <1>2
<1> HIDE DEF R
<1>3. Nat \subseteq R
  BY <1>1, <1>2, InductionOnSet
<1> QED
  BY <1>3 DEF R

(* A product of bytes is a byte.                                           *)
LEMMA MulClosed ==
  ASSUME NEW a \in Byte, NEW b \in Byte
  PROVE  a \otimes b \in Byte
<1>1. 8 \in 0 .. 8
  OBVIOUS
<1> QED
  BY <1>1, PeasantFacts DEF PeasantRuns

(* Four terms of a sum, the middle two swapped.                            *)
LEMMA XorSwap ==
  ASSUME NEW x \in Byte, NEW y \in Byte, NEW u \in Byte, NEW v \in Byte
  PROVE  (x \oplus y) \oplus (u \oplus v) = (x \oplus u) \oplus (y \oplus v)
<1>1. y \oplus (u \oplus v) = u \oplus (y \oplus v)
  <2>1. y \oplus (u \oplus v) = (y \oplus u) \oplus v /\ u \oplus (y \oplus v) = (u \oplus y) \oplus v
    BY XorLaws
  <2>2. y \oplus u = u \oplus y
    BY XorLaws
  <2> QED
    BY <2>1, <2>2
<1>2. u \oplus v \in Byte /\ y \oplus v \in Byte
  BY XorDigits
<1>3. /\ (x \oplus y) \oplus (u \oplus v) = x \oplus (y \oplus (u \oplus v))
      /\ (x \oplus u) \oplus (y \oplus v) = x \oplus (u \oplus (y \oplus v))
  BY <1>2, XorLaws
<1> QED
  BY <1>1, <1>3

(* The product is linear in its first factor.                              *)
LEMMA MulAddsFirst ==
  ASSUME NEW a \in Byte, NEW b \in Byte, NEW c \in Byte
  PROVE  (a \oplus c) \otimes b = (a \otimes b) \oplus (c \otimes b)
<1> DEFINE f == Peasant(a, b)
           g == Peasant(c, b)
           h == Peasant(a \oplus c, b)
           S == {i \in 0 .. 8 : /\ h[i].b = f[i].b /\ h[i].b = g[i].b
                                /\ h[i].a = f[i].a \oplus g[i].a
                                /\ h[i].r = f[i].r \oplus g[i].r}
<1>1. /\ PeasantRuns(f, a, b) /\ PeasantRuns(g, c, b) /\ PeasantRuns(h, a \oplus c, b)
      /\ a \otimes b = f[8].r /\ c \otimes b = g[8].r /\ (a \oplus c) \otimes b = h[8].r
  BY PeasantFacts, XorDigits
<1> HIDE DEF f, g, h
<1>2. 0 \in S
  <2>1. 0 \oplus 0 = 0
    BY BytesAre, XorLaws
  <2> QED
    BY <1>1, <2>1 DEF PeasantRuns
<1>3. ASSUME NEW i \in 0 .. 7, i \in S PROVE i + 1 \in S
  <2>1. /\ f[i].a \in Byte /\ f[i].r \in Byte /\ g[i].a \in Byte /\ g[i].r \in Byte
    BY <1>1 DEF PeasantRuns
  <2>2. /\ h[i + 1].b = f[i + 1].b /\ h[i + 1].b = g[i + 1].b
    BY <1>1, <1>3 DEF PeasantRuns
  <2>3. h[i + 1].a = f[i + 1].a \oplus g[i + 1].a
    BY <1>1, <1>3, <2>1, ShiftAdds DEF PeasantRuns
  <2>4. h[i + 1].r = f[i + 1].r \oplus g[i + 1].r
    <3>1. /\ (f[i].r \oplus g[i].r) \oplus (f[i].a \oplus g[i].a)
             = (f[i].r \oplus f[i].a) \oplus (g[i].r \oplus g[i].a)
      BY <2>1, XorSwap
    <3>2. CASE h[i].b % 2 = 1
      BY <1>1, <1>3, <3>1, <3>2 DEF PeasantRuns
    <3>3. CASE h[i].b % 2 # 1
      BY <1>1, <1>3, <3>3 DEF PeasantRuns
    <3> QED
      BY <3>2, <3>3
  <2>5. i + 1 \in 0 .. 8
    OBVIOUS
  <2> QED
    BY <2>2, <2>3, <2>4, <2>5
<1> HIDE DEF S
<1>4. 8 \in S
  BY <1>2, <1>3, EightRounds
<1> QED
  BY <1>1, <1>4 DEF S

(* And in its second.                                                      *)
LEMMA MulAddsSecond ==
  ASSUME NEW a \in Byte, NEW b \in Byte, NEW c \in Byte
  PROVE  a \otimes (b \oplus c) = (a \otimes b) \oplus (a \otimes c)
<1> DEFINE f == Peasant(a, b)
           g == Peasant(a, c)
           h == Peasant(a, b \oplus c)
           S == {i \in 0 .. 8 : /\ h[i].a = f[i].a /\ h[i].a = g[i].a
                                /\ h[i].b = f[i].b \oplus g[i].b
                                /\ h[i].r = f[i].r \oplus g[i].r}
<1>1. /\ PeasantRuns(f, a, b) /\ PeasantRuns(g, a, c) /\ PeasantRuns(h, a, b \oplus c)
      /\ a \otimes b = f[8].r /\ a \otimes c = g[8].r /\ a \otimes (b \oplus c) = h[8].r
  BY PeasantFacts, XorDigits
<1> HIDE DEF f, g, h
<1>2. 0 \in S
  <2>1. 0 \oplus 0 = 0
    BY BytesAre, XorLaws
  <2> QED
    BY <1>1, <2>1 DEF PeasantRuns
<1>3. ASSUME NEW i \in 0 .. 7, i \in S PROVE i + 1 \in S
  <2> PICK x, s, t, u, v :
        /\ x = h[i].a /\ s = f[i].r /\ t = g[i].r /\ u = f[i].b /\ v = g[i].b
    OBVIOUS
  <2>1. /\ x \in Byte /\ s \in Byte /\ t \in Byte /\ u \in Byte /\ v \in Byte
        /\ f[i].a = x /\ g[i].a = x /\ h[i].b = u \oplus v /\ h[i].r = s \oplus t
    BY <1>1, <1>3 DEF PeasantRuns
  <2>2. /\ f[i + 1].a = Shift(x) /\ g[i + 1].a = Shift(x) /\ h[i + 1].a = Shift(x)
        /\ f[i + 1].b = u \div 2 /\ g[i + 1].b = v \div 2 /\ h[i + 1].b = (u \oplus v) \div 2
        /\ f[i + 1].r = (IF u % 2 = 1 THEN s \oplus x ELSE s)
        /\ g[i + 1].r = (IF v % 2 = 1 THEN t \oplus x ELSE t)
        /\ h[i + 1].r = (IF (u \oplus v) % 2 = 1 THEN (s \oplus t) \oplus x ELSE s \oplus t)
    BY <1>1, <2>1 DEF PeasantRuns
  <2>3. h[i + 1].b = f[i + 1].b \oplus g[i + 1].b
    BY <2>1, <2>2, HalvesAdd
  <2>4. /\ (s \oplus x) \oplus t = (s \oplus t) \oplus x
        /\ s \oplus (t \oplus x) = (s \oplus t) \oplus x
        /\ (s \oplus x) \oplus (t \oplus x) = s \oplus t
    <3>1. /\ s \oplus x \in Byte /\ s \oplus t \in Byte /\ x \oplus x = 0 /\ (s \oplus t) \oplus 0 = s \oplus t
      BY <2>1, XorDigits, XorLaws
    <3>2. (s \oplus x) \oplus (t \oplus x) = (s \oplus t) \oplus (x \oplus x)
      BY <2>1, XorSwap
    <3>3. s \oplus (t \oplus x) = (s \oplus t) \oplus x
      BY <2>1, XorLaws
    <3>4. (s \oplus x) \oplus t = s \oplus (x \oplus t) /\ x \oplus t = t \oplus x
      BY <2>1, XorLaws
    <3> QED
      BY <3>1, <3>2, <3>3, <3>4
  <2>5. /\ (u \oplus v) % 2 = Plus(u % 2, v % 2) /\ u % 2 \in {0, 1} /\ v % 2 \in {0, 1}
    BY <2>1, HalvesAdd, Halves
  <2>6. (u \oplus v) % 2 = 1 <=> (u % 2 = 1 <=> v % 2 # 1)
    BY <2>5 DEF Plus
  <2>7. h[i + 1].r = f[i + 1].r \oplus g[i + 1].r
    BY <2>2, <2>4, <2>6
  <2> QED
    BY <2>2, <2>3, <2>7
<1> HIDE DEF S
<1>4. 8 \in S
  BY <1>2, <1>3, EightRounds
<1> QED
  BY <1>1, <1>4 DEF S

(* To shift a factor is to shift the product.                              *)
LEMMA MulShiftFirst ==
  ASSUME NEW a \in Byte, NEW b \in Byte
  PROVE  Shift(a) \otimes b = Shift(a \otimes b)
<1> DEFINE f == Peasant(a, b)
           h == Peasant(Shift(a), b)
           S == {i \in 0 .. 8 : /\ h[i].b = f[i].b /\ h[i].a = Shift(f[i].a)
                                /\ h[i].r = Shift(f[i].r)}
<1>1. /\ PeasantRuns(f, a, b) /\ PeasantRuns(h, Shift(a), b)
      /\ a \otimes b = f[8].r /\ Shift(a) \otimes b = h[8].r
  BY PeasantFacts, ShiftDigits
<1> HIDE DEF f, h
<1>2. 0 \in S
  <2>1. Shift(0) = 0
    BY DEF Shift
  <2> QED
    BY <1>1, <2>1 DEF PeasantRuns
<1>3. ASSUME NEW i \in 0 .. 7, i \in S PROVE i + 1 \in S
  <2>1. f[i].a \in Byte /\ f[i].r \in Byte
    BY <1>1 DEF PeasantRuns
  <2>2. h[i + 1].b = f[i + 1].b /\ h[i + 1].a = Shift(f[i + 1].a)
    BY <1>1, <1>3 DEF PeasantRuns
  <2>3. h[i + 1].r = Shift(f[i + 1].r)
    BY <1>1, <1>3, <2>1, ShiftAdds DEF PeasantRuns
  <2> QED
    BY <2>2, <2>3
<1> HIDE DEF S
<1>4. 8 \in S
  BY <1>2, <1>3, EightRounds
<1> QED
  BY <1>1, <1>4 DEF S

(* Every byte comes of 1 by shifting and adding.                           *)
LEMMA ByteGenerated ==
  ASSUME NEW S, 0 \in S, 1 \in S,
         \A x, y \in Byte : x \in S /\ y \in S => x \oplus y \in S,
         \A x \in Byte : x \in S => Shift(x) \in S
  PROVE  Byte \subseteq S
<1> SUFFICES ASSUME Byte \ S # {} PROVE FALSE
  OBVIOUS
<1>1. Byte \ S \in SUBSET Nat
  BY BytesAre, Zenon
<1>2. PICK m \in Byte \ S : \A n \in Byte \ S : m <= n
  BY <1>1, LeastOf
<1>3. m # 0 /\ m \in Byte
  BY <1>2
<1>4. /\ m \div 2 \in Byte /\ m % 2 \in {0, 1} /\ m \div 2 < m
      /\ m = Shift(m \div 2) \oplus (m % 2)
  BY <1>3, Halves
<1> PICK h, p : h = m \div 2 /\ p = m % 2
  OBVIOUS
<1>5. h \in Byte /\ p \in {0, 1} /\ h < m /\ m = Shift(h) \oplus p
  BY <1>4
<1>6. h \in S
  <2>1. h \in Nat /\ m \in Nat
    BY <1>3, <1>5, BytesAre
  <2>2. ~ (m <= h)
    BY <1>5, <2>1
  <2> QED
    BY <1>2, <1>5, <2>2, Zenon
<1>7. Shift(h) \in S /\ Shift(h) \in Byte
  BY <1>5, <1>6, ShiftDigits
<1>8. p \in S /\ p \in Byte
  BY <1>5, BytesAre
<1> QED
  BY <1>2, <1>5, <1>7, <1>8

(* 1 is neutral.                                                           *)
LEMMA MulOne ==
  ASSUME NEW a \in Byte
  PROVE  a \otimes 1 = a
<1> DEFINE f == Peasant(a, 1)
           S == {i \in 0 .. 8 : i > 0 => f[i].b = 0 /\ f[i].r = a}
<1>1. PeasantRuns(f, a, 1) /\ a \otimes 1 = f[8].r
  BY BytesAre, PeasantFacts
<1> HIDE DEF f
<1>2. 0 \in S
  OBVIOUS
<1>3. ASSUME NEW i \in 0 .. 7, i \in S PROVE i + 1 \in S
  <2>1. i + 1 \in 0 .. 8
    OBVIOUS
  <2>2. CASE i = 0
    <3>1. 1 % 2 = 1 /\ 1 \div 2 = 0
      OBVIOUS
    <3>2. 0 \oplus a = a
      <4>1. 0 \oplus a = a \oplus 0 /\ a \oplus 0 = a
        BY BytesAre, XorLaws
      <4> QED
        BY <4>1
    <3>3. f[i + 1].b = 0 /\ f[i + 1].r = a
      BY <1>1, <2>2, <3>1, <3>2 DEF PeasantRuns
    <3> QED
      BY <2>1, <3>3
  <2>3. CASE i > 0
    <3>1. 0 % 2 # 1 /\ 0 \div 2 = 0
      OBVIOUS
    <3>2. f[i + 1].b = 0 /\ f[i + 1].r = a
      BY <1>1, <1>3, <2>3, <3>1 DEF PeasantRuns
    <3> QED
      BY <2>1, <3>2
  <2> QED
    BY <2>2, <2>3
<1> HIDE DEF S
<1>4. 8 \in S
  BY <1>2, <1>3, EightRounds
<1> QED
  BY <1>1, <1>4 DEF S

(* 0 times anything is 0.                                                  *)
LEMMA MulZero ==
  ASSUME NEW a \in Byte
  PROVE  a \otimes 0 = 0 /\ 0 \otimes a = 0
<1>1. 0 \in Byte /\ 0 \oplus 0 = 0
  BY BytesAre, XorLaws
<1>2. /\ a \otimes 0 = (a \otimes 0) \oplus (a \otimes 0)
      /\ 0 \otimes a = (0 \otimes a) \oplus (0 \otimes a)
  BY <1>1, MulAddsFirst, MulAddsSecond
<1>3. a \otimes 0 \in Byte /\ 0 \otimes a \in Byte
  BY <1>1, MulClosed
<1> QED
  BY <1>2, <1>3, XorLaws

(* A factor below 128 loses nothing when it is shifted.                    *)
LEMMA MulShiftLow ==
  ASSUME NEW a \in Byte, NEW b \in Byte, b < 128
  PROVE  a \otimes Shift(b) = Shift(a \otimes b)
<1> DEFINE f == Peasant(a, Shift(b))
           g == Peasant(Shift(a), b)
           S == {i \in 0 .. 8 : i < 8 => /\ f[i + 1].b = g[i].b /\ f[i + 1].a = g[i].a
                                         /\ f[i + 1].r = g[i].r}
<1>1. /\ PeasantRuns(f, a, Shift(b)) /\ PeasantRuns(g, Shift(a), b)
      /\ a \otimes Shift(b) = f[8].r /\ Shift(a) \otimes b = g[8].r
  BY PeasantFacts, ShiftDigits
<1> HIDE DEF f, g
<1>2. Shift(b) = 2 * b /\ Shift(b) % 2 = 0 /\ Shift(b) \div 2 = b
  BY DEF Shift, Byte
<1>3. 0 \in S
  <2>1. 0 + 1 = 1 /\ 0 \in 0 .. 7
    OBVIOUS
  <2>2. f[1].r = 0 /\ f[1].a = Shift(a) /\ f[1].b = b
    BY <1>1, <1>2, <2>1 DEF PeasantRuns
  <2> QED
    BY <1>1, <2>1, <2>2 DEF PeasantRuns
<1>4. ASSUME NEW i \in 0 .. 7, i \in S PROVE i + 1 \in S
  <2> SUFFICES ASSUME i + 1 < 8
               PROVE  /\ f[(i + 1) + 1].b = g[i + 1].b /\ f[(i + 1) + 1].a = g[i + 1].a
                      /\ f[(i + 1) + 1].r = g[i + 1].r
    OBVIOUS
  <2>1. i + 1 \in 0 .. 7 /\ i \in 0 .. 7
    OBVIOUS
  <2>2. f[i + 1].b = g[i].b /\ f[i + 1].a = g[i].a /\ f[i + 1].r = g[i].r
    BY <1>4
  <2> QED
    BY <1>1, <2>1, <2>2 DEF PeasantRuns
<1> HIDE DEF S
<1>5. 7 \in S
  BY <1>3, <1>4, EightRounds
<1>6. f[8].r = g[7].r
  <2>1. 7 + 1 = 8 /\ 7 < 8
    OBVIOUS
  <2> QED
    BY <1>5, <2>1 DEF S
<1>7. g[7].b = 0
  <2>1. /\ g[0].b = b /\ g[1].b = g[0].b \div 2 /\ g[2].b = g[1].b \div 2
        /\ g[3].b = g[2].b \div 2 /\ g[4].b = g[3].b \div 2 /\ g[5].b = g[4].b \div 2
        /\ g[6].b = g[5].b \div 2 /\ g[7].b = g[6].b \div 2
    BY <1>1 DEF PeasantRuns
  <2>2. g[1].b \in 0 .. 63
    BY <2>1 DEF Byte
  <2>3. g[2].b \in 0 .. 31
    BY <2>1, <2>2
  <2>4. g[3].b \in 0 .. 15
    BY <2>1, <2>3
  <2>5. g[4].b \in 0 .. 7
    BY <2>1, <2>4
  <2>6. g[5].b \in 0 .. 3
    BY <2>1, <2>5
  <2>7. g[6].b \in 0 .. 1
    BY <2>1, <2>6
  <2> QED
    BY <2>1, <2>7
<1>8. g[8].r = g[7].r
  <2>1. 0 % 2 # 1 /\ 7 \in 0 .. 7 /\ 7 + 1 = 8
    OBVIOUS
  <2> QED
    BY <1>1, <1>7, <2>1 DEF PeasantRuns
<1> QED
  BY <1>1, <1>6, <1>8, MulShiftFirst

(* The polynomial that Shift reduces by.                                   *)
LEMMA ShiftEight ==
  ASSUME NEW a \in Byte
  PROVE  Shift(Shift(Shift(Shift(Shift(Shift(Shift(Shift(a))))))))
           = Shift(Shift(Shift(Shift(a) \oplus a)) \oplus a) \oplus a
<1> DEFINE Up(x) == Shift(Shift(Shift(Shift(Shift(Shift(Shift(Shift(x))))))))
           Down(x) == Shift(Shift(Shift(Shift(x) \oplus x)) \oplus x) \oplus x
           S == {x \in Byte : Up(x) = Down(x)}
<1>1. 0 \in S
  <2>1. Shift(0) = 0 /\ 0 \in Byte
    BY DEF Shift, Byte
  <2>2. 0 \oplus 0 = 0
    BY <2>1, XorLaws
  <2> QED
    BY <2>1, <2>2
<1>2. 1 \in S
  <2>1. /\ Shift(1) = 2 /\ Shift(2) = 4 /\ Shift(4) = 8 /\ Shift(8) = 16 /\ Shift(16) = 32
        /\ Shift(32) = 64 /\ Shift(64) = 128 /\ Shift(3) = 6 /\ Shift(6) = 12 /\ Shift(13) = 26
    BY DEF Shift
  <2>2. Shift(128) = 27
    <3>1. Shift(128) = 0 \oplus 27
      BY DEF Shift
    <3>2. 27 \in Byte
      BY DEF Byte
    <3>3. 0 \oplus 27 = 27 \oplus 0 /\ 27 \oplus 0 = 27
      BY <3>2, BytesAre, XorLaws
    <3> QED
      BY <3>1, <3>3
  <2>3. /\ 3 = 2 \oplus 1 /\ 13 = 12 \oplus 1 /\ 27 = 26 \oplus 1
    <3>1. /\ 3 \div 2 = 1 /\ 3 % 2 = 1 /\ 13 \div 2 = 6 /\ 13 % 2 = 1
          /\ 27 \div 2 = 13 /\ 27 % 2 = 1 /\ 3 \in Byte /\ 13 \in Byte /\ 27 \in Byte
      BY DEF Byte
    <3>2. /\ 3 = Shift(3 \div 2) \oplus (3 % 2)
          /\ 13 = Shift(13 \div 2) \oplus (13 % 2)
          /\ 27 = Shift(27 \div 2) \oplus (27 % 2)
      BY <3>1, Halves
    <3> QED
      BY <2>1, <3>1, <3>2
  <2> QED
    BY <2>1, <2>2, <2>3 DEF Byte
<1>3. ASSUME NEW x \in Byte, NEW y \in Byte, x \in S, y \in S PROVE x \oplus y \in S
  <2>1. x \oplus y \in Byte
    BY XorDigits
  <2>2. Up(x \oplus y) = Up(x) \oplus Up(y)
    BY ShiftAdds, ShiftDigits
  <2>3. Down(x \oplus y) = Down(x) \oplus Down(y)
    <3>1. /\ Shift(x) \in Byte /\ Shift(y) \in Byte
          /\ Shift(x \oplus y) \oplus (x \oplus y) = (Shift(x) \oplus x) \oplus (Shift(y) \oplus y)
      BY ShiftAdds, ShiftDigits, XorSwap
    <3> DEFINE u == Shift(Shift(Shift(x) \oplus x))
               v == Shift(Shift(Shift(y) \oplus y))
    <3>2. /\ u \in Byte /\ v \in Byte
          /\ Shift(Shift(Shift(x \oplus y) \oplus (x \oplus y))) = u \oplus v
      <4> PICK s, t : s = Shift(x) \oplus x /\ t = Shift(y) \oplus y
        OBVIOUS
      <4>1. s \in Byte /\ t \in Byte /\ Shift(x \oplus y) \oplus (x \oplus y) = s \oplus t
        BY <3>1, XorDigits
      <4>2. Shift(s) \in Byte /\ Shift(t) \in Byte /\ Shift(s \oplus t) = Shift(s) \oplus Shift(t)
        BY <4>1, ShiftAdds, ShiftDigits
      <4>3. /\ Shift(Shift(s)) \in Byte /\ Shift(Shift(t)) \in Byte
            /\ Shift(Shift(s) \oplus Shift(t)) = Shift(Shift(s)) \oplus Shift(Shift(t))
        BY <4>2, ShiftAdds, ShiftDigits
      <4> QED
        BY <4>1, <4>2, <4>3
    <3> HIDE DEF u, v
    <3>3. (u \oplus v) \oplus (x \oplus y) = (u \oplus x) \oplus (v \oplus y)
      BY <3>2, XorSwap
    <3>4. /\ u \oplus x \in Byte /\ v \oplus y \in Byte
          /\ Shift((u \oplus v) \oplus (x \oplus y)) = Shift(u \oplus x) \oplus Shift(v \oplus y)
      BY <3>2, <3>3, ShiftAdds, XorDigits
    <3>5. /\ Shift(u \oplus x) \in Byte /\ Shift(v \oplus y) \in Byte
      BY <3>4, ShiftDigits
    <3>6. Down(x \oplus y) = (Shift(u \oplus x) \oplus Shift(v \oplus y)) \oplus (x \oplus y)
      BY <3>2, <3>4
    <3> QED
      BY <3>5, <3>6, XorSwap DEF u, v
  <2> QED
    BY <1>3, <2>1, <2>2, <2>3
<1>4. ASSUME NEW x \in Byte, x \in S PROVE Shift(x) \in S
  <2>1. Shift(x) \in Byte /\ Shift(Up(x)) = Up(Shift(x))
    BY ShiftDigits
  <2>2. Shift(Down(x)) = Down(Shift(x))
    <3>1. Shift(Shift(x) \oplus x) = Shift(Shift(x)) \oplus Shift(x)
      BY <2>1, ShiftAdds
    <3> DEFINE u == Shift(Shift(Shift(x) \oplus x))
    <3>2. u \in Byte /\ Shift(u) = Shift(Shift(Shift(Shift(x)) \oplus Shift(x)))
      BY <2>1, <3>1, ShiftDigits, XorDigits
    <3> HIDE DEF u
    <3>3. Shift(u \oplus x) = Shift(u) \oplus Shift(x) /\ Shift(u \oplus x) \in Byte
      BY <3>2, ShiftAdds, XorDigits, ShiftDigits
    <3>4. Shift(Shift(u \oplus x) \oplus x) = Shift(Shift(u) \oplus Shift(x)) \oplus Shift(x)
      BY <3>3, ShiftAdds
    <3> QED
      BY <3>2, <3>4 DEF u
  <2> QED
    BY <1>4, <2>1, <2>2
<1> HIDE DEF S
<1>5. Byte \subseteq S
  BY <1>1, <1>2, <1>3, <1>4, ByteGenerated
<1>6. a \in S
  BY <1>5
<1> QED
  BY <1>6 DEF S

(* Shifting the second factor shifts the product.                          *)
LEMMA MulShiftSecond ==
  ASSUME NEW a \in Byte, NEW b \in Byte
  PROVE  a \otimes Shift(b) = Shift(a \otimes b)
<1>1. CASE b < 128
  BY <1>1, MulShiftLow
<1>2. CASE b >= 128
  <2> DEFINE c == b \oplus 128
  <2>1. /\ 128 \in Byte /\ 64 \in Byte /\ 32 \in Byte /\ 16 \in Byte /\ 8 \in Byte /\ 4 \in Byte
        /\ 2 \in Byte /\ 3 \in Byte /\ 6 \in Byte /\ 13 \in Byte /\ 27 \in Byte /\ 1 \in Byte
        /\ 26 \in Byte /\ 12 \in Byte
    BY DEF Byte
  <2>2. c \in Byte /\ b = c \oplus 128 /\ c < 128
    <3>1. PICK d0, d1, d2, d3, d4, d5, d6, d7 : Written(b, d0, d1, d2, d3, d4, d5, d6, d7)
      BY WriteByte
    <3>2. d7 = 1
      BY <1>2, <3>1 DEF Written
    <3>3. Written(128, 0, 0, 0, 0, 0, 0, 0, 1)
      BY DEF Written
    <3>4. Written(c, Plus(d0, 0), Plus(d1, 0), Plus(d2, 0), Plus(d3, 0),
                     Plus(d4, 0), Plus(d5, 0), Plus(d6, 0), Plus(d7, 1))
      BY <3>1, <3>3, XorWritten
    <3>5. Plus(d7, 1) = 0
      BY <3>2 DEF Plus
    <3>6. c < 128
      BY <3>4, <3>5 DEF Written
    <3>7. c \in Byte
      BY <2>1, XorDigits
    <3>8. c \oplus 128 = b \oplus (128 \oplus 128) /\ 128 \oplus 128 = 0 /\ b \oplus 0 = b
      BY <2>1, XorLaws
    <3> QED
      BY <3>6, <3>7, <3>8
  <2> HIDE DEF c
  <2>3. a \otimes Shift(c) = Shift(a \otimes c)
    BY <2>2, MulShiftLow
  <2>4. /\ Shift(1) = 2 /\ Shift(2) = 4 /\ Shift(4) = 8 /\ Shift(8) = 16 /\ Shift(16) = 32
        /\ Shift(32) = 64 /\ Shift(64) = 128 /\ Shift(3) = 6 /\ Shift(6) = 12 /\ Shift(13) = 26
    BY DEF Shift
  <2>5. Shift(128) = 27
    <3>1. Shift(128) = 0 \oplus 27
      BY DEF Shift
    <3>2. 0 \oplus 27 = 27 \oplus 0 /\ 27 \oplus 0 = 27
      BY <2>1, BytesAre, XorLaws
    <3> QED
      BY <3>1, <3>2
  <2>6. 3 = 2 \oplus 1 /\ 13 = 12 \oplus 1 /\ 27 = 26 \oplus 1
    <3>1. /\ 3 \div 2 = 1 /\ 3 % 2 = 1 /\ 13 \div 2 = 6 /\ 13 % 2 = 1 /\ 27 \div 2 = 13 /\ 27 % 2 = 1
      OBVIOUS
    <3>2. /\ 3 = Shift(3 \div 2) \oplus (3 % 2) /\ 13 = Shift(13 \div 2) \oplus (13 % 2)
          /\ 27 = Shift(27 \div 2) \oplus (27 % 2)
      BY <2>1, Halves
    <3> QED
      BY <2>4, <3>1, <3>2
  <2>7. a \otimes 128
          = Shift(Shift(Shift(Shift(Shift(Shift(Shift(a)))))))
    <3>1. 64 < 128 /\ 32 < 128 /\ 16 < 128 /\ 8 < 128 /\ 4 < 128 /\ 2 < 128 /\ 1 < 128
      OBVIOUS
    <3>2. /\ a \otimes 128 = Shift(a \otimes 64) /\ a \otimes 64 = Shift(a \otimes 32)
          /\ a \otimes 32 = Shift(a \otimes 16) /\ a \otimes 16 = Shift(a \otimes 8)
          /\ a \otimes 8 = Shift(a \otimes 4) /\ a \otimes 4 = Shift(a \otimes 2)
          /\ a \otimes 2 = Shift(a \otimes 1)
      BY <2>1, <2>4, <3>1, MulShiftLow
    <3> QED
      BY <3>2, MulOne
  <2>8. a \otimes 27 = Shift(Shift(Shift(Shift(a) \oplus a)) \oplus a) \oplus a
    <3>1. 1 < 128 /\ 3 < 128 /\ 6 < 128 /\ 13 < 128 /\ a \otimes 1 = a
      BY MulOne
    <3>2. /\ a \otimes 27 = (a \otimes 26) \oplus (a \otimes 1)
          /\ a \otimes 13 = (a \otimes 12) \oplus (a \otimes 1)
          /\ a \otimes 3 = (a \otimes 2) \oplus (a \otimes 1)
      BY <2>1, <2>6, MulAddsSecond
    <3>3. /\ a \otimes 26 = Shift(a \otimes 13) /\ a \otimes 12 = Shift(a \otimes 6)
          /\ a \otimes 6 = Shift(a \otimes 3) /\ a \otimes 2 = Shift(a \otimes 1)
      BY <2>1, <2>4, <3>1, MulShiftLow
    <3> QED
      BY <3>1, <3>2, <3>3
  <2>9. a \otimes 27 = Shift(a \otimes 128)
    BY <2>7, <2>8, ShiftEight
  <2>10. /\ Shift(b) = Shift(c) \oplus Shift(128)
         /\ a \otimes b = (a \otimes c) \oplus (a \otimes 128)
    BY <2>1, <2>2, ShiftAdds, MulAddsSecond
  <2>11. a \otimes Shift(b) = (a \otimes Shift(c)) \oplus (a \otimes 27)
    BY <2>1, <2>2, <2>5, <2>10, ShiftDigits, MulAddsSecond
  <2>12. Shift(a \otimes b) = Shift(a \otimes c) \oplus Shift(a \otimes 128)
    BY <2>1, <2>2, <2>10, MulClosed, ShiftAdds
  <2> QED
    BY <2>3, <2>9, <2>11, <2>12
<1> QED
  BY <1>1, <1>2, BytesAre

(* The factors may be exchanged: true of 1, and carried over Shift and     *)
(* exclusive or.                                                           *)
LEMMA MulCommutes ==
  ASSUME NEW a \in Byte, NEW b \in Byte
  PROVE  a \otimes b = b \otimes a
<1>1. ASSUME NEW x \in Byte PROVE 1 \otimes x = x
  <2> DEFINE S == {y \in Byte : 1 \otimes y = y}
  <2>1. 0 \in S
    BY BytesAre, MulZero
  <2>2. 1 \in S
    BY BytesAre, MulOne
  <2>3. ASSUME NEW y \in Byte, NEW z \in Byte, y \in S, z \in S PROVE y \oplus z \in S
    BY <2>3, BytesAre, MulAddsSecond, XorDigits
  <2>4. ASSUME NEW y \in Byte, y \in S PROVE Shift(y) \in S
    BY <2>4, BytesAre, MulShiftSecond, ShiftDigits
  <2> HIDE DEF S
  <2>5. x \in S
    BY <2>1, <2>2, <2>3, <2>4, ByteGenerated
  <2> QED
    BY <2>5 DEF S
<1> DEFINE S == {y \in Byte : a \otimes y = y \otimes a}
<1>2. 0 \in S
  BY BytesAre, MulZero
<1>3. 1 \in S
  BY <1>1, BytesAre, MulOne
<1>4. ASSUME NEW y \in Byte, NEW z \in Byte, y \in S, z \in S PROVE y \oplus z \in S
  BY <1>4, MulAddsFirst, MulAddsSecond, XorDigits
<1>5. ASSUME NEW y \in Byte, y \in S PROVE Shift(y) \in S
  BY <1>5, MulShiftFirst, MulShiftSecond, ShiftDigits
<1> HIDE DEF S
<1>6. b \in S
  BY <1>2, <1>3, <1>4, <1>5, ByteGenerated
<1> QED
  BY <1>6 DEF S

(* Three factors may be regrouped, for the same reason.                    *)
LEMMA MulAssociates ==
  ASSUME NEW a \in Byte, NEW b \in Byte, NEW c \in Byte
  PROVE  a \otimes (b \otimes c) = (a \otimes b) \otimes c
<1> DEFINE S == {y \in Byte : a \otimes (b \otimes y) = (a \otimes b) \otimes y}
<1>1. a \otimes b \in Byte
  BY MulClosed
<1>2. 0 \in S
  BY <1>1, BytesAre, MulZero
<1>3. 1 \in S
  BY <1>1, BytesAre, MulOne
<1>4. ASSUME NEW y \in Byte, NEW z \in Byte, y \in S, z \in S PROVE y \oplus z \in S
  <2>1. b \otimes y \in Byte /\ b \otimes z \in Byte /\ y \oplus z \in Byte
    BY MulClosed, XorDigits
  <2>2. a \otimes (b \otimes (y \oplus z)) = (a \otimes (b \otimes y)) \oplus (a \otimes (b \otimes z))
    BY <2>1, MulAddsSecond
  <2>3. (a \otimes b) \otimes (y \oplus z) = ((a \otimes b) \otimes y) \oplus ((a \otimes b) \otimes z)
    BY <1>1, MulAddsSecond
  <2> QED
    BY <1>4, <2>1, <2>2, <2>3
<1>5. ASSUME NEW y \in Byte, y \in S PROVE Shift(y) \in S
  <2>1. b \otimes y \in Byte /\ Shift(y) \in Byte
    BY MulClosed, ShiftDigits
  <2>2. a \otimes (b \otimes Shift(y)) = Shift(a \otimes (b \otimes y))
    BY <2>1, MulShiftSecond
  <2>3. (a \otimes b) \otimes Shift(y) = Shift((a \otimes b) \otimes y)
    BY <1>1, MulShiftSecond
  <2> QED
    BY <1>5, <2>1, <2>2, <2>3
<1> HIDE DEF S
<1>6. c \in S
  BY <1>2, <1>3, <1>4, <1>5, ByteGenerated
<1> QED
  BY <1>6 DEF S
-----------------------------------------------------------------------------
(*****************************************************************************)
(* Squares and inverses.  a^255 is its own square, of which there are only *)
(* 0 and 1.                                                                *)
(*****************************************************************************)
(* Squaring is linear.                                                     *)
Square(a) == a \otimes a

(* As the product is commutative and twice anything is 0.                  *)
LEMMA SquareFacts ==
  ASSUME NEW a \in Byte, NEW b \in Byte
  PROVE  /\ Square(a) \in Byte
         /\ Square(a \oplus b) = Square(a) \oplus Square(b)
         /\ Square(Shift(a)) = Shift(Shift(Square(a)))
         /\ Square(a \otimes b) = Square(a) \otimes Square(b)
         /\ Square(0) = 0 /\ Square(1) = 1
<1>1. Square(a) \in Byte /\ Square(b) \in Byte
  BY MulClosed DEF Square
<1>2. Square(a \oplus b) = Square(a) \oplus Square(b)
  <2>1. a \oplus b \in Byte /\ a \otimes b \in Byte /\ b \otimes a = a \otimes b
    BY XorDigits, MulClosed, MulCommutes
  <2>2. Square(a \oplus b) = (a \otimes (a \oplus b)) \oplus (b \otimes (a \oplus b))
    BY <2>1, MulAddsFirst DEF Square
  <2>3. /\ a \otimes (a \oplus b) = Square(a) \oplus (a \otimes b)
        /\ b \otimes (a \oplus b) = (a \otimes b) \oplus Square(b)
    BY <2>1, MulAddsSecond DEF Square
  <2>4. b \otimes (a \oplus b) = Square(b) \oplus (a \otimes b)
    BY <1>1, <2>1, <2>3, XorLaws
  <2>5. Square(a \oplus b) = (Square(a) \oplus Square(b)) \oplus ((a \otimes b) \oplus (a \otimes b))
    BY <1>1, <2>1, <2>2, <2>3, <2>4, XorSwap
  <2>6. (a \otimes b) \oplus (a \otimes b) = 0 /\ Square(a) \oplus Square(b) \in Byte
    BY <1>1, <2>1, XorLaws, XorDigits
  <2> QED
    BY <2>5, <2>6, XorLaws
<1>3. Square(Shift(a)) = Shift(Shift(Square(a)))
  BY ShiftDigits, MulShiftFirst, MulShiftSecond DEF Square
<1>4. Square(a \otimes b) = Square(a) \otimes Square(b)
  <2>1. a \otimes b \in Byte
    BY MulClosed
  <2>2. (a \otimes b) \otimes (a \otimes b) = a \otimes (b \otimes (a \otimes b))
    BY <2>1, MulAssociates
  <2>3. b \otimes (a \otimes b) = (b \otimes a) \otimes b
    BY MulAssociates
  <2>4. (b \otimes a) \otimes b = (a \otimes b) \otimes b /\ (a \otimes b) \otimes b = a \otimes Square(b)
    BY MulCommutes, MulAssociates DEF Square
  <2>5. a \otimes (a \otimes Square(b)) = (a \otimes a) \otimes Square(b)
    BY <1>1, MulAssociates
  <2> QED
    BY <2>2, <2>3, <2>4, <2>5 DEF Square
<1>5. Square(0) = 0 /\ Square(1) = 1
  BY BytesAre, MulZero, MulOne DEF Square
<1> QED
  BY <1>1, <1>2, <1>3, <1>4, <1>5

(* Plus on two digits.                                                     *)
LEMMA PlusFacts ==
  /\ \A x, y \in 0 .. 1 : Plus(x, y) \in 0 .. 1 /\ Plus(x, y) = Plus(y, x)
  /\ \A x \in 0 .. 1 : Plus(x, 0) = x /\ Plus(0, x) = x /\ Plus(x, x) = 0
  /\ \A x, y, z \in 0 .. 1 : Plus(Plus(x, y), z) = Plus(x, Plus(y, z))
  BY DEF Plus

(* Twice shifted, with a new lowest digit.                                 *)
LEMMA TwiceWritten ==
  ASSUME NEW v, NEW d0, NEW d1, NEW d2, NEW d3, NEW d4, NEW d5, NEW d6, NEW d7,
         Written(v, d0, d1, d2, d3, d4, d5, d6, d7), NEW c \in 0 .. 1
  PROVE  Written(Shift(Shift(v)) \oplus c, Plus(d6, c), Plus(d7, d6), Plus(d0, d7), Plus(d1, d6),
                 Plus(Plus(d2, d7), d6), Plus(d3, d7), d4, d5)
<1>1. Written(Shift(v), d7, Plus(d0, d7), d1, Plus(d2, d7), Plus(d3, d7), d4, d5, d6)
  BY ShiftWritten
<1>2. Written(Shift(Shift(v)), d6, Plus(d7, d6), Plus(d0, d7), Plus(d1, d6),
              Plus(Plus(d2, d7), d6), Plus(d3, d7), d4, d5)
  BY <1>1, ShiftWritten
<1>3. Written(c, c, 0, 0, 0, 0, 0, 0, 0)
  BY DEF Written
<1>4. Written(Shift(Shift(v)) \oplus c, Plus(d6, c), Plus(Plus(d7, d6), 0), Plus(Plus(d0, d7), 0),
              Plus(Plus(d1, d6), 0), Plus(Plus(Plus(d2, d7), d6), 0), Plus(Plus(d3, d7), 0),
              Plus(d4, 0), Plus(d5, 0))
  BY <1>2, <1>3, XorWritten
<1>5. \A x \in 0 .. 1 : Plus(x, 0) = x
  BY PlusFacts
<1> QED
  BY <1>2, <1>4, <1>5 DEF Written

(* One digit more under a square.                                          *)
LEMMA SquareDigit ==
  ASSUME NEW a, NEW h, NEW c, DigitOff(a, h, c),
         NEW d0, NEW d1, NEW d2, NEW d3, NEW d4, NEW d5, NEW d6, NEW d7,
         Written(Square(h), d0, d1, d2, d3, d4, d5, d6, d7)
  PROVE  Written(Square(a), Plus(d6, c), Plus(d7, d6), Plus(d0, d7), Plus(d1, d6),
                 Plus(Plus(d2, d7), d6), Plus(d3, d7), d4, d5)
<1>1. h \in Byte /\ c \in {0, 1} /\ a = Shift(h) \oplus c
  BY Halves DEF DigitOff
<1>2. c \in Byte /\ c \in 0 .. 1 /\ Square(c) = c
  BY <1>1, BytesAre, SquareFacts
<1>3. Square(a) = Square(Shift(h)) \oplus Square(c)
  <2>1. Shift(h) \in Byte
    BY <1>1, ShiftDigits
  <2>2. Square(Shift(h) \oplus c) = Square(Shift(h)) \oplus Square(c)
    BY <1>2, <2>1, SquareFacts
  <2> QED
    BY <1>1, <2>2
<1>4. Square(Shift(h)) = Shift(Shift(Square(h)))
  BY <1>1, SquareFacts
<1>5. Square(a) = Shift(Shift(Square(h))) \oplus c
  BY <1>2, <1>3, <1>4
<1> QED
  BY <1>2, <1>5, TwiceWritten

(* The digits of a square.                                                 *)
LEMMA SquareWritten ==
  ASSUME NEW a, NEW d0, NEW d1, NEW d2, NEW d3, NEW d4, NEW d5, NEW d6, NEW d7,
         Written(a, d0, d1, d2, d3, d4, d5, d6, d7)
  PROVE  Written(Square(a), Plus(d0, Plus(d4, d6)), Plus(d4, Plus(d6, d7)), Plus(d1, d5),
                 Plus(Plus(d4, d5), Plus(d6, d7)), Plus(d2, Plus(d4, d7)), Plus(d5, d6),
                 Plus(d3, d5), Plus(d6, d7))
<1>1. PICK h1 : DigitOff(a, h1, d0) /\ Written(h1, d1, d2, d3, d4, d5, d6, d7, 0)
  BY HalfWritten
<1>2. PICK h2 : DigitOff(h1, h2, d1) /\ Written(h2, d2, d3, d4, d5, d6, d7, 0, 0)
  BY <1>1, HalfWritten
<1>3. PICK h3 : DigitOff(h2, h3, d2) /\ Written(h3, d3, d4, d5, d6, d7, 0, 0, 0)
  BY <1>2, HalfWritten
<1>4. PICK h4 : DigitOff(h3, h4, d3) /\ Written(h4, d4, d5, d6, d7, 0, 0, 0, 0)
  BY <1>3, HalfWritten
<1>5. PICK h5 : DigitOff(h4, h5, d4) /\ Written(h5, d5, d6, d7, 0, 0, 0, 0, 0)
  BY <1>4, HalfWritten
<1>6. PICK h6 : DigitOff(h5, h6, d5) /\ Written(h6, d6, d7, 0, 0, 0, 0, 0, 0)
  BY <1>5, HalfWritten
<1>7. PICK h7 : DigitOff(h6, h7, d6) /\ Written(h7, d7, 0, 0, 0, 0, 0, 0, 0)
  BY <1>6, HalfWritten
<1>8. /\ d0 \in 0 .. 1 /\ d1 \in 0 .. 1 /\ d2 \in 0 .. 1 /\ d3 \in 0 .. 1
      /\ d4 \in 0 .. 1 /\ d5 \in 0 .. 1 /\ d6 \in 0 .. 1 /\ d7 \in 0 .. 1
  BY DEF Written
<1>9. \A x \in 0 .. 1 : Plus(x, 0) = x /\ Plus(0, x) = x
  BY PlusFacts
<1>10. Plus(0, 0) = 0
  BY <1>9
<1>11. Written(Square(h7), d7, 0, 0, 0, 0, 0, 0, 0)
  <2>1. ASSUME NEW x, NEW d, Written(x, d, 0, 0, 0, 0, 0, 0, 0) PROVE x = d
    <3>1. d \in 0 .. 1 /\ x = d + 2 * 0 + 4 * 0 + 8 * 0 + 16 * 0 + 32 * 0 + 64 * 0 + 128 * 0
      BY <2>1 DEF Written
    <3> QED
      BY <3>1
  <2>2. h7 = d7
    BY <1>7, <2>1
  <2>3. Square(d7) = d7
    BY <1>8, BytesAre, SquareFacts
  <2> QED
    BY <1>7, <2>2, <2>3
<1>12. Written(Square(h6), d6, 0, d7, 0, 0, 0, 0, 0)
  <2>1. Written(Square(h6), Plus(0, d6), Plus(0, 0), Plus(d7, 0), Plus(0, 0),
                Plus(Plus(0, 0), 0), Plus(0, 0), 0, 0)
    BY <1>7, <1>11, SquareDigit
  <2> QED
    BY <1>8, <1>9, <1>10, <2>1
<1>13. Written(Square(h5), d5, 0, d6, 0, d7, 0, 0, 0)
  <2>1. Written(Square(h5), Plus(0, d5), Plus(0, 0), Plus(d6, 0), Plus(0, 0),
                Plus(Plus(d7, 0), 0), Plus(0, 0), 0, 0)
    BY <1>6, <1>12, SquareDigit
  <2> QED
    BY <1>8, <1>9, <1>10, <2>1
<1>14. Written(Square(h4), d4, 0, d5, 0, d6, 0, d7, 0)
  <2>1. Written(Square(h4), Plus(0, d4), Plus(0, 0), Plus(d5, 0), Plus(0, 0),
                Plus(Plus(d6, 0), 0), Plus(0, 0), d7, 0)
    BY <1>5, <1>13, SquareDigit
  <2> QED
    BY <1>8, <1>9, <1>10, <2>1
<1>15. Written(Square(h3), Plus(d7, d3), d7, d4, d7, Plus(d5, d7), 0, d6, 0)
  <2>1. Written(Square(h3), Plus(d7, d3), Plus(0, d7), Plus(d4, 0), Plus(0, d7),
                Plus(Plus(d5, 0), d7), Plus(0, 0), d6, 0)
    BY <1>4, <1>14, SquareDigit
  <2> QED
    BY <1>8, <1>9, <1>10, <2>1
<1>16. Written(Square(h2), Plus(d6, d2), d6, Plus(d7, d3), Plus(d7, d6), Plus(d4, d6), d7,
               Plus(d5, d7), 0)
  <2>1. Written(Square(h2), Plus(d6, d2), Plus(0, d6), Plus(Plus(d7, d3), 0), Plus(d7, d6),
                Plus(Plus(d4, 0), d6), Plus(d7, 0), Plus(d5, d7), 0)
    BY <1>3, <1>15, SquareDigit
  <2>2. Plus(d7, d3) \in 0 .. 1
    BY <1>8, PlusFacts
  <2> QED
    BY <1>8, <1>9, <2>1, <2>2
<1>17. Written(Square(h1), Plus(Plus(d5, d7), d1), Plus(d5, d7), Plus(d6, d2),
               Plus(d6, Plus(d5, d7)), Plus(d3, d5), Plus(d7, d6), Plus(d4, d6), d7)
  <2>1. Written(Square(h1), Plus(Plus(d5, d7), d1), Plus(0, Plus(d5, d7)), Plus(Plus(d6, d2), 0),
                Plus(d6, Plus(d5, d7)), Plus(Plus(Plus(d7, d3), 0), Plus(d5, d7)),
                Plus(Plus(d7, d6), 0), Plus(d4, d6), d7)
    BY <1>2, <1>16, SquareDigit
  <2>2. /\ Plus(0, Plus(d5, d7)) = Plus(d5, d7) /\ Plus(Plus(d6, d2), 0) = Plus(d6, d2)
        /\ Plus(Plus(d7, d6), 0) = Plus(d7, d6)
    BY <1>8, <1>9, PlusFacts
  <2>3. Plus(Plus(Plus(d7, d3), 0), Plus(d5, d7)) = Plus(d3, d5)
    BY <1>8 DEF Plus
  <2> QED
    BY <2>1, <2>2, <2>3
<1>18. Written(Square(a), Plus(Plus(d4, d6), d0), Plus(d7, Plus(d4, d6)),
               Plus(Plus(Plus(d5, d7), d1), d7), Plus(Plus(d5, d7), Plus(d4, d6)),
               Plus(Plus(Plus(d6, d2), d7), Plus(d4, d6)), Plus(Plus(d6, Plus(d5, d7)), d7),
               Plus(d3, d5), Plus(d7, d6))
  BY <1>1, <1>17, SquareDigit
<1>19. /\ Plus(Plus(d4, d6), d0) = Plus(d0, Plus(d4, d6))
       /\ Plus(d7, Plus(d4, d6)) = Plus(d4, Plus(d6, d7))
       /\ Plus(Plus(Plus(d5, d7), d1), d7) = Plus(d1, d5)
  BY <1>8 DEF Plus
<1>20. /\ Plus(Plus(d5, d7), Plus(d4, d6)) = Plus(Plus(d4, d5), Plus(d6, d7))
       /\ Plus(d7, d6) = Plus(d6, d7)
  BY <1>8 DEF Plus
<1>21. /\ Plus(Plus(Plus(d6, d2), d7), Plus(d4, d6)) = Plus(d2, Plus(d4, d7))
       /\ Plus(Plus(d6, Plus(d5, d7)), d7) = Plus(d5, d6)
  BY <1>8 DEF Plus
<1> QED
  BY <1>18, <1>19, <1>20, <1>21

(* No byte but 0 and 1 is its own square.                                  *)
LEMMA SquareFixes ==
  ASSUME NEW a \in Byte, Square(a) = a
  PROVE  a \in {0, 1}
<1>1. PICK d0, d1, d2, d3, d4, d5, d6, d7 : Written(a, d0, d1, d2, d3, d4, d5, d6, d7)
  BY WriteByte
<1>2. HasDigits(a, d0, d1, d2, d3, d4, d5, d6, d7)
  BY <1>1, WrittenDigits
<1>3. HasDigits(a, Plus(d0, Plus(d4, d6)), Plus(d4, Plus(d6, d7)), Plus(d1, d5),
                Plus(Plus(d4, d5), Plus(d6, d7)), Plus(d2, Plus(d4, d7)), Plus(d5, d6),
                Plus(d3, d5), Plus(d6, d7))
  BY <1>1, SquareWritten, WrittenDigits
<1>4. /\ d0 = Plus(d0, Plus(d4, d6)) /\ d1 = Plus(d4, Plus(d6, d7)) /\ d2 = Plus(d1, d5)
      /\ d3 = Plus(Plus(d4, d5), Plus(d6, d7)) /\ d4 = Plus(d2, Plus(d4, d7))
      /\ d5 = Plus(d5, d6) /\ d6 = Plus(d3, d5) /\ d7 = Plus(d6, d7)
  BY <1>2, <1>3 DEF HasDigits
<1>5. /\ d0 \in 0 .. 1 /\ d1 \in 0 .. 1 /\ d2 \in 0 .. 1 /\ d3 \in 0 .. 1
      /\ d4 \in 0 .. 1 /\ d5 \in 0 .. 1 /\ d6 \in 0 .. 1 /\ d7 \in 0 .. 1
  BY <1>1 DEF Written
<1>6. d6 = 0
  BY <1>4, <1>5 DEF Plus
<1>7. d4 = 0
  BY <1>4, <1>5, <1>6 DEF Plus
<1>8. d1 = d7 /\ d2 = d7
  BY <1>4, <1>5, <1>6, <1>7 DEF Plus
<1>9. d5 = 0
  BY <1>4, <1>5, <1>8 DEF Plus
<1>10. d3 = 0 /\ d7 = 0
  BY <1>4, <1>5, <1>6, <1>7, <1>9 DEF Plus
<1> QED
  BY <1>1, <1>5, <1>6, <1>7, <1>8, <1>9, <1>10 DEF Written

(* Squared eight times, 2 is 2 again, and so is every byte.                *)
LEMMA SquaresOfTwo ==
  /\ Square(2) = 4 /\ Square(4) = 16 /\ Square(16) = 27 /\ Square(27) = 94
  /\ Square(94) = 228 /\ Square(228) = 77 /\ Square(77) = 250 /\ Square(250) = 2
<1>1. ASSUME NEW a, NEW d0, NEW d1, NEW d2, NEW d3, NEW d4, NEW d5, NEW d6, NEW d7,
             Written(a, d0, d1, d2, d3, d4, d5, d6, d7)
      PROVE  Square(a) = Plus(d0, Plus(d4, d6)) + 2 * Plus(d4, Plus(d6, d7)) + 4 * Plus(d1, d5)
                         + 8 * Plus(Plus(d4, d5), Plus(d6, d7)) + 16 * Plus(d2, Plus(d4, d7))
                         + 32 * Plus(d5, d6) + 64 * Plus(d3, d5) + 128 * Plus(d6, d7)
  <2>1. Written(Square(a), Plus(d0, Plus(d4, d6)), Plus(d4, Plus(d6, d7)), Plus(d1, d5),
                Plus(Plus(d4, d5), Plus(d6, d7)), Plus(d2, Plus(d4, d7)), Plus(d5, d6),
                Plus(d3, d5), Plus(d6, d7))
    BY <1>1, SquareWritten
  <2> QED
    BY <2>1 DEF Written
<1>2. Plus(0, 0) = 0 /\ Plus(0, 1) = 1 /\ Plus(1, 0) = 1 /\ Plus(1, 1) = 0
  BY DEF Plus
<1>3. /\ Written(2, 0, 1, 0, 0, 0, 0, 0, 0) /\ Written(4, 0, 0, 1, 0, 0, 0, 0, 0)
      /\ Written(16, 0, 0, 0, 0, 1, 0, 0, 0) /\ Written(27, 1, 1, 0, 1, 1, 0, 0, 0)
      /\ Written(94, 0, 1, 1, 1, 1, 0, 1, 0) /\ Written(228, 0, 0, 1, 0, 0, 1, 1, 1)
      /\ Written(77, 1, 0, 1, 1, 0, 0, 1, 0) /\ Written(250, 0, 1, 0, 1, 1, 1, 1, 1)
  BY DEF Written
<1>4. Square(2) = 4 /\ Square(4) = 16
  BY <1>1, <1>2, <1>3
<1>5. Square(16) = 27 /\ Square(27) = 94
  BY <1>1, <1>2, <1>3
<1>6. Square(94) = 228 /\ Square(228) = 77
  BY <1>1, <1>2, <1>3
<1>7. Square(77) = 250 /\ Square(250) = 2
  BY <1>1, <1>2, <1>3
<1> QED
  BY <1>4, <1>5, <1>6, <1>7

Eighth(a) == Square(Square(Square(Square(Square(Square(Square(Square(a))))))))

(* As it is of 1, and is carried over Shift and exclusive or.              *)
LEMMA EighthIsSame ==
  ASSUME NEW a \in Byte
  PROVE  Eighth(a) = a
<1> DEFINE S == {x \in Byte : Eighth(x) = x}
<1>1. \A x \in Byte : Square(x) \in Byte
  BY SquareFacts
<1>2. 0 \in S /\ 1 \in S
  BY BytesAre, SquareFacts DEF Eighth
<1>3. ASSUME NEW x \in Byte, NEW y \in Byte, x \in S, y \in S PROVE x \oplus y \in S
  <2>1. \A u, v \in Byte : Square(u \oplus v) = Square(u) \oplus Square(v)
    BY SquareFacts
  <2>2. Eighth(x \oplus y) = Eighth(x) \oplus Eighth(y)
    BY <1>1, <2>1 DEF Eighth
  <2> QED
    BY <1>3, <2>2, XorDigits
<1>4. ASSUME NEW x \in Byte, x \in S PROVE Shift(x) \in S
  <2>1. \A u, v \in Byte : Square(u \otimes v) = Square(u) \otimes Square(v)
    BY SquareFacts
  <2>2. 2 \in Byte /\ Shift(1) = 2
    BY DEF Byte, Shift
  <2>3. Shift(x) = 2 \otimes x
    BY <2>2, BytesAre, MulShiftFirst, MulOne, MulCommutes
  <2>4. Eighth(2 \otimes x) = Eighth(2) \otimes Eighth(x)
    BY <1>1, <2>1, <2>2 DEF Eighth
  <2>5. Eighth(2) = 2
    BY SquaresOfTwo DEF Eighth
  <2> QED
    BY <1>4, <2>3, <2>4, <2>5, ShiftDigits
<1> HIDE DEF S
<1>5. a \in S
  BY <1>2, <1>3, <1>4, ByteGenerated
<1> QED
  BY <1>5 DEF S

(* The rounds of the square and multiply.                                  *)
Powers(a) ==
  LET after[i \in 0 .. 8] ==
        IF i = 0 THEN [result |-> 1, base |-> a, exp |-> 254]
        ELSE [result |-> IF after[i - 1].exp % 2 = 1
                         THEN after[i - 1].result \otimes after[i - 1].base
                         ELSE after[i - 1].result,
              base |-> after[i - 1].base \otimes after[i - 1].base,
              exp |-> after[i - 1].exp \div 2]
  IN after

PowersRun(f, a) ==
  /\ f[0].result = 1 /\ f[0].base = a /\ f[0].exp = 254
  /\ \A i \in 0 .. 7 :
       /\ f[i + 1].result = IF f[i].exp % 2 = 1 THEN f[i].result \otimes f[i].base
                            ELSE f[i].result
       /\ f[i + 1].base = Square(f[i].base)
       /\ f[i + 1].exp = f[i].exp \div 2

(* The recursion makes these rounds, and _gf_inv returns what is left.     *)
LEMMA PowersFacts ==
  ASSUME NEW a \in Byte
  PROVE  PowersRun(Powers(a), a) /\ GfInv(a) = Powers(a)[8].result
<1> DEFINE X == [result : Byte, base : Byte, exp : Nat]
           start == [result |-> 1, base |-> a, exp |-> 254]
           Round(s) == [result |-> IF s.exp % 2 = 1 THEN s.result \otimes s.base ELSE s.result,
                        base |-> s.base \otimes s.base,
                        exp |-> s.exp \div 2]
           Loop(f) == f = [i \in 0 .. 8 |-> IF i = 0 THEN start ELSE Round(f[i - 1])]
           step == [i \in 1 .. 8 |-> [s \in X |-> Round(s)]]
           after == Powers(a)
<1>1. GfInv(a) = after[8].result
  BY DEF GfInv, GfPower, EightTimes, Powers
<1>2. after = CHOOSE f : Loop(f)
  BY DEF Powers
<1> HIDE DEF after
<1>3. ASSUME NEW s \in X
      PROVE  Round(s) \in X
  <2>1. s.result \otimes s.base \in Byte /\ s.base \otimes s.base \in Byte /\ s.exp \div 2 \in Nat
    BY MulClosed
  <2> QED
    BY <2>1
<1>4. \A s : /\ Round(s).result = IF s.exp % 2 = 1 THEN s.result \otimes s.base ELSE s.result
             /\ Round(s).base = Square(s.base) /\ Round(s).exp = s.exp \div 2
  BY DEF Square
<1>5. start \in X /\ start.result = 1 /\ start.base = a /\ start.exp = 254
  BY BytesAre
<1> HIDE DEF Round, start, X
<1>6. step \in [1 .. 8 -> [X -> X]]
  BY <1>3
<1>7. \A i \in 1 .. 8, s \in X : step[i][s] = Round(s)
  OBVIOUS
<1> HIDE DEF step
<1>8. PICK g \in [0 .. 8 -> X] : Turns(g, start, step, 8)
  <2>1. 8 \in Nat /\ start \in X
    BY <1>5
  <2> HIDE DEF Loop
  <2> QED
    BY <1>6, <2>1, LoopRuns
<1>9. Loop(g)
  <2>1. g = [i \in 0 .. 8 |-> g[i]]
    OBVIOUS
  <2>2. g[0] = start /\ \A i \in 1 .. 8 : g[i] = Round(g[i - 1])
    BY <1>7, <1>8 DEF Turns
  <2> QED
    BY <2>1, <2>2
<1>10. Loop(after)
  <2> HIDE DEF Loop
  <2> QED
    BY <1>2, <1>9
<1>11. after[0] = start /\ \A i \in 0 .. 7 : after[i + 1] = Round(after[i])
  <2>1. after[0] = start /\ \A i \in 1 .. 8 : after[i] = Round(after[i - 1])
    BY <1>10
  <2>2. \A i \in 0 .. 7 : i + 1 \in 1 .. 8 /\ (i + 1) - 1 = i
    OBVIOUS
  <2> QED
    BY <2>1, <2>2
<1>12. PowersRun(after, a)
  BY <1>4, <1>5, <1>11 DEF PowersRun
<1> QED
  BY <1>1, <1>12 DEF after

(* a^254 is the product of the squares of a, a^2, a^4, ... a^64.           *)
LEMMA InverseIs ==
  ASSUME NEW a \in Byte, NEW s1, NEW s2, NEW s3, NEW s4, NEW s5, NEW s6, NEW s7,
         s1 = Square(a), s2 = Square(s1), s3 = Square(s2), s4 = Square(s3),
         s5 = Square(s4), s6 = Square(s5), s7 = Square(s6)
  PROVE  GfInv(a) = s1 \otimes (s2 \otimes (s3 \otimes (s4 \otimes (s5 \otimes (s6 \otimes s7)))))
<1> DEFINE f == Powers(a)
<1>1. PowersRun(f, a) /\ GfInv(a) = f[8].result
  BY PowersFacts
<1> HIDE DEF f
<1>2. /\ s1 \in Byte /\ s2 \in Byte /\ s3 \in Byte /\ s4 \in Byte /\ s5 \in Byte
      /\ s6 \in Byte /\ s7 \in Byte
  BY SquareFacts
<1>3. f[0].result = 1 /\ f[0].base = a /\ f[0].exp = 254
  BY <1>1 DEF PowersRun
<1>4. \A i \in 0 .. 7 :
        /\ f[i + 1].base = Square(f[i].base) /\ f[i + 1].exp = f[i].exp \div 2
        /\ f[i].exp % 2 = 0 => f[i + 1].result = f[i].result
        /\ f[i].exp % 2 = 1 => f[i + 1].result = f[i].result \otimes f[i].base
  BY <1>1 DEF PowersRun
<1>5. f[1].result = 1 /\ f[1].base = s1 /\ f[1].exp = 127
  <2>1. 0 + 1 = 1 /\ 0 \in 0 .. 7 /\ 254 % 2 = 0 /\ 254 \div 2 = 127
    OBVIOUS
  <2> QED
    BY <1>3, <1>4, <2>1
<1>6. f[2].result = s1 /\ f[2].base = s2 /\ f[2].exp = 63
  <2>1. 1 + 1 = 2 /\ 1 \in 0 .. 7 /\ 127 % 2 = 1 /\ 127 \div 2 = 63
    OBVIOUS
  <2>2. 1 \otimes s1 = s1
    BY <1>2, BytesAre, MulOne, MulCommutes
  <2> QED
    BY <1>4, <1>5, <2>1, <2>2
<1>7. f[3].result = s1 \otimes s2 /\ f[3].base = s3 /\ f[3].exp = 31
  <2>1. 2 + 1 = 3 /\ 2 \in 0 .. 7 /\ 63 % 2 = 1 /\ 63 \div 2 = 31
    OBVIOUS
  <2> QED
    BY <1>4, <1>6, <2>1
<1>8. f[4].result = (s1 \otimes s2) \otimes s3 /\ f[4].base = s4 /\ f[4].exp = 15
  <2>1. 3 + 1 = 4 /\ 3 \in 0 .. 7 /\ 31 % 2 = 1 /\ 31 \div 2 = 15
    OBVIOUS
  <2> QED
    BY <1>4, <1>7, <2>1
<1>9. f[5].result = ((s1 \otimes s2) \otimes s3) \otimes s4 /\ f[5].base = s5 /\ f[5].exp = 7
  <2>1. 4 + 1 = 5 /\ 4 \in 0 .. 7 /\ 15 % 2 = 1 /\ 15 \div 2 = 7
    OBVIOUS
  <2> QED
    BY <1>4, <1>8, <2>1
<1>10. /\ f[6].result = (((s1 \otimes s2) \otimes s3) \otimes s4) \otimes s5
       /\ f[6].base = s6 /\ f[6].exp = 3
  <2>1. 5 + 1 = 6 /\ 5 \in 0 .. 7 /\ 7 % 2 = 1 /\ 7 \div 2 = 3
    OBVIOUS
  <2> QED
    BY <1>4, <1>9, <2>1
<1>11. /\ f[7].result = ((((s1 \otimes s2) \otimes s3) \otimes s4) \otimes s5) \otimes s6
       /\ f[7].base = s7 /\ f[7].exp = 1
  <2>1. 6 + 1 = 7 /\ 6 \in 0 .. 7 /\ 3 % 2 = 1 /\ 3 \div 2 = 1
    OBVIOUS
  <2> QED
    BY <1>4, <1>10, <2>1
<1>12. f[8].result = (((((s1 \otimes s2) \otimes s3) \otimes s4) \otimes s5) \otimes s6) \otimes s7
  <2>1. 7 + 1 = 8 /\ 7 \in 0 .. 7 /\ 1 % 2 = 1
    OBVIOUS
  <2> QED
    BY <1>4, <1>11, <2>1
<1> PICK p2, p3, p4, p5 :
      /\ p2 = s1 \otimes s2 /\ p3 = p2 \otimes s3 /\ p4 = p3 \otimes s4 /\ p5 = p4 \otimes s5
  OBVIOUS
<1> PICK r6, r5, r4, r3 :
      /\ r6 = s6 \otimes s7 /\ r5 = s5 \otimes r6 /\ r4 = s4 \otimes r5 /\ r3 = s3 \otimes r4
  OBVIOUS
<1>13. /\ p2 \in Byte /\ p3 \in Byte /\ p4 \in Byte /\ p5 \in Byte
       /\ r6 \in Byte /\ r5 \in Byte /\ r4 \in Byte /\ r3 \in Byte
  BY <1>2, MulClosed
<1>14. (p5 \otimes s6) \otimes s7 = p5 \otimes r6
  BY <1>2, <1>13, MulAssociates
<1>15. p5 \otimes r6 = p4 \otimes r5 /\ p4 \otimes r5 = p3 \otimes r4
  BY <1>2, <1>13, MulAssociates
<1>16. p3 \otimes r4 = p2 \otimes r3 /\ p2 \otimes r3 = s1 \otimes (s2 \otimes r3)
  BY <1>2, <1>13, MulAssociates
<1> QED
  BY <1>1, <1>12, <1>14, <1>15, <1>16

(* A byte times what _gf_inv computes is 1, but for 0.                     *)
LEMMA InverseLaw ==
  ASSUME NEW a \in Byte, a # 0
  PROVE  GfInv(a) \in Byte /\ a \otimes GfInv(a) = 1
<1> PICK s1, s2, s3, s4, s5, s6, s7 :
      /\ s1 = Square(a) /\ s2 = Square(s1) /\ s3 = Square(s2) /\ s4 = Square(s3)
      /\ s5 = Square(s4) /\ s6 = Square(s5) /\ s7 = Square(s6)
  OBVIOUS
<1> PICK r6, r5, r4, r3, r2, r1 :
      /\ r6 = s6 \otimes s7 /\ r5 = s5 \otimes r6 /\ r4 = s4 \otimes r5 /\ r3 = s3 \otimes r4
      /\ r2 = s2 \otimes r3 /\ r1 = s1 \otimes r2
  OBVIOUS
<1>1. /\ s1 \in Byte /\ s2 \in Byte /\ s3 \in Byte /\ s4 \in Byte /\ s5 \in Byte
      /\ s6 \in Byte /\ s7 \in Byte /\ Square(s7) = a
  BY SquareFacts, EighthIsSame DEF Eighth
<1>2. /\ r6 \in Byte /\ r5 \in Byte /\ r4 \in Byte /\ r3 \in Byte /\ r2 \in Byte /\ r1 \in Byte
  BY <1>1, MulClosed
<1>3. GfInv(a) = r1
  BY InverseIs
<1>4. \A x, y \in Byte : Square(x \otimes y) = Square(x) \otimes Square(y)
  BY SquareFacts
<1>5. \A x, y, z \in Byte : x \otimes (y \otimes z) = (x \otimes y) \otimes z
  BY MulAssociates
<1>6. Square(r6) = s7 \otimes a
  BY <1>1, <1>4
<1>7. Square(r5) = r6 \otimes a
  <2>1. Square(r5) = s6 \otimes (s7 \otimes a)
    BY <1>1, <1>2, <1>4, <1>6
  <2> QED
    BY <1>1, <1>5, <2>1
<1>8. Square(r4) = r5 \otimes a
  <2>1. Square(r4) = s5 \otimes (r6 \otimes a)
    BY <1>1, <1>2, <1>4, <1>7
  <2> QED
    BY <1>1, <1>2, <1>5, <2>1
<1>9. Square(r3) = r4 \otimes a
  <2>1. Square(r3) = s4 \otimes (r5 \otimes a)
    BY <1>1, <1>2, <1>4, <1>8
  <2> QED
    BY <1>1, <1>2, <1>5, <2>1
<1>10. Square(r2) = r3 \otimes a
  <2>1. Square(r2) = s3 \otimes (r4 \otimes a)
    BY <1>1, <1>2, <1>4, <1>9
  <2> QED
    BY <1>1, <1>2, <1>5, <2>1
<1>11. Square(r1) = r2 \otimes a
  <2>1. Square(r1) = s2 \otimes (r3 \otimes a)
    BY <1>1, <1>2, <1>4, <1>10
  <2> QED
    BY <1>1, <1>2, <1>5, <2>1
<1> PICK e : e = a \otimes r1
  OBVIOUS
<1>12. e \in Byte /\ e = r1 \otimes a
  BY <1>2, MulClosed, MulCommutes
<1>13. Square(e) = e
  <2>1. Square(e) = s1 \otimes (r2 \otimes a)
    BY <1>2, <1>4, <1>11
  <2>2. s1 \otimes (r2 \otimes a) = r1 \otimes a
    BY <1>1, <1>2, <1>5
  <2> QED
    BY <1>12, <2>1, <2>2
<1>14. e \in {0, 1}
  BY <1>12, <1>13, SquareFixes
(* a e = a^256 = a.                                                        *)
<1>15. a \otimes e = a
  <2>1. a \otimes e = s1 \otimes r1
    BY <1>2, <1>5 DEF Square
  <2>2. s1 \otimes r1 = s2 \otimes r2
    BY <1>1, <1>2, <1>5 DEF Square
  <2>3. s2 \otimes r2 = s3 \otimes r3
    BY <1>1, <1>2, <1>5 DEF Square
  <2>4. s3 \otimes r3 = s4 \otimes r4
    BY <1>1, <1>2, <1>5 DEF Square
  <2>5. s4 \otimes r4 = s5 \otimes r5
    BY <1>1, <1>2, <1>5 DEF Square
  <2>6. s5 \otimes r5 = s6 \otimes r6
    BY <1>1, <1>2, <1>5 DEF Square
  <2>7. s6 \otimes r6 = s7 \otimes s7
    BY <1>1, <1>2, <1>5 DEF Square
  <2>8. s7 \otimes s7 = a
    BY <1>1 DEF Square
  <2> QED
    BY <2>1, <2>2, <2>3, <2>4, <2>5, <2>6, <2>7, <2>8
<1>16. e # 0
  <2>1. a \otimes 0 = 0
    BY MulZero
  <2> QED
    BY <1>15, <2>1
<1> QED
  BY <1>2, <1>3, <1>14, <1>16

(* The bytes are a field.                                                  *)
THEOREM BytesAreField == \A a \in Byte : FieldLawsOf(a)
<1> SUFFICES ASSUME NEW a \in Byte PROVE FieldLawsOf(a)
  OBVIOUS
<1>1. a \oplus 0 = a /\ a \oplus a = 0
  BY XorLaws
<1>2. a \otimes 1 = a /\ (a # 0 => GfInv(a) \in Byte /\ a \otimes GfInv(a) = 1)
  BY MulOne, InverseLaw
<1>3. ASSUME NEW b \in Byte
      PROVE  /\ a \oplus b \in Byte /\ a \oplus b = b \oplus a
             /\ a \otimes b \in Byte /\ a \otimes b = b \otimes a
  BY XorDigits, XorLaws, MulClosed, MulCommutes
<1>4. ASSUME NEW b \in Byte, NEW c \in Byte
      PROVE  /\ a \oplus (b \oplus c) = (a \oplus b) \oplus c
             /\ a \otimes (b \otimes c) = (a \otimes b) \otimes c
             /\ a \otimes (b \oplus c) = (a \otimes b) \oplus (a \otimes c)
  BY XorLaws, MulAssociates, MulAddsSecond
<1> QED
  BY <1>1, <1>2, <1>3, <1>4, Zenon DEF FieldLawsOf
==============================================================================
