---------------------------- MODULE TimeLock_proofs ----------------------------
(***************************************************************************)
(* Proofs about the `vajra` tool: a paper costs the squarings its time     *)
(* was turned into, and a generate that ends repairs its directory,        *)
(* whatever commands ran or were killed before, for any sizes of primes    *)
(* and counter, any bases, times and rates.                                *)
(***************************************************************************)
EXTENDS TimeLock, Arithmetic

-----------------------------------------------------------------------------
(***************************************************************************)
(* Powers of two, and the exponentiation of the code.                      *)
(***************************************************************************)

(* By the recursion.                                                       *)
LEMMA Pow2Facts ==
  /\ Pow2[0] = 1
  /\ \A i \in Nat : Pow2[i] \in Nat \ {0} /\ Pow2[i + 1] = 2 * Pow2[i]
<1> DEFINE Loop(g) == g = [i \in Nat |-> IF i = 0 THEN 1 ELSE 2 * g[i - 1]]
           double == [v \in Nat |-> 2 * v]
           step == [i \in Nat \ {0} |-> double]
<1>1. step \in [Nat \ {0} -> [Nat -> Nat]] /\ \A i \in Nat \ {0}, v \in Nat : step[i][v] = 2 * v
  OBVIOUS
<1> HIDE DEF step
<1>2. PICK f \in [Nat -> Nat] : RunsOn(f, 1, step)
  BY <1>1, LoopRunsOn
<1>3. ASSUME NEW i \in Nat \ {0} PROVE f[i] = 2 * f[i - 1]
  <2>1. f[i - 1] \in Nat
    BY <1>2
  <2>2. f[i] = step[i][f[i - 1]]
    BY <1>2 DEF RunsOn
  <2> QED
    BY <1>1, <2>1, <2>2
<1>4. Loop(f)
  <2>1. f = [i \in Nat |-> f[i]]
    BY <1>2
  <2>2. \A i \in Nat : f[i] = IF i = 0 THEN 1 ELSE 2 * f[i - 1]
    BY <1>2, <1>3 DEF RunsOn
  <2> QED
    BY <2>1, <2>2
<1>5. Pow2 = CHOOSE g : Loop(g)
  BY DEF Pow2
<1>6. Loop(Pow2)
  <2> HIDE DEF Loop
  <2> QED
    BY <1>4, <1>5
<1>7. \A i \in Nat : Pow2[i] = IF i = 0 THEN 1 ELSE 2 * Pow2[i - 1]
  BY <1>6
<1> DEFINE S == {i \in Nat : Pow2[i] \in Nat \ {0}}
<1>8. 0 \in S
  BY <1>7
<1>9. ASSUME NEW i \in Nat PROVE Pow2[i + 1] = 2 * Pow2[i]
  <2>1. i + 1 \in Nat /\ i + 1 # 0 /\ (i + 1) - 1 = i
    OBVIOUS
  <2> QED
    BY <1>7, <2>1
<1>10. ASSUME NEW i \in Nat, i \in S PROVE i + 1 \in S
  BY <1>9, <1>10
<1> HIDE DEF S
<1>11. Nat \subseteq S
  BY <1>8, <1>10, InductionOnSet
<1>12. \A i \in Nat : Pow2[i] \in Nat \ {0}
  BY <1>11 DEF S
<1> QED
  BY <1>7, <1>9, <1>12

(* A larger exponent gives no smaller power.                               *)
LEMMA Pow2Grows ==
  ASSUME NEW i \in Nat, NEW j \in Nat, i <= j
  PROVE  Pow2[i] <= Pow2[j]
<1> DEFINE S == {k \in Nat : Pow2[i] <= Pow2[i + k]}
<1>1. 0 \in S
  BY Pow2Facts
<1>2. ASSUME NEW k \in Nat, k \in S PROVE k + 1 \in S
  <2>1. i + k \in Nat /\ i + (k + 1) = (i + k) + 1
    OBVIOUS
  <2>2. Pow2[i + k] \in Nat /\ Pow2[(i + k) + 1] = 2 * Pow2[i + k] /\ Pow2[i] \in Nat
    BY <2>1, Pow2Facts
  <2> QED
    BY <1>2, <2>1, <2>2
<1> HIDE DEF S
<1>3. j - i \in S /\ i + (j - i) = j
  BY <1>1, <1>2, InductionOnSet
<1> QED
  BY <1>3 DEF S

(* A divisor of a power of two is one.                                     *)
LEMMA DivisorOfPow2 ==
  ASSUME NEW t \in Nat, NEW d \in Nat \ {0}, Pow2[t] % d = 0
  PROVE  \E i \in Nat : d = Pow2[i]
<1> DEFINE S == {k \in Nat : \A x \in Nat \ {0} : Pow2[k] % x = 0 => \E i \in Nat : x = Pow2[i]}
<1>1. 0 \in S
  <2> SUFFICES ASSUME NEW x \in Nat \ {0}, Pow2[0] % x = 0 PROVE \E i \in Nat : x = Pow2[i]
    OBVIOUS
  <2>1. 1 % x = 0
    BY Pow2Facts
  <2>2. x = 1
    BY <2>1
  <2> QED
    BY <2>2, Pow2Facts
<1>2. ASSUME NEW k \in Nat, k \in S PROVE k + 1 \in S
  <2> SUFFICES ASSUME NEW x \in Nat \ {0}, Pow2[k + 1] % x = 0 PROVE \E i \in Nat : x = Pow2[i]
    OBVIOUS
  <2>1. Pow2[k] \in Nat /\ Pow2[k + 1] = 2 * Pow2[k] /\ Pow2[k + 1] \in Nat
    BY Pow2Facts
  <2>2. PICK m \in Nat : 2 * Pow2[k] = x * m
    <3>1. PICK m \in Nat : Pow2[k + 1] = x * m
      BY <2>1, MultipleOf
    <3> QED
      BY <2>1, <3>1
  <2>3. CASE x % 2 = 0
    <3>1. PICK y \in Nat \ {0} : x = 2 * y
      BY <2>3
    <3>2. Pow2[k] = y * m
      BY <2>1, <2>2, <3>1
    <3>3. Pow2[k] % y = 0
      BY <2>1, <3>2, MultipleOf
    <3>4. PICK i \in Nat : y = Pow2[i]
      BY <1>2, <3>3
    <3>5. x = Pow2[i + 1] /\ i + 1 \in Nat
      BY <3>1, <3>4, Pow2Facts
    <3> QED
      BY <3>5
  <2>4. CASE x % 2 = 1
    <3>1. PICK y \in Nat : x = 2 * y + 1
      BY <2>4
    <3>2. m = 2 * (Pow2[k] - y * m) /\ Pow2[k] - y * m \in Int
      <4>1. x * m = 2 * (y * m) + m /\ y * m \in Nat
        BY <3>1
      <4> QED
        BY <2>1, <2>2, <4>1
    <3>3. PICK h \in Nat : m = 2 * h
      BY <3>2
    <3>4. Pow2[k] = x * h
      BY <2>1, <2>2, <3>3
    <3>5. Pow2[k] % x = 0
      BY <2>1, <3>4, MultipleOf
    <3> QED
      BY <1>2, <3>5
  <2> QED
    BY <2>3, <2>4
<1> HIDE DEF S
<1>3. t \in S
  BY <1>1, <1>2, InductionOnSet
<1> QED
  BY <1>3 DEF S

(* modpow, which halves its exponent, computes the power.                  *)
LEMMA ModPowIsPower ==
  ASSUME NEW n \in Nat \ {0}, NEW a \in Nat, NEW e \in Nat
  PROVE  ModPow(a, e, n) = Power(a, n)[e]
<1> DEFINE Turn(g, i) ==
             IF i = 0 THEN 1 % n
             ELSE LET half == g[i \div 2]
                      square == (half * half) % n
                  IN IF i % 2 = 1 THEN (square * a) % n ELSE square
           Loop(g) == g = [i \in Nat |-> Turn(g, i)]
           pow == CHOOSE g : Loop(g)
           P == Power(a, n)
           f == [i \in Nat |-> P[i]]
<1>1. ModPow(a, e, n) = pow[e]
  BY DEF ModPow
<1>2. IsPower(P, a, n)
  BY PowerFacts
<1>3. ASSUME NEW i \in Nat \ {0}
      PROVE  /\ i \div 2 \in Nat /\ i \div 2 < i
             /\ i % 2 = 1 => i = ((i \div 2) + (i \div 2)) + 1
             /\ i % 2 # 1 => i = (i \div 2) + (i \div 2)
  OBVIOUS
<1>4. ASSUME NEW i \in Nat PROVE P[i] = Turn(P, i)
  <2>1. CASE i = 0
    BY <1>2, <2>1 DEF IsPower
  <2>2. CASE i # 0
    <3> DEFINE h == i \div 2
    <3>1. h \in Nat /\ (i % 2 = 1 => i = (h + h) + 1) /\ (i % 2 # 1 => i = h + h)
      BY <1>3, <2>2
    <3> HIDE DEF h
    <3>2. P[h + h] = (P[h] * P[h]) % n
      BY <3>1, PowerAdds
    <3>3. h + h \in Nat /\ P[(h + h) + 1] = (P[h + h] * a) % n
      BY <1>2, <3>1 DEF IsPower
    <3>4. Turn(P, i) = IF i % 2 = 1 THEN (((P[h] * P[h]) % n) * a) % n ELSE (P[h] * P[h]) % n
      BY <2>2 DEF h
    <3> HIDE DEF Turn, P
    <3> QED
      BY <3>1, <3>2, <3>3, <3>4
  <2> QED
    BY <2>1, <2>2
<1> HIDE DEF P
<1>5. Loop(f)
  <2>1. \A i \in Nat : f[i] = P[i]
    OBVIOUS
  <2>2. \A i \in Nat : Turn(f, i) = Turn(P, i)
    <3> SUFFICES ASSUME NEW i \in Nat PROVE Turn(f, i) = Turn(P, i)
      OBVIOUS
    <3>1. i # 0 => i \div 2 \in Nat
      BY <1>3
    <3>2. i # 0 => f[i \div 2] = P[i \div 2]
      BY <2>1, <3>1
    <3> HIDE DEF f
    <3> QED
      BY <3>2
  <2>3. f = [i \in Nat |-> Turn(f, i)]
    <3>1. \A i \in Nat : P[i] = Turn(f, i)
      BY <1>4, <2>2
    <3> HIDE DEF Turn
    <3> QED
      BY <3>1
  <2> QED
    BY <2>3
<1>6. Loop(pow)
  <2> HIDE DEF Loop, f
  <2> QED
    BY <1>5
<1> HIDE DEF pow
<1> DEFINE D == {i \in Nat : pow[i] # P[i]}
<1>7. D = {}
  <2> SUFFICES ASSUME D # {} PROVE FALSE
    OBVIOUS
  <2>1. PICK m \in D : \A i \in D : m <= i
    <3>1. D \in SUBSET Nat
      OBVIOUS
    <3> HIDE DEF D
    <3> QED
      BY <3>1, LeastOf
  <2>2. \A i \in Nat : i < m => pow[i] = P[i]
    BY <2>1
  <2>3. Turn(pow, m) = Turn(P, m)
    <3>1. m \in Nat /\ (m # 0 => m \div 2 \in Nat /\ m \div 2 < m)
      BY <1>3
    <3>2. m # 0 => pow[m \div 2] = P[m \div 2]
      BY <2>2, <3>1
    <3> QED
      BY <3>2
  <2>4. m \in Nat /\ pow[m] # P[m]
    OBVIOUS
  <2> HIDE DEF D
  <2>5. pow[m] = Turn(pow, m) /\ P[m] = Turn(P, m)
    <3>1. P[m] = Turn(P, m)
      BY <1>4, <2>4
    <3>2. pow[m] = Turn(pow, m)
      <4> HIDE DEF Turn
      <4> QED
        BY <1>6, <2>4
    <3> QED
      BY <3>1, <3>2
  <2> HIDE DEF Turn
  <2> QED
    BY <2>3, <2>4, <2>5
<1> QED
  BY <1>1, <1>7 DEF P

(* 2^i by repeated multiplication modulo n.                                *)
LEMMA PowerOfTwo ==
  ASSUME NEW n \in Nat \ {0}, NEW i \in Nat
  PROVE  Power(2, n)[i] = Pow2[i] % n
<1> DEFINE P == Power(2, n)
           S == {k \in Nat : P[k] = Pow2[k] % n}
<1>1. IsPower(P, 2, n)
  BY PowerFacts
<1> HIDE DEF P
<1>2. 0 \in S
  BY <1>1, Pow2Facts DEF IsPower
<1>3. ASSUME NEW k \in Nat, k \in S PROVE k + 1 \in S
  <2>1. P[k + 1] = (P[k] * 2) % n
    BY <1>1 DEF IsPower
  <2>2. Pow2[k] \in Nat /\ Pow2[k + 1] = 2 * Pow2[k]
    BY Pow2Facts
  <2>3. ((Pow2[k] % n) * 2) % n = (Pow2[k] * 2) % n
    BY <2>2, ReduceFactor
  <2>4. Pow2[k] * 2 = 2 * Pow2[k]
    BY <2>2
  <2> QED
    BY <1>3, <2>1, <2>2, <2>3, <2>4
<1> HIDE DEF S
<1>4. i \in S
  BY <1>2, <1>3, InductionOnSet
<1> QED
  BY <1>4 DEF S, P
-----------------------------------------------------------------------------
(***************************************************************************)
(* The administrator's shortcut.                                           *)
(***************************************************************************)

(* What is drawn has its highest and its lowest bit set.                   *)
LEMMA CandidateFacts ==
  ASSUME NEW bits \in Nat \ {0}, NEW n \in Candidates(bits)
  PROVE  n \in Nat /\ n % 2 = 1 /\ Pow2[bits - 1] <= n /\ n < Pow2[bits]
<1>1. bits - 1 \in Nat /\ Pow2[bits - 1] \in Nat /\ Pow2[bits] \in Nat
  BY Pow2Facts
<1> QED
  BY <1>1 DEF Candidates

(* The primes of the model are those of Arithmetic.                        *)
LEMMA IsPrimeIsPrime ==
  ASSUME NEW n \in Nat
  PROVE  IsPrime(n) <=> Prime(n)
  BY DEF IsPrime, Prime

(* No power of two is a multiple of phi(p q), for two different odd        *)
(* numbers with equally many bits: the larger, less 1, lies strictly       *)
(* between two powers of two.                                              *)
LEMMA PhiDividesNoPow2 ==
  ASSUME NEW bits \in Nat \ {0}, NEW p \in Candidates(bits), NEW q \in Candidates(bits),
         p < q, p > 1, NEW t \in Nat
  PROVE  Pow2[t] % ((p - 1) * (q - 1)) # 0
<1>1. /\ p \in Nat /\ p % 2 = 1 /\ Pow2[bits - 1] <= p
      /\ q \in Nat /\ q % 2 = 1 /\ q < Pow2[bits]
  BY CandidateFacts
<1>2. q >= p + 2
  BY <1>1
<1>3. bits - 1 \in Nat /\ Pow2[bits - 1] \in Nat /\ Pow2[bits] \in Nat /\ Pow2[t] \in Nat
  BY Pow2Facts
<1>4. Pow2[bits - 1] < q - 1 /\ q - 1 < Pow2[bits] /\ q - 1 \in Nat \ {0}
  BY <1>1, <1>2, <1>3
<1> SUFFICES ASSUME Pow2[t] % ((p - 1) * (q - 1)) = 0 PROVE FALSE
  OBVIOUS
<1>5. (p - 1) * (q - 1) \in Nat \ {0} /\ p - 1 \in Nat
  BY <1>1, <1>4
<1>6. PICK k \in Nat : Pow2[t] = ((p - 1) * (q - 1)) * k
  <2> DEFINE n == (p - 1) * (q - 1)
  <2>1. n \in Nat \ {0} /\ Pow2[t] % n = 0
    BY <1>5
  <2> HIDE DEF n
  <2>2. PICK k \in Nat : Pow2[t] = n * k
    BY <1>3, <2>1, MultipleOf
  <2> QED
    BY <2>2 DEF n
<1>7. Pow2[t] = (q - 1) * ((p - 1) * k) /\ (p - 1) * k \in Nat
  BY <1>1, <1>4, <1>5, <1>6
<1>8. Pow2[t] % (q - 1) = 0
  BY <1>3, <1>4, <1>7, MultipleOf
<1>9. PICK i \in Nat : q - 1 = Pow2[i]
  BY <1>4, <1>8, DivisorOfPow2
<1>10. CASE i <= bits - 1
  BY <1>3, <1>4, <1>9, <1>10, Pow2Grows
<1>11. CASE i >= bits
  <2>1. Pow2[bits] <= Pow2[i]
    BY <1>11, Pow2Grows
  <2> QED
    BY <1>3, <1>4, <1>9, <2>1
<1> QED
  BY <1>10, <1>11

(* What the shortcut gives is the power that t squarings give.             *)
LEMMA ShortcutIsPower ==
  ASSUME NEW bits \in Nat \ {0}, NEW p \in Candidates(bits), NEW q \in Candidates(bits),
         Prime(p), Prime(q), p # q, NEW g \in Nat, NEW t \in Nat
  PROVE  ModPow(g, ModPow(2, t, (p - 1) * (q - 1)), p * q) = Power(g, p * q)[Pow2[t]]
<1> DEFINE phi == (p - 1) * (q - 1)
           n == p * q
           e == Pow2[t]
<1>1. p \in Nat /\ p > 1 /\ q \in Nat /\ q > 1
  BY DEF Prime
<1>2. phi \in Nat \ {0} /\ n \in Nat \ {0}
  BY <1>1
<1>3. e \in Nat
  BY Pow2Facts
<1>4. e % phi # 0
  <2>1. CASE p < q
    BY <1>1, <2>1, PhiDividesNoPow2
  <2>2. CASE q < p
    <3>1. Pow2[t] % ((q - 1) * (p - 1)) # 0
      BY <1>1, <2>2, PhiDividesNoPow2
    <3>2. (q - 1) * (p - 1) = (p - 1) * (q - 1)
      BY <1>1
    <3> QED
      BY <3>1, <3>2
  <2> QED
    BY <1>1, <2>1, <2>2
<1>5. Power(g, n)[e % phi] = Power(g, n)[e]
  BY <1>3, <1>4, ExponentReduced
<1> HIDE DEF phi, n, e
<1>6. ModPow(2, t, phi) = e % phi
  BY <1>2, ModPowIsPower, PowerOfTwo DEF e
<1>7. e % phi \in Nat
  BY <1>2, <1>3, Divided
<1>8. ModPow(g, e % phi, n) = Power(g, n)[e % phi]
  BY <1>2, <1>7, ModPowIsPower
<1> QED
  BY <1>5, <1>6, <1>8 DEF phi, n, e

-----------------------------------------------------------------------------
(***************************************************************************)
(* The primality test.                                                     *)
(***************************************************************************)

(* Every number is a power of two times an odd one.                        *)
LEMMA TwosOut ==
  ASSUME NEW m \in Nat \ {0}
  PROVE  \E r \in 0 .. m : m % Pow2[r] = 0 /\ (m \div Pow2[r]) % 2 = 1
<1> DEFINE Has(x) == \E r \in 0 .. x : m % Pow2[r] = 0 /\ (m \div Pow2[r]) % 2 = 1
           S == {x \in Nat \ {0} : ~ \E r \in 0 .. x, d \in Nat : x = Pow2[r] * d /\ d % 2 = 1}
<1>1. S = {}
  <2> SUFFICES ASSUME S # {} PROVE FALSE
    OBVIOUS
  <2>1. PICK x \in S : \A y \in S : x <= y
    <3>1. S \in SUBSET Nat
      OBVIOUS
    <3> HIDE DEF S
    <3> QED
      BY <3>1, LeastOf
  <2>2. CASE x % 2 = 1
    <3>1. 0 \in 0 .. x /\ x = Pow2[0] * x
      BY Pow2Facts
    <3> QED
      BY <2>2, <3>1
  <2>3. CASE x % 2 = 0
    <3>1. PICK y \in Nat \ {0} : x = 2 * y
      BY <2>3
    <3>2. y \notin S
      <4>1. ~ (x <= y)
        BY <3>1
      <4> HIDE DEF S
      <4> QED
        BY <2>1, <4>1
    <3>3. PICK r \in 0 .. y, d \in Nat : y = Pow2[r] * d /\ d % 2 = 1
      BY <3>1, <3>2
    <3>4. r + 1 \in 0 .. x
      BY <3>1
    <3>5. x = Pow2[r + 1] * d
      <4>1. Pow2[r] \in Nat /\ Pow2[r + 1] = 2 * Pow2[r]
        BY Pow2Facts
      <4>2. 2 * (Pow2[r] * d) = (2 * Pow2[r]) * d
        BY <4>1
      <4> QED
        BY <3>1, <3>3, <4>1, <4>2
    <3> QED
      BY <3>3, <3>4, <3>5
  <2> QED
    BY <2>2, <2>3
<1>2. PICK r \in 0 .. m, d \in Nat : m = Pow2[r] * d /\ d % 2 = 1
  BY <1>1
<1>3. Pow2[r] \in Nat \ {0}
  BY Pow2Facts
<1> DEFINE u == Pow2[r]
<1> HIDE DEF u
<1>4. u \in Nat \ {0} /\ m = u * d
  BY <1>2, <1>3 DEF u
<1>5. m % u = 0 /\ m \div u = d
  BY <1>4
<1> QED
  BY <1>2, <1>5 DEF u

(* A prime passes with every witness: a^(n - 1) = 1, and going back from   *)
(* there by square roots, the first that is not 1 is n - 1.                *)
LEMMA PrimePasses ==
  ASSUME NEW n, Prime(n), NEW a \in Nat, a % n # 0
  PROVE  Passes(n, a)
<1> DEFINE r == TwosIn(n - 1)
           d == (n - 1) \div Pow2[r]
           x == ModPow(a, d, n)
           Y(j) == Power(a, n)[Pow2[j] * d]
<1>1. n \in Nat \ {0} /\ n > 1 /\ n - 1 \in Nat \ {0}
  BY DEF Prime
<1>2. r \in Nat /\ (n - 1) % Pow2[r] = 0
  BY <1>1, TwosOut DEF TwosIn
<1>3. \A j \in Nat : Pow2[j] \in Nat \ {0}
  BY Pow2Facts
<1> HIDE DEF r
<1>4. d \in Nat /\ Pow2[r] * d = n - 1
  <2> DEFINE u == Pow2[r]
  <2>1. u \in Nat \ {0} /\ (n - 1) % u = 0
    BY <1>2, <1>3
  <2> HIDE DEF u
  <2>2. (n - 1) \div u \in Nat /\ n - 1 = u * ((n - 1) \div u) + ((n - 1) % u)
    BY <1>1, <2>1, Divided
  <2> QED
    BY <2>1, <2>2 DEF u
<1> HIDE DEF d
<1>5. x = Power(a, n)[d] /\ x \in Nat
  BY <1>1, <1>4, ModPowIsPower, PowerIn
<1>6. ASSUME NEW j \in Nat PROVE ModPow(x, Pow2[j], n) = Y(j) /\ Y(j) \in Nat /\ Y(j) < n
  <2>1. Pow2[j] \in Nat /\ d * Pow2[j] \in Nat /\ d * Pow2[j] = Pow2[j] * d
    BY <1>3, <1>4
  <2>2. ModPow(x, Pow2[j], n) = Power(x, n)[Pow2[j]]
    BY <1>1, <1>5, <2>1, ModPowIsPower
  <2>3. Power(Power(a, n)[d], n)[Pow2[j]] = Power(a, n)[d * Pow2[j]]
    <3> DEFINE e == Pow2[j]
    <3>1. e \in Nat
      BY <2>1
    <3> HIDE DEF e
    <3>2. Power(Power(a, n)[d], n)[e] = Power(a, n)[d * e]
      BY <1>1, <1>4, <3>1, PowerOfPower
    <3> QED
      BY <3>2 DEF e
  <2>4. Power(a, n)[d * Pow2[j]] \in Nat /\ Power(a, n)[d * Pow2[j]] < n
    BY <1>1, <2>1, PowerIn
  <2> QED
    BY <1>5, <2>1, <2>2, <2>3, <2>4
<1>7. ASSUME NEW j \in Nat PROVE Y(j + 1) = (Y(j) * Y(j)) % n
  <2>1. Pow2[j] * d \in Nat
    BY <1>3, <1>4
  <2>2. Pow2[j + 1] * d = (Pow2[j] * d) + (Pow2[j] * d)
    <3>1. Pow2[j + 1] = 2 * Pow2[j] /\ Pow2[j] \in Nat
      BY Pow2Facts
    <3> QED
      BY <1>4, <3>1
  <2> DEFINE k == Pow2[j] * d
  <2> HIDE DEF k
  <2>3. Power(a, n)[k + k] = (Power(a, n)[k] * Power(a, n)[k]) % n
    BY <1>1, <2>1, PowerAdds DEF k
  <2> QED
    BY <2>2, <2>3 DEF k
<1>8. Y(r) = 1
  BY <1>4, Fermat
<1>9. Y(0) = x
  <2>1. Pow2[0] * d = d
    BY <1>4, Pow2Facts
  <2> QED
    BY <1>5, <2>1
<1> HIDE DEF Y, x
<1> DEFINE S == {j \in Nat : Y(j) = 1}
<1>10. PICK j \in S : \A i \in S : j <= i
  <2>1. S \in SUBSET Nat /\ S # {}
    BY <1>2, <1>8
  <2> HIDE DEF S
  <2> QED
    BY <2>1, LeastOf
<1>11. j \in Nat /\ j <= r /\ Y(j) = 1
  BY <1>2, <1>8, <1>10
<1>12. CASE j = 0
  <2>1. x = 1
    BY <1>9, <1>11, <1>12
  <2> QED
    BY <2>1 DEF Passes, x, d, r
<1>13. CASE j # 0
  <2>1. j - 1 \in Nat /\ (j - 1) + 1 = j /\ j - 1 \in 0 .. r - 1 /\ ~ (j <= j - 1)
    BY <1>2, <1>11, <1>13
  <2>2. Y(j - 1) # 1
    BY <1>10, <2>1
  <2>3. (Y(j - 1) * Y(j - 1)) % n = 1
    BY <1>7, <1>11, <2>1
  <2>4. Y(j - 1) \in Nat /\ Y(j - 1) < n
    BY <1>6, <2>1
  <2>5. Y(j - 1) = n - 1
    BY <2>2, <2>3, <2>4, RootsOfOne
  <2>6. ModPow(x, Pow2[j - 1], n) = n - 1
    BY <1>6, <2>1, <2>5
  <2> QED
    BY <2>1, <2>6 DEF Passes, x, d, r
<1> QED
  BY <1>12, <1>13
-----------------------------------------------------------------------------
(* A puzzle that generate made, a secret it made, and such a pair.         *)
Calibrated(pz) ==
  /\ pz = [n |-> pz.n, g |-> pz.g, ops |-> pz.ops, rate |-> pz.rate, time |-> pz.time]
  /\ pz.time \in Times /\ pz.rate \in Rates
  /\ pz.ops = TOps(pz.time, pz.rate) /\ pz.ops \in Nat
  /\ pz.n \in Nat /\ pz.g \in Nat /\ pz.g < pz.n /\ pz.n > 1

Drawn(sc) ==
  /\ sc = [p |-> sc.p, q |-> sc.q]
  /\ sc.p \in Candidates(PrimeBits) /\ sc.q \in Candidates(PrimeBits)

Pair(pz, sc) == Drawn(sc) /\ sc.p * sc.q = pz.n

(* What i squarings give.                                                  *)
Squared(pz, i) == Power(pz.g, pz.n)[Pow2[i]]

(***************************************************************************)
(* The invariant.  What a generate holds is a pair that belongs together,  *)
(* and until it has written both files nobody calls the directory whole;   *)
(* a solver keeps the puzzle it started with, though the file may since    *)
(* have been replaced, and holds what its squarings of that puzzle give;   *)
(* a file locked with the factors of its puzzle has the key that all of    *)
(* them give; an exam shows the squarings of its own puzzle.               *)
(***************************************************************************)
GenerateInv ==
  cmd.at \in {"puzzle", "secret"} =>
    /\ cmd = [at |-> cmd.at, puzzle |-> cmd.puzzle, secret |-> cmd.secret]
    /\ Calibrated(cmd.puzzle) /\ Pair(cmd.puzzle, cmd.secret)
    /\ ~whole
    /\ cmd.at = "secret" => puzzle = cmd.puzzle

SolveInv ==
  cmd.at = "solve" =>
    /\ cmd = [at |-> cmd.at, puzzle |-> cmd.puzzle, aad |-> cmd.aad, x |-> cmd.x, i |-> cmd.i]
    /\ Calibrated(cmd.puzzle)
    /\ cmd.i \in Nat /\ cmd.x = Squared(cmd.puzzle, cmd.i)
    /\ locked # Unreadable

FileInv ==
  /\ puzzle # Unreadable => Calibrated(puzzle)
  /\ secret # Unreadable => Drawn(secret)
  /\ whole => puzzle # Unreadable /\ secret # Unreadable /\ Pair(puzzle, secret)
  /\ whole \in BOOLEAN

LockedInv ==
  locked # Unreadable /\ locked.sound => locked.key = Squared(locked.puzzle, locked.puzzle.ops)

ExamInv ==
  exam # Unreadable =>
    /\ exam.time \in Times /\ exam.rate \in Rates
    /\ exam.squarings = TOps(exam.time, exam.rate)

BenchInv == cmd.at = "bench" => cmd.n \in Nat

ToolInv == GenerateInv /\ SolveInv /\ FileInv /\ LockedInv /\ ExamInv /\ BenchInv
-----------------------------------------------------------------------------
(* A file that generate wrote can be read.                                 *)
LEMMA WrittenIsReadable ==
  /\ \A pz : Calibrated(pz) => pz # Unreadable
  /\ \A pz, sc : Pair(pz, sc) => sc # Unreadable
  BY DEF Calibrated, Pair, Drawn, Unreadable

(* The counter of squarings is a number, whatever it had to hold.          *)
LEMMA OpsAreCounted ==
  ASSUME NEW time \in Times, NEW rate \in Rates
  PROVE  TOps(time, rate) \in Nat
<1>1. time \in Nat /\ rate \in Nat /\ CounterBits \in Nat
  BY TimeLockAssumption
<1>2. time * rate \in Nat
  BY <1>1
<1>3. MaxOps \in Nat
  BY <1>1, Pow2Facts DEF MaxOps
<1> QED
  BY <1>2, <1>3 DEF TOps

(* No squaring gives the base, and each squares.                           *)
LEMMA SquaringsGoOn ==
  ASSUME NEW pz, Calibrated(pz)
  PROVE  /\ Squared(pz, 0) = pz.g
         /\ \A i \in Nat : Squared(pz, i + 1) = (Squared(pz, i) * Squared(pz, i)) % pz.n
<1>1. pz.n \in Nat \ {0} /\ pz.g \in Nat /\ pz.g < pz.n
  BY DEF Calibrated
<1> DEFINE n == pz.n
           g == pz.g
<1> HIDE DEF n, g
<1>2. n \in Nat \ {0} /\ g \in Nat /\ g < n
  BY <1>1 DEF n, g
<1>3. Power(g, n)[Pow2[0]] = g
  <2>1. Power(g, n)[1] = g % n /\ Pow2[0] = 1
    BY <1>2, PowerOne, Pow2Facts
  <2>2. g % n = g
    BY <1>2
  <2> QED
    BY <2>1, <2>2
<1>4. ASSUME NEW i \in Nat
      PROVE  Power(g, n)[Pow2[i + 1]] = (Power(g, n)[Pow2[i]] * Power(g, n)[Pow2[i]]) % n
  <2> DEFINE e == Pow2[i]
  <2>1. e \in Nat /\ Pow2[i + 1] = e + e
    BY Pow2Facts
  <2> HIDE DEF e
  <2>2. Power(g, n)[e + e] = (Power(g, n)[e] * Power(g, n)[e]) % n
    BY <1>2, <2>1, PowerAdds
  <2> QED
    BY <2>1, <2>2 DEF e
<1> QED
  BY <1>3, <1>4 DEF Squared, n, g

(* Primes have two bits at least.                                          *)
LEMMA PrimesAreLarge ==
  ASSUME NEW p \in Candidates(PrimeBits)
  PROVE  p \in Nat /\ p > 1
<1>1. PrimeBits \in Nat \ {0, 1} /\ PrimeBits - 2 \in Nat
  BY TimeLockAssumption
<1>2. p \in Nat /\ Pow2[PrimeBits - 1] <= p
  BY <1>1, CandidateFacts
<1>3. Pow2[(PrimeBits - 2) + 1] = 2 * Pow2[PrimeBits - 2] /\ Pow2[PrimeBits - 2] \in Nat \ {0}
  BY <1>1, Pow2Facts
<1>4. (PrimeBits - 2) + 1 = PrimeBits - 1
  BY <1>1
<1> QED
  BY <1>2, <1>3, <1>4

(* What cmd_lock encrypts with.                                            *)
LEMMA LockedWithSquared ==
  ASSUME NEW pz, NEW sc, Calibrated(pz), Drawn(sc), Factors(sc, pz.n)
  PROVE  AdminKey(pz, sc) = Squared(pz, pz.ops)
<1>1. /\ PrimeBits \in Nat \ {0} /\ pz.g \in Nat /\ pz.ops \in Nat
      /\ sc.p \in Candidates(PrimeBits) /\ sc.q \in Candidates(PrimeBits)
  BY TimeLockAssumption DEF Calibrated, Drawn
<1>2. sc.p \in Nat /\ sc.q \in Nat
  BY <1>1, CandidateFacts
<1>3. Prime(sc.p) /\ Prime(sc.q) /\ sc.p # sc.q /\ sc.p * sc.q = pz.n
  BY <1>2, IsPrimeIsPrime DEF Factors
<1> DEFINE p == sc.p
           q == sc.q
<1>4. ModPow(pz.g, ModPow(2, pz.ops, (p - 1) * (q - 1)), p * q) = Power(pz.g, p * q)[Pow2[pz.ops]]
  <2> HIDE DEF p, q
  <2> QED
    BY <1>1, <1>3, ShortcutIsPower DEF p, q
<1> QED
  BY <1>3, <1>4 DEF AdminKey, Squared

(* An empty directory.                                                     *)
LEMMA ToolInvInit == ToolInit => ToolInv
<1> SUFFICES ASSUME ToolInit PROVE ToolInv
  OBVIOUS
<1>1. cmd.at \in {"idle", "bench"}
  BY DEF ToolInit, Idle, Benches
<1>2. BenchInv
  <2> SUFFICES ASSUME cmd \in Benches PROVE cmd.n \in Nat
    BY DEF ToolInit, Idle, BenchInv
  <2>1. PICK bits \in BenchBits : \E n \in Candidates(bits) : cmd = [at |-> "bench", n |-> n]
    BY DEF Benches
  <2>2. PICK n \in Candidates(bits) : cmd = [at |-> "bench", n |-> n]
    BY <2>1
  <2>3. n \in Nat
    BY TimeLockAssumption, CandidateFacts
  <2> QED
    BY <2>2, <2>3
<1> QED
  BY <1>1, <1>2
  DEF ToolInit, ToolInv, GenerateInv, SolveInv, FileInv, LockedInv, ExamInv

(* Every command, and every kill, keeps it.                                *)
LEMMA ToolInvNext == ToolInv /\ [ToolNext]_toolVars => ToolInv'
<1> SUFFICES ASSUME ToolInv, [ToolNext]_toolVars PROVE ToolInv'
  OBVIOUS
<1>1. GenerateInv /\ SolveInv /\ FileInv /\ LockedInv /\ ExamInv /\ BenchInv
  BY DEF ToolInv
<1>2. CASE Generate
  <2>1. PICK p, q \in GenPrime(PrimeBits), time \in Times, rate \in Rates, h \in Bases :
          cmd' = [at |-> "puzzle",
                  puzzle |-> [n |-> p * q, g |-> (h * h) % (p * q),
                              ops |-> TOps(time, rate), rate |-> rate, time |-> time],
                  secret |-> [p |-> p, q |-> q]]
    BY <1>2 DEF Generate
  <2>2. cmd'.at = "puzzle" /\ cmd' = [at |-> cmd'.at, puzzle |-> cmd'.puzzle, secret |-> cmd'.secret]
    BY <2>1
  <2>3. p \in Candidates(PrimeBits) /\ q \in Candidates(PrimeBits)
    BY DEF GenPrime
  <2>4. p \in Nat /\ p > 1 /\ q \in Nat /\ q > 1
    BY <2>3, PrimesAreLarge
  <2>5. p * q \in Nat \ {0} /\ p * q > 1 /\ h * h \in Nat
    BY <2>4, TimeLockAssumption
  <2>6. (h * h) % (p * q) \in Nat /\ (h * h) % (p * q) < p * q
    <3> DEFINE n == p * q
               b == h * h
    <3>1. n \in Nat \ {0} /\ b \in Nat
      BY <2>5
    <3> HIDE DEF n, b
    <3>2. b % n \in Nat /\ b % n < n
      BY <3>1, Divided
    <3> QED
      BY <3>2 DEF n, b
  <2>7. Calibrated(cmd'.puzzle)
    BY <2>1, <2>5, <2>6, OpsAreCounted DEF Calibrated
  <2>8. Pair(cmd'.puzzle, cmd'.secret)
    BY <2>1, <2>3 DEF Pair, Drawn
  <2> QED
    BY <1>1, <1>2, <2>2, <2>7, <2>8
    DEF Generate, ToolInv, GenerateInv, SolveInv, FileInv, LockedInv, ExamInv, BenchInv
<1>3. CASE WritePuzzle
  <2>1. /\ cmd' = [at |-> "secret", puzzle |-> cmd.puzzle, secret |-> cmd.secret]
        /\ cmd.at \in {"puzzle", "secret"} /\ puzzle' = cmd.puzzle
    BY <1>1, <1>3 DEF WritePuzzle, GenerateInv
  <2>2. Calibrated(cmd.puzzle) /\ Pair(cmd.puzzle, cmd.secret) /\ ~whole
    BY <1>1, <2>1 DEF GenerateInv
  <2>3. /\ cmd'.at = "secret" /\ cmd'.puzzle = cmd.puzzle /\ cmd'.secret = cmd.secret
        /\ cmd' = [at |-> cmd'.at, puzzle |-> cmd'.puzzle, secret |-> cmd'.secret]
    BY <2>1
  <2>4. Calibrated(cmd'.puzzle) /\ Pair(cmd'.puzzle, cmd'.secret) /\ Calibrated(puzzle')
    BY <2>1, <2>2, <2>3
  <2> QED
    BY <1>1, <1>3, <2>1, <2>2, <2>3, <2>4
    DEF WritePuzzle, ToolInv, GenerateInv, SolveInv, FileInv, LockedInv, ExamInv, BenchInv
<1>4. CASE WriteSecret
  <2>1. /\ cmd.at = "secret" /\ secret' = cmd.secret /\ puzzle' = cmd.puzzle
        /\ Calibrated(cmd.puzzle) /\ Pair(cmd.puzzle, cmd.secret)
    BY <1>1, <1>4 DEF WriteSecret, GenerateInv
  <2>2. puzzle' # Unreadable /\ secret' # Unreadable
    BY <2>1, WrittenIsReadable
  <2>3. Calibrated(puzzle') /\ Pair(puzzle', secret') /\ Drawn(secret')
    BY <2>1 DEF Pair
  <2> QED
    BY <1>1, <1>4, <2>2, <2>3
    DEF WriteSecret, Idle, ToolInv, GenerateInv, SolveInv, FileInv, LockedInv, ExamInv, BenchInv
<1>5. CASE Lock
  <2>1. Calibrated(puzzle) /\ Drawn(secret) /\ cmd = Idle
    BY <1>1, <1>5 DEF Lock, FileInv
  <2>2. LockedInv'
    <3>1. CASE locked' = Unreadable
      BY <3>1 DEF LockedInv
    <3>2. ASSUME NEW aad \in Aads,
                 locked' = [key |-> AdminKey(puzzle, secret), aad |-> aad,
                            puzzle |-> puzzle, sound |-> Factors(secret, puzzle.n)]
          PROVE  LockedInv'
      <4>1. /\ locked'.key = AdminKey(puzzle, secret) /\ locked'.puzzle = puzzle
            /\ locked'.sound = Factors(secret, puzzle.n)
        BY <3>2
      <4>2. locked'.sound => locked'.key = Squared(locked'.puzzle, locked'.puzzle.ops)
        BY <2>1, <4>1, LockedWithSquared
      <4> QED
        BY <4>2 DEF LockedInv
    <3> QED
      BY <1>5, <3>1, <3>2 DEF Lock
  <2> QED
    BY <1>1, <1>5, <2>1, <2>2
    DEF Lock, Idle, ToolInv, GenerateInv, SolveInv, FileInv, ExamInv, BenchInv
<1>6. CASE StartSolve
  <2>1. PICK aad \in Aads :
          cmd' = [at |-> "solve", puzzle |-> puzzle, aad |-> aad, x |-> puzzle.g, i |-> 0]
    BY <1>6 DEF StartSolve
  <2>2. /\ cmd'.at = "solve" /\ cmd'.puzzle = puzzle /\ cmd'.x = puzzle.g /\ cmd'.i = 0
        /\ cmd' = [at |-> cmd'.at, puzzle |-> cmd'.puzzle, aad |-> cmd'.aad,
                   x |-> cmd'.x, i |-> cmd'.i]
    BY <2>1
  <2>3. Calibrated(cmd'.puzzle)
    BY <1>1, <1>6, <2>2 DEF StartSolve, FileInv
  <2>4. cmd'.i \in Nat /\ cmd'.x = Squared(cmd'.puzzle, cmd'.i)
    BY <2>2, <2>3, SquaringsGoOn
  <2>5. locked' # Unreadable
    BY <1>6 DEF StartSolve
  <2> QED
    BY <1>1, <1>6, <2>2, <2>3, <2>4, <2>5
    DEF StartSolve, ToolInv, GenerateInv, SolveInv, FileInv, LockedInv, ExamInv, BenchInv
<1>7. CASE Squares
  <2>1. /\ cmd.at = "solve" /\ Calibrated(cmd.puzzle) /\ locked # Unreadable
        /\ cmd = [at |-> cmd.at, puzzle |-> cmd.puzzle, aad |-> cmd.aad, x |-> cmd.x, i |-> cmd.i]
        /\ cmd.i \in Nat /\ cmd.x = Squared(cmd.puzzle, cmd.i)
    BY <1>1, <1>7 DEF Squares, SolveInv
  <2>2. /\ cmd'.at = "solve" /\ cmd'.puzzle = cmd.puzzle
        /\ cmd'.x = (cmd.x * cmd.x) % cmd.puzzle.n /\ cmd'.i = cmd.i + 1
        /\ cmd' = [at |-> cmd'.at, puzzle |-> cmd'.puzzle, aad |-> cmd'.aad,
                   x |-> cmd'.x, i |-> cmd'.i]
    BY <1>7, <2>1 DEF Squares
  <2>3. Calibrated(cmd'.puzzle)
    BY <2>1, <2>2
  <2>4. cmd'.i \in Nat /\ cmd'.x = Squared(cmd'.puzzle, cmd'.i)
    BY <2>1, <2>2, SquaringsGoOn
  <2> QED
    BY <1>1, <1>7, <2>1, <2>2, <2>3, <2>4
    DEF Squares, ToolInv, GenerateInv, SolveInv, FileInv, LockedInv, ExamInv, BenchInv
<1>8. CASE Solved
  <2>1. cmd.at = "solve" /\ Calibrated(cmd.puzzle) /\ cmd.i = cmd.puzzle.ops
    BY <1>1, <1>8 DEF Solved, SolveInv
  <2>2. ExamInv'
    BY <1>1, <1>8, <2>1 DEF Solved, ExamInv, Calibrated
  <2> QED
    BY <1>1, <1>8, <2>2
    DEF Solved, Idle, ToolInv, GenerateInv, SolveInv, FileInv, LockedInv, BenchInv
<1>9. CASE Kill
  <2>1. /\ cmd' = Idle /\ whole' = whole /\ exam' = exam /\ locked' = locked
        /\ UNCHANGED <<puzzle, secret>> \/ ~whole
        /\ puzzle' = puzzle \/ puzzle' = Unreadable
        /\ secret' = secret \/ secret' = Unreadable
    BY <1>1, <1>9 DEF Kill, GenerateInv
  <2> QED
    BY <1>1, <2>1
    DEF Idle, ToolInv, GenerateInv, SolveInv, FileInv, LockedInv, ExamInv, BenchInv
<1>10. CASE UNCHANGED toolVars
  BY <1>1, <1>10
  DEF toolVars, ToolInv, GenerateInv, SolveInv, FileInv, LockedInv, ExamInv, BenchInv
<1> QED
  BY <1>2, <1>3, <1>4, <1>5, <1>6, <1>7, <1>8, <1>9, <1>10 DEF ToolNext

(* ToolInv holds in every reachable state of the tool.                     *)
LEMMA ToolInvariant == ToolSpec => []ToolInv
  BY ToolInvInit, ToolInvNext, PTL DEF ToolSpec

(* An exam comes out only after the squarings its own puzzle asks for:     *)
(* as many as the measured rate makes in the time, or all t_ops can count, *)
(* even if the puzzle was replaced or its solver killed and run again.     *)
THEOREM LeadAlwaysSpent == ToolSpec => []LeadIsSpent
<1>1. ToolInv => LeadIsSpent
  <2> SUFFICES ASSUME ToolInv, exam # Unreadable
               PROVE  exam.squarings >= exam.time * exam.rate \/ exam.squarings = MaxOps
    BY DEF LeadIsSpent
  <2>1. /\ exam.time \in Nat /\ exam.rate \in Nat
        /\ exam.squarings = TOps(exam.time, exam.rate)
    BY TimeLockAssumption DEF ToolInv, ExamInv
  <2>2. exam.time * exam.rate \in Int
    BY <2>1
  <2> QED
    BY <2>1, <2>2 DEF TOps
<1> QED
  BY <1>1, ToolInvariant, PTL

(* After a generate that ended, the puzzle and the secret belong together, *)
(* wherever an earlier one was killed.                                     *)
THEOREM GenerateAlwaysRepairs == ToolSpec => []GenerateRepairs
<1>1. ToolInv => GenerateRepairs
  BY DEF ToolInv, FileInv, Pair, GenerateRepairs
<1> QED
  BY <1>1, ToolInvariant, PTL

(* What the administrator computes by the shortcut is what a center gets   *)
(* by squaring, for every two different primes of one size, every base and *)
(* every number of squarings.                                              *)
THEOREM TrapdoorAlwaysMatches == ToolSpec => []TrapdoorMatchesSolver
<1>1. ToolInv => TrapdoorMatchesSolver
  <2> SUFFICES ASSUME ToolInv, cmd.at = "solve", cmd.i = cmd.puzzle.ops,
                      locked.puzzle = cmd.puzzle, locked.sound
               PROVE  cmd.x = locked.key
    BY DEF TrapdoorMatchesSolver
  <2>1. locked # Unreadable /\ cmd.x = Squared(cmd.puzzle, cmd.i)
    BY DEF ToolInv, SolveInv
  <2>2. locked.key = Squared(locked.puzzle, locked.puzzle.ops)
    BY <2>1 DEF ToolInv, LockedInv
  <2> QED
    BY <2>1, <2>2
<1> QED
  BY <1>1, ToolInvariant, PTL

(* No prime is turned away, of any size, whatever witnesses are drawn.     *)
THEOREM PrimesAlwaysPass == ToolSpec => []PrimesPass
<1>1. ToolInv => PrimesPass
  <2> SUFFICES ASSUME ToolInv, cmd.at = "bench", IsPrime(cmd.n), NEW a \in Witnesses(cmd.n)
               PROVE  Passes(cmd.n, a)
    BY DEF PrimesPass
  <2>1. cmd.n \in Nat
    BY DEF ToolInv, BenchInv
  <2>2. Prime(cmd.n)
    BY <2>1, IsPrimeIsPrime
  <2>3. a \in Nat /\ a % cmd.n # 0
    <3>1. a \in Nat /\ a # 0 /\ a < cmd.n
      BY <2>1 DEF Witnesses
    <3>2. a % cmd.n = a
      BY <2>1, <3>1
    <3> QED
      BY <3>1, <3>2
  <2> QED
    BY <2>2, <2>3, PrimePasses
<1> QED
  BY <1>1, ToolInvariant, PTL
==============================================================================
