------------------------------ MODULE Arithmetic ------------------------------
(***************************************************************************)
(* Facts that the proofs about the models share: induction, loops,         *)
(* remainders, powers and primes, up to Fermat's theorem.                  *)
(***************************************************************************)
EXTENDS Integers, FiniteSets, FiniteSetTheorems, WellFoundedInduction, TLAPS

(***************************************************************************)
(* Induction, and loops over 1 .. n as functions of the turns made.        *)
(***************************************************************************)

(* A set of naturals has a least element.                                  *)
LEMMA LeastOf ==
  ASSUME NEW S \in SUBSET Nat, S # {}
  PROVE  \E m \in S : \A n \in S : m <= n
<1>1. IsWellFoundedOn(OpToRel(<, Nat), Nat)
  BY NatLessThanWellFounded
<1>2. \E m \in S : \A n \in S : ~ (<<n, m>> \in OpToRel(<, Nat))
  BY <1>1, WFMin
<1>3. PICK m \in S : \A n \in S : ~ (<<n, m>> \in OpToRel(<, Nat))
  BY <1>2
<1>4. \A n \in S : ~ (n < m)
  BY <1>3 DEF OpToRel
<1> QED
  BY <1>4

(* Induction, for a set in the place of a predicate.                       *)
LEMMA InductionOnSet ==
  ASSUME NEW S, 0 \in S, \A n \in Nat : n \in S => n + 1 \in S
  PROVE  Nat \subseteq S
<1> SUFFICES ASSUME Nat \ S # {} PROVE FALSE
  OBVIOUS
<1>1. Nat \ S \in SUBSET Nat
  OBVIOUS
<1>2. PICK m \in Nat \ S : \A n \in Nat \ S : m <= n
  BY <1>1, LeastOf
<1>3. m # 0 /\ m - 1 \in Nat
  OBVIOUS
<1>4. m - 1 \in S
  BY <1>2, <1>3
<1> QED
  BY <1>2, <1>3, <1>4

(* A loop that starts within X and stays there runs to its end.            *)
Turns(acc, start, step, n) ==
  acc[0] = start /\ \A j \in 1 .. n : acc[j] = step[j][acc[j - 1]]

(* Such a loop has a value after every turn.                               *)
LEMMA LoopRuns ==
  ASSUME NEW X, NEW n \in Nat, NEW start \in X, NEW step \in [1 .. n -> [X -> X]]
  PROVE  \E acc \in [0 .. n -> X] : Turns(acc, start, step, n)
<1> DEFINE S == {m \in Nat : m <= n => \E acc \in [0 .. m -> X] : Turns(acc, start, step, m)}
<1>1. 0 \in S
  <2> DEFINE acc == [j \in 0 .. 0 |-> start]
  <2>1. acc \in [0 .. 0 -> X] /\ acc[0] = start
    OBVIOUS
  <2> HIDE DEF acc
  <2>2. Turns(acc, start, step, 0)
    BY <2>1 DEF Turns
  <2> QED
    BY <2>1, <2>2
<1>2. ASSUME NEW m \in Nat, m \in S PROVE m + 1 \in S
  <2> SUFFICES ASSUME m + 1 <= n PROVE \E acc \in [0 .. m + 1 -> X] : Turns(acc, start, step, m + 1)
    OBVIOUS
  <2>1. PICK acc \in [0 .. m -> X] : Turns(acc, start, step, m)
    BY <1>2
  <2>2. acc[m] \in X /\ m + 1 \in 1 .. n
    BY <2>1
  <2>3. step[m + 1][acc[m]] \in X
    BY <2>2
  <2> DEFINE next == [j \in 0 .. m + 1 |-> IF j = m + 1 THEN step[m + 1][acc[m]] ELSE acc[j]]
  <2>4. next \in [0 .. m + 1 -> X]
    BY <2>1, <2>3
  <2>5. next[m + 1] = step[m + 1][acc[m]] /\ \A j \in 0 .. m : next[j] = acc[j]
    OBVIOUS
  <2> HIDE DEF next
  <2>6. next[0] = start
    BY <2>1, <2>5 DEF Turns
  <2>7. ASSUME NEW j \in 1 .. m + 1 PROVE next[j] = step[j][next[j - 1]]
    <3>1. CASE j = m + 1
      BY <2>5, <3>1
    <3>2. CASE j \in 1 .. m
      BY <2>1, <2>5, <3>2 DEF Turns
    <3> QED
      BY <3>1, <3>2
  <2>8. Turns(next, start, step, m + 1)
    BY <2>6, <2>7 DEF Turns
  <2> QED
    BY <2>4, <2>8
<1> HIDE DEF S
<1>3. Nat \subseteq S
  BY <1>1, <1>2, InductionOnSet
<1> QED
  BY <1>3 DEF S

(* Two loops that start alike and take the same turns end alike.           *)
SameTurns(f, g, n) == f[0] = g[0] /\ \A j \in 1 .. n : f[j - 1] = g[j - 1] => f[j] = g[j]

(* By induction on the turns.                                              *)
LEMMA LoopsAgree ==
  ASSUME NEW n \in Nat, NEW f, NEW g, SameTurns(f, g, n)
  PROVE  \A j \in 0 .. n : f[j] = g[j]
<1> DEFINE S == {m \in Nat : m <= n => f[m] = g[m]}
<1>1. 0 \in S
  BY DEF SameTurns
<1>2. ASSUME NEW m \in Nat, m \in S PROVE m + 1 \in S
  <2>1. m + 1 <= n => f[(m + 1) - 1] = g[(m + 1) - 1] /\ m + 1 \in 1 .. n
    BY <1>2
  <2>2. m + 1 <= n => f[m + 1] = g[m + 1]
    BY <2>1 DEF SameTurns
  <2> QED
    BY <2>2
<1> HIDE DEF S
<1>3. Nat \subseteq S
  BY <1>1, <1>2, InductionOnSet
<1> QED
  BY <1>3 DEF S

(* A loop that has no end.                                                 *)
RunsOn(f, start, step) == f[0] = start /\ \A i \in Nat \ {0} : f[i] = step[i][f[i - 1]]

(* It too has a value after every turn.                                    *)
LEMMA LoopRunsOn ==
  ASSUME NEW X, NEW start \in X, NEW step \in [Nat \ {0} -> [X -> X]]
  PROVE  \E f \in [Nat -> X] : RunsOn(f, start, step)
<1> DEFINE Upto(m, acc) == acc \in [0 .. m -> X] /\ Turns(acc, start, step, m)
           run == [m \in Nat |-> CHOOSE acc : Upto(m, acc)]
           f == [i \in Nat |-> run[i][i]]
<1>1. ASSUME NEW m \in Nat PROVE Upto(m, run[m])
  <2> DEFINE part == [i \in 1 .. m |-> step[i]]
  <2>1. part \in [1 .. m -> [X -> X]] /\ \A i \in 1 .. m : part[i] = step[i]
    OBVIOUS
  <2> HIDE DEF part
  <2>2. PICK acc \in [0 .. m -> X] : Turns(acc, start, part, m)
    BY <2>1, LoopRuns
  <2>3. Upto(m, acc)
    BY <2>1, <2>2 DEF Turns
  <2>4. run[m] = CHOOSE h : Upto(m, h)
    OBVIOUS
  <2> HIDE DEF Upto, run
  <2> QED
    BY <2>3, <2>4
<1> HIDE DEF run
<1>2. \A i \in Nat : f[i] = run[i][i]
  OBVIOUS
<1>3. f \in [Nat -> X]
  <2>1. \A i \in Nat : run[i][i] \in X
    BY <1>1
  <2> QED
    BY <2>1
<1> HIDE DEF f
<1>4. f[0] = start
  BY <1>1, <1>2 DEF Turns
<1>5. ASSUME NEW i \in Nat \ {0} PROVE f[i] = step[i][f[i - 1]]
  <2>1. i - 1 \in Nat /\ i \in 1 .. i /\ i - 1 \in 0 .. i - 1 /\ i \in Nat
    OBVIOUS
  <2>2. Turns(run[i], start, step, i) /\ Turns(run[i - 1], start, step, i - 1)
    BY <1>1, <2>1
  <2>3. SameTurns(run[i], run[i - 1], i - 1)
    BY <2>2 DEF Turns, SameTurns
  <2>4. run[i][i - 1] = run[i - 1][i - 1]
    BY <2>1, <2>3, LoopsAgree
  <2>5. run[i][i] = step[i][run[i][i - 1]]
    BY <2>1, <2>2 DEF Turns
  <2> QED
    BY <1>2, <2>1, <2>4, <2>5
<1> QED
  BY <1>3, <1>4, <1>5 DEF RunsOn

-----------------------------------------------------------------------------
(***************************************************************************)
(* Remainders.                                                             *)
(***************************************************************************)

(* Quotient and remainder.                                                 *)
LEMMA Divided ==
  ASSUME NEW n \in Nat \ {0}, NEW a \in Nat
  PROVE  a % n \in 0 .. n - 1 /\ a \div n \in Nat /\ a = n * (a \div n) + (a % n)
  OBVIOUS

(* A number is a multiple and its remainder.                               *)
LEMMA DividedInto ==
  ASSUME NEW n \in Nat \ {0}, NEW a \in Nat
  PROVE  \E q \in Nat, r \in Nat : a = n * q + r /\ r = a % n /\ r < n
<1> DEFINE q == a \div n
           r == a % n
<1>1. q \in Nat /\ r \in Nat /\ r < n /\ a = n * q + r
  BY Divided
<1> HIDE DEF q
<1> QED
  BY <1>1

(* They are unique.                                                        *)
LEMMA Remainder ==
  ASSUME NEW n \in Nat \ {0}, NEW q \in Nat, NEW r \in 0 .. n - 1
  PROVE  (n * q + r) % n = r
  OBVIOUS

(* A multiple of n may be left out.                                        *)
LEMMA LeaveMultiple ==
  ASSUME NEW n \in Nat \ {0}, NEW k \in Nat, NEW c \in Nat
  PROVE  (n * k + c) % n = c % n
<1>1. PICK q \in Nat, r \in 0 .. n - 1 : q = c \div n /\ r = c % n /\ c = n * q + r
  BY Divided
<1>2. n * k + c = n * (k + q) + r
  BY <1>1
<1>3. k + q \in Nat
  BY <1>1
<1>4. (n * (k + q) + r) % n = r
  BY <1>3, Remainder
<1> QED
  BY <1>1, <1>2, <1>4

(* Numbers with the same remainder differ by a multiple of n.              *)
LEMMA SameRemainder ==
  ASSUME NEW n \in Nat \ {0}, NEW u \in Nat, NEW v \in Nat, u > v, u % n = v % n
  PROVE  \E k \in Nat \ {0} : u - v = n * k
<1>1. PICK i \in Nat, r \in Nat : u = n * i + r /\ r = u % n
  BY DividedInto
<1>2. PICK j \in Nat, t \in Nat : v = n * j + t /\ t = v % n
  BY DividedInto
<1>3. u - v = n * (i - j) /\ u - v \in Nat \ {0} /\ i - j \in Int
  BY <1>1, <1>2
<1>4. i - j \in Nat \ {0}
  BY <1>3
<1> QED
  BY <1>3, <1>4

(* Factors may be reduced before they are multiplied.                      *)
LEMMA ReduceFactor ==
  ASSUME NEW n \in Nat \ {0}, NEW a \in Nat, NEW b \in Nat
  PROVE  /\ ((a % n) * b) % n = (a * b) % n
         /\ (b * (a % n)) % n = (a * b) % n
<1>1. PICK q \in Nat, r \in 0 .. n - 1 : r = a % n /\ a = n * q + r
  BY Divided
<1>2. a * b = n * (q * b) + r * b
  BY <1>1
<1>3. q * b \in Nat /\ r * b \in Nat
  BY <1>1
<1>4. (n * (q * b) + r * b) % n = (r * b) % n
  BY <1>3, LeaveMultiple
<1>5. r * b = b * r
  BY <1>1
<1>6. (r * b) % n = (a * b) % n
  BY <1>2, <1>4
<1> QED
  BY <1>1, <1>5, <1>6

(* Three factors may be grouped either way.                                *)
LEMMA RegroupFactors ==
  ASSUME NEW n \in Nat \ {0}, NEW a \in Nat, NEW b \in Nat, NEW c \in Nat
  PROVE  (((a * b) % n) * c) % n = (a * ((b * c) % n)) % n
<1>1. a * b \in Nat /\ b * c \in Nat
  OBVIOUS
<1>2. (((a * b) % n) * c) % n = ((a * b) * c) % n
  BY <1>1, ReduceFactor
<1>3. (a * ((b * c) % n)) % n = ((b * c) * a) % n
  BY <1>1, ReduceFactor
<1>4. (a * b) * c = (b * c) * a
  OBVIOUS
<1> QED
  BY <1>2, <1>3, <1>4

(* A remainder may be taken of a remainder.                                *)
LEMMA RemainderTwice ==
  ASSUME NEW m \in Nat \ {0}, NEW k \in Nat \ {0}, NEW a \in Nat
  PROVE  (a % (m * k)) % m = a % m
<1>1. m * k \in Nat \ {0}
  OBVIOUS
<1>2. PICK q \in Nat, r \in Nat : r = a % (m * k) /\ a = (m * k) * q + r
  <2> DEFINE n == m * k
  <2> HIDE DEF n
  <2>1. n \in Nat \ {0}
    BY <1>1 DEF n
  <2>2. a % n \in Nat /\ a \div n \in Nat /\ a = n * (a \div n) + (a % n)
    BY <2>1, Divided
  <2> QED
    BY <2>2 DEF n
<1>3. a = m * (k * q) + r /\ k * q \in Nat
  BY <1>2
<1>4. (m * (k * q) + r) % m = r % m
  BY <1>2, <1>3, LeaveMultiple
<1> QED
  BY <1>2, <1>3, <1>4

(* No remainder is left of multiples, and of nothing else.                 *)
LEMMA MultipleOf ==
  ASSUME NEW n \in Nat \ {0}, NEW a \in Nat
  PROVE  /\ \A k \in Nat : a = n * k => a % n = 0
         /\ a % n = 0 => \E k \in Nat : a = n * k
<1>1. ASSUME NEW k \in Nat, a = n * k PROVE a % n = 0
  BY <1>1, Remainder
<1>2. ASSUME a % n = 0 PROVE \E k \in Nat : a = n * k
  <2>1. a \div n \in Nat /\ a = n * (a \div n) + (a % n)
    BY Divided
  <2>2. a = n * (a \div n)
    BY <1>2, <2>1
  <2> QED
    BY <2>1, <2>2
<1> QED
  BY <1>1, <1>2

(* What divides a sum and one of its terms divides the other.              *)
LEMMA DivisorOfRest ==
  ASSUME NEW n \in Nat \ {0}, NEW a \in Nat, NEW b \in Nat, a % n = 0, (a + b) % n = 0
  PROVE  b % n = 0
<1>1. PICK k \in Nat : a = n * k
  BY MultipleOf
<1>2. (n * k + b) % n = b % n
  BY LeaveMultiple
<1> QED
  BY <1>1, <1>2

-----------------------------------------------------------------------------
(***************************************************************************)
(* Powers, reduced at every step.                                          *)
(***************************************************************************)
Power(a, n) ==
  LET pow[i \in Nat] == IF i = 0 THEN 1 % n ELSE (pow[i - 1] * a) % n
  IN pow

IsPower(P, a, n) ==
  /\ P[0] = 1 % n
  /\ \A i \in Nat : P[i] \in Nat /\ P[i] < n
  /\ \A i \in Nat : P[i + 1] = (P[i] * a) % n

(* The recursion gives such a function.                                    *)
LEMMA PowerFacts ==
  ASSUME NEW n \in Nat \ {0}, NEW a \in Nat
  PROVE  IsPower(Power(a, n), a, n)
<1> DEFINE Loop(g) == g = [i \in Nat |-> IF i = 0 THEN 1 % n ELSE (g[i - 1] * a) % n]
           X == 0 .. n - 1
           turn == [v \in X |-> (v * a) % n]
           step == [i \in Nat \ {0} |-> turn]
           start == 1 % n
           pow == Power(a, n)
<1>1. start \in X
  OBVIOUS
<1>2. \A v \in X : (v * a) % n \in X
  <2> SUFFICES ASSUME NEW v \in X PROVE (v * a) % n \in X
    OBVIOUS
  <2>1. v * a \in Nat
    OBVIOUS
  <2> QED
    BY <2>1
<1>3. turn \in [X -> X] /\ \A v \in X : turn[v] = (v * a) % n
  BY <1>2
<1> HIDE DEF turn
<1>4. step \in [Nat \ {0} -> [X -> X]] /\ \A i \in Nat \ {0} : step[i] = turn
  BY <1>3
<1> HIDE DEF step
<1>5. PICK f \in [Nat -> X] : f[0] = 1 % n /\ \A i \in Nat \ {0} : f[i] = step[i][f[i - 1]]
  <2>1. PICK f \in [Nat -> X] : RunsOn(f, start, step)
    <3> HIDE DEF X, start
    <3> QED
      BY <1>1, <1>4, LoopRunsOn
  <2> QED
    BY <2>1 DEF RunsOn
<1>6. \A i \in Nat \ {0} : f[i] = (f[i - 1] * a) % n
  <2>1. \A i \in Nat \ {0} : i - 1 \in Nat
    OBVIOUS
  <2> HIDE DEF X
  <2> QED
    BY <1>3, <1>4, <1>5, <2>1
<1>7. Loop(f)
  <2>1. f = [i \in Nat |-> f[i]]
    BY <1>5
  <2>2. \A i \in Nat : f[i] = IF i = 0 THEN 1 % n ELSE (f[i - 1] * a) % n
    BY <1>5, <1>6
  <2> HIDE DEF X
  <2> QED
    BY <2>1, <2>2
<1>8. pow = CHOOSE g : Loop(g)
  BY DEF Power
<1>9. Loop(pow)
  <2> HIDE DEF Loop, pow
  <2> QED
    BY <1>7, <1>8
<1> HIDE DEF pow
<1>10. \A i \in Nat : pow[i] = IF i = 0 THEN 1 % n ELSE (pow[i - 1] * a) % n
  BY <1>9
<1>11. pow[0] = 1 % n /\ \A i \in Nat \ {0} : pow[i] = (pow[i - 1] * a) % n
  BY <1>10
<1>12. ASSUME NEW i \in Nat PROVE pow[i] = f[i]
  <2>1. pow[0] = f[0] /\ \A j \in 1 .. i : pow[j - 1] = f[j - 1] => pow[j] = f[j]
    BY <1>5, <1>6, <1>11
  <2>2. SameTurns(pow, f, i)
    BY <2>1 DEF SameTurns
  <2> QED
    BY <2>2, LoopsAgree
<1>13. pow = f
  <2>1. pow = [i \in Nat |-> pow[i]] /\ f = [i \in Nat |-> f[i]]
    <3>1. pow = [i \in Nat |-> IF i = 0 THEN 1 % n ELSE (pow[i - 1] * a) % n]
      BY <1>9
    <3>2. f = [i \in Nat |-> f[i]]
      BY <1>5
    <3> QED
      BY <3>1, <3>2
  <2> QED
    BY <1>12, <2>1
<1>14. \A i \in Nat : i + 1 \in Nat \ {0} /\ (i + 1) - 1 = i
  OBVIOUS
<1>15. \A i \in Nat : f[i + 1] = (f[i] * a) % n
  BY <1>6, <1>14
<1>16. \A i \in Nat : f[i] \in Nat /\ f[i] < n
  BY <1>5
<1> QED
  BY <1>5, <1>13, <1>15, <1>16 DEF pow, IsPower

(* The values of a power and of its base.                                  *)
LEMMA PowerIn ==
  ASSUME NEW n \in Nat \ {0}, NEW a \in Nat, NEW i \in Nat
  PROVE  Power(a, n)[i] \in Nat /\ Power(a, n)[i] < n
  BY PowerFacts DEF IsPower

(* The first power.                                                        *)
LEMMA PowerOne ==
  ASSUME NEW n \in Nat \ {0}, NEW a \in Nat
  PROVE  Power(a, n)[1] = a % n
<1>1. Power(a, n)[0 + 1] = (Power(a, n)[0] * a) % n /\ Power(a, n)[0] = 1 % n
  BY PowerFacts DEF IsPower
<1>2. ((1 % n) * a) % n = (1 * a) % n
  BY ReduceFactor
<1> QED
  BY <1>1, <1>2

(* Exponents add.                                                          *)
LEMMA PowerAdds ==
  ASSUME NEW n \in Nat \ {0}, NEW a \in Nat, NEW i \in Nat, NEW j \in Nat
  PROVE  Power(a, n)[i + j] = (Power(a, n)[i] * Power(a, n)[j]) % n
<1> DEFINE P == Power(a, n)
           S == {k \in Nat : P[i + k] = (P[i] * P[k]) % n}
<1>1. IsPower(P, a, n)
  BY PowerFacts
<1>2. P[0] = 1 % n /\ P[i] \in Nat /\ P[i] < n
  BY <1>1 DEF IsPower
<1> HIDE DEF P
<1>3. 0 \in S
  <2>1. (P[i] * (1 % n)) % n = (1 * P[i]) % n
    BY <1>2, ReduceFactor
  <2>2. 1 * P[i] = P[i] /\ P[i] % n = P[i] /\ i + 0 = i
    BY <1>2
  <2> QED
    BY <1>2, <2>1, <2>2
<1>4. ASSUME NEW k \in Nat, k \in S PROVE k + 1 \in S
  <2>1. P[(i + k) + 1] = (((P[i] * P[k]) % n) * a) % n
    <3>1. i + k \in Nat
      OBVIOUS
    <3>2. P[(i + k) + 1] = (P[i + k] * a) % n
      BY <1>1, <3>1 DEF IsPower
    <3> QED
      BY <1>4, <3>2
  <2>2. (((P[i] * P[k]) % n) * a) % n = (P[i] * ((P[k] * a) % n)) % n
    <3>1. P[k] \in Nat
      BY <1>1 DEF IsPower
    <3> QED
      BY <1>2, <3>1, RegroupFactors
  <2>3. i + (k + 1) = (i + k) + 1
    OBVIOUS
  <2>4. P[k + 1] = (P[k] * a) % n
    BY <1>1 DEF IsPower
  <2> QED
    BY <2>1, <2>2, <2>3, <2>4
<1> HIDE DEF S
<1>5. Nat \subseteq S
  BY <1>3, <1>4, InductionOnSet
<1> QED
  BY <1>5 DEF S, P

(* Exponents multiply.                                                     *)
LEMMA PowerOfPower ==
  ASSUME NEW n \in Nat \ {0}, NEW a \in Nat, NEW i \in Nat, NEW j \in Nat
  PROVE  Power(Power(a, n)[i], n)[j] = Power(a, n)[i * j]
<1> DEFINE P == Power(a, n)
           Q == Power(P[i], n)
           S == {k \in Nat : Q[k] = P[i * k]}
<1>1. P[0] = 1 % n /\ \A k \in Nat : P[k] \in Nat
  BY PowerFacts DEF IsPower
<1>2. Q[0] = 1 % n /\ \A k \in Nat : Q[k + 1] = (Q[k] * P[i]) % n
  <2>1. P[i] \in Nat
    BY <1>1
  <2> HIDE DEF P
  <2> QED
    BY <2>1, PowerFacts DEF IsPower
<1>3. \A k \in Nat : P[(i * k) + i] = (P[i * k] * P[i]) % n
  <2>1. \A k \in Nat : i * k \in Nat
    OBVIOUS
  <2> QED
    BY <2>1, PowerAdds
<1> HIDE DEF P, Q
<1>4. 0 \in S
  BY <1>1, <1>2
<1>5. ASSUME NEW k \in Nat, k \in S PROVE k + 1 \in S
  <2>1. i * (k + 1) = (i * k) + i
    OBVIOUS
  <2> QED
    BY <1>2, <1>3, <1>5, <2>1
<1> HIDE DEF S
<1>6. Nat \subseteq S
  BY <1>4, <1>5, InductionOnSet
<1> QED
  BY <1>6 DEF S, Q, P

(* A power modulo a product, reduced, is the power modulo one factor.      *)
Reduces(m, k, a, i) == Power(a, m * k)[i] % m = Power(a, m)[i]

(* By induction on the exponent.                                           *)
LEMMA PowerReduced ==
  ASSUME NEW m \in Nat \ {0}, NEW k \in Nat \ {0}, NEW a \in Nat, NEW i \in Nat
  PROVE  Reduces(m, k, a, i)
<1> DEFINE P == Power(a, m * k)
           Q == Power(a, m)
           S == {j \in Nat : P[j] % m = Q[j]}
<1>1. m * k \in Nat \ {0}
  OBVIOUS
<1>2. P[0] = 1 % (m * k) /\ \A j \in Nat : P[j] \in Nat /\ P[j + 1] = (P[j] * a) % (m * k)
  <2> DEFINE n == m * k
  <2>1. n \in Nat \ {0}
    BY <1>1
  <2> HIDE DEF n
  <2>2. IsPower(Power(a, n), a, n)
    BY <2>1, PowerFacts
  <2> QED
    BY <2>2 DEF n, IsPower
<1>3. Q[0] = 1 % m /\ \A j \in Nat : Q[j] \in Nat /\ Q[j + 1] = (Q[j] * a) % m
  BY PowerFacts DEF IsPower
<1> HIDE DEF P, Q
<1>4. 0 \in S
  <2>1. (1 % (m * k)) % m = 1 % m
    BY RemainderTwice
  <2> QED
    BY <1>2, <1>3, <2>1
<1>5. ASSUME NEW j \in Nat, j \in S PROVE j + 1 \in S
  <2>1. P[j] \in Nat /\ P[j] * a \in Nat
    BY <1>2
  <2>2. ((P[j] * a) % (m * k)) % m = (P[j] * a) % m
    BY <2>1, RemainderTwice
  <2>3. (P[j] * a) % m = ((P[j] % m) * a) % m
    BY <2>1, ReduceFactor
  <2> QED
    BY <1>2, <1>3, <1>5, <2>2, <2>3
<1> HIDE DEF S
<1>6. Nat \subseteq S
  BY <1>4, <1>5, InductionOnSet
<1> QED
  BY <1>6 DEF S, P, Q, Reduces

-----------------------------------------------------------------------------
(***************************************************************************)
(* Primes.                                                                 *)
(***************************************************************************)
Prime(p) == p \in Nat /\ p > 1 /\ \A d \in 2 .. p - 1 : p % d # 0

(* A prime that divides a product divides a factor (Euclid): the least x   *)
(* with p | x b divides p, so it is 1 or p.                                *)
LEMMA DividesFactor ==
  ASSUME NEW p, Prime(p), NEW a \in Nat, NEW b \in Nat, (a * b) % p = 0
  PROVE  a % p = 0 \/ b % p = 0
<1> DEFINE S == {x \in Nat \ {0} : (x * b) % p = 0}
<1>1. p \in Nat \ {0} /\ p > 1
  BY DEF Prime
<1>2. p \in S
  <2>1. (p * b) % p = 0
    BY <1>1, MultipleOf
  <2> QED
    BY <1>1, <2>1
<1>3. PICK m \in S : \A x \in S : m <= x
  <2>1. S \in SUBSET Nat /\ S # {}
    BY <1>2
  <2> HIDE DEF S
  <2> QED
    BY <2>1, LeastOf
<1>4. m \in Nat \ {0} /\ (m * b) % p = 0 /\ m <= p
  BY <1>2, <1>3
<1>5. ASSUME NEW x \in Nat, (x * b) % p = 0 PROVE x % m = 0
  <2>1. PICK q \in Nat, r \in Nat : x = m * q + r /\ r = x % m /\ r < m
    BY <1>4, DividedInto
  <2>2. x * b = (q * (m * b)) + (r * b)
    BY <1>4, <2>1
  <2>3. (q * (m * b)) % p = 0
    <3>1. m * b \in Nat
      BY <1>4
    <3>2. (q * ((m * b) % p)) % p = ((m * b) * q) % p
      BY <1>1, <3>1, <2>1, ReduceFactor
    <3>3. q * 0 = 0 /\ (m * b) * q = q * (m * b) /\ 0 % p = 0
      BY <1>1, <1>4, <2>1
    <3> QED
      BY <1>4, <3>2, <3>3
  <2>4. (r * b) % p = 0
    <3>1. q * (m * b) \in Nat /\ r * b \in Nat
      BY <1>4, <2>1
    <3> QED
      BY <1>1, <1>5, <2>2, <2>3, <3>1, DivisorOfRest
  <2>5. r \notin S
    <3>1. ~ (m <= r)
      BY <1>4, <2>1
    <3> HIDE DEF S
    <3> QED
      BY <1>3, <3>1
  <2>6. r = 0
    BY <2>1, <2>4, <2>5
  <2> QED
    BY <2>1, <2>6
<1>6. p % m = 0 /\ a % m = 0
  BY <1>1, <1>2, <1>5
<1>7. m = 1 \/ m = p
  <2>1. m \in 2 .. p - 1 => p % m # 0
    BY DEF Prime
  <2> QED
    BY <1>1, <1>4, <1>6, <2>1
<1>8. CASE m = 1
  <2>1. 1 * b = b
    OBVIOUS
  <2> QED
    BY <1>4, <1>8, <2>1
<1>9. CASE m = p
  BY <1>6, <1>9
<1> QED
  BY <1>7, <1>8, <1>9

(* What is not a multiple of p can be cancelled.                           *)
LEMMA CancelModulo ==
  ASSUME NEW p, Prime(p), NEW c \in Nat, c % p # 0, NEW x \in Nat, NEW y \in Nat,
         x < p, y < p, (c * x) % p = (c * y) % p
  PROVE  x = y
<1>1. p \in Nat \ {0}
  BY DEF Prime
<1>2. ASSUME NEW u \in Nat, NEW v \in Nat, u < p, v < p, (c * u) % p = (c * v) % p, u > v
      PROVE  FALSE
  <2>1. u - v \in Nat /\ u - v < p /\ u - v # 0
    BY <1>1, <1>2
  <2>2. c * u \in Nat /\ c * v \in Nat /\ c * u > c * v
    <3>1. c # 0
      BY <1>1
    <3> QED
      BY <1>2, <3>1
  <2>3. PICK k \in Nat \ {0} : c * u - c * v = p * k
    BY <1>1, <1>2, <2>2, SameRemainder
  <2>4. c * (u - v) = p * k /\ c * (u - v) \in Nat
    BY <2>1, <2>3
  <2>5. (c * (u - v)) % p = 0
    BY <1>1, <2>4, MultipleOf
  <2>6. (u - v) % p = 0
    BY <2>1, <2>5, DividesFactor
  <2> QED
    BY <1>1, <2>1, <2>6
<1> QED
  BY <1>2

(* Numbers below p q that agree modulo two different primes are the same.  *)
LEMMA SameModuloBoth ==
  ASSUME NEW p, Prime(p), NEW q, Prime(q), p # q,
         NEW x \in Nat, NEW y \in Nat, x < p * q, y < p * q, x % p = y % p, x % q = y % q
  PROVE  x = y
<1>1. p \in Nat \ {0} /\ q \in Nat \ {0} /\ p > 1 /\ q > 1
  BY DEF Prime
<1>2. p % q # 0
  <2>1. CASE q < p
    <3>1. q \in 2 .. p - 1
      BY <1>1, <2>1
    <3> QED
      BY <3>1 DEF Prime
  <2>2. CASE p < q
    BY <1>1, <2>2
  <2> QED
    BY <1>1, <2>1, <2>2
<1>3. ASSUME NEW u \in Nat, NEW v \in Nat, u < p * q, u > v, u % p = v % p, u % q = v % q
      PROVE  FALSE
  <2>1. PICK k \in Nat \ {0} : u - v = p * k
    BY <1>1, <1>3, SameRemainder
  <2>2. PICK m \in Nat \ {0} : u - v = q * m
    BY <1>1, <1>3, SameRemainder
  <2>3. (p * k) % q = 0
    <3>1. p * k = q * m /\ p * k \in Nat
      BY <1>1, <2>1, <2>2
    <3> QED
      BY <1>1, <2>2, <3>1, MultipleOf
  <2>4. k % q = 0
    BY <1>1, <1>2, <2>1, <2>3, DividesFactor
  <2>5. PICK h \in Nat : k = q * h
    BY <1>1, <2>1, <2>4, MultipleOf
  <2>6. h >= 1
    BY <1>1, <2>1, <2>5
  <2>7. u - v = (p * q) * h
    BY <1>1, <2>1, <2>5
  <2>8. (p * q) * h >= p * q
    BY <1>1, <2>6
  <2> QED
    BY <1>1, <1>3, <2>7, <2>8
<1> QED
  BY <1>3
-----------------------------------------------------------------------------
(***************************************************************************)
(* Fermat's theorem.  The multiples g, 2 g, ..., (p - 1) g of a number     *)
(* that p does not divide are the numbers 1 .. p - 1 again, so that both   *)
(* have the same product.  A product of a set is a loop over 1 .. p - 1.   *)
(***************************************************************************)
IsProduct(f, S, p) ==
  /\ f \in [0 .. p - 1 -> 0 .. p - 1]
  /\ f[0] = 1
  /\ \A j \in 1 .. p - 1 : f[j] = IF j \in S THEN (f[j - 1] * j) % p ELSE f[j - 1]

Product(S, p) == (CHOOSE f : IsProduct(f, S, p))[p - 1]

(* The product over a set can be computed, factor by factor.               *)
LEMMA ProductRuns ==
  ASSUME NEW p \in Nat, p > 1, NEW S
  PROVE  \E f : IsProduct(f, S, p)
<1> DEFINE X == 0 .. p - 1
           n == p - 1
           step == [j \in 1 .. n |-> [v \in X |-> IF j \in S THEN (v * j) % p ELSE v]]
<1>1. 1 \in X /\ n \in Nat
  OBVIOUS
<1>2. \A v \in X, j \in 1 .. n : (v * j) % p \in X
  <2> SUFFICES ASSUME NEW v \in X, NEW j \in 1 .. n PROVE (v * j) % p \in X
    OBVIOUS
  <2>1. v * j \in Nat /\ p \in Nat \ {0}
    OBVIOUS
  <2> QED
    BY <2>1, Divided
<1>3. step \in [1 .. n -> [X -> X]]
  BY <1>2
<1>4. \A j \in 1 .. n, v \in X : step[j][v] = IF j \in S THEN (v * j) % p ELSE v
  OBVIOUS
<1> HIDE DEF step
<1>5. PICK f \in [0 .. n -> X] : Turns(f, 1, step, n)
  <2> HIDE DEF X, n
  <2> QED
    BY <1>1, <1>3, LoopRuns
<1>6. ASSUME NEW j \in 1 .. n PROVE f[j] = IF j \in S THEN (f[j - 1] * j) % p ELSE f[j - 1]
  <2>1. f[j - 1] \in X
    BY <1>5
  <2>2. f[j] = step[j][f[j - 1]]
    BY <1>5 DEF Turns
  <2> HIDE DEF X
  <2> QED
    BY <1>4, <2>1, <2>2
<1>7. IsProduct(f, S, p)
  BY <1>5, <1>6 DEF IsProduct, Turns
<1> QED
  BY <1>7

(* And it is the value of whatever computes it.                            *)
LEMMA ProductIs ==
  ASSUME NEW p \in Nat, p > 1, NEW S
  PROVE  /\ Product(S, p) \in 0 .. p - 1
         /\ \A f : IsProduct(f, S, p) => Product(S, p) = f[p - 1]
<1> DEFINE c == CHOOSE f : IsProduct(f, S, p)
<1>1. IsProduct(c, S, p)
  BY ProductRuns
<1> HIDE DEF c
<1>2. p - 1 \in 0 .. p - 1 /\ p - 1 \in Nat
  OBVIOUS
<1>3. c[p - 1] \in 0 .. p - 1
  BY <1>1, <1>2 DEF IsProduct
<1>4. ASSUME NEW f, IsProduct(f, S, p) PROVE c[p - 1] = f[p - 1]
  <2>1. SameTurns(c, f, p - 1)
    BY <1>1, <1>4 DEF IsProduct, SameTurns
  <2> QED
    BY <1>2, <2>1, LoopsAgree
<1> QED
  BY <1>3, <1>4 DEF Product, c

(* The product of no factors is 1.                                         *)
LEMMA ProductOfNone ==
  ASSUME NEW p \in Nat, p > 1
  PROVE  Product({}, p) = 1
<1> DEFINE f == [j \in 0 .. p - 1 |-> 1]
<1>1. IsProduct(f, {}, p) /\ f[p - 1] = 1
  BY DEF IsProduct
<1> HIDE DEF f
<1> QED
  BY <1>1, ProductIs

(* One factor more.                                                        *)
LEMMA ProductWith ==
  ASSUME NEW p \in Nat, p > 1, NEW S, NEW x \in 1 .. p - 1, x \notin S
  PROVE  Product(S \cup {x}, p) = (Product(S, p) * x) % p
<1>1. PICK f : IsProduct(f, S, p)
  BY ProductRuns
<1> DEFINE h == [j \in 0 .. p - 1 |-> IF j < x THEN f[j] ELSE (f[j] * x) % p]
<1>2. p \in Nat \ {0}
  OBVIOUS
<1>3. ASSUME NEW j \in 0 .. p - 1 PROVE f[j] \in Nat /\ f[j] \in 0 .. p - 1
  BY <1>1 DEF IsProduct
<1>4. ASSUME NEW j \in 0 .. p - 1 PROVE (f[j] * x) % p \in 0 .. p - 1
  <2>1. f[j] * x \in Nat
    BY <1>3
  <2> QED
    BY <1>2, <2>1, Divided
<1>5. h \in [0 .. p - 1 -> 0 .. p - 1]
  BY <1>3, <1>4
<1>6. /\ \A j \in 0 .. p - 1 : j < x => h[j] = f[j]
      /\ \A j \in 0 .. p - 1 : j >= x => h[j] = (f[j] * x) % p
  OBVIOUS
<1> HIDE DEF h
<1>7. ASSUME NEW j \in 1 .. p - 1
      PROVE  h[j] = IF j \in S \cup {x} THEN (h[j - 1] * j) % p ELSE h[j - 1]
  <2>1. /\ f[j] = IF j \in S THEN (f[j - 1] * j) % p ELSE f[j - 1]
        /\ j - 1 \in 0 .. p - 1 /\ j \in 0 .. p - 1 /\ f[j - 1] \in Nat
    BY <1>1, <1>3 DEF IsProduct
  <2>2. CASE j < x
    BY <1>6, <2>1, <2>2
  <2>3. CASE j = x
    BY <1>6, <2>1, <2>3
  <2>4. CASE j > x
    <3>1. h[j] = (f[j] * x) % p /\ h[j - 1] = (f[j - 1] * x) % p
      BY <1>6, <2>1, <2>4
    <3>2. CASE j \in S
      <4>1. (((f[j - 1] * j) % p) * x) % p = (f[j - 1] * ((j * x) % p)) % p
        BY <1>2, <2>1, RegroupFactors
      <4>2. (((f[j - 1] * x) % p) * j) % p = (f[j - 1] * ((x * j) % p)) % p
        BY <1>2, <2>1, RegroupFactors
      <4>3. x * j = j * x
        OBVIOUS
      <4> QED
        BY <2>1, <3>1, <3>2, <4>1, <4>2, <4>3
    <3>3. CASE j \notin S
      BY <2>1, <2>4, <3>1, <3>3
    <3> QED
      BY <3>2, <3>3
  <2> QED
    BY <2>2, <2>3, <2>4
<1>8. h[0] = 1
  BY <1>1, <1>6 DEF IsProduct
<1>9. IsProduct(h, S \cup {x}, p)
  BY <1>5, <1>7, <1>8 DEF IsProduct
<1>10. h[p - 1] = (f[p - 1] * x) % p
  BY <1>6
<1>11. Product(S, p) = f[p - 1] /\ Product(S \cup {x}, p) = h[p - 1]
  BY <1>1, <1>9, ProductIs
<1> QED
  BY <1>10, <1>11

(* Two pairs of factors may be exchanged.                                  *)
Exchanges(n, a, b, c, d) ==
  (((a * b) % n) * ((c * d) % n)) % n = (((a * c) % n) * ((b * d) % n)) % n

(* Which is regrouping the four of them.                                   *)
LEMMA ExchangeFactors ==
  ASSUME NEW n \in Nat \ {0}, NEW a \in Nat, NEW b \in Nat, NEW c \in Nat, NEW d \in Nat
  PROVE  Exchanges(n, a, b, c, d)
<1>1. ASSUME NEW u \in Nat, NEW v \in Nat
      PROVE  ((u % n) * (v % n)) % n = (u * v) % n
  <2>1. v % n \in Nat
    BY Divided
  <2>2. ((u % n) * (v % n)) % n = (u * (v % n)) % n
    BY <2>1, ReduceFactor
  <2>3. (u * (v % n)) % n = (v * u) % n
    BY ReduceFactor
  <2>4. v * u = u * v
    OBVIOUS
  <2> QED
    BY <2>2, <2>3, <2>4
<1>2. a * b \in Nat /\ c * d \in Nat /\ a * c \in Nat /\ b * d \in Nat
  OBVIOUS
<1>3. (a * b) * (c * d) = (a * c) * (b * d)
  OBVIOUS
<1>4. (((a * b) % n) * ((c * d) % n)) % n = ((a * b) * (c * d)) % n
  BY <1>1, <1>2
<1>5. (((a * c) % n) * ((b * d) % n)) % n = ((a * c) * (b * d)) % n
  BY <1>1, <1>2
<1> QED
  BY <1>3, <1>4, <1>5 DEF Exchanges

(* The first m multiples of g.                                             *)
Multiples(g, m, p) == {(g * i) % p : i \in 1 .. m}

(* Each further multiple is a new one, as g can be cancelled.              *)
LEMMA MultiplesGrow ==
  ASSUME NEW p, Prime(p), NEW g \in Nat, g % p # 0, NEW m \in Nat, m + 1 <= p - 1
  PROVE  /\ (g * (m + 1)) % p \in 1 .. p - 1
         /\ (g * (m + 1)) % p \notin Multiples(g, m, p)
         /\ Multiples(g, m + 1, p) = Multiples(g, m, p) \cup {(g * (m + 1)) % p}
<1>1. p \in Nat \ {0} /\ p > 1 /\ m + 1 \in Nat /\ m + 1 < p
  BY DEF Prime
<1>2. (g * (m + 1)) % p \in 1 .. p - 1
  <2>1. (g * (m + 1)) % p \in 0 .. p - 1
    <3>1. g * (m + 1) \in Nat
      BY <1>1
    <3> QED
      BY <1>1, <3>1, Divided
  <2>2. (m + 1) % p # 0
    BY <1>1
  <2>3. (g * (m + 1)) % p # 0
    BY <1>1, <2>2, DividesFactor
  <2> QED
    BY <1>1, <2>1, <2>3
<1>3. ASSUME NEW i \in 1 .. m, (g * (m + 1)) % p = (g * i) % p PROVE FALSE
  <2>1. i \in Nat /\ i < p /\ i # m + 1
    BY <1>1
  <2> QED
    BY <1>1, <1>3, <2>1, CancelModulo
<1>4. 1 .. m + 1 = (1 .. m) \cup {m + 1}
  OBVIOUS
<1>5. Multiples(g, m + 1, p) = Multiples(g, m, p) \cup {(g * (m + 1)) % p}
  BY <1>4 DEF Multiples
<1> QED
  BY <1>2, <1>3, <1>5 DEF Multiples

(* All of them are all numbers but 0.                                      *)
LEMMA MultiplesAreAll ==
  ASSUME NEW p, Prime(p), NEW g \in Nat, g % p # 0
  PROVE  Multiples(g, p - 1, p) = 1 .. p - 1
<1> DEFINE M(m) == Multiples(g, m, p)
           S == {m \in Nat : m <= p - 1 => /\ M(m) \subseteq 1 .. p - 1 /\ IsFiniteSet(M(m))
                                           /\ Cardinality(M(m)) = m}
<1>1. p \in Nat \ {0} /\ p > 1 /\ p - 1 \in Nat
  BY DEF Prime
<1>2. 0 \in S
  <2>1. M(0) = {}
    BY DEF Multiples
  <2> QED
    BY <2>1, FS_EmptySet
<1>3. ASSUME NEW m \in Nat, m \in S PROVE m + 1 \in S
  <2> SUFFICES ASSUME m + 1 <= p - 1
               PROVE  /\ M(m + 1) \subseteq 1 .. p - 1 /\ IsFiniteSet(M(m + 1))
                      /\ Cardinality(M(m + 1)) = m + 1
    OBVIOUS
  <2>1. M(m) \subseteq 1 .. p - 1 /\ IsFiniteSet(M(m)) /\ Cardinality(M(m)) = m
    BY <1>1, <1>3
  <2>2. PICK x \in 1 .. p - 1 : x \notin M(m) /\ M(m + 1) = M(m) \cup {x}
    BY MultiplesGrow
  <2> HIDE DEF M
  <2> QED
    BY <2>1, <2>2, FS_AddElement
<1> HIDE DEF S
<1>4. p - 1 \in S
  BY <1>1, <1>2, <1>3, InductionOnSet
<1>5. M(p - 1) \subseteq 1 .. p - 1 /\ Cardinality(M(p - 1)) = p - 1
  BY <1>1, <1>4 DEF S
<1>6. IsFiniteSet(1 .. p - 1) /\ Cardinality(1 .. p - 1) = p - 1
  BY <1>1, FS_Interval
<1> HIDE DEF M
<1>7. M(p - 1) = 1 .. p - 1
  BY <1>5, <1>6, FS_Subset
<1> QED
  BY <1>7 DEF M

(* The two products.                                                       *)
LEMMA ProductOfMultiples ==
  ASSUME NEW p, Prime(p), NEW g \in Nat, g % p # 0
  PROVE  /\ Product(1 .. p - 1, p) # 0
         /\ Product(Multiples(g, p - 1, p), p)
              = (Power(g, p)[p - 1] * Product(1 .. p - 1, p)) % p
<1> DEFINE A(m) == Product(Multiples(g, m, p), p)
           F(m) == Product(1 .. m, p)
           P == Power(g, p)
           S == {m \in Nat : m <= p - 1 => F(m) # 0 /\ A(m) = (P[m] * F(m)) % p}
<1>1. p \in Nat \ {0} /\ p \in Nat /\ p > 1 /\ p - 1 \in Nat
  BY DEF Prime
<1>2. \A m \in Nat : F(m) \in 0 .. p - 1
  BY <1>1, ProductIs
<1>3. IsPower(P, g, p)
  BY <1>1, PowerFacts
<1>4. 0 \in S
  <2>1. Multiples(g, 0, p) = {} /\ 1 .. 0 = {}
    BY DEF Multiples
  <2>2. A(0) = 1 /\ F(0) = 1
    BY <1>1, <2>1, ProductOfNone
  <2>3. P[0] = 1
    <3>1. P[0] = 1 % p
      BY <1>3 DEF IsPower
    <3>2. 1 % p = 1
      BY <1>1
    <3> QED
      BY <3>1, <3>2
  <2>4. (1 * 1) % p = 1
    BY <1>1
  <2> HIDE DEF A, F, P
  <2> QED
    BY <2>2, <2>3, <2>4
<1>5. ASSUME NEW m \in Nat, m \in S PROVE m + 1 \in S
  <2> SUFFICES ASSUME m + 1 <= p - 1
               PROVE  F(m + 1) # 0 /\ A(m + 1) = (P[m + 1] * F(m + 1)) % p
    OBVIOUS
  <2>1. F(m) # 0 /\ A(m) = (P[m] * F(m)) % p /\ F(m) \in Nat /\ F(m) < p
    BY <1>1, <1>2, <1>5
  <2>2. F(m + 1) = (F(m) * (m + 1)) % p
    <3>1. m + 1 \in 1 .. p - 1 /\ m + 1 \notin 1 .. m /\ 1 .. m + 1 = (1 .. m) \cup {m + 1}
      BY <1>1
    <3>2. Product((1 .. m) \cup {m + 1}, p) = (Product(1 .. m, p) * (m + 1)) % p
      BY ONLY <1>1, <3>1, ProductWith
    <3> QED
      BY <3>1, <3>2
  <2>3. A(m + 1) = (A(m) * ((g * (m + 1)) % p)) % p
    <3> DEFINE x == (g * (m + 1)) % p
    <3>1. /\ x \in 1 .. p - 1 /\ x \notin Multiples(g, m, p)
          /\ Multiples(g, m + 1, p) = Multiples(g, m, p) \cup {x}
      BY MultiplesGrow
    <3> HIDE DEF x
    <3>2. Product(Multiples(g, m, p) \cup {x}, p) = (Product(Multiples(g, m, p), p) * x) % p
      BY <1>1, <3>1, ProductWith
    <3> QED
      BY <3>1, <3>2 DEF x
  <2>4. P[m + 1] = (P[m] * g) % p /\ P[m] \in Nat
    BY <1>3 DEF IsPower
  <2> HIDE DEF A, F, P
  <2>5. (((P[m] * F(m)) % p) * ((g * (m + 1)) % p)) % p
          = (((P[m] * g) % p) * ((F(m) * (m + 1)) % p)) % p
    <3>1. Exchanges(p, P[m], F(m), g, m + 1)
      BY <1>1, <2>1, <2>4, ExchangeFactors
    <3> QED
      BY <3>1 DEF Exchanges
  <2>6. F(m + 1) # 0
    <3>1. F(m) % p # 0 /\ (m + 1) % p # 0
      BY <1>1, <2>1
    <3> QED
      BY <2>1, <2>2, <3>1, DividesFactor
  <2> QED
    BY <2>1, <2>2, <2>3, <2>4, <2>5, <2>6
<1> HIDE DEF S
<1>6. p - 1 \in S
  BY <1>1, <1>4, <1>5, InductionOnSet
<1> QED
  BY <1>1, <1>6 DEF S

(* Both products have the same factors, those of the second g times those  *)
(* of the first, and the factors can be cancelled.                         *)
LEMMA Fermat ==
  ASSUME NEW p, Prime(p), NEW g \in Nat
  PROVE  /\ g % p # 0 => Power(g, p)[p - 1] = 1
         /\ Power(g, p)[p] = g % p
<1> DEFINE P == Power(g, p)
           F == Product(1 .. p - 1, p)
<1>1. p \in Nat \ {0} /\ p \in Nat /\ p > 1 /\ p - 1 \in Nat
  BY DEF Prime
<1>2. IsPower(P, g, p)
  BY <1>1, PowerFacts
<1>3. P[p] = (P[p - 1] * g) % p
  <2>1. (p - 1) + 1 = p
    BY <1>1
  <2> QED
    BY <1>1, <1>2, <2>1 DEF IsPower
<1>4. P[p - 1] \in Nat /\ P[p - 1] < p
  BY <1>1, <1>2 DEF IsPower
<1>5. ASSUME g % p # 0 PROVE P[p - 1] = 1
  <2>1. F # 0 /\ F = (P[p - 1] * F) % p
    BY <1>5, ProductOfMultiples, MultiplesAreAll
  <2>2. F \in Nat /\ F < p
    BY <1>1, ProductIs
  <2> HIDE DEF F, P
  <2>3. F % p # 0 /\ (F * 1) % p = F /\ F * P[p - 1] = P[p - 1] * F
    BY <1>1, <1>4, <2>1, <2>2
  <2>4. (F * P[p - 1]) % p = (F * 1) % p
    BY <2>1, <2>3
  <2> QED
    BY <1>1, <1>4, <2>2, <2>3, <2>4, CancelModulo
<1>6. CASE g % p = 0
  <2>1. (P[p - 1] * g) % p = 0
    <3>1. (P[p - 1] * (g % p)) % p = (g * P[p - 1]) % p
      BY <1>1, <1>4, ReduceFactor
    <3>2. P[p - 1] * 0 = 0 /\ 0 % p = 0 /\ g * P[p - 1] = P[p - 1] * g
      BY <1>1, <1>4
    <3> QED
      BY <1>6, <3>1, <3>2
  <2> QED
    BY <1>3, <1>6, <2>1
<1>7. CASE g % p # 0
  <2>1. P[p - 1] = 1 /\ 1 * g = g
    BY <1>5, <1>7
  <2> QED
    BY <1>3, <2>1
<1> QED
  BY <1>5, <1>6, <1>7

(* Exponents other than 0 may be reduced modulo p - 1, whether p divides g *)
(* or not.                                                                 *)
LEMMA PowerRepeats ==
  ASSUME NEW p, Prime(p), NEW g \in Nat, NEW e \in Nat \ {0}, NEW m \in Nat
  PROVE  Power(g, p)[e + (p - 1) * m] = Power(g, p)[e]
<1> DEFINE P == Power(g, p)
           S == {k \in Nat : P[e + (p - 1) * k] = P[e]}
<1>1. p \in Nat \ {0} /\ p \in Nat /\ p > 1 /\ p - 1 \in Nat
  BY DEF Prime
<1>2. IsPower(P, g, p)
  BY <1>1, PowerFacts
<1>3. ASSUME NEW i \in Nat \ {0} PROVE P[i + (p - 1)] = P[i]
  <2>1. i - 1 \in Nat /\ (i - 1) + p = i + (p - 1) /\ (i - 1) + 1 = i
    BY <1>1
  <2>2. P[(i - 1) + p] = (P[i - 1] * P[p]) % p
    BY <1>1, <2>1, PowerAdds
  <2>3. P[(i - 1) + 1] = (P[i - 1] * g) % p /\ P[i - 1] \in Nat
    BY <1>2, <2>1 DEF IsPower
  <2>4. P[p] = g % p
    BY Fermat
  <2> HIDE DEF P
  <2>5. (P[i - 1] * (g % p)) % p = (g * P[i - 1]) % p
    BY <1>1, <2>3, ReduceFactor
  <2>6. g * P[i - 1] = P[i - 1] * g
    BY <2>3
  <2> QED
    BY <2>1, <2>2, <2>3, <2>4, <2>5, <2>6
<1> HIDE DEF P
<1>4. 0 \in S
  <2>1. e + (p - 1) * 0 = e
    BY <1>1
  <2> QED
    BY <2>1
<1>5. ASSUME NEW k \in Nat, k \in S PROVE k + 1 \in S
  <2>1. (p - 1) * k \in Nat
    BY <1>1
  <2>2. e + (p - 1) * k \in Nat \ {0}
    BY <2>1
  <2>3. e + (p - 1) * (k + 1) = (e + (p - 1) * k) + (p - 1)
    BY <1>1
  <2> QED
    BY <1>3, <1>5, <2>2, <2>3
<1> HIDE DEF S
<1>6. Nat \subseteq S
  BY <1>4, <1>5, InductionOnSet
<1> QED
  BY <1>6 DEF S, P

(* Exponents may be reduced modulo phi(p q), if they are not multiples of  *)
(* it: for every base, those that p or q divides included.                 *)
LEMMA ExponentReduced ==
  ASSUME NEW p, Prime(p), NEW q, Prime(q), p # q, NEW g \in Nat, NEW e \in Nat,
         e % ((p - 1) * (q - 1)) # 0
  PROVE  Power(g, p * q)[e % ((p - 1) * (q - 1))] = Power(g, p * q)[e]
<1>1. /\ p \in Nat \ {0} /\ p > 1 /\ p - 1 \in Nat \ {0}
      /\ q \in Nat \ {0} /\ q > 1 /\ q - 1 \in Nat \ {0}
  BY DEF Prime
<1>2. p * q \in Nat \ {0} /\ (p - 1) * (q - 1) \in Nat \ {0} /\ p * q = q * p
  BY <1>1
<1>3. PICK k \in Nat, r \in Nat :
        e = ((p - 1) * (q - 1)) * k + r /\ r = e % ((p - 1) * (q - 1))
  <2> DEFINE n == (p - 1) * (q - 1)
  <2>1. n \in Nat \ {0}
    BY <1>2
  <2> HIDE DEF n
  <2>2. PICK k \in Nat, r \in Nat : e = n * k + r /\ r = e % n
    BY <2>1, DividedInto
  <2> QED
    BY <2>2 DEF n
<1>4. r \in Nat \ {0}
  BY <1>3
<1>5. /\ e = r + (p - 1) * ((q - 1) * k) /\ (q - 1) * k \in Nat
      /\ e = r + (q - 1) * ((p - 1) * k) /\ (p - 1) * k \in Nat
  BY <1>1, <1>3
<1>6. Power(g, p)[e] = Power(g, p)[r]
  <2>1. Power(g, p)[r + (p - 1) * ((q - 1) * k)] = Power(g, p)[r]
    BY <1>4, <1>5, PowerRepeats
  <2> QED
    BY <1>5, <2>1
<1>7. Power(g, q)[e] = Power(g, q)[r]
  <2>1. Power(g, q)[r + (q - 1) * ((p - 1) * k)] = Power(g, q)[r]
    BY <1>4, <1>5, PowerRepeats
  <2> QED
    BY <1>5, <2>1
<1> DEFINE x == Power(g, p * q)[r]
           y == Power(g, p * q)[e]
<1>8. x % p = Power(g, p)[r] /\ y % p = Power(g, p)[e]
  <2>1. Reduces(p, q, g, r) /\ Reduces(p, q, g, e)
    BY <1>1, <1>4, PowerReduced
  <2> QED
    BY <2>1 DEF Reduces
<1>9. x % q = Power(g, q)[r] /\ y % q = Power(g, q)[e]
  <2>1. Reduces(q, p, g, r) /\ Reduces(q, p, g, e)
    BY <1>1, <1>4, PowerReduced
  <2> QED
    BY <1>2, <2>1 DEF Reduces
<1>10. x \in Nat /\ y \in Nat /\ x < p * q /\ y < p * q
  <2> DEFINE n == p * q
  <2>1. n \in Nat \ {0}
    BY <1>2
  <2> HIDE DEF n
  <2>2. /\ Power(g, n)[r] \in Nat /\ Power(g, n)[r] < n
        /\ Power(g, n)[e] \in Nat /\ Power(g, n)[e] < n
    BY <1>4, <2>1, PowerIn
  <2> QED
    BY <2>2 DEF n
<1> HIDE DEF x, y
<1>11. x = y
  BY <1>6, <1>7, <1>8, <1>9, <1>10, SameModuloBoth
<1> QED
  BY <1>3, <1>11 DEF x, y

(* 1 has two square roots.                                                 *)
LEMMA RootsOfOne ==
  ASSUME NEW p, Prime(p), NEW x \in Nat, x < p, (x * x) % p = 1
  PROVE  x = 1 \/ x = p - 1
<1>1. p \in Nat \ {0} /\ p > 1
  BY DEF Prime
<1>2. x # 0
  BY <1>1
<1>3. PICK k \in Nat : x * x = p * k + 1
  <2>1. x * x \in Nat
    OBVIOUS
  <2> QED
    BY <1>1, <2>1, DividedInto
<1>4. x - 1 \in Nat /\ x + 1 \in Nat /\ (x - 1) * (x + 1) = p * k /\ (x - 1) * (x + 1) \in Nat
  BY <1>1, <1>2, <1>3
<1>5. ((x - 1) * (x + 1)) % p = 0
  BY <1>1, <1>4, MultipleOf
<1>6. (x - 1) % p = 0 \/ (x + 1) % p = 0
  BY <1>4, <1>5, DividesFactor
<1>7. CASE (x - 1) % p = 0
  <2>1. (x - 1) % p = x - 1
    BY <1>1, <1>4
  <2> QED
    BY <1>7, <2>1
<1>8. CASE (x + 1) % p = 0
  <2>1. x + 1 < p => (x + 1) % p = x + 1
    BY <1>1, <1>4
  <2> QED
    BY <1>1, <1>8, <2>1
<1> QED
  BY <1>6, <1>7, <1>8

===============================================================================
