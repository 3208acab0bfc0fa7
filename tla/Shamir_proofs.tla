----------------------------- MODULE Shamir_proofs -----------------------------
(***************************************************************************)
(* What reconstruct computes, for every n, k, polynomial and set of shares *)
(* handed in, from the laws of the field in GF256_proofs.                  *)
(***************************************************************************)
EXTENDS GF256_proofs, FunctionTheorems, SequenceTheorems, FiniteSetTheorems

(***************************************************************************)
(* Arithmetic on bytes.                                                    *)
(***************************************************************************)
LEMMA Closed ==
  ASSUME NEW a \in Byte, NEW b \in Byte
  PROVE  /\ a \oplus b \in Byte /\ a \otimes b \in Byte
         /\ a \oplus b = b \oplus a /\ a \otimes b = b \otimes a
  BY BytesAreField DEF FieldLawsOf

(* The laws on three bytes.                                                *)
LEMMA Associates ==
  ASSUME NEW a \in Byte, NEW b \in Byte, NEW c \in Byte
  PROVE  /\ a \oplus (b \oplus c) = (a \oplus b) \oplus c
         /\ a \otimes (b \otimes c) = (a \otimes b) \otimes c
         /\ a \otimes (b \oplus c) = (a \otimes b) \oplus (a \otimes c)
<1>1. FieldLawsOf(a)
  BY BytesAreField
<1> QED
  BY <1>1, Zenon DEF FieldLawsOf

(* The laws on one.                                                        *)
LEMMA Units ==
  ASSUME NEW a \in Byte
  PROVE  /\ a \oplus 0 = a /\ 0 \oplus a = a /\ a \oplus a = 0
         /\ a \otimes 1 = a /\ 1 \otimes a = a
         /\ a # 0 => GfInv(a) \in Byte /\ a \otimes GfInv(a) = 1
         /\ 0 \in Byte /\ 1 \in Byte
<1>1. 0 \in Byte /\ 1 \in Byte
  BY BytesAre
<1>2. /\ a \oplus 0 = a /\ a \oplus a = 0 /\ a \otimes 1 = a
      /\ a # 0 => GfInv(a) \in Byte /\ a \otimes GfInv(a) = 1
  BY BytesAreField DEF FieldLawsOf
<1>3. 0 \oplus a = a \oplus 0 /\ 1 \otimes a = a \otimes 1
  BY <1>1, Closed
<1> QED
  BY <1>1, <1>2, <1>3

(* a + b = c says the same as a = c + b, there being no signs.             *)
LEMMA Cancel ==
  ASSUME NEW a \in Byte, NEW b \in Byte
  PROVE  /\ (a \oplus b) \oplus b = a
         /\ a \oplus b = 0 => a = b
<1>1. (a \oplus b) \oplus b = a \oplus (b \oplus b)
  BY Associates
<1>2. (a \oplus b) \oplus b = a
  BY <1>1, Units
<1>3. a \oplus b = 0 => a = 0 \oplus b
  BY <1>2
<1> QED
  BY <1>2, <1>3, Units

(* 0 times anything is 0.                                                  *)
LEMMA Zero ==
  ASSUME NEW a \in Byte
  PROVE  a \otimes 0 = 0 /\ 0 \otimes a = 0
<1>1. 0 \in Byte /\ 0 \oplus 0 = 0
  BY Units
<1>2. a \otimes 0 \in Byte /\ 0 \otimes a = a \otimes 0
  BY <1>1, Closed
<1>3. a \otimes 0 = (a \otimes 0) \oplus (a \otimes 0)
  BY <1>1, Associates
<1> QED
  BY <1>2, <1>3, Units

(* A factor that is not 0 can be cancelled.                                *)
LEMMA CancelFactor ==
  ASSUME NEW a \in Byte, NEW b \in Byte, NEW c \in Byte, a # 0,
         a \otimes b = a \otimes c
  PROVE  b = c
<1>1. GfInv(a) \in Byte /\ GfInv(a) \otimes a = 1
  BY Units, Closed
<1>2. /\ GfInv(a) \otimes (a \otimes b) = (GfInv(a) \otimes a) \otimes b
      /\ GfInv(a) \otimes (a \otimes c) = (GfInv(a) \otimes a) \otimes c
  BY <1>1, Associates
<1> QED
  BY <1>1, <1>2, Units

(* A product is 0 only if one of its factors is.                           *)
LEMMA NoZeroDivisors ==
  ASSUME NEW a \in Byte, NEW b \in Byte, a # 0, b # 0
  PROVE  a \otimes b # 0
<1>1. a \otimes 0 = 0 /\ 0 \in Byte
  BY Zero, Units
<1> QED
  BY <1>1, CancelFactor

(* An inverse is a byte other than 0.                                      *)
LEMMA InverseFacts ==
  ASSUME NEW a \in Byte, a # 0
  PROVE  GfInv(a) \in Byte /\ GfInv(a) # 0
<1>1. GfInv(a) \in Byte /\ a \otimes GfInv(a) = 1
  BY Units
<1>2. a \otimes 0 = 0
  BY Zero
<1>3. GfInv(a) # 0
  BY <1>1, <1>2
<1> QED
  BY <1>1, <1>3

(* a (b c) = b (a c)                                                       *)
LEMMA Swap ==
  ASSUME NEW a \in Byte, NEW b \in Byte, NEW c \in Byte
  PROVE  a \otimes (b \otimes c) = b \otimes (a \otimes c)
<1>1. a \otimes (b \otimes c) = (a \otimes b) \otimes c
  BY Associates
<1>2. b \otimes (a \otimes c) = (b \otimes a) \otimes c
  BY Associates
<1> QED
  BY <1>1, <1>2, Closed
-----------------------------------------------------------------------------
(***************************************************************************)
(* Sums and products, over the indices in S of those up to n.  T is one of *)
(* the two tables.                                                         *)
(***************************************************************************)
Fold(T, unit, f, S, n) ==
  LET acc[j \in 0 .. n] ==
        IF j = 0 THEN unit ELSE IF j \in S THEN T[acc[j - 1]][f[j]] ELSE acc[j - 1]
  IN acc

Sum(f, S, n) == Fold(XorTable, 0, f, S, n)[n]
Prod(f, S, n) == Fold(MulTable, 1, f, S, n)[n]

AddsUp(T) ==
  /\ \A a, b \in Byte : T[a][b] \in Byte /\ T[a][b] = T[b][a]
  /\ \A a, b, c \in Byte : T[a][T[b][c]] = T[T[a][b]][c]

(* Exclusive or and multiplication are such tables.                        *)
LEMMA TablesAddUp ==
  AddsUp(XorTable) /\ AddsUp(MulTable)
<1>1. ASSUME NEW a \in Byte, NEW b \in Byte
      PROVE  /\ XorTable[a][b] \in Byte /\ XorTable[a][b] = XorTable[b][a]
             /\ MulTable[a][b] \in Byte /\ MulTable[a][b] = MulTable[b][a]
  <2>1. /\ a \oplus b \in Byte /\ a \oplus b = b \oplus a
        /\ a \otimes b \in Byte /\ a \otimes b = b \otimes a
    BY Closed
  <2> QED
    BY <2>1 DEF \oplus, \otimes
<1>2. ASSUME NEW a \in Byte, NEW b \in Byte, NEW c \in Byte
      PROVE  /\ XorTable[a][XorTable[b][c]] = XorTable[XorTable[a][b]][c]
             /\ MulTable[a][MulTable[b][c]] = MulTable[MulTable[a][b]][c]
  <2>1. /\ a \oplus (b \oplus c) = (a \oplus b) \oplus c
        /\ a \otimes (b \otimes c) = (a \otimes b) \otimes c
    BY Associates
  <2> QED
    BY <2>1 DEF \oplus, \otimes
<1> QED
  BY <1>1, <1>2 DEF AddsUp

(* So they may be regrouped.                                               *)
LEMMA TableAssociates ==
  ASSUME NEW T, AddsUp(T), NEW a \in Byte, NEW b \in Byte, NEW c \in Byte
  PROVE  T[T[a][b]][c] = T[a][T[b][c]]
  BY DEF AddsUp

(* A fold takes its turns one after another.                               *)
LEMMA FoldFacts ==
  ASSUME NEW T, AddsUp(T), NEW unit \in Byte, NEW n \in Nat, NEW f \in [1 .. n -> Byte], NEW S
  PROVE  LET acc == Fold(T, unit, f, S, n) IN
           /\ acc \in [0 .. n -> Byte]
           /\ acc[0] = unit
           /\ \A j \in 1 .. n : acc[j] = IF j \in S THEN T[acc[j - 1]][f[j]] ELSE acc[j - 1]
<1> DEFINE acc == Fold(T, unit, f, S, n)
           Turn(g, j) == IF j \in S THEN T[g[j - 1]][f[j]] ELSE g[j - 1]
           Loop(g) == g = [j \in 0 .. n |-> IF j = 0 THEN unit ELSE Turn(g, j)]
           step == [j \in 1 .. n |-> [v \in Byte |-> IF j \in S THEN T[v][f[j]] ELSE v]]
<1>1. step \in [1 .. n -> [Byte -> Byte]]
  BY DEF AddsUp
<1> HIDE DEF step
<1>2. PICK g \in [0 .. n -> Byte] : Turns(g, unit, step, n)
  BY <1>1, LoopRuns
<1> USE DEF step
<1>3. \A j \in 0 .. n : g[j] = IF j = 0 THEN unit ELSE Turn(g, j)
  <2> SUFFICES ASSUME NEW j \in 1 .. n PROVE g[j] = Turn(g, j)
    BY <1>2 DEF Turns
  <2>1. g[j - 1] \in Byte
    OBVIOUS
  <2> QED
    BY <1>2, <2>1 DEF Turns
<1>4. Loop(g)
  BY <1>2, <1>3
<1>5. Loop(acc)
  <2>1. acc = CHOOSE h : Loop(h)
    BY DEF Fold
  <2> HIDE DEF Loop, acc
  <2> QED
    BY <1>4, <2>1
<1>6. acc[0] = unit /\ \A j \in 1 .. n : acc[j] = Turn(acc, j)
  <2> HIDE DEF acc
  <2> QED
    BY <1>5
<1>7. \A j \in 0 .. n : acc[j] = g[j]
  <2> HIDE DEF acc
  <2>1. \A j \in 1 .. n : acc[j - 1] = g[j - 1] => acc[j] = g[j]
    BY <1>3, <1>6
  <2>2. SameTurns(acc, g, n)
    BY <1>2, <1>6, <2>1 DEF SameTurns, Turns
  <2> QED
    BY <2>2, LoopsAgree
<1>8. acc \in [0 .. n -> Byte]
  <2> HIDE DEF acc
  <2>1. acc = [j \in 0 .. n |-> acc[j]]
    BY <1>5
  <2> QED
    BY <1>2, <1>7, <2>1
<1> QED
  BY <1>6, <1>8

(* What stands under a fold matters only where it is taken.                *)
LEMMA FoldCongruent ==
  ASSUME NEW T, AddsUp(T), NEW unit \in Byte, NEW n \in Nat, NEW S,
         NEW f \in [1 .. n -> Byte], NEW g \in [1 .. n -> Byte],
         \A j \in 1 .. n : j \in S => f[j] = g[j]
  PROVE  Fold(T, unit, f, S, n)[n] = Fold(T, unit, g, S, n)[n]
<1> DEFINE a == Fold(T, unit, f, S, n)
           b == Fold(T, unit, g, S, n)
<1>1. /\ a[0] = unit /\ b[0] = unit
      /\ \A j \in 1 .. n : a[j] = IF j \in S THEN T[a[j - 1]][f[j]] ELSE a[j - 1]
      /\ \A j \in 1 .. n : b[j] = IF j \in S THEN T[b[j - 1]][g[j]] ELSE b[j - 1]
  <2>1. a[0] = unit /\ \A j \in 1 .. n : a[j] = IF j \in S THEN T[a[j - 1]][f[j]] ELSE a[j - 1]
    BY FoldFacts
  <2>2. b[0] = unit /\ \A j \in 1 .. n : b[j] = IF j \in S THEN T[b[j - 1]][g[j]] ELSE b[j - 1]
    BY FoldFacts
  <2> QED
    BY <2>1, <2>2
<1> HIDE DEF a, b
<1>2. SameTurns(a, b, n)
  BY <1>1 DEF SameTurns
<1>3. \A j \in 0 .. n : a[j] = b[j]
  BY <1>2, LoopsAgree
<1> QED
  BY <1>3 DEF a, b

(* The fold over nothing.                                                  *)
LEMMA FoldEmpty ==
  ASSUME NEW T, AddsUp(T), NEW unit \in Byte, NEW n \in Nat, NEW f \in [1 .. n -> Byte]
  PROVE  Fold(T, unit, f, {}, n)[n] = unit
<1> DEFINE a == Fold(T, unit, f, {}, n)
           b == [j \in 0 .. n |-> unit]
<1>1. a[0] = unit /\ \A j \in 1 .. n : a[j] = a[j - 1]
  BY FoldFacts
<1>2. \A j \in 0 .. n : b[j] = unit
  OBVIOUS
<1> HIDE DEF a, b
<1>3. SameTurns(a, b, n)
  BY <1>1, <1>2 DEF SameTurns
<1>4. \A j \in 0 .. n : a[j] = b[j]
  BY <1>3, LoopsAgree
<1> QED
  BY <1>2, <1>4 DEF a

(* Any index may be taken first.                                           *)
Splits(T, unit, f, S, n, i) ==
  Fold(T, unit, f, S, n)[n] = T[f[i]][Fold(T, unit, f, S \ {i}, n)[n]]

(* By induction on the indices behind it.                                  *)
LEMMA FoldSplit ==
  ASSUME NEW T, AddsUp(T), NEW unit \in Byte, NEW n \in Nat, NEW f \in [1 .. n -> Byte],
         NEW S, NEW i \in 1 .. n, i \in S
  PROVE  Splits(T, unit, f, S, n, i)
<1> DEFINE a == Fold(T, unit, f, S, n)
           b == Fold(T, unit, f, S \ {i}, n)
           c == [j \in 0 .. n |-> IF j < i THEN b[j] ELSE T[f[i]][b[j]]]
<1>1. /\ a \in [0 .. n -> Byte] /\ a[0] = unit
      /\ \A j \in 1 .. n : a[j] = IF j \in S THEN T[a[j - 1]][f[j]] ELSE a[j - 1]
  BY FoldFacts
<1>2. /\ b \in [0 .. n -> Byte] /\ b[0] = unit
      /\ \A j \in 1 .. n : b[j] = IF j \in S \ {i} THEN T[b[j - 1]][f[j]] ELSE b[j - 1]
  BY FoldFacts
<1> HIDE DEF a, b
<1>3. \A j \in 0 .. n : c[j] = IF j < i THEN b[j] ELSE T[f[i]][b[j]]
  OBVIOUS
<1> HIDE DEF c
<1>4. ASSUME NEW j \in 1 .. n, a[j - 1] = c[j - 1] PROVE a[j] = c[j]
  <2>1. /\ j \in 0 .. n /\ j - 1 \in 0 .. n /\ j \in Int /\ i \in Int
        /\ b[j - 1] \in Byte /\ f[j] \in Byte /\ f[i] \in Byte
    BY <1>2
  <2>2. CASE j < i
    <3>1. c[j] = b[j] /\ c[j - 1] = b[j - 1] /\ j # i
      BY <1>3, <2>1, <2>2
    <3> QED
      BY <1>1, <1>2, <1>4, <3>1
  <2>3. CASE j = i
    <3>1. c[j] = T[f[i]][b[j]] /\ c[j - 1] = b[j - 1]
      BY <1>3, <2>1, <2>3
    <3>2. b[j] = b[j - 1] /\ a[j] = T[b[j - 1]][f[i]]
      BY <1>1, <1>2, <1>4, <2>3, <3>1
    <3> QED
      BY <2>1, <3>1, <3>2 DEF AddsUp
  <2>4. CASE j > i
    <3>1. c[j] = T[f[i]][b[j]] /\ c[j - 1] = T[f[i]][b[j - 1]] /\ j # i
      BY <1>3, <2>1, <2>4
    <3>2. CASE j \in S
      <4>1. b[j] = T[b[j - 1]][f[j]] /\ a[j] = T[T[f[i]][b[j - 1]]][f[j]]
        BY <1>1, <1>2, <1>4, <3>1, <3>2
      <4>2. /\ T[T[f[i]][b[j - 1]]][f[j]] = T[f[i]][T[b[j - 1]][f[j]]]
        BY <2>1, TableAssociates
      <4> QED
        BY <3>1, <4>1, <4>2
    <3>3. CASE j \notin S
      BY <1>1, <1>2, <1>4, <3>1, <3>3
    <3> QED
      BY <3>2, <3>3
  <2> QED
    BY <2>1, <2>2, <2>3, <2>4
<1>5. SameTurns(a, c, n)
  BY <1>1, <1>2, <1>3, <1>4 DEF SameTurns
<1>6. \A j \in 0 .. n : a[j] = c[j]
  BY <1>5, LoopsAgree
<1>7. a[n] = T[f[i]][b[n]]
  BY <1>3, <1>6
<1> QED
  BY <1>7 DEF Splits, a, b

(* Sums and products are bytes; the empty ones are 0 and 1.                *)
LEMMA SumFacts ==
  ASSUME NEW n \in Nat, NEW f \in [1 .. n -> Byte], NEW S
  PROVE  /\ Sum(f, S, n) \in Byte /\ Prod(f, S, n) \in Byte
         /\ Sum(f, {}, n) = 0 /\ Prod(f, {}, n) = 1
<1>1. AddsUp(XorTable) /\ AddsUp(MulTable) /\ 0 \in Byte /\ 1 \in Byte
  BY TablesAddUp DEF Byte
<1>2. Fold(XorTable, 0, f, S, n) \in [0 .. n -> Byte]
  BY <1>1, FoldFacts
<1>3. Fold(MulTable, 1, f, S, n) \in [0 .. n -> Byte]
  BY <1>1, FoldFacts
<1>4. Fold(XorTable, 0, f, {}, n)[n] = 0
  BY <1>1, FoldEmpty
<1>5. Fold(MulTable, 1, f, {}, n)[n] = 1
  BY <1>1, FoldEmpty
<1> QED
  BY <1>2, <1>3, <1>4, <1>5 DEF Sum, Prod

(* The same of sums and products.                                          *)
LEMMA SumSplit ==
  ASSUME NEW n \in Nat, NEW f \in [1 .. n -> Byte],
         NEW S, NEW i \in 1 .. n, i \in S
  PROVE  /\ Sum(f, S, n) = f[i] \oplus Sum(f, S \ {i}, n)
         /\ Prod(f, S, n) = f[i] \otimes Prod(f, S \ {i}, n)
<1>1. AddsUp(XorTable) /\ AddsUp(MulTable) /\ 0 \in Byte /\ 1 \in Byte
  BY TablesAddUp DEF Byte
<1>2. Splits(XorTable, 0, f, S, n, i)
  BY <1>1, FoldSplit
<1>3. Splits(MulTable, 1, f, S, n, i)
  BY <1>1, FoldSplit
<1> QED
  BY <1>2, <1>3 DEF Splits, Sum, Prod, \oplus, \otimes

Same(f, g, S, n) == \A j \in 1 .. n : j \in S => f[j] = g[j]

(* They depend on the values at the indices in S only.                     *)
LEMMA SumCongruent ==
  ASSUME NEW n \in Nat, NEW S, NEW f \in [1 .. n -> Byte], NEW g \in [1 .. n -> Byte],
         Same(f, g, S, n)
  PROVE  Sum(f, S, n) = Sum(g, S, n) /\ Prod(f, S, n) = Prod(g, S, n)
<1>1. AddsUp(XorTable) /\ AddsUp(MulTable) /\ 0 \in Byte /\ 1 \in Byte
  BY TablesAddUp DEF Byte
<1>2. \A j \in 1 .. n : j \in S => f[j] = g[j]
  BY DEF Same
<1>3. Fold(XorTable, 0, f, S, n)[n] = Fold(XorTable, 0, g, S, n)[n]
  BY <1>1, <1>2, FoldCongruent
<1>4. Fold(MulTable, 1, f, S, n)[n] = Fold(MulTable, 1, g, S, n)[n]
  BY <1>1, <1>2, FoldCongruent
<1> QED
  BY <1>3, <1>4 DEF Sum, Prod

(* An index under which there is nothing need not be counted.              *)
LEMMA SumSkips ==
  ASSUME NEW n \in Nat, NEW f \in [1 .. n -> Byte], NEW S,
         NEW i \in 1 .. n, i \in S, f[i] = 0
  PROVE  Sum(f, S, n) = Sum(f, S \ {i}, n)
<1>1. Sum(f, S, n) = f[i] \oplus Sum(f, S \ {i}, n)
  BY SumSplit
<1>2. Sum(f, S \ {i}, n) \in Byte
  BY SumFacts
<1> QED
  BY <1>1, <1>2, Units

(* (a + b) + (c + d) = (a + c) + (b + d)                                   *)
LEMMA Regroup ==
  ASSUME NEW a \in Byte, NEW b \in Byte, NEW c \in Byte, NEW d \in Byte
  PROVE  (a \oplus b) \oplus (c \oplus d) = (a \oplus c) \oplus (b \oplus d)
<1>1. /\ c \oplus d \in Byte /\ b \oplus d \in Byte /\ b \oplus c \in Byte /\ a \oplus b \in Byte
      /\ a \oplus c \in Byte /\ b \oplus c = c \oplus b
  BY Closed
<1>2. (a \oplus b) \oplus (c \oplus d) = a \oplus (b \oplus (c \oplus d))
  BY <1>1, Associates
<1>3. b \oplus (c \oplus d) = (b \oplus c) \oplus d
  BY Associates
<1>4. (c \oplus b) \oplus d = c \oplus (b \oplus d)
  BY Associates
<1>5. a \oplus (c \oplus (b \oplus d)) = (a \oplus c) \oplus (b \oplus d)
  BY <1>1, Associates
<1> QED
  BY <1>1, <1>2, <1>3, <1>4, <1>5

(* The sum of sums, and of multiples.                                      *)
IsPlus(h, f, g, S, n) == \A j \in 1 .. n : j \in S => h[j] = f[j] \oplus g[j]
IsTimes(h, c, f, S, n) == \A j \in 1 .. n : j \in S => h[j] = c \otimes f[j]

(* The sum of sums.                                                        *)
LEMMA SumPlus ==
  ASSUME NEW n \in Nat, NEW S, NEW f \in [1 .. n -> Byte], NEW g \in [1 .. n -> Byte],
         NEW h \in [1 .. n -> Byte], IsPlus(h, f, g, S, n)
  PROVE  Sum(h, S, n) = Sum(f, S, n) \oplus Sum(g, S, n)
<1> DEFINE a == Fold(XorTable, 0, h, S, n)
           b == Fold(XorTable, 0, f, S, n)
           c == Fold(XorTable, 0, g, S, n)
           d == [j \in 0 .. n |-> b[j] \oplus c[j]]
<1>1. AddsUp(XorTable) /\ 0 \in Byte /\ 0 \oplus 0 = 0
  BY TablesAddUp, Units DEF Byte
<1>2. /\ a \in [0 .. n -> Byte] /\ a[0] = 0
      /\ \A j \in 1 .. n : a[j] = IF j \in S THEN a[j - 1] \oplus h[j] ELSE a[j - 1]
  BY <1>1, FoldFacts DEF \oplus
<1>3. /\ b \in [0 .. n -> Byte] /\ b[0] = 0
      /\ \A j \in 1 .. n : b[j] = IF j \in S THEN b[j - 1] \oplus f[j] ELSE b[j - 1]
  BY <1>1, FoldFacts DEF \oplus
<1>4. /\ c \in [0 .. n -> Byte] /\ c[0] = 0
      /\ \A j \in 1 .. n : c[j] = IF j \in S THEN c[j - 1] \oplus g[j] ELSE c[j - 1]
  BY <1>1, FoldFacts DEF \oplus
<1> HIDE DEF a, b, c
<1>5. \A j \in 0 .. n : d[j] = b[j] \oplus c[j]
  OBVIOUS
<1> HIDE DEF d
<1>6. ASSUME NEW j \in 1 .. n, a[j - 1] = d[j - 1] PROVE a[j] = d[j]
  <2>1. /\ j - 1 \in 0 .. n /\ j \in 0 .. n
        /\ b[j - 1] \in Byte /\ c[j - 1] \in Byte /\ f[j] \in Byte /\ g[j] \in Byte
    BY <1>3, <1>4
  <2>2. d[j - 1] = b[j - 1] \oplus c[j - 1] /\ d[j] = b[j] \oplus c[j]
    BY <1>5, <2>1
  <2>3. CASE j \in S
    <3>1. /\ a[j] = (b[j - 1] \oplus c[j - 1]) \oplus (f[j] \oplus g[j])
          /\ d[j] = (b[j - 1] \oplus f[j]) \oplus (c[j - 1] \oplus g[j])
      BY <1>2, <1>3, <1>4, <1>6, <2>2, <2>3 DEF IsPlus
    <3> QED
      BY <2>1, <3>1, Regroup
  <2>4. CASE j \notin S
    BY <1>2, <1>3, <1>4, <1>6, <2>2, <2>4
  <2> QED
    BY <2>3, <2>4
<1>7. SameTurns(a, d, n)
  BY <1>1, <1>2, <1>3, <1>4, <1>5, <1>6 DEF SameTurns
<1>8. a[n] = b[n] \oplus c[n]
  BY <1>5, <1>7, LoopsAgree
<1> QED
  BY <1>8 DEF Sum, a, b, c

(* The sum of multiples.                                                   *)
LEMMA SumTimes ==
  ASSUME NEW n \in Nat, NEW S, NEW c \in Byte, NEW f \in [1 .. n -> Byte],
         NEW h \in [1 .. n -> Byte], IsTimes(h, c, f, S, n)
  PROVE  Sum(h, S, n) = c \otimes Sum(f, S, n)
<1> DEFINE a == Fold(XorTable, 0, h, S, n)
           b == Fold(XorTable, 0, f, S, n)
           d == [j \in 0 .. n |-> c \otimes b[j]]
<1>1. AddsUp(XorTable) /\ 0 \in Byte /\ c \otimes 0 = 0
  BY TablesAddUp, Zero, Units
<1>2. /\ a \in [0 .. n -> Byte] /\ a[0] = 0
      /\ \A j \in 1 .. n : a[j] = IF j \in S THEN a[j - 1] \oplus h[j] ELSE a[j - 1]
  BY <1>1, FoldFacts DEF \oplus
<1>3. /\ b \in [0 .. n -> Byte] /\ b[0] = 0
      /\ \A j \in 1 .. n : b[j] = IF j \in S THEN b[j - 1] \oplus f[j] ELSE b[j - 1]
  BY <1>1, FoldFacts DEF \oplus
<1> HIDE DEF a, b
<1>4. \A j \in 0 .. n : d[j] = c \otimes b[j]
  OBVIOUS
<1> HIDE DEF d
<1>5. ASSUME NEW j \in 1 .. n, a[j - 1] = d[j - 1] PROVE a[j] = d[j]
  <2>1. j - 1 \in 0 .. n /\ j \in 0 .. n /\ b[j - 1] \in Byte /\ f[j] \in Byte
    BY <1>3
  <2>2. d[j - 1] = c \otimes b[j - 1] /\ d[j] = c \otimes b[j]
    BY <1>4, <2>1
  <2>3. CASE j \in S
    <3>1. /\ a[j] = (c \otimes b[j - 1]) \oplus (c \otimes f[j])
          /\ d[j] = c \otimes (b[j - 1] \oplus f[j])
      BY <1>2, <1>3, <1>5, <2>2, <2>3 DEF IsTimes
    <3> QED
      BY <2>1, <3>1, Associates
  <2>4. CASE j \notin S
    BY <1>2, <1>3, <1>5, <2>2, <2>4
  <2> QED
    BY <2>3, <2>4
<1>6. SameTurns(a, d, n)
  BY <1>1, <1>2, <1>3, <1>4, <1>5 DEF SameTurns
<1>7. a[n] = c \otimes b[n]
  BY <1>4, <1>6, LoopsAgree
<1> QED
  BY <1>7 DEF Sum, a, b

(* A product of what is not 0 is not 0.                                    *)
LEMMA ProdNonzero ==
  ASSUME NEW n \in Nat, NEW S, NEW f \in [1 .. n -> Byte],
         \A j \in 1 .. n : j \in S => f[j] # 0
  PROVE  Prod(f, S, n) # 0
<1> DEFINE a == Fold(MulTable, 1, f, S, n)
           M == {m \in Nat : m <= n => a[m] # 0}
<1>1. /\ a \in [0 .. n -> Byte] /\ a[0] = 1
      /\ \A j \in 1 .. n : a[j] = IF j \in S THEN a[j - 1] \otimes f[j] ELSE a[j - 1]
  <2>1. AddsUp(MulTable) /\ 1 \in Byte
    BY TablesAddUp DEF Byte
  <2> QED
    BY <2>1, FoldFacts DEF \otimes
<1> HIDE DEF a
<1>2. 0 \in M
  BY <1>1
<1>3. ASSUME NEW m \in Nat, m \in M PROVE m + 1 \in M
  <2> SUFFICES ASSUME m + 1 <= n PROVE a[m + 1] # 0
    OBVIOUS
  <2>1. m + 1 \in 1 .. n /\ (m + 1) - 1 = m /\ a[m] \in Byte /\ a[m] # 0 /\ f[m + 1] \in Byte
    BY <1>1, <1>3
  <2>2. CASE m + 1 \in S
    <3>1. f[m + 1] # 0 /\ a[m + 1] = a[m] \otimes f[m + 1]
      BY <1>1, <2>1, <2>2
    <3> QED
      BY <2>1, <3>1, NoZeroDivisors
  <2>3. CASE m + 1 \notin S
    BY <1>1, <2>1, <2>3
  <2> QED
    BY <2>2, <2>3
<1> HIDE DEF M
<1>4. Nat \subseteq M
  BY <1>2, <1>3, InductionOnSet
<1> QED
  BY <1>4 DEF M, a, Prod
-----------------------------------------------------------------------------
(***************************************************************************)
(* The Lagrange basis at 0 over the points whose index is in S.            *)
(***************************************************************************)
Points(x, n) ==
  /\ x \in [1 .. n -> Byte]
  /\ \A i \in 1 .. n : x[i] # 0
  /\ \A i, j \in 1 .. n : i # j => x[i] # x[j]

Offsets(x, i, n) == [j \in 1 .. n |-> x[i] \oplus x[j]]

Weight(x, S, i, n) ==
  Prod(x, S \ {i}, n) \otimes GfInv(Prod(Offsets(x, i, n), S \ {i}, n))

(* Distribution, from the other side.                                      *)
LEMMA RightDistributes ==
  ASSUME NEW a \in Byte, NEW b \in Byte, NEW c \in Byte
  PROVE  (a \oplus b) \otimes c = (a \otimes c) \oplus (b \otimes c)
<1>1. /\ a \oplus b \in Byte /\ a \otimes c = c \otimes a /\ b \otimes c = c \otimes b
  BY Closed
<1>2. (a \oplus b) \otimes c = c \otimes (a \oplus b)
  BY <1>1, Closed
<1>3. c \otimes (a \oplus b) = (c \otimes a) \oplus (c \otimes b)
  BY Associates
<1> QED
  BY <1>1, <1>2, <1>3

(* A factor and its inverse drop out.                                      *)
LEMMA InverseDrops ==
  ASSUME NEW a \in Byte, NEW b \in Byte, a # 0, b # 0
  PROVE  a \otimes GfInv(a \otimes b) = GfInv(b)
<1> DEFINE u == GfInv(a \otimes b)
<1>1. a \otimes b \in Byte /\ a \otimes b # 0 /\ a \otimes b = b \otimes a
  BY Closed, NoZeroDivisors
<1>2. u \in Byte /\ (a \otimes b) \otimes u = 1
  BY <1>1, Units
<1> HIDE DEF u
<1>3. b \otimes (a \otimes u) = (b \otimes a) \otimes u
  BY <1>2, Associates
<1>4. a \otimes u \in Byte
  BY <1>2, Closed
<1>5. GfInv(b) \in Byte /\ b \otimes GfInv(b) = 1
  BY Units
<1>6. a \otimes u = GfInv(b)
  BY <1>1, <1>2, <1>3, <1>4, <1>5, CancelFactor
<1> QED
  BY <1>6 DEF u

(* The denominators of a Lagrange factor are not 0 for different points.   *)
LEMMA OffsetFacts ==
  ASSUME NEW n \in Nat, NEW x, Points(x, n), NEW i \in 1 .. n
  PROVE  /\ Offsets(x, i, n) \in [1 .. n -> Byte]
         /\ \A j \in 1 .. n : Offsets(x, i, n)[j] = x[i] \oplus x[j]
         /\ \A j \in 1 .. n : j # i => Offsets(x, i, n)[j] # 0
<1>1. \A j \in 1 .. n : x[j] \in Byte
  BY DEF Points
<1>2. \A j \in 1 .. n : x[i] \oplus x[j] \in Byte
  BY <1>1, Closed
<1>3. \A j \in 1 .. n : x[i] \oplus x[j] = 0 => x[i] = x[j]
  BY <1>1, Cancel
<1> QED
  BY <1>2, <1>3 DEF Offsets, Points

(* Nor is a Lagrange factor, whose point alone has the factor 1.           *)
LEMMA WeightFacts ==
  ASSUME NEW n \in Nat, NEW x, Points(x, n), NEW S, NEW i \in 1 .. n
  PROVE  /\ Weight(x, S, i, n) \in Byte /\ Weight(x, S, i, n) # 0
         /\ Weight(x, {i}, i, n) = 1
<1> DEFINE p == Prod(x, S \ {i}, n)
           d == Prod(Offsets(x, i, n), S \ {i}, n)
<1>1. x \in [1 .. n -> Byte] /\ \A j \in 1 .. n : x[j] # 0
  BY DEF Points
<1>2. Offsets(x, i, n) \in [1 .. n -> Byte] /\ \A j \in 1 .. n : j # i => Offsets(x, i, n)[j] # 0
  BY OffsetFacts
<1>3. p \in Byte /\ p # 0
  BY <1>1, SumFacts, ProdNonzero
<1>4. d \in Byte /\ d # 0
  <2>1. \A j \in 1 .. n : j \in S \ {i} => Offsets(x, i, n)[j] # 0
    BY <1>2
  <2> QED
    BY <1>2, <2>1, SumFacts, ProdNonzero
<1> HIDE DEF p, d
<1>5. GfInv(d) \in Byte /\ GfInv(d) # 0
  BY <1>4, InverseFacts
<1>6. p \otimes GfInv(d) \in Byte /\ p \otimes GfInv(d) # 0
  BY <1>3, <1>5, Closed, NoZeroDivisors
<1>7. Weight(x, {i}, i, n) = 1
  <2>1. {i} \ {i} = {}
    OBVIOUS
  <2>2. Prod(x, {i} \ {i}, n) = 1 /\ Prod(Offsets(x, i, n), {i} \ {i}, n) = 1
    BY <1>1, <1>2, <2>1, SumFacts
  <2>3. 1 \in Byte /\ 1 \otimes GfInv(1) = 1
    BY Units DEF Byte
  <2> QED
    BY <2>2, <2>3 DEF Weight
<1> QED
  BY <1>6, <1>7 DEF Weight, p, d

(* What another point contributes to a weight.                             *)
LEMMA WeightDrops ==
  ASSUME NEW n \in Nat, NEW x, Points(x, n), NEW S,
         NEW i \in 1 .. n, NEW a \in 1 .. n, a \in S, a # i
  PROVE  (x[i] \oplus x[a]) \otimes Weight(x, S, i, n) = x[a] \otimes Weight(x, S \ {a}, i, n)
<1> DEFINE P == Prod(x, S \ {i}, n)
           D == Prod(Offsets(x, i, n), S \ {i}, n)
           p == Prod(x, (S \ {a}) \ {i}, n)
           d == Prod(Offsets(x, i, n), (S \ {a}) \ {i}, n)
           off == x[i] \oplus x[a]
<1>1. x \in [1 .. n -> Byte] /\ x[a] \in Byte /\ x[i] \in Byte
  BY DEF Points
<1>2. /\ Offsets(x, i, n) \in [1 .. n -> Byte] /\ Offsets(x, i, n)[a] = off
      /\ \A j \in 1 .. n : j # i => Offsets(x, i, n)[j] # 0
  BY OffsetFacts
<1>3. off \in Byte /\ off # 0
  BY <1>2
<1>4. (S \ {a}) \ {i} = (S \ {i}) \ {a} /\ a \in S \ {i}
  OBVIOUS
<1>5. P = x[a] \otimes p
  <2> DEFINE T == S \ {i}
  <2>1. Prod(x, T, n) = x[a] \otimes Prod(x, T \ {a}, n)
    <3>1. a \in T
      BY <1>4
    <3> HIDE DEF T
    <3> QED
      BY <1>1, <3>1, SumSplit
  <2> QED
    BY <1>4, <2>1
<1>6. D = off \otimes d
  <2> DEFINE o == Offsets(x, i, n)
             T == S \ {i}
  <2>1. o \in [1 .. n -> Byte] /\ a \in T
    BY <1>2, <1>4
  <2>2. Prod(o, T, n) = o[a] \otimes Prod(o, T \ {a}, n)
    <3> HIDE DEF o, T
    <3> QED
      BY <2>1, SumSplit
  <2> QED
    BY <1>2, <1>4, <2>2
<1>7. p \in Byte /\ d \in Byte
  BY <1>1, <1>2, SumFacts
<1>8. d # 0
  <2>1. \A j \in 1 .. n : j \in (S \ {a}) \ {i} => Offsets(x, i, n)[j] # 0
    BY <1>2
  <2> QED
    BY <1>2, <2>1, ProdNonzero
<1>9. Weight(x, S, i, n) = P \otimes GfInv(D) /\ Weight(x, S \ {a}, i, n) = p \otimes GfInv(d)
  BY DEF Weight
<1> HIDE DEF P, D, p, d, off
<1>10. off \otimes GfInv(D) = GfInv(d)
  BY <1>3, <1>6, <1>7, <1>8, InverseDrops
<1>11. GfInv(D) \in Byte /\ P \in Byte /\ GfInv(d) \in Byte
  <2>1. P \in Byte /\ D \in Byte
    BY <1>1, <1>3, <1>5, <1>6, <1>7, Closed
  <2>2. D # 0
    BY <1>3, <1>6, <1>7, <1>8, NoZeroDivisors
  <2> QED
    BY <1>7, <1>8, <2>1, <2>2, InverseFacts
<1>12. off \otimes (P \otimes GfInv(D)) = P \otimes (off \otimes GfInv(D))
  BY <1>3, <1>11, Swap
<1>13. (x[a] \otimes p) \otimes GfInv(d) = x[a] \otimes (p \otimes GfInv(d))
  BY <1>1, <1>7, <1>11, Associates
<1>14. off \otimes Weight(x, S, i, n) = x[a] \otimes Weight(x, S \ {a}, i, n)
  BY <1>5, <1>9, <1>10, <1>12, <1>13
<1> QED
  BY <1>14 DEF off
-----------------------------------------------------------------------------
(***************************************************************************)
(* Interpolating f at 0 from the points in S.                              *)
(***************************************************************************)
Weighted(x, f, S, n) == [i \in 1 .. n |-> f[i] \otimes Weight(x, S, i, n)]
AtZero(x, f, S, n) == Sum(Weighted(x, f, S, n), S, n)

(* The terms of an interpolation and their sum are bytes.                  *)
LEMMA WeightedFacts ==
  ASSUME NEW n \in Nat, NEW x, Points(x, n), NEW S, NEW f \in [1 .. n -> Byte]
  PROVE  /\ Weighted(x, f, S, n) \in [1 .. n -> Byte]
         /\ \A i \in 1 .. n : Weighted(x, f, S, n)[i] = f[i] \otimes Weight(x, S, i, n)
         /\ AtZero(x, f, S, n) \in Byte
<1>1. \A i \in 1 .. n : f[i] \otimes Weight(x, S, i, n) \in Byte
  <2> TAKE i \in 1 .. n
  <2>1. f[i] \in Byte /\ Weight(x, S, i, n) \in Byte
    BY WeightFacts
  <2> QED
    BY <2>1, Closed
<1>2. Weighted(x, f, S, n) \in [1 .. n -> Byte]
  BY <1>1 DEF Weighted
<1>3. AtZero(x, f, S, n) \in Byte
  BY <1>2, SumFacts DEF AtZero
<1> QED
  BY <1>2, <1>3 DEF Weighted

(* What is 0 at a, and elsewhere f weighted without a, times x[a].         *)
Without(x, f, S, n, a) ==
  [i \in 1 .. n |-> IF i = a THEN 0 ELSE x[a] \otimes (f[i] \otimes Weight(x, S \ {a}, i, n))]

IsWithout(w, x, f, S, n, a) ==
  /\ w \in [1 .. n -> Byte] /\ w[a] = 0
  /\ \A i \in 1 .. n :
       i # a => w[i] = x[a] \otimes (f[i] \otimes Weight(x, S \ {a}, i, n))
  /\ Sum(w, S, n) = x[a] \otimes AtZero(x, f, S \ {a}, n)

(* Such a table exists.                                                    *)
LEMMA WithoutFacts ==
  ASSUME NEW n \in Nat, NEW x, Points(x, n), NEW S, NEW f \in [1 .. n -> Byte],
         NEW a \in 1 .. n, a \in S
  PROVE  IsWithout(Without(x, f, S, n, a), x, f, S, n, a)
<1> DEFINE w == Without(x, f, S, n, a)
           v == Weighted(x, f, S \ {a}, n)
<1>1. /\ v \in [1 .. n -> Byte]
      /\ \A i \in 1 .. n : v[i] = f[i] \otimes Weight(x, S \ {a}, i, n)
  BY WeightedFacts
<1>2. x[a] \in Byte /\ 0 \in Byte
  BY DEF Points, Byte
<1>3. \A i \in 1 .. n : x[a] \otimes v[i] \in Byte
  BY <1>1, <1>2, Closed
<1>4. \A i \in 1 .. n : w[i] = IF i = a THEN 0 ELSE x[a] \otimes v[i]
  BY <1>1 DEF Without
<1>5. w \in [1 .. n -> Byte]
  <2>1. \A i \in 1 .. n : w[i] \in Byte
    BY <1>2, <1>3, <1>4
  <2> QED
    BY <2>1 DEF Without
<1> HIDE DEF w, v
<1>6. Sum(w, S, n) = Sum(w, S \ {a}, n)
  BY <1>4, <1>5, SumSkips
<1>7. IsTimes(w, x[a], v, S \ {a}, n)
  BY <1>4 DEF IsTimes
<1>8. Sum(w, S \ {a}, n) = x[a] \otimes Sum(v, S \ {a}, n)
  BY <1>1, <1>2, <1>5, <1>7, SumTimes
<1>9. /\ w[a] = 0
      /\ \A i \in 1 .. n : i # a => w[i] = x[a] \otimes (f[i] \otimes Weight(x, S \ {a}, i, n))
  BY <1>1, <1>4
<1> QED
  BY <1>5, <1>6, <1>8, <1>9 DEF IsWithout, AtZero, w, v

One(n) == [i \in 1 .. n |-> 1]

(* Neville's scheme for the constant 1: leaving out one or the other of    *)
(* two points.                                                             *)
LEMMA LeavingOneOut ==
  ASSUME NEW n \in Nat, NEW x, Points(x, n), NEW S,
         NEW a \in 1 .. n, NEW b \in 1 .. n, a \in S, b \in S, a # b
  PROVE  (x[a] \oplus x[b]) \otimes AtZero(x, One(n), S, n)
           = (x[a] \otimes AtZero(x, One(n), S \ {a}, n))
               \oplus (x[b] \otimes AtZero(x, One(n), S \ {b}, n))
<1> DEFINE f == One(n)
           v == Weighted(x, f, S, n)
           wa == Without(x, f, S, n, a)
           wb == Without(x, f, S, n, b)
           off == x[a] \oplus x[b]
           h == [i \in 1 .. n |-> off \otimes v[i]]
<1>1. f \in [1 .. n -> Byte] /\ \A i \in 1 .. n : f[i] = 1
  BY DEF One, Byte
<1> HIDE DEF f
<1>2. /\ v \in [1 .. n -> Byte]
      /\ \A i \in 1 .. n : v[i] = f[i] \otimes Weight(x, S, i, n)
  BY <1>1, WeightedFacts
<1>3. \A i \in 1 .. n : x[i] \in Byte
  BY DEF Points
<1>4. off \in Byte
  BY <1>3, Closed
<1>5. IsWithout(wa, x, f, S, n, a)
  BY <1>1, WithoutFacts
<1>6. IsWithout(wb, x, f, S, n, b)
  BY <1>1, WithoutFacts
<1> HIDE DEF v, wa, wb
<1>7. h \in [1 .. n -> Byte] /\ \A i \in 1 .. n : h[i] = off \otimes v[i]
  BY <1>2, <1>4, Closed
<1> HIDE DEF h
<1>8. Sum(h, S, n) = off \otimes Sum(v, S, n)
  <2>1. IsTimes(h, off, v, S, n)
    BY <1>7 DEF IsTimes
  <2> HIDE DEF off
  <2> QED
    BY <1>2, <1>4, <1>7, <2>1, SumTimes
<1>9. ASSUME NEW i \in 1 .. n, i \in S PROVE h[i] = wa[i] \oplus wb[i]
  <2> DEFINE W == Weight(x, S, i, n)
             A == Weight(x, S \ {a}, i, n)
             B == Weight(x, S \ {b}, i, n)
  <2>1. W \in Byte /\ A \in Byte /\ B \in Byte
    BY WeightFacts
  <2>2. /\ i # a => (x[i] \oplus x[a]) \otimes W = x[a] \otimes A
        /\ i # b => (x[i] \oplus x[b]) \otimes W = x[b] \otimes B
    BY WeightDrops
  <2>3. h[i] = off \otimes (1 \otimes W)
    BY <1>1, <1>2, <1>7
  <2>4. /\ i # a => wa[i] = x[a] \otimes (1 \otimes A)
        /\ i # b => wb[i] = x[b] \otimes (1 \otimes B)
    BY <1>1, <1>5, <1>6 DEF IsWithout
  <2> HIDE DEF W, A, B
  <2>5. 1 \otimes W = W /\ 1 \otimes A = A /\ 1 \otimes B = B
    BY <2>1, Units
  <2>6. x[a] \in Byte /\ x[b] \in Byte /\ x[i] \in Byte
    BY <1>3
  <2>7. x[a] \oplus x[b] = x[b] \oplus x[a]
    BY <2>6, Closed
  <2>8. CASE i = a
    <3>1. wa[i] = 0 /\ wb[i] = x[b] \otimes B /\ h[i] = x[b] \otimes B
      BY <1>5, <2>2, <2>3, <2>4, <2>5, <2>8 DEF IsWithout
    <3>2. x[b] \otimes B \in Byte
      BY <2>1, <2>6, Closed
    <3> QED
      BY <3>1, <3>2, Units
  <2>9. CASE i = b
    <3>1. wb[i] = 0 /\ wa[i] = x[a] \otimes A /\ h[i] = x[a] \otimes A
      BY <1>6, <2>2, <2>3, <2>4, <2>5, <2>7, <2>9 DEF IsWithout
    <3>2. x[a] \otimes A \in Byte
      BY <2>1, <2>6, Closed
    <3> QED
      BY <3>1, <3>2, Units
  <2>10. CASE i # a /\ i # b
    <3> DEFINE p == x[i] \oplus x[a]
               q == x[i] \oplus x[b]
    <3>1. p \in Byte /\ q \in Byte
      BY <2>6, Closed
    <3>2. p \oplus q = (x[i] \oplus x[i]) \oplus (x[a] \oplus x[b])
      BY <2>6, Regroup
    <3>3. x[i] \oplus x[i] = 0 /\ 0 \oplus off = off
      BY <1>4, <2>6, Units
    <3>4. wa[i] = p \otimes W /\ wb[i] = q \otimes W
      BY <2>2, <2>4, <2>5, <2>10
    <3>5. p \oplus q = off
      BY <3>2, <3>3
    <3> HIDE DEF p, q
    <3>6. (p \oplus q) \otimes W = (p \otimes W) \oplus (q \otimes W)
      BY <2>1, <3>1, RightDistributes
    <3> QED
      BY <2>3, <2>5, <3>4, <3>5, <3>6
  <2> QED
    BY <2>8, <2>9, <2>10
<1>10. Sum(h, S, n) = Sum(wa, S, n) \oplus Sum(wb, S, n)
  <2>1. IsPlus(h, wa, wb, S, n)
    BY <1>9 DEF IsPlus
  <2>2. h \in [1 .. n -> Byte] /\ wa \in [1 .. n -> Byte] /\ wb \in [1 .. n -> Byte]
    BY <1>5, <1>6, <1>7 DEF IsWithout
  <2> QED
    BY <2>1, <2>2, SumPlus
<1> QED
  BY <1>5, <1>6, <1>8, <1>10 DEF IsWithout, AtZero, v, f

(* Sets of indices can be counted.                                         *)
LEMMA IndicesFinite ==
  ASSUME NEW n \in Nat, NEW S \in SUBSET (1 .. n)
  PROVE  IsFiniteSet(S) /\ Cardinality(S) \in Nat
<1>1. IsFiniteSet(1 .. n)
  BY FS_Interval
<1>2. IsFiniteSet(S)
  BY <1>1, FS_Subset
<1> QED
  BY <1>2, FS_CardinalityType

(* Points that all say 1 say 1 at 0.                                       *)
LEMMA ConstantOne ==
  ASSUME NEW n \in Nat, NEW x, Points(x, n)
  PROVE  \A S \in SUBSET (1 .. n) : S # {} => AtZero(x, One(n), S, n) = 1
<1> DEFINE M == {m \in Nat : \A S \in SUBSET (1 .. n) :
                               Cardinality(S) = m + 1 => AtZero(x, One(n), S, n) = 1}
<1>1. One(n) \in [1 .. n -> Byte] /\ \A i \in 1 .. n : One(n)[i] = 1
  BY DEF One, Byte
<1>2. \A S \in SUBSET (1 .. n) : IsFiniteSet(S) /\ Cardinality(S) \in Nat
  BY IndicesFinite
<1>3. 0 \in M
  <2> SUFFICES ASSUME NEW S \in SUBSET (1 .. n), Cardinality(S) = 1
               PROVE  AtZero(x, One(n), S, n) = 1
    OBVIOUS
  <2>1. PICK i \in 1 .. n : S = {i}
    BY <1>2, FS_Singleton
  <2> DEFINE w == Weighted(x, One(n), S, n)
  <2>2. w \in [1 .. n -> Byte] /\ w[i] = 1 \otimes Weight(x, {i}, i, n)
    BY <1>1, <2>1, WeightedFacts
  <2>3. w[i] = 1
    BY <2>2, WeightFacts, Units
  <2> HIDE DEF w
  <2>4. S \ {i} = {} /\ i \in S
    BY <2>1
  <2>5. Sum(w, S, n) = w[i] \oplus Sum(w, S \ {i}, n)
    BY <2>2, <2>4, SumSplit
  <2>6. Sum(w, {}, n) = 0 /\ 1 \oplus 0 = 1
    BY <2>2, SumFacts, Units DEF Byte
  <2> QED
    BY <2>3, <2>4, <2>5, <2>6 DEF AtZero, w
<1>4. ASSUME NEW m \in Nat, m \in M PROVE m + 1 \in M
  <2> SUFFICES ASSUME NEW S \in SUBSET (1 .. n), Cardinality(S) = (m + 1) + 1
               PROVE  AtZero(x, One(n), S, n) = 1
    OBVIOUS
  <2>1. \A i \in S : Cardinality(S \ {i}) = m + 1
    BY <1>2, FS_RemoveElement
  <2>2. PICK a \in S : TRUE
    <3>1. S # {}
      BY FS_EmptySet
    <3> QED
      BY <3>1
  <2>3. PICK b \in S \ {a} : TRUE
    <3>1. S \ {a} # {}
      BY <2>1, FS_EmptySet
    <3> QED
      BY <3>1
  <2>4. a \in 1 .. n /\ b \in 1 .. n /\ a # b
    BY <2>2, <2>3
  <2>5. AtZero(x, One(n), S \ {a}, n) = 1 /\ AtZero(x, One(n), S \ {b}, n) = 1
    BY <1>4, <2>1
  <2>6. (x[a] \oplus x[b]) \otimes AtZero(x, One(n), S, n) = (x[a] \otimes 1) \oplus (x[b] \otimes 1)
    BY <2>2, <2>3, <2>4, <2>5, LeavingOneOut
  <2> DEFINE off == x[a] \oplus x[b]
  <2>7. x[a] \in Byte /\ x[b] \in Byte /\ x[a] # x[b]
    BY <2>4 DEF Points
  <2>8. off \in Byte /\ off # 0
    BY <2>7, Closed, Cancel
  <2>9. off \otimes AtZero(x, One(n), S, n) = off \otimes 1
    BY <2>6, <2>7, <2>8, Units
  <2>10. AtZero(x, One(n), S, n) \in Byte /\ 1 \in Byte
    BY <1>1, <2>7, WeightedFacts, Units
  <2> HIDE DEF off
  <2> QED
    BY <2>8, <2>9, <2>10, CancelFactor
<1> HIDE DEF M
<1>5. Nat \subseteq M
  BY <1>3, <1>4, InductionOnSet
<1> SUFFICES ASSUME NEW S \in SUBSET (1 .. n), S # {} PROVE AtZero(x, One(n), S, n) = 1
  OBVIOUS
<1>6. Cardinality(S) # 0
  BY <1>2, FS_EmptySet
<1>7. Cardinality(S) - 1 \in M /\ Cardinality(S) = (Cardinality(S) - 1) + 1
  BY <1>2, <1>5, <1>6
<1> QED
  BY <1>7 DEF M

(* Multiplying by x: every term splits into one without a and one with.    *)
IsRaised(g, f, x, n) == \A i \in 1 .. n : g[i] = f[i] \otimes x[i]

(* The sums of the two parts.                                              *)
LEMMA Raised ==
  ASSUME NEW n \in Nat, NEW x, Points(x, n), NEW S,
         NEW f \in [1 .. n -> Byte], NEW g \in [1 .. n -> Byte], IsRaised(g, f, x, n),
         NEW a \in 1 .. n, a \in S
  PROVE  AtZero(x, g, S, n)
           = (x[a] \otimes AtZero(x, f, S \ {a}, n)) \oplus (x[a] \otimes AtZero(x, f, S, n))
<1> DEFINE v == Weighted(x, f, S, n)
           h == Weighted(x, g, S, n)
           wa == Without(x, f, S, n, a)
           wb == [i \in 1 .. n |-> x[a] \otimes v[i]]
<1>1. /\ v \in [1 .. n -> Byte]
      /\ \A i \in 1 .. n : v[i] = f[i] \otimes Weight(x, S, i, n)
  BY WeightedFacts
<1>2. /\ h \in [1 .. n -> Byte]
      /\ \A i \in 1 .. n : h[i] = g[i] \otimes Weight(x, S, i, n)
  BY WeightedFacts
<1>3. \A i \in 1 .. n : x[i] \in Byte /\ f[i] \in Byte
  BY DEF Points
<1>4. IsWithout(wa, x, f, S, n, a)
  BY WithoutFacts
<1> HIDE DEF v, h, wa
<1>5. wb \in [1 .. n -> Byte] /\ \A i \in 1 .. n : wb[i] = x[a] \otimes v[i]
  BY <1>1, <1>3, Closed
<1> HIDE DEF wb
<1>6. Sum(wb, S, n) = x[a] \otimes Sum(v, S, n)
  <2>1. IsTimes(wb, x[a], v, S, n)
    BY <1>5 DEF IsTimes
  <2> QED
    BY <1>1, <1>3, <1>5, <2>1, SumTimes
<1>7. ASSUME NEW i \in 1 .. n, i \in S PROVE h[i] = wa[i] \oplus wb[i]
  <2> DEFINE W == Weight(x, S, i, n)
             A == Weight(x, S \ {a}, i, n)
  <2>1. W \in Byte /\ A \in Byte /\ x[a] \in Byte /\ x[i] \in Byte /\ f[i] \in Byte
    BY <1>3, WeightFacts
  <2>2. i # a => (x[i] \oplus x[a]) \otimes W = x[a] \otimes A
    BY WeightDrops
  <2>3. /\ h[i] = (f[i] \otimes x[i]) \otimes W
        /\ wb[i] = x[a] \otimes (f[i] \otimes W)
        /\ i # a => wa[i] = x[a] \otimes (f[i] \otimes A)
        /\ i = a => wa[i] = 0
    BY <1>1, <1>2, <1>4, <1>5 DEF IsRaised, IsWithout
  <2> HIDE DEF W, A
  <2>4. (f[i] \otimes x[i]) \otimes W = f[i] \otimes (x[i] \otimes W)
    BY <2>1, Associates
  <2>5. /\ x[i] \otimes W \in Byte /\ x[a] \otimes W \in Byte /\ x[a] \otimes A \in Byte
        /\ f[i] \otimes W \in Byte /\ x[i] \oplus x[a] \in Byte
    BY <2>1, Closed
  <2>6. x[a] \otimes (f[i] \otimes W) = f[i] \otimes (x[a] \otimes W)
    BY <2>1, Swap
  <2>7. CASE i = a
    <3>1. h[i] = wb[i] /\ wa[i] = 0
      BY <2>3, <2>4, <2>6, <2>7
    <3>2. wb[i] \in Byte
      BY <1>5
    <3> QED
      BY <3>1, <3>2, Units
  <2>8. CASE i # a
    <3>1. x[i] = (x[i] \oplus x[a]) \oplus x[a]
      BY <2>1, Cancel
    <3>2. x[i] \otimes W = ((x[i] \oplus x[a]) \otimes W) \oplus (x[a] \otimes W)
      BY <2>1, <2>5, <3>1, RightDistributes
    <3>3. x[i] \otimes W = (x[a] \otimes A) \oplus (x[a] \otimes W)
      BY <2>2, <2>8, <3>2
    <3>4. f[i] \otimes (x[i] \otimes W)
            = (f[i] \otimes (x[a] \otimes A)) \oplus (f[i] \otimes (x[a] \otimes W))
      BY <2>1, <2>5, <3>3, Associates
    <3>5. x[a] \otimes (f[i] \otimes A) = f[i] \otimes (x[a] \otimes A)
      BY <2>1, Swap
    <3> QED
      BY <2>3, <2>4, <2>6, <2>8, <3>4, <3>5
  <2> QED
    BY <2>7, <2>8
<1>8. Sum(h, S, n) = Sum(wa, S, n) \oplus Sum(wb, S, n)
  <2>1. IsPlus(h, wa, wb, S, n)
    BY <1>7 DEF IsPlus
  <2>2. h \in [1 .. n -> Byte] /\ wa \in [1 .. n -> Byte] /\ wb \in [1 .. n -> Byte]
    BY <1>2, <1>4, <1>5 DEF IsWithout
  <2> QED
    BY <2>1, <2>2, SumPlus
<1> QED
  BY <1>4, <1>6, <1>8 DEF IsWithout, AtZero, v, h

(* The interpolation is linear in what the points say.                     *)
LEMMA AtZeroPlus ==
  ASSUME NEW n \in Nat, NEW x, Points(x, n), NEW S,
         NEW f \in [1 .. n -> Byte], NEW g \in [1 .. n -> Byte], NEW h \in [1 .. n -> Byte],
         IsPlus(h, f, g, 1 .. n, n)
  PROVE  AtZero(x, h, S, n) = AtZero(x, f, S, n) \oplus AtZero(x, g, S, n)
<1> DEFINE wf == Weighted(x, f, S, n)
           wg == Weighted(x, g, S, n)
           wh == Weighted(x, h, S, n)
<1>1. wf \in [1 .. n -> Byte] /\ \A i \in 1 .. n : wf[i] = f[i] \otimes Weight(x, S, i, n)
  BY WeightedFacts
<1>2. wg \in [1 .. n -> Byte] /\ \A i \in 1 .. n : wg[i] = g[i] \otimes Weight(x, S, i, n)
  BY WeightedFacts
<1>3. wh \in [1 .. n -> Byte] /\ \A i \in 1 .. n : wh[i] = h[i] \otimes Weight(x, S, i, n)
  BY WeightedFacts
<1> HIDE DEF wf, wg, wh
<1>4. ASSUME NEW i \in 1 .. n PROVE wh[i] = wf[i] \oplus wg[i]
  <2>1. f[i] \in Byte /\ g[i] \in Byte /\ Weight(x, S, i, n) \in Byte
    BY WeightFacts
  <2>2. h[i] = f[i] \oplus g[i]
    BY DEF IsPlus
  <2>3. (f[i] \oplus g[i]) \otimes Weight(x, S, i, n)
          = (f[i] \otimes Weight(x, S, i, n)) \oplus (g[i] \otimes Weight(x, S, i, n))
    BY <2>1, RightDistributes
  <2> QED
    BY <1>1, <1>2, <1>3, <2>2, <2>3
<1>5. IsPlus(wh, wf, wg, S, n)
  BY <1>4 DEF IsPlus
<1>6. wf \in [1 .. n -> Byte] /\ wg \in [1 .. n -> Byte] /\ wh \in [1 .. n -> Byte]
  BY <1>1, <1>2, <1>3
<1>7. Sum(wh, S, n) = Sum(wf, S, n) \oplus Sum(wg, S, n)
  BY <1>5, <1>6, SumPlus
<1> QED
  BY <1>7 DEF AtZero, wf, wg, wh

Constant(c, n) == [i \in 1 .. n |-> c]

(* Points that all say c are interpolated to c.                            *)
LEMMA AtZeroConstant ==
  ASSUME NEW n \in Nat, NEW x, Points(x, n), NEW S \in SUBSET (1 .. n), S # {},
         NEW c \in Byte
  PROVE  /\ Constant(c, n) \in [1 .. n -> Byte]
         /\ AtZero(x, Constant(c, n), S, n) = c
<1> DEFINE f == Constant(c, n)
           wf == Weighted(x, f, S, n)
           w1 == Weighted(x, One(n), S, n)
<1>1. /\ f \in [1 .. n -> Byte] /\ \A i \in 1 .. n : f[i] = c
      /\ One(n) \in [1 .. n -> Byte] /\ \A i \in 1 .. n : One(n)[i] = 1
  BY DEF Constant, One, Byte
<1> HIDE DEF f
<1>2. wf \in [1 .. n -> Byte] /\ \A i \in 1 .. n : wf[i] = f[i] \otimes Weight(x, S, i, n)
  BY <1>1, WeightedFacts
<1>3. w1 \in [1 .. n -> Byte] /\ \A i \in 1 .. n : w1[i] = One(n)[i] \otimes Weight(x, S, i, n)
  BY <1>1, WeightedFacts
<1> HIDE DEF wf, w1
<1>4. ASSUME NEW i \in 1 .. n PROVE wf[i] = c \otimes w1[i]
  <2>1. Weight(x, S, i, n) \in Byte
    BY WeightFacts
  <2>2. 1 \otimes Weight(x, S, i, n) = Weight(x, S, i, n)
    BY <2>1, Units
  <2> QED
    BY <1>1, <1>2, <1>3, <2>2
<1>5. IsTimes(wf, c, w1, S, n)
  BY <1>4 DEF IsTimes
<1>6. wf \in [1 .. n -> Byte] /\ w1 \in [1 .. n -> Byte]
  BY <1>2, <1>3
<1>7. Sum(wf, S, n) = c \otimes Sum(w1, S, n)
  BY <1>5, <1>6, SumTimes
<1>8. Sum(w1, S, n) = 1
  BY ConstantOne DEF AtZero, w1
<1>9. Sum(wf, S, n) = c
  BY <1>7, <1>8, Units
<1> QED
  BY <1>1, <1>9 DEF AtZero, f, wf
-----------------------------------------------------------------------------
(***************************************************************************)
(* Polynomials.  Horner's scheme adds a coefficient with every turn, and   *)
(* with every turn what the points say at 0 is the last one added, as long *)
(* as there are as many points as coefficients.                            *)
(***************************************************************************)
Horner(coeffs, x) ==
  LET k == Len(coeffs)
      acc[i \in 0 .. k] ==
        IF i = 0 THEN 0 ELSE (acc[i - 1] \otimes x) \oplus coeffs[k + 1 - i]
  IN acc

(* Horner's scheme, turn by turn.                                          *)
LEMMA HornerFacts ==
  ASSUME NEW coeffs \in Seq(Byte), NEW x \in Byte
  PROVE  LET k == Len(coeffs)
             acc == Horner(coeffs, x) IN
           /\ acc \in [0 .. k -> Byte]
           /\ acc[0] = 0
           /\ \A i \in 1 .. k : acc[i] = (acc[i - 1] \otimes x) \oplus coeffs[k + 1 - i]
           /\ PolyEval(coeffs, x) = acc[k]
<1> DEFINE k == Len(coeffs)
           acc == Horner(coeffs, x)
           Turn(g, i) == (g[i - 1] \otimes x) \oplus coeffs[k + 1 - i]
           Loop(g) == g = [i \in 0 .. k |-> IF i = 0 THEN 0 ELSE Turn(g, i)]
           step == [i \in 1 .. k |-> [v \in Byte |-> (v \otimes x) \oplus coeffs[k + 1 - i]]]
<1>1. k \in Nat /\ \A i \in 1 .. k : coeffs[k + 1 - i] \in Byte
  <2>1. k \in Nat
    BY LenProperties
  <2>2. \A i \in 1 .. k : k + 1 - i \in 1 .. k
    BY <2>1
  <2> QED
    BY <2>1, <2>2, ElementOfSeq
<1> HIDE DEF k
<1>2. step \in [1 .. k -> [Byte -> Byte]]
  <2>1. ASSUME NEW i \in 1 .. k, NEW v \in Byte
        PROVE  (v \otimes x) \oplus coeffs[k + 1 - i] \in Byte
    BY <1>1, Closed
  <2> QED
    BY <2>1
<1>3. 0 \in Byte
  BY DEF Byte
<1> HIDE DEF step
<1>4. PICK g \in [0 .. k -> Byte] : Turns(g, 0, step, k)
  BY <1>1, <1>2, <1>3, LoopRuns
<1>5. \A i \in 0 .. k : g[i] = IF i = 0 THEN 0 ELSE Turn(g, i)
  <2> SUFFICES ASSUME NEW i \in 1 .. k PROVE g[i] = Turn(g, i)
    BY <1>4 DEF Turns
  <2>1. g[i - 1] \in Byte
    BY <1>1
  <2> QED
    BY <1>4, <2>1 DEF Turns, step
<1>6. Loop(g)
  BY <1>4, <1>5
<1>7. Loop(acc)
  <2>1. acc = CHOOSE h : Loop(h)
    BY DEF Horner, k
  <2> HIDE DEF Loop, acc
  <2> QED
    BY <1>6, <2>1
<1>8. acc[0] = 0 /\ \A i \in 1 .. k : acc[i] = Turn(acc, i)
  <2> HIDE DEF acc
  <2> QED
    BY <1>1, <1>7
<1>9. \A i \in 0 .. k : acc[i] = g[i]
  <2> HIDE DEF acc
  <2>1. \A i \in 1 .. k : acc[i - 1] = g[i - 1] => acc[i] = g[i]
    BY <1>1, <1>5, <1>8
  <2>2. SameTurns(acc, g, k)
    BY <1>1, <1>4, <1>8, <2>1 DEF SameTurns, Turns
  <2> QED
    BY <1>1, <2>2, LoopsAgree
<1>10. acc \in [0 .. k -> Byte]
  <2> HIDE DEF acc
  <2>1. acc = [i \in 0 .. k |-> acc[i]]
    BY <1>7
  <2> QED
    BY <1>4, <1>9, <2>1
<1>11. PolyEval(coeffs, x) = acc[k]
  BY DEF PolyEval, Horner, k
<1> QED
  BY <1>8, <1>10, <1>11 DEF k

(* What the scheme holds after m turns, at every point.                    *)
Level(coeffs, x, n, m) == [i \in 1 .. n |-> Horner(coeffs, x[i])[m]]

(* A turn multiplies by x and adds the next coefficient.                   *)
LEMMA LevelFacts ==
  ASSUME NEW coeffs \in Seq(Byte), NEW n \in Nat, NEW x, Points(x, n),
         NEW m \in Nat, m + 1 <= Len(coeffs)
  PROVE  /\ Level(coeffs, x, n, m) \in [1 .. n -> Byte]
         /\ Level(coeffs, x, n, m + 1) \in [1 .. n -> Byte]
         /\ \A i \in 1 .. n : Level(coeffs, x, n, 0)[i] = 0
         /\ \A i \in 1 .. n : Level(coeffs, x, n, m + 1)[i]
                                = (Level(coeffs, x, n, m)[i] \otimes x[i]) \oplus coeffs[Len(coeffs) - m]
         /\ coeffs[Len(coeffs) - m] \in Byte
<1> DEFINE k == Len(coeffs)
<1>1. k \in Nat /\ m \in 0 .. k /\ m + 1 \in 1 .. k /\ m + 1 \in 0 .. k
  BY LenProperties
<1>2. \A i \in 1 .. n : x[i] \in Byte
  BY DEF Points
<1>3. ASSUME NEW i \in 1 .. n
      PROVE  /\ Horner(coeffs, x[i])[m] \in Byte /\ Horner(coeffs, x[i])[m + 1] \in Byte
             /\ Horner(coeffs, x[i])[0] = 0
             /\ Horner(coeffs, x[i])[m + 1]
                  = (Horner(coeffs, x[i])[m] \otimes x[i]) \oplus coeffs[k - m]
  <2> DEFINE acc == Horner(coeffs, x[i])
  <2>1. /\ acc \in [0 .. k -> Byte] /\ acc[0] = 0
        /\ \A j \in 1 .. k : acc[j] = (acc[j - 1] \otimes x[i]) \oplus coeffs[k + 1 - j]
    BY <1>2, HornerFacts
  <2> HIDE DEF acc
  <2>2. (m + 1) - 1 = m /\ k + 1 - (m + 1) = k - m
    BY <1>1
  <2>3. acc[m + 1] = (acc[m] \otimes x[i]) \oplus coeffs[k - m]
    BY <1>1, <2>1, <2>2
  <2> QED
    BY <1>1, <2>1, <2>3 DEF acc
<1>4. coeffs[k - m] \in Byte
  <2>1. k - m \in 1 .. k
    BY <1>1
  <2> QED
    BY <2>1, ElementOfSeq
<1> QED
  BY <1>3, <1>4 DEF Level

(* At 0, only the coefficient added last is left, if there are enough      *)
(* points.                                                                 *)
LEMMA LevelAtZero ==
  ASSUME NEW coeffs \in Seq(Byte), NEW n \in Nat, NEW x, Points(x, n),
         NEW m \in Nat, m + 1 <= Len(coeffs),
         NEW S \in SUBSET (1 .. n), Cardinality(S) >= m + 1
  PROVE  AtZero(x, Level(coeffs, x, n, m + 1), S, n) = coeffs[Len(coeffs) - m]
<1> DEFINE k == Len(coeffs)
           Says(j) == \A T \in SUBSET (1 .. n) :
                        Cardinality(T) >= j + 1 =>
                          AtZero(x, Level(coeffs, x, n, j + 1), T, n) = coeffs[k - j]
           M == {j \in Nat : j + 1 <= k => Says(j)}
<1>1. \A T \in SUBSET (1 .. n) : IsFiniteSet(T) /\ Cardinality(T) \in Nat
  BY IndicesFinite
<1>2. \A T \in SUBSET (1 .. n) : Cardinality(T) >= 1 => T # {}
  <2> SUFFICES ASSUME NEW T \in SUBSET (1 .. n), T = {} PROVE ~ (Cardinality(T) >= 1)
    OBVIOUS
  <2>1. Cardinality(T) = 0
    BY FS_EmptySet
  <2> QED
    BY <2>1
<1>3. k \in Nat /\ \A i \in 1 .. n : x[i] \in Byte
  BY LenProperties DEF Points
(* A turn: what was there, multiplied by x, and the coefficient.           *)
<1>4. ASSUME NEW j \in Nat, j + 1 <= k, NEW T \in SUBSET (1 .. n), T # {},
             NEW r \in [1 .. n -> Byte], IsRaised(r, Level(coeffs, x, n, j), x, n)
      PROVE  AtZero(x, Level(coeffs, x, n, j + 1), T, n) = AtZero(x, r, T, n) \oplus coeffs[k - j]
  <2> DEFINE old == Level(coeffs, x, n, j)
             new == Level(coeffs, x, n, j + 1)
             c == coeffs[k - j]
  <2>1. /\ new \in [1 .. n -> Byte] /\ c \in Byte
        /\ \A i \in 1 .. n : new[i] = (old[i] \otimes x[i]) \oplus c
    BY <1>4, LevelFacts
  <2>2. \A i \in 1 .. n : r[i] = old[i] \otimes x[i]
    BY <1>4 DEF IsRaised
  <2> HIDE DEF old, new, c
  <2>3. Constant(c, n) \in [1 .. n -> Byte] /\ AtZero(x, Constant(c, n), T, n) = c
    BY <1>4, <2>1, AtZeroConstant
  <2>4. \A i \in 1 .. n : Constant(c, n)[i] = c
    BY DEF Constant
  <2>5. IsPlus(new, r, Constant(c, n), 1 .. n, n)
    BY <2>1, <2>2, <2>4 DEF IsPlus
  <2>6. AtZero(x, new, T, n) = AtZero(x, r, T, n) \oplus AtZero(x, Constant(c, n), T, n)
    BY <2>1, <2>3, <2>5, AtZeroPlus
  <2> QED
    BY <2>3, <2>6 DEF new, c
<1>5. \A j \in Nat : j + 1 <= k =>
        LET r == [i \in 1 .. n |-> Level(coeffs, x, n, j)[i] \otimes x[i]] IN
          r \in [1 .. n -> Byte] /\ IsRaised(r, Level(coeffs, x, n, j), x, n)
  <2> SUFFICES ASSUME NEW j \in Nat, j + 1 <= k
               PROVE  LET r == [i \in 1 .. n |-> Level(coeffs, x, n, j)[i] \otimes x[i]] IN
                        r \in [1 .. n -> Byte] /\ IsRaised(r, Level(coeffs, x, n, j), x, n)
    OBVIOUS
  <2> DEFINE old == Level(coeffs, x, n, j)
  <2>1. old \in [1 .. n -> Byte]
    BY LevelFacts
  <2> HIDE DEF old
  <2>2. \A i \in 1 .. n : old[i] \otimes x[i] \in Byte
    BY <1>3, <2>1, Closed
  <2> QED
    BY <2>2 DEF IsRaised, old
<1>6. 0 \in M
  <2> SUFFICES ASSUME 0 + 1 <= k, NEW T \in SUBSET (1 .. n), Cardinality(T) >= 0 + 1
               PROVE  AtZero(x, Level(coeffs, x, n, 0 + 1), T, n) = coeffs[k - 0]
    OBVIOUS
  <2> DEFINE old == Level(coeffs, x, n, 0)
             r == [i \in 1 .. n |-> old[i] \otimes x[i]]
  <2>1. T # {}
    BY <1>2
  <2>2. r \in [1 .. n -> Byte] /\ IsRaised(r, old, x, n)
    BY <1>5
  <2>3. AtZero(x, Level(coeffs, x, n, 0 + 1), T, n) = AtZero(x, r, T, n) \oplus coeffs[k - 0]
    BY <1>4, <2>1, <2>2
  <2>4. r = Constant(0, n)
    <3>1. \A i \in 1 .. n : old[i] = 0
      BY LevelFacts
    <3>2. \A i \in 1 .. n : 0 \otimes x[i] = 0
      BY <1>3, Zero
    <3> QED
      BY <3>1, <3>2 DEF Constant
  <2>5. AtZero(x, r, T, n) = 0
    <3>1. 0 \in Byte
      BY DEF Byte
    <3>2. AtZero(x, Constant(0, n), T, n) = 0
      BY <2>1, <3>1, AtZeroConstant
    <3> QED
      BY <2>4, <3>2
  <2>6. coeffs[k - 0] \in Byte
    BY LevelFacts
  <2> QED
    BY <2>3, <2>5, <2>6, Units
<1>7. ASSUME NEW j \in Nat, j \in M PROVE j + 1 \in M
  <2> SUFFICES ASSUME (j + 1) + 1 <= k, NEW T \in SUBSET (1 .. n), Cardinality(T) >= (j + 1) + 1
               PROVE  AtZero(x, Level(coeffs, x, n, (j + 1) + 1), T, n) = coeffs[k - (j + 1)]
    OBVIOUS
  <2> DEFINE old == Level(coeffs, x, n, j + 1)
             r == [i \in 1 .. n |-> old[i] \otimes x[i]]
             c == coeffs[k - j]
  <2>1. Cardinality(T) \in Nat /\ Cardinality(T) >= 1
    BY <1>1
  <2>2. PICK a \in T : TRUE
    BY <1>2, <2>1
  <2>3. a \in 1 .. n /\ x[a] \in Byte
    BY <1>3, <2>2
  <2>4. Cardinality(T \ {a}) = Cardinality(T) - 1
    BY <1>1, <2>2, FS_RemoveElement
  <2>5. Says(j)
    BY <1>3, <1>7
  <2>6. AtZero(x, old, T, n) = c /\ AtZero(x, old, T \ {a}, n) = c
    <3>1. Cardinality(T) >= j + 1 /\ Cardinality(T \ {a}) >= j + 1
      BY <2>1, <2>4
    <3>2. T \ {a} \in SUBSET (1 .. n)
      OBVIOUS
    <3> QED
      BY <2>5, <3>1, <3>2
  <2>7. r \in [1 .. n -> Byte] /\ IsRaised(r, old, x, n) /\ j + 1 \in Nat
    <3>1. j + 1 \in Nat /\ (j + 1) + 1 <= k
      BY <1>7
    <3> QED
      BY ONLY <3>1, <1>5
  <2>8. old \in [1 .. n -> Byte] /\ c \in Byte
    BY <1>3, LevelFacts
  <2> HIDE DEF old, r, c
  <2>9. AtZero(x, r, T, n) = (x[a] \otimes c) \oplus (x[a] \otimes c)
    BY <2>2, <2>3, <2>6, <2>7, <2>8, Raised
  <2>10. AtZero(x, r, T, n) = 0
    <3>1. x[a] \otimes c \in Byte
      BY <2>3, <2>8, Closed
    <3> QED
      BY <2>9, <3>1, Units
  <2>11. AtZero(x, Level(coeffs, x, n, (j + 1) + 1), T, n)
           = AtZero(x, r, T, n) \oplus coeffs[k - (j + 1)]
    BY <1>4, <2>2, <2>7 DEF old
  <2>12. coeffs[k - (j + 1)] \in Byte
    BY <2>7, LevelFacts
  <2> QED
    BY <2>10, <2>11, <2>12, Units
<1> HIDE DEF M
<1>8. Nat \subseteq M
  BY <1>6, <1>7, InductionOnSet
<1>9. m \in M
  BY <1>8
<1> QED
  BY <1>9 DEF M
-----------------------------------------------------------------------------
(***************************************************************************)
(* The code's own loops: reconstruct interpolates at 0 from all its shares.*)
(***************************************************************************)
Shares == Seq([x : Byte, y : Byte])

XOf(shares) == [i \in 1 .. Len(shares) |-> shares[i].x]
YOf(shares) == [i \in 1 .. Len(shares) |-> shares[i].y]

(* Shares are pairs of bytes.                                              *)
LEMMA ShareTypes ==
  ASSUME NEW shares \in Shares
  PROVE  /\ Len(shares) \in Nat /\ DOMAIN shares = 1 .. Len(shares)
         /\ \A i \in 1 .. Len(shares) : shares[i] \in [x : Byte, y : Byte]
         /\ XOf(shares) \in [1 .. Len(shares) -> Byte]
         /\ YOf(shares) \in [1 .. Len(shares) -> Byte]
<1>1. Len(shares) \in Nat /\ DOMAIN shares = 1 .. Len(shares)
  BY LenProperties DEF Shares
<1>2. ASSUME NEW i \in 1 .. Len(shares) PROVE shares[i] \in [x : Byte, y : Byte]
  BY <1>1, ElementOfSeq DEF Shares
<1> QED
  BY <1>1, <1>2 DEF XOf, YOf

(* The loop over the other shares computes the Lagrange factor.            *)
LEMMA BasisIsWeight ==
  ASSUME NEW shares \in Shares, NEW i \in 1 .. Len(shares),
         Points(XOf(shares), Len(shares))
  PROVE  Basis(shares, i) = Weight(XOf(shares), 1 .. Len(shares), i, Len(shares))
<1> DEFINE k == Len(shares)
           S == (1 .. k) \ {i}
           x == XOf(shares)
           o == Offsets(x, i, k)
           num == Fold(MulTable, 1, x, S, k)
           den == Fold(MulTable, 1, o, S, k)
           Num(f) == f = [j \in 0 .. k |->
                            IF j = 0 THEN 1
                            ELSE IF j = i THEN f[j - 1] ELSE f[j - 1] \otimes shares[j].x]
           Den(f) == f = [j \in 0 .. k |->
                            IF j = 0 THEN 1
                            ELSE IF j = i THEN f[j - 1]
                            ELSE f[j - 1] \otimes (shares[i].x \oplus shares[j].x)]
           n == CHOOSE f : Num(f)
           d == CHOOSE f : Den(f)
<1>1. k \in Nat /\ x \in [1 .. k -> Byte] /\ \A j \in 1 .. k : x[j] = shares[j].x
  BY ShareTypes DEF XOf
<1>2. o \in [1 .. k -> Byte] /\ \A j \in 1 .. k : o[j] = shares[i].x \oplus shares[j].x
  BY <1>1, OffsetFacts
<1>3. AddsUp(MulTable) /\ 1 \in Byte /\ \A j \in 1 .. k : j \in S <=> j # i
  BY TablesAddUp DEF Byte
<1>4. /\ num \in [0 .. k -> Byte] /\ num[0] = 1
      /\ \A j \in 1 .. k : num[j] = IF j \in S THEN num[j - 1] \otimes x[j] ELSE num[j - 1]
  <2> HIDE DEF k, S, x
  <2>h. ASSUME NEW h \in [1 .. k -> Byte]
        PROVE  LET acc == Fold(MulTable, 1, h, S, k) IN
                 /\ acc \in [0 .. k -> Byte] /\ acc[0] = 1
                 /\ \A j \in 1 .. k : acc[j] = IF j \in S THEN MulTable[acc[j - 1]][h[j]] ELSE acc[j - 1]
    <3>1. k \in Nat /\ AddsUp(MulTable) /\ 1 \in Byte
      BY <1>1, <1>3
    <3> QED
      BY <3>1, FoldFacts
  <2>1. /\ num \in [0 .. k -> Byte] /\ num[0] = 1
        /\ \A j \in 1 .. k : num[j] = IF j \in S THEN MulTable[num[j - 1]][x[j]] ELSE num[j - 1]
    BY <1>1, <2>h
  <2> HIDE DEF num
  <2> QED
    BY <2>1 DEF \otimes
<1>5. /\ den \in [0 .. k -> Byte] /\ den[0] = 1
      /\ \A j \in 1 .. k : den[j] = IF j \in S THEN den[j - 1] \otimes o[j] ELSE den[j - 1]
  <2> HIDE DEF k, S, x, o
  <2>1. LET acc == Fold(MulTable, 1, o, S, k) IN
          /\ acc \in [0 .. k -> Byte] /\ acc[0] = 1
          /\ \A j \in 1 .. k : acc[j] = IF j \in S THEN MulTable[acc[j - 1]][o[j]] ELSE acc[j - 1]
    <3>1. k \in Nat /\ AddsUp(MulTable) /\ 1 \in Byte /\ o \in [1 .. k -> Byte]
      BY <1>1, <1>2, <1>3
    <3> QED
      BY <3>1, FoldFacts
  <2>2. /\ den \in [0 .. k -> Byte] /\ den[0] = 1
        /\ \A j \in 1 .. k : den[j] = IF j \in S THEN MulTable[den[j - 1]][o[j]] ELSE den[j - 1]
    BY <2>1
  <2> HIDE DEF den
  <2> QED
    BY <2>2 DEF \otimes
<1>6. Prod(x, S, k) = num[k] /\ Prod(o, S, k) = den[k]
  BY DEF Prod
<1>7. Basis(shares, i) = n[k] \otimes GfInv(d[k])
  BY DEF Basis
<1>8. Weight(x, 1 .. k, i, k) = num[k] \otimes GfInv(den[k])
  BY <1>6 DEF Weight
<1> HIDE DEF num, den, x, o, k, S
<1>9. Num(num)
  <2>1. \A j \in 1 .. k : num[j] = IF j = i THEN num[j - 1] ELSE num[j - 1] \otimes shares[j].x
    BY <1>1, <1>3, <1>4
  <2>2. num = [j \in 0 .. k |-> num[j]]
    BY <1>4
  <2>3. \A j \in 0 .. k : j = 0 \/ j \in 1 .. k
    BY <1>1
  <2> QED
    BY <1>4, <2>1, <2>2, <2>3
<1>10. Den(den)
  <2>1. \A j \in 1 .. k : den[j] = IF j = i THEN den[j - 1]
                                   ELSE den[j - 1] \otimes (shares[i].x \oplus shares[j].x)
    BY <1>2, <1>3, <1>5
  <2> QED
    BY <1>1, <1>5, <2>1
<1>11. Num(n) /\ Den(d)
  <2> HIDE DEF Num, Den
  <2> QED
    BY <1>9, <1>10
<1> HIDE DEF n, d
<1>12. n[k] = num[k]
  <2>1. SameTurns(n, num, k)
    BY <1>1, <1>9, <1>11 DEF SameTurns
  <2> QED
    BY <1>1, <2>1, LoopsAgree
<1>13. d[k] = den[k]
  <2>1. SameTurns(d, den, k)
    BY <1>1, <1>10, <1>11 DEF SameTurns
  <2> QED
    BY <1>1, <2>1, LoopsAgree
<1> QED
  BY <1>7, <1>8, <1>12, <1>13 DEF k, x

(* And the loop over all shares the interpolation.                         *)
LEMMA InterpolateIsAtZero ==
  ASSUME NEW shares \in Shares, Points(XOf(shares), Len(shares))
  PROVE  Interpolate(shares)
           = AtZero(XOf(shares), YOf(shares), 1 .. Len(shares), Len(shares))
<1> DEFINE k == Len(shares)
           S == 1 .. k
           x == XOf(shares)
           y == YOf(shares)
           w == Weighted(x, y, S, k)
           sum == Fold(XorTable, 0, w, S, k)
           Acc(f) == f = [i \in 0 .. k |->
                            IF i = 0 THEN 0
                            ELSE f[i - 1] \oplus (shares[i].y \otimes Basis(shares, i))]
           acc == CHOOSE f : Acc(f)
<1>1. k \in Nat /\ y \in [1 .. k -> Byte] /\ \A j \in 1 .. k : y[j] = shares[j].y
  BY ShareTypes DEF YOf
<1>2. /\ w \in [1 .. k -> Byte]
      /\ \A j \in 1 .. k : w[j] = y[j] \otimes Weight(x, S, j, k)
  BY <1>1, WeightedFacts
<1>3. \A j \in 1 .. k : Basis(shares, j) = Weight(x, S, j, k)
  BY BasisIsWeight
<1>4. AddsUp(XorTable) /\ 0 \in Byte /\ \A j \in 1 .. k : j \in S
  BY TablesAddUp DEF Byte
<1>5. /\ sum \in [0 .. k -> Byte] /\ sum[0] = 0
      /\ \A j \in 1 .. k : sum[j] = IF j \in S THEN sum[j - 1] \oplus w[j] ELSE sum[j - 1]
  BY <1>1, <1>2, <1>4, FoldFacts DEF \oplus
<1>6. Interpolate(shares) = acc[k]
  BY DEF Interpolate
<1>7. AtZero(x, y, S, k) = sum[k]
  BY DEF AtZero, Sum
<1> HIDE DEF k, S, x, y, w, sum
<1>8. Acc(sum)
  <2>1. \A j \in 1 .. k : sum[j] = sum[j - 1] \oplus (shares[j].y \otimes Basis(shares, j))
    BY <1>1, <1>2, <1>3, <1>4, <1>5
  <2> QED
    BY <1>1, <1>5, <2>1
<1>9. Acc(acc)
  <2> HIDE DEF Acc
  <2> QED
    BY <1>8
<1> HIDE DEF acc
<1>10. SameTurns(acc, sum, k)
  BY <1>1, <1>8, <1>9 DEF SameTurns
<1>11. acc[k] = sum[k]
  BY <1>1, <1>10, LoopsAgree
<1> QED
  BY <1>6, <1>7, <1>11 DEF k, S, x, y
-----------------------------------------------------------------------------
(***************************************************************************)
(* The invariant of the specification.                                     *)
(***************************************************************************)

(* split went through: a polynomial of k coefficients, the secret first.   *)
Dealt ==
  /\ deal.k \in Nat /\ deal.k >= 2
  /\ deal.coeffs \in Seq(Byte) /\ Len(deal.coeffs) = deal.k
  /\ deal.coeffs[1] = secret

ShamirInv ==
  /\ secret \in Byte
  /\ given \in Shares
  /\ IF deal = NoDeal THEN result = Open ELSE Dealt
  /\ result # Open =>
       result = IF Usable(given, deal.k) THEN Interpolate(given) ELSE Refused

(* split's polynomials.                                                    *)
LEMMA PolynomialFacts ==
  ASSUME NEW s \in Byte, NEW k \in Nat, k >= 2, NEW coeffs \in Polynomials(s, k)
  PROVE  coeffs \in Seq(Byte) /\ Len(coeffs) = k /\ coeffs[1] = s
<1>1. PICK r \in [1 .. k - 1 -> Coefficients] : coeffs = <<s>> \o r
  BY DEF Polynomials
<1>2. r \in Seq(Byte) /\ Len(r) = k - 1
  <2>1. r \in [1 .. k - 1 -> Byte]
    BY <1>1, ShamirAssumption
  <2> QED
    BY <2>1
<1>3. <<s>> \in Seq(Byte) /\ Len(<<s>>) = 1 /\ <<s>>[1] = s
  OBVIOUS
<1>4. /\ <<s>> \o r \in Seq(Byte) /\ Len(<<s>> \o r) = Len(<<s>>) + Len(r)
      /\ \A i \in 1 .. Len(<<s>>) + Len(r) :
           (<<s>> \o r)[i] = IF i <= Len(<<s>>) THEN <<s>>[i] ELSE r[i - Len(<<s>>)]
  BY <1>2, <1>3, ConcatProperties
<1> QED
  BY <1>1, <1>2, <1>3, <1>4

(* The shares that come in are bytes, altered or not.                      *)
LEMMA ShareIsBytes ==
  ASSUME NEW coeffs \in Seq(Byte), NEW x \in Byte, NEW d \in Byte
  PROVE  [ShareAt(coeffs, x) EXCEPT !.y = @ \oplus d] \in [x : Byte, y : Byte]
<1>1. PolyEval(coeffs, x) \in Byte
  <2>1. Len(coeffs) \in Nat
    BY LenProperties
  <2> QED
    BY <2>1, HornerFacts
<1>2. PolyEval(coeffs, x) \oplus d \in Byte
  BY <1>1, Closed
<1> QED
  BY <1>2 DEF ShareAt

(* ShamirInv holds in every reachable state.                               *)
LEMMA Invariant ==
  ShamirSpec => []ShamirInv
<1>1. ShamirInit => ShamirInv
  <2>1. <<>> \in Shares
    BY DEF Shares
  <2> QED
    BY <2>1 DEF ShamirInit, ShamirInv
<1>2. ASSUME ShamirInv, [ShamirNext]_shamirVars PROVE ShamirInv'
  <2>1. CASE Split
    <3>1. /\ secret \in Byte /\ given \in Shares /\ result = Open
          /\ secret' = secret /\ given' = given /\ result' = result
      BY <1>2, <2>1 DEF Split, ShamirInv
    <3>2. PICK n \in Ns, k \in Ks :
            /\ SplitAllowed(n, k)
            /\ \E coeffs \in Polynomials(secret, k) :
                 deal' = [n |-> n, k |-> k, coeffs |-> coeffs]
      BY <2>1 DEF Split
    <3>3. PICK coeffs \in Polynomials(secret, k) : deal' = [n |-> n, k |-> k, coeffs |-> coeffs]
      BY <3>2
    <3>4. k \in Nat /\ k >= 2
      BY <3>2, ShamirAssumption DEF SplitAllowed
    <3>5. coeffs \in Seq(Byte) /\ Len(coeffs) = k /\ coeffs[1] = secret
      BY <3>1, <3>4, PolynomialFacts
    <3>6. Dealt'
      BY <3>1, <3>3, <3>4, <3>5 DEF Dealt
    <3> QED
      BY <3>1, <3>6 DEF ShamirInv
  <2>2. CASE HandIn
    <3>1. /\ deal # NoDeal /\ result = Open /\ Dealt
          /\ secret' = secret /\ deal' = deal /\ result' = result
          /\ secret \in Byte /\ given \in Shares
      BY <1>2, <2>2 DEF HandIn, ShamirInv
    <3>2. PICK x \in Positions \cup {0}, d \in Deltas \cup {0} :
            given' = Append(given, [ShareAt(deal.coeffs, x) EXCEPT !.y = @ \oplus d])
      BY <2>2 DEF HandIn
    <3>3. x \in Byte /\ d \in Byte /\ deal.coeffs \in Seq(Byte)
      BY <3>1, ShamirAssumption DEF Byte, Dealt
    <3>4. [ShareAt(deal.coeffs, x) EXCEPT !.y = @ \oplus d] \in [x : Byte, y : Byte]
      BY <3>3, ShareIsBytes
    <3>5. given' \in Shares
      BY <3>1, <3>2, <3>4, AppendProperties DEF Shares
    <3>6. Dealt'
      BY <3>1 DEF Dealt
    <3> QED
      BY <3>1, <3>5, <3>6 DEF ShamirInv
  <2>3. CASE Reconstruct
    <3>1. Dealt' = Dealt
      BY <2>3 DEF Reconstruct, Dealt
    <3> QED
      BY <1>2, <2>3, <3>1 DEF Reconstruct, ShamirInv
  <2>4. CASE UNCHANGED shamirVars
    BY <1>2, <2>4 DEF shamirVars, ShamirInv, Dealt
  <2> QED
    BY <1>2, <2>1, <2>2, <2>3, <2>4 DEF ShamirNext
<1> QED
  BY <1>1, <1>2, PTL DEF ShamirSpec
-----------------------------------------------------------------------------
(***************************************************************************)
(* What reconstruct says of the shares it took.                            *)
(***************************************************************************)

(* As many different x as shares: no two shares have the same.             *)
LEMMA UsableArePoints ==
  ASSUME NEW shares \in Shares, NEW k, Usable(shares, k)
  PROVE  Points(XOf(shares), Len(shares)) /\ Len(shares) >= 1
<1> DEFINE n == Len(shares)
           x == XOf(shares)
           X == {shares[i].x : i \in DOMAIN shares}
<1>1. /\ n \in Nat /\ DOMAIN shares = 1 .. n /\ x \in [1 .. n -> Byte]
      /\ \A i \in 1 .. n : x[i] = shares[i].x
  BY ShareTypes DEF XOf
<1>2. n > 0 /\ Cardinality(X) = n /\ \A i \in 1 .. n : x[i] # 0
  BY <1>1 DEF Usable
<1>3. X = {x[i] : i \in 1 .. n}
  BY <1>1
<1> HIDE DEF n, x, X
<1>4. x \in Surjection(1 .. n, X)
  <2>1. x \in [1 .. n -> X] /\ \A t \in X : \E i \in 1 .. n : x[i] = t
    BY <1>1, <1>3
  <2> QED
    BY <2>1, Fun_IsSurj
<1>5. IsFiniteSet(1 .. n) /\ Cardinality(1 .. n) = n
  BY <1>1, <1>2, FS_Interval
<1>6. x \in Injection(1 .. n, X)
  BY <1>2, <1>4, <1>5, FS_Surjection
<1>7. \A i, j \in 1 .. n : i # j => x[i] # x[j]
  BY <1>6 DEF Injection, IsInjective
<1> QED
  BY <1>1, <1>2, <1>7 DEF Points, n, x

(* The shares that split gave out at the given x, and their value at 0.    *)
Genuine(shares, coeffs) == Level(coeffs, XOf(shares), Len(shares), Len(coeffs))

(* They are interpolated to the secret.                                    *)
LEMMA GenuineFacts ==
  ASSUME NEW shares \in Shares, NEW coeffs \in Seq(Byte), Len(coeffs) >= 1,
         Points(XOf(shares), Len(shares)), Len(shares) >= Len(coeffs)
  PROVE  /\ Genuine(shares, coeffs) \in [1 .. Len(shares) -> Byte]
         /\ \A i \in 1 .. Len(shares) :
              Genuine(shares, coeffs)[i] = PolyEval(coeffs, shares[i].x)
         /\ AtZero(XOf(shares), Genuine(shares, coeffs), 1 .. Len(shares), Len(shares))
              = coeffs[1]
<1> DEFINE n == Len(shares)
           k == Len(coeffs)
           x == XOf(shares)
           m == k - 1
<1>1. /\ n \in Nat /\ x \in [1 .. n -> Byte]
      /\ \A i \in 1 .. n : x[i] = shares[i].x
  BY ShareTypes DEF XOf
<1>2. k \in Nat /\ m \in Nat /\ m + 1 = k /\ k - m = 1
  BY LenProperties
<1>p. Points(x, n) /\ m + 1 <= Len(coeffs) /\ k = Len(coeffs) /\ n >= k
  BY <1>2
<1> HIDE DEF n, x, k, m
<1>3. Level(coeffs, x, n, k) \in [1 .. n -> Byte]
  <2>1. Level(coeffs, x, n, m + 1) \in [1 .. n -> Byte]
    BY <1>1, <1>2, <1>p, LevelFacts
  <2> QED
    BY <1>2, <2>1
<1>4. \A i \in 1 .. n : Level(coeffs, x, n, k)[i] = PolyEval(coeffs, x[i])
  <2>1. \A i \in 1 .. n : x[i] \in Byte
    BY <1>1
  <2>2. \A i \in 1 .. n : PolyEval(coeffs, x[i]) = Horner(coeffs, x[i])[k]
    BY <2>1, <1>p, HornerFacts
  <2> QED
    BY <2>2 DEF Level
<1>5. AtZero(x, Level(coeffs, x, n, m + 1), 1 .. n, n) = coeffs[k - m]
  <2>1. Cardinality(1 .. n) >= m + 1
    BY <1>1, <1>2, <1>p, FS_Interval
  <2>2. 1 .. n \in SUBSET (1 .. n)
    OBVIOUS
  <2>3. AtZero(x, Level(coeffs, x, n, m + 1), 1 .. n, n) = coeffs[Len(coeffs) - m]
    BY <1>1, <1>2, <1>p, <2>1, <2>2, LevelAtZero
  <2> QED
    BY <1>p, <2>3
<1> QED
  BY <1>1, <1>2, <1>3, <1>4, <1>5 DEF Genuine, n, x, k, m

(* The strays are the shares whose y is not the polynomial's.              *)
LEMMA StraysFacts ==
  ASSUME given \in Shares
  PROVE  /\ Strays \subseteq 1 .. Len(given)
         /\ \A i \in 1 .. Len(given) :
              i \in Strays <=> given[i].y # PolyEval(deal.coeffs, given[i].x)
<1>1. /\ DOMAIN given = 1 .. Len(given)
      /\ \A i \in 1 .. Len(given) : given[i] \in [x : Byte, y : Byte]
  BY ShareTypes
<1>2. ASSUME NEW i \in 1 .. Len(given)
      PROVE  OnPolynomial(given[i]) <=> given[i].y = PolyEval(deal.coeffs, given[i].x)
  <2>1. given[i] = [x |-> given[i].x, y |-> given[i].y]
    BY <1>1
  <2> QED
    BY <2>1 DEF OnPolynomial, ShareAt
<1> QED
  BY <1>1, <1>2 DEF Strays

(* A result that is a byte is the value at 0 of the shares' polynomial.    *)
LEMMA ResultFacts ==
  ASSUME ShamirInv, result # Open, Usable(given, deal.k)
  PROVE  /\ Points(XOf(given), Len(given)) /\ Len(given) >= deal.k /\ Len(given) \in Nat
         /\ Dealt
         /\ result = AtZero(XOf(given), YOf(given), 1 .. Len(given), Len(given))
<1>1. given \in Shares /\ Dealt /\ result = Interpolate(given)
  BY DEF ShamirInv
<1>2. Points(XOf(given), Len(given)) /\ Len(given) \in Nat
  BY <1>1, UsableArePoints, ShareTypes
<1> QED
  BY <1>1, <1>2, InterpolateIsAtZero DEF Usable

(* Any k or more genuine shares give the secret (GenuineSharesSuffice):    *)
(* for every n, k, polynomial and choice of shares.                        *)
THEOREM GenuineSharesSufficeHolds ==
  ShamirSpec => []GenuineSharesSuffice
<1>1. ASSUME ShamirInv PROVE GenuineSharesSuffice
  <2> SUFFICES ASSUME result # Open, Usable(given, deal.k), Strays = {} PROVE result = secret
    BY DEF GenuineSharesSuffice
  <2> DEFINE n == Len(given)
             y == YOf(given)
             g == Genuine(given, deal.coeffs)
  <2>1. /\ given \in Shares /\ Dealt /\ Points(XOf(given), n) /\ n >= deal.k
        /\ result = AtZero(XOf(given), y, 1 .. n, n)
    BY <1>1, ResultFacts DEF ShamirInv
  <2>2. deal.coeffs \in Seq(Byte) /\ Len(deal.coeffs) >= 1 /\ n >= Len(deal.coeffs)
    BY <2>1 DEF Dealt
  <2>3. /\ g \in [1 .. n -> Byte]
        /\ \A i \in 1 .. n : g[i] = PolyEval(deal.coeffs, given[i].x)
        /\ AtZero(XOf(given), g, 1 .. n, n) = deal.coeffs[1]
    BY <2>1, <2>2, GenuineFacts
  <2>4. y \in [1 .. n -> Byte] /\ \A i \in 1 .. n : y[i] = given[i].y
    BY <2>1, ShareTypes DEF YOf
  <2>5. \A i \in 1 .. n : given[i].y = PolyEval(deal.coeffs, given[i].x)
    BY <2>1, StraysFacts
  <2> HIDE DEF n, y, g
  <2>6. y = g
    <3>1. \A i \in 1 .. n : y[i] = g[i]
      BY <2>3, <2>4, <2>5
    <3>2. y = [i \in 1 .. n |-> y[i]] /\ g = [i \in 1 .. n |-> g[i]]
      BY <2>3, <2>4
    <3> QED
      BY <3>1, <3>2
  <2> QED
    BY <2>1, <2>3, <2>6 DEF Dealt
<1> QED
  BY <1>1, Invariant, PTL

(* One altered share always changes the result (AlteredShareShows).        *)
THEOREM AlteredShareShowsHolds ==
  ShamirSpec => []AlteredShareShows
<1>1. ASSUME ShamirInv PROVE AlteredShareShows
  <2> SUFFICES ASSUME result \in Byte, Cardinality(Strays) = 1, result = secret PROVE FALSE
    BY DEF AlteredShareShows
  <2> DEFINE n == Len(given)
             S == 1 .. n
             x == XOf(given)
             y == YOf(given)
             g == Genuine(given, deal.coeffs)
             wy == Weighted(x, y, S, n)
             wg == Weighted(x, g, S, n)
  <2>1. result # Open /\ Usable(given, deal.k)
    BY <1>1 DEF ShamirInv, Open, Refused, Byte
  <2>2. /\ given \in Shares /\ Dealt /\ Points(x, n) /\ n >= deal.k /\ n \in Nat
        /\ result = AtZero(x, y, S, n)
    BY <1>1, <2>1, ResultFacts DEF ShamirInv
  <2>3. deal.coeffs \in Seq(Byte) /\ Len(deal.coeffs) >= 1 /\ n >= Len(deal.coeffs)
    BY <2>2 DEF Dealt
  <2>4. /\ g \in [1 .. n -> Byte]
        /\ \A i \in 1 .. n : g[i] = PolyEval(deal.coeffs, given[i].x)
        /\ AtZero(x, g, S, n) = deal.coeffs[1]
    BY <2>2, <2>3, GenuineFacts
  <2>5. y \in [1 .. n -> Byte] /\ \A i \in 1 .. n : y[i] = given[i].y
    BY <2>2, ShareTypes DEF YOf
  <2>6. PICK i \in 1 .. n : Strays = {i}
    <3>1. Strays \subseteq 1 .. n
      BY <2>2, StraysFacts
    <3>2. IsFiniteSet(Strays)
      BY <2>2, <3>1, IndicesFinite
    <3>3. \E i : Strays = {i}
      BY <3>2, FS_Singleton
    <3> QED
      BY <3>1, <3>3
  <2>7. y[i] # g[i] /\ \A j \in 1 .. n : j # i => y[j] = g[j]
    <3>1. \A j \in 1 .. n : j \in Strays <=> given[j].y # PolyEval(deal.coeffs, given[j].x)
      BY <2>2, StraysFacts
    <3> QED
      BY <2>4, <2>5, <2>6, <3>1
  <2> HIDE DEF n, x, y, g
  <2>8. /\ wy \in [1 .. n -> Byte] /\ \A j \in 1 .. n : wy[j] = y[j] \otimes Weight(x, S, j, n)
        /\ wg \in [1 .. n -> Byte] /\ \A j \in 1 .. n : wg[j] = g[j] \otimes Weight(x, S, j, n)
    BY <2>2, <2>4, <2>5, WeightedFacts
  <2>9. AtZero(x, y, S, n) = Sum(wy, S, n) /\ AtZero(x, g, S, n) = Sum(wg, S, n)
    BY DEF AtZero
  <2> HIDE DEF wy, wg
  <2>10. /\ Sum(wy, S, n) = wy[i] \oplus Sum(wy, S \ {i}, n)
         /\ Sum(wg, S, n) = wg[i] \oplus Sum(wg, S \ {i}, n)
    BY <2>2, <2>8, SumSplit
  <2>11. Sum(wy, S \ {i}, n) = Sum(wg, S \ {i}, n)
    <3>1. Same(wy, wg, S \ {i}, n)
      BY <2>7, <2>8 DEF Same
    <3> QED
      BY <2>2, <2>8, <3>1, SumCongruent
  <2>12. wy[i] = wg[i]
    <3> DEFINE r == Sum(wg, S \ {i}, n)
    <3>1. r \in Byte /\ wy[i] \in Byte /\ wg[i] \in Byte
      BY <2>2, <2>8, SumFacts
    <3>2. wy[i] \oplus r = wg[i] \oplus r
      BY <2>2, <2>4, <2>9, <2>10, <2>11 DEF Dealt
    <3> HIDE DEF r
    <3>3. (wy[i] \oplus r) \oplus r = wy[i] /\ (wg[i] \oplus r) \oplus r = wg[i]
      BY <3>1, Cancel
    <3> QED
      BY <3>2, <3>3
  <2>13. y[i] = g[i]
    <3> DEFINE W == Weight(x, S, i, n)
    <3>1. W \in Byte /\ W # 0
      BY <2>2, WeightFacts
    <3>2. y[i] \in Byte /\ g[i] \in Byte /\ y[i] \otimes W = g[i] \otimes W
      BY <2>4, <2>5, <2>8, <2>12
    <3> HIDE DEF W
    <3>3. W \otimes y[i] = W \otimes g[i]
      BY <3>1, <3>2, Closed
    <3> QED
      BY <3>1, <3>2, <3>3, CancelFactor
  <2> QED
    BY <2>7, <2>13
<1> QED
  BY <1>1, Invariant, PTL

(* A further share with an x of its own adds its y, times a factor that is *)
(* not 0, to a part that y does not touch.                                 *)
LEMMA LastShare ==
  ASSUME NEW x \in Byte, given \in Shares, Usable(given, 0), x # 0,
         \A i \in 1 .. Len(given) : given[i].x # x
  PROVE  \E W \in Byte \ {0}, C \in Byte :
           \A y \in Byte :
             Interpolate(Append(given, [x |-> x, y |-> y])) = (W \otimes y) \oplus C
<1> DEFINE n == Len(given)
           N == n + 1
           S == 1 .. N
           More(y) == Append(given, [x |-> x, y |-> y])
           p == XOf(More(0))
           f == YOf(More(0))
           W == Weight(p, S, N, N)
           C == Sum(Weighted(p, f, S, N), S \ {N}, N)
<1>1. n \in Nat /\ N \in Nat /\ N \in 1 .. N /\ \A i \in 1 .. N : i \in 1 .. n \/ i = N
  BY ShareTypes
<1>2. ASSUME NEW y \in Byte
      PROVE  /\ More(y) \in Shares /\ Len(More(y)) = N
             /\ \A i \in 1 .. n : More(y)[i] = given[i]
             /\ More(y)[N] = [x |-> x, y |-> y]
  <2>1. [x |-> x, y |-> y] \in [x : Byte, y : Byte]
    OBVIOUS
  <2> QED
    BY <2>1, AppendProperties DEF Shares
<1>3. Points(XOf(given), n) /\ \A i \in 1 .. n : XOf(given)[i] = given[i].x
  BY UsableArePoints, ShareTypes DEF XOf
<1>4. 0 \in Byte /\ \A i \in 1 .. n : given[i].x # x
  BY DEF Byte
<1> HIDE DEF n, N, More
<1>5. ASSUME NEW y \in Byte
      PROVE  /\ XOf(More(y)) \in [S -> Byte] /\ YOf(More(y)) \in [S -> Byte]
             /\ \A i \in 1 .. n : /\ XOf(More(y))[i] = given[i].x
                                  /\ YOf(More(y))[i] = given[i].y
             /\ XOf(More(y))[N] = x /\ YOf(More(y))[N] = y
  <2>1. XOf(More(y)) \in [S -> Byte] /\ YOf(More(y)) \in [S -> Byte]
    BY <1>2, ShareTypes
  <2>2. \A i \in S : XOf(More(y))[i] = More(y)[i].x /\ YOf(More(y))[i] = More(y)[i].y
    BY <1>2 DEF XOf, YOf
  <2>3. \A i \in 1 .. n : i \in S
    BY <1>1 DEF N
  <2>4. /\ \A i \in 1 .. n : More(y)[i].x = given[i].x /\ More(y)[i].y = given[i].y
        /\ More(y)[N].x = x /\ More(y)[N].y = y
    <3> DEFINE q == More(y)
    <3>1. (\A i \in 1 .. n : q[i] = given[i]) /\ q[N] = [x |-> x, y |-> y]
      BY <1>2
    <3> HIDE DEF q
    <3>2. \A i \in 1 .. n : q[i].x = given[i].x /\ q[i].y = given[i].y
      BY <3>1
    <3>3. q[N].x = x /\ q[N].y = y
      BY <3>1
    <3> QED
      BY <3>2, <3>3 DEF q
  <2>5. N \in S
    BY <1>1
  <2> HIDE DEF S, p, f
  <2> QED
    BY <2>1, <2>2, <2>3, <2>4, <2>5
<1>6. ASSUME NEW y \in Byte PROVE XOf(More(y)) = p
  <2> DEFINE q == XOf(More(y))
  <2>1. /\ q \in [S -> Byte] /\ p \in [S -> Byte]
        /\ \A i \in 1 .. n : q[i] = p[i]
        /\ q[N] = p[N]
    BY <1>4, <1>5
  <2> HIDE DEF q, p
  <2>2. \A i \in S : q[i] = p[i]
    BY <1>1, <2>1
  <2>3. q = [i \in S |-> q[i]] /\ p = [i \in S |-> p[i]]
    BY <2>1
  <2>4. q = p
    BY <2>2, <2>3
  <2> QED
    BY <2>4 DEF q
<1>7. /\ p \in [S -> Byte] /\ p[N] = x
      /\ \A i \in 1 .. n : p[i] = given[i].x
      /\ f \in [S -> Byte] /\ \A i \in 1 .. n : f[i] = given[i].y
  BY <1>4, <1>5
<1> HIDE DEF p, f
<1>8. Points(p, N)
  <2>1. \A i \in 1 .. n : p[i] # 0 /\ p[i] # p[N]
    BY <1>3, <1>4, <1>7 DEF Points
  <2>2. \A i, j \in 1 .. n : i # j => p[i] # p[j]
    BY <1>3, <1>7 DEF Points
  <2>3. p[N] # 0
    BY <1>7
  <2> QED
    BY <1>1, <1>7, <2>1, <2>2, <2>3 DEF Points
<1>9. W \in Byte /\ W # 0 /\ C \in Byte
  <2>1. Weighted(p, f, S, N) \in [1 .. N -> Byte]
    BY <1>1, <1>7, <1>8, WeightedFacts
  <2> QED
    BY <1>1, <1>8, <2>1, WeightFacts, SumFacts
<1>10. ASSUME NEW y \in Byte PROVE Interpolate(More(y)) = (W \otimes y) \oplus C
  <2> DEFINE g == YOf(More(y))
             wg == Weighted(p, g, S, N)
             wf == Weighted(p, f, S, N)
  <2>1. Interpolate(More(y)) = AtZero(p, g, S, N)
    <3>1. More(y) \in Shares /\ Len(More(y)) = N /\ XOf(More(y)) = p
      BY <1>2, <1>6
    <3>2. Points(XOf(More(y)), Len(More(y)))
      BY <1>8, <3>1
    <3>3. Interpolate(More(y))
            = AtZero(XOf(More(y)), YOf(More(y)), 1 .. Len(More(y)), Len(More(y)))
      BY <3>1, <3>2, InterpolateIsAtZero
    <3> QED
      BY <3>1, <3>3
  <2>2. g \in [1 .. N -> Byte] /\ g[N] = y /\ \A i \in 1 .. n : g[i] = f[i]
    BY <1>5, <1>7
  <2> HIDE DEF g
  <2>3. /\ wg \in [1 .. N -> Byte] /\ \A i \in 1 .. N : wg[i] = g[i] \otimes Weight(p, S, i, N)
        /\ wf \in [1 .. N -> Byte] /\ \A i \in 1 .. N : wf[i] = f[i] \otimes Weight(p, S, i, N)
    BY <1>1, <1>7, <1>8, <2>2, WeightedFacts
  <2>4. AtZero(p, g, S, N) = Sum(wg, S, N)
    BY DEF AtZero
  <2> HIDE DEF wg, wf
  <2>5. Sum(wg, S, N) = wg[N] \oplus Sum(wg, S \ {N}, N)
    BY <1>1, <2>3, SumSplit
  <2>6. Sum(wg, S \ {N}, N) = Sum(wf, S \ {N}, N)
    <3>1. Same(wg, wf, S \ {N}, N)
      BY <1>1, <2>2, <2>3 DEF Same
    <3> QED
      BY <1>1, <2>3, <3>1, SumCongruent
  <2>7. wg[N] = W \otimes y
    <3>1. wg[N] = y \otimes W
      BY <1>1, <2>2, <2>3
    <3> QED
      BY <1>9, <3>1, Closed
  <2> QED
    BY <2>1, <2>4, <2>5, <2>6, <2>7 DEF wf
<1> HIDE DEF W, C
<1> QED
  BY <1>9, <1>10 DEF More

(* W y + C takes every byte as its value when W is not 0.                  *)
LEMMA TakesEveryByte ==
  ASSUME NEW W \in Byte \ {0}, NEW C \in Byte
  PROVE  {(W \otimes y) \oplus C : y \in Byte} = Byte
<1>1. ASSUME NEW y \in Byte PROVE (W \otimes y) \oplus C \in Byte
  <2>1. W \otimes y \in Byte
    BY Closed
  <2> QED
    BY <2>1, Closed
<1>2. ASSUME NEW b \in Byte PROVE \E y \in Byte : b = (W \otimes y) \oplus C
  <2> DEFINE r == b \oplus C
             V == GfInv(W)
             y == V \otimes r
  <2>1. r \in Byte /\ V \in Byte /\ W \otimes V = 1
    BY Closed, Units
  <2>2. r \oplus C = b
    BY Cancel
  <2> HIDE DEF r, V
  <2>3. W \otimes (V \otimes r) = (W \otimes V) \otimes r
    BY <2>1, Associates
  <2>4. W \otimes y = r /\ y \in Byte
    BY <2>1, <2>3, Units, Closed
  <2> HIDE DEF y
  <2> QED
    BY <2>2, <2>4
<1> QED
  BY <1>1, <1>2

(* One share short of k says nothing of the secret (Hidden).               *)
THEOREM HiddenHolds ==
  ShamirSpec => []Hidden
<1>1. ASSUME ShamirInv PROVE Hidden
  <2> SUFFICES ASSUME Usable(given, 0),
                      NEW x \in Positions \ {given[i].x : i \in DOMAIN given}
               PROVE  {Interpolate(Append(given, [x |-> x, y |-> y])) : y \in Byte} = Byte
    BY DEF Hidden
  <2>1. given \in Shares /\ DOMAIN given = 1 .. Len(given)
    BY <1>1, ShareTypes DEF ShamirInv
  <2>2. x \in Byte /\ x # 0
    BY ShamirAssumption DEF Byte
  <2>3. \A i \in 1 .. Len(given) : given[i].x # x
    BY <2>1
  <2>4. PICK W \in Byte \ {0}, C \in Byte :
          \A y \in Byte :
            Interpolate(Append(given, [x |-> x, y |-> y])) = (W \otimes y) \oplus C
    BY <2>1, <2>2, <2>3, LastShare
  <2>5. {Interpolate(Append(given, [x |-> x, y |-> y])) : y \in Byte}
          = {(W \otimes y) \oplus C : y \in Byte}
    BY <2>4
  <2> QED
    BY <2>5, TakesEveryByte
<1> QED
  BY <1>1, Invariant, PTL

(* The byte that is shared never changes.                                  *)
LEMMA SecretIsByte == ShamirSpec => [](secret \in Byte)
<1>1. ShamirInit => secret \in Byte
  BY DEF ShamirInit
<1>2. secret \in Byte /\ [ShamirNext]_shamirVars => (secret \in Byte)'
  BY DEF ShamirNext, Split, HandIn, Reconstruct, shamirVars
<1> QED
  BY <1>1, <1>2, PTL DEF ShamirSpec

(* The laws hold of every byte that may be dealt, and x times x^7 reduces  *)
(* as in AES (FieldLaws).                                                  *)
THEOREM FieldLawsHold == ShamirSpec => []FieldLaws
<1>1. 2 \otimes 128 = 27
  <2>1. 2 \in Byte /\ 128 \in Byte /\ Shift(1) = 2
    BY DEF Byte, Shift
  <2>2. 2 \otimes 128 = Shift(1 \otimes 128) /\ 1 \otimes 128 = 128
    BY <2>1, BytesAre, MulShiftFirst, MulOne, MulCommutes
  <2>3. Shift(128) = 0 \oplus 27
    BY DEF Shift
  <2>4. 27 \in Byte
    BY DEF Byte
  <2>5. 0 \oplus 27 = 27 \oplus 0 /\ 27 \oplus 0 = 27
    BY <2>4, BytesAre, XorLaws
  <2> QED
    BY <2>2, <2>3, <2>5
<1>2. secret \in Byte => FieldLaws
  BY <1>1, BytesAreField DEF FieldLaws
<1> QED
  BY <1>2, SecretIsByte, PTL
==============================================================================
