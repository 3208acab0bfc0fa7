-------------------------------- MODULE Shamir --------------------------------
(***************************************************************************)
(* Secret sharing over GF(2^8): python/shamir.py, every operation of it,   *)
(* on real bytes.  The code treats each byte of the data key alike and     *)
(* independently, so one byte stands for all.  A secret is dealt, shares   *)
(* are handed in - again, altered, or with an x of 0 - and combined.       *)
(***************************************************************************)
EXTENDS Integers, FiniteSets, Sequences

CONSTANTS
  Secrets, Coefficients,  \* the secret bytes dealt, and the random ones
  Ns, Ks,                 \* n and k given to split
  Positions,              \* x-coordinates of the shares that are handed in
  Deltas,                 \* what an altered share's y is off by
  MaxGiven                \* bound on the shares handed in

Byte == 0 .. 255

ASSUME ShamirAssumption ==
  /\ Secrets \subseteq Byte /\ Coefficients \subseteq Byte
  /\ Ns \subseteq Nat /\ Ks \subseteq Nat /\ Positions \subseteq 1 .. 255
  /\ Deltas \subseteq Byte \ {0} /\ MaxGiven \in Nat

(***************************************************************************)
(* The field.  Addition is XOR; both tables hold what the functions below  *)
(* them compute, once for every pair of bytes.                             *)
(***************************************************************************)
Bit(a, i) == (a \div 2^i) % 2

XorOf(a, b) ==
  LET low[i \in 0 .. 8] ==
        IF i = 0 THEN 0
        ELSE low[i - 1] + 2^(i - 1) * ((Bit(a, i - 1) + Bit(b, i - 1)) % 2)
  IN low[8]

XorTable == [a \in Byte |-> [b \in Byte |-> XorOf(a, b)]]
a \oplus b == XorTable[a][b]

EightTimes(Round(_), start) ==
  LET after[i \in 0 .. 8] == IF i = 0 THEN start ELSE Round(after[i - 1])
  IN after[8]

(* _gf_mul: peasant multiplication, reducing by x^8 + x^4 + x^3 + x + 1.   *)
(* Mutant: the carry is dropped.                                           *)
ShiftOnly(a) == (2 * a) % 256

Shift(a) == IF a >= 128 THEN ((2 * a) % 256) \oplus 27 ELSE 2 * a

GfMul(a, b) ==
  LET Round(s) == [r |-> IF s.b % 2 = 1 THEN s.r \oplus s.a ELSE s.r,
                   a |-> Shift(s.a),
                   b |-> s.b \div 2]
  IN EightTimes(Round, [r |-> 0, a |-> a, b |-> b]).r

MulTable == [a \in Byte |-> [b \in Byte |-> GfMul(a, b)]]
a \otimes b == MulTable[a][b]

(* _gf_inv: a^254 by square and multiply.                                  *)
GfPower(a, e) ==
  LET Round(s) == [result |-> IF s.exp % 2 = 1 THEN s.result \otimes s.base ELSE s.result,
                   base   |-> s.base \otimes s.base,
                   exp    |-> s.exp \div 2]
  IN EightTimes(Round, [result |-> 1, base |-> a, exp |-> e]).result

(* Mutant: one power too many.                                             *)
GfInvOff(a) == GfPower(a, 255)

GfInv(a) == GfPower(a, 254)

(* _poly_eval: Horner from the highest coefficient; coeffs[1] is the       *)
(* secret.                                                                 *)
PolyEval(coeffs, x) ==
  LET k == Len(coeffs)
      acc[i \in 0 .. k] ==
        IF i = 0 THEN 0 ELSE (acc[i - 1] \otimes x) \oplus coeffs[k + 1 - i]
  IN acc[k]

(***************************************************************************)
(* split and reconstruct.                                                  *)
(***************************************************************************)
SplitAllowed(n, k) == 2 <= k /\ k <= n /\ n <= 255

(* Every polynomial of degree below k through the secret.                  *)
Polynomials(s, k) == {<<s>> \o r : r \in [1 .. k - 1 -> Coefficients]}

ShareAt(coeffs, x) == [x |-> x, y |-> PolyEval(coeffs, x)]

(* Lagrange at 0: the factors of share i over all the others.              *)
Basis(shares, i) ==
  LET k == Len(shares)
      num[j \in 0 .. k] ==
        IF j = 0 THEN 1
        ELSE IF j = i THEN num[j - 1] ELSE num[j - 1] \otimes shares[j].x
      den[j \in 0 .. k] ==
        IF j = 0 THEN 1
        ELSE IF j = i THEN den[j - 1]
        ELSE den[j - 1] \otimes (shares[i].x \oplus shares[j].x)
  IN num[k] \otimes GfInv(den[k])

(* Mutant: the last share is left out.                                     *)
InterpolateFirst(shares) ==
  LET acc[i \in 0 .. Len(shares) - 1] ==
        IF i = 0 THEN 0
        ELSE acc[i - 1] \oplus (shares[i].y \otimes Basis(SubSeq(shares, 1, Len(shares) - 1), i))
  IN acc[Len(shares) - 1]

Interpolate(shares) ==
  LET acc[i \in 0 .. Len(shares)] ==
        IF i = 0 THEN 0 ELSE acc[i - 1] \oplus (shares[i].y \otimes Basis(shares, i))
  IN acc[Len(shares)]

(* Mutant: an x of 0 gets past.                                            *)
UsableAnyX(shares, threshold) ==
  /\ Len(shares) > 0 /\ Len(shares) >= threshold
  /\ Cardinality({shares[i].x : i \in DOMAIN shares}) = Len(shares)

Usable(shares, threshold) ==
  /\ Len(shares) > 0 /\ Len(shares) >= threshold
  /\ Cardinality({shares[i].x : i \in DOMAIN shares}) = Len(shares)
  /\ \A i \in DOMAIN shares : shares[i].x # 0

(***************************************************************************)
(* One secret from dealing to combining.                                   *)
(***************************************************************************)
VARIABLES
  secret,
  deal,    \* n, k and the polynomial
  given,   \* the shares handed in
  result   \* what reconstruct said

shamirVars == <<secret, deal, given, result>>

NoDeal == [n |-> 0, k |-> 0, coeffs |-> <<>>]
Open == -1     \* reconstruct has not been called
Refused == -2  \* it raised ValueError

ShamirInit ==
  /\ secret \in Byte
  /\ deal = NoDeal /\ given = <<>> /\ result = Open

Split ==
  /\ deal = NoDeal /\ secret \in Secrets
  /\ \E n \in Ns, k \in Ks :
       /\ SplitAllowed(n, k)
       /\ \E coeffs \in Polynomials(secret, k) :
            deal' = [n |-> n, k |-> k, coeffs |-> coeffs]
  /\ UNCHANGED <<secret, given, result>>

OnPolynomial(share) == share = ShareAt(deal.coeffs, share.x)
Strays == {i \in DOMAIN given : ~OnPolynomial(given[i])}

(* External: shares come in by rising x (their order changes nothing in an *)
(* XOR), at most one of them altered.                                      *)
HandIn ==
  /\ deal # NoDeal /\ result = Open /\ Len(given) < MaxGiven
  /\ \E x \in {p \in Positions : p <= deal.n} \cup {0}, d \in Deltas \cup {0} :
       LET genuine == ShareAt(deal.coeffs, x)
           share == [genuine EXCEPT !.y = @ \oplus d] IN
         /\ given # <<>> => given[Len(given)].x <= x
         /\ d # 0 => Strays = {}
         /\ given' = Append(given, share)
  /\ UNCHANGED <<secret, deal, result>>

Reconstruct ==
  /\ deal # NoDeal /\ result = Open
  /\ result' = IF Usable(given, deal.k) THEN Interpolate(given) ELSE Refused
  /\ UNCHANGED <<secret, deal, given>>

ShamirNext == Split \/ HandIn \/ Reconstruct

ShamirSpec == ShamirInit /\ [][ShamirNext]_shamirVars
-----------------------------------------------------------------------------
(* The byte operations really are a field of characteristic 2, for every   *)
(* three bytes, with every a # 0 inverted by a^254 - and x times x^7       *)
(* reduces as in AES.                                                      *)
FieldLawsOf(a) ==
  /\ a \oplus 0 = a /\ a \oplus a = 0 /\ a \otimes 1 = a
  /\ a # 0 => GfInv(a) \in Byte /\ a \otimes GfInv(a) = 1
  /\ \A b \in Byte :
       /\ a \oplus b \in Byte /\ a \oplus b = b \oplus a
       /\ a \otimes b \in Byte /\ a \otimes b = b \otimes a
       /\ \A c \in Byte :
            /\ a \oplus (b \oplus c) = (a \oplus b) \oplus c
            /\ a \otimes (b \otimes c) = (a \otimes b) \otimes c
            /\ a \otimes (b \oplus c) = (a \otimes b) \oplus (a \otimes c)

FieldLaws == deal = NoDeal => FieldLawsOf(secret) /\ 2 \otimes 128 = 27

(* Any k or more genuine shares, however many beyond k, give the secret.   *)
GenuineSharesSuffice ==
  result # Open /\ Usable(given, deal.k) /\ Strays = {} => result = secret

(* One altered share among any number of genuine ones never goes           *)
(* unnoticed: the result is wrong, so the outer AES-GCM tag catches it     *)
(* (shamir.py:18).                                                         *)
AlteredShareShows ==
  result \in Byte /\ Cardinality(Strays) = 1 => result # secret

(* With one share short of k every byte is still possible as the secret:   *)
(* each of the 256 completes to exactly one last share.                    *)
Hidden ==
  deal # NoDeal /\ Len(given) = deal.k - 1 /\ Usable(given, 0) =>
    \A x \in Positions \ {given[i].x : i \in DOMAIN given} :
      {Interpolate(Append(given, [x |-> x, y |-> y])) : y \in Byte} = Byte
==============================================================================
