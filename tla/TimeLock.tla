------------------------------- MODULE TimeLock -------------------------------
(***************************************************************************)
(* The `vajra` tool in one directory: rust/src/puzzle.rs, main.rs and      *)
(* crypto.rs, on real numbers of a few bits.  generate, lock, solve and    *)
(* bench run one at a time, in any order, and may be killed; each finds    *)
(* the files the others left.  Each lock of the service has a directory of *)
(* its own, an operator of the tool need not.                              *)
(***************************************************************************)
EXTENDS Integers, FiniteSets

CONSTANTS
  PrimeBits,    \* size of p and q (512 in the code)
  BenchBits,    \* sizes `vajra bench` asks gen_prime for
  Bases,        \* the random h
  Times,        \* --time
  Rates,        \* what benchmark may measure
  CounterBits,  \* width of t_ops (64 in the code)
  Aads,         \* --aad-hex
  MaxGenerates  \* bound on the runs of generate

ASSUME TimeLockAssumption ==
  /\ PrimeBits \in Nat \ {0, 1} /\ BenchBits \subseteq Nat \ {0, 1}
  /\ Bases \subseteq Nat /\ Times \subseteq Nat /\ Rates \subseteq Nat \ {0}
  /\ CounterBits \in Nat /\ MaxGenerates \in Nat

Pow2[i \in Nat] == IF i = 0 THEN 1 ELSE 2 * Pow2[i - 1]

(* num_bigint's modpow.                                                    *)
ModPow(a, e, n) ==
  LET pow[i \in Nat] ==
        IF i = 0 THEN 1 % n
        ELSE LET half == pow[i \div 2]
                 square == (half * half) % n
             IN IF i % 2 = 1 THEN (square * a) % n ELSE square
  IN pow[e]

(***************************************************************************)
(* gen_prime draws an odd number with the top bit set until is_probable_   *)
(* prime keeps one.  gen_biguint_range excludes its upper end: the         *)
(* witnesses are 2 .. n - 3.                                               *)
(***************************************************************************)
Candidates(bits) == {n \in Pow2[bits - 1] .. Pow2[bits] - 1 : n % 2 = 1}
Witnesses(n) == 2 .. n - 3

(* n - 1 = 2^r * d with d odd.                                             *)
TwosIn(m) == CHOOSE r \in 0 .. m : m % Pow2[r] = 0 /\ (m \div Pow2[r]) % 2 = 1

(* Mutant: Fermat's test, which Carmichael numbers pass.                   *)
PassesFermat(n, a) == ModPow(a, n - 1, n) = 1

(* Mutant: one squaring too few.                                           *)
PassesEarly(n, a) ==
  LET r == TwosIn(n - 1)
      x == ModPow(a, (n - 1) \div Pow2[r], n)
  IN x = 1 \/ \E j \in 0 .. r - 2 : ModPow(x, Pow2[j], n) = n - 1

(* One turn of the witness loop.                                           *)
Passes(n, a) ==
  LET r == TwosIn(n - 1)
      x == ModPow(a, (n - 1) \div Pow2[r], n)
  IN x = 1 \/ \E j \in 0 .. r - 1 : ModPow(x, Pow2[j], n) = n - 1

(* What the witness loop may return: a composite if every draw is a liar.  *)
GenPrime(bits) ==
  {n \in Candidates(bits) : n = 3 \/ \E a \in Witnesses(n) : Passes(n, a)}

(***************************************************************************)
(* The puzzle and its two solutions.                                       *)
(***************************************************************************)
MaxOps == Pow2[CounterBits] - 1

(* Mutant: the multiplication wraps around.                                *)
TOpsWrapping(time, rate) == (time * rate) % (MaxOps + 1)

(* saturating_mul                                                          *)
TOps(time, rate) == IF time * rate > MaxOps THEN MaxOps ELSE time * rate

(* Mutant: reduced by N in place of phi(N).                                *)
AdminKeyModN(pz, sc) == ModPow(pz.g, ModPow(2, pz.ops, pz.n), pz.n)

(* admin_compute_key: g^(2^ops mod phi(N)) mod N.                          *)
AdminKey(pz, sc) ==
  ModPow(pz.g, ModPow(2, pz.ops, (sc.p - 1) * (sc.q - 1)), pz.n)

VARIABLES
  cmd,     \* the command that is running
  puzzle,  \* puzzle.json; its time is not in the file
  secret,  \* secret.json
  locked,  \* locked.json; its puzzle and sound are not in the file
  exam,    \* exam.pdf: how it came about
  runs,    \* runs of generate so far
  whole    \* the last of them was not killed

toolVars == <<cmd, puzzle, secret, locked, exam, runs, whole>>

Idle == [at |-> "idle"]
Unreadable == [none |-> TRUE]  \* absent, or cut short

(* cmd_bench: gen_prime is at some candidate.  It reads and writes no      *)
(* file, so it is only considered before everything else.                  *)
Benches ==
  UNION {{[at |-> "bench", n |-> n] : n \in Candidates(bits)} : bits \in BenchBits}

ToolInit ==
  /\ cmd \in {Idle} \cup Benches
  /\ puzzle = Unreadable /\ secret = Unreadable /\ locked = Unreadable
  /\ exam = Unreadable
  /\ runs = 0 /\ whole = FALSE

(* generate: p, q, g = h^2 and the calibration, before anything is         *)
(* written.  Nothing compares p with q.                                    *)
Generate ==
  /\ cmd = Idle /\ runs < MaxGenerates
  /\ \E p, q \in GenPrime(PrimeBits), time \in Times, rate \in Rates :
       \E h \in Bases \cap (2 .. p * q - 3) :
         cmd' = [at |-> "puzzle",
                 puzzle |-> [n |-> p * q, g |-> (h * h) % (p * q),
                             ops |-> TOps(time, rate), rate |-> rate, time |-> time],
                 secret |-> [p |-> p, q |-> q]]
  /\ runs' = runs + 1 /\ whole' = FALSE
  /\ UNCHANGED <<puzzle, secret, locked, exam>>

WritePuzzle ==
  /\ cmd.at = "puzzle"
  /\ puzzle' = cmd.puzzle
  /\ cmd' = [cmd EXCEPT !.at = "secret"]
  /\ UNCHANGED <<secret, locked, exam, runs, whole>>

(* Mutant: a secret.json that is there already is kept.                    *)
WriteSecretOnce ==
  /\ cmd.at = "secret"
  /\ secret' = IF secret = Unreadable THEN cmd.secret ELSE secret
  /\ whole' = TRUE
  /\ cmd' = Idle
  /\ UNCHANGED <<puzzle, locked, exam, runs>>

WriteSecret ==
  /\ cmd.at = "secret"
  /\ secret' = cmd.secret
  /\ whole' = TRUE
  /\ cmd' = Idle
  /\ UNCHANGED <<puzzle, locked, exam, runs>>

(* cmd_lock.  It uses p and q without asking whether they divide N.        *)
IsPrime(n) == n > 1 /\ \A d \in 2 .. n - 1 : n % d # 0
Factors(sc, n) == sc.p * sc.q = n /\ sc.p # sc.q /\ IsPrime(sc.p) /\ IsPrime(sc.q)

Lock ==
  /\ cmd = Idle /\ puzzle # Unreadable /\ secret # Unreadable
  /\ \/ \E aad \in Aads :
          locked' = [key |-> AdminKey(puzzle, secret), aad |-> aad,
                     puzzle |-> puzzle, sound |-> Factors(secret, puzzle.n)]
     \/ locked' = Unreadable
  /\ UNCHANGED <<cmd, puzzle, secret, exam, runs, whole>>

(* cmd_solve reads both files, squares ops times and tries the key.        *)
StartSolve ==
  /\ cmd = Idle /\ puzzle # Unreadable /\ locked # Unreadable
  /\ \E aad \in Aads :
       cmd' = [at |-> "solve", puzzle |-> puzzle, aad |-> aad, x |-> puzzle.g, i |-> 0]
  /\ UNCHANGED <<puzzle, secret, locked, exam, runs, whole>>

Squares ==
  /\ cmd.at = "solve" /\ cmd.i < cmd.puzzle.ops
  /\ cmd' = [cmd EXCEPT !.x = (@ * @) % cmd.puzzle.n, !.i = @ + 1]
  /\ UNCHANGED <<puzzle, secret, locked, exam, runs, whole>>

(* decrypt: the GCM tag fits one key and one AAD.                          *)
Decrypts == cmd.x = locked.key /\ cmd.aad = locked.aad

Solved ==
  /\ cmd.at = "solve" /\ cmd.i = cmd.puzzle.ops
  /\ exam' = IF Decrypts
             THEN [time |-> cmd.puzzle.time, rate |-> cmd.puzzle.rate, squarings |-> cmd.i]
             ELSE exam
  /\ cmd' = Idle
  /\ UNCHANGED <<puzzle, secret, locked, runs, whole>>

(* A command is killed, or bench ends; a file being written is cut short.  *)
Kill ==
  /\ cmd # Idle /\ cmd' = Idle
  /\ \/ UNCHANGED <<puzzle, secret>>
     \/ cmd.at = "puzzle" /\ puzzle' = Unreadable /\ UNCHANGED secret
     \/ cmd.at = "secret" /\ secret' = Unreadable /\ UNCHANGED puzzle
  /\ UNCHANGED <<locked, exam, runs, whole>>

ToolNext ==
  \/ Generate \/ WritePuzzle \/ WriteSecret \/ Lock
  \/ StartSolve \/ Squares \/ Solved \/ Kill

ToolSpec == ToolInit /\ [][ToolNext]_toolVars
-----------------------------------------------------------------------------
(* The primality test never turns a prime away, whatever witnesses are     *)
(* drawn (puzzle.rs:91).                                                   *)
PrimesPass ==
  cmd.at = "bench" /\ IsPrime(cmd.n) => \A a \in Witnesses(cmd.n) : Passes(cmd.n, a)

(* A composite, Carmichael numbers included, fools at most a quarter of    *)
(* the witnesses - so 25 rounds let one in 4^25 through (puzzle.rs:62).    *)
CompositesShow ==
  cmd.at = "bench" /\ ~ IsPrime(cmd.n) =>
    4 * Cardinality({a \in Witnesses(cmd.n) : Passes(cmd.n, a)})
      <= Cardinality(Witnesses(cmd.n))

(* What the administrator computes by the shortcut is what a center gets   *)
(* by squaring, for every pair of different primes of one size, every      *)
(* base, also one that p or q divides, and every number of squarings, with *)
(* files regenerated and commands killed in between.                       *)
TrapdoorMatchesSolver ==
  cmd.at = "solve" /\ cmd.i = cmd.puzzle.ops
    /\ locked.puzzle = cmd.puzzle /\ locked.sound
    => cmd.x = locked.key

(* An exam comes out only after as many squarings as the measured rate     *)
(* makes in the time asked for, or as t_ops can count (puzzle.rs:197).     *)
LeadIsSpent ==
  exam # Unreadable =>
    exam.squarings >= exam.time * exam.rate \/ exam.squarings = MaxOps

(* A generate that ends leaves a pair of files that belong together,       *)
(* whatever an interrupted one before it left.                             *)
GenerateRepairs ==
  whole =>
    /\ puzzle # Unreadable /\ secret # Unreadable
    /\ secret.p * secret.q = puzzle.n
==============================================================================
