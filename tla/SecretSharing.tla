--------------------------- MODULE SecretSharing ----------------------------
(***************************************************************************)
(* Shamir secret sharing over GF(256) (pkg/recovery/recovery.go): one byte *)
(* of a secret, split with chosen coefficients and combined from any set   *)
(* of its shares.  The bytes of a secret are shared independently.         *)
(***************************************************************************)
EXTENDS Naturals, FiniteSets, Sequences, Bitwise

CONSTANTS
    SecretByte, Coefficient,  \* bound: the bytes tried
    MaxShares,                \* bound: shares of a split
    None

VARIABLES
    splitOf,   \* the input of Split and its shares: index -> value
    combined   \* the indices given to Combine and its result

vars == <<splitOf, combined>>

Byte == 0..255

-----------------------------------------------------------------------------
(* Arithmetic of GF(256) *)

RECURSIVE gfMulLoop(_, _, _)
gfMulLoop(a, b, i) ==
    IF i = 0 THEN 0
    ELSE (IF b % 2 = 1 THEN a ELSE 0)
         ^^ gfMulLoop(IF a >= 128 THEN ((2 * a) % 256) ^^ 27 ELSE 2 * a, b \div 2, i - 1)

gfMul(a, b) == gfMulLoop(a, b, 8)

RECURSIVE gfPolyEval(_, _)
gfPolyEval(coeffs, x) ==
    IF coeffs = <<>> THEN 0
    ELSE gfMul(gfPolyEval(Tail(coeffs), x), x) ^^ Head(coeffs)

RECURSIVE gfInvLoop(_, _, _)
gfInvLoop(a, result, exp) ==
    IF exp = 0 THEN result
    ELSE gfInvLoop(gfMul(a, a), IF exp % 2 = 1 THEN gfMul(result, a) ELSE result, exp \div 2)

\* Fault variant: the exponent is one too small.
gfInvShort(a) == IF a = 0 THEN 0 ELSE gfInvLoop(a, 1, 253)

gfInv(a) == IF a = 0 THEN 0 ELSE gfInvLoop(a, 1, 254)

RECURSIVE gfProduct(_, _)
gfProduct(f, S) ==
    IF S = {} THEN 1
    ELSE LET j == CHOOSE x \in S : TRUE IN gfMul(f[j], gfProduct(f, S \ {j}))

RECURSIVE gfLagrange(_, _)
\* The terms of the indices S, the shares being those of DOMAIN ys.
gfLagrange(ys, S) ==
    IF S = {} THEN 0
    ELSE LET i == CHOOSE x \in S : TRUE
             others == DOMAIN ys \ {i}
             num == gfProduct([j \in others |-> j], others)
             den == gfProduct([j \in others |-> i ^^ j], others)
         IN gfMul(ys[i], gfMul(num, gfInv(den))) ^^ gfLagrange(ys, S \ {i})

-----------------------------------------------------------------------------

Init == splitOf = None /\ combined = None

Split(coeffs, n) ==
    /\ splitOf = None
    /\ Len(coeffs) >= 2 /\ Len(coeffs) <= n
    /\ splitOf' = [secret |-> coeffs[1], threshold |-> Len(coeffs),
                   shares |-> [x \in 1..n |-> gfPolyEval(coeffs, x)]]
    /\ UNCHANGED combined

Combine(xs) ==
    /\ splitOf # None /\ combined = None
    /\ Cardinality(xs) >= 2
    /\ combined' = [from |-> xs, value |-> gfLagrange([x \in xs |-> splitOf.shares[x]], xs)]
    /\ UNCHANGED splitOf

\* Another secret.
Forget ==
    /\ combined # None
    /\ splitOf' = None /\ combined' = None

Next ==
    \/ \E s \in SecretByte, c \in Coefficient, d \in Coefficient, n \in 2..MaxShares :
          Split(<<s, c>>, n) \/ Split(<<s, c, d>>, n)
    \/ splitOf # None /\ \E xs \in SUBSET DOMAIN splitOf.shares : Combine(xs)
    \/ Forget

Spec == Init /\ [][Next]_vars

-----------------------------------------------------------------------------
(* Properties *)

\* Every variable has its type.
TypeOK ==
    /\ splitOf = None \/ (/\ splitOf.secret \in Byte
                          /\ \A x \in DOMAIN splitOf.shares : splitOf.shares[x] \in Byte)
    /\ combined = None \/ (combined.from \subseteq 1..MaxShares /\ combined.value \in Byte)

\* "any threshold are needed to reconstruct it": Combine returns the secret
\* from every set of at least threshold shares, zero bytes and zero
\* coefficients included.
QuorumReconstructs ==
    (combined # None /\ Cardinality(combined.from) >= splitOf.threshold)
    => combined.value = splitOf.secret

=============================================================================
