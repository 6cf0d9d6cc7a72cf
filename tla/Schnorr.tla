------------------------------ MODULE Schnorr ------------------------------
(***************************************************************************)
(* nostr/_schnorr_fallback.py: the signatures a node makes and checks when *)
(* libsecp256k1 is not installed, on any curve y^2 = x^3 + 7 over a prime  *)
(* field of p = 3 (mod 4) elements, with a base point of prime order.      *)
(*                                                                         *)
(* What the hash functions return, the nonce k0 and the challenge e, is a  *)
(* parameter: any value of their range.  The point at infinity is <<>>.    *)
(***************************************************************************)
EXTENDS Integers

CONSTANTS
    FieldP, OrderN,     \* _P and _N
    BaseG,              \* _G
    Bits                \* the bits of a scalar; 256 in the code

Infinity == <<>>

power(a, k) == LET pow[i \in 0..k] == IF i = 0 THEN 1 ELSE (pow[i - 1] * a) % FieldP
               IN pow[k]

Inverse_(a) == power(a % FieldP, FieldP - 2)

Slope(p1, p2) ==
    IF p1 = p2 THEN 3 * p1[1] * p1[1] * Inverse_(2 * p1[2])
               ELSE (p2[2] - p1[2]) * Inverse_(p2[1] - p1[1])

point_add(p1, p2) ==
    CASE p1 = Infinity -> p2
      [] p2 = Infinity -> p1
      [] p1 # Infinity /\ p2 # Infinity ->
           IF p1[1] = p2[1] /\ p1[2] # p2[2] THEN Infinity
           ELSE LET lam == Slope(p1, p2) % FieldP
                    x3 == (lam * lam - p1[1] - p2[1]) % FieldP
                IN <<x3, (lam * (p1[1] - x3) - p1[2]) % FieldP>>

(* After i rounds of double-and-add: what is summed, and 2^i times pt. *)
point_mul(pt, k) ==
    LET round[i \in 0..Bits] ==
            IF i = 0 THEN [sum |-> Infinity, pt |-> pt]
            ELSE LET last == round[i - 1]
                 IN [sum |-> IF (k \div 2^(i - 1)) % 2 = 1
                             THEN point_add(last.sum, last.pt) ELSE last.sum,
                     pt |-> point_add(last.pt, last.pt)]
    IN round[Bits].sum

has_even_y(pt) == pt[2] % 2 = 0

(* Mutant: the root is returned as it comes. *)
lift_any(x) ==
    LET c == (x * x * x + 7) % FieldP
        y == power(c, (FieldP + 1) \div 4)
    IN IF x >= FieldP \/ (y * y) % FieldP # c THEN Infinity ELSE <<x, y>>

lift_x(x) ==
    LET c == (x * x * x + 7) % FieldP
        y == power(c, (FieldP + 1) \div 4)
    IN IF x >= FieldP \/ (y * y) % FieldP # c THEN Infinity
       ELSE <<x, IF y % 2 = 0 THEN y ELSE FieldP - y>>

(* For any other, ValueError. *)
in_range(d0) == d0 \in 1..(OrderN - 1)

pubkey_from_seckey(d0) == point_mul(BaseG, d0)[1]

(* The scalar whose multiple of the base point has an even y. *)
Even(k) == IF has_even_y(point_mul(BaseG, k)) THEN k ELSE OrderN - k

schnorr_sign(d0, k0, e) == [r |-> point_mul(BaseG, k0)[1], s |-> (Even(k0) + e * Even(d0)) % OrderN]

schnorr_verify(pubkey, sig, e) ==
    LET pt == lift_x(pubkey)
        R == point_add(point_mul(BaseG, sig.s), point_mul(pt, OrderN - e))
    IN /\ pt # Infinity
       /\ sig.r < FieldP /\ sig.s < OrderN
       /\ R # Infinity /\ has_even_y(R) /\ R[1] = sig.r

(* _verify_keypair (__main__.py): a random message is signed, and the      *)
(* signature checked; the answers it can give for a key.                   *)
verify_keypair(d0) ==
    {schnorr_verify(pubkey_from_seckey(d0), schnorr_sign(d0, k0, e), e) :
        k0 \in 1..(OrderN - 1), e \in 0..(OrderN - 1)}
=============================================================================
