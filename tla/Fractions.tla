----------------------------- MODULE Fractions -----------------------------
(***************************************************************************)
(* Fractions <<numerator, denominator>> in lowest terms, the denominator   *)
(* positive: the exact values of what the code computes in floating point. *)
(***************************************************************************)
EXTENDS Integers, SequencesExt

Gcd[a \in Nat, b \in Nat] == IF b = 0 THEN a ELSE Gcd[b, a % b]
Unsigned(n) == IF n < 0 THEN -n ELSE n
Fraction(n, d) ==
    LET g == Gcd[Unsigned(n), Unsigned(d)]
        sign == IF d < 0 THEN -1 ELSE 1
    IN  <<sign * (n \div g), Unsigned(d) \div g>>
Nothing == <<0, 1>>
Unit == <<1, 1>>
Plus(p, q) == Fraction(p[1] * q[2] + q[1] * p[2], p[2] * q[2])
Minus(p, q) == Fraction(p[1] * q[2] - q[1] * p[2], p[2] * q[2])
Product(p, q) == Fraction(p[1] * q[1], p[2] * q[2])
Quotient(p, q) == Fraction(p[1] * q[2], p[2] * q[1])
Less(p, q) == p[1] * q[2] < q[1] * p[2]
AtMost(p, q) == ~Less(q, p)
Lower(p, q) == IF Less(p, q) THEN p ELSE q
Total(weights) == FoldLeft(Plus, Nothing, weights)
=============================================================================
