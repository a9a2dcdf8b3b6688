------------------------------- MODULE Decimals -------------------------------
(***************************************************************************)
(* Decimal results the code quantizes, as integers counted in quanta.      *)
(***************************************************************************)
EXTENDS Integers, Sequences, FiniteSets

\* Decimal division quantized with ROUND_HALF_EVEN: n/d in quanta, d > 0.
HalfEven(n, d) == LET q == n \div d  r == n % d
                  IN IF 2 * r < d \/ (2 * r = d /\ q % 2 = 0) THEN q ELSE q + 1

\* Twice the median of the values of f, so that the mean of the two middle ones stays an integer.
TwiceMedian(f) ==
    LET below(x) == Cardinality({i \in DOMAIN f : f[i] < x})
        upto(x) == Cardinality({i \in DOMAIN f : f[i] <= x})
        at(k) == CHOOSE x \in {f[i] : i \in DOMAIN f} : below(x) < k /\ k <= upto(x)
        n == Cardinality(DOMAIN f)
    IN IF n % 2 = 1 THEN 2 * at((n + 1) \div 2) ELSE at(n \div 2) + at(n \div 2 + 1)
===============================================================================
