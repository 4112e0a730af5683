-------------------------------- MODULE Robust --------------------------------
(* Medians and dispersion of a few prices (scanner/mathx.py). A median is     *)
(* kept doubled, so that an even count stays whole.                           *)
EXTENDS Integers, FiniteSets, Sequences

Kth(f, k) == CHOOSE x \in {f[i] : i \in DOMAIN f} :
    /\ Cardinality({i \in DOMAIN f : f[i] < x}) < k
    /\ Cardinality({i \in DOMAIN f : f[i] <= x}) >= k
TwiceMedian(f) ==
    LET n == Cardinality(DOMAIN f)
    IN  Kth(f, (n + 1) \div 2) + Kth(f, n \div 2 + 1)

Gap(a, b) == IF a < b THEN b - a ELSE a - b

(* Four times the median distance from the median.                            *)
FourMad(w) == TwiceMedian([i \in DOMAIN w |-> Gap(2 * w[i], TwiceMedian(w))])

(* is_mad_outlier: with no dispersion, any other value is one.                *)
IsMadOutlier(m, w, k) ==
    /\ Len(w) >= 3
    /\ IF FourMad(w) = 0 THEN 2 * m # TwiceMedian(w)
       ELSE 2 * Gap(2 * m, TwiceMedian(w)) > k * FourMad(w)
===============================================================================
