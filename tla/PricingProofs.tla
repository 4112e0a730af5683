---------------------------- MODULE PricingProofs ----------------------------
(***************************************************************************)
(* The arithmetic of the pipeline, for any books, pools, fees and sizes.   *)
(* Every amount is a fraction in lowest terms; the module proves first     *)
(* that they compute exactly, and from that what the pricing promises: a   *)
(* fill is never cheaper than the best price, never dearer in part than as *)
(* a whole, and within the depth it was sized by; a round trip's net       *)
(* profit is no more than its cash; a more certain signal ranks higher.    *)
(*                                                                         *)
(* A sum of several fractions is compared over a common denominator        *)
(* (Over, Num, Linear): there it is a sum of integers, which the provers   *)
(* add up by themselves.                                                   *)
(***************************************************************************)
EXTENDS Pricing, Ranking, SequenceTheorems, FiniteSetTheorems, FunctionTheorems,
        WellFoundedInduction, NaturalsInduction, TLAPS

-----------------------------------------------------------------------------
(* The fractions. gcd is the greatest common divisor, whatever else it is   *)
(* defined by; what is reduced is in lowest terms, so equal fractions are   *)
(* one value; sums, products and quotients compute what they are named for, *)
(* and the comparison by continued fractions is that of cross products.     *)

Less == {ss \in Nat \X Nat : ss[1] < ss[2]}

LEMMA LeastNumber ==
    ASSUME NEW T \in SUBSET Nat, T # {}
    PROVE  \E m \in T : \A k \in T : m <= k
<1>1. IsWellFoundedOn(Less, Nat) BY NatLessThanWellFounded DEF OpToRel, Less
<1>2. PICK m \in T : \A k \in T : ~(<<k, m>> \in Less)
  BY <1>1, WFMin, Zenon
<1>3. \A k \in T : <<k, m>> \in Nat \X Nat OBVIOUS
<1>4. \A k \in T : ~(k < m) BY <1>2, <1>3 DEF Less
<1> QED BY <1>4

Positive == Nat \ {0}

LEMMA Division ==
  ASSUME NEW n \in Int, NEW d \in Positive
  PROVE  \E q \in Int, r \in Nat :
            n \div d = q /\ n % d = r /\ r < d /\ n = q * d + r
<1>1. d \in Int /\ d > 0  BY DEF Positive
<1>2. n \div d \in Int /\ n % d \in Nat /\ n % d < d  BY <1>1
<1>3. PICK q \in Int : n \div d = q  BY <1>2
<1>4. PICK r \in Nat : n % d = r  BY <1>2
<1>5. n = q * d + r  BY <1>1, <1>3, <1>4
<1>6. QED  BY <1>2, <1>3, <1>4, <1>5

LEMMA DivisionIsUnique ==
  ASSUME NEW n \in Int, NEW d \in Positive, NEW q \in Int, NEW r \in Int,
         n = q * d + r, 0 <= r, r < d
  PROVE  n \div d = q /\ n % d = r
<1>1. d \in Int /\ d > 0  BY DEF Positive
<1>2. q * d <= n /\ n < (q + 1) * d  BY <1>1
<1>3. n \div d = q  BY <1>1, <1>2
<1>4. PICK s \in Nat : n % d = s /\ n = q * d + s  BY <1>3, Division
<1>5. QED  BY <1>1, <1>3, <1>4

LEMMA ExactDivision ==
  ASSUME NEW k \in Int, NEW d \in Positive
  PROVE  (k * d) \div d = k
<1>1. d \in Int /\ d > 0  BY DEF Positive
<1>2. k * d \in Int /\ k * d = k * d + 0  BY <1>1
<1>3. QED  BY <1>1, <1>2, DivisionIsUnique

(* What divides both numbers and is a combination of them: only their       *)
(* greatest common divisor.                                                 *)
Divides(g, n) == \E k \in Int : n = k * g
Combines(g, a, b) == \E x, y \in Int : g = x * a + y * b
Common(a, b) == {g \in Nat : Divides(g, a) /\ Divides(g, b) /\ Combines(g, a, b)}

LEMMA DividesSum ==
  ASSUME NEW g \in Int, NEW a \in Int, NEW b \in Int, NEW q \in Int,
         Divides(g, a), Divides(g, b)
  PROVE  Divides(g, q * a + b)
<1>1. PICK k \in Int : a = k * g  BY DEF Divides
<1>2. PICK l \in Int : b = l * g  BY DEF Divides
<1>3. q * a + b = (q * k + l) * g  BY <1>1, <1>2
<1>4. q * k + l \in Int  OBVIOUS
<1>5. QED  BY <1>3, <1>4 DEF Divides

LEMMA CommonTurns ==
  ASSUME NEW a \in Nat, NEW b \in Positive
  PROVE  Common(b, a % b) = Common(a, b)
<1>1. PICK q \in Int, r \in Nat : a % b = r /\ a = q * b + r  BY Division
<1>2. b \in Int  BY DEF Positive
<1>3. ASSUME NEW g \in Nat
      PROVE  Divides(g, b) => (Divides(g, r) <=> Divides(g, a))
  <2>0. g \in Int /\ r \in Int /\ a \in Int  BY <1>1
  <2>1. Divides(g, b) /\ Divides(g, r) => Divides(g, a)
    <3>1. Divides(g, b) /\ Divides(g, r) => Divides(g, q * b + r)
      BY <1>1, <1>2, <2>0, DividesSum, Zenon
    <3>2. QED  BY <1>1, <3>1
  <2>2. (-q) \in Int /\ r = (-q) * b + a  BY <1>1, <1>2
  <2>3. Divides(g, b) /\ Divides(g, a) => Divides(g, r)
    <3> SUFFICES ASSUME Divides(g, b), Divides(g, a) PROVE Divides(g, r)
      OBVIOUS
    <3>0. Divides(g, b) /\ Divides(g, a)  OBVIOUS
    <3>1. Divides(g, (-q) * b + a)  BY <1>2, <2>0, <2>2, <3>0, DividesSum, Zenon
    <3>2. QED  BY <2>2, <3>1
  <2>4. QED  BY <2>1, <2>3
<1>4. ASSUME NEW g \in Nat
      PROVE  Combines(g, b, r) <=> Combines(g, a, b)
  <2>1. ASSUME NEW x \in Int, NEW y \in Int, g = x * b + y * r
        PROVE  Combines(g, a, b)
    <3>1. y * a = y * (q * b) + y * r  BY <1>1, <1>2
    <3>2. y * (q * b) = (y * q) * b  BY <1>1, <1>2
    <3>3. (x - y * q) * b = x * b - (y * q) * b  BY <1>1, <1>2
    <3>4. g = y * a + (x - y * q) * b  BY <1>1, <1>2, <2>1, <3>1, <3>2, <3>3
    <3>5. x - y * q \in Int  BY <1>1
    <3>6. QED  BY <3>4, <3>5 DEF Combines
  <2>2. ASSUME NEW x \in Int, NEW y \in Int, g = x * a + y * b
        PROVE  Combines(g, b, r)
    <3>1. x * a = x * (q * b) + x * r  BY <1>1, <1>2
    <3>2. x * (q * b) = (x * q) * b  BY <1>1, <1>2
    <3>3. (x * q + y) * b = (x * q) * b + y * b  BY <1>1, <1>2
    <3>4. g = (x * q + y) * b + x * r  BY <1>1, <1>2, <2>2, <3>1, <3>2, <3>3
    <3>5. x * q + y \in Int  BY <1>1
    <3>6. QED  BY <3>4, <3>5 DEF Combines
  <2>3. QED  BY <2>1, <2>2 DEF Combines
<1>5. \A g : g \in Common(b, r) <=> g \in Common(a, b)
  BY <1>3, <1>4 DEF Common
<1>6. Common(b, r) = Common(a, b)  BY <1>5
<1>7. QED  BY <1>1, <1>6

LEMMA CommonOfZero == ASSUME NEW a \in Nat PROVE Common(a, 0) = {a}
<1>1. a \in Common(a, 0)
  <2>1. a = 1 * a /\ 0 = 0 * a /\ a = 1 * a + 0 * 0  OBVIOUS
  <2>2. Divides(a, a) /\ Divides(a, 0)  BY <2>1 DEF Divides
  <2>3. Combines(a, a, 0)  BY <2>1 DEF Combines
  <2>4. QED  BY <2>2, <2>3 DEF Common
<1>2. ASSUME NEW g \in Common(a, 0) PROVE g = a
  <2>1. g \in Nat  BY DEF Common
  <2>2. PICK k \in Int : a = k * g  BY DEF Common, Divides
  <2>3. PICK x \in Int, y \in Int : g = x * a + y * 0  BY DEF Common, Combines
  <2>4. g = x * a  BY <2>3
  <2>5. CASE a = 0  BY <2>4, <2>5
  <2>6. CASE a > 0
    <3>1. g > 0
      <4> SUFFICES ASSUME g = 0 PROVE FALSE  BY <2>1
      <4>1. QED  BY <2>2, <2>6
    <3>2. k > 0
      <4> SUFFICES ASSUME k <= 0 PROVE FALSE  OBVIOUS
      <4>1. k * g <= 0  BY <3>1, <2>1
      <4>2. QED  BY <4>1, <2>2, <2>6
    <3>3. x > 0
      <4> SUFFICES ASSUME x <= 0 PROVE FALSE  OBVIOUS
      <4>1. x * a <= 0  BY <2>6
      <4>2. QED  BY <4>1, <2>4, <3>1, <2>1
    <3>4. a <= g
      <4>1. x * a >= 1 * a  BY <3>3, <2>6
      <4>2. QED  BY <4>1, <2>4, <2>1
    <3>5. g <= a
      <4>1. k * g >= 1 * g  BY <3>2, <3>1, <2>1
      <4>2. QED  BY <4>1, <2>2, <2>1
    <3>6. QED  BY <3>4, <3>5, <2>1
  <2>7. QED  BY <2>5, <2>6
<1>3. QED  BY <1>1, <1>2

(* The recursion of gcd has a solution, so gcd is one.                      *)
LEMMA GcdTurns ==
  gcd = [p \in Nat \X Nat |-> IF p[2] = 0 THEN p[1] ELSE gcd[<<p[2], p[1] % p[2]>>]]
<1> DEFINE f == [p \in Nat \X Nat |-> CHOOSE g \in Nat : g \in Common(p[1], p[2])]
<1>1. ASSUME NEW p \in Nat \X Nat
      PROVE  f[p] = IF p[2] = 0 THEN p[1] ELSE f[<<p[2], p[1] % p[2]>>]
  <2>1. CASE p[2] = 0
    <3>1. Common(p[1], p[2]) = {p[1]} /\ p[1] \in Nat  BY <2>1, CommonOfZero
    <3>2. QED  BY <2>1, <3>1
  <2>2. CASE p[2] # 0
    <3>1. p[1] \in Nat /\ p[2] \in Positive  BY <2>2 DEF Positive
    <3>2. p[1] % p[2] \in Nat  BY <3>1, Division
    <3>3. Common(p[2], p[1] % p[2]) = Common(p[1], p[2])  BY <3>1, CommonTurns
    <3>4. <<p[2], p[1] % p[2]>> \in Nat \X Nat  BY <3>1, <3>2 DEF Positive
    <3>5. f[<<p[2], p[1] % p[2]>>] = CHOOSE g \in Nat : g \in Common(p[2], p[1] % p[2])
      BY <3>4
    <3>6. QED  BY <2>2, <3>3, <3>5
  <2>3. QED  BY <2>1, <2>2
<1>2. f = [p \in Nat \X Nat |-> f[p]]  OBVIOUS
<1> HIDE DEF f
<1>3. f = [p \in Nat \X Nat |-> IF p[2] = 0 THEN p[1] ELSE f[<<p[2], p[1] % p[2]>>]]
  BY <1>1, <1>2
<1>4. QED  BY <1>3 DEF gcd

LEMMA GcdIsCommon ==
  ASSUME NEW a \in Nat, NEW b \in Nat
  PROVE  Gcd(a, b) \in Common(a, b)
<1> DEFINE Settled(n) == \A m \in Nat : gcd[<<m, n>>] \in Common(m, n)
           T == {n \in Nat : ~Settled(n)}
<1>1. ASSUME T # {} PROVE FALSE
  <2>1. T \in SUBSET Nat  OBVIOUS
  <2> HIDE DEF T
  <2>2. PICK n \in T : \A k \in T : n <= k  BY <1>1, <2>1, LeastNumber
  <2>3. n \in Nat  BY <2>1
  <2>4. PICK m \in Nat : gcd[<<m, n>>] \notin Common(m, n)  BY <2>2 DEF T
  <2>5. gcd[<<m, n>>] = IF n = 0 THEN m ELSE gcd[<<n, m % n>>]
    <3>1. <<m, n>> \in Nat \X Nat  BY <2>3
    <3>2. QED  BY <3>1, GcdTurns
  <2>6. n # 0
    <3> SUFFICES ASSUME n = 0 PROVE FALSE  OBVIOUS
    <3>1. gcd[<<m, n>>] = m  BY <2>5
    <3>2. Common(m, n) = {m}  BY CommonOfZero
    <3>3. QED  BY <2>4, <3>1, <3>2
  <2>7. n \in Positive  BY <2>3, <2>6 DEF Positive
  <2>8. m % n \in Nat /\ m % n < n  BY <2>7, Division
  <2>9. m % n \notin T  BY <2>2, <2>3, <2>8
  <2>10. gcd[<<n, m % n>>] \in Common(n, m % n)  BY <2>3, <2>8, <2>9 DEF T
  <2>11. QED  BY <2>4, <2>5, <2>6, <2>7, <2>10, CommonTurns
<1>2. Settled(b)  BY <1>1
<1>3. QED  BY <1>2 DEF Gcd

------------------------------------------------------------------------------
(* Lowest terms: two numbers without a common divisor combine to one.       *)
Coprime(n, d) == Combines(1, n, d)

LEMMA CoprimeSwaps ==
  ASSUME NEW n \in Int, NEW d \in Int, Coprime(n, d)
  PROVE  Coprime(d, n)
<1>1. PICK x \in Int, y \in Int : 1 = x * n + y * d  BY DEF Coprime, Combines
<1>2. 1 = y * d + x * n  BY <1>1
<1>3. QED  BY <1>2 DEF Coprime, Combines

LEMMA CoprimeToFactor ==
  ASSUME NEW n \in Int, NEW k \in Int, NEW d \in Int, Coprime(n * k, d)
  PROVE  Coprime(n, d)
<1>1. PICK x \in Int, y \in Int : 1 = x * (n * k) + y * d
  BY DEF Coprime, Combines
<1>2. 1 = (x * k) * n + y * d /\ x * k \in Int  BY <1>1
<1>3. QED  BY <1>2 DEF Coprime, Combines

LEMMA CoprimeToProduct ==
  ASSUME NEW n \in Int, NEW c \in Int, NEW d \in Int, Coprime(n, c), Coprime(n, d)
  PROVE  Coprime(n, c * d)
<1>1. PICK x \in Int, y \in Int : 1 = x * n + y * c  BY DEF Coprime, Combines
<1>2. PICK u \in Int, v \in Int : 1 = u * n + v * d  BY DEF Coprime, Combines
<1>3. 1 = (x * n + y * c) * (u * n + v * d)  BY <1>1, <1>2
<1>4. 1 = ((x * n) * u + x * (v * d) + (y * c) * u) * n + (y * v) * (c * d)
  BY <1>3
<1>5. (x * n) * u + x * (v * d) + (y * c) * u \in Int /\ y * v \in Int
  OBVIOUS
<1>6. QED  BY <1>4, <1>5 DEF Coprime, Combines

(* Dividing both numbers by their greatest common divisor leaves none.      *)
LEMMA Reduction ==
  ASSUME NEW n \in Int, NEW d \in Positive
  PROVE  \E g \in Positive, m \in Int, e \in Positive :
            /\ Gcd(Size(n), d) = g
            /\ n = m * g /\ d = e * g
            /\ n \div g = m /\ d \div g = e
            /\ Coprime(m, e)
<1>0. Size(n) \in Nat /\ d \in Nat /\ d > 0  BY DEF Size, Positive
<1>1. PICK g \in Nat : g = Gcd(Size(n), d) /\ g \in Common(Size(n), d)
  BY <1>0, GcdIsCommon DEF Common
<1>2. PICK k \in Int : Size(n) = k * g  BY <1>1 DEF Common, Divides
<1>3. PICK e \in Int : d = e * g  BY <1>1 DEF Common, Divides
<1>4. PICK x \in Int, y \in Int : g = x * Size(n) + y * d
  BY <1>1 DEF Common, Combines
<1>5. g > 0
  <2> SUFFICES ASSUME g = 0 PROVE FALSE  BY <1>1
  <2>1. QED  BY <1>0, <1>3
<1>6. e > 0
  <2> SUFFICES ASSUME e <= 0 PROVE FALSE  OBVIOUS
  <2>1. e * g <= 0  BY <1>5
  <2>2. QED  BY <1>0, <1>3, <2>1
<1>7. PICK m \in Int, z \in Int : n = m * g /\ g = z * n + y * d
  <2>1. CASE n < 0
    <3>1. Size(n) = -n  BY <2>1 DEF Size
    <3>2. n = (-k) * g /\ g = (-x) * n + y * d  BY <1>2, <1>4, <3>1
    <3>3. QED  BY <3>2
  <2>2. CASE ~(n < 0)
    <3>1. Size(n) = n  BY <2>2 DEF Size
    <3>2. QED  BY <1>2, <1>4, <3>1
  <2>3. QED  BY <2>1, <2>2
<1>8. g \in Positive /\ e \in Positive  BY <1>5, <1>6 DEF Positive
<1>9. n \div g = m /\ d \div g = e  BY <1>3, <1>7, <1>8, ExactDivision
<1>10. 1 = z * m + y * e
  <2>1. z * n = z * (m * g) /\ y * d = y * (e * g)  BY <1>3, <1>7
  <2>2. z * (m * g) + y * (e * g) = (z * m + y * e) * g  OBVIOUS
  <2>3. 1 * g = (z * m + y * e) * g  BY <1>7, <2>1, <2>2
  <2>4. z * m + y * e \in Int  OBVIOUS
  <2>5. QED  BY <1>5, <2>3, <2>4
<1>11. Coprime(m, e)  BY <1>10 DEF Coprime, Combines
<1>12. QED  BY <1>1, <1>3, <1>7, <1>8, <1>9, <1>11

LEMMA LowestTerms ==
  ASSUME NEW n \in Int, NEW d \in Positive
  PROVE  Gcd(Size(n), d) = 1 <=> Coprime(n, d)
<1>1. PICK g \in Positive, m \in Int, e \in Positive :
          Gcd(Size(n), d) = g /\ n = m * g /\ d = e * g /\ Coprime(m, e)
  BY Reduction
<1>2. ASSUME g = 1 PROVE Coprime(n, d)
  <2>1. n = m /\ d = e  BY <1>1, <1>2 DEF Positive
  <2>2. QED  BY <1>1, <2>1
<1>3. ASSUME Coprime(n, d) PROVE g = 1
  <2>1. PICK x \in Int, y \in Int : 1 = x * n + y * d
    BY <1>3 DEF Coprime, Combines
  <2>2. x * (m * g) + y * (e * g) = (x * m + y * e) * g  BY DEF Positive
  <2>3. 1 = (x * m + y * e) * g  BY <1>1, <2>1, <2>2
  <2>4. PICK k \in Int : k = x * m + y * e  BY DEF Positive
  <2>5. 1 = k * g /\ g \in Int /\ g >= 1  BY <2>3, <2>4 DEF Positive
  <2>6. k >= 1
    <3> SUFFICES ASSUME k <= 0 PROVE FALSE  OBVIOUS
    <3>1. k * g <= 0  BY <2>5
    <3>2. QED  BY <2>5, <3>1
  <2>7. k * g >= g  BY <2>5, <2>6
  <2>8. QED  BY <2>5, <2>7
<1>4. QED  BY <1>1, <1>2, <1>3

LEMMA FractionParts ==
  ASSUME NEW a \in Fraction
  PROVE  /\ a = <<a[1], a[2]>>
         /\ a[1] \in Int /\ a[2] \in Positive /\ a[2] \in Int /\ a[2] > 0
         /\ Coprime(a[1], a[2])
<1>1. a \in Int \X Positive /\ Gcd(Size(a[1]), a[2]) = 1
  BY DEF Fraction, Ratio, Positive
<1>2. QED  BY <1>1, LowestTerms DEF Positive

LEMMA FractionMade ==
  ASSUME NEW n \in Int, NEW d \in Positive, Coprime(n, d)
  PROVE  <<n, d>> \in Fraction
  BY LowestTerms DEF Fraction, Ratio, Positive

LEMMA WholeIs ==
  ASSUME NEW n \in Int
  PROVE  Whole(n) \in Fraction /\ Whole(n)[1] = n /\ Whole(n)[2] = 1
<1>1. 1 = 0 * n + 1 * 1  OBVIOUS
<1>2. Coprime(n, 1)  BY <1>1 DEF Coprime, Combines
<1>3. QED  BY <1>2, FractionMade DEF Whole, Positive

LEMMA FracIs ==
  ASSUME NEW n \in Int, NEW d \in Positive
  PROVE  Frac(n, d) \in Fraction /\ Frac(n, d)[1] * d = n * Frac(n, d)[2]
<1>1. PICK g \in Positive, m \in Int, e \in Positive :
          /\ Gcd(Size(n), d) = g /\ n = m * g /\ d = e * g
          /\ n \div g = m /\ d \div g = e /\ Coprime(m, e)
  BY Reduction
<1>2. Frac(n, d) = <<m, e>>  BY <1>1 DEF Frac, By
<1>3. m * (e * g) = (m * g) * e  BY DEF Positive
<1>4. <<m, e>> \in Fraction  BY <1>1, FractionMade
<1>5. QED  BY <1>1, <1>2, <1>3, <1>4

(* Equal fractions are one value.                                           *)
LEMMA DividesByCoprime ==
  ASSUME NEW n \in Int, NEW d \in Positive, NEW m \in Int, NEW e \in Positive,
         Coprime(n, d), n * e = m * d
  PROVE  d <= e
<1>0. d \in Int /\ d > 0 /\ e \in Int /\ e > 0  BY DEF Positive
<1>1. PICK x \in Int, y \in Int : 1 = x * n + y * d  BY DEF Coprime, Combines
<1>2. (x * n + y * d) * e = x * (n * e) + (y * e) * d  BY <1>0
<1>3. x * (m * d) + (y * e) * d = (x * m + y * e) * d  BY <1>0
<1>4. PICK k \in Int : k = x * m + y * e  BY <1>0
<1>5. 1 * e = k * d  BY <1>0, <1>1, <1>2, <1>3, <1>4
<1>6. k >= 1
  <2> SUFFICES ASSUME k <= 0 PROVE FALSE  OBVIOUS
  <2>1. k * d <= 0  BY <1>0
  <2>2. QED  BY <1>0, <1>5, <2>1
<1>7. k * d >= d  BY <1>0, <1>6
<1>8. QED  BY <1>0, <1>5, <1>7

LEMMA SameValue ==
  ASSUME NEW a \in Fraction, NEW b \in Fraction, a[1] * b[2] = b[1] * a[2]
  PROVE  a = b
<1>1. /\ a = <<a[1], a[2]>> /\ a[1] \in Int /\ a[2] \in Positive /\ a[2] > 0 /\ a[2] \in Int
      /\ b = <<b[1], b[2]>> /\ b[1] \in Int /\ b[2] \in Positive /\ b[2] > 0 /\ b[2] \in Int
      /\ Coprime(a[1], a[2]) /\ Coprime(b[1], b[2])
  BY FractionParts
<1>2. a[2] <= b[2]  BY <1>1, DividesByCoprime
<1>3. b[2] <= a[2]  BY <1>1, DividesByCoprime
<1>4. a[2] = b[2]  BY <1>1, <1>2, <1>3
<1>5. a[1] * a[2] = b[1] * a[2]  BY <1>4
<1>6. a[1] = b[1]  BY <1>1, <1>5
<1>7. QED  BY <1>1, <1>4, <1>6

------------------------------------------------------------------------------
(* The operations compute what they are named for.                          *)
LEMMA SumValue ==
  ASSUME NEW a \in Fraction, NEW b \in Fraction
  PROVE  /\ a \oplus b \in Fraction
         /\ (a \oplus b)[1] * (a[2] * b[2])
                = (a[1] * b[2] + b[1] * a[2]) * (a \oplus b)[2]
<1>1. /\ a[1] \in Int /\ a[2] \in Positive /\ a[2] > 0 /\ a[2] \in Int
      /\ b[1] \in Int /\ b[2] \in Positive /\ b[2] > 0 /\ b[2] \in Int
  BY FractionParts
<1>2. PICK n \in Int, d \in Positive, m \in Int, e \in Positive :
          n = a[1] /\ d = a[2] /\ m = b[1] /\ e = b[2]
  BY <1>1
<1>3. PICK g \in Positive, d1 \in Int, e1 \in Positive :
          /\ Gcd(Size(d), e) = g /\ d = d1 * g /\ e = e1 * g
          /\ d \div g = d1 /\ e \div g = e1 /\ Coprime(d1, e1)
  <2>1. d \in Int  BY DEF Positive
  <2>2. PICK k \in Int : k = d  BY <2>1
  <2>3. PICK g \in Positive, d1 \in Int, e1 \in Positive :
            /\ Gcd(Size(k), e) = g /\ k = d1 * g /\ e = e1 * g
            /\ k \div g = d1 /\ e \div g = e1 /\ Coprime(d1, e1)
    BY Reduction
  <2>4. QED  BY <2>2, <2>3
<1>4. Size(d) = d  BY DEF Size, Positive
<1>5. g \in Int /\ g > 0 /\ d \in Int /\ d > 0 /\ e \in Int /\ e1 \in Int /\ e1 > 0
  BY DEF Positive
<1> DEFINE num == n * e1 + m * d1
           den == d * e1
<1>6. num \in Int /\ den \in Positive
  <2>1. d * e1 > 0 /\ d * e1 \in Int  BY <1>5
  <2>2. QED  BY <1>5, <2>1 DEF Positive
<1>7. a \oplus b = Frac(num, den)
  BY <1>2, <1>3, <1>4 DEF \oplus, Sum
<1>8. num * (d * e) = (n * e + m * d) * den
  <2>1. d * e = (d * e1) * g  BY <1>3, <1>5
  <2>2. n * e + m * d = (n * e1 + m * d1) * g  BY <1>3, <1>5
  <2>3. num * ((d * e1) * g) = (num * g) * (d * e1)  BY <1>5, <1>6
  <2>4. QED  BY <2>1, <2>2, <2>3
<1> HIDE DEF num, den
<1>9. PICK s \in Fraction : s = a \oplus b /\ s[1] * den = num * s[2]
  BY <1>6, <1>7, FracIs
<1>10. s[1] \in Int /\ s[2] \in Int  BY FractionParts
<1>11. PICK p \in Int, q \in Int : p = d * e /\ q = n * e + m * d  BY <1>5
<1>12. den \in Int /\ den > 0  BY <1>6 DEF Positive
<1>13. s[1] * p = q * s[2]
  <2>1. (s[1] * p) * den = (s[1] * den) * p  BY <1>10, <1>11, <1>12
  <2>2. (num * s[2]) * p = (num * p) * s[2]  BY <1>6, <1>10, <1>11
  <2>3. (q * den) * s[2] = (q * s[2]) * den  BY <1>10, <1>11, <1>12
  <2>4. (s[1] * p) * den = (q * s[2]) * den
    BY <1>8, <1>9, <1>11, <2>1, <2>2, <2>3
  <2>5. s[1] * p \in Int /\ q * s[2] \in Int  BY <1>10, <1>11
  <2>6. QED  BY <1>12, <2>4, <2>5
<1>14. QED  BY <1>2, <1>9, <1>11, <1>13

LEMMA NegativeIs ==
  ASSUME NEW b \in Fraction
  PROVE  <<-b[1], b[2]>> \in Fraction
<1>1. b[1] \in Int /\ b[2] \in Positive /\ b[2] \in Int /\ Coprime(b[1], b[2])
  BY FractionParts
<1>2. PICK x \in Int, y \in Int : 1 = x * b[1] + y * b[2]
  BY <1>1 DEF Coprime, Combines
<1>3. 1 = (-x) * (-b[1]) + y * b[2] /\ -x \in Int /\ -b[1] \in Int  BY <1>1, <1>2
<1>4. Coprime(-b[1], b[2])  BY <1>3 DEF Coprime, Combines
<1>5. QED  BY <1>1, <1>3, <1>4, FractionMade

LEMMA ProductValue ==
  ASSUME NEW a \in Fraction, NEW b \in Fraction
  PROVE  /\ a \otimes b \in Fraction
         /\ (a \otimes b)[1] * (a[2] * b[2]) = (a[1] * b[1]) * (a \otimes b)[2]
<1>1. /\ a[1] \in Int /\ a[2] \in Positive /\ a[2] > 0 /\ a[2] \in Int
      /\ b[1] \in Int /\ b[2] \in Positive /\ b[2] > 0 /\ b[2] \in Int
      /\ Coprime(a[1], a[2]) /\ Coprime(b[1], b[2])
  BY FractionParts
<1>2. PICK n \in Int, d \in Positive, m \in Int, e \in Positive :
          n = a[1] /\ d = a[2] /\ m = b[1] /\ e = b[2]
  BY <1>1
<1>3. PICK g \in Positive, n1 \in Int, e1 \in Positive :
          /\ Gcd(Size(n), e) = g /\ n = n1 * g /\ e = e1 * g
          /\ n \div g = n1 /\ e \div g = e1 /\ Coprime(n1, e1)
  BY Reduction
<1>4. PICK h \in Positive, m1 \in Int, d1 \in Positive :
          /\ Gcd(Size(m), d) = h /\ m = m1 * h /\ d = d1 * h
          /\ m \div h = m1 /\ d \div h = d1 /\ Coprime(m1, d1)
  BY Reduction
<1>5. /\ g \in Int /\ g > 0 /\ h \in Int /\ h > 0 /\ d \in Int /\ d > 0 /\ e \in Int
      /\ e1 \in Int /\ e1 > 0 /\ d1 \in Int /\ d1 > 0
  BY DEF Positive
<1>6. a \otimes b = <<n1 * m1, d1 * e1>>
  BY <1>2, <1>3, <1>4 DEF \otimes, Product
<1>7. Coprime(n1, d1)
  <2>1. Coprime(n1 * g, d1 * h)  BY <1>1, <1>2, <1>3, <1>4
  <2>2. Coprime(n1, d1 * h)  BY <1>5, <2>1, CoprimeToFactor, SMTT(30)
  <2>3. Coprime(d1 * h, n1)  BY <1>5, <2>2, CoprimeSwaps
  <2>4. Coprime(d1, n1)  BY <1>5, <2>3, CoprimeToFactor
  <2>5. QED  BY <1>5, <2>4, CoprimeSwaps
<1>8. Coprime(m1, e1)
  <2>1. Coprime(m1 * h, e1 * g)  BY <1>1, <1>2, <1>3, <1>4
  <2>2. Coprime(m1, e1 * g)
    <3>1. e1 * g \in Int  BY <1>5
    <3>2. QED  BY <1>5, <2>1, <3>1, CoprimeToFactor, Zenon
  <2>3. Coprime(e1 * g, m1)  BY <1>5, <2>2, CoprimeSwaps
  <2>4. Coprime(e1, m1)  BY <1>5, <2>3, CoprimeToFactor
  <2>5. QED  BY <1>5, <2>4, CoprimeSwaps
<1>9. Coprime(n1 * m1, d1 * e1)
  <2>1. Coprime(n1, d1 * e1)  BY <1>3, <1>5, <1>7, CoprimeToProduct
  <2>2. Coprime(m1, d1 * e1)  BY <1>4, <1>5, <1>8, CoprimeToProduct
  <2>3. d1 * e1 \in Int /\ n1 * m1 \in Int  BY <1>5
  <2>4. Coprime(d1 * e1, n1) /\ Coprime(d1 * e1, m1)
    BY <2>1, <2>2, <2>3, CoprimeSwaps
  <2>5. Coprime(d1 * e1, n1 * m1)  BY <2>3, <2>4, CoprimeToProduct
  <2>6. QED  BY <2>3, <2>5, CoprimeSwaps
<1>10. d1 * e1 \in Positive /\ n1 * m1 \in Int
  <2>1. d1 * e1 \in Int /\ d1 * e1 > 0  BY <1>5
  <2>2. QED  BY <2>1 DEF Positive
<1>11. <<n1 * m1, d1 * e1>> \in Fraction  BY <1>9, <1>10, FractionMade
<1>12. (n1 * m1) * (d * e) = (n * m) * (d1 * e1)
  <2>1. (n1 * m1) * ((d1 * h) * (e1 * g)) = ((n1 * g) * (m1 * h)) * (d1 * e1)
    BY <1>5
  <2>2. QED  BY <1>3, <1>4, <2>1
<1>13. QED  BY <1>2, <1>6, <1>11, <1>12

LEMMA InverseIs ==
  ASSUME NEW b \in Fraction, b[1] > 0
  PROVE  <<b[2], b[1]>> \in Fraction
<1>1. b[1] \in Int /\ b[2] \in Int /\ Coprime(b[1], b[2])  BY FractionParts
<1>2. b[1] \in Positive  BY <1>1 DEF Positive
<1>3. Coprime(b[2], b[1])  BY <1>1, CoprimeSwaps
<1>4. QED  BY <1>1, <1>2, <1>3, FractionMade

LEMMA MagnitudeIs ==
  ASSUME NEW b \in Fraction
  PROVE  <<Size(b[1]), b[2]>> \in Fraction
<1>1. b = <<b[1], b[2]>> /\ b[1] \in Int  BY FractionParts
<1>2. CASE b[1] < 0  BY <1>2, NegativeIs DEF Size
<1>3. CASE ~(b[1] < 0)  BY <1>1, <1>3 DEF Size
<1>4. QED  BY <1>2, <1>3

------------------------------------------------------------------------------
(* The comparison by continued fractions is that of the cross products.     *)
Crosses(n, d, m, e) == n * e < m * d

LEMMA CrossesTurns ==
  ASSUME NEW n \in Int, NEW d \in Positive, NEW m \in Int, NEW e \in Positive
  PROVE  Crosses(n, d, m, e) <=>
            IF n \div d # m \div e THEN n \div d < m \div e
            ELSE IF m % e = 0 THEN FALSE
            ELSE IF n % d = 0 THEN TRUE
            ELSE Crosses(e, m % e, d, n % d)
<1>0. d \in Int /\ d > 0 /\ e \in Int /\ e > 0  BY DEF Positive
<1>1. PICK k \in Int, r \in Nat : n \div d = k /\ n % d = r /\ r < d /\ n = k * d + r
  BY Division
<1>2. PICK l \in Int, s \in Nat : m \div e = l /\ m % e = s /\ s < e /\ m = l * e + s
  BY Division
<1>3. PICK c \in Int : c = d * e /\ c > 0  BY <1>0
<1>4. n * e = k * c + r * e /\ m * d = l * c + s * d
  <2>1. (k * d + r) * e = k * (d * e) + r * e  BY <1>0
  <2>2. (l * e + s) * d = l * (d * e) + s * d  BY <1>0
  <2>3. QED  BY <1>1, <1>2, <1>3, <2>1, <2>2
<1>5. r * e \in Int /\ 0 <= r * e /\ r * e < c
  <2>1. r * e < d * e  BY <1>0, <1>1
  <2>2. QED  BY <1>0, <1>3, <2>1
<1>6. s * d \in Int /\ 0 <= s * d /\ s * d < c
  <2>1. s * d < e * d /\ e * d = d * e  BY <1>0, <1>2
  <2>2. QED  BY <1>0, <1>3, <2>1
<1>7. ASSUME NEW x \in Int, NEW y \in Int, x < y
      PROVE  x * c + c <= y * c
  <2>1. (x + 1) * c <= y * c  BY <1>3, <1>7
  <2>2. (x + 1) * c = x * c + c  BY <1>3
  <2>3. QED  BY <2>1, <2>2
<1>8. CASE k < l
  <2>1. k * c + c <= l * c /\ k * c \in Int /\ l * c \in Int  BY <1>3, <1>7, <1>8
  <2>2. n * e < m * d  BY <1>3, <1>4, <1>5, <1>6, <2>1
  <2>3. QED  BY <1>1, <1>2, <1>8, <2>2 DEF Crosses
<1>9. CASE l < k
  <2>1. l * c + c <= k * c /\ k * c \in Int /\ l * c \in Int  BY <1>3, <1>7, <1>9
  <2>2. ~(n * e < m * d)  BY <1>3, <1>4, <1>5, <1>6, <2>1
  <2>3. QED  BY <1>1, <1>2, <1>9, <2>2 DEF Crosses
<1>10. CASE k = l
  <2>1. k * c \in Int  BY <1>3
  <2>2. n * e < m * d <=> r * e < s * d  BY <1>4, <1>5, <1>6, <1>10, <2>1
  <2>3. CASE s = 0
    <3>1. s * d = 0  BY <1>0, <2>3
    <3>2. ~(n * e < m * d)  BY <1>5, <2>2, <3>1
    <3>3. QED  BY <1>1, <1>2, <1>10, <2>3, <3>2 DEF Crosses
  <2>4. CASE s # 0 /\ r = 0
    <3>1. s * d > 0  BY <1>0, <2>4
    <3>2. r * e = 0  BY <1>0, <2>4
    <3>3. n * e < m * d  BY <1>5, <1>6, <2>2, <3>1, <3>2
    <3>4. QED  BY <1>1, <1>2, <1>10, <2>4, <3>3 DEF Crosses
  <2>5. CASE s # 0 /\ r # 0
    <3>1. e * r = r * e /\ d * s = s * d  BY <1>0
    <3>2. QED  BY <1>1, <1>2, <1>10, <2>2, <2>5, <3>1 DEF Crosses
  <2>6. QED  BY <2>3, <2>4, <2>5
<1>11. QED  BY <1>8, <1>9, <1>10

LEMMA BelowTurns ==
  below = [q \in Ratio \X Ratio |->
    IF Floor(q[1]) # Floor(q[2]) THEN Floor(q[1]) < Floor(q[2])
    ELSE IF Rest(q[2]) = 0 THEN FALSE
    ELSE IF Rest(q[1]) = 0 THEN TRUE
    ELSE below[<<<<q[2][2], Rest(q[2])>>, <<q[1][2], Rest(q[1])>>>>]]
<1> DEFINE f == [q \in Ratio \X Ratio |-> Crosses(q[1][1], q[1][2], q[2][1], q[2][2])]
<1>1. ASSUME NEW q \in Ratio \X Ratio
      PROVE  f[q] = IF Floor(q[1]) # Floor(q[2]) THEN Floor(q[1]) < Floor(q[2])
                    ELSE IF Rest(q[2]) = 0 THEN FALSE
                    ELSE IF Rest(q[1]) = 0 THEN TRUE
                    ELSE f[<<<<q[2][2], Rest(q[2])>>, <<q[1][2], Rest(q[1])>>>>]
  <2>1. PICK n \in Int, d \in Positive, m \in Int, e \in Positive :
            q[1][1] = n /\ q[1][2] = d /\ q[2][1] = m /\ q[2][2] = e
    BY DEF Ratio, Positive
  <2>2. d \in Int /\ e \in Int  BY DEF Positive
  <2>3. f[q] = Crosses(n, d, m, e)  BY <2>1
  <2>4. n % d \in Nat /\ m % e \in Nat  BY Division
  <2>5. ASSUME m % e # 0, n % d # 0
        PROVE  f[<<<<e, m % e>>, <<d, n % d>>>>] = Crosses(e, m % e, d, n % d)
    <3>1. <<<<e, m % e>>, <<d, n % d>>>> \in Ratio \X Ratio
      BY <2>2, <2>4, <2>5 DEF Ratio
    <3>2. QED  BY <3>1
  <2> HIDE DEF f
  <2>6. /\ Floor(q[1]) = n \div d /\ Floor(q[2]) = m \div e
        /\ Rest(q[1]) = n % d /\ Rest(q[2]) = m % e
        /\ q[2][2] = e /\ q[1][2] = d
    BY <2>1 DEF Floor, Rest
  <2>7. Crosses(n, d, m, e) <=>
            IF n \div d # m \div e THEN n \div d < m \div e
            ELSE IF m % e = 0 THEN FALSE
            ELSE IF n % d = 0 THEN TRUE
            ELSE Crosses(e, m % e, d, n % d)
    BY CrossesTurns
  <2>8. CASE n \div d # m \div e  BY <2>3, <2>6, <2>7, <2>8 DEF Crosses
  <2>9. CASE n \div d = m \div e /\ m % e = 0
    <3>1. Crosses(n, d, m, e) = FALSE  BY <2>7, <2>9 DEF Crosses
    <3>2. f[q] = FALSE  BY <2>3, <3>1
    <3>3. QED  BY <2>6, <2>9, <3>2
  <2>10. CASE n \div d = m \div e /\ m % e # 0 /\ n % d = 0
    BY <2>3, <2>6, <2>7, <2>10 DEF Crosses
  <2>11. CASE n \div d = m \div e /\ m % e # 0 /\ n % d # 0
    BY <2>3, <2>5, <2>6, <2>7, <2>11 DEF Crosses
  <2>12. QED  BY <2>8, <2>9, <2>10, <2>11
<1>2. f = [q \in Ratio \X Ratio |->
             IF Floor(q[1]) # Floor(q[2]) THEN Floor(q[1]) < Floor(q[2])
             ELSE IF Rest(q[2]) = 0 THEN FALSE
             ELSE IF Rest(q[1]) = 0 THEN TRUE
             ELSE f[<<<<q[2][2], Rest(q[2])>>, <<q[1][2], Rest(q[1])>>>>]]
  BY <1>1
<1> HIDE DEF f
<1>3. QED  BY <1>2 DEF below

LEMMA BelowCrosses ==
  ASSUME NEW n \in Int, NEW d \in Positive, NEW m \in Int, NEW e \in Positive
  PROVE  below[<<<<n, d>>, <<m, e>>>>] <=> Crosses(n, d, m, e)
<1> DEFINE Settled(u) == \A x \in Int, y \in Positive, z \in Int, w \in Positive :
             y + w = u => (below[<<<<x, y>>, <<z, w>>>>] <=> Crosses(x, y, z, w))
           T == {u \in Nat : ~Settled(u)}
<1>1. ASSUME T # {} PROVE FALSE
  <2>1. T \in SUBSET Nat  OBVIOUS
  <2> HIDE DEF T
  <2>2. PICK u \in T : \A k \in T : u <= k  BY <1>1, <2>1, LeastNumber
  <2>3. u \in Nat  BY <2>1
  <2>4. PICK x \in Int, y \in Positive, z \in Int, w \in Positive :
            y + w = u /\ ~(below[<<<<x, y>>, <<z, w>>>>] <=> Crosses(x, y, z, w))
    BY <2>2 DEF T
  <2>5. y \in Int /\ w \in Int  BY DEF Positive
  <2>6. below[<<<<x, y>>, <<z, w>>>>] =
            IF x \div y # z \div w THEN x \div y < z \div w
            ELSE IF z % w = 0 THEN FALSE
            ELSE IF x % y = 0 THEN TRUE
            ELSE below[<<<<w, z % w>>, <<y, x % y>>>>]
    <3>1. <<<<x, y>>, <<z, w>>>> \in Ratio \X Ratio  BY DEF Ratio, Positive
    <3>2. QED  BY <3>1, BelowTurns DEF Floor, Rest
  <2>7. z % w \in Nat /\ z % w < w /\ x % y \in Nat /\ x % y < y  BY Division
  <2>8. ASSUME z % w # 0, x % y # 0
        PROVE  below[<<<<w, z % w>>, <<y, x % y>>>>] <=> Crosses(w, z % w, y, x % y)
    <3>1. PICK r \in Positive, s \in Positive : r = x % y /\ s = z % w
      BY <2>7, <2>8 DEF Positive
    <3>2. s + r \in Nat /\ s + r < u  BY <2>3, <2>4, <2>5, <2>7, <3>1 DEF Positive
    <3>3. s + r \notin T  BY <2>2, <2>3, <3>2
    <3>4. Settled(s + r)  BY <3>2, <3>3 DEF T
    <3>5. QED  BY <2>5, <3>1, <3>4
  <2>9. Crosses(x, y, z, w) <=>
            IF x \div y # z \div w THEN x \div y < z \div w
            ELSE IF z % w = 0 THEN FALSE
            ELSE IF x % y = 0 THEN TRUE
            ELSE Crosses(w, z % w, y, x % y)
    BY CrossesTurns
  <2>10. CASE x \div y # z \div w  BY <2>4, <2>6, <2>9, <2>10
  <2>11. CASE x \div y = z \div w /\ z % w = 0  BY <2>4, <2>6, <2>9, <2>11
  <2>12. CASE x \div y = z \div w /\ z % w # 0 /\ x % y = 0
    BY <2>4, <2>6, <2>9, <2>12
  <2>13. CASE x \div y = z \div w /\ z % w # 0 /\ x % y # 0
    BY <2>4, <2>6, <2>8, <2>9, <2>13
  <2>14. QED  BY <2>10, <2>11, <2>12, <2>13
<1>2. d + e \in Nat  BY DEF Positive
<1>3. Settled(d + e)  BY <1>1, <1>2
<1>4. QED  BY <1>3

LEMMA Order ==
  ASSUME NEW a \in Fraction, NEW b \in Fraction
  PROVE  /\ a \prec b <=> a[1] * b[2] < b[1] * a[2]
         /\ a \preceq b <=> a[1] * b[2] <= b[1] * a[2]
<1>1. /\ a = <<a[1], a[2]>> /\ a[1] \in Int /\ a[2] \in Positive /\ a[2] \in Int
      /\ b = <<b[1], b[2]>> /\ b[1] \in Int /\ b[2] \in Positive /\ b[2] \in Int
  BY FractionParts
<1>2. a \prec b <=> a[1] * b[2] < b[1] * a[2]
  BY <1>1, BelowCrosses DEF \prec, Crosses
<1>3. b \prec a <=> b[1] * a[2] < a[1] * b[2]
  BY <1>1, BelowCrosses DEF \prec, Crosses
<1>4. a[1] * b[2] \in Int /\ b[1] * a[2] \in Int  BY <1>1
<1>5. QED  BY <1>2, <1>3, <1>4 DEF \preceq

------------------------------------------------------------------------------
(* Sums, differences and comparisons of fractions over one denominator are  *)
(* those of their numerators. Over(D) and Num(a, D) turn a linear argument  *)
(* about fractions into one about integers.                                 *)
Over(D)   == {a \in Fraction : \E x \in Int : a[1] * D = x * a[2]}
Num(a, D) == CHOOSE x \in Int : a[1] * D = x * a[2]

LEMMA NumIs ==
  ASSUME NEW D \in Positive, NEW a \in Over(D)
  PROVE  a \in Fraction /\ Num(a, D) \in Int /\ a[1] * D = Num(a, D) * a[2]
<1>1. \E x \in Int : a[1] * D = x * a[2]  BY DEF Over
<1>2. QED  BY <1>1 DEF Over, Num

LEMMA NumIsUnique ==
  ASSUME NEW D \in Positive, NEW a \in Fraction, NEW x \in Int, a[1] * D = x * a[2]
  PROVE  a \in Over(D) /\ Num(a, D) = x
<1>1. a \in Over(D)  BY DEF Over
<1>2. PICK y \in Int : y = Num(a, D) /\ a[1] * D = y * a[2]  BY <1>1, NumIs
<1>3. a[2] \in Int /\ a[2] > 0  BY FractionParts
<1>4. x * a[2] = y * a[2]  BY <1>2
<1>5. x = y  BY <1>3, <1>4
<1>6. QED  BY <1>1, <1>2, <1>5

LEMMA NumOfSum ==
  ASSUME NEW D \in Positive, NEW a \in Over(D), NEW b \in Over(D)
  PROVE  a \oplus b \in Over(D) /\ Num(a \oplus b, D) = Num(a, D) + Num(b, D)
<1>1. PICK x \in Int : x = Num(a, D) /\ a[1] * D = x * a[2]  BY NumIs
<1>2. PICK y \in Int : y = Num(b, D) /\ b[1] * D = y * b[2]  BY NumIs
<1>3. a \in Fraction /\ b \in Fraction  BY DEF Over
<1>4. /\ a[1] \in Int /\ a[2] \in Int /\ a[2] > 0 /\ b[1] \in Int /\ b[2] \in Int /\ b[2] > 0
      /\ D \in Int /\ D > 0
  BY <1>3, FractionParts DEF Positive
<1>5. PICK s \in Fraction :
        /\ s = a \oplus b
        /\ s[1] * (a[2] * b[2]) = (a[1] * b[2] + b[1] * a[2]) * s[2]
  BY <1>3, SumValue
<1>6. s[1] \in Int /\ s[2] \in Int /\ s[2] > 0  BY FractionParts
<1>7. PICK c \in Int : c = a[2] * b[2] /\ c > 0  BY <1>4
<1>8. (a[1] * b[2] + b[1] * a[2]) * D = (x + y) * c
  <2>1. (a[1] * b[2]) * D = (a[1] * D) * b[2] /\ (b[1] * a[2]) * D = (b[1] * D) * a[2]
    BY <1>4
  <2>2. (x * a[2]) * b[2] = x * c /\ (y * b[2]) * a[2] = y * c  BY <1>4, <1>7
  <2>3. (a[1] * b[2] + b[1] * a[2]) * D = (a[1] * b[2]) * D + (b[1] * a[2]) * D
    BY <1>4
  <2>4. QED  BY <1>1, <1>2, <1>7, <2>1, <2>2, <2>3
<1>9. PICK p \in Int : p = a[1] * b[2] + b[1] * a[2]  BY <1>4
<1>10. (s[1] * D) * c = ((x + y) * s[2]) * c
  <2>1. (s[1] * c) * D = (p * s[2]) * D  BY <1>5, <1>7, <1>9
  <2>2. (p * s[2]) * D = (p * D) * s[2]  BY <1>4, <1>6
  <2>3. ((x + y) * c) * s[2] = ((x + y) * s[2]) * c  BY <1>6
  <2>4. (s[1] * c) * D = (s[1] * D) * c  BY <1>4, <1>6
  <2>5. QED  BY <1>8, <1>9, <2>1, <2>2, <2>3, <2>4
<1>11. s[1] * D = (x + y) * s[2]
  <2>1. s[1] * D \in Int /\ (x + y) * s[2] \in Int  BY <1>4, <1>6
  <2>2. QED  BY <1>7, <1>10, <2>1
<1>12. QED  BY <1>1, <1>2, <1>5, <1>11, NumIsUnique

LEMMA NumOfDifference ==
  ASSUME NEW D \in Positive, NEW a \in Over(D), NEW b \in Over(D)
  PROVE  a \ominus b \in Over(D) /\ Num(a \ominus b, D) = Num(a, D) - Num(b, D)
<1> DEFINE c == <<-b[1], b[2]>>
<1>1. PICK y \in Int : y = Num(b, D) /\ b[1] * D = y * b[2]  BY NumIs
<1>2. b \in Fraction /\ b[1] \in Int /\ b[2] \in Int /\ D \in Int
  BY FractionParts DEF Over, Positive
<1>3. c \in Fraction /\ c[1] = -b[1] /\ c[2] = b[2]  BY <1>2, NegativeIs
<1>4. a \ominus b = a \oplus c  BY DEF \ominus
<1> HIDE DEF c
<1>5. (-b[1]) * D = (-y) * b[2]  BY <1>1, <1>2
<1>6. c \in Over(D) /\ Num(c, D) = -y  BY <1>3, <1>5, NumIsUnique
<1>7. Num(a, D) \in Int  BY NumIs
<1>8. QED  BY <1>1, <1>4, <1>6, <1>7, NumOfSum

LEMMA NumOrder ==
  ASSUME NEW D \in Positive, NEW a \in Over(D), NEW b \in Over(D)
  PROVE  /\ a \prec b <=> Num(a, D) < Num(b, D)
         /\ a \preceq b <=> Num(a, D) <= Num(b, D)
         /\ a = b <=> Num(a, D) = Num(b, D)
<1>1. PICK x \in Int : x = Num(a, D) /\ a[1] * D = x * a[2]  BY NumIs
<1>2. PICK y \in Int : y = Num(b, D) /\ b[1] * D = y * b[2]  BY NumIs
<1>3. a \in Fraction /\ b \in Fraction  BY DEF Over
<1>4. /\ a[1] \in Int /\ a[2] \in Int /\ a[2] > 0 /\ b[1] \in Int /\ b[2] \in Int /\ b[2] > 0
      /\ D \in Int /\ D > 0
  BY <1>3, FractionParts DEF Positive
<1>5. PICK c \in Int : c = a[2] * b[2] /\ c > 0  BY <1>4
<1>6. PICK p \in Int, q \in Int : p = a[1] * b[2] /\ q = b[1] * a[2]  BY <1>4
<1>7. p * D = x * c
  <2>1. (a[1] * b[2]) * D = (a[1] * D) * b[2]  BY <1>4
  <2>2. (x * a[2]) * b[2] = x * (a[2] * b[2])  BY <1>4
  <2>3. QED  BY <1>1, <1>5, <1>6, <2>1, <2>2
<1>8. q * D = y * c
  <2>1. (b[1] * a[2]) * D = (b[1] * D) * a[2]  BY <1>4
  <2>2. (y * b[2]) * a[2] = y * (a[2] * b[2])  BY <1>4
  <2>3. QED  BY <1>2, <1>5, <1>6, <2>1, <2>2
<1>9. (p < q <=> p * D < q * D) /\ (x < y <=> x * c < y * c)  BY <1>4, <1>5
<1>10. (q < p <=> q * D < p * D) /\ (y < x <=> y * c < x * c)  BY <1>4, <1>5
<1>11. (p < q <=> x < y) /\ (q < p <=> y < x)  BY <1>7, <1>8, <1>9, <1>10
<1>12. a \prec b <=> p < q  BY <1>3, <1>6, Order
<1>13. a \preceq b <=> p <= q  BY <1>3, <1>6, Order
<1>14. a = b <=> p = q
  <2>1. p = q => a = b  BY <1>3, <1>6, SameValue
  <2>2. a = b => p = q  BY <1>6
  <2>3. QED  BY <2>1, <2>2
<1>15. QED  BY <1>1, <1>2, <1>11, <1>12, <1>13, <1>14

LEMMA NumOfNil == ASSUME NEW D \in Positive PROVE Nil \in Over(D) /\ Num(Nil, D) = 0
<1>1. Nil \in Fraction /\ Nil[1] = 0 /\ Nil[2] = 1  BY WholeIs DEF Nil
<1>2. 0 * D = 0 * 1  BY DEF Positive
<1>3. QED  BY <1>1, <1>2, NumIsUnique

(* What the denominator D allows, in one fact.                              *)
Linear(D) ==
  /\ \A a \in Over(D) : a \in Fraction /\ Num(a, D) \in Int
  /\ \A a, b \in Over(D) :
        /\ a \oplus b \in Over(D) /\ Num(a \oplus b, D) = Num(a, D) + Num(b, D)
        /\ a \ominus b \in Over(D) /\ Num(a \ominus b, D) = Num(a, D) - Num(b, D)
  /\ \A a, b \in Over(D) :
        /\ a \prec b <=> Num(a, D) < Num(b, D)
        /\ a \preceq b <=> Num(a, D) <= Num(b, D)
  /\ \A a, b \in Over(D) : Num(a, D) = Num(b, D) => a = b
  /\ Nil \in Over(D) /\ Num(Nil, D) = 0

LEMMA Linearity == ASSUME NEW D \in Positive PROVE Linear(D)
<1>1. \A a \in Over(D) : a \in Fraction /\ Num(a, D) \in Int  BY NumIs
<1>2. QED  BY <1>1, NumOfSum, NumOfDifference, NumOrder, NumOfNil DEF Linear

LEMMA OverMultiple ==
  ASSUME NEW D \in Positive, NEW k \in Positive
  PROVE  D * k \in Positive /\ Over(D) \subseteq Over(D * k)
<1>1. D \in Int /\ D > 0 /\ k \in Int /\ k > 0  BY DEF Positive
<1>2. D * k \in Int /\ D * k > 0  BY <1>1
<1>3. ASSUME NEW a \in Over(D) PROVE a \in Over(D * k)
  <2>1. PICK x \in Int : a[1] * D = x * a[2]  BY DEF Over
  <2>2. a \in Fraction /\ a[1] \in Int /\ a[2] \in Int  BY FractionParts DEF Over
  <2>3. a[1] * (D * k) = (a[1] * D) * k /\ (x * a[2]) * k = (x * k) * a[2]
    BY <1>1, <2>2
  <2>4. a[1] * (D * k) = (x * k) * a[2] /\ x * k \in Int  BY <1>1, <2>1, <2>3
  <2>5. QED  BY <2>2, <2>4 DEF Over
<1>4. QED  BY <1>2, <1>3 DEF Positive

LEMMA OverOwn ==
  ASSUME NEW a \in Fraction
  PROVE  a[2] \in Positive /\ a \in Over(a[2])
<1>1. a[1] \in Int /\ a[2] \in Positive  BY FractionParts
<1>2. a[1] * a[2] = a[1] * a[2]  OBVIOUS
<1>3. QED  BY <1>1, <1>2 DEF Over

LEMMA OverOneMore ==
  ASSUME NEW D \in Positive, NEW a \in Fraction
  PROVE  \E E \in Positive : Over(D) \subseteq Over(E) /\ a \in Over(E)
<1>1. a[2] \in Positive /\ a \in Over(a[2])  BY OverOwn
<1>2. D * a[2] \in Positive /\ Over(D) \subseteq Over(D * a[2])  BY <1>1, OverMultiple
<1>3. Over(a[2]) \subseteq Over(a[2] * D)  BY <1>1, OverMultiple
<1>4. a[2] * D = D * a[2]  BY <1>1 DEF Positive
<1>5. QED  BY <1>1, <1>2, <1>3, <1>4

(* Any few fractions have a common denominator.                             *)
LEMMA OverTwo ==
  ASSUME NEW a \in Fraction, NEW b \in Fraction
  PROVE  \E D \in Positive : Linear(D) /\ a \in Over(D) /\ b \in Over(D)
<1>1. a[2] \in Positive /\ a \in Over(a[2])  BY OverOwn
<1>2. PICK D \in Positive : Over(a[2]) \subseteq Over(D) /\ b \in Over(D)
  BY <1>1, OverOneMore
<1>3. QED  BY <1>1, <1>2, Linearity

LEMMA OverFour ==
  ASSUME NEW a \in Fraction, NEW b \in Fraction, NEW c \in Fraction, NEW d \in Fraction
  PROVE  \E D \in Positive :
            Linear(D) /\ a \in Over(D) /\ b \in Over(D) /\ c \in Over(D) /\ d \in Over(D)
<1>1. PICK C \in Positive : a \in Over(C) /\ b \in Over(C)  BY OverTwo
<1>2. PICK E \in Positive : Over(C) \subseteq Over(E) /\ c \in Over(E)
  BY OverOneMore
<1>3. PICK D \in Positive : Over(E) \subseteq Over(D) /\ d \in Over(D)
  BY OverOneMore
<1>4. QED  BY <1>1, <1>2, <1>3, Linearity

------------------------------------------------------------------------------
(* Products.                                                                *)
Is(a, x, D) == a \in Fraction /\ x \in Int /\ D \in Positive /\ a[1] * D = x * a[2]

LEMMA IsItself == ASSUME NEW a \in Fraction PROVE Is(a, a[1], a[2])
  BY FractionParts DEF Is

LEMMA IsOver ==
  ASSUME NEW D \in Positive
  PROVE  /\ \A a \in Over(D) : Is(a, Num(a, D), D)
         /\ \A a, x : Is(a, x, D) => a \in Over(D) /\ Num(a, D) = x
  BY NumIs, NumIsUnique DEF Is, Over

LEMMA IsEqual ==
  ASSUME NEW a, NEW b, NEW x, NEW D, Is(a, x, D), Is(b, x, D)
  PROVE  a = b
<1>1. D \in Positive  BY DEF Is
<1>2. a \in Over(D) /\ b \in Over(D) /\ Num(a, D) = Num(b, D)  BY <1>1, IsOver
<1>3. QED  BY <1>1, <1>2, NumOrder

LEMMA IsProduct ==
  ASSUME NEW a, NEW b, NEW x, NEW y, NEW D, NEW E, Is(a, x, D), Is(b, y, E)
  PROVE  Is(a \otimes b, x * y, D * E)
<1>1. a \in Fraction /\ b \in Fraction /\ x \in Int /\ y \in Int
  BY DEF Is
<1>2. /\ a[1] \in Int /\ a[2] \in Int /\ a[2] > 0 /\ b[1] \in Int /\ b[2] \in Int /\ b[2] > 0
      /\ D \in Int /\ D > 0 /\ E \in Int /\ E > 0
  BY <1>1, FractionParts DEF Positive, Is
<1>3. PICK s \in Fraction :
        s = a \otimes b /\ s[1] * (a[2] * b[2]) = (a[1] * b[1]) * s[2]
  BY <1>1, ProductValue
<1>4. s[1] \in Int /\ s[2] \in Int /\ s[2] > 0  BY FractionParts
<1>5. PICK c \in Int : c = a[2] * b[2] /\ c > 0  BY <1>2
<1>6. PICK F \in Int : F = D * E /\ F > 0  BY <1>2
<1>7. (a[1] * b[1]) * F = (x * y) * c
  <2>1. (a[1] * b[1]) * (D * E) = (a[1] * D) * (b[1] * E)  BY <1>2
  <2>2. a[1] * D = x * a[2] /\ b[1] * E = y * b[2]  BY DEF Is
  <2>3. (x * a[2]) * (y * b[2]) = (x * y) * (a[2] * b[2])  BY <1>1, <1>2
  <2>4. QED  BY <1>5, <1>6, <2>1, <2>2, <2>3
<1>8. PICK p \in Int : p = a[1] * b[1]  BY <1>2
<1>9. PICK z \in Int : z = x * y  BY <1>1
<1>10. (s[1] * F) * c = (z * s[2]) * c
  <2>1. (s[1] * c) * F = (p * s[2]) * F  BY <1>3, <1>5, <1>8
  <2>2. (p * s[2]) * F = (p * F) * s[2]  BY <1>4, <1>6
  <2>3. (z * c) * s[2] = (z * s[2]) * c  BY <1>4, <1>5
  <2>4. (s[1] * c) * F = (s[1] * F) * c  BY <1>4, <1>5, <1>6
  <2>5. QED  BY <1>7, <1>8, <1>9, <2>1, <2>2, <2>3, <2>4
<1>11. s[1] * F = z * s[2]
  <2>1. s[1] * F \in Int /\ z * s[2] \in Int  BY <1>4, <1>6
  <2>2. QED  BY <1>5, <1>10, <2>1
<1>12. D * E \in Positive /\ x * y \in Int  BY <1>1, <1>6 DEF Positive
<1>13. QED  BY <1>3, <1>6, <1>9, <1>11, <1>12 DEF Is

LEMMA ProductCommutes ==
  ASSUME NEW a \in Fraction, NEW b \in Fraction
  PROVE  a \otimes b = b \otimes a
<1>1. Is(a, a[1], a[2]) /\ Is(b, b[1], b[2])  BY IsItself
<1>2. Is(a \otimes b, a[1] * b[1], a[2] * b[2])  BY <1>1, IsProduct
<1>3. Is(b \otimes a, b[1] * a[1], b[2] * a[2])  BY <1>1, IsProduct
<1>4. b[1] * a[1] = a[1] * b[1] /\ b[2] * a[2] = a[2] * b[2]
  <2>1. a[1] \in Int /\ a[2] \in Int /\ b[1] \in Int /\ b[2] \in Int
    BY FractionParts
  <2>2. QED  BY <2>1
<1>5. QED  BY <1>2, <1>3, <1>4, IsEqual

LEMMA ProductAssociates ==
  ASSUME NEW a \in Fraction, NEW b \in Fraction, NEW c \in Fraction
  PROVE  (a \otimes b) \otimes c = a \otimes (b \otimes c)
<1>1. Is(a, a[1], a[2]) /\ Is(b, b[1], b[2]) /\ Is(c, c[1], c[2])  BY IsItself
<1>2. Is((a \otimes b) \otimes c, (a[1] * b[1]) * c[1], (a[2] * b[2]) * c[2])
  BY <1>1, IsProduct
<1>3. Is(a \otimes (b \otimes c), a[1] * (b[1] * c[1]), a[2] * (b[2] * c[2]))
  BY <1>1, IsProduct
<1>4. /\ (a[1] * b[1]) * c[1] = a[1] * (b[1] * c[1])
      /\ (a[2] * b[2]) * c[2] = a[2] * (b[2] * c[2])
  <2>1. /\ a[1] \in Int /\ a[2] \in Int /\ b[1] \in Int /\ b[2] \in Int
        /\ c[1] \in Int /\ c[2] \in Int
    BY FractionParts
  <2>2. QED  BY <2>1
<1>5. QED  BY <1>2, <1>3, <1>4, IsEqual

LEMMA ProductDistributes ==
  ASSUME NEW a \in Fraction, NEW b \in Fraction, NEW c \in Fraction
  PROVE  /\ a \otimes (b \oplus c) = (a \otimes b) \oplus (a \otimes c)
         /\ a \otimes (b \ominus c) = (a \otimes b) \ominus (a \otimes c)
<1>1. PICK D \in Positive : Linear(D) /\ b \in Over(D) /\ c \in Over(D)  BY OverTwo
<1>2. PICK x \in Int, y \in Int : x = Num(b, D) /\ y = Num(c, D)
  BY <1>1 DEF Linear
<1>3. PICK n \in Int, d \in Positive : n = a[1] /\ d = a[2]  BY FractionParts
<1>4. Is(a, n, d) /\ Is(b, x, D) /\ Is(c, y, D)  BY <1>1, <1>2, <1>3, IsItself, IsOver
<1>5. b \oplus c \in Over(D) /\ b \ominus c \in Over(D)  BY <1>1 DEF Linear
<1>6. Is(b \oplus c, x + y, D) /\ Is(b \ominus c, x - y, D)
  <2>1. Num(b \oplus c, D) = x + y /\ Num(b \ominus c, D) = x - y
    BY <1>1, <1>2 DEF Linear
  <2>2. QED  BY <1>5, <2>1, IsOver
<1>7. PICK E \in Positive : E = d * D
  <2>1. d * D \in Int /\ d * D > 0  BY DEF Positive
  <2>2. QED  BY <2>1 DEF Positive
<1>8. PICK p \in Int, q \in Int : p = n * x /\ q = n * y  OBVIOUS
<1>9. n * (x + y) = p + q /\ n * (x - y) = p - q  BY <1>8
<1>10. /\ Is(a \otimes b, n * x, E) /\ Is(a \otimes c, n * y, E)
       /\ Is(a \otimes (b \oplus c), n * (x + y), E)
       /\ Is(a \otimes (b \ominus c), n * (x - y), E)
  BY <1>4, <1>6, <1>7, IsProduct
<1>11. /\ Is(a \otimes b, p, E) /\ Is(a \otimes c, q, E)
       /\ Is(a \otimes (b \oplus c), p + q, E)
       /\ Is(a \otimes (b \ominus c), p - q, E)
  BY <1>8, <1>9, <1>10
<1>12. /\ a \otimes b \in Over(E) /\ Num(a \otimes b, E) = p
       /\ a \otimes c \in Over(E) /\ Num(a \otimes c, E) = q
       /\ a \otimes (b \oplus c) \in Over(E) /\ Num(a \otimes (b \oplus c), E) = p + q
       /\ a \otimes (b \ominus c) \in Over(E) /\ Num(a \otimes (b \ominus c), E) = p - q
  BY <1>11, IsOver
<1>13. Linear(E)  BY Linearity
<1>14. /\ (a \otimes b) \oplus (a \otimes c) \in Over(E)
       /\ Num((a \otimes b) \oplus (a \otimes c), E) = p + q
       /\ (a \otimes b) \ominus (a \otimes c) \in Over(E)
       /\ Num((a \otimes b) \ominus (a \otimes c), E) = p - q
  BY <1>12, <1>13 DEF Linear
<1>15. \A r, s \in Over(E) : Num(r, E) = Num(s, E) => r = s  BY <1>13 DEF Linear
<1>16. QED  BY <1>12, <1>14, <1>15, Zenon

LEMMA ProductOfNil ==
  ASSUME NEW a \in Fraction
  PROVE  a \otimes Nil = Nil /\ Nil \otimes a = Nil
<1>1. Nil \in Fraction /\ Nil[1] = 0 /\ Nil[2] = 1  BY WholeIs DEF Nil
<1>2. Is(a, a[1], a[2]) /\ Is(Nil, 0, 1)  BY <1>1, IsItself
<1>3. a[1] \in Int /\ a[2] \in Int /\ a[2] \in Positive  BY FractionParts
<1>4. Is(a \otimes Nil, a[1] * 0, a[2] * 1)  BY <1>2, IsProduct
<1>5. Is(a \otimes Nil, 0, a[2])  BY <1>3, <1>4
<1>6. Is(Nil, 0, a[2])  BY <1>1, <1>3 DEF Is
<1>7. a \otimes Nil = Nil  BY <1>5, <1>6, IsEqual
<1>8. QED  BY <1>1, <1>7, ProductCommutes

LEMMA ProductOfOne ==
  ASSUME NEW a \in Fraction
  PROVE  a \otimes One = a /\ One \otimes a = a
<1>1. One \in Fraction /\ One[1] = 1 /\ One[2] = 1  BY WholeIs DEF One
<1>2. Is(a, a[1], a[2]) /\ Is(One, 1, 1)  BY <1>1, IsItself
<1>3. a[1] \in Int /\ a[2] \in Int /\ a[2] \in Positive  BY FractionParts
<1>4. Is(a \otimes One, a[1] * 1, a[2] * 1)  BY <1>2, IsProduct
<1>5. Is(a \otimes One, a[1], a[2])  BY <1>3, <1>4
<1>6. a \otimes One = a  BY <1>2, <1>5, IsEqual
<1>7. QED  BY <1>1, <1>6, ProductCommutes

LEMMA Signs ==
  ASSUME NEW a \in Fraction
  PROVE  /\ Nil \prec a <=> a[1] > 0
         /\ Nil \preceq a <=> a[1] >= 0
         /\ a = Nil <=> a[1] = 0
<1>1. Nil \in Fraction /\ Nil[1] = 0 /\ Nil[2] = 1  BY WholeIs DEF Nil
<1>2. a[1] \in Int /\ a[2] \in Int /\ a[2] > 0  BY FractionParts
<1>3. 0 * a[2] = 0 /\ a[1] * 1 = a[1]  BY <1>2
<1>4. a[1] = 0 => a = Nil  BY <1>1, <1>2, <1>3, SameValue
<1>5. QED  BY <1>1, <1>2, <1>3, <1>4, Order

(* A product by what is not negative keeps the order.                       *)
LEMMA ProductOrder ==
  ASSUME NEW a \in Fraction, NEW b \in Fraction, NEW c \in Fraction
  PROVE  /\ Nil \preceq c /\ a \preceq b => a \otimes c \preceq b \otimes c
         /\ Nil \prec c => (a \prec b <=> a \otimes c \prec b \otimes c)
<1>1. PICK D \in Positive : Linear(D) /\ a \in Over(D) /\ b \in Over(D)  BY OverTwo
<1>2. PICK x \in Int, y \in Int : x = Num(a, D) /\ y = Num(b, D)
  BY <1>1 DEF Linear
<1>3. PICK n \in Int, d \in Positive : n = c[1] /\ d = c[2]  BY FractionParts
<1>4. Is(c, n, d) /\ Is(a, x, D) /\ Is(b, y, D)  BY <1>1, <1>2, <1>3, IsItself, IsOver
<1>5. PICK E \in Positive : E = D * d
  <2>1. D * d \in Int /\ D * d > 0  BY DEF Positive
  <2>2. QED  BY <2>1 DEF Positive
<1>6. Is(a \otimes c, x * n, E) /\ Is(b \otimes c, y * n, E)
  BY <1>4, <1>5, IsProduct
<1>7. /\ a \otimes c \in Over(E) /\ Num(a \otimes c, E) = x * n
      /\ b \otimes c \in Over(E) /\ Num(b \otimes c, E) = y * n
  BY <1>6, IsOver
<1>8. x * n \in Int /\ y * n \in Int  OBVIOUS
<1>9. n >= 0 /\ x <= y => x * n <= y * n  OBVIOUS
<1>10. n > 0 => (x < y <=> x * n < y * n)  OBVIOUS
<1>11. (Nil \preceq c <=> n >= 0) /\ (Nil \prec c <=> n > 0)  BY <1>3, Signs
<1>12. (a \preceq b <=> x <= y) /\ (a \prec b <=> x < y)  BY <1>1, <1>2 DEF Linear
<1>13. Linear(E)  BY Linearity
<1>14. /\ a \otimes c \preceq b \otimes c <=> x * n <= y * n
       /\ a \otimes c \prec b \otimes c <=> x * n < y * n
  BY <1>7, <1>8, <1>13 DEF Linear
<1>15. QED  BY <1>9, <1>10, <1>11, <1>12, <1>14

LEMMA ProductSigns ==
  ASSUME NEW a \in Fraction, NEW b \in Fraction
  PROVE  /\ Nil \preceq a /\ Nil \preceq b => Nil \preceq a \otimes b
         /\ Nil \prec a /\ Nil \prec b => Nil \prec a \otimes b
<1>1. Nil \in Fraction  BY WholeIs DEF Nil
<1>2. Nil \otimes b = Nil  BY ProductOfNil
<1>3. QED  BY <1>1, <1>2, ProductOrder

LEMMA QuotientTimes ==
  ASSUME NEW a \in Fraction, NEW b \in Fraction, Nil \prec b
  PROVE  a \oslash b \in Fraction /\ (a \oslash b) \otimes b = a
<1> DEFINE c == <<b[2], b[1]>>
<1>1. b[1] > 0 /\ b[1] \in Int /\ b[2] \in Int /\ b[2] > 0 /\ b[2] \in Positive
  BY Signs, FractionParts
<1>2. c \in Fraction /\ c[1] = b[2] /\ c[2] = b[1]  BY <1>1, InverseIs
<1>3. a \oslash b = a \otimes c  BY DEF \oslash
<1> HIDE DEF c
<1>4. a \otimes c \in Fraction  BY <1>2, ProductValue
<1>5. c \otimes b = One
  <2>1. Is(c, b[2], b[1]) /\ Is(b, b[1], b[2])  BY <1>2, IsItself
  <2>2. Is(c \otimes b, b[2] * b[1], b[1] * b[2])  BY <2>1, IsProduct
  <2>3. PICK k \in Positive : k = b[1] * b[2] /\ k = b[2] * b[1]
    <3>1. b[1] * b[2] > 0 /\ b[1] * b[2] \in Int /\ b[1] * b[2] = b[2] * b[1]
      BY <1>1
    <3>2. QED  BY <3>1 DEF Positive
  <2>4. One \in Fraction /\ One[1] = 1 /\ One[2] = 1  BY WholeIs DEF One
  <2>5. Is(One, k, k)  BY <2>4 DEF Is, Positive
  <2>6. QED  BY <2>2, <2>3, <2>5, IsEqual
<1>6. (a \otimes c) \otimes b = a \otimes (c \otimes b)  BY <1>2, ProductAssociates
<1>7. QED  BY <1>3, <1>4, <1>5, <1>6, ProductOfOne

(* A quotient is what its product says.                                     *)
LEMMA QuotientIs ==
  ASSUME NEW a \in Fraction, NEW b \in Fraction, NEW c \in Fraction,
         Nil \prec b, c \otimes b = a
  PROVE  a \oslash b = c
<1>1. a \oslash b \in Fraction /\ (a \oslash b) \otimes b = a  BY QuotientTimes
<1>2. PICK q \in Fraction : q = a \oslash b /\ q \otimes b = c \otimes b  BY <1>1
<1>3. ~(q \prec c) /\ ~(c \prec q)
  <2>1. ~(q \otimes b \prec q \otimes b)
    <3>1. q \otimes b \in Fraction  BY ProductValue
    <3>2. PICK D \in Positive : Linear(D) /\ q \otimes b \in Over(D)  BY <3>1, OverTwo
    <3>3. QED  BY <3>2 DEF Linear
  <2>2. QED  BY <1>2, <2>1, ProductOrder
<1>4. q = c
  <2>1. PICK D \in Positive : Linear(D) /\ q \in Over(D) /\ c \in Over(D)  BY OverTwo
  <2>2. QED  BY <1>3, <2>1 DEF Linear
<1>5. QED  BY <1>2, <1>4

LEMMA QuotientOrder ==
  ASSUME NEW a \in Fraction, NEW b \in Fraction, NEW c \in Fraction, Nil \prec b
  PROVE  /\ c \prec a \oslash b <=> c \otimes b \prec a
         /\ a \oslash b \prec c <=> a \prec c \otimes b
  BY QuotientTimes, ProductOrder

LEMMA QuotientSigns ==
  ASSUME NEW a \in Fraction, NEW b \in Fraction, Nil \prec b
  PROVE  /\ Nil \preceq a => Nil \preceq a \oslash b
         /\ Nil \prec a => Nil \prec a \oslash b
<1>1. Nil \in Fraction  BY WholeIs DEF Nil
<1>2. Nil \otimes b = Nil  BY ProductOfNil
<1>3. QED  BY <1>1, <1>2, QuotientOrder DEF \preceq

-----------------------------------------------------------------------------
(* The order of the fractions, whole numbers among them, and rounding down. *)

(* Eight fractions over one denominator. A name for that lets a proof say    *)
(* which ones, where the provers would otherwise try all it knows.           *)
Together(a, b, c, d, e, f, g, h) ==
  \E D \in Positive :
     /\ Linear(D)
     /\ a \in Over(D) /\ b \in Over(D) /\ c \in Over(D) /\ d \in Over(D)
     /\ e \in Over(D) /\ f \in Over(D) /\ g \in Over(D) /\ h \in Over(D)

LEMMA OverEight ==
  ASSUME NEW a \in Fraction, NEW b \in Fraction, NEW c \in Fraction, NEW d \in Fraction,
         NEW e \in Fraction, NEW f \in Fraction, NEW g \in Fraction, NEW h \in Fraction
  PROVE  Together(a, b, c, d, e, f, g, h)
<1>1. PICK C \in Positive : a \in Over(C) /\ b \in Over(C) /\ c \in Over(C) /\ d \in Over(C)
  BY OverFour
<1>2. PICK E \in Positive : Over(C) \subseteq Over(E) /\ e \in Over(E)  BY OverOneMore
<1>3. PICK F \in Positive : Over(E) \subseteq Over(F) /\ f \in Over(F)  BY OverOneMore
<1>4. PICK G \in Positive : Over(F) \subseteq Over(G) /\ g \in Over(G)  BY OverOneMore
<1>5. PICK D \in Positive : Over(G) \subseteq Over(D) /\ h \in Over(D)  BY OverOneMore
<1>6. QED  BY <1>1, <1>2, <1>3, <1>4, <1>5, Linearity DEF Together

(* The order is total, and sums keep it.                                    *)
LEMMA Total ==
  ASSUME NEW a \in Fraction, NEW b \in Fraction, NEW c \in Fraction
  PROVE  /\ a \preceq b /\ b \preceq c => a \preceq c
         /\ a \prec b /\ b \preceq c => a \prec c
         /\ a \preceq b /\ b \prec c => a \prec c
         /\ a \prec b => a \preceq b
         /\ a \preceq b <=> a \prec b \/ a = b
         /\ ~(a \prec b) <=> b \preceq a
         /\ ~(a \prec a)
<1>1. PICK D \in Positive : Linear(D) /\ a \in Over(D) /\ b \in Over(D) /\ c \in Over(D)
  BY OverFour
<1>2. QED  BY <1>1 DEF Linear

LEMMA SumOrder ==
  ASSUME NEW a \in Fraction, NEW b \in Fraction, NEW c \in Fraction, NEW d \in Fraction
  PROVE  /\ a \oplus b \in Fraction /\ a \ominus b \in Fraction
         /\ a \preceq c /\ b \preceq d => a \oplus b \preceq c \oplus d
         /\ a \preceq c /\ b \prec d => a \oplus b \prec c \oplus d
         /\ a \preceq c /\ d \preceq b => a \ominus b \preceq c \ominus d
<1>1. PICK D \in Positive :
        Linear(D) /\ a \in Over(D) /\ b \in Over(D) /\ c \in Over(D) /\ d \in Over(D)
  BY OverFour
<1>2. QED  BY <1>1 DEF Linear

LEMMA SumLaws ==
  ASSUME NEW a \in Fraction, NEW b \in Fraction
  PROVE  /\ a \oplus b = b \oplus a /\ a \oplus Nil = a /\ Nil \oplus a = a
              /\ a \ominus Nil = a
         /\ a \ominus a = Nil
         /\ (a \ominus b) \oplus b = a /\ (a \oplus b) \ominus b = a
         /\ Nil \preceq a \ominus b <=> b \preceq a
         /\ Nil \prec a \ominus b <=> b \prec a
         /\ a \ominus b = Nil <=> a = b
<1>1. PICK D \in Positive : Linear(D) /\ a \in Over(D) /\ b \in Over(D)  BY OverTwo
<1>2. PICK s \in Over(D), d \in Over(D), z \in Over(D) :
        /\ s = a \oplus b /\ Num(s, D) = Num(a, D) + Num(b, D)
        /\ d = a \ominus b /\ Num(d, D) = Num(a, D) - Num(b, D)
        /\ z = Nil /\ Num(z, D) = 0
  BY <1>1 DEF Linear
<1>3. a \oplus b = b \oplus a /\ a \oplus z = a /\ z \oplus a = a /\ a \ominus z = a
  BY <1>1, <1>2 DEF Linear
<1>4. a \ominus a = z /\ d \oplus b = a /\ s \ominus b = a
  BY <1>1, <1>2 DEF Linear
<1>5. /\ z \preceq d <=> b \preceq a
      /\ z \prec d <=> b \prec a
      /\ d = z <=> a = b
  BY <1>1, <1>2 DEF Linear
<1>6. QED  BY <1>2, <1>3, <1>4, <1>5

LEMMA LeastIs ==
  ASSUME NEW a \in Fraction, NEW b \in Fraction
  PROVE  /\ Least(a, b) \in {a, b} /\ Least(a, b) \preceq a /\ Least(a, b) \preceq b
         /\ Most(a, b) \in {a, b} /\ a \preceq Most(a, b) /\ b \preceq Most(a, b)
  BY Total DEF Least, Most

LEMMA WholeOrder ==
  ASSUME NEW i \in Int, NEW j \in Int
  PROVE  /\ Whole(i) \prec Whole(j) <=> i < j
         /\ Whole(i) \preceq Whole(j) <=> i <= j
<1>1. /\ Whole(i) \in Fraction /\ Whole(i)[1] = i /\ Whole(i)[2] = 1
      /\ Whole(j) \in Fraction /\ Whole(j)[1] = j /\ Whole(j)[2] = 1
  BY WholeIs
<1> DEFINE a == Whole(i)  b == Whole(j)
<1>2. a \in Fraction /\ b \in Fraction /\ a[1] = i /\ a[2] = 1 /\ b[1] = j /\ b[2] = 1
  BY <1>1
<1> HIDE DEF a, b
<1>3. (a \prec b <=> i < j) /\ (a \preceq b <=> i <= j)  BY <1>2, Order
<1>4. QED  BY <1>3 DEF a, b

LEMMA FloorBounds ==
  ASSUME NEW a \in Fraction
  PROVE  /\ Floor(a) \in Int
         /\ \A n \in Int : Whole(n) \preceq a <=> n <= Floor(a)
<1>1. a[1] \in Int /\ a[2] \in Positive /\ a[2] \in Int /\ a[2] > 0  BY FractionParts
<1>2. PICK q \in Int, r \in Nat : Floor(a) = q /\ r < a[2] /\ a[1] = q * a[2] + r
  BY <1>1, Division DEF Floor
<1>3. ASSUME NEW n \in Int PROVE Whole(n) \preceq a <=> n <= q
  <2>1. Whole(n) \in Fraction /\ Whole(n)[1] = n /\ Whole(n)[2] = 1  BY WholeIs
  <2>2. Whole(n) \preceq a <=> n * a[2] <= a[1]
    <3> DEFINE b == Whole(n)
    <3>1. b \in Fraction /\ b[1] = n /\ b[2] = 1  BY <2>1
    <3> HIDE DEF b
    <3>2. b \preceq a <=> b[1] * a[2] <= a[1] * b[2]  BY <3>1, Order
    <3>3. b \preceq a <=> n * a[2] <= a[1]  BY <1>1, <3>1, <3>2
    <3>4. QED  BY <3>3 DEF b
  <2>3. ASSUME n <= q PROVE n * a[2] <= a[1]
    <3>1. PICK k \in Nat : q = n + k  BY <2>3
    <3>2. q * a[2] = n * a[2] + k * a[2]  BY <1>1, <3>1
    <3>3. k * a[2] >= 0 /\ k * a[2] \in Int /\ n * a[2] \in Int  BY <1>1
    <3>4. QED  BY <1>1, <1>2, <3>2, <3>3
  <2>4. ASSUME ~(n <= q) PROVE ~(n * a[2] <= a[1])
    <3>1. PICK k \in Nat : n = q + 1 + k  BY <2>4
    <3>2. n * a[2] = q * a[2] + a[2] + k * a[2]  BY <1>1, <3>1
    <3>3. k * a[2] >= 0 /\ k * a[2] \in Int /\ q * a[2] \in Int  BY <1>1
    <3>4. QED  BY <1>1, <1>2, <3>2, <3>3
  <2>5. QED  BY <2>2, <2>3, <2>4
<1>4. QED  BY <1>2, <1>3

LEMMA WholeSum ==
  ASSUME NEW i \in Int, NEW j \in Int
  PROVE  Whole(i) \oplus Whole(j) = Whole(i + j) /\ Whole(i) \ominus Whole(j) = Whole(i - j)
<1> DEFINE a == Whole(i)  b == Whole(j)  c == Whole(i + j)  d == Whole(i - j)
<1>1. /\ a \in Fraction /\ b \in Fraction /\ a[1] = i /\ a[2] = 1 /\ b[1] = j /\ b[2] = 1
      /\ c \in Fraction /\ c[1] = i + j /\ c[2] = 1
      /\ d \in Fraction /\ d[1] = i - j /\ d[2] = 1
  BY WholeIs
<1> HIDE DEF a, b, c, d
<1>2. 1 \in Positive /\ Linear(1)  BY Linearity DEF Positive
<1>3. /\ a \in Over(1) /\ Num(a, 1) = i /\ b \in Over(1) /\ Num(b, 1) = j
      /\ c \in Over(1) /\ Num(c, 1) = i + j /\ d \in Over(1) /\ Num(d, 1) = i - j
  BY <1>1, <1>2, NumIsUnique
<1>4. PICK x \in Over(1), y \in Over(1) :
        x = a \oplus b /\ Num(x, 1) = i + j /\ y = a \ominus b /\ Num(y, 1) = i - j
  BY <1>2, <1>3 DEF Linear
<1>6. x = c /\ y = d  BY <1>2, <1>3, <1>4 DEF Linear
<1>7. QED  BY <1>4, <1>6 DEF a, b, c, d

LEMMA WholeProduct ==
  ASSUME NEW i \in Int, NEW j \in Int
  PROVE  Whole(i) \otimes Whole(j) = Whole(i * j)
<1> DEFINE a == Whole(i)  b == Whole(j)
<1>1. Is(a, i, 1) /\ Is(b, j, 1)  BY WholeIs DEF Is, Positive
<1>2. Is(Whole(i * j), i * j, 1)
  <2>1. i * j \in Int  OBVIOUS
  <2>2. QED  BY <2>1, WholeIs DEF Is, Positive
<1> HIDE DEF a, b
<1>3. Is(a \otimes b, i * j, 1 * 1)  BY <1>1, IsProduct
<1>4. Is(a \otimes b, i * j, 1)  BY <1>3
<1>5. a \otimes b = Whole(i * j)  BY <1>2, <1>4, IsEqual
<1>6. QED  BY <1>5 DEF a, b

(* Rounding down keeps the order, and a whole apart.                        *)
LEMMA FloorOrder ==
  ASSUME NEW a \in Fraction, NEW b \in Fraction
  PROVE  /\ a \preceq b => Floor(a) <= Floor(b)
         /\ a \oplus One \preceq b => Floor(a) < Floor(b)
         /\ Floor(a) \in Int /\ Floor(b) \in Int
<1>1. PICK m \in Int : m = Floor(a)  BY FloorBounds
<1>2. PICK n \in Int : n = Floor(b)  BY FloorBounds
<1>3. Whole(m) \preceq a  BY <1>1, FloorBounds
<1>4. Whole(m) \in Fraction /\ One \in Fraction  BY WholeIs DEF One
<1>5. a \preceq b => Whole(m) \preceq b  BY <1>3, <1>4, Total
<1>6. ASSUME a \oplus One \preceq b PROVE Whole(m + 1) \preceq b
  <2>1. PICK c \in Fraction : c = Whole(m)  BY <1>4
  <2>2. One \preceq One  BY <1>4, Total
  <2>3. c \oplus One \preceq a \oplus One /\ c \oplus One \in Fraction
          /\ a \oplus One \in Fraction
    BY <1>3, <1>4, <2>1, <2>2, SumOrder
  <2>4. c \oplus One \preceq b  BY <1>6, <2>3, Total
  <2>5. QED  BY <2>1, <2>4, WholeSum DEF One
<1>7. (a \preceq b => m <= n) /\ (a \oplus One \preceq b => m + 1 <= n)
  BY <1>2, <1>5, <1>6, FloorBounds
<1>8. QED  BY <1>1, <1>2, <1>7

------------------------------------------------------------------------------
(* A strict order on a finite set has a least element: one with the fewest  *)
(* below it.                                                                *)
Strict(S, R) ==
  /\ \A v \in S : <<v, v>> \notin R
  /\ \A u, v, w \in S : <<u, v>> \in R /\ <<v, w>> \in R => <<u, w>> \in R

LEMMA Minimal ==
  ASSUME NEW S, IsFiniteSet(S), S # {}, NEW R, Strict(S, R)
  PROVE  \E v \in S : \A w \in S : <<w, v>> \notin R
<1> DEFINE Under(v) == {w \in S : <<w, v>> \in R}
           T == {Cardinality(Under(v)) : v \in S}
<1>1. \A v \in S : IsFiniteSet(Under(v)) /\ Cardinality(Under(v)) \in Nat
  BY FS_Subset, FS_CardinalityType
<1>2. T \in SUBSET Nat /\ T # {}  BY <1>1
<1>3. PICK m \in T : \A k \in T : m <= k  BY <1>2, LeastNumber
<1>4. PICK v \in S : m = Cardinality(Under(v))  OBVIOUS
<1>5. ASSUME NEW w \in S, <<w, v>> \in R PROVE FALSE
  <2>1. Under(w) \subseteq Under(v) /\ w \in Under(v) /\ w \notin Under(w)
    BY <1>5 DEF Strict
  <2>2. Under(w) # Under(v)  BY <2>1
  <2>3. Cardinality(Under(w)) < Cardinality(Under(v))
    <3> HIDE DEF Under
    <3>1. Cardinality(Under(w)) <= Cardinality(Under(v))
             /\ (Cardinality(Under(w)) = Cardinality(Under(v)) => Under(w) = Under(v))
      BY <1>1, <2>1, FS_Subset
    <3>2. Cardinality(Under(w)) \in Nat /\ Cardinality(Under(v)) \in Nat  BY <1>1
    <3>3. QED  BY <2>2, <3>1, <3>2
  <2>4. Cardinality(Under(w)) \in T /\ Cardinality(Under(w)) \in Nat  BY <1>1
  <2>5. m <= Cardinality(Under(w)) /\ m \in Nat  BY <1>1, <1>3, <1>4, <2>4
  <2>6. QED  BY <1>4, <2>3, <2>4, <2>5
<1>6. QED  BY <1>5

LEMMA FromZeroUp ==
  ASSUME NEW T \in SUBSET Nat, 0 \in T, \A n \in T : n + 1 \in T
  PROVE  T = Nat
<1> SUFFICES ASSUME T # Nat PROVE FALSE  OBVIOUS
<1>1. Nat \ T \in SUBSET Nat /\ Nat \ T # {}  OBVIOUS
<1>2. PICK m \in Nat \ T : \A k \in Nat \ T : m <= k  BY <1>1, LeastNumber
<1>3. m # 0 /\ m - 1 \in Nat  OBVIOUS
<1>4. m - 1 \in T  BY <1>2, <1>3
<1>5. QED  BY <1>3, <1>4

-----------------------------------------------------------------------------
(* Walking a book (VWAP fill): amounts, prices and what one level takes.    *)

LEMMA Zero == /\ Nil \in Fraction /\ One \in Fraction /\ Nil \in Amount /\ One \in Price
              /\ Nil \prec One /\ Nil \preceq Nil
  BY WholeIs, WholeOrder, Total DEF Nil, One, Amount, Price

LEMMA NotNone == \A a \in Fraction : a # None
  BY FractionParts DEF None

LEMMA Amounts ==
  /\ Price \subseteq Amount /\ Amount \subseteq Fraction
  /\ \A a, b \in Amount : a \oplus b \in Amount /\ a \otimes b \in Amount
  /\ \A a \in Amount, b \in Price : a \oplus b \in Price /\ b \oplus a \in Price
       /\ a \oslash b \in Amount
  /\ \A a, b \in Price : a \otimes b \in Price /\ a \oslash b \in Price
<1>1. Price \subseteq Amount /\ Amount \subseteq Fraction  BY Total, Zero DEF Price, Amount
<1>2. ASSUME NEW a \in Amount, NEW b \in Amount
      PROVE  a \oplus b \in Amount /\ a \otimes b \in Amount
  <2>1. a \oplus b \in Fraction /\ a \otimes b \in Fraction
    BY SumOrder, ProductValue DEF Amount
  <2>2. Nil \oplus Nil \preceq a \oplus b  BY Zero, SumOrder DEF Amount
  <2>3. QED  BY <2>1, <2>2, Zero, SumLaws, ProductSigns DEF Amount
<1>3. ASSUME NEW a \in Amount, NEW b \in Price
      PROVE  a \oplus b \in Price /\ b \oplus a \in Price /\ a \oslash b \in Amount
  <2>1. a \in Fraction /\ b \in Fraction /\ Nil \preceq a /\ Nil \prec b  BY DEF Amount, Price
  <2>2. a \oplus b \in Fraction /\ a \oslash b \in Fraction /\ a \oplus b = b \oplus a
    BY <2>1, SumOrder, SumLaws, QuotientTimes
  <2>3. Nil \oplus Nil \prec a \oplus b /\ Nil \oplus Nil = Nil
    BY <2>1, Zero, SumOrder, SumLaws
  <2>4. QED  BY <2>1, <2>2, <2>3, QuotientSigns DEF Amount, Price
<1>4. ASSUME NEW a \in Price, NEW b \in Price
      PROVE  a \otimes b \in Price /\ a \oslash b \in Price
  BY ProductValue, ProductSigns, QuotientTimes, QuotientSigns DEF Price
<1>5. QED  BY <1>1, <1>2, <1>3, <1>4

LEMMA ShelfIs ==
  ASSUME NEW levels \in Shelf
  PROVE  /\ Len(levels) \in Nat /\ Len(levels) >= 1 /\ DOMAIN levels = 1..Len(levels)
         /\ \A i \in 1..Len(levels) : levels[i][1] \in Price /\ levels[i][2] \in Price
<1>1. levels \in Seq(Price \X Price) /\ levels # <<>>  BY DEF Shelf
<1>2. Len(levels) \in Nat /\ DOMAIN levels = 1..Len(levels)  BY <1>1
<1>3. Len(levels) # 0  BY <1>1
<1>4. \A i \in 1..Len(levels) : levels[i] \in Price \X Price  BY <1>1, <1>2
<1>5. QED  BY <1>2, <1>3, <1>4

LEMMA WalkedIs ==
  ASSUME NEW levels, NEW size, Len(levels) \in Nat
  PROVE  Walked(levels, size) =
            [i \in 0..Len(levels) |-> IF i = 0 THEN [left |-> size, paid |-> Nil]
                                      ELSE Fill(Walked(levels, size)[i - 1], levels[i])]
<1> DEFINE start == [left |-> size, paid |-> Nil]
           Upto(n, g) == g = [k \in 0..n |-> IF k
              = 0 THEN start ELSE Fill(g[k - 1], levels[k])]
           T == {n \in Nat : \E g : Upto(n, g)}
<1>1. 0 \in T
  <2>1. Upto(0, [k \in 0..0 |-> start])  OBVIOUS
  <2>2. QED  BY <2>1
<1>2. ASSUME NEW n \in T PROVE n + 1 \in T
  <2>1. PICK g : Upto(n, g)  BY <1>2
  <2> DEFINE h == [k \in 0..(n + 1) |-> IF k = n + 1 THEN Fill(g[n], levels[n + 1]) ELSE g[k]]
  <2>2. n \in Nat  OBVIOUS
  <2>3. ASSUME NEW k \in 0..(n + 1)
        PROVE  h[k] = IF k = 0 THEN start ELSE Fill(h[k - 1], levels[k])
    <3>1. CASE k = 0  BY <2>1, <2>2, <3>1
    <3>2. CASE k \in 1..n
      <4>1. h[k] = g[k] /\ h[k - 1] = g[k - 1] /\ k \in 0..n /\ k # 0  BY <2>2, <3>2
      <4>2. g[k] = Fill(g[k - 1], levels[k])  BY <2>1, <4>1
      <4>3. QED  BY <4>1, <4>2
    <3>3. CASE k = n + 1
      <4>1. h[k] = Fill(g[n], levels[n + 1]) /\ h[k - 1] = g[n] /\ k # 0  BY <2>2, <3>3
      <4>2. QED  BY <3>3, <4>1
    <3>4. QED  BY <2>2, <3>1, <3>2, <3>3
  <2>4. h = [k \in 0..(n + 1) |-> IF k = 0 THEN start ELSE Fill(h[k - 1], levels[k])]  BY <2>3
  <2> HIDE DEF h
  <2>5. Upto(n + 1, h)  BY <2>4
  <2>6. QED  BY <2>2, <2>5
<1>3. \E g : Upto(Len(levels), g)
  <2>1. T \in SUBSET Nat  OBVIOUS
  <2> HIDE DEF T
  <2>2. T = Nat  BY <1>1, <1>2, <2>1, FromZeroUp
  <2>3. Len(levels) \in T  BY <2>2
  <2>4. QED  BY <2>3 DEF T
<1>4. QED  BY <1>3 DEF Walked

(* One level fills what it has of what is left.                             *)
Account == [left : Amount, paid : Amount]

LEMMA FillIs ==
  ASSUME NEW acc \in Account, NEW l, l[1] \in Price, l[2] \in Price
  PROVE  \E x \in Amount :
            /\ x = Least(acc.left, l[2]) /\ x \preceq acc.left /\ x \preceq l[2]
            /\ Fill(acc, l) \in Account
            /\ Fill(acc, l).left = acc.left \ominus x
            /\ Fill(acc, l).paid = acc.paid \oplus x \otimes l[1]
            /\ Nil \prec acc.left => x \in Price
<1>0. acc.left \in Amount /\ acc.paid \in Amount  BY DEF Account
<1>1. PICK x : x = Least(acc.left, l[2])  OBVIOUS
<1>2. x \in Amount /\ x \preceq acc.left /\ x \preceq l[2]
        /\ (Nil \prec acc.left => x \in Price)
  BY <1>0, <1>1, LeastIs, Amounts DEF Amount, Price
<1>3. acc.left \ominus x \in Amount /\ acc.paid \oplus x \otimes l[1] \in Amount
  <2>1. acc.left \ominus x \in Fraction /\ Nil \preceq acc.left \ominus x
    BY <1>0, <1>2, SumOrder, SumLaws DEF Amount
  <2>2. x \otimes l[1] \in Amount  BY <1>2, Amounts
  <2>3. QED  BY <1>0, <2>1, <2>2, Amounts DEF Amount
<1>4. Fill(acc, l) = [left |-> acc.left \ominus x, paid |-> acc.paid \oplus x \otimes l[1]]
  BY <1>1 DEF Fill, Take
<1>5. QED  BY <1>1, <1>2, <1>3, <1>4 DEF Account

LEMMA WalkedTypes ==
  ASSUME NEW levels \in Shelf, NEW size \in Amount
  PROVE  /\ Walked(levels, size)[0] = [left |-> size, paid |-> Nil]
         /\ \A i \in 1..Len(levels) :
               Walked(levels, size)[i] = Fill(Walked(levels, size)[i - 1], levels[i])
         /\ \A i \in 0..Len(levels) : Walked(levels, size)[i] \in Account
<1> DEFINE n == Len(levels)  w == Walked(levels, size)
           T == {i \in Nat : i <= n => w[i] \in Account}
<1>0. n \in Nat /\ n >= 1 /\ \A i \in 1..n : levels[i][1] \in Price /\ levels[i][2] \in Price
  BY ShelfIs
<1>1. w = [i \in 0..n |-> IF i = 0 THEN [left |-> size, paid |-> Nil]
                          ELSE Fill(w[i - 1], levels[i])]
  BY <1>0, WalkedIs
<1> HIDE DEF w, n
<1>2. w[0] = [left |-> size, paid |-> Nil]  BY <1>0, <1>1
<1>3. \A i \in 1..n : w[i] = Fill(w[i - 1], levels[i])  BY <1>0, <1>1
<1>4. 0 \in T  BY <1>2, Zero DEF Account
<1>5. ASSUME NEW i \in T PROVE i + 1 \in T
  <2> SUFFICES ASSUME i + 1 <= n PROVE w[i + 1] \in Account  OBVIOUS
  <2>1. w[i] \in Account /\ i + 1 \in 1..n  BY <1>0
  <2>2. w[i + 1] = Fill(w[i], levels[i + 1])  BY <1>3, <2>1
  <2>3. QED  BY <1>0, <2>1, <2>2, FillIs
<1>6. T = Nat
  <2>1. T \in SUBSET Nat  OBVIOUS
  <2> HIDE DEF T
  <2>2. QED  BY <1>4, <1>5, <2>1, FromZeroUp
<1>7. \A i \in 0..n : w[i] \in Account  BY <1>0, <1>6
<1>8. QED  BY <1>2, <1>3, <1>7 DEF w, n

(* What was bought is paid at least the best price, and what was sold at    *)
(* most; a walk pays something.                                             *)
LEMMA FillKeepsWorth ==
  ASSUME NEW acc \in Account, NEW size \in Amount, NEW p \in Price,
         NEW l, l[1] \in Price, l[2] \in Price
  PROVE  /\ /\ p \preceq l[1]
            /\ p \otimes (size \ominus acc.left) \preceq acc.paid
            => p \otimes (size \ominus Fill(acc, l).left) \preceq Fill(acc, l).paid
         /\ /\ l[1] \preceq p
            /\ acc.paid \preceq p \otimes (size \ominus acc.left)
            => Fill(acc, l).paid \preceq p \otimes (size \ominus Fill(acc, l).left)
<1>1. PICK x \in Amount :
        /\ Fill(acc, l).left = acc.left \ominus x
        /\ Fill(acc, l).paid = acc.paid \oplus x \otimes l[1]
  BY FillIs
<1>2. PICK left, paid, price : left = acc.left /\ paid = acc.paid /\ price = l[1]  OBVIOUS
<1>3. /\ left \in Fraction /\ paid \in Fraction /\ price \in Fraction /\ x \in Fraction
      /\ size \in Fraction /\ p \in Fraction /\ Nil \preceq x
  BY <1>2 DEF Account, Amount, Price
<1>4. size \ominus (left \ominus x) = (size \ominus left) \oplus x
  <2>1. PICK D \in Positive : Linear(D) /\ size \in Over(D) /\ left \in Over(D)
          /\ x \in Over(D)
    BY <1>3, OverFour
  <2>2. QED  BY <2>1 DEF Linear
<1>5. PICK taken : taken = size \ominus left  OBVIOUS
<1>6. taken \in Fraction  BY <1>3, <1>5, SumOrder
<1>7. p \otimes (taken \oplus x) = (p \otimes taken) \oplus (p \otimes x)
  BY <1>3, <1>6, ProductDistributes
<1>8. p \otimes x = x \otimes p /\ p \otimes x \in Fraction /\ x \otimes price \in Fraction
      /\ p \otimes taken \in Fraction /\ price \otimes x = x \otimes price
  BY <1>3, <1>6, ProductCommutes, ProductValue
<1>9. /\ p \preceq price => p \otimes x \preceq x \otimes price
      /\ price \preceq p => x \otimes price \preceq p \otimes x
  BY <1>3, <1>8, ProductOrder
<1>10. /\ p \preceq price /\ p \otimes taken \preceq paid
            => (p \otimes taken) \oplus (p \otimes x) \preceq paid \oplus x \otimes price
       /\ price \preceq p /\ paid \preceq p \otimes taken
            => paid \oplus x \otimes price \preceq (p \otimes taken) \oplus (p \otimes x)
  BY <1>3, <1>8, <1>9, SumOrder
<1>11. QED  BY <1>1, <1>2, <1>4, <1>5, <1>7, <1>10

LEMMA WalkWorth ==
  ASSUME NEW levels \in Shelf, NEW size \in Price, NEW p \in Price
  PROVE  /\ Walk(levels, size).left \in Amount /\ Walk(levels, size).paid \in Price
         /\ (\A i \in 1..Len(levels) : p \preceq levels[i][1]) /\ Walk(levels, size).left = Nil
              => p \otimes size \preceq Walk(levels, size).paid
         /\ (\A i \in 1..Len(levels) : levels[i][1] \preceq p) /\ Walk(levels, size).left = Nil
              => Walk(levels, size).paid \preceq p \otimes size
<1> DEFINE n == Len(levels)  w == Walked(levels, size)
           Rises == \A i \in 1..n : p \preceq levels[i][1]
           Falls == \A i \in 1..n : levels[i][1] \preceq p
           More(i) == p \otimes (size \ominus w[i].left) \preceq w[i].paid
           Less_(i) == w[i].paid \preceq p \otimes (size \ominus w[i].left)
           T == {i \in Nat : i <= n => /\ Rises => More(i)
                                       /\ Falls => Less_(i)
                                       /\ i > 0 => w[i].paid \in Price}
<1>0. n \in Nat /\ n >= 1 /\ \A i \in 1..n : levels[i][1] \in Price /\ levels[i][2] \in Price
  BY ShelfIs
<1>a. size \in Amount /\ size \in Fraction /\ p \in Fraction  BY Amounts DEF Price
<1>1. /\ w[0] = [left |-> size, paid |-> Nil]
      /\ \A i \in 1..n : w[i] = Fill(w[i - 1], levels[i])
      /\ \A i \in 0..n : w[i] \in Account
  BY <1>a, WalkedTypes
<1> HIDE DEF w, n
<1>2. 0 \in T
  <2>1. w[0].left = size /\ w[0].paid = Nil  BY <1>1
  <2>2. size \ominus size = Nil  BY <1>a, SumLaws
  <2>3. p \otimes Nil = Nil  BY <1>a, ProductOfNil
  <2>4. More(0) /\ Less_(0)  BY <2>1, <2>2, <2>3, Zero
  <2>5. QED  BY <2>4
<1>3. ASSUME NEW i \in T PROVE i + 1 \in T
  <2> SUFFICES ASSUME i + 1 <= n
               PROVE  /\ Rises => More(i + 1)
                      /\ Falls => Less_(i + 1)
                      /\ w[i + 1].paid \in Price
    OBVIOUS
  <2>1. w[i] \in Account /\ i + 1 \in 1..n /\ i \in 0..n  BY <1>0, <1>1
  <2>2. w[i + 1] = Fill(w[i], levels[i + 1])  BY <1>1, <2>1
  <2>3. levels[i + 1][1] \in Price /\ levels[i + 1][2] \in Price  BY <1>0, <2>1
  <2>4. /\ Rises => More(i)
        /\ Falls => Less_(i)
        /\ i > 0 => w[i].paid \in Price
    BY <1>0
  <2>5. Rises => More(i + 1)
    BY <1>a, <2>1, <2>2, <2>3, <2>4, FillKeepsWorth
  <2>6. Falls => Less_(i + 1)
    BY <1>a, <2>1, <2>2, <2>3, <2>4, FillKeepsWorth
  <2>7. w[i + 1].paid \in Price
    <3>1. PICK x \in Amount :
            /\ Fill(w[i], levels[i + 1]).paid = w[i].paid \oplus x \otimes levels[i + 1][1]
            /\ Nil \prec w[i].left => x \in Price
      BY <2>1, <2>3, FillIs
    <3>2. w[i].left \in Amount /\ w[i].paid \in Amount  BY <2>1 DEF Account
    <3>3. CASE i = 0
      <4>1. w[0].left = size  BY <1>1
      <4>2. Nil \prec w[i].left  BY <3>3, <4>1 DEF Price
      <4>3. x \otimes levels[i + 1][1] \in Price  BY <2>3, <3>1, <4>2, Amounts
      <4>4. QED  BY <2>2, <3>1, <3>2, <4>3, Amounts
    <3>4. CASE i > 0
      <4>1. w[i].paid \in Price  BY <2>4, <3>4
      <4>2. x \otimes levels[i + 1][1] \in Amount  BY <2>3, Amounts
      <4>3. QED  BY <2>2, <3>1, <4>1, <4>2, Amounts
    <3>5. QED  BY <3>3, <3>4
  <2>8. QED  BY <2>5, <2>6, <2>7
<1>4. T = Nat
  <2>1. T \in SUBSET Nat  OBVIOUS
  <2> HIDE DEF T
  <2>2. QED  BY <1>2, <1>3, <2>1, FromZeroUp
<1>5. (Rises => More(n)) /\ (Falls => Less_(n)) /\ w[n].paid \in Price /\ w[n].left \in Amount
  BY <1>0, <1>1, <1>4 DEF Account
<1>6. size \ominus Nil = size  BY <1>a, SumLaws
<1>7. QED  BY <1>5, <1>6 DEF Walk, w, n

(* Two walks along one shelf: while the smaller one lasts, they take the    *)
(* same; from then on every coin costs more than any of those it took.      *)
LEMMA BothTake ==
  ASSUME NEW R \in Fraction, NEW P \in Fraction, NEW q \in Fraction, NEW p \in Fraction,
         NEW t \in Amount, NEW x \in Fraction, NEW y \in Fraction,
         R \preceq q \otimes t, R \preceq P, q \preceq p
  PROVE  /\ R \oplus x \otimes p \preceq p \otimes (t \oplus x)
         /\ (R \oplus x \otimes p) \oplus p \otimes ((t \oplus y) \ominus (t \oplus x))
               \preceq P \oplus y \otimes p
<1>0. t \in Fraction /\ Nil \preceq t  BY DEF Amount
<1>1. PICK a \in Fraction, b \in Fraction, c \in Fraction, d \in Fraction :
        a = q \otimes t /\ b = p \otimes t /\ c = x \otimes p /\ d = y \otimes p
  BY <1>0, ProductValue
<1>2. a \preceq b  BY <1>0, <1>1, ProductOrder
<1>3. p \otimes (t \oplus x) = b \oplus c
  BY <1>0, <1>1, ProductDistributes, ProductCommutes
<1>4. (t \oplus y) \ominus (t \oplus x) = y \ominus x
  <2>1. PICK D \in Positive : Linear(D) /\ t \in Over(D) /\ x \in Over(D) /\ y \in Over(D)
    BY <1>0, OverFour
  <2>2. QED  BY <2>1 DEF Linear
<1>5. p \otimes (y \ominus x) = d \ominus c
  BY <1>1, ProductDistributes, ProductCommutes
<1>6. PICK D \in Positive : Linear(D) /\ R \in Over(D) /\ P \in Over(D) /\ a \in Over(D)
        /\ b \in Over(D) /\ c \in Over(D) /\ d \in Over(D)
  <2>1. Together(R, P, a, b, c, d, d, d)  BY <1>1, OverEight
  <2>2. QED  BY <2>1 DEF Together
<1>8. R \oplus c \preceq b \oplus c
  BY <1>1, <1>2, <1>6 DEF Linear
<1>9. (R \oplus c) \oplus (d \ominus c) \preceq P \oplus d
  BY <1>6 DEF Linear
<1>10. QED  BY <1>1, <1>3, <1>4, <1>5, <1>8, <1>9

LEMMA OneTakes ==
  ASSUME NEW R \in Fraction, NEW P \in Fraction, NEW q \in Fraction, NEW p \in Fraction,
         NEW t \in Fraction, NEW u \in Fraction, NEW y \in Amount,
         R \oplus q \otimes (u \ominus t) \preceq P, q \preceq p
  PROVE  R \oplus q \otimes ((u \oplus y) \ominus t) \preceq P \oplus y \otimes p
<1>0. y \in Fraction /\ Nil \preceq y /\ u \ominus t \in Fraction  BY SumOrder DEF Amount
<1>1. PICK a \in Fraction, b \in Fraction, c \in Fraction :
        a = q \otimes (u \ominus t) /\ b = q \otimes y /\ c = y \otimes p
  BY <1>0, ProductValue
<1>2. b \preceq c  BY <1>0, <1>1, ProductOrder, ProductCommutes
<1>3. (u \oplus y) \ominus t = (u \ominus t) \oplus y
  <2>1. PICK D \in Positive : Linear(D) /\ t \in Over(D) /\ u \in Over(D) /\ y \in Over(D)
    BY <1>0, OverFour
  <2>2. QED  BY <2>1 DEF Linear
<1>4. q \otimes ((u \ominus t) \oplus y) = a \oplus b
  BY <1>0, <1>1, ProductDistributes
<1>5. PICK D \in Positive : Linear(D) /\ R \in Over(D) /\ P \in Over(D) /\ a \in Over(D)
        /\ b \in Over(D) /\ c \in Over(D)
  <2>1. Together(R, P, a, b, c, c, c, c)  BY <1>1, OverEight
  <2>2. QED  BY <2>1 DEF Together
<1>7. R \oplus (a \oplus b) \preceq P \oplus c
  BY <1>1, <1>2, <1>5 DEF Linear
<1>8. QED  BY <1>1, <1>3, <1>4, <1>7

(* So the smaller one is not dearer on the average.                         *)
LEMMA SmallerIsCheaper ==
  ASSUME NEW R \in Fraction, NEW P \in Fraction, NEW q \in Fraction,
         NEW c \in Amount, NEW s \in Fraction, c \preceq s,
         R \preceq q \otimes c, R \oplus q \otimes (s \ominus c) \preceq P
  PROVE  R \otimes s \preceq P \otimes c
<1>0. c \in Fraction /\ Nil \preceq c  BY DEF Amount
<1>1. PICK r : r = s \ominus c  OBVIOUS
<1>2. r \in Fraction /\ Nil \preceq r /\ c \oplus r = s
  <2>1. r \in Fraction /\ Nil \preceq r  BY <1>0, <1>1, SumOrder, SumLaws
  <2>2. r \oplus c = s /\ r \oplus c = c \oplus r  BY <1>0, <1>1, <2>1, SumLaws
  <2>3. QED  BY <2>1, <2>2
<1>3. R \otimes s = (R \otimes c) \oplus (R \otimes r)  BY <1>0, <1>2, ProductDistributes
<1>4. PICK a : a = q \otimes r  OBVIOUS
<1>5. PICK b : b = q \otimes c  OBVIOUS
<1>6. a \in Fraction /\ b \in Fraction  BY <1>0, <1>2, <1>4, <1>5, ProductValue
<1>7. R \otimes r \preceq b \otimes r  BY <1>2, <1>5, <1>6, ProductOrder
<1>8. b \otimes r = a \otimes c
  <2>1. b \otimes r = q \otimes (c \otimes r)  BY <1>0, <1>2, <1>5, ProductAssociates
  <2>2. a \otimes c = q \otimes (r \otimes c)  BY <1>0, <1>2, <1>4, ProductAssociates
  <2>3. c \otimes r = r \otimes c  BY <1>0, <1>2, ProductCommutes
  <2>4. QED  BY <2>1, <2>2, <2>3
<1>9. R \oplus a \in Fraction /\ (R \oplus a) \otimes c \preceq P \otimes c
  BY <1>0, <1>1, <1>4, <1>6, SumOrder, ProductOrder
<1>10. (R \oplus a) \otimes c = (R \otimes c) \oplus (a \otimes c)
  <2>1. c \otimes (R \oplus a) = (c \otimes R) \oplus (c \otimes a)
    BY <1>0, <1>6, ProductDistributes
  <2>2. c \otimes R = R \otimes c /\ c \otimes a = a \otimes c
        /\ c \otimes (R \oplus a) = (R \oplus a) \otimes c
    BY <1>0, <1>6, <1>9, ProductCommutes
  <2>3. QED  BY <2>1, <2>2
<1>11. PICK x \in Fraction, y \in Fraction, z \in Fraction, u \in Fraction :
        x = R \otimes c /\ y = R \otimes r /\ z = a \otimes c /\ u = P \otimes c
  BY <1>0, <1>2, <1>6, ProductValue
<1>12. x \preceq x  BY <1>11, Total
<1>13. x \oplus y \preceq x \oplus z /\ x \oplus y \in Fraction /\ x \oplus z \in Fraction
  BY <1>7, <1>8, <1>11, <1>12, SumOrder
<1>14. x \oplus z \preceq u  BY <1>9, <1>10, <1>11
<1>15. x \oplus y \preceq u  BY <1>11, <1>13, <1>14, Total
<1>16. QED  BY <1>3, <1>11, <1>15

Abreast(acc, bcc, c, s, q) ==
  /\ acc.paid \preceq q \otimes (c \ominus acc.left)
  /\ acc.paid \oplus q \otimes ((s \ominus bcc.left) \ominus (c \ominus acc.left))
       \preceq bcc.paid
  /\ Nil \prec acc.left => c \ominus acc.left = s \ominus bcc.left

LEMMA StayAbreast ==
  ASSUME NEW acc \in Account, NEW bcc \in Account, NEW c \in Amount, NEW s \in Amount,
         c \preceq s,
         NEW q \in Amount, NEW l, l[1] \in Price, l[2] \in Price, q \preceq l[1],
         acc.left \preceq c, Abreast(acc, bcc, c, s, q)
  PROVE  /\ Fill(acc, l).left \preceq c
         /\ \E r \in {q, l[1]} : Abreast(Fill(acc, l), Fill(bcc, l), c, s, r)
<1>1. PICK x \in Amount :
        /\ x = Least(acc.left, l[2]) /\ x \preceq acc.left /\ x \preceq l[2]
        /\ Fill(acc, l).left = acc.left \ominus x
        /\ Fill(acc, l).paid = acc.paid \oplus x \otimes l[1]
  BY FillIs
<1>2. PICK y \in Amount :
        /\ y = Least(bcc.left, l[2]) /\ y \preceq bcc.left /\ y \preceq l[2]
        /\ Fill(bcc, l).left = bcc.left \ominus y
        /\ Fill(bcc, l).paid = bcc.paid \oplus y \otimes l[1]
  BY FillIs
<1>3. PICK a, b, R, P, p, k : /\ a = acc.left /\ b = bcc.left /\ R = acc.paid /\ P = bcc.paid
                              /\ p = l[1] /\ k = l[2]
  OBVIOUS
<1>4. /\ a \in Fraction /\ b \in Fraction /\ R \in Fraction /\ P \in Fraction /\ p \in Fraction
      /\ k \in Fraction /\ c \in Fraction /\ s \in Fraction /\ q \in Fraction
      /\ x \in Fraction /\ y \in Fraction
      /\ Nil \preceq x /\ Nil \preceq y /\ Nil \preceq a /\ Nil \preceq b /\ Nil \prec k
  BY <1>3 DEF Account, Amount, Price
<1>5. PICK t, u : t = c \ominus a /\ u = s \ominus b  OBVIOUS
<1>6. t \in Amount /\ t \in Fraction /\ u \in Fraction
  BY <1>3, <1>4, <1>5, SumOrder, SumLaws DEF Amount
<1>7. c \ominus (a \ominus x) = t \oplus x /\ s \ominus (b \ominus y) = u \oplus y
  <2>1. PICK D \in Positive : Linear(D) /\ a \in Over(D) /\ b \in Over(D) /\ c \in Over(D)
          /\ s \in Over(D) /\ x \in Over(D) /\ y \in Over(D)
    <3>1. Together(a, b, c, s, x, y, y, y)  BY <1>4, OverEight
    <3>2. QED  BY <3>1 DEF Together
  <2>2. QED  BY <1>5, <2>1 DEF Linear
<1>8. a \ominus x \preceq c
  <2>1. PICK D \in Positive : Linear(D) /\ a \in Over(D) /\ c \in Over(D) /\ x \in Over(D)
          /\ Nil \in Over(D)
    BY <1>4, Zero, OverFour
  <2>2. QED  BY <1>3, <1>4, <2>1 DEF Linear
<1>9. /\ R \preceq q \otimes t
      /\ R \oplus q \otimes (u \ominus t) \preceq P
      /\ Nil \prec a => t = u
      /\ q \preceq p
  BY <1>3, <1>5 DEF Abreast
<1>10. CASE Nil \prec a
  <2>1. t = u  BY <1>9, <1>10
  <2>2. R \preceq P
    <3>1. u \ominus t = Nil /\ q \otimes Nil = Nil /\ R \oplus Nil = R
      BY <1>4, <1>6, <2>1, SumLaws, ProductOfNil
    <3>2. QED  BY <1>9, <3>1
  <2>3. /\ R \oplus x \otimes p \preceq p \otimes (t \oplus x)
        /\ (R \oplus x \otimes p) \oplus p \otimes ((t \oplus y) \ominus (t \oplus x))
               \preceq P \oplus y \otimes p
    BY <1>4, <1>6, <1>9, <2>2, BothTake
  <2>4. ASSUME Nil \prec a \ominus x PROVE t \oplus x = u \oplus y
    <3>1. x \prec a  BY <1>4, <2>4, SumLaws
    <3>2. x = k  BY <1>1, <1>3, <1>4, <3>1, Total, LeastIs
    <3>3. a \preceq b
      <4>1. PICK D \in Positive : Linear(D) /\ a \in Over(D) /\ b \in Over(D)
              /\ c \in Over(D) /\ s \in Over(D) /\ t \in Over(D) /\ u \in Over(D)
        <5>1. Together(a, b, c, s, t, u, u, u)  BY <1>4, <1>6, OverEight
        <5>2. QED  BY <5>1 DEF Together
      <4>2. Num(t, D) = Num(c, D) - Num(a, D) /\ Num(u, D) = Num(s, D) - Num(b, D)
        BY <1>5, <4>1 DEF Linear
      <4>3. QED  BY <2>1, <4>1, <4>2 DEF Linear
    <3>4. k \prec b  BY <1>4, <3>1, <3>2, <3>3, Total
    <3>5. y = k  BY <1>2, <1>3, <1>4, <3>4, Total, LeastIs DEF Least
    <3>6. QED  BY <2>1, <3>2, <3>5
  <2>5. Abreast(Fill(acc, l), Fill(bcc, l), c, s, p)
    BY <1>1, <1>2, <1>3, <1>7, <2>1, <2>3, <2>4 DEF Abreast
  <2>6. QED  BY <1>1, <1>3, <1>8, <2>5
<1>11. CASE ~(Nil \prec a)
  <2>1. a = Nil /\ x = Nil  BY <1>1, <1>3, <1>4, <1>11, Zero, Total
  <2>2. /\ x \otimes p = Nil /\ R \oplus Nil = R /\ t \oplus Nil = t /\ a \ominus x = Nil
    BY <1>4, <1>6, <2>1, Zero, ProductOfNil, SumLaws
  <2>3. R \oplus q \otimes ((u \oplus y) \ominus t) \preceq P \oplus y \otimes p
    BY <1>4, <1>6, <1>9, OneTakes
  <2>4. ~(Nil \prec a \ominus x)  BY <2>2, Zero, Total
  <2>5. Abreast(Fill(acc, l), Fill(bcc, l), c, s, q)
    BY <1>1, <1>2, <1>3, <1>7, <1>9, <2>1, <2>2, <2>3, <2>4 DEF Abreast
  <2>6. QED  BY <1>1, <1>3, <1>8, <2>5
<1>12. QED  BY <1>10, <1>11

Ascending(levels) == \A i, j \in DOMAIN levels : i <= j => levels[i][1] \preceq levels[j][1]

LEMMA WalksAbreast ==
  ASSUME NEW levels \in Shelf, Ascending(levels), NEW c \in Amount, NEW s \in Amount,
         c \preceq s
  PROVE  \E q \in Amount : Abreast(Walk(levels, c), Walk(levels, s), c, s, q)
<1> DEFINE n == Len(levels)  v == Walked(levels, c)  w == Walked(levels, s)
           Ahead(i, q) == \A j \in 1..n : i < j => q \preceq levels[j][1]
           T == {i \in Nat : i <= n =>
                   v[i].left \preceq c /\ \E q \in Amount : Abreast(v[i], w[i], c, s, q)
                      /\ Ahead(i, q)}
<1>0. n \in Nat /\ n >= 1 /\ \A i \in 1..n : levels[i][1] \in Price /\ levels[i][2] \in Price
  BY ShelfIs
<1>a. \A i, j \in 1..n : i <= j => levels[i][1] \preceq levels[j][1]  BY ShelfIs DEF Ascending
<1>b. c \in Fraction /\ s \in Fraction  BY DEF Amount
<1>1. /\ v[0] = [left |-> c, paid |-> Nil]
      /\ \A i \in 1..n : v[i] = Fill(v[i - 1], levels[i])
      /\ \A i \in 0..n : v[i] \in Account
      /\ w[0] = [left |-> s, paid |-> Nil]
      /\ \A i \in 1..n : w[i] = Fill(w[i - 1], levels[i])
      /\ \A i \in 0..n : w[i] \in Account
  BY WalkedTypes
<1> HIDE DEF v, w, n
<1>2. 0 \in T
  <2>1. v[0].left = c /\ v[0].paid = Nil /\ w[0].left = s /\ w[0].paid = Nil  BY <1>1
  <2>2. c \ominus c = Nil /\ s \ominus s = Nil /\ Nil \ominus Nil = Nil
          /\ Nil \otimes Nil = Nil
        /\ Nil \oplus Nil = Nil /\ c \preceq c
    BY <1>b, Zero, SumLaws, ProductOfNil, Total
  <2>3. Abreast(v[0], w[0], c, s, Nil)  BY <2>1, <2>2, Zero DEF Abreast
  <2>4. Ahead(0, Nil)  BY <1>0, Amounts DEF Amount
  <2>5. QED  BY <2>1, <2>2, <2>3, <2>4, Zero
<1>3. ASSUME NEW i \in T PROVE i + 1 \in T
  <2> SUFFICES ASSUME i + 1 <= n
               PROVE  /\ v[i + 1].left \preceq c
                      /\ \E r \in Amount : Abreast(v[i + 1], w[i + 1], c, s, r)
                           /\ Ahead(i + 1, r)
    OBVIOUS
  <2>1. i + 1 \in 1..n /\ i \in 0..n /\ i \in Nat /\ i <= n  BY <1>0
  <2>2. v[i].left \preceq c  BY <2>1
  <2>3. PICK q \in Amount : Abreast(v[i], w[i], c, s, q) /\ Ahead(i, q)  BY <2>1
  <2>4. v[i + 1] = Fill(v[i], levels[i + 1]) /\ w[i + 1] = Fill(w[i], levels[i + 1])
    BY <1>1, <2>1
  <2>5. levels[i + 1][1] \in Price /\ levels[i + 1][2] \in Price /\ q \preceq levels[i + 1][1]
    BY <1>0, <2>1, <2>3
  <2>6. v[i] \in Account /\ w[i] \in Account  BY <1>1, <2>1
  <2>7. /\ Fill(v[i], levels[i + 1]).left \preceq c
        /\ \E r \in {q, levels[i + 1][1]} :
              Abreast(Fill(v[i], levels[i + 1]), Fill(w[i], levels[i + 1]), c, s, r)
    BY <2>2, <2>3, <2>5, <2>6, StayAbreast
  <2>8. PICK r \in {q, levels[i + 1][1]} : Abreast(v[i + 1], w[i + 1], c, s, r)
    BY <2>4, <2>7
  <2>9. r \in Amount  BY <2>5, Amounts
  <2>10. Ahead(i + 1, r)
    <3> SUFFICES ASSUME NEW j \in 1..n, i + 1 < j PROVE r \preceq levels[j][1]  OBVIOUS
    <3>1. CASE r = q  BY <2>1, <2>3, <3>1
    <3>2. CASE r = levels[i + 1][1]  BY <1>a, <2>1, <3>2
    <3>3. QED  BY <3>1, <3>2
  <2>11. QED  BY <2>4, <2>7, <2>8, <2>9, <2>10
<1>4. T = Nat
  <2>1. T \in SUBSET Nat  OBVIOUS
  <2> HIDE DEF T
  <2>2. QED  BY <1>2, <1>3, <2>1, FromZeroUp
<1>5. \E q \in Amount : Abreast(v[n], w[n], c, s, q)  BY <1>0, <1>4
<1>6. QED  BY <1>5 DEF Walk, v, w, n

(* A part of a purchase costs no more per coin than the whole, if the book  *)
(* fills the whole (vwap_fill_price).                                       *)
THEOREM CheaperInPart ==
  ASSUME NEW levels \in Shelf, Ascending(levels), NEW c \in Price, NEW s \in Price,
         c \preceq s,
         Walk(levels, s).left = Nil
  PROVE  Walk(levels, c).paid \otimes s \preceq Walk(levels, s).paid \otimes c
<1>0. c \in Amount /\ s \in Amount /\ c \in Fraction /\ s \in Fraction  BY Amounts DEF Price
<1>1. PICK q \in Amount : Abreast(Walk(levels, c), Walk(levels, s), c, s, q)
  BY <1>0, WalksAbreast
<1>2. PICK a, R, P : a = Walk(levels, c).left /\ R = Walk(levels, c).paid
        /\ P = Walk(levels, s).paid
  OBVIOUS
<1>3. a \in Amount /\ a \in Fraction /\ R \in Fraction /\ P \in Fraction /\ Nil \preceq a
  BY <1>2, WalkWorth DEF Amount, Price
<1>4. s \ominus Nil = s /\ c \ominus Nil = c  BY <1>0, SumLaws
<1>5. /\ R \preceq q \otimes (c \ominus a)
      /\ R \oplus q \otimes (s \ominus (c \ominus a)) \preceq P
      /\ Nil \prec a => c \ominus a = s
  BY <1>1, <1>2, <1>4 DEF Abreast
<1>6. a = Nil
  <2>1. ASSUME Nil \prec a PROVE FALSE
    <3>1. c \ominus a = s  BY <1>5, <2>1
    <3>2. PICK D \in Positive : Linear(D) /\ a \in Over(D) /\ c \in Over(D) /\ s \in Over(D)
      BY <1>0, <1>3, OverFour
    <3>3. Num(s, D) = Num(c, D) - Num(a, D)  BY <3>1, <3>2 DEF Linear
    <3>4. QED  BY <2>1, <3>2, <3>3 DEF Linear
  <2>2. QED  BY <1>3, <2>1, Zero, Total
<1>7. q \in Fraction  BY DEF Amount
<1>8. R \preceq q \otimes c /\ R \oplus q \otimes (s \ominus c) \preceq P  BY <1>4, <1>5, <1>6
<1>9. R \otimes s \preceq P \otimes c  BY <1>0, <1>3, <1>7, <1>8, SmallerIsCheaper
<1>10. QED  BY <1>2, <1>9

(* How deep a book can be filled (MaxCoins).                                *)
LEMMA DeepenedIs ==
  ASSUME NEW levels, NEW limit, NEW side, Len(levels) \in Nat
  PROVE  Deepened(levels, limit, side) =
            [i \in 0..Len(levels) |->
                IF i = 0 THEN [coins |-> Nil, paid |-> Nil, full |-> FALSE]
                ELSE Deepen(Deepened(levels, limit, side)[i - 1], levels[i], limit, side)]
<1> DEFINE start == [coins |-> Nil, paid |-> Nil, full |-> FALSE]
           Upto(n, g) == g = [k \in 0..n |-> IF k = 0 THEN start
                                             ELSE Deepen(g[k - 1], levels[k], limit, side)]
           T == {n \in Nat : \E g : Upto(n, g)}
<1>1. 0 \in T
  <2>1. Upto(0, [k \in 0..0 |-> start])  OBVIOUS
  <2>2. QED  BY <2>1
<1>2. ASSUME NEW n \in T PROVE n + 1 \in T
  <2>1. PICK g : Upto(n, g)  BY <1>2
  <2> DEFINE h == [k \in 0..(n + 1) |->
                      IF k = n + 1 THEN Deepen(g[n], levels[n + 1], limit, side) ELSE g[k]]
  <2>2. n \in Nat  OBVIOUS
  <2>3. ASSUME NEW k \in 0..(n + 1)
        PROVE  h[k] = IF k = 0 THEN start ELSE Deepen(h[k - 1], levels[k], limit, side)
    <3>1. CASE k = 0  BY <2>1, <2>2, <3>1
    <3>2. CASE k \in 1..n
      <4>1. h[k] = g[k] /\ h[k - 1] = g[k - 1] /\ k \in 0..n /\ k # 0  BY <2>2, <3>2
      <4>2. g[k] = Deepen(g[k - 1], levels[k], limit, side)  BY <2>1, <4>1
      <4>3. QED  BY <4>1, <4>2
    <3>3. CASE k = n + 1
      <4>1. h[k] = Deepen(g[n], levels[n + 1], limit, side) /\ h[k - 1] = g[n] /\ k # 0
        BY <2>2, <3>3
      <4>2. QED  BY <3>3, <4>1
    <3>4. QED  BY <2>2, <3>1, <3>2, <3>3
  <2>4. h = [k \in 0..(n + 1) |-> IF k = 0 THEN start
                                  ELSE Deepen(h[k - 1], levels[k], limit, side)]
    BY <2>3
  <2> HIDE DEF h
  <2>5. Upto(n + 1, h)  BY <2>4
  <2> HIDE DEF Upto
  <2>6. \E f : Upto(n + 1, f)  BY <2>5
  <2>7. QED  BY <2>2, <2>6
<1>3. \E g : Upto(Len(levels), g)
  <2>1. T \in SUBSET Nat  OBVIOUS
  <2> HIDE DEF T
  <2>2. T = Nat  BY <1>1, <1>2, <2>1, FromZeroUp
  <2>3. Len(levels) \in T  BY <2>2
  <2>4. QED  BY <2>3 DEF T
<1>4. QED  BY <1>3 DEF Deepened

(* As long as the average is within the limit, so is what has been paid;    *)
(* the level that takes it past the limit is itself priced past it.         *)
Depths == [coins : Amount, paid : Amount, full : BOOLEAN]
Within(acc, limit, side) ==
  /\ acc \in Depths
  /\ ~acc.full /\ side = "buy" => acc.paid \preceq acc.coins \otimes limit
  /\ ~acc.full /\ side = "sell" => acc.coins \otimes limit \preceq acc.paid

LEMMA MagnitudeSigns ==
  ASSUME NEW a \in Fraction
  PROVE  Magnitude(a) \in Amount /\ (a # Nil => Magnitude(a) \in Price)
<1>1. a[1] \in Int  BY FractionParts
<1>2. PICK b : b = <<Size(a[1]), a[2]>>  OBVIOUS
<1>3. b \in Fraction  BY <1>2, MagnitudeIs
<1>4. b[1] >= 0 /\ (a[1] # 0 => b[1] > 0)  BY <1>1, <1>2 DEF Size
<1>5. Magnitude(a) = b  BY <1>2 DEF Magnitude
<1>6. QED  BY <1>3, <1>4, <1>5, Signs DEF Amount, Price

LEMMA PastTheLimit ==
  ASSUME NEW c \in Amount, NEW m \in Amount, NEW q \in Price, NEW p \in Price,
         NEW limit \in Fraction,
         NEW side \in {"buy", "sell"},
         side = "buy" => m \preceq c \otimes limit,
         side = "sell" => c \otimes limit \preceq m,
         Worse(side, (m \oplus q \otimes p) \oslash (c \oplus q), limit)
  PROVE  Worse(side, p, limit)
<1>1. PICK C, M : C = c \oplus q /\ M = m \oplus q \otimes p  OBVIOUS
<1>2. C \in Price /\ M \in Price  BY <1>1, Amounts
<1>3. /\ c \in Fraction /\ m \in Fraction /\ q \in Fraction /\ p \in Fraction
      /\ C \in Fraction /\ M \in Fraction /\ Nil \prec C /\ Nil \prec q
  BY <1>2 DEF Amount, Price
<1>4. PICK a \in Fraction, b \in Fraction, e \in Fraction :
        a = c \otimes limit /\ b = q \otimes limit /\ e = q \otimes p
  BY <1>3, ProductValue
<1>5. limit \otimes C = a \oplus b
  <2>1. limit \otimes C = (limit \otimes c) \oplus (limit \otimes q)
    BY <1>1, <1>3, ProductDistributes
  <2>2. limit \otimes c = a /\ limit \otimes q = b  BY <1>3, <1>4, ProductCommutes
  <2>3. QED  BY <2>1, <2>2
<1>6. /\ limit \prec M \oslash C <=> limit \otimes C \prec M
      /\ M \oslash C \prec limit <=> M \prec limit \otimes C
  BY <1>3, QuotientOrder
<1>7. PICK D \in Positive : Linear(D) /\ a \in Over(D) /\ b \in Over(D) /\ e \in Over(D)
        /\ m \in Over(D)
  BY <1>3, <1>4, OverFour
<1>8. /\ limit \prec p <=> b \prec e
      /\ p \prec limit <=> e \prec b
  BY <1>3, <1>4, ProductOrder, ProductCommutes
<1>9. /\ m \preceq a /\ a \oplus b \prec m \oplus e => b \prec e
      /\ a \preceq m /\ m \oplus e \prec a \oplus b => e \prec b
  BY <1>7 DEF Linear
<1>10. CASE side = "buy"
  <2>1. limit \otimes C \prec M  BY <1>1, <1>6, <1>10 DEF Worse
  <2>2. b \prec e  BY <1>1, <1>4, <1>5, <1>9, <1>10, <2>1
  <2>3. QED  BY <1>8, <1>10, <2>2 DEF Worse
<1>11. CASE side = "sell"
  <2>1. M \prec limit \otimes C  BY <1>1, <1>6, <1>11 DEF Worse
  <2>2. e \prec b  BY <1>1, <1>4, <1>5, <1>9, <1>11, <2>1
  <2>3. QED  BY <1>8, <1>11, <2>2 DEF Worse
<1>12. QED  BY <1>10, <1>11

LEMMA DeepenKeeps ==
  ASSUME NEW acc, NEW l, l[1] \in Price, l[2] \in Price, NEW limit \in Fraction,
         NEW side \in {"buy", "sell"}, Within(acc, limit, side)
  PROVE  /\ Within(Deepen(acc, l, limit, side), limit, side)
         /\ acc.coins \in Price \/ (~acc.full /\ ~Worse(side, l[1], limit)) =>
               Deepen(acc, l, limit, side).coins \in Price
<1>1. PICK c, m, p, q : c = acc.coins /\ m = acc.paid /\ p = l[1] /\ q = l[2]  OBVIOUS
<1>2. /\ c \in Amount /\ m \in Amount /\ acc.full \in BOOLEAN /\ p \in Price /\ q \in Price
      /\ acc \in Depths
  BY <1>1 DEF Within, Depths
<1>3. PICK C, M : C = c \oplus q /\ M = m \oplus q \otimes p  OBVIOUS
<1>4. C \in Price /\ M \in Price /\ C \in Amount /\ M \in Amount  BY <1>2, <1>3, Amounts
<1>f. /\ C \in Fraction /\ M \in Fraction /\ c \in Fraction /\ m \in Fraction /\ p \in Fraction
      /\ q \in Fraction /\ Nil \prec C
  BY <1>2, <1>4 DEF Amount, Price
<1>5. Deepen(acc, l, limit, side) =
        Filled(acc, l, [coins |-> C, full |-> FALSE, paid |-> M], limit, side)
  BY <1>1, <1>3 DEF Deepen
<1>6. CASE acc.full
  <2>1. Deepen(acc, l, limit, side) = acc  BY <1>5, <1>6 DEF Filled
  <2>2. QED  BY <1>6, <2>1
<1>7. CASE ~acc.full /\ ~Worse(side, M \oslash C, limit)
  <2>1. Deepen(acc, l, limit, side) = [coins |-> C, full |-> FALSE, paid |-> M]
    BY <1>5, <1>7 DEF Filled
  <2>2. M \oslash C \in Fraction /\ (M \oslash C) \otimes C = M  BY <1>f, QuotientTimes
  <2>3. /\ side = "buy" => M \preceq C \otimes limit
        /\ side = "sell" => C \otimes limit \preceq M
    <3>1. limit \otimes C = C \otimes limit  BY <1>f, ProductCommutes
    <3>2. /\ limit \prec M \oslash C <=> limit \otimes C \prec M
          /\ M \oslash C \prec limit <=> M \prec limit \otimes C
      BY <1>f, QuotientOrder
    <3>3. QED  BY <1>7, <3>1, <3>2 DEF Worse, \preceq
  <2>4. QED  BY <1>4, <2>1, <2>3 DEF Within, Depths
<1>8. CASE ~acc.full /\ Worse(side, M \oslash C, limit)
  <2>1. Deepen(acc, l, limit, side) =
          [acc EXCEPT !.coins = @ \oplus Part(acc, l, limit), !.full = TRUE]
    BY <1>5, <1>8 DEF Filled
  <2>2. Worse(side, p, limit)
    <3>1. /\ side = "buy" => m \preceq c \otimes limit
          /\ side = "sell" => c \otimes limit \preceq m
      BY <1>1, <1>8 DEF Within
    <3>2. QED  BY <1>2, <1>3, <1>8, <3>1, PastTheLimit
  <2>3. p \ominus limit \in Fraction /\ p \ominus limit # Nil
    BY <1>f, <2>2, SumOrder, SumLaws, Total DEF Worse
  <2>4. PICK g : g = Magnitude(p \ominus limit)  OBVIOUS
  <2>5. g \in Price  BY <2>3, <2>4, MagnitudeSigns
  <2>6. Part(acc, l, limit) = Magnitude((c \otimes limit \ominus m) \otimes (One \oslash g))
    BY <1>1, <2>4 DEF Part
  <2>7. One \oslash g \in Fraction  BY <2>5, Zero, QuotientTimes DEF Price
  <2>8. c \otimes limit \ominus m \in Fraction  BY <1>f, ProductValue, SumOrder
  <2>9. (c \otimes limit \ominus m) \otimes (One \oslash g) \in Fraction
    BY <2>7, <2>8, ProductValue
  <2>10. Part(acc, l, limit) \in Amount  BY <2>6, <2>9, MagnitudeSigns
  <2>11. /\ c \oplus Part(acc, l, limit) \in Amount
         /\ c \in Price => c \oplus Part(acc, l, limit) \in Price
    BY <1>2, <2>10, Amounts
  <2>12. PICK d : d = c \oplus Part(acc, l, limit)  OBVIOUS
  <2>13. PICK r : r = Deepen(acc, l, limit, side)  OBVIOUS
  <2>14. r = [coins |-> d, paid |-> m, full |-> TRUE]
    BY <1>1, <1>2, <2>1, <2>12, <2>13 DEF Depths
  <2>15. r \in Depths /\ r.full /\ r.coins = d  BY <1>2, <2>11, <2>12, <2>14 DEF Depths
  <2>16. QED  BY <1>1, <2>2, <2>11, <2>12, <2>13, <2>15 DEF Within
<1>9. QED  BY <1>2, <1>6, <1>7, <1>8

LEMMA DepthIsPositive ==
  ASSUME NEW levels \in Shelf, NEW limit \in Fraction, NEW side \in {"buy", "sell"},
         ~Worse(side, levels[1][1], limit)
  PROVE  MaxCoins(levels, limit, side) \in Price
<1> DEFINE n == Len(levels)  d == Deepened(levels, limit, side)
           T == {i \in Nat : i <= n => /\ Within(d[i], limit, side)
                                       /\ i > 0 => d[i].coins \in Price}
<1>0. n \in Nat /\ n >= 1 /\ \A i \in 1..n : levels[i][1] \in Price /\ levels[i][2] \in Price
  BY ShelfIs
<1>1. d = [i \in 0..n |-> IF i = 0 THEN [coins |-> Nil, paid |-> Nil, full |-> FALSE]
                          ELSE Deepen(d[i - 1], levels[i], limit, side)]
  BY <1>0, DeepenedIs
<1> HIDE DEF d, n
<1>a. d[0] = [coins |-> Nil, paid |-> Nil, full |-> FALSE]  BY <1>0, <1>1
<1>b. ASSUME NEW i \in 1..n PROVE d[i] = Deepen(d[i - 1], levels[i], limit, side)
  <2>1. i \in 0..n /\ i # 0  BY <1>0
  <2>2. QED  BY <1>1, <2>1
<1>2. /\ d[0] = [coins |-> Nil, paid |-> Nil, full |-> FALSE]
      /\ \A i \in 1..n : d[i] = Deepen(d[i - 1], levels[i], limit, side)
  BY <1>a, <1>b
<1>3. 0 \in T
  <2>1. d[0] \in Depths /\ d[0].coins = Nil /\ d[0].paid = Nil  BY <1>2, Zero DEF Depths
  <2>2. Nil \otimes limit = Nil  BY ProductOfNil
  <2>3. Within(d[0], limit, side)  BY <2>1, <2>2, Zero DEF Within
  <2>4. QED  BY <2>3
<1>4. ASSUME NEW i \in T PROVE i + 1 \in T
  <2> SUFFICES ASSUME i + 1 <= n
               PROVE  Within(d[i + 1], limit, side) /\ d[i + 1].coins \in Price
    OBVIOUS
  <2>1. i + 1 \in 1..n /\ i \in Nat /\ i <= n  BY <1>0
  <2>2. d[i + 1] = Deepen(d[i], levels[i + 1], limit, side)  BY <1>2, <2>1
  <2>3. levels[i + 1][1] \in Price /\ levels[i + 1][2] \in Price  BY <1>0, <2>1
  <2>4. Within(d[i], limit, side) /\ (i > 0 => d[i].coins \in Price)  BY <2>1
  <2>5. d[i].coins \in Price \/ (~d[i].full /\ ~Worse(side, levels[i + 1][1], limit))
    <3>1. CASE i = 0  BY <1>2, <3>1
    <3>2. CASE i > 0  BY <2>4, <3>2
    <3>3. QED  BY <2>1, <3>1, <3>2
  <2>6. QED  BY <2>2, <2>3, <2>4, <2>5, DeepenKeeps
<1>5. T = Nat
  <2>1. T \in SUBSET Nat  OBVIOUS
  <2> HIDE DEF T
  <2>2. QED  BY <1>3, <1>4, <2>1, FromZeroUp
<1>6. d[n].coins \in Price  BY <1>0, <1>5
<1>7. QED  BY <1>6 DEF MaxCoins, d, n

(* What a pool gives for an amount: less than the reserve, and no more than *)
(* the spot price allows.                                                   *)
LEMMA SwapIs ==
  ASSUME NEW in \in Price, NEW out \in Price, NEW z \in Price
  PROVE  LET r == Swapped(in, out, z)
         IN  /\ r \in Price
             /\ r \otimes (in \oplus z) = out \otimes z
             /\ (out \ominus r) \otimes z = in \otimes r
<1>1. in \in Fraction /\ out \in Fraction /\ z \in Fraction  BY DEF Price
<1>2. PICK w : w = in \oplus z  OBVIOUS
<1>3. w \in Price /\ w \in Fraction /\ Nil \prec w  BY <1>2, Amounts DEF Price
<1>4. PICK q : q = z \oslash w  OBVIOUS
<1>5. q \in Price /\ q \in Fraction /\ q \otimes w = z
  BY <1>1, <1>3, <1>4, Amounts, QuotientTimes DEF Price
<1>6. PICK r : r = out \otimes q  OBVIOUS
<1>7. r = Swapped(in, out, z)  BY <1>2, <1>4, <1>6 DEF Swapped
<1>8. r \in Price /\ r \in Fraction  BY <1>5, <1>6, Amounts DEF Price
<1>9. r \otimes w = out \otimes z  BY <1>1, <1>3, <1>5, <1>6, ProductAssociates
<1>10. (out \ominus r) \otimes z = in \otimes r
  <2>1. PICK a \in Fraction, b \in Fraction, c \in Fraction :
          a = r \otimes in /\ b = r \otimes z /\ c = out \otimes z
    BY <1>1, <1>8, ProductValue
  <2>2. a \oplus b = c  BY <1>1, <1>2, <1>8, <1>9, <2>1, ProductDistributes
  <2>3. c \ominus b = a  BY <2>1, <2>2, SumLaws
  <2>4. z \otimes (out \ominus r) = (z \otimes out) \ominus (z \otimes r)
    BY <1>1, <1>8, ProductDistributes
  <2>5. z \otimes out = c /\ z \otimes r = b /\ in \otimes r = a
        /\ z \otimes (out \ominus r) = (out \ominus r) \otimes z
    BY <1>1, <1>8, <2>1, ProductCommutes, SumOrder
  <2>6. QED  BY <2>3, <2>4, <2>5
<1>11. QED  BY <1>2, <1>7, <1>8, <1>9, <1>10

Out(in, out, amount, kept, r) ==
    /\ r = AmmOut(in, out, amount, kept)
    /\ r \otimes in \preceq amount \otimes out
    /\ (out \ominus r) \otimes (amount \otimes kept) = in \otimes r

LEMMA OutIs ==
  ASSUME NEW in \in Price, NEW out \in Price, NEW amount \in Price, NEW kept \in Price,
         kept \preceq One
  PROVE  \E r \in Price : Out(in, out, amount, kept, r)
<1>1. in \in Fraction /\ out \in Fraction /\ amount \in Fraction /\ kept \in Fraction
        /\ Nil \preceq amount
      /\ Nil \preceq out
  BY Amounts DEF Price, Amount
<1>2. PICK z : z = amount \otimes kept  OBVIOUS
<1>3. z \in Price /\ z \in Fraction /\ Nil \preceq z  BY <1>2, Amounts DEF Price, Amount
<1>4. PICK r : r = Swapped(in, out, z)  OBVIOUS
<1>5. /\ r \in Price /\ r \in Fraction /\ Nil \preceq r
      /\ r \otimes (in \oplus z) = out \otimes z
      /\ (out \ominus r) \otimes z = in \otimes r
  BY <1>3, <1>4, SwapIs, Amounts DEF Price, Amount
<1>6. r = AmmOut(in, out, amount, kept)  BY <1>2, <1>4 DEF AmmOut
<1>7. z \preceq amount
  <2>1. kept \otimes amount \preceq One \otimes amount  BY <1>1, Zero, ProductOrder
  <2>2. QED  BY <1>1, <1>2, <2>1, ProductOfOne, ProductCommutes
<1>8. z \otimes out \preceq amount \otimes out  BY <1>1, <1>3, <1>7, ProductOrder
<1>9. r \otimes in \preceq out \otimes z
  <2>1. in \preceq in \oplus z
    <3>1. in \preceq in /\ in \oplus Nil = in  BY <1>1, Total, SumLaws
    <3>2. in \oplus Nil \preceq in \oplus z  BY <1>1, <1>3, <3>1, Zero, SumOrder
    <3>3. QED  BY <3>1, <3>2
  <2>2. in \oplus z \in Fraction  BY <1>1, <1>3, SumOrder
  <2>3. in \otimes r \preceq (in \oplus z) \otimes r  BY <1>1, <1>5, <2>1, <2>2, ProductOrder
  <2>4. QED  BY <1>1, <1>5, <2>2, <2>3, ProductCommutes
<1>10. r \otimes in \preceq amount \otimes out
  <2>1. r \otimes in \in Fraction /\ z \otimes out \in Fraction
          /\ amount \otimes out \in Fraction
        /\ out \otimes z = z \otimes out
    BY <1>1, <1>3, <1>5, ProductValue, ProductCommutes
  <2>2. QED  BY <1>8, <1>9, <2>1, Total
<1>11. QED  BY <1>2, <1>5, <1>6, <1>10 DEF Out

LEMMA BookIs ==
  ASSUME NEW b, IsBook(b)
  PROVE  /\ b.type \in {"CEX", "DEX"}
         /\ b.type = "CEX" =>
               /\ b.asks \in Shelf /\ b.bids \in Shelf /\ Ascending(b.asks)
               /\ \A i, j \in DOMAIN b.bids : i <= j => b.bids[j][1] \preceq b.bids[i][1]
         /\ b.type = "DEX" =>
               /\ b.base \in Price /\ b.quote \in Price /\ b.fee \in Amount
               /\ Kept(b) \in Price /\ Kept(b) \preceq One /\ Spot(b) \in Price
               /\ Spot(b) \otimes b.base = b.quote
<1>1. CASE b.type = "CEX"
  <2>1. /\ b.asks \in Shelf /\ b.bids \in Shelf
        /\ \A i, j \in DOMAIN b.asks : i <= j => b.asks[i][1] \preceq b.asks[j][1]
        /\ \A i, j \in DOMAIN b.bids : i <= j => b.bids[j][1] \preceq b.bids[i][1]
    BY <1>1 DEF IsBook
  <2>2. QED  BY <1>1, <2>1 DEF Ascending
<1>2. CASE b.type = "DEX"
  <2>1. b.base \in Price /\ b.quote \in Price /\ b.fee \in Amount /\ b.fee \prec One
    BY <1>2 DEF IsBook
  <2>2. One \ominus b.fee \in Price /\ One \ominus b.fee \preceq One
    <3>1. b.fee \in Fraction /\ Nil \preceq b.fee  BY <2>1 DEF Amount
    <3>2. One \ominus b.fee \in Fraction /\ Nil \prec One \ominus b.fee
      BY <2>1, <3>1, Zero, SumOrder, SumLaws
    <3>3. One \preceq One  BY Zero, Total
    <3>4. One \ominus b.fee \preceq One \ominus Nil  BY <3>1, <3>3, Zero, SumOrder
    <3>5. One \ominus Nil = One  BY Zero, SumLaws
    <3>6. QED  BY <3>2, <3>4, <3>5 DEF Price
  <2>3. b.quote \oslash b.base \in Price /\ (b.quote \oslash b.base) \otimes b.base = b.quote
    BY <2>1, Amounts, QuotientTimes DEF Price
  <2>4. QED  BY <1>2, <2>1, <2>2, <2>3 DEF Kept, Spot
<1>3. QED  BY <1>1, <1>2 DEF IsBook

LEMMA BestIs ==
  ASSUME NEW b, IsBook(b), NEW side \in {"buy", "sell"}
  PROVE  /\ Best(b, side) \in Price
         /\ b.type = "DEX" => Best(b, side) = Spot(b)
         /\ b.type = "CEX" => /\ Levels(b, side) \in Shelf
                              /\ Best(b, side) = Levels(b, side)[1][1]
                              /\ Levels(b, "buy") = b.asks /\ Levels(b, "sell") = b.bids
<1>1. CASE b.type = "CEX"
  <2>1. Levels(b, side) \in Shelf  BY <1>1, BookIs DEF Levels
  <2>2. Levels(b, side)[1][1] \in Price
    <3>1. PICK s \in Shelf : s = Levels(b, side)  BY <2>1
    <3>2. s[1][1] \in Price  BY ShelfIs
    <3>3. QED  BY <3>1, <3>2
  <2>3. QED  BY <1>1, <2>1, <2>2 DEF Best, Levels
<1>2. CASE b.type = "DEX"  BY <1>2, BookIs DEF Best
<1>3. QED  BY <1>1, <1>2, BookIs

LEMMA MaxUsdIs ==
  ASSUME NEW b, IsBook(b), NEW side \in {"buy", "sell"}
  PROVE  MaxUsd(b, side) \in Price
<1>1. CASE b.type = "CEX"
  <2>1. PICK levels \in Shelf : levels = Levels(b, side)  BY <1>1, BestIs
  <2>2. PICK best \in Price : best = Best(b, side) /\ best = levels[1][1]
    BY <1>1, <2>1, BestIs
  <2>3. PICK tol \in Price : tol = Tolerance["CEX"]  BY PricingAssumption DEF Types
  <2>4. PICK limit : limit = Limit(side, best, tol)  OBVIOUS
  <2>5. limit \in Fraction /\ ~Worse(side, best, limit)
    <3>1. best \in Fraction /\ best \otimes tol \in Price /\ best \otimes tol \in Fraction
          /\ Nil \preceq best \otimes tol /\ best \preceq best
      BY Amounts, Total DEF Price, Amount
    <3>2. PICK t \in Fraction : t = best \otimes tol /\ Nil \preceq t  BY <3>1
    <3>3. best \oplus Nil = best /\ best \ominus Nil = best  BY <3>1, SumLaws
    <3>4. best \preceq best \oplus t /\ best \ominus t \preceq best
          /\ best \oplus t \in Fraction /\ best \ominus t \in Fraction
      BY <3>1, <3>2, <3>3, Zero, SumOrder
    <3>5. QED  BY <2>4, <3>2, <3>4 DEF Limit, Worse, \preceq
  <2>6. MaxCoins(levels, limit, side) \in Price  BY <2>2, <2>5, DepthIsPositive
  <2>7. MaxUsd(b, side) = MaxCoins(levels, limit, side) \otimes best
    BY <1>1, <2>1, <2>2, <2>3, <2>4 DEF MaxUsd, CexUsd
  <2>8. QED  BY <2>6, <2>7, Amounts
<1>2. CASE b.type = "DEX"
  <2>1. PICK tol \in Price : tol = Tolerance["DEX"]  BY PricingAssumption DEF Types
  <2>2. b.base \in Price /\ b.quote \in Price /\ Kept(b) \in Price /\ Spot(b) \in Price
    BY <1>2, BookIs
  <2>3. ASSUME NEW in \in Price PROVE MaxInput(in, Kept(b), tol) \in Price
    <3>1. (tol \otimes in) \oslash Kept(b) \in Price  BY <2>2, Amounts
    <3>2. QED  BY <3>1, LeastIs DEF MaxInput, Price
  <2>4. MaxInput(b.base, Kept(b), tol) \otimes Spot(b) \in Price  BY <2>2, <2>3, Amounts
  <2>5. CASE side = "buy"  BY <1>2, <2>1, <2>2, <2>3, <2>5 DEF MaxUsd
  <2>6. CASE side = "sell"  BY <1>2, <2>1, <2>4, <2>6 DEF MaxUsd
  <2>7. QED  BY <2>5, <2>6
<1>3. QED  BY <1>1, <1>2, BookIs

(* A fill costs at least the best price, and order by order the coins it is *)
(* counted for cost no more than what is spent.                             *)
LEMMA BookFill ==
  ASSUME NEW b, IsBook(b), b.type = "CEX", NEW usd \in Price, BuyFill(b, usd) # None
  PROVE  /\ BuyFill(b, usd) \in Price /\ Best(b, "buy") \preceq BuyFill(b, usd)
         /\ Paid(b, usd \oslash BuyFill(b, usd)) \in Fraction
         /\ Paid(b, usd \oslash BuyFill(b, usd)) \preceq usd
<1>1. PICK asks \in Shelf : asks = b.asks /\ Ascending(asks)  BY BookIs
<1>2. PICK best \in Price : best = Best(b, "buy") /\ best = asks[1][1]  BY <1>1, BestIs
<1>3. \A i \in 1..Len(asks) : best \preceq asks[i][1]
  <2>1. 1 \in 1..Len(asks) /\ DOMAIN asks = 1..Len(asks)  BY ShelfIs
  <2>2. QED  BY <1>1, <1>2, <2>1 DEF Ascending
<1>4. PICK size : size = usd \oslash best  OBVIOUS
<1>5. size \in Price  BY <1>4, Amounts
<1>6. PICK P : P = Walk(asks, size).paid  OBVIOUS
<1>7. BuyFill(b, usd) = Average(Walk(asks, size), size)
  BY <1>1, <1>2, <1>4 DEF BuyFill, Vwap
<1>8. Walk(asks, size).left = Nil /\ BuyFill(b, usd) = P \oslash size
  BY <1>6, <1>7 DEF Average
<1>9. P \in Price /\ best \otimes size \preceq P  BY <1>3, <1>5, <1>6, <1>8, WalkWorth
<1>10. PICK f : f = P \oslash size  OBVIOUS
<1>11. f \in Price  BY <1>5, <1>9, <1>10, Amounts
<1>12. /\ P \in Fraction /\ size \in Fraction /\ best \in Fraction /\ f \in Fraction
            /\ usd \in Fraction
       /\ Nil \prec size /\ Nil \prec f /\ Nil \prec best /\ Nil \preceq size
  BY <1>5, <1>9, <1>11, Amounts DEF Price, Amount
<1>13. f \otimes size = P /\ size \otimes best = usd  BY <1>4, <1>10, <1>12, QuotientTimes
<1>14. best \preceq f
  <2>1. f \prec best <=> P \prec best \otimes size  BY <1>10, <1>12, QuotientOrder
  <2>2. QED  BY <1>9, <2>1 DEF \preceq
<1>15. PICK c : c = usd \oslash f  OBVIOUS
<1>16. c \in Price /\ c \in Fraction /\ c \otimes f = usd
  BY <1>11, <1>12, <1>15, Amounts, QuotientTimes DEF Price
<1>17. c \preceq size
  <2>1. size \prec c <=> size \otimes f \prec usd  BY <1>12, <1>15, QuotientOrder
  <2>2. best \otimes size \preceq f \otimes size  BY <1>12, <1>14, ProductOrder
  <2>3. usd \preceq size \otimes f  BY <1>12, <1>13, <2>2, ProductCommutes
  <2>4. QED  BY <2>1, <2>3 DEF \preceq
<1>18. PICK R : R = Walk(asks, c).paid  OBVIOUS
<1>19. R \in Fraction  BY <1>16, <1>18, WalkWorth DEF Price
<1>20. R \otimes size \preceq P \otimes c
  BY <1>1, <1>5, <1>6, <1>8, <1>16, <1>17, <1>18, CheaperInPart
<1>21. P \otimes c = usd \otimes size
  <2>1. (f \otimes size) \otimes c = f \otimes (size \otimes c)
    BY <1>12, <1>16, ProductAssociates
  <2>2. (f \otimes c) \otimes size = f \otimes (c \otimes size)
    BY <1>12, <1>16, ProductAssociates
  <2>3. size \otimes c = c \otimes size /\ f \otimes c = c \otimes f
    BY <1>12, <1>16, ProductCommutes
  <2>4. QED  BY <1>13, <1>16, <2>1, <2>2, <2>3
<1>22. R \preceq usd
  <2>1. usd \prec R <=> usd \otimes size \prec R \otimes size  BY <1>12, <1>19, ProductOrder
  <2>2. QED  BY <1>20, <1>21, <2>1 DEF \preceq
<1>23. Paid(b, c) = R  BY <1>1, <1>18 DEF Paid
<1>24. QED  BY <1>2, <1>8, <1>10, <1>11, <1>14, <1>15, <1>19, <1>22, <1>23

LEMMA PoolFill ==
  ASSUME NEW b, IsBook(b), b.type = "DEX", NEW usd \in Price
  PROVE  /\ BuyFill(b, usd) \in Price /\ Best(b, "buy") \preceq BuyFill(b, usd)
         /\ Paid(b, usd \oslash BuyFill(b, usd)) \in Fraction
         /\ Paid(b, usd \oslash BuyFill(b, usd)) \preceq usd
<1>1. PICK base \in Price, quote \in Price, kept \in Price, spot \in Price :
        /\ base = b.base /\ quote = b.quote /\ kept = Kept(b) /\ spot = Best(b, "buy")
        /\ kept \preceq One /\ spot \otimes base = quote
  BY BookIs, BestIs
<1>2. PICK r \in Price : Out(quote, base, usd, kept, r)  BY <1>1, OutIs
<1>3. /\ r \in Price
      /\ r \otimes quote \preceq usd \otimes base
      /\ (base \ominus r) \otimes (usd \otimes kept) = quote \otimes r
      /\ r = AmmOut(quote, base, usd, kept)
  BY <1>2 DEF Out
<1>4. PICK f : f = usd \oslash r  OBVIOUS
<1>5. BuyFill(b, usd) = f  BY <1>1, <1>3, <1>4 DEF BuyFill
<1>6. f \in Price  BY <1>3, <1>4, Amounts
<1>7. /\ base \in Fraction /\ quote \in Fraction /\ kept \in Fraction /\ spot \in Fraction
      /\ r \in Fraction /\ f \in Fraction /\ usd \in Fraction
      /\ Nil \prec r /\ Nil \prec f /\ Nil \prec base
  BY <1>3, <1>6 DEF Price
<1>8. spot \otimes r \preceq usd
  <2>1. spot \otimes r \in Fraction  BY <1>7, ProductValue
  <2>2. (spot \otimes r) \otimes base = r \otimes quote
    <3>1. (r \otimes spot) \otimes base = r \otimes (spot \otimes base)
      BY <1>7, ProductAssociates
    <3>2. r \otimes spot = spot \otimes r  BY <1>7, ProductCommutes
    <3>3. QED  BY <1>1, <3>1, <3>2
  <2>3. usd \prec spot \otimes r <=> usd \otimes base \prec (spot \otimes r) \otimes base
    BY <1>7, <2>1, ProductOrder
  <2>4. QED  BY <1>3, <2>2, <2>3 DEF \preceq
<1>9. spot \preceq f
  <2>1. f \prec spot <=> usd \prec spot \otimes r  BY <1>4, <1>7, QuotientOrder
  <2>2. QED  BY <1>8, <2>1 DEF \preceq
<1>10. usd \oslash f = r
  <2>1. r \otimes f = usd  BY <1>4, <1>7, QuotientTimes, ProductCommutes
  <2>2. QED  BY <1>7, <2>1, QuotientIs
<1>11. PICK d : d = (base \ominus r) \otimes kept  OBVIOUS
<1>12. base \ominus r \in Fraction /\ Nil \prec base \ominus r
  <2>1. base \ominus r \in Fraction  BY <1>7, SumOrder
  <2>2. PICK z : z = usd \otimes kept  OBVIOUS
  <2>3. z \in Price /\ z \in Fraction /\ Nil \prec z  BY <2>2, Amounts DEF Price
  <2>4. Nil \prec quote \otimes r  BY <1>3, Amounts DEF Price
  <2>5. Nil \prec base \ominus r <=> Nil \otimes z \prec (base \ominus r) \otimes z
    BY <2>1, <2>3, Zero, ProductOrder
  <2>6. Nil \otimes z = Nil  BY <2>3, ProductOfNil
  <2>7. QED  BY <1>3, <2>1, <2>2, <2>4, <2>5, <2>6
<1>13. d \in Fraction /\ Nil \prec d /\ usd \otimes d = quote \otimes r
  <2>1. PICK g \in Price : g = base \ominus r /\ g \in Fraction  BY <1>12 DEF Price
  <2>2. d \in Price  BY <1>11, <2>1, Amounts
  <2>3. usd \otimes (g \otimes kept) = (usd \otimes g) \otimes kept
    BY <1>7, <2>1, ProductAssociates
  <2>4. (g \otimes usd) \otimes kept = g \otimes (usd \otimes kept)
    BY <1>7, <2>1, ProductAssociates
  <2>5. usd \otimes g = g \otimes usd  BY <1>7, <2>1, ProductCommutes
  <2>6. QED  BY <1>3, <1>11, <2>1, <2>2, <2>3, <2>4, <2>5 DEF Price
<1>14. Paid(b, r) = (quote \otimes r) \oslash d  BY <1>1, <1>11 DEF Paid
<1>15. Paid(b, r) = usd
  <2>1. quote \otimes r \in Fraction  BY <1>7, ProductValue
  <2>2. QED  BY <1>7, <1>13, <1>14, <2>1, QuotientIs
<1>16. usd \preceq usd  BY <1>7, Total
<1>17. QED  BY <1>1, <1>5, <1>6, <1>7, <1>9, <1>10, <1>15, <1>16

(* A fill on a book or a pool is at the best price or worse, and the coins  *)
(* it is counted for cost no more than the money spent (LiquidityLeg).      *)
THEOREM FillIsDear ==
  ASSUME NEW b, IsBook(b), NEW usd \in Price, BuyFill(b, usd) # None
  PROVE  /\ BuyFill(b, usd) \in Price /\ Best(b, "buy") \preceq BuyFill(b, usd)
         /\ Paid(b, usd \oslash BuyFill(b, usd)) \in Fraction
         /\ Paid(b, usd \oslash BuyFill(b, usd)) \preceq usd
  BY BookIs, BookFill, PoolFill

(* What coins bring in is at most what they are worth at the best price.    *)
LEMMA ReceivedIs ==
  ASSUME NEW b, IsBook(b), NEW coins \in Price, Received(b, coins) # None
  PROVE  Received(b, coins) \in Price /\ Received(b, coins)
     \preceq coins \otimes Best(b, "sell")
<1>0. coins \in Fraction /\ Nil \prec coins  BY DEF Price
<1>1. CASE b.type = "CEX"
  <2>1. PICK bids \in Shelf : bids = b.bids  BY <1>1, BookIs
  <2>2. PICK best \in Price : best = Best(b, "sell") /\ best = bids[1][1]
    BY <1>1, <2>1, BestIs
  <2>3. \A i \in 1..Len(bids) : bids[i][1] \preceq best
    <3>1. 1 \in 1..Len(bids) /\ DOMAIN bids = 1..Len(bids)  BY ShelfIs
    <3>2. QED  BY <1>1, <2>1, <2>2, <3>1, BookIs
  <2>4. Received(b, coins) = Proceeds(Walk(bids, coins))  BY <1>1, <2>1 DEF Received
  <2>5. Walk(bids, coins).left = Nil /\ Received(b, coins) = Walk(bids, coins).paid
    BY <2>4 DEF Proceeds
  <2>6. Walk(bids, coins).paid \in Price /\ Walk(bids, coins).paid \preceq best \otimes coins
    BY <2>3, <2>5, WalkWorth
  <2>7. best \otimes coins = coins \otimes best  BY <1>0, ProductCommutes DEF Price
  <2>8. QED  BY <2>2, <2>5, <2>6, <2>7
<1>2. CASE b.type = "DEX"
  <2>1. PICK base \in Price, quote \in Price, kept \in Price, spot \in Price :
          /\ base = b.base /\ quote = b.quote /\ kept = Kept(b) /\ spot = Best(b, "sell")
          /\ kept \preceq One /\ spot \otimes base = quote
    BY <1>2, BookIs, BestIs
  <2>2. PICK r \in Price : Out(base, quote, coins, kept, r)  BY <2>1, OutIs
  <2>3. r \in Price /\ r \otimes base \preceq coins \otimes quote  BY <2>2 DEF Out
  <2>4. Received(b, coins) = r  BY <1>2, <2>1, <2>2 DEF Received, Out
  <2>5. base \in Fraction /\ spot \in Fraction /\ r \in Fraction /\ Nil \prec base
    BY <2>3 DEF Price
  <2>6. (coins \otimes spot) \otimes base = coins \otimes quote
    BY <1>0, <2>1, <2>5, ProductAssociates
  <2>7. coins \otimes spot \in Fraction  BY <1>0, <2>5, ProductValue
  <2>8. coins \otimes spot \prec r <=> (coins \otimes spot) \otimes base \prec r \otimes base
    BY <2>5, <2>7, ProductOrder
  <2>9. QED  BY <2>1, <2>3, <2>4, <2>6, <2>8 DEF \preceq
<1>3. QED  BY <1>1, <1>2, BookIs

-----------------------------------------------------------------------------
(* Round trips.                                                             *)

FeesAre(fees) ==
    /\ fees.buy \in Amount /\ fees.sell \in Amount
    /\ fees.withdrawal \in Amount \cup {None} /\ fees.gas \in Amount \cup {None}
    /\ fees.bridge \in Amount \cup {None}
FlatOf(fees) == OrZero(fees.withdrawal) \oplus OrZero(fees.gas) \oplus OrZero(fees.bridge)

LEMMA FlatIs ==
  ASSUME NEW fees, FeesAre(fees)
  PROVE  FlatOf(fees) \in Amount /\ OrZero(fees.gas) \in Amount
<1>1. \A x \in Amount \cup {None} : OrZero(x) \in Amount  BY Zero DEF OrZero
<1>2. PICK x \in Amount, y \in Amount, z \in Amount :
        x = OrZero(fees.withdrawal) /\ y = OrZero(fees.gas) /\ z = OrZero(fees.bridge)
  BY <1>1 DEF FeesAre
<1>3. (x \oplus y) \oplus z \in Amount  BY Amounts
<1>4. QED  BY <1>2, <1>3 DEF FlatOf

(* What a round trip earns, in the terms of its cash.                       *)
Trip(b, buy, sell, fees, usd, received) ==
    /\ b.usd = usd /\ b.coins \in Price /\ b.flat = FlatOf(fees) /\ b.gas = OrZero(fees.gas)
    /\ b.net \in Fraction /\ b.roi = b.net \oslash usd /\ b.gross \in Fraction
    /\ b.spread = (Best(sell, "sell") \ominus Best(buy, "buy")) \oslash Best(buy, "buy")
    /\ received = Received(sell, b.coins)
    /\ b.net = received \ominus usd \ominus (usd \otimes fees.buy
         \oplus received \otimes fees.sell)
                   \ominus b.flat
    /\ Paid(buy, b.coins) \in Fraction /\ Paid(buy, b.coins) \preceq usd
    /\ received \preceq b.coins \otimes Best(sell, "sell")
    /\ b.coins \otimes Best(buy, "buy") \preceq usd
    /\ b.gross \ominus b.net = b.trading \oplus b.slippage \oplus b.flat

Cash(X, Y, U, P, R, F) == (X \ominus Y) \ominus (U \ominus Y) \ominus (X \ominus P) \ominus R
   \ominus F

LEMMA CashIs ==
  ASSUME NEW X \in Fraction, NEW Y \in Fraction, NEW U \in Fraction, NEW P \in Fraction,
         NEW R \in Fraction, NEW F \in Fraction
  PROVE  Cash(X, Y, U, P, R, F) \in Fraction
     /\ Cash(X, Y, U, P, R, F) = P \ominus U \ominus R \ominus F
<1>1. PICK D : /\ Linear(D) /\ X \in Over(D) /\ Y \in Over(D) /\ U \in Over(D)
               /\ P \in Over(D) /\ R \in Over(D) /\ F \in Over(D)
  <2>1. Together(X, Y, U, P, R, F, F, F)  BY OverEight
  <2>2. QED  BY <2>1 DEF Together
<1>2. QED  BY <1>1 DEF Linear, Cash

LEMMA RoundTrip ==
  ASSUME NEW buy, IsBook(buy), NEW sell, IsBook(sell), NEW usd \in Price,
         NEW fees, FeesAre(fees), NEW b, b = AtSize(usd, buy, sell, fees), b # None
  PROVE  \E received \in Price : Trip(b, buy, sell, fees, usd, received)
<1>1. PICK fill : fill = BuyFill(buy, usd)  OBVIOUS
<1>2. PICK coins : coins = usd \oslash fill  OBVIOUS
<1>3. PICK received : received = Received(sell, coins)  OBVIOUS
<1>4. PICK bB \in Price, sB \in Price : bB = Best(buy, "buy") /\ sB = Best(sell, "sell")
  BY BestIs
<1>5. PICK e : e = Effects(usd, coins, bB, sB, fill, received, fees)  OBVIOUS
<1>6. fill # None /\ received # None /\ b = Accounted(e, buy, sell)
  BY <1>1, <1>2, <1>3, <1>4, <1>5 DEF AtSize, AtFill, Purchase, Sale, Bought
<1>7. fill \in Price /\ bB \preceq fill /\ Paid(buy, coins) \in Fraction
        /\ Paid(buy, coins) \preceq usd
  BY <1>1, <1>2, <1>4, <1>6, FillIsDear
<1>8. coins \in Price  BY <1>2, <1>7, Amounts
<1>9. received \in Price /\ received \preceq coins \otimes sB
  BY <1>3, <1>4, <1>6, <1>8, ReceivedIs
<1>10. /\ usd \in Fraction /\ fill \in Fraction /\ coins \in Fraction /\ received \in Fraction
       /\ bB \in Fraction /\ sB \in Fraction /\ Nil \prec fill /\ Nil \preceq coins
       /\ fees.buy \in Fraction /\ fees.sell \in Fraction
  BY <1>7, <1>8, <1>9, Amounts DEF Price, Amount, FeesAre
<1>11. PICK X \in Fraction, Y \in Fraction : X = coins \otimes sB /\ Y = coins \otimes bB
  BY <1>10, ProductValue
<1>12. coins \otimes (sB \ominus bB) = X \ominus Y  BY <1>10, <1>11, ProductDistributes
<1>13. (fill \ominus bB) \otimes coins = usd \ominus Y
  <2>1. coins \otimes (fill \ominus bB) = (coins \otimes fill) \ominus Y
    BY <1>10, <1>11, ProductDistributes
  <2>2. coins \otimes fill = usd  BY <1>2, <1>10, QuotientTimes
  <2>3. fill \ominus bB \in Fraction  BY <1>10, SumOrder
  <2>4. QED  BY <1>10, <2>1, <2>2, <2>3, ProductCommutes
<1>14. Y \preceq usd
  <2>1. bB \otimes coins \preceq fill \otimes coins  BY <1>7, <1>10, ProductOrder
  <2>2. bB \otimes coins = Y /\ fill \otimes coins = usd
    BY <1>2, <1>10, <1>11, ProductCommutes, QuotientTimes
  <2>3. QED  BY <2>1, <2>2
<1>15. PICK A \in Fraction, B \in Fraction : A = usd \ominus Y /\ B = X \ominus received
  BY <1>10, <1>11, SumOrder
<1>16. Nil \preceq A /\ Nil \preceq B  BY <1>9, <1>10, <1>11, <1>14, <1>15, SumLaws
<1>17. Most(Nil, A) = A /\ Most(Nil, B) = B  BY <1>16 DEF Most
<1>18. PICK R \in Fraction : R = usd \otimes fees.buy \oplus received \otimes fees.sell
  <2>1. usd \otimes fees.buy \in Fraction /\ received \otimes fees.sell \in Fraction
    BY <1>10, ProductValue
  <2>2. QED  BY <2>1, SumOrder
<1>19. PICK F \in Fraction : F = FlatOf(fees)  BY FlatIs, Amounts
<1>20. PICK G \in Fraction : G = X \ominus Y  BY <1>11, SumOrder
<1>21. e = [usd |-> usd, coins |-> coins, gross |-> G, buySlip |-> A, sellSlip |-> B,
         worth |-> X,
            rates |-> R, flat |-> F, gas |-> OrZero(fees.gas),
               spread |-> (sB \ominus bB) \oslash bB]
  BY <1>5, <1>11, <1>12, <1>13, <1>15, <1>17, <1>18, <1>19, <1>20 DEF Effects, FlatOf
<1>22. PICK pools : pools = PoolPart(e, buy, sell)  OBVIOUS
<1>23. pools \in Fraction
  <2>1. \A d, u : IsBook(d) /\ u \in Fraction => PoolFee(d, u) \in Fraction
    BY BookIs, Zero, ProductValue, Amounts DEF PoolFee
  <2>2. PoolFee(buy, usd) \in Fraction /\ PoolFee(sell, X) \in Fraction  BY <1>10, <2>1
  <2>3. Least(PoolFee(buy, usd), A) \in Fraction /\ Least(PoolFee(sell, X), B) \in Fraction
    BY <2>2, LeastIs
  <2>4. QED  BY <1>21, <1>22, <2>3, SumOrder DEF PoolPart
<1>24. PICK N : N = G \ominus A \ominus B \ominus R \ominus F  OBVIOUS
<1>25. b = [usd |-> usd, coins |-> coins, gross |-> G, net |-> N, roi |-> N \oslash usd,
            trading |-> R \oplus pools, slippage |-> (A \oplus B) \ominus pools, flat |-> F,
            gas |-> OrZero(fees.gas), spread |-> (sB \ominus bB) \oslash bB]
  BY <1>6, <1>21, <1>22, <1>24 DEF Accounted, Breakdown
<1>26. N \in Fraction /\ N = received \ominus usd \ominus R \ominus F
  <2>1. N = Cash(X, Y, usd, received, R, F)  BY <1>15, <1>20, <1>24 DEF Cash
  <2>2. usd \in Fraction /\ received \in Fraction  BY <1>10
  <2>3. QED  BY <2>1, <2>2, CashIs, SMTT(30)
<1>27. G \ominus N = (R \oplus pools) \oplus ((A \oplus B) \ominus pools) \oplus F
  <2>1. PICK D : /\ Linear(D) /\ G \in Over(D) /\ A \in Over(D) /\ B \in Over(D)
                 /\ pools \in Over(D) /\ R \in Over(D) /\ F \in Over(D)
    <3>1. Together(G, A, B, pools, R, F, F, F)  BY <1>23, OverEight
    <3>2. QED  BY <3>1 DEF Together
  <2>2. QED  BY <1>24, <2>1 DEF Linear
<1>28. Trip(b, buy, sell, fees, usd, received)
  BY <1>3, <1>4, <1>7, <1>8, <1>9, <1>10, <1>11, <1>14, <1>18, <1>19, <1>20, <1>25, <1>26,
     <1>27 DEF Trip
<1>29. QED  BY <1>9, <1>28

LEMMA TripIsCash ==
  ASSUME NEW buy, NEW sell, NEW fees, FeesAre(fees), NEW usd \in Price, NEW received \in Price,
         NEW b, Trip(b, buy, sell, fees, usd, received)
  PROVE  b.net \preceq received \ominus Paid(buy, b.coins) \ominus b.usd \otimes fees.buy
                 \ominus received \otimes fees.sell \ominus b.flat
<1>1. usd \in Fraction /\ received \in Fraction /\ fees.buy \in Fraction
        /\ fees.sell \in Fraction
  BY DEF Price, Amount, FeesAre
<1>2. PICK u \in Fraction, r \in Fraction, P \in Fraction, F \in Fraction :
        /\ u = usd \otimes fees.buy /\ r = received \otimes fees.sell
        /\ P = Paid(buy, b.coins) /\ P \preceq usd /\ F = b.flat
        /\ b.net = received \ominus usd \ominus (u \oplus r) \ominus F /\ b.usd = usd
  <2>1. b.flat \in Fraction  BY FlatIs, Amounts DEF Trip
  <2>2. usd \otimes fees.buy \in Fraction /\ received \otimes fees.sell \in Fraction
    BY <1>1, ProductValue
  <2>3. QED  BY <2>1, <2>2 DEF Trip
<1>3. PICK p \in Fraction, q \in Fraction : p = usd /\ q = received  BY <1>1
<1>4. q \ominus p \ominus (u \oplus r) \ominus F
        \preceq q \ominus P \ominus u \ominus r \ominus F
  <2>1. PICK D : /\ Linear(D) /\ u \in Over(D) /\ r \in Over(D) /\ P \in Over(D)
                 /\ F \in Over(D) /\ p \in Over(D) /\ q \in Over(D)
    <3>1. Together(u, r, P, F, p, q, q, q)  BY OverEight
    <3>2. QED  BY <3>1 DEF Together
  <2>2. QED  BY <1>2, <1>3, <2>1 DEF Linear
<1>5. QED  BY <1>2, <1>3, <1>4

LEMMA QuarterIs ==
  ASSUME NEW i \in 1..4
  PROVE  Frac(i, 4) \in Price /\ Frac(i, 4) \preceq One
<1>1. PICK f : f = Frac(i, 4)  OBVIOUS
<1>2. f \in Fraction /\ f[1] * 4 = i * f[2]  BY <1>1, FracIs DEF Positive
<1>3. f[1] \in Int /\ f[2] \in Int /\ f[2] > 0  BY <1>2, FractionParts
<1>4. f[1] > 0 /\ f[1] <= f[2]  BY <1>2, <1>3
<1>5. Nil \prec f  BY <1>2, <1>4, Signs
<1>6. f \preceq One
  <2>1. One[1] = 1 /\ One[2] = 1  BY DEF One, Whole
  <2>2. f \preceq One <=> f[1] * One[2] <= One[1] * f[2]  BY <1>2, Zero, Order
  <2>3. QED  BY <1>3, <1>4, <2>1, <2>2
<1>7. QED  BY <1>1, <1>2, <1>5, <1>6 DEF Price

LEMMA DepthIs ==
  ASSUME NEW buy, IsBook(buy), NEW sell, IsBook(sell)
  PROVE  /\ Depth(buy, sell) \in Price
         /\ Depth(buy, sell) \preceq MaxUsd(buy, "buy")
              /\ Depth(buy, sell) \preceq MaxUsd(sell, "sell")
<1>1. MaxUsd(buy, "buy") \in Price /\ MaxUsd(sell, "sell") \in Price  BY MaxUsdIs
<1>2. QED  BY <1>1, LeastIs DEF Depth, Price

LEMMA SweepIs ==
  ASSUME NEW buy, IsBook(buy), NEW sell, IsBook(sell), NEW fees, FeesAre(fees)
  PROVE  /\ IsFiniteSet(Sweep(buy, sell, fees))
         /\ \A b \in Sweep(buy, sell, fees) : \E usd \in Price, received \in Price :
               usd \preceq Depth(buy, sell) /\ Trip(b, buy, sell, fees, usd, received)
<1>1. PICK d \in Price : d = Depth(buy, sell)  BY DepthIs
<1> DEFINE T == {AtSize(d \otimes Frac(i, 4), buy, sell, fees) : i \in 1..4}
           f == [i \in 1..4 |-> AtSize(d \otimes Frac(i, 4), buy, sell, fees)]
<1>2. Sweep(buy, sell, fees) = T \ {None}  BY <1>1 DEF Sweep, Sizes
<1>3. IsFiniteSet(T)
  <2>1. f \in Surjection(1..4, T)  BY DEF Surjection
  <2>2. IsFiniteSet(1..4)
    <3>1. 1 \in Int /\ 4 \in Int  OBVIOUS
    <3> HIDE DEF f, T
    <3>2. QED  BY <3>1, FS_Interval, Zenon
  <2>3. QED
    <3> HIDE DEF f, T
    <3>1. QED  BY <2>1, <2>2, FS_Surjection
<1>4. ASSUME NEW b \in T, b # None
      PROVE  \E usd \in Price, received \in Price :
                usd \preceq Depth(buy, sell) /\ Trip(b, buy, sell, fees, usd, received)
  <2>1. PICK i \in 1..4 : b = AtSize(d \otimes Frac(i, 4), buy, sell, fees)  OBVIOUS
  <2>2. PICK q \in Price : q = Frac(i, 4) /\ q \preceq One  BY QuarterIs
  <2>3. PICK usd \in Price : usd = d \otimes q  BY Amounts
  <2>4. usd \preceq d
    <3>1. q \in Fraction /\ d \in Fraction /\ Nil \preceq d  BY Amounts DEF Price, Amount
    <3>2. q \otimes d \preceq One \otimes d  BY <2>2, <3>1, Zero, ProductOrder
    <3>3. QED  BY <2>3, <3>1, <3>2, ProductOfOne, ProductCommutes
  <2>5. b = AtSize(usd, buy, sell, fees)  BY <2>1, <2>2, <2>3
  <2>6. QED  BY <1>1, <1>4, <2>4, <2>5, RoundTrip
<1>5. IsFiniteSet(T \ {None})  BY <1>3, FS_Difference
<1>6. QED  BY <1>2, <1>4, <1>5

(* The best of some round trips is one of them.                             *)
LEMMA RichestIs ==
  ASSUME NEW s, IsFiniteSet(s), s # {}, \A b \in s : b.net \in Fraction /\ b.usd \in Fraction
  PROVE  Richest(s) \in s
<1> DEFINE Better(x, y) == y.net \prec x.net \/ (x.net = y.net /\ x.usd \prec y.usd)
           R == {p \in s \X s : Better(p[1], p[2])}
<1>1. Strict(s, R)
  <2>1. ASSUME NEW v \in s PROVE ~Better(v, v)  BY Total
  <2>2. ASSUME NEW u \in s, NEW v \in s, NEW w \in s, Better(u, v), Better(v, w)
        PROVE  Better(u, w)
    BY <2>2, Total
  <2>3. QED  BY <2>1, <2>2 DEF Strict
<1>2. PICK v \in s : \A w \in s : <<w, v>> \notin R  BY <1>1, Minimal
<1>3. ASSUME NEW w \in s PROVE w.net \prec v.net \/ (w.net = v.net /\ v.usd \preceq w.usd)
  <2>1. ~Better(w, v)  BY <1>2
  <2>2. QED  BY <2>1, Total
<1>4. QED  BY <1>3 DEF Richest

LEMMA RecommendedIs ==
  ASSUME NEW s, IsFiniteSet(s), s # {}, \A b \in s : b.net \in Fraction /\ b.usd \in Fraction
  PROVE  Recommended(s) \in s
<1>1. EligibleSizes(s) \subseteq s  BY DEF EligibleSizes
<1>2. IsFiniteSet(EligibleSizes(s))  BY <1>1, FS_Subset
<1>3. QED  BY <1>1, <1>2, RichestIs DEF Recommended

-----------------------------------------------------------------------------
(* Ranking: medians, noise, stability, and the scores made of them.         *)

(* The k-th smallest of some numbers is one of them.                        *)
LEMMA Extremes ==
  ASSUME NEW V \in SUBSET Int, IsFiniteSet(V), V # {}
  PROVE  /\ \E x \in V : \A y \in V : x <= y
         /\ \E x \in V : \A y \in V : y <= x
<1> DEFINE R == {p \in V \X V : p[1] < p[2]}
           Q == {p \in V \X V : p[2] < p[1]}
<1>1. Strict(V, R) /\ Strict(V, Q)  BY DEF Strict
<1>2. PICK x \in V : \A w \in V : <<w, x>> \notin R  BY <1>1, Minimal
<1>3. PICK z \in V : \A w \in V : <<w, z>> \notin Q  BY <1>1, Minimal
<1>4. ASSUME NEW y \in V PROVE x <= y
  <2>1. x \in Int /\ y \in Int /\ ~(y < x)  BY <1>2
  <2>2. QED  BY <2>1
<1>5. ASSUME NEW y \in V PROVE y <= z
  <2>1. z \in Int /\ y \in Int /\ ~(z < y)  BY <1>3
  <2>2. QED  BY <2>1
<1>6. QED  BY <1>4, <1>5

LEMMA KthIs ==
  ASSUME NEW n \in Nat, NEW f, DOMAIN f = 1..n, \A i \in 1..n : f[i] \in Int,
         NEW k \in 1..n
  PROVE  /\ Kth(f, k) \in Int /\ \E i \in 1..n : Kth(f, k) = f[i]
         /\ Cardinality({i \in DOMAIN f : f[i] <= Kth(f, k)}) >= k
<1> DEFINE V == {f[i] : i \in 1..n}
           Upto(x) == {i \in 1..n : f[i] <= x}
           Under(x) == {i \in 1..n : f[i] < x}
           T == {x \in V : Cardinality(Upto(x)) >= k}
<1>1. IsFiniteSet(1..n) /\ Cardinality(1..n) = n
  <2>1. 1 \in Int /\ n \in Int  OBVIOUS
  <2>2. QED  BY <2>1, FS_Interval
<1>2. \A x : /\ IsFiniteSet(Upto(x)) /\ Cardinality(Upto(x)) \in Nat
             /\ IsFiniteSet(Under(x)) /\ Cardinality(Under(x)) \in Nat
  BY <1>1, FS_Subset, FS_CardinalityType
<1>3. IsFiniteSet(V) /\ V # {} /\ V \in SUBSET Int
  <2>1. V # {} /\ V \in SUBSET Int  OBVIOUS
  <2>2. [i \in 1..n |-> f[i]] \in Surjection(1..n, V)  BY DEF Surjection
  <2>3. IsFiniteSet(V)
    <3> HIDE DEF V
    <3>1. QED  BY <1>1, <2>2, FS_Surjection
  <2>4. QED  BY <2>1, <2>3
<1>4. PICK top \in V : \A y \in V : y <= top
  <2> HIDE DEF V
  <2>1. QED  BY <1>3, Extremes
<1>5. top \in T
  <2>1. Upto(top) = 1..n  BY <1>4
  <2>2. Cardinality(Upto(top)) = n  BY <1>1, <2>1
  <2>3. Cardinality(Upto(top)) >= k
    <3> HIDE DEF Upto
    <3>1. QED  BY <2>2
  <2>4. QED  BY <2>3
<1>6. IsFiniteSet(T) /\ T # {} /\ T \in SUBSET Int
  <2>1. T \subseteq V  OBVIOUS
  <2>2. QED
    <3> HIDE DEF V, T
    <3>1. QED  BY <1>3, <1>5, <2>1, FS_Subset
<1>7. PICK x \in T : \A y \in T : x <= y
  <2> HIDE DEF T
  <2>1. QED  BY <1>6, Extremes
<1>8. Cardinality(Under(x)) < k
  <2> SUFFICES ASSUME ~(Cardinality(Under(x)) < k) PROVE FALSE  OBVIOUS
  <2> DEFINE U == {y \in V : y < x}
  <2>1. Under(x) # {}
    <3>1. Under(x) = {} => Cardinality(Under(x)) = 0  BY FS_EmptySet
    <3>2. QED  BY <3>1
  <2>2. U # {}  BY <2>1
  <2>3. IsFiniteSet(U) /\ U \in SUBSET Int
    <3>1. U \subseteq V /\ U \subseteq Int  BY <1>3
    <3>2. QED
      <4> HIDE DEF U, V
      <4>1. QED  BY <1>3, <3>1, FS_Subset
  <2>4. PICK y \in U : \A z \in U : z <= y
    <3> HIDE DEF U
    <3>1. QED  BY <2>2, <2>3, Extremes
  <2>5. Upto(y) = Under(x)
    <3>1. \A i \in 1..n : f[i] <= y <=> f[i] < x
      <4>1. x \in Int /\ y \in Int /\ y < x  BY <1>3, <2>4
      <4>2. \A i \in 1..n : f[i] < x => f[i] <= y  BY <2>4
      <4>3. QED  BY <4>1, <4>2
    <3>2. QED  BY <3>1
  <2>6. Cardinality(Upto(y)) >= k
    <3>1. Cardinality(Under(x)) \in Nat  BY <1>2
    <3>2. ~(Cardinality(Under(x)) < k)  OBVIOUS
    <3>3. QED
      <4> HIDE DEF Under, Upto
      <4>1. QED  BY <2>5, <3>1, <3>2
  <2>7. y \in T /\ y < x  BY <2>4, <2>6
  <2>8. x <= y /\ x \in Int /\ y \in Int  BY <1>3, <1>7, <2>7
  <2>9. QED  BY <2>7, <2>8
<1>9. /\ Kth(f, k) \in V /\ Cardinality(Upto(Kth(f, k))) >= k
  <2>1. x \in V /\ Cardinality(Under(x)) < k /\ Cardinality(Upto(x)) >= k  BY <1>7, <1>8
  <2>2. QED  BY <2>1 DEF Kth
<1>10. QED  BY <1>3, <1>9

LEMMA MedianIs ==
  ASSUME NEW n \in Nat \ {0}, NEW f, DOMAIN f = 1..n, \A i \in 1..n : f[i] \in Int
  PROVE  /\ TwiceMedian(f) \in Int
         /\ (\A i \in 1..n : f[i] >= 0) => TwiceMedian(f) >= 0
         /\ (\A i \in 1..n : f[i] > 0) => TwiceMedian(f) > 0
<1>1. Cardinality(DOMAIN f) = n
  <2>1. 1 \in Int /\ n \in Int  OBVIOUS
  <2>2. QED  BY <2>1, FS_Interval
<1>2. PICK k \in 1..n, l \in 1..n : k = (n + 1) \div 2 /\ l = n \div 2 + 1  OBVIOUS
<1>3. TwiceMedian(f) = Kth(f, k) + Kth(f, l)  BY <1>1, <1>2 DEF TwiceMedian
<1>4. PICK i \in 1..n : Kth(f, k) = f[i]  BY KthIs
<1>5. PICK j \in 1..n : Kth(f, l) = f[j]  BY KthIs
<1>6. f[i] \in Int /\ f[j] \in Int  OBVIOUS
<1>7. QED  BY <1>3, <1>4, <1>5, <1>6

LEMMA FourMadIs ==
  ASSUME NEW n \in Nat \ {0}, NEW w, DOMAIN w = 1..n, \A i \in 1..n : w[i] \in Int
  PROVE  FourMad(w) \in Nat
<1>1. PICK m \in Int : m = TwiceMedian(w)  BY MedianIs
<1> DEFINE g == [i \in DOMAIN w |-> Gap(2 * w[i], TwiceMedian(w))]
<1>2. DOMAIN g = 1..n /\ \A i \in 1..n : g[i] \in Int /\ g[i] >= 0
  <2>1. \A a, b \in Int : Gap(a, b) \in Int /\ Gap(a, b) >= 0  BY DEF Gap
  <2>2. \A i \in 1..n : 2 * w[i] \in Int  OBVIOUS
  <2>3. QED  BY <1>1, <2>1, <2>2
<1>3. TwiceMedian(g) \in Int /\ TwiceMedian(g) >= 0
  <2> HIDE DEF g
  <2>1. QED  BY <1>2, MedianIs
<1>4. FourMad(w) = TwiceMedian(g)  BY DEF FourMad
<1>5. QED  BY <1>3, <1>4

LEMMA NoiseIs ==
  ASSUME NEW w \in Seq(Nat \ {0})
  PROVE  Noise(w) \in Fraction \cup {Unknown}
<1>1. CASE Len(w) < 3  BY <1>1 DEF Noise
<1>2. CASE ~(Len(w) < 3)
  <2>1. PICK n \in Nat \ {0} : n = Len(w) /\ DOMAIN w = 1..n  BY <1>2
  <2>2. \A i \in 1..n : w[i] \in Int /\ w[i] > 0  BY <2>1
  <2>3. PICK m \in Int : m = TwiceMedian(w) /\ m > 0  BY <2>1, <2>2, MedianIs
  <2>4. PICK d \in Nat : d = FourMad(w)  BY <2>1, <2>2, FourMadIs
  <2>5. 100 * d \in Int /\ 2 * m \in Positive  BY <2>3 DEF Positive
  <2>6. Frac(100 * d, 2 * m) \in Fraction  BY <2>5, FracIs
  <2>7. QED  BY <1>2, <2>3, <2>4, <2>6 DEF Noise
<1>3. QED  BY <1>1, <1>2

LEMMA WorseNoiseIs ==
  ASSUME NEW a \in Fraction \cup {Unknown}, NEW b \in Fraction \cup {Unknown}
  PROVE  WorseNoise(a, b) \in Fraction \cup {Unknown}
  BY LeastIs DEF WorseNoise

LEMMA Hundred == All \in Fraction /\ Nil \prec All /\ Nil \in Fraction
  BY WholeIs, WholeOrder DEF All, Nil

LEMMA ClampedIs ==
  ASSUME NEW x \in Fraction
  PROVE  Clamped(x) \in Fraction /\ (Nil \preceq x /\ x \preceq All => Clamped(x) = x)
<1>1. Least(All, x) \in Fraction  BY Hundred, LeastIs
<1>2. Clamped(x) \in Fraction  BY <1>1, Hundred, LeastIs DEF Clamped
<1>3. ASSUME Nil \preceq x, x \preceq All PROVE Clamped(x) = x
  <2>1. Least(All, x) = x  BY <1>3, Hundred, Total DEF Least
  <2>2. QED  BY <1>3, <2>1 DEF Clamped, Most
<1>4. QED  BY <1>2, <1>3

LEMMA StabilityIs ==
  ASSUME NEW noise \in Fraction \cup {Unknown}, NEW spread \in Fraction
  PROVE  SpreadStability(noise, spread) \in Fraction
<1>1. CASE noise = Unknown  BY <1>1, WholeIs DEF SpreadStability
<1>2. CASE noise # Unknown /\ spread \preceq Nil  BY <1>2, Hundred DEF SpreadStability
<1>3. CASE noise # Unknown /\ ~(spread \preceq Nil)
  <2>1. Nil \prec spread  BY <1>3, Hundred, Total
  <2>2. noise \oslash spread \in Fraction  BY <1>3, <2>1, QuotientTimes
  <2>3. All \otimes (noise \oslash spread) \in Fraction  BY <2>2, Hundred, ProductValue
  <2>4. All \ominus All \otimes (noise \oslash spread) \in Fraction  BY <2>3, Hundred, SumOrder
  <2>5. QED  BY <1>3, <2>4, ClampedIs DEF SpreadStability
<1>4. QED  BY <1>1, <1>2, <1>3

LEMMA RateStabilityIs ==
  ASSUME NEW w \in Seq(Int)
  PROVE  RateStability(w) \in Fraction
<1>1. CASE Len(w) < 3  BY <1>1, WholeIs DEF RateStability
<1>2. CASE ~(Len(w) < 3)
  <2>1. PICK n \in Nat \ {0} : n = Len(w) /\ DOMAIN w = 1..n  BY <1>2
  <2>2. \A i \in 1..n : w[i] \in Int  BY <2>1
  <2>3. PICK m \in Int : m = TwiceMedian(w)  BY <2>1, <2>2, MedianIs
  <2>4. PICK d \in Nat : d = FourMad(w)  BY <2>1, <2>2, FourMadIs
  <2>5. ASSUME NEW a \in Int, NEW b \in Int, b > 0
        PROVE  Clamped(All \ominus Frac(a, b)) \in Fraction
    <3>1. Frac(a, b) \in Fraction  BY <2>5, FracIs DEF Positive
    <3>2. All \ominus Frac(a, b) \in Fraction  BY <3>1, Hundred, SumOrder
    <3>3. QED  BY <3>2, ClampedIs
  <2>6. CASE m # 0
    <3>1. Gap(m, 0) \in Int /\ Gap(m, 0) > 0  BY <2>6 DEF Gap
    <3>2. 50 * d \in Int  OBVIOUS
    <3>3. Clamped(All \ominus Frac(50 * d, Gap(m, 0))) \in Fraction  BY <2>5, <3>1, <3>2
    <3>4. QED  BY <1>2, <2>3, <2>4, <2>6, <3>3 DEF RateStability
  <2>7. CASE m = 0 /\ \A i \in DOMAIN w : w[i] = 0
    BY <1>2, <2>3, <2>7, Hundred DEF RateStability
  <2>8. CASE m = 0 /\ ~(\A i \in DOMAIN w : w[i] = 0)
    <3> DEFINE g == [i \in DOMAIN w |-> Gap(w[i], 0)]
    <3>1. DOMAIN g = 1..n /\ \A i \in 1..n : g[i] \in Int /\ g[i] = Gap(w[i], 0)
      BY <2>1, <2>2 DEF Gap
    <3>2. PICK j \in 1..n : g[j] > 0  BY <2>1, <2>2, <2>8 DEF Gap
    <3>3. n \in 1..n  OBVIOUS
    <3>4. PICK x \in Int : x = Kth(g, n) /\ Cardinality({i \in DOMAIN g : g[i] <= x}) >= n
      <4> HIDE DEF g
      <4>1. \A i \in 1..n : g[i] \in Int  BY <3>1
      <4>2. Kth(g, n) \in Int /\ Cardinality({i \in DOMAIN g : g[i] <= Kth(g, n)}) >= n
        BY <3>1, <3>3, <4>1, KthIs
      <4>3. QED  BY <4>2
    <3>5. x > 0
      <4> DEFINE U == {i \in DOMAIN g : g[i] <= x}
      <4>1. U \subseteq 1..n  BY <3>1
      <4>2. IsFiniteSet(1..n) /\ Cardinality(1..n) = n
        <5>1. 1 \in Int /\ n \in Int  OBVIOUS
        <5>2. QED  BY <5>1, FS_Interval
      <4>3. Cardinality(U) >= n /\ U \in SUBSET (1..n)  BY <3>4, <4>1
      <4>4. U = 1..n
        <5> HIDE DEF U
        <5>1. Cardinality(U) <= n /\ Cardinality(U) \in Nat
                /\ (Cardinality(1..n) = Cardinality(U) => U = 1..n)
          BY <4>2, <4>3, FS_Subset, FS_CardinalityType
        <5>2. QED  BY <4>2, <4>3, <5>1
      <4>5. j \in U  BY <4>4
      <4>6. QED  BY <3>1, <3>2, <4>5
    <3>6. 25 * d \in Int  OBVIOUS
    <3>7. Clamped(All \ominus Frac(25 * d, x)) \in Fraction  BY <2>5, <3>5, <3>6
    <3>8. QED  BY <1>2, <2>1, <2>3, <2>4, <2>8, <3>4, <3>7 DEF RateStability
  <2>9. QED  BY <2>6, <2>7, <2>8
<1>3. QED  BY <1>1, <1>2

LEMMA ScoredIs ==
  ASSUME NEW b \in Price, NEW s \in Price
  PROVE  Scored(b, s) \in Fraction
<1>1. PICK l \in Price : l = Least(b, s)  BY LeastIs DEF Price
<1>2. PICK x \in Fraction : x = l \oslash DepthReference
  <2>1. DepthReference \in Price  BY PricingAssumption
  <2>2. QED  BY <1>1, <2>1, Amounts
<1>3. PICK y \in Fraction : y = Whole(3) \otimes Least(One, x)
  <2>1. Least(One, x) \in Fraction /\ Whole(3) \in Fraction  BY Zero, LeastIs, WholeIs
  <2>2. QED  BY <2>1, ProductValue
<1>4. PICK z \in Fraction : z = (Whole(2) \otimes l) \oslash (b \oplus s)
  <2>1. Whole(2) \otimes l \in Fraction  BY <1>1, WholeIs, ProductValue DEF Price
  <2>2. b \oplus s \in Fraction /\ Nil \prec b \oplus s  BY Amounts DEF Price
  <2>3. QED  BY <2>1, <2>2, QuotientTimes
<1>5. PICK u \in Fraction : u = y \oplus z  BY SumOrder
<1>6. Scored(b, s) = Whole(25) \otimes u  BY <1>1, <1>2, <1>3, <1>4, <1>5 DEF Scored
<1>7. QED  BY <1>6, WholeIs, ProductValue

LEMMA ScoreIs ==
  ASSUME NEW buy, IsBook(buy), NEW sell, IsBook(sell), NEW noise \in Fraction \cup {Unknown}
  PROVE  Score(buy, sell, noise) \in Fraction
<1>1. PICK u \in Fraction : u = Scored(MaxUsd(buy, "buy"), MaxUsd(sell, "sell"))
  <2>1. MaxUsd(buy, "buy") \in Price /\ MaxUsd(sell, "sell") \in Price  BY MaxUsdIs
  <2>2. QED  BY <2>1, ScoredIs
<1>2. CASE noise = None  BY <1>1, <1>2 DEF Score
<1>3. CASE noise # None
  <2>1. noise \in Fraction  BY <1>3 DEF None, Unknown
  <2>2. Frac(4, 5) \in Fraction /\ Frac(2, 5) \in Fraction  BY FracIs DEF Positive
  <2>3. Frac(4, 5) \otimes u \in Fraction /\ Frac(2, 5) \otimes noise \in Fraction
    BY <2>1, <2>2, ProductValue
  <2>4. Whole(20) \ominus Frac(2, 5) \otimes noise \in Fraction  BY <2>3, WholeIs, SumOrder
  <2>5. Most(Nil, Whole(20) \ominus Frac(2, 5) \otimes noise) \in Fraction
    BY <2>4, Hundred, LeastIs
  <2>6. QED  BY <1>1, <1>3, <2>3, <2>5, SumOrder DEF Score
<1>4. QED  BY <1>2, <1>3

LEMMA FreshnessIs ==
  ASSUME NEW old \in Nat, NEW limit \in Nat
  PROVE  Freshness(old, limit) \in Fraction
<1>1. CASE limit = 0  BY <1>1, Hundred DEF Freshness
<1>2. CASE limit # 0
  <2>1. PICK n \in Int : n = 100 * (IF old < limit THEN old ELSE limit)  OBVIOUS
  <2>2. Frac(n, limit) \in Fraction  BY <1>2, FracIs DEF Positive
  <2>3. QED  BY <1>2, <2>1, <2>2, Hundred, SumOrder DEF Freshness
<1>3. QED  BY <1>1, <1>2

LEMMA ReliabilityIs ==
  ASSUME NEW e, e.rows \in Seq([reason : STRING, life : Nat])
  PROVE  Reliability(e) \in Fraction
<1>1. Unproven \in Fraction  BY WholeIs DEF Unproven
<1>2. ASSUME e.rows # <<>> PROVE HitRate(e.rows) \in Fraction
  <2> DEFINE S == {i \in DOMAIN e.rows : Good(e.rows[i])}
  <2>1. PICK n \in Positive : n = Len(e.rows) /\ DOMAIN e.rows = 1..n  BY <1>2 DEF Positive
  <2>2. IsFiniteSet(1..n)
    <3>1. 1 \in Int /\ n \in Int  BY DEF Positive
    <3>2. QED  BY <3>1, FS_Interval
  <2>3. S \in SUBSET (1..n)  BY <2>1
  <2>4. PICK h \in Nat : h = Cardinality(S)
    <3> HIDE DEF S
    <3>1. QED  BY <2>2, <2>3, FS_Subset, FS_CardinalityType
  <2>5. 100 * h \in Int  OBVIOUS
  <2>6. Frac(100 * h, n) \in Fraction  BY <2>5, FracIs
  <2>7. HitRate(e.rows) = Frac(100 * h, n)  BY <1>2, <2>1, <2>4 DEF HitRate
  <2>8. QED  BY <2>6, <2>7
<1>3. QED  BY <1>1, <1>2 DEF Reliability, HitRate

LEMMA WeighedIs ==
  ASSUME NEW w \in Nat, NEW x \in Fraction
  PROVE  /\ Weighed(w, x) \in Fraction
         /\ \A y \in Fraction : x \preceq y => Weighed(w, x) \preceq Weighed(w, y)
         /\ \A y \in Fraction : w >= 1 /\ x \prec y => Weighed(w, x) \prec Weighed(w, y)
         /\ \A y \in Fraction : w >= 3 /\ x \oplus Whole(45) \preceq y
               => Weighed(w, x) \oplus One \preceq Weighed(w, y)
<1>1. PICK p : p = Whole(w) \oslash All  OBVIOUS
<1>2. Whole(w) \in Fraction /\ Nil \preceq Whole(w) /\ (w >= 1 => Nil \prec Whole(w))
  BY WholeIs, WholeOrder DEF Nil
<1>3. p \in Fraction /\ p \otimes All = Whole(w) /\ Nil \preceq p /\ (w >= 1 => Nil \prec p)
  BY <1>1, <1>2, Hundred, QuotientTimes, QuotientSigns
<1>4. \A y \in Fraction : Weighed(w, y) = y \otimes p /\ y \otimes p \in Fraction
  <2> TAKE y \in Fraction
  <2>1. Weighed(w, y) = p \otimes y  BY <1>1 DEF Weighed, Percent
  <2>2. QED  BY <1>3, <2>1, ProductCommutes, ProductValue
<1>5. \A y \in Fraction : x \preceq y => x \otimes p \preceq y \otimes p  BY <1>3, ProductOrder
<1>6. \A y \in Fraction : w >= 1 /\ x \prec y => x \otimes p \prec y \otimes p
  BY <1>3, ProductOrder
<1>7. ASSUME NEW y \in Fraction, w >= 3, x \oplus Whole(45) \preceq y
      PROVE  x \otimes p \oplus One \preceq y \otimes p
  <2>1. PICK q \in Fraction : q = Whole(45)  BY WholeIs
  <2>2. x \oplus q \in Fraction  BY <2>1, SumOrder
  <2>3. (x \oplus q) \otimes p \preceq y \otimes p  BY <1>3, <1>7, <2>1, <2>2, ProductOrder
  <2>4. (x \oplus q) \otimes p = x \otimes p \oplus q \otimes p
    <3>1. p \otimes (x \oplus q) = p \otimes x \oplus p \otimes q
      BY <1>3, <2>1, ProductDistributes
    <3>2. QED  BY <1>3, <2>1, <2>2, <3>1, ProductCommutes
  <2>5. PICK r \in Fraction : r = q \otimes p  BY <1>3, <2>1, ProductValue
  <2>6. One \preceq r
    <3>1. r \otimes All = Whole(45 * w)
      <4>1. r \otimes All = q \otimes Whole(w)  BY <1>3, <2>1, <2>5, Hundred, ProductAssociates
      <4>2. QED  BY <2>1, <4>1, WholeProduct
    <3>2. One \otimes All = Whole(100)  BY Hundred, ProductOfOne DEF All
    <3>3. r \prec One <=> r \otimes All \prec One \otimes All
      BY <2>5, Zero, Hundred, ProductOrder
    <3>4. ~(Whole(45 * w) \prec Whole(100))
      <4>1. PICK n \in Int : n = 45 * w /\ ~(n < 100)  BY <1>7
      <4>2. QED  BY <4>1, WholeOrder
    <3>5. QED  BY <3>1, <3>2, <3>3, <3>4 DEF \preceq
  <2>7. x \otimes p \in Fraction  BY <1>4
  <2>8. x \otimes p \preceq x \otimes p  BY <2>7, Total
  <2>9. x \otimes p \oplus One \preceq x \otimes p \oplus r
    BY <2>5, <2>6, <2>7, <2>8, Zero, SumOrder
  <2>10. /\ x \otimes p \oplus One \in Fraction /\ x \otimes p \oplus r \in Fraction
         /\ y \otimes p \in Fraction
    BY <1>4, <2>5, <2>7, Zero, SumOrder
  <2>11. QED  BY <2>3, <2>4, <2>5, <2>9, <2>10, Total
<1>8. QED  BY <1>4, <1>5, <1>6, <1>7

Six(a, b, c, d, e, f) == a \oplus b \oplus c \oplus d \oplus e \oplus f
LEMMA SixGrow ==
  ASSUME NEW a \in Fraction, NEW b \in Fraction, NEW c \in Fraction, NEW e \in Fraction,
         NEW f \in Fraction, NEW d \in Fraction, NEW k \in Fraction
  PROVE  /\ Six(a, b, c, d, e, f) \in Fraction
         /\ d \preceq k => Six(a, b, c, d, e, f) \preceq Six(a, b, c, k, e, f)
         /\ d \oplus One \preceq k => Six(a, b, c, d, e, f) \oplus One
              \preceq Six(a, b, c, k, e, f)
<1>0. One \in Fraction  BY Zero
<1>1. PICK D : /\ Linear(D) /\ a \in Over(D) /\ b \in Over(D) /\ c \in Over(D) /\ d \in Over(D)
               /\ e \in Over(D) /\ f \in Over(D) /\ k \in Over(D) /\ One \in Over(D)
  <2>1. Together(a, b, c, d, e, f, k, One)  BY <1>0, OverEight
  <2>2. QED  BY <2>1 DEF Together
<1>2. PICK s, t : s = Six(a, b, c, d, e, f) /\ t = Six(a, b, c, k, e, f)  OBVIOUS
<1>3. /\ s \in Over(D) /\ Num(s, D) = Num(a, D) + Num(b, D) + Num(c, D) + Num(d, D)
           + Num(e, D) + Num(f, D)
      /\ t \in Over(D) /\ Num(t, D) = Num(a, D) + Num(b, D) + Num(c, D) + Num(k, D)
           + Num(e, D) + Num(f, D)
  BY <1>1, <1>2 DEF Linear, Six
<1>4. QED  BY <1>1, <1>2, <1>3 DEF Linear

Four_(a, b, c, d) == a \oplus b \oplus c \oplus d
LEMMA FourGrow ==
  ASSUME NEW a \in Fraction, NEW b \in Fraction, NEW d \in Fraction,
         NEW c \in Fraction, NEW k \in Fraction
  PROVE  /\ Four_(a, b, c, d) \in Fraction
         /\ c \preceq k => Four_(a, b, c, d) \preceq Four_(a, b, k, d)
         /\ c \prec k => Four_(a, b, c, d) \prec Four_(a, b, k, d)
         /\ c \oplus One \preceq k => Four_(a, b, c, d) \oplus One \preceq Four_(a, b, k, d)
<1>0. One \in Fraction  BY Zero
<1>1. PICK D : /\ Linear(D) /\ a \in Over(D) /\ b \in Over(D) /\ c \in Over(D) /\ d \in Over(D)
               /\ k \in Over(D) /\ One \in Over(D)
  <2>1. Together(a, b, c, d, k, One, One, One)  BY <1>0, OverEight
  <2>2. QED  BY <2>1 DEF Together
<1>2. PICK s, t : s = Four_(a, b, c, d) /\ t = Four_(a, b, k, d)  OBVIOUS
<1>3. /\ s \in Over(D) /\ Num(s, D) = Num(a, D) + Num(b, D) + Num(c, D) + Num(d, D)
      /\ t \in Over(D) /\ Num(t, D) = Num(a, D) + Num(b, D) + Num(k, D) + Num(d, D)
  BY <1>1, <1>2 DEF Linear, Four_
<1>4. QED  BY <1>1, <1>2, <1>3 DEF Linear

LEMMA ClampedGrows ==
  ASSUME NEW x \in Fraction, NEW y \in Fraction, x \preceq y
  PROVE  Clamped(x) \preceq Clamped(y)
  BY Hundred, Total DEF Clamped, Most, Least

LEMMA HealthIs ==
  ASSUME NEW up \in BOOLEAN, NEW degraded \in BOOLEAN, NEW trouble \in Nat
  PROVE  /\ Health(up, degraded, trouble) \in Fraction
         /\ Health(up, degraded, trouble) \preceq Health(up, FALSE, trouble)
         /\ up /\ trouble <= 55 =>
               Health(up, degraded, trouble) = Whole((IF degraded THEN 55 ELSE 100) - trouble)
<1>1. PICK n \in Int, m \in Int : n = (IF degraded THEN 55 ELSE 100) - trouble
        /\ m = 100 - trouble /\ n <= m
  OBVIOUS
<1>2. Whole(n) \in Fraction /\ Whole(m) \in Fraction /\ Whole(n) \preceq Whole(m)
  BY <1>1, WholeIs, WholeOrder
<1>3. CASE up
  <2>1. Health(up, degraded, trouble) = Clamped(Whole(n))
          /\ Health(up, FALSE, trouble) = Clamped(Whole(m))
    BY <1>1, <1>3 DEF Health
  <2>2. trouble <= 55 => Clamped(Whole(n)) = Whole(n)
    <3> HAVE trouble <= 55
    <3>1. 0 <= n /\ n <= 100  BY <1>1
    <3>2. Nil \preceq Whole(n) /\ Whole(n) \preceq All  BY <3>1, WholeOrder DEF Nil, All
    <3>3. QED  BY <1>2, <3>2, ClampedIs
  <2>3. Clamped(Whole(n)) \in Fraction /\ Clamped(Whole(n)) \preceq Clamped(Whole(m))
    BY <1>2, ClampedIs, ClampedGrows
  <2>4. QED  BY <1>1, <2>1, <2>2, <2>3
<1>4. CASE ~up  BY <1>4, Hundred, Total DEF Health
<1>5. QED  BY <1>3, <1>4

Points(a, b, c, d, e, f) ==
    Six(Weighed(Sure.fresh, a), Weighed(Sure.liquidity, b), Weighed(Sure.stability, c),
        Weighed(Sure.health, d), Weighed(Sure.reliability, e), Weighed(Sure.completeness, f))
Facets(a, b, c, d, e, f) ==
    [fresh |-> a, liquidity |-> b, stability |-> c, health |-> d, reliability |-> e,
     completeness |-> f]

(* The health of the venues counts: 45 points of it are one of confidence.  *)
LEMMA ConfidenceGrows ==
  ASSUME NEW a \in Fraction, NEW b \in Fraction, NEW c \in Fraction, NEW e \in Fraction,
         NEW f \in Fraction, NEW d \in Fraction, NEW k \in Fraction
  PROVE  /\ Confidence(Facets(a, b, c, d, e, f)) \in Int
         /\ d \preceq k
               => Confidence(Facets(a, b, c, d, e, f)) <= Confidence(Facets(a, b, c, k, e, f))
         /\ d \oplus Whole(45) \preceq k
               => Confidence(Facets(a, b, c, d, e, f)) < Confidence(Facets(a, b, c, k, e, f))
<1>1. \A x : Confidence(Facets(a, b, c, x, e, f)) = Floor(Points(a, b, c, x, e, f))
  BY DEF Confidence, Facets, Points, Six
<1>2. /\ Sure.fresh \in Nat /\ Sure.liquidity \in Nat /\ Sure.stability \in Nat
      /\ Sure.health \in Nat /\ Sure.reliability \in Nat /\ Sure.completeness \in Nat
      /\ Sure.health >= 3
  BY RankingAssumption
<1>3. PICK A \in Fraction, B \in Fraction, C \in Fraction, E \in Fraction, F \in Fraction :
        /\ A = Weighed(Sure.fresh, a) /\ B = Weighed(Sure.liquidity, b)
        /\ C = Weighed(Sure.stability, c) /\ E = Weighed(Sure.reliability, e)
        /\ F = Weighed(Sure.completeness, f)
  BY <1>2, WeighedIs
<1>4. PICK H \in Fraction, K \in Fraction :
        /\ H = Weighed(Sure.health, d) /\ K = Weighed(Sure.health, k)
        /\ d \preceq k => H \preceq K
        /\ d \oplus Whole(45) \preceq k => H \oplus One \preceq K
  BY <1>2, WeighedIs
<1>5. PICK s \in Fraction, t \in Fraction :
        /\ s = Six(A, B, C, H, E, F) /\ t = Six(A, B, C, K, E, F)
        /\ H \preceq K => s \preceq t
        /\ H \oplus One \preceq K => s \oplus One \preceq t
  <2>1. /\ Six(A, B, C, H, E, F) \in Fraction
        /\ H \preceq K => Six(A, B, C, H, E, F) \preceq Six(A, B, C, K, E, F)
        /\ H \oplus One \preceq K => Six(A, B, C, H, E, F) \oplus One
             \preceq Six(A, B, C, K, E, F)
    BY SixGrow
  <2>2. Six(A, B, C, K, E, F) \in Fraction  BY SixGrow
  <2>3. QED  BY <2>1, <2>2
<1>6. /\ Confidence(Facets(a, b, c, d, e, f)) = Floor(s)
      /\ Confidence(Facets(a, b, c, k, e, f)) = Floor(t)
  BY <1>1, <1>3, <1>4, <1>5 DEF Points
<1>7. QED  BY <1>4, <1>5, <1>6, FloorOrder

Reasons(a, b, c, d) == [fresh |-> a, stability |-> b, health |-> c, completeness |-> d]
LEMMA FundingConfidenceGrows ==
  ASSUME NEW a \in Fraction, NEW b \in Fraction, NEW d \in Fraction,
         NEW c \in Fraction, NEW k \in Fraction
  PROVE  /\ FundingConfidence(Reasons(a, b, c, d)) \in Int
         /\ c \preceq k
               => FundingConfidence(Reasons(a, b, c, d))
                  <= FundingConfidence(Reasons(a, b, k, d))
         /\ c \oplus Whole(45) \preceq k
               => FundingConfidence(Reasons(a, b, c, d))
                  < FundingConfidence(Reasons(a, b, k, d))
<1>1. \A x : FundingConfidence(Reasons(a, b, x, d))
              = Floor(Four_(Weighed(30, a), Weighed(25, b), Weighed(25, x), Weighed(20, d)))
  BY DEF FundingConfidence, Reasons, Four_
<1>2. PICK A \in Fraction, B \in Fraction, F \in Fraction :
        A = Weighed(30, a) /\ B = Weighed(25, b) /\ F = Weighed(20, d)
  BY WeighedIs
<1>3. PICK H \in Fraction, K \in Fraction :
        /\ H = Weighed(25, c) /\ K = Weighed(25, k)
        /\ c \preceq k => H \preceq K
        /\ c \oplus Whole(45) \preceq k => H \oplus One \preceq K
  BY WeighedIs
<1>4. PICK s \in Fraction, t \in Fraction :
        /\ s = Four_(A, B, H, F) /\ t = Four_(A, B, K, F)
        /\ H \preceq K => s \preceq t
        /\ H \oplus One \preceq K => s \oplus One \preceq t
  BY FourGrow
<1>5. /\ FundingConfidence(Reasons(a, b, c, d)) = Floor(s)
      /\ FundingConfidence(Reasons(a, b, k, d)) = Floor(t)
  BY <1>1, <1>2, <1>3, <1>4
<1>6. QED  BY <1>3, <1>4, <1>5, FloorOrder

(* With the same profit, liquidity and risk, a signal that is more certain  *)
(* ranks strictly higher (RankingEngine.composite_score).                    *)
THEOREM CompositeGrows ==
  ASSUME NEW net \in Fraction, NEW liquidity \in Fraction, NEW i \in Int, NEW j \in Int,
         NEW risk \in DOMAIN Safety
  PROVE  /\ i <= j => Composite(net, liquidity, i, risk)
              \preceq Composite(net, liquidity, j, risk)
         /\ i < j => Composite(net, liquidity, i, risk)
              \prec Composite(net, liquidity, j, risk)
<1>1. /\ Ranks.profit \in Nat /\ Ranks.liquidity \in Nat /\ Ranks.confidence \in Nat
      /\ Ranks.risk \in Nat /\ Ranks.confidence >= 1
  BY RankingAssumption
<1>2. PICK A \in Fraction : A = Weighed(Ranks.profit, Scaled(net, ProfitReference))
  <2>1. net \oslash ProfitReference \in Fraction  BY RankingAssumption, QuotientTimes
  <2>2. All \otimes (net \oslash ProfitReference) \in Fraction  BY <2>1, Hundred, ProductValue
  <2>3. Clamped(All \otimes (net \oslash ProfitReference)) \in Fraction  BY <2>2, ClampedIs
  <2>4. Scaled(net, ProfitReference) \in Fraction  BY <2>3, FloorBounds, WholeIs DEF Scaled
  <2>5. QED  BY <1>1, <2>4, WeighedIs
<1>3. PICK B \in Fraction : B = Weighed(Ranks.liquidity, Whole(Floor(liquidity)))
  BY <1>1, FloorBounds, WholeIs, WeighedIs
<1>4. PICK F \in Fraction : F = Weighed(Ranks.risk, Whole(Safety[risk]))
  <2>1. Safety[risk] \in Int  BY DEF Safety
  <2>2. QED  BY <1>1, <2>1, WholeIs, WeighedIs
<1>5. PICK H \in Fraction, K \in Fraction :
        /\ H = Weighed(Ranks.confidence, Whole(i)) /\ K = Weighed(Ranks.confidence, Whole(j))
        /\ i <= j => H \preceq K
        /\ i < j => H \prec K
  <2>1. Whole(i) \in Fraction /\ Whole(j) \in Fraction  BY WholeIs
  <2>2. QED  BY <1>1, <2>1, WholeOrder, WeighedIs
<1>6. /\ Composite(net, liquidity, i, risk) = Four_(A, B, H, F)
      /\ Composite(net, liquidity, j, risk) = Four_(A, B, K, F)
  BY <1>2, <1>3, <1>4, <1>5 DEF Composite, Four_
<1>7. QED  BY <1>5, <1>6, FourGrow
=============================================================================
