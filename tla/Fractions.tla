------------------------------ MODULE Fractions ------------------------------
(* Exact fractions in lowest terms, for prices and fees: the program computes *)
(* with 28-digit decimals, which round where these do not.                    *)
EXTENDS Integers

gcd[p \in Nat \X Nat] == IF p[2] = 0 THEN p[1] ELSE gcd[<<p[2], p[1] % p[2]>>]
Gcd(a, b) == gcd[<<a, b>>]
Size(n)   == IF n < 0 THEN -n ELSE n

By(g, n, d) == <<n \div g, d \div g>>
Frac(n, d) == By(Gcd(Size(n), d), n, d)
Whole(n)   == <<n, 1>>
Nil        == Whole(0)
One        == Whole(1)

Ratio    == Int \X (Nat \ {0})
Fraction == {a \in Ratio : Gcd(Size(a[1]), a[2]) = 1}

(* Common factors are cancelled first: TLC's integers are 32 bits wide.       *)
Sum(g, a, b) ==
    Frac(a[1] * (b[2] \div g) + b[1] * (a[2] \div g), a[2] * (b[2] \div g))
a \oplus b == Sum(Gcd(a[2], b[2]), a, b)
a \ominus b == a \oplus <<-b[1], b[2]>>
Product(g, h, a, b) ==
    <<(a[1] \div g) * (b[1] \div h), (a[2] \div h) * (b[2] \div g)>>
a \otimes b == Product(Gcd(Size(a[1]), b[2]), Gcd(Size(b[1]), a[2]), a, b)
a \oslash b == a \otimes <<b[2], b[1]>>      \* b is positive

(* Compared by their whole parts first, then by what is left, upside down.    *)
Floor(a) == a[1] \div a[2]
Rest(a)  == a[1] % a[2]
below[q \in Ratio \X Ratio] ==
    IF Floor(q[1]) # Floor(q[2]) THEN Floor(q[1]) < Floor(q[2])
    ELSE IF Rest(q[2]) = 0 THEN FALSE
    ELSE IF Rest(q[1]) = 0 THEN TRUE
    ELSE below[<<<<q[2][2], Rest(q[2])>>, <<q[1][2], Rest(q[1])>>>>]
a \prec b   == below[<<a, b>>]
a \preceq b == ~(b \prec a)

Least(a, b) == IF a \preceq b THEN a ELSE b
Most(a, b)  == IF a \preceq b THEN b ELSE a
==============================================================================
