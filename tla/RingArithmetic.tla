--------------------------- MODULE RingArithmetic ---------------------------
(***************************************************************************)
(* Facts about remainders that the indices of a ring buffer rest on.       *)
(***************************************************************************)
EXTENDS Integers, TLAPS

\* Division with remainder of natural numbers.
LEMMA DivMod ==
  ASSUME NEW n \in Nat \ {0}, NEW a \in Nat
  PROVE  /\ a % n \in 0 .. n - 1
         /\ a \div n \in Nat
         /\ a = n * (a \div n) + (a % n)
<1>1. a % n \in 0 .. n - 1  BY SMT
<1>2. a \div n \in Nat      BY SMT
<1>3. a = n * (a \div n) + (a % n)  BY SMT
<1> QED BY <1>1, <1>2, <1>3

\* An index taken modulo n is one of n.
LEMMA ModRange ==
  ASSUME NEW n \in Nat \ {0}, NEW a \in Nat
  PROVE  a % n \in 0 .. n - 1
BY DivMod

\* Quotient and remainder are unique.
LEMMA DivModUnique ==
  ASSUME NEW n \in Nat \ {0}, NEW q1 \in Nat, NEW q2 \in Nat,
         NEW r1 \in 0 .. n - 1, NEW r2 \in 0 .. n - 1,
         n * q1 + r1 = n * q2 + r2
  PROVE  q1 = q2 /\ r1 = r2
<1>1. ~(q1 < q2)
  <2>1. q1 < q2 => n * q1 + n <= n * q2  BY SMT
  <2> QED BY <2>1
<1>2. ~(q2 < q1)
  <2>1. q2 < q1 => n * q2 + n <= n * q1  BY SMT
  <2> QED BY <2>1
<1> QED BY <1>1, <1>2

\* A number below n is its own remainder.
LEMMA SmallMod ==
  ASSUME NEW n \in Nat \ {0}, NEW a \in 0 .. n - 1
  PROVE  a % n = a
<1>1. a \in Nat  OBVIOUS
<1>2. a \div n \in Nat /\ a % n \in 0 .. n - 1 /\ a = n * (a \div n) + (a % n)
  BY <1>1, DivMod
<1> DEFINE q == a \div n
           r == a % n
<1> HIDE DEF q, r
<1>3. q \in Nat /\ r \in 0 .. n - 1 /\ 0 \in Nat  BY <1>2 DEF q, r
<1>4. n * 0 + a = n * q + r  BY <1>2 DEF q, r
<1>5. r = a  BY <1>3, <1>4, DivModUnique
<1> QED BY <1>5 DEF r

\* Two numbers less than n apart have different remainders.
LEMMA ModInj ==
  ASSUME NEW n \in Nat \ {0}, NEW a \in Nat, NEW b \in Nat,
         a - b < n, b - a < n, a % n = b % n
  PROVE  a = b
<1> DEFINE q1 == a \div n
           q2 == b \div n
           r  == a % n
<1>1. q1 \in Nat /\ q2 \in Nat /\ r \in 0 .. n - 1  BY DivMod
<1>2. a = n * q1 + r /\ b = n * q2 + r  BY DivMod
<1> HIDE DEF q1, q2, r
<1>3. ~(q1 < q2)
  <2>1. q1 < q2 => n * q1 + n <= n * q2  BY <1>1, SMT
  <2> QED BY <2>1, <1>1, <1>2
<1>4. ~(q2 < q1)
  <2>1. q2 < q1 => n * q2 + n <= n * q1  BY <1>1, SMT
  <2> QED BY <2>1, <1>1, <1>2
<1> QED BY <1>1, <1>2, <1>3, <1>4

\* Moving k places on from the slot of a ends at the slot of a + k.
LEMMA ModAdd ==
  ASSUME NEW n \in Nat \ {0}, NEW a \in Nat, NEW k \in Nat
  PROVE  ((a % n) + k) % n = (a + k) % n
<1> DEFINE r  == a % n
           b  == r + k
           c  == a + k
           q1 == a \div n
           q2 == b \div n
           q3 == c \div n
           s  == b % n
           t  == c % n
<1>1. q1 \in Nat /\ r \in 0 .. n - 1 /\ a = n * q1 + r  BY DivMod
<1>2. b \in Nat /\ c \in Nat  BY <1>1
<1> HIDE DEF b, c
<1>3. q2 \in Nat /\ s \in 0 .. n - 1 /\ b = n * q2 + s  BY <1>2, DivMod
<1>4. q3 \in Nat /\ t \in 0 .. n - 1 /\ c = n * q3 + t  BY <1>2, DivMod
<1>5. s = b % n /\ t = c % n  OBVIOUS
<1> HIDE DEF q1, q2, q3, r, s, t
<1> DEFINE q == q1 + q2
<1>6. n * q = n * q1 + n * q2  BY <1>1, <1>3, SMT
<1>7. n * q + s = n * q3 + t  BY <1>1, <1>3, <1>4, <1>6 DEF b, c
<1>8. q \in Nat  BY <1>1, <1>3
<1> HIDE DEF q
<1>9. s = t  BY <1>3, <1>4, <1>7, <1>8, DivModUnique
<1> QED BY <1>5, <1>9 DEF b, c, r
=============================================================================
