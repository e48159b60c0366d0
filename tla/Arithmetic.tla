----------------------------- MODULE Arithmetic -----------------------------
(* Facts about numbers that the other proofs cite: least elements and      *)
(* induction up to a number, recursions over such numbers, remainders by a *)
(* positive number, and sums. Where induction takes a predicate these take *)
(* a set.                                                                  *)
EXTENDS Sums, NaturalsInduction, WellFoundedInduction, TLAPS

(* A set of numbers has a least element.                                   *)
LEMMA LeastExists ==
  ASSUME NEW S, S \subseteq Nat, S # {}
  PROVE  \E n \in S : \A m \in S : n <= m
<1>1. PICK n \in S : \A m \in S : ~(<<m, n>> \in OpToRel(<, Nat))
  BY WFMin, NatLessThanWellFounded, Zenon
<1>2. \A m \in S : <<m, n>> \in Nat \X Nat
  OBVIOUS
<1>3. \A m \in S : ~(m < n)
  BY <1>1, <1>2 DEF OpToRel
<1>4. \A m \in S : m \in Nat
  OBVIOUS
<1>5. \A m \in S : n <= m
  BY <1>3, <1>4
<1> QED BY <1>5

(* Induction over the numbers up to n.                                     *)
LEMMA UpTo ==
  ASSUME NEW n \in Nat, NEW T, 0 \in T, \A i \in 1..n : i - 1 \in T => i \in T
  PROVE  \A i \in 0..n : i \in T
<1> DEFINE wrong == {i \in 0..n : i \notin T}
<1> SUFFICES ASSUME wrong # {} PROVE FALSE
  OBVIOUS
<1>1. wrong \subseteq Nat
  OBVIOUS
<1>2. PICK k \in wrong : \A i \in wrong : k <= i
  BY <1>1, LeastExists
<1>3. k \in 1..n /\ k - 1 \in 0..n /\ ~(k <= k - 1)
  BY <1>2
<1>4. k - 1 \in T
  BY <1>2, <1>3
<1> QED BY <1>2, <1>3, <1>4

(* Steps of a recursion over the numbers up to n.                          *)
Steps(n, S) == [1..n -> [S -> S]]

Follows(g, n, step) == \A i \in 1..n : g[i] = step[i][g[i - 1]]

(* A recursion over the numbers up to n has a solution.                    *)
LEMMA RecursionExists ==
  ASSUME NEW n \in Nat, NEW S, NEW origin \in S, NEW step \in Steps(n, S)
  PROVE  \E g \in [0..n -> S] : g[0] = origin /\ Follows(g, n, step)
<1> USE DEF Steps, Follows
<1> DEFINE Solves(g, m) == /\ g \in [0..m -> S]
                           /\ g[0] = origin
                           /\ \A i \in 1..m : g[i] = step[i][g[i - 1]]
           P == {m \in 0..n : \E g : Solves(g, m)}
<1>1. 0 \in P
  <2> DEFINE h == [i \in 0..0 |-> origin]
  <2>1. h \in [0..0 -> S] /\ h[0] = origin
    OBVIOUS
  <2>2. \A i \in 1..0 : h[i] = step[i][h[i - 1]]
    BY SMT
  <2> HIDE DEF h
  <2>3. Solves(h, 0)
    BY <2>1, <2>2
  <2> QED BY <2>3
<1>2. ASSUME NEW m \in 1..n, m - 1 \in P PROVE m \in P
  <2>1. PICK g : Solves(g, m - 1)
    BY <1>2
  <2> DEFINE h == [i \in 0..m |-> IF i = m THEN step[m][g[m - 1]] ELSE g[i]]
  <2>2. g[m - 1] \in S /\ step[m][g[m - 1]] \in S
    BY <2>1
  <2>3. h \in [0..m -> S]
    BY <2>1, <2>2
  <2>4. h[0] = origin
    BY <2>1
  <2>5. h[m] = step[m][h[m - 1]]
    BY <2>1
  <2>6. \A i \in 1..(m - 1) : h[i] = g[i] /\ h[i - 1] = g[i - 1]
    BY <2>1
  <2>7. \A i \in 1..m : i \in 1..(m - 1) \/ i = m
    OBVIOUS
  <2>8. \A i \in 1..(m - 1) : g[i] = step[i][g[i - 1]]
    BY <2>1
  <2> HIDE DEF h
  <2>9. \A i \in 1..m : h[i] = step[i][h[i - 1]]
    BY <2>5, <2>6, <2>7, <2>8
  <2>10. Solves(h, m)
    BY <2>3, <2>4, <2>9
  <2>11. m \in 0..n
    OBVIOUS
  <2> HIDE DEF Solves
  <2> QED BY <2>10, <2>11
<1>3. n \in P
  <2> HIDE DEF P
  <2>1. \A m \in 1..n : m - 1 \in P => m \in P
    BY <1>2
  <2>2. \A i \in 0..n : i \in P
    BY <1>1, <2>1, UpTo
  <2> QED BY <2>2
<1> QED BY <1>3

(* What a recursion yields depends only on its steps.                      *)
SameSteps(g, h, n) ==
  g[0] = h[0] /\ \A i \in 1..n : g[i - 1] = h[i - 1] => g[i] = h[i]

LEMMA RecursionAgrees ==
  ASSUME NEW n \in Nat, NEW g, NEW h, SameSteps(g, h, n)
  PROVE  \A i \in 0..n : g[i] = h[i]
<1> USE DEF SameSteps
<1> DEFINE P == {i \in 0..n : g[i] = h[i]}
<1>1. 0 \in P /\ \A i \in 1..n : i - 1 \in P => i \in P
  OBVIOUS
<1> HIDE DEF P
<1>2. \A i \in 0..n : i \in P
  BY <1>1, UpTo
<1> QED BY <1>2 DEF P

-----------------------------------------------------------------------------
(* Division with remainder.                                                *)
LEMMA DivMod ==
  ASSUME NEW n \in Nat \ {0}, NEW i \in Nat
  PROVE  /\ i = n * (i \div n) + (i % n)
         /\ i \div n \in Nat
         /\ i % n \in 0..n - 1
  BY SMT

(* A remainder is determined by any decomposition.                         *)
LEMMA ModUnique ==
  ASSUME NEW n \in Nat \ {0}, NEW q \in Nat, NEW r \in 0..n - 1
  PROVE  (n * q + r) % n = r
  BY SMT

(* Below the modulus, and one turn above it.                               *)
LEMMA ModSmall ==
  ASSUME NEW n \in Nat \ {0}, NEW i \in 0..n - 1
  PROVE  i % n = i
  BY SMT

LEMMA ModWrap ==
  ASSUME NEW n \in Nat \ {0}, NEW i \in n..2 * n - 1
  PROVE  i % n = i - n
  BY SMT

(* A counter modulo n steps by one and wraps to zero.                      *)
LEMMA ModSucc ==
  ASSUME NEW n \in Nat \ {0}, NEW i \in Nat
  PROVE  (i + 1) % n = IF i % n = n - 1 THEN 0 ELSE (i % n) + 1
<1> DEFINE q == i \div n
           r == i % n
<1>1. i = n * q + r /\ q \in Nat /\ r \in 0..n - 1
  BY DivMod
<1>2. CASE r = n - 1
  <2>1. i + 1 = n * (q + 1) + 0
    BY <1>1, <1>2, SMT
  <2>2. (n * (q + 1) + 0) % n = 0
    BY <1>1, ModUnique, q + 1 \in Nat, 0 \in 0..n - 1
  <2> QED BY <2>1, <2>2, <1>2
<1>3. CASE r # n - 1
  <2>1. i + 1 = n * q + (r + 1)
    BY <1>1, SMT
  <2>2. (n * q + (r + 1)) % n = r + 1
    BY <1>1, <1>3, ModUnique, r + 1 \in 0..n - 1
  <2> QED BY <2>1, <2>2, <1>3
<1> QED BY <1>2, <1>3

-----------------------------------------------------------------------------
(* Sums.                                                                   *)

(* g accumulates the first n values of f.                                  *)
Accumulates(g, f, n) == g = [i \in 0..n |-> IF i = 0 THEN 0 ELSE g[i - 1] + f[i]]

(* The recursive function a sum is defined by exists.                      *)
LEMMA AccumulatorExists ==
  ASSUME NEW f, NEW n \in Nat
  PROVE  \E g : Accumulates(g, f, n)
<1> DEFINE without == {m \in Nat : ~ \E g : Accumulates(g, f, m)}
<1> SUFFICES ASSUME without # {} PROVE FALSE
  OBVIOUS
<1>1. PICK m \in without : \A i \in without : m <= i
  BY LeastExists
<1>2. m # 0
  <2> DEFINE g == [i \in 0..0 |-> 0]
  <2>1. \A i \in 0..0 : i = 0
    OBVIOUS
  <2>2. Accumulates(g, f, 0)
    BY <2>1 DEF Accumulates
  <2> QED  BY <2>2
<1>3. PICK g : Accumulates(g, f, m - 1)
  <2>1. m - 1 \in Nat /\ ~(m <= m - 1)
    BY <1>2
  <2> QED  BY <1>1, <2>1
<1> DEFINE h == [i \in 0..m |-> IF i = m THEN g[m - 1] + f[m] ELSE g[i]]
<1>4. g = [i \in 0..(m - 1) |-> IF i = 0 THEN 0 ELSE g[i - 1] + f[i]]
  BY <1>3 DEF Accumulates
<1>5. \A i \in 0..m : h[i] = IF i = 0 THEN 0 ELSE h[i - 1] + f[i]
  BY <1>2, <1>4
<1>6. Accumulates(h, f, m)
  BY <1>5 DEF Accumulates
<1> QED  BY <1>6

(* Two functions that accumulate the same values agree: at the least index *)
(* where they did not, the previous sums agree.                            *)
LEMMA AccumulatorsAgree ==
  ASSUME NEW f, NEW n \in Nat, NEW m \in Nat, n <= m,
         NEW g, Accumulates(g, f, n), NEW h, Accumulates(h, f, m)
  PROVE  \A i \in 0..n : g[i] = h[i]
<1> DEFINE different == {i \in 0..n : g[i] # h[i]}
<1> SUFFICES ASSUME different # {} PROVE FALSE
  OBVIOUS
<1>0. different \subseteq Nat
  OBVIOUS
<1>1. PICK k \in different : \A i \in different : k <= i
  BY <1>0, LeastExists
<1>2. \A i \in 0..n : g[i] = IF i = 0 THEN 0 ELSE g[i - 1] + f[i]
  BY DEF Accumulates
<1>3. \A i \in 0..m : h[i] = IF i = 0 THEN 0 ELSE h[i - 1] + f[i]
  BY DEF Accumulates
<1>4. k # 0
  BY <1>2, <1>3
<1>5. k - 1 \in 0..n /\ ~(k <= k - 1)
  BY <1>1, <1>4
<1>6. g[k - 1] = h[k - 1]
  BY <1>1, <1>5
<1> QED  BY <1>1, <1>2, <1>3, <1>4, <1>6

(* SumOf by its recursion, whatever f is.                                  *)
LEMMA SumOfSteps ==
  ASSUME NEW f, NEW n \in Nat
  PROVE  /\ SumOf(f, 0) = 0
         /\ SumOf(f, n + 1) = SumOf(f, n) + f[n + 1]
<1> DEFINE sum(m) == CHOOSE g : g = [i \in 0..m |-> IF i = 0 THEN 0 ELSE g[i - 1] + f[i]]
<1>1. \A m \in Nat : SumOf(f, m) = sum(m)[m]
  BY DEF SumOf
<1>2. \A m \in Nat : Accumulates(sum(m), f, m)
  BY AccumulatorExists DEF Accumulates
<1> HIDE DEF sum
<1>3. \A m \in Nat : \A i \in 0..m : sum(m)[i] = IF i = 0 THEN 0 ELSE sum(m)[i - 1] + f[i]
  BY <1>2 DEF Accumulates
<1>4. SumOf(f, 0) = 0
  BY <1>1, <1>3, 0 \in 0..0
<1>5. SumOf(f, n + 1) = sum(n + 1)[n + 1]
  BY <1>1
<1>6. sum(n + 1)[n + 1] = sum(n + 1)[n] + f[n + 1]
  BY <1>3, n + 1 \in Nat, n + 1 \in 0..n + 1
<1>7. sum(n)[n] = sum(n + 1)[n]
  BY <1>2, AccumulatorsAgree, n + 1 \in Nat, n \in 0..n
<1> QED  BY <1>1, <1>4, <1>5, <1>6, <1>7

(* A sum is monotonic in its terms.                                        *)
LEMMA SumMonotonic ==
  ASSUME NEW n \in Nat, NEW f, NEW g,
         \A i \in 1..n : f[i] \in Nat /\ g[i] \in Nat /\ f[i] <= g[i]
  PROVE  SumOf(f, n) \in Nat /\ SumOf(g, n) \in Nat /\ SumOf(f, n) <= SumOf(g, n)
<1> DEFINE P(m) == SumOf(f, m) \in Nat /\ SumOf(g, m) \in Nat /\ SumOf(f, m) <= SumOf(g, m)
           wrong == {m \in 0..n : ~P(m)}
<1> SUFFICES ASSUME wrong # {} PROVE FALSE
  OBVIOUS
<1>0. wrong \subseteq Nat
  OBVIOUS
<1>1. PICK k \in wrong : \A i \in wrong : k <= i
  BY <1>0, LeastExists
<1>2. P(0)
  BY SumOfSteps
<1>3. k - 1 \in 0..n /\ k \in 1..n
  BY <1>1, <1>2
<1>4. P(k - 1)
  BY <1>1, <1>3
<1>5. SumOf(f, k) = SumOf(f, k - 1) + f[k] /\ SumOf(g, k) = SumOf(g, k - 1) + g[k]
  BY <1>3, SumOfSteps, k = (k - 1) + 1, k - 1 \in Nat
<1>6. P(k)
  BY <1>3, <1>4, <1>5
<1> QED  BY <1>1, <1>6

(* A sum of natural numbers is one.                                        *)
LEMMA SumInNat ==
  ASSUME NEW n \in Nat, NEW f, \A i \in 1..n : f[i] \in Nat
  PROVE  SumOf(f, n) \in Nat
  BY SumMonotonic

(* The sum goes on over k more terms, which another function has too.      *)
LEMMA SumContinues ==
  ASSUME NEW m \in Nat, NEW n \in Nat, NEW f, NEW g,
         \A i \in 1..m : f[i] \in Nat,
         \A i \in 1..n : g[i] \in Nat /\ f[m + i] = g[i]
  PROVE  SumOf(f, m + n) = SumOf(f, m) + SumOf(g, n)
<1> DEFINE P(k) == SumOf(f, m + k) = SumOf(f, m) + SumOf(g, k)
           wrong == {k \in 0..n : ~P(k)}
<1> SUFFICES ASSUME wrong # {} PROVE FALSE
  <2> QED  OBVIOUS
<1>0. wrong \subseteq Nat
  OBVIOUS
<1>1. PICK k \in wrong : \A i \in wrong : k <= i
  BY <1>0, LeastExists
<1>2. SumOf(f, m) \in Nat
  BY SumInNat
<1>3. P(0)
  BY <1>2, SumOfSteps
<1>4. k - 1 \in 0..n /\ k \in 1..n
  BY <1>1, <1>3
<1>5. P(k - 1)
  BY <1>1, <1>4
<1>6. SumOf(g, k) = SumOf(g, k - 1) + g[k]
  BY <1>4, SumOfSteps, k = (k - 1) + 1, k - 1 \in Nat
<1>7. SumOf(f, m + k) = SumOf(f, m + k - 1) + f[m + k]
  BY <1>4, SumOfSteps, m + k = (m + k - 1) + 1, m + k - 1 \in Nat
<1>8. SumOf(g, k - 1) \in Nat
  BY <1>4, SumInNat
<1>9. g[k] \in Nat /\ f[m + k] = g[k]
  BY <1>4
<1>10. P(k)
  BY <1>2, <1>4, <1>5, <1>6, <1>7, <1>8, <1>9
<1> QED  BY <1>1, <1>10

(* Sums of equal values are equal.                                         *)
LEMMA SumEqual ==
  ASSUME NEW n \in Nat, NEW f, NEW g, \A i \in 1..n : g[i] \in Nat /\ f[i] = g[i]
  PROVE  SumOf(f, n) = SumOf(g, n)
<1>1. SumOf(f, 0 + n) = SumOf(f, 0) + SumOf(g, n)
  BY SumContinues
<1>2. SumOf(g, n) \in Nat
  BY SumInNat
<1> QED  BY <1>1, <1>2, SumOfSteps

(* Two numbers with one remainder differ by a multiple.                    *)
LEMMA SameRemainder ==
  ASSUME NEW n \in Nat \ {0}, NEW a \in Int, NEW b \in Int
  PROVE  a % n = b % n <=> \E k \in Int : a = b + n * k
<1> DEFINE q == a \div n
           p == b \div n
<1>1. /\ a = n * q + (a % n) /\ q \in Int /\ a % n \in 0..n - 1
      /\ b = n * p + (b % n) /\ p \in Int /\ b % n \in 0..n - 1
  BY SMT
<1> HIDE DEF q, p
<1>2. ASSUME a % n = b % n PROVE \E k \in Int : a = b + n * k
  <2>1. n * (q - p) = n * q - n * p /\ q - p \in Int
    BY <1>1
  <2>2. a = b + n * (q - p)
    BY <1>1, <1>2, <2>1
  <2> QED BY <2>1, <2>2
<1>3. ASSUME NEW k \in Int, a = b + n * k PROVE a % n = b % n
  <2> DEFINE r == b % n
             t == p + k
  <2>1. a = n * t + r /\ t \in Int /\ r \in 0..n - 1
    BY <1>1, <1>3
  <2> HIDE DEF t, r
  <2>2. (n * t + r) % n = r
    BY <2>1, SMT
  <2> QED BY <2>1, <2>2 DEF r
<1> QED BY <1>2, <1>3

(* Remainders of sums and products depend on remainders only.              *)
Rest(x, n) == x % n

LEMMA RestPlus ==
  ASSUME NEW n \in Nat \ {0}, NEW a \in Int, NEW b \in Int, NEW c \in Int, NEW d \in Int,
         Rest(a, n) = Rest(b, n), Rest(c, n) = Rest(d, n)
  PROVE  Rest(a + c, n) = Rest(b + d, n)
<1>1. PICK k \in Int : a = b + n * k
  BY SameRemainder DEF Rest
<1>2. PICK m \in Int : c = d + n * m
  BY SameRemainder DEF Rest
<1> DEFINE s == a + c
           t == b + d
<1>3. s = t + n * (k + m) /\ k + m \in Int /\ s \in Int /\ t \in Int
  BY <1>1, <1>2
<1> HIDE DEF s, t
<1>4. s % n = t % n
  BY <1>3, SameRemainder
<1> QED BY <1>4 DEF s, t, Rest

LEMMA RestTimes ==
  ASSUME NEW n \in Nat \ {0}, NEW a \in Int, NEW b \in Int, NEW c \in Int, NEW d \in Int,
         Rest(a, n) = Rest(b, n), Rest(c, n) = Rest(d, n)
  PROVE  Rest(a * c, n) = Rest(b * d, n)
<1>1. PICK k \in Int : a = b + n * k
  BY SameRemainder DEF Rest
<1>2. PICK m \in Int : c = d + n * m
  BY SameRemainder DEF Rest
<1> DEFINE s == a * c
           t == b * d
<1>3. s = t + n * (k * d + b * m + n * (k * m))
  BY <1>1, <1>2
<1>4. k * d + b * m + n * (k * m) \in Int /\ s \in Int /\ t \in Int
  BY <1>1, <1>2
<1> HIDE DEF s, t
<1>5. s % n = t % n
  BY <1>3, <1>4, SameRemainder
<1> QED BY <1>5 DEF s, t, Rest

LEMMA RestAgain ==
  ASSUME NEW n \in Nat \ {0}, NEW a \in Int
  PROVE  Rest(Rest(a, n), n) = Rest(a, n) /\ Rest(a, n) \in 0..(n - 1)
<1>1. a % n \in 0..n - 1
  BY SMT
<1> QED BY <1>1, ModSmall DEF Rest

(* A sum of integers is one.                                               *)
LEMMA SumInInt ==
  ASSUME NEW n \in Nat, NEW f, \A i \in 1..n : f[i] \in Int
  PROVE  SumOf(f, n) \in Int
<1> DEFINE T == {m \in 0..n : SumOf(f, m) \in Int}
<1>1. 0 \in T
  BY SumOfSteps
<1>2. ASSUME NEW m \in 1..n, m - 1 \in T PROVE m \in T
  <2>1. SumOf(f, m) = SumOf(f, m - 1) + f[m]
    BY SumOfSteps, m = (m - 1) + 1, m - 1 \in Nat
  <2> QED BY <1>2, <2>1
<1> HIDE DEF T
<1>3. n \in T
  BY <1>1, <1>2, UpTo, n \in 0..n
<1> QED BY <1>3 DEF T

(* A function that grows by the values of f is its sum.                    *)
LEMMA SumIs ==
  ASSUME NEW n \in Nat, NEW f, NEW g, g[0] = 0, \A i \in 1..n : g[i] = g[i - 1] + f[i]
  PROVE  SumOf(f, n) = g[n]
<1> DEFINE T == {m \in 0..n : SumOf(f, m) = g[m]}
<1>1. 0 \in T
  BY SumOfSteps
<1>2. ASSUME NEW m \in 1..n, m - 1 \in T PROVE m \in T
  <2>1. SumOf(f, m) = SumOf(f, m - 1) + f[m]
    BY SumOfSteps, m = (m - 1) + 1, m - 1 \in Nat
  <2> QED BY <1>2, <2>1
<1> HIDE DEF T
<1>3. n \in T
  BY <1>1, <1>2, UpTo, n \in 0..n
<1> QED BY <1>3 DEF T

(* Sums term by term: of equal values, of sums, of multiples.              *)
LEMMA SumOfSame ==
  ASSUME NEW n \in Nat, NEW f, NEW g, \A i \in 1..n : f[i] = g[i]
  PROVE  SumOf(f, n) = SumOf(g, n)
<1> DEFINE h == [m \in 0..n |-> SumOf(g, m)]
<1>1. ASSUME NEW i \in 1..n PROVE h[i] = h[i - 1] + f[i]
  <2>1. SumOf(g, i) = SumOf(g, i - 1) + g[i]
    BY SumOfSteps, i = (i - 1) + 1, i - 1 \in Nat
  <2>2. i \in 0..n /\ i - 1 \in 0..n /\ f[i] = g[i]
    OBVIOUS
  <2> QED BY <2>1, <2>2
<1>2. h[0] = 0 /\ h[n] = SumOf(g, n)
  BY SumOfSteps, 0 \in 0..n, n \in 0..n
<1> HIDE DEF h
<1> QED BY <1>1, <1>2, SumIs

LEMMA SumPlus ==
  ASSUME NEW n \in Nat, NEW f, NEW g, NEW s,
         \A i \in 1..n : f[i] \in Int /\ g[i] \in Int /\ s[i] = f[i] + g[i]
  PROVE  SumOf(s, n) = SumOf(f, n) + SumOf(g, n)
<1> DEFINE h == [m \in 0..n |-> SumOf(f, m) + SumOf(g, m)]
<1>1. ASSUME NEW i \in 1..n PROVE h[i] = h[i - 1] + s[i]
  <2>1. SumOf(g, i) = SumOf(g, i - 1) + g[i] /\ SumOf(f, i) = SumOf(f, i - 1) + f[i]
    BY SumOfSteps, i = (i - 1) + 1, i - 1 \in Nat
  <2>2. i \in 0..n /\ i - 1 \in 0..n /\ s[i] = f[i] + g[i] /\ f[i] \in Int /\ g[i] \in Int
    OBVIOUS
  <2>3. i - 1 \in Nat /\ \A j \in 1..(i - 1) : f[j] \in Int /\ g[j] \in Int
    OBVIOUS
  <2>4. SumOf(f, i - 1) \in Int /\ SumOf(g, i - 1) \in Int
    BY <2>3, SumInInt
  <2> QED BY <2>1, <2>2, <2>4
<1>2. h[0] = 0 /\ h[n] = SumOf(f, n) + SumOf(g, n)
  BY SumOfSteps, 0 \in 0..n, n \in 0..n
<1> HIDE DEF h
<1> QED BY <1>1, <1>2, SumIs

LEMMA SumTimes ==
  ASSUME NEW n \in Nat, NEW c \in Int, NEW f, NEW s,
         \A i \in 1..n : f[i] \in Int /\ s[i] = c * f[i]
  PROVE  SumOf(s, n) = c * SumOf(f, n)
<1> DEFINE h == [m \in 0..n |-> c * SumOf(f, m)]
<1>1. ASSUME NEW i \in 1..n PROVE h[i] = h[i - 1] + s[i]
  <2>1. SumOf(f, i) = SumOf(f, i - 1) + f[i]
    BY SumOfSteps, i = (i - 1) + 1, i - 1 \in Nat
  <2>2. i \in 0..n /\ i - 1 \in 0..n /\ s[i] = c * f[i] /\ f[i] \in Int
    OBVIOUS
  <2>3. i - 1 \in Nat /\ \A j \in 1..(i - 1) : f[j] \in Int
    OBVIOUS
  <2>4. SumOf(f, i - 1) \in Int
    BY <2>3, SumInInt
  <2>5. c * (SumOf(f, i - 1) + f[i]) = c * SumOf(f, i - 1) + c * f[i]
    BY <2>2, <2>4
  <2> QED BY <2>1, <2>2, <2>4, <2>5
<1>2. h[0] = 0 /\ h[n] = c * SumOf(f, n)
  BY SumOfSteps, 0 \in 0..n, n \in 0..n
<1> HIDE DEF h
<1> QED BY <1>1, <1>2, SumIs

(* A sum all of whose terms but one are zero.                              *)
LEMMA SumOfOne ==
  ASSUME NEW n \in Nat, NEW k \in 1..n, NEW f, f[k] \in Int,
         \A i \in 1..n : i # k => f[i] = 0
  PROVE  SumOf(f, n) = f[k]
<1> DEFINE h == [m \in 0..n |-> IF m < k THEN 0 ELSE f[k]]
<1>1. ASSUME NEW i \in 1..n PROVE h[i] = h[i - 1] + f[i]
  <2>1. i \in 0..n /\ i - 1 \in 0..n
    OBVIOUS
  <2>2. CASE i = k
    BY <2>1, <2>2
  <2>3. CASE i # k
    BY <2>1, <2>3
  <2> QED BY <2>2, <2>3
<1>2. h[0] = 0 /\ h[n] = f[k]
  BY 0 \in 0..n, n \in 0..n
<1> HIDE DEF h
<1> QED BY <1>1, <1>2, SumIs

LEMMA SumOfNone ==
  ASSUME NEW n \in Nat, NEW f, \A i \in 1..n : f[i] = 0
  PROVE  SumOf(f, n) = 0
<1> DEFINE h == [m \in 0..n |-> 0]
<1>1. h[0] = 0 /\ h[n] = 0 /\ \A i \in 1..n : h[i] = h[i - 1] + f[i]
  OBVIOUS
<1> HIDE DEF h
<1> QED BY <1>1, SumIs

(* A sum of rows is the sum of columns.                                    *)
SummedBothWays(a, rows, cols, n, m) ==
  /\ \A i \in 1..n, j \in 1..m : a[i][j] \in Int
  /\ \A i \in 1..n : rows[i] = SumOf(a[i], m)
  /\ \A j \in 1..m : cols[j] = SumOf([i \in 1..n |-> a[i][j]], n)

LEMMA SumSwap ==
  ASSUME NEW n \in Nat, NEW m \in Nat, NEW a, NEW rows, NEW cols, SummedBothWays(a, rows, cols, n, m)
  PROVE  SumOf(rows, n) = SumOf(cols, m)
<1> DEFINE col(j) == [i \in 1..n |-> a[i][j]]
           part(k) == [j \in 1..m |-> SumOf(col(j), k)]
           h == [k \in 0..n |-> SumOf(part(k), m)]
<1>1. \A j \in 1..m, i \in 1..n : col(j)[i] = a[i][j] /\ a[i][j] \in Int
  BY DEF SummedBothWays
<1>2. \A k : \A j \in 1..m : part(k)[j] = SumOf(col(j), k)
  OBVIOUS
<1>3. \A k \in 0..n : h[k] = SumOf(part(k), m)
  OBVIOUS
<1>4. \A j \in 1..m : cols[j] = SumOf(col(j), n)
  BY DEF SummedBothWays
<1> HIDE DEF col, part, h
<1>5. ASSUME NEW i \in 1..n PROVE h[i] = h[i - 1] + rows[i]
  <2>1. i \in 0..n /\ i - 1 \in 0..n /\ i - 1 \in Nat
    OBVIOUS
  <2>2. ASSUME NEW j \in 1..m
        PROVE  /\ part(i - 1)[j] \in Int /\ a[i][j] \in Int
               /\ part(i)[j] = part(i - 1)[j] + a[i][j]
    <3>1. SumOf(col(j), i) = SumOf(col(j), i - 1) + col(j)[i]
      BY <2>1, SumOfSteps, i = (i - 1) + 1
    <3>2. \A k \in 1..(i - 1) : col(j)[k] \in Int
      BY <1>1, <2>1
    <3>3. SumOf(col(j), i - 1) \in Int
      BY <2>1, <3>2, SumInInt
    <3> QED BY <1>1, <1>2, <3>1, <3>3
  <2>3. SumOf(part(i), m) = SumOf(part(i - 1), m) + SumOf(a[i], m)
    BY <2>2, SumPlus
  <2>4. rows[i] = SumOf(a[i], m)
    BY DEF SummedBothWays
  <2> QED BY <1>3, <2>1, <2>3, <2>4
<1>6. h[0] = 0
  <2>1. \A j \in 1..m : part(0)[j] = 0
    BY <1>2, SumOfSteps
  <2>2. SumOf(part(0), m) = 0
    BY <2>1, SumOfNone
  <2> QED BY <1>3, <2>2
<1>7. h[n] = SumOf(cols, m)
  <2>1. \A j \in 1..m : part(n)[j] = cols[j]
    BY <1>2, <1>4
  <2>2. SumOf(part(n), m) = SumOf(cols, m)
    BY <2>1, SumOfSame
  <2> QED BY <1>3, <2>2
<1> QED BY <1>5, <1>6, <1>7, SumIs

(* Sums of numbers with the same remainders have the same remainder.       *)
SameRests(f, g, n, m) ==
  \A i \in 1..n : f[i] \in Int /\ g[i] \in Int /\ Rest(f[i], m) = Rest(g[i], m)

LEMMA SumRest ==
  ASSUME NEW n \in Nat, NEW m \in Nat \ {0}, NEW f, NEW g, SameRests(f, g, n, m)
  PROVE  Rest(SumOf(f, n), m) = Rest(SumOf(g, n), m)
<1> DEFINE T == {k \in 0..n : Rest(SumOf(f, k), m) = Rest(SumOf(g, k), m)}
<1>1. 0 \in T
  BY SumOfSteps
<1>2. ASSUME NEW i \in 1..n, i - 1 \in T PROVE i \in T
  <2>1. SumOf(g, i) = SumOf(g, i - 1) + g[i] /\ SumOf(f, i) = SumOf(f, i - 1) + f[i]
    BY SumOfSteps, i = (i - 1) + 1, i - 1 \in Nat
  <2>2. i - 1 \in Nat /\ \A j \in 1..(i - 1) : f[j] \in Int /\ g[j] \in Int
    BY DEF SameRests
  <2>3. SumOf(f, i - 1) \in Int /\ SumOf(g, i - 1) \in Int
    BY <2>2, SumInInt
  <2>4. f[i] \in Int /\ g[i] \in Int /\ Rest(f[i], m) = Rest(g[i], m)
    BY DEF SameRests
  <2>5. Rest(SumOf(f, i - 1), m) = Rest(SumOf(g, i - 1), m)
    BY <1>2
  <2> DEFINE before == SumOf(f, i - 1)
             other == SumOf(g, i - 1)
             x == f[i]
             y == g[i]
  <2>6. before \in Int /\ other \in Int /\ Rest(before, m) = Rest(other, m)
    BY <2>3, <2>5
  <2>7. x \in Int /\ y \in Int /\ Rest(x, m) = Rest(y, m)
    BY <2>4
  <2>8. SumOf(f, i) = before + x /\ SumOf(g, i) = other + y
    BY <2>1
  <2> HIDE DEF before, other, x, y
  <2>9. Rest(before + x, m) = Rest(other + y, m)
    BY <2>6, <2>7, RestPlus
  <2> QED BY <2>8, <2>9
<1> HIDE DEF T
<1>3. n \in T
  BY <1>1, <1>2, UpTo, n \in 0..n
<1> QED BY <1>3 DEF T
=============================================================================
