------------------------------ MODULE Numbers -------------------------------
(***************************************************************************)
(* Facts about natural numbers which the solvers do not find alone:        *)
(* induction, stated for sets since no prover here can instantiate an      *)
(* operator, and quotients and remainders by a number that is not fixed,   *)
(* for places of a screen and addresses of pages.                          *)
(***************************************************************************)
EXTENDS Integers, WellFoundedInduction, TLAPS

\* A set of numbers that is not empty has a least element.
LEMMA LeastElement ==
    ASSUME NEW S \in SUBSET Nat, S # {}
    PROVE  \E n \in S : \A m \in S : n <= m
  <1> DEFINE R == OpToRel(<, Nat)
  <1>1. IsWellFoundedOn(R, Nat)
    BY NatLessThanWellFounded
  <1>2. \A m, n \in Nat : m < n => <<m, n>> \in R
    BY Zenon DEF OpToRel
  <1> HIDE DEF R
  <1>3. PICK n \in S : \A m \in S : ~ (<<m, n>> \in R)
    BY <1>1, WFMin
  <1>4. ASSUME NEW m \in S PROVE n <= m
    <2>1. m \in Nat /\ n \in Nat /\ ~ m < n
      BY <1>2, <1>3
    <2> QED
      BY <2>1
  <1> QED
    BY <1>4

\* Induction: a set with 0 and the successor of each of its elements has all.
LEMMA SetInduction ==
    ASSUME NEW S \in SUBSET Nat, 0 \in S, \A n \in S : n + 1 \in S
    PROVE  S = Nat
  <1>1. SUFFICES ASSUME Nat \ S # {} PROVE FALSE
    OBVIOUS
  <1>2. PICK n \in Nat \ S : \A m \in Nat \ S : n <= m
    BY <1>1, LeastElement
  <1>3. n - 1 \in Nat /\ n - 1 \in S
    BY <1>2
  <1> QED
    BY <1>2, <1>3

-----------------------------------------------------------------------------

\* A number is its quotient and its remainder.
LEMMA Divided ==
    ASSUME NEW a \in Nat, NEW b \in Nat \ {0}
    PROVE  /\ a \div b \in Nat /\ a % b \in 0 .. b - 1
           /\ a = b * (a \div b) + (a % b)
BY SMT

\* A multiple is one.
LEMMA Multiple ==
    ASSUME NEW a \in Nat, NEW b \in Nat \ {0}, a % b = 0
    PROVE  \E q \in Nat : a = b * q
  <1>1. a \div b \in Nat /\ a = b * (a \div b) + 0
    BY Divided
  <1> QED
    BY <1>1

\* There is but one quotient and remainder.
LEMMA DividedOnce ==
    ASSUME NEW b \in Nat \ {0}, NEW q \in Nat, NEW r \in 0 .. b - 1
    PROVE  (b * q + r) \div b = q /\ (b * q + r) % b = r
  <1> DEFINE a == b * q + r
             p == a \div b
             s == a % b
  <1>1. a \in Nat
    BY Z3
  <1>2. p \in Nat /\ s \in 0 .. b - 1 /\ a = b * p + s
    BY <1>1, Divided
  <1> HIDE DEF p, s
  <1>3. ~ p < q
    <2> SUFFICES ASSUME p < q PROVE FALSE
      OBVIOUS
    <2>1. PICK d \in Nat : q = p + 1 + d
      BY <1>2, q - p - 1 \in Nat
    <2>2. b * q = b * p + b + b * d /\ b * d \in Nat /\ b * p \in Nat
      BY <1>2, <2>1
    <2> QED
      BY <1>2, <2>2
  <1>4. ~ q < p
    <2> SUFFICES ASSUME q < p PROVE FALSE
      OBVIOUS
    <2>1. PICK d \in Nat : p = q + 1 + d
      BY <1>2, p - q - 1 \in Nat
    <2>2. b * p = b * q + b + b * d /\ b * d \in Nat /\ b * q \in Nat
      BY <1>2, <2>1
    <2> QED
      BY <1>2, <2>2
  <1>5. p = q
    BY <1>2, <1>3, <1>4
  <1>6. b * q \in Nat
    OBVIOUS
  <1>7. s = r
    BY <1>2, <1>5, <1>6
  <1> QED
    BY <1>5, <1>7 DEF p, s

\* Rounding a number down, and up, gives multiples.
LEMMA Rounded ==
    ASSUME NEW n \in Nat, NEW b \in Nat \ {0}
    PROVE  /\ n % b \in 0 .. b - 1 /\ n - (n % b) \in Nat
           /\ (n - (n % b)) % b = 0
           /\ (n - (n % b) + b) % b = 0
  <1> DEFINE q == n \div b
             r == n % b
  <1>1. q \in Nat /\ r \in 0 .. b - 1 /\ n = b * q + r
    BY Divided
  <1> HIDE DEF q, r
  <1>2. n - r = b * q + 0 /\ n - r + b = b * (q + 1) + 0 /\ b * q \in Nat
    BY <1>1
  <1>3. (b * q + 0) % b = 0 /\ (b * (q + 1) + 0) % b = 0
    <2>1. 0 \in 0 .. b - 1 /\ q + 1 \in Nat
      BY <1>1
    <2> QED
      BY <1>1, <2>1, DividedOnce
  <1> QED
    BY <1>1, <1>2, <1>3 DEF r

\* A number that is not too high is its own remainder.
LEMMA Small ==
    ASSUME NEW b \in Nat \ {0}, NEW n \in 0 .. b - 1
    PROVE  n % b = n
  <1>1. (b * 0 + n) % b = n /\ b * 0 + n = n
    BY DividedOnce
  <1> QED
    BY <1>1
\* The next multiple of a place and a size behind a multiple.
LEMMA NextMultiple ==
    ASSUME NEW b \in Nat \ {0}, NEW at \in Nat, at % b = 0, NEW size \in Nat
    PROVE  LET Up(m) == ((m + b - 1) \div b) * b
           IN  /\ Up(size) \in Nat /\ Up(size) >= size
               /\ Up(at + size) = at + Up(size)
               /\ (at + Up(size)) % b = 0
               /\ size = 0 => Up(size) = 0
               /\ size # 0 => Up(size) >= b
  <1>1. PICK q \in Nat : at = b * q
    BY Multiple
  <1> DEFINE n == size + b - 1
             p == n \div b
             r == n % b
  <1>2. n \in Nat
    OBVIOUS
  <1>3. p \in Nat /\ r \in 0 .. b - 1 /\ n = b * p + r
    BY <1>2, Divided
  <1>4. p * b = b * p /\ b * p \in Nat
    BY <1>3
  <1> HIDE DEF p, r
  <1>5. b * p >= size
    BY <1>3, <1>4
  <1>6. b * q \in Nat /\ q + p \in Nat /\ b * (q + p) = b * q + b * p
    BY <1>1, <1>3
  <1>7. at + size + b - 1 = b * (q + p) + r
    BY <1>1, <1>3, <1>4, <1>6
  <1>8. (at + size + b - 1) \div b = q + p
    BY <1>3, <1>6, <1>7, DividedOnce
  <1>9. ((at + size + b - 1) \div b) * b = at + b * p
    BY <1>1, <1>6, <1>8
  <1>10. (at + b * p) % b = 0
    <2>1. (b * (q + p) + 0) % b = 0 /\ 0 \in 0 .. b - 1
      BY <1>6, DividedOnce
    <2> QED
      BY <1>1, <1>4, <1>6, <2>1
  <1>11. size = 0 => b * p = 0
    <2> SUFFICES ASSUME size = 0 PROVE b * p = 0
      OBVIOUS
    <2>1. b * p + r < b
      BY <1>3
    <2>2. p = 0
      <3> SUFFICES ASSUME p # 0 PROVE FALSE
        OBVIOUS
      <3>1. PICK d \in Nat : p = 1 + d
        BY <1>3, p - 1 \in Nat
      <3>2. b * p = b + b * d /\ b * d \in Nat
        BY <3>1
      <3> QED
        BY <1>3, <2>1, <3>2
    <2> QED
      BY <2>2
  <1>12. size # 0 => b * p >= b
    <2> SUFFICES ASSUME size # 0 PROVE b * p >= b
      OBVIOUS
    <2>1. p # 0
      <3> SUFFICES ASSUME p = 0 PROVE FALSE
        OBVIOUS
      <3>1. b * p = 0
        OBVIOUS
      <3> QED
        BY <1>4, <1>5, <3>1
    <2>2. PICK d \in Nat : p = 1 + d
      BY <1>3, <2>1, p - 1 \in Nat
    <2>3. b * p = b + b * d /\ b * d \in Nat
      BY <2>2
    <2> QED
      BY <2>3
  <1> QED
    BY <1>4, <1>5, <1>9, <1>10, <1>11, <1>12 DEF p

-----------------------------------------------------------------------------
\* What starts somewhere and grows by a number at each place.
Sums(start, step, n) ==
    CHOOSE at : at = [j \in 1 .. n + 1 |->
                         IF j = 1 THEN start ELSE at[j - 1] + step[j - 1]]

\* Sums that are defined place by place exist, and are what they say.
LEMMA RunningSum ==
    ASSUME NEW n \in Nat, NEW start \in Nat, NEW step \in [1 .. n -> Nat]
    PROVE  /\ Sums(start, step, n) \in [1 .. n + 1 -> Nat]
           /\ Sums(start, step, n)[1] = start
           /\ \A j \in 1 .. n :
                 Sums(start, step, n)[j + 1] = Sums(start, step, n)[j] + step[j]
  <1> DEFINE Adds(at, m) == /\ at \in [1 .. m + 1 -> Nat]
                            /\ at[1] = start
                            /\ \A j \in 1 .. m : at[j + 1] = at[j] + step[j]
             Exists(m) == m <= n => \E at \in [1 .. m + 1 -> Nat] : Adds(at, m)
             S == {m \in Nat : Exists(m)}
  <1>1. Exists(0)
    <2> DEFINE f == [j \in 1 .. 1 |-> start]
    <2>1. f \in [1 .. 0 + 1 -> Nat] /\ Adds(f, 0)
      OBVIOUS
    <2> QED
      BY <2>1
  <1>2. ASSUME NEW m \in Nat, Exists(m) PROVE Exists(m + 1)
    <2> SUFFICES ASSUME m + 1 <= n
                 PROVE  \E at \in [1 .. (m + 1) + 1 -> Nat] : Adds(at, m + 1)
      OBVIOUS
    <2>1. m + 1 \in 1 .. n /\ step[m + 1] \in Nat
      OBVIOUS
    <2>2. PICK at \in [1 .. m + 1 -> Nat] : Adds(at, m)
      BY <1>2, <2>1
    <2> DEFINE f == [j \in 1 .. (m + 1) + 1 |->
                        IF j = m + 2 THEN at[m + 1] + step[m + 1] ELSE at[j]]
    <2>3. f \in [1 .. (m + 1) + 1 -> Nat] /\ f[1] = start
      BY <2>1, <2>2
    <2>4. ASSUME NEW j \in 1 .. m + 1 PROVE f[j + 1] = f[j] + step[j]
      <3>1. CASE j = m + 1
        BY <2>1, <3>1
      <3>2. CASE j # m + 1
        <4>1. j \in 1 .. m /\ f[j] = at[j] /\ f[j + 1] = at[j + 1]
          BY <2>1, <3>2
        <4> QED
          BY <2>2, <4>1
      <3> QED
        BY <3>1, <3>2
    <2> QED
      BY <2>3, <2>4
  <1>3. Exists(n)
    <2> HIDE DEF Exists
    <2>1. S \in SUBSET Nat /\ 0 \in S /\ \A m \in S : m + 1 \in S
      BY <1>1, <1>2
    <2>2. S = Nat
      BY <2>1, SetInduction
    <2> QED
      BY <2>2
  <1>4. PICK at \in [1 .. n + 1 -> Nat] : Adds(at, n)
    <2>1. n <= n
      OBVIOUS
    <2> QED
      BY <1>3, <2>1, Zenon
  <1> DEFINE Body(f) == [j \in 1 .. n + 1 |->
                           IF j = 1 THEN start ELSE f[j - 1] + step[j - 1]]
  <1>5. at = Body(at)
    <2>1. ASSUME NEW j \in 1 .. n + 1 PROVE at[j] = Body(at)[j]
      <3>1. CASE j = 1
        BY <1>4, <3>1
      <3>2. CASE j # 1
        <4>1. j - 1 \in 1 .. n /\ (j - 1) + 1 = j
          BY <3>2
        <4>2. at[(j - 1) + 1] = at[j - 1] + step[j - 1]
          BY <1>4, <4>1
        <4> QED
          BY <3>2, <4>1, <4>2
      <3> QED
        BY <3>1, <3>2
    <2> QED
      BY <1>4, <2>1
  <1> DEFINE g == Sums(start, step, n)
  <1>6. g = Body(g)
    BY <1>5 DEF Sums
  <1> HIDE DEF g
  <1>7. g[1] = start /\ DOMAIN g = 1 .. n + 1
    BY <1>6
  <1>8. ASSUME NEW j \in 1 .. n PROVE g[j + 1] = g[j] + step[j]
    <2>1. j + 1 \in 1 .. n + 1 /\ j + 1 # 1 /\ (j + 1) - 1 = j
      OBVIOUS
    <2> QED
      BY <1>6, <2>1
  <1>9. ASSUME NEW j \in 1 .. n + 1 PROVE g[j] \in Nat
    <2> DEFINE T == {m \in Nat : m + 1 <= n + 1 => g[m + 1] \in Nat}
    <2>1. 0 \in T
      BY <1>7
    <2>2. ASSUME NEW m \in T PROVE m + 1 \in T
      <3> SUFFICES ASSUME (m + 1) + 1 <= n + 1 PROVE g[(m + 1) + 1] \in Nat
        OBVIOUS
      <3>1. m + 1 \in 1 .. n /\ m + 1 <= n + 1 /\ g[m + 1] \in Nat
        OBVIOUS
      <3> QED
        BY <1>8, <3>1
    <2>3. T \in SUBSET Nat
      OBVIOUS
    <2>4. T = Nat
      <3> HIDE DEF T
      <3> QED
        BY <2>1, <2>2, <2>3, SetInduction
    <2>5. j - 1 \in T /\ (j - 1) + 1 = j
      <3> HIDE DEF T
      <3> QED
        BY <2>4
    <2> QED
      BY <2>5
  <1>10. g \in [1 .. n + 1 -> Nat]
    <2>1. g = [j \in 1 .. n + 1 |-> g[j]]
      BY <1>6
    <2> QED
      BY <1>9, <2>1
  <1> QED
    BY <1>7, <1>8, <1>10 DEF g
\* Sums that do not shrink from a place to the next do not shrink.
LEMMA SumsGrow ==
    ASSUME NEW n \in Nat, NEW at \in [1 .. n + 1 -> Nat],
           \A j \in 1 .. n : at[j] <= at[j + 1]
    PROVE  \A j \in 1 .. n + 1 : at[j] <= at[n + 1]
  <1> DEFINE T == {m \in Nat : m <= n => at[n + 1 - m] <= at[n + 1]}
  <1>1. 0 \in T
    BY n + 1 - 0 = n + 1
  <1>2. ASSUME NEW m \in T PROVE m + 1 \in T
    <2> SUFFICES ASSUME m + 1 <= n PROVE at[n + 1 - (m + 1)] <= at[n + 1]
      OBVIOUS
    <2> DEFINE j == n + 1 - (m + 1)
    <2>1. m \in Nat /\ j \in 1 .. n /\ j \in 1 .. n + 1 /\ j + 1 = n + 1 - m
          /\ j + 1 \in 1 .. n + 1 /\ n + 1 \in 1 .. n + 1 /\ m <= n
      OBVIOUS
    <2>2. at[j] <= at[j + 1] /\ at[j + 1] <= at[n + 1]
      BY <2>1
    <2> HIDE DEF j
    <2>3. at[j] \in Nat /\ at[j + 1] \in Nat /\ at[n + 1] \in Nat
      BY <2>1
    <2>4. at[j] <= at[n + 1]
      BY <2>2, <2>3
    <2> QED
      BY <2>4 DEF j
  <1>3. T = Nat
    <2>1. T \in SUBSET Nat
      OBVIOUS
    <2> HIDE DEF T
    <2> QED
      BY <1>1, <1>2, <2>1, SetInduction
  <1>4. ASSUME NEW j \in 1 .. n + 1 PROVE at[j] <= at[n + 1]
    <2> DEFINE m == n + 1 - j
    <2>1. m \in Nat /\ m <= n /\ n + 1 - m = j
      OBVIOUS
    <2>2. m \in T
      <3> HIDE DEF T, m
      <3> QED
        BY <1>3, <2>1
    <2> HIDE DEF m
    <2> QED
      BY <2>1, <2>2
  <1> QED
    BY <1>4

\* Nor do they leave the multiples of a number that every step keeps to.
LEMMA SumsMultiples ==
    ASSUME NEW n \in Nat, NEW b \in Nat \ {0}, NEW at \in [1 .. n + 1 -> Nat],
           at[1] % b = 0,
           \A j \in 1 .. n : at[j] % b = 0 => at[j + 1] % b = 0
    PROVE  \A j \in 1 .. n + 1 : at[j] % b = 0
  <1> DEFINE T == {m \in Nat : m <= n => at[m + 1] % b = 0}
  <1>1. 0 \in T
    OBVIOUS
  <1>2. ASSUME NEW m \in T PROVE m + 1 \in T
    <2> SUFFICES ASSUME m + 1 <= n PROVE at[(m + 1) + 1] % b = 0
      OBVIOUS
    <2>1. m \in Nat /\ m + 1 \in 1 .. n /\ m <= n
      OBVIOUS
    <2>2. at[m + 1] % b = 0
      BY <2>1
    <2> QED
      BY <2>1, <2>2
  <1>3. T = Nat
    <2>1. T \in SUBSET Nat
      OBVIOUS
    <2> HIDE DEF T
    <2> QED
      BY <1>1, <1>2, <2>1, SetInduction
  <1>4. ASSUME NEW j \in 1 .. n + 1 PROVE at[j] % b = 0
    <2> DEFINE m == j - 1
    <2>1. m \in Nat /\ m <= n /\ m + 1 = j
      OBVIOUS
    <2>2. m \in T
      <3> HIDE DEF T, m
      <3> QED
        BY <1>3, <2>1
    <2> HIDE DEF m
    <2> QED
      BY <2>1, <2>2
  <1> QED
    BY <1>4

\* A multiple that is less than a step above another one is not above it.
LEMMA MultiplesApart ==
    ASSUME NEW b \in Nat \ {0}, NEW m \in Nat, NEW n \in Nat,
           m % b = 0, n % b = 0, m < n + b
    PROVE  m <= n
  <1>1. PICK p \in Nat : m = b * p
    BY Multiple
  <1>2. PICK q \in Nat : n = b * q
    BY Multiple
  <1>3. ~ q < p
    <2> SUFFICES ASSUME q < p PROVE FALSE
      OBVIOUS
    <2>1. PICK d \in Nat : p = q + 1 + d
      BY <1>1, <1>2, p - q - 1 \in Nat
    <2>2. b * p = b * q + b + b * d /\ b * d \in Nat /\ b * q \in Nat
      BY <1>2, <2>1
    <2> QED
      BY <1>1, <1>2, <2>2
  <1>4. PICK d \in Nat : q = p + d
    BY <1>1, <1>2, <1>3, q - p \in Nat
  <1>5. b * q = b * p + b * d /\ b * d \in Nat /\ b * p \in Nat
    BY <1>1, <1>4
  <1> QED
    BY <1>1, <1>2, <1>5

\* Numbers less than b apart are equal when their remainders are.
LEMMA Congruent ==
    ASSUME NEW b \in Nat \ {0}, NEW m \in Nat, NEW n \in Nat,
           m % b = n % b, m < n + b, n < m + b
    PROVE  m = n
  <1> DEFINE r == m % b
  <1>1. /\ r \in 0 .. b - 1 /\ m - r \in Nat /\ (m - r) % b = 0
        /\ n - r \in Nat /\ (n - r) % b = 0
    <2>1. /\ m % b \in 0 .. b - 1 /\ m - (m % b) \in Nat /\ (m - (m % b)) % b = 0
      BY Rounded
    <2>2. n - (n % b) \in Nat /\ (n - (n % b)) % b = 0
      BY Rounded
    <2> QED
      BY <2>1, <2>2
  <1> HIDE DEF r
  <1>2. m - r < (n - r) + b /\ n - r < (m - r) + b
    BY <1>1
  <1>3. m - r <= n - r /\ n - r <= m - r
    <2> DEFINE x == m - r
               y == n - r
    <2>1. x \in Nat /\ x % b = 0 /\ y \in Nat /\ y % b = 0 /\ x < y + b /\ y < x + b
      BY <1>1, <1>2
    <2> HIDE DEF x, y
    <2>2. x <= y /\ y <= x
      BY <2>1, MultiplesApart
    <2> QED
      BY <2>2 DEF x, y
  <1> QED
    BY <1>1, <1>3

\* Two multiples add up to one.
LEMMA MultiplesAdd ==
    ASSUME NEW b \in Nat \ {0}, NEW m \in Nat, NEW n \in Nat,
           m % b = 0, n % b = 0
    PROVE  m + n \in Nat /\ (m + n) % b = 0
  <1>1. PICK p \in Nat : m = b * p
    BY Multiple
  <1>2. PICK q \in Nat : n = b * q
    BY Multiple
  <1>3. b * (p + q) = b * p + b * q /\ p + q \in Nat
    BY <1>1, <1>2
  <1>4. (b * (p + q) + 0) % b = 0
    <2>1. 0 \in 0 .. b - 1
      OBVIOUS
    <2> QED
      BY <1>3, <2>1, DividedOnce
  <1>5. m + n = b * (p + q) + 0
    BY <1>1, <1>2, <1>3
  <1> QED
    BY <1>4, <1>5

\* The distance back from a place to 0, without a sign.
LEMMA Wrapped ==
    ASSUME NEW b \in Nat \ {0}, NEW a \in 1 .. b - 1
    PROVE  (0 - a) % b = b - a
  <1> DEFINE q == (0 - a) \div b
             r == (0 - a) % b
  <1>1. q \in Int /\ r \in 0 .. b - 1 /\ 0 - a = b * q + r
    BY SMT
  <1> HIDE DEF q, r
  <1>2. ~ q >= 0
    <2> SUFFICES ASSUME q >= 0 PROVE FALSE
      OBVIOUS
    <2>1. b * q \in Nat
      BY <1>1, q \in Nat
    <2> QED
      BY <1>1, <2>1
  <1>3. ~ q < -1
    <2> SUFFICES ASSUME q < -1 PROVE FALSE
      OBVIOUS
    <2>1. PICK d \in Nat : q = -2 - d
      BY <1>1, -2 - q \in Nat
    <2>2. b * q = 0 - b - b - b * d /\ b * d \in Nat
      BY <2>1
    <2> QED
      BY <1>1, <2>2
  <1>4. q = -1
    BY <1>1, <1>2, <1>3
  <1>5. b * q = 0 - b
    BY <1>4
  <1> QED
    BY <1>1, <1>5 DEF r

-----------------------------------------------------------------------------
\* The remainder by a product is two digits.
LEMMA TwoDigits ==
    ASSUME NEW a \in Nat, NEW s \in Nat \ {0}, NEW p \in Nat \ {0}
    PROVE  /\ s * p \in Nat \ {0}
           /\ a % s \in 0 .. s - 1 /\ (a \div s) % p \in 0 .. p - 1
           /\ a % (s * p) = s * ((a \div s) % p) + (a % s)
  <1> DEFINE q  == a \div s
             r  == a % s
             q2 == q \div p
             r2 == q % p
  <1>1. q \in Nat /\ r \in 0 .. s - 1 /\ a = s * q + r
    BY Divided
  <1> HIDE DEF q, r
  <1>2. q2 \in Nat /\ r2 \in 0 .. p - 1 /\ q = p * q2 + r2
    BY <1>1, Divided
  <1> HIDE DEF q2, r2
  <1>3. s * p \in Nat \ {0}
    BY Z3
  <1> DEFINE b == s * p
             d == s * r2 + r
  <1>4. a = b * q2 + d
    <2>1. s * (p * q2 + r2) = s * (p * q2) + s * r2
      BY <1>2
    <2>2. s * (p * q2) = (s * p) * q2
      BY <1>2
    <2> QED
      BY <1>1, <1>2, <2>1, <2>2
  <1>5. d \in 0 .. b - 1
    <2>1. PICK e \in Nat : p = r2 + 1 + e
      BY <1>2, p - r2 - 1 \in Nat
    <2>2. s * p = s * r2 + s + s * e /\ s * r2 \in Nat /\ s * e \in Nat
      BY <1>2, <2>1
    <2> QED
      BY <1>1, <2>2
  <1>6. a % b = d
    <2> HIDE DEF d, b
    <2> QED
      BY <1>2, <1>3, <1>4, <1>5, DividedOnce DEF b
  <1> QED
    BY <1>1, <1>2, <1>3, <1>6 DEF q, r, r2

\* The quotient by a product is one of a quotient.
LEMMA TwoQuotients ==
    ASSUME NEW a \in Nat, NEW s \in Nat \ {0}, NEW p \in Nat \ {0}
    PROVE  (a \div s) \div p = a \div (s * p)
  <1> DEFINE q == a \div s
             c == a % s
             u == q \div p
             d == q % p
  <1>1. q \in Nat /\ c \in 0 .. s - 1 /\ a = s * q + c
    BY Divided
  <1>2. u \in Nat /\ d \in 0 .. p - 1 /\ q = p * u + d
    <2> HIDE DEF q
    <2> QED
      BY <1>1, Divided
  <1> HIDE DEF q, c, u, d
  <1>3. s * p \in Nat \ {0} /\ s * d + c \in 0 .. s * p - 1
    <2>1. PICK e \in Nat : p = d + 1 + e
      BY <1>2, p - 1 - d \in Nat
    <2>2. s * p = s * d + s + s * e /\ s * e \in Nat /\ s * d \in Nat
      BY <1>2, <2>1
    <2> QED
      BY <1>1, <2>2
  <1>4. a = (s * p) * u + (s * d + c)
    <2>1. a = s * (p * u + d) + c
      BY <1>1, <1>2
    <2>2. s * (p * u + d) = (s * p) * u + s * d
      BY <1>2
    <2> QED
      BY <1>1, <1>2, <2>1, <2>2
  <1>5. a \div (s * p) = u
    BY <1>2, <1>3, <1>4, DividedOnce
  <1> QED
    BY <1>5 DEF u, q

\* Equal digits are equal numbers.
LEMMA SameDigits ==
    ASSUME NEW a \in Nat, NEW b \in Nat, NEW s \in Nat \ {0}, NEW p \in Nat \ {0}
    PROVE  a % (s * p) = b % (s * p)
              <=> a % s = b % s /\ (a \div s) % p = (b \div s) % p
  <1> DEFINE x == (a \div s) % p
             y == (b \div s) % p
             c == a % s
             d == b % s
  <1>1. /\ a % (s * p) = s * x + c /\ b % (s * p) = s * y + d
        /\ c \in 0 .. s - 1 /\ d \in 0 .. s - 1 /\ x \in Nat /\ y \in Nat
    <2>1. /\ x \in 0 .. p - 1 /\ y \in 0 .. p - 1
          /\ c \in 0 .. s - 1 /\ d \in 0 .. s - 1
      BY TwoDigits, Zenon
    <2>2. a % (s * p) = s * x + c /\ b % (s * p) = s * y + d
      BY TwoDigits, Zenon
    <2> HIDE DEF x, y, c, d
    <2> QED
      BY <2>1, <2>2
  <1> HIDE DEF x, y, c, d
  <1>2. ASSUME s * x + c = s * y + d PROVE x = y /\ c = d
    <2>1. (s * x + c) \div s = x /\ (s * x + c) % s = c
      BY <1>1, DividedOnce
    <2>2. (s * y + d) \div s = y /\ (s * y + d) % s = d
      BY <1>1, DividedOnce
    <2> QED
      BY <1>2, <2>1, <2>2
  <1>3. (s * x + c = s * y + d) <=> (c = d /\ x = y)
    BY <1>2
  <1>4. a % (s * p) = b % (s * p) <=> c = d /\ x = y
    BY <1>1, <1>3
  <1> QED
    BY <1>4 DEF x, y, c, d

\* Induction from the first of some levels to the last, and back.
LEMMA LevelsUp ==
    ASSUME NEW n \in Nat \ {0}, NEW S, 1 \in S,
           \A l \in 1 .. n : l # n /\ l \in S => l + 1 \in S
    PROVE  1 .. n \subseteq S
  <1> DEFINE T == {m \in Nat : m + 1 <= n => m + 1 \in S}
  <1>1. 0 \in T
    OBVIOUS
  <1>2. ASSUME NEW m \in T PROVE m + 1 \in T
    <2>1. m \in Nat /\ (m + 1) + 1 <= n => m + 1 \in 1 .. n /\ m + 1 # n
      OBVIOUS
    <2> QED
      BY <2>1
  <1>3. T = Nat
    <2>1. T \in SUBSET Nat
      OBVIOUS
    <2> HIDE DEF T
    <2> QED
      BY <1>1, <1>2, <2>1, SetInduction
  <1>4. ASSUME NEW l \in 1 .. n PROVE l \in S
    <2>1. l - 1 \in T /\ (l - 1) + 1 = l
      <3> HIDE DEF T
      <3> QED
        BY <1>3
    <2> QED
      BY <2>1
  <1> QED
    BY <1>4

LEMMA LevelsDown ==
    ASSUME NEW n \in Nat \ {0}, NEW S, n \in S,
           \A l \in 1 .. n : l # n /\ l + 1 \in S => l \in S
    PROVE  1 .. n \subseteq S
  <1> DEFINE T == {l \in 1 .. n : n + 1 - l \in S}
  <1>1. 1 \in T
    OBVIOUS
  <1>2. ASSUME NEW l \in 1 .. n, l # n, l \in T PROVE l + 1 \in T
    <2>1. n - l \in 1 .. n /\ n - l # n /\ (n - l) + 1 = n + 1 - l
          /\ n + 1 - (l + 1) = n - l
      BY <1>2
    <2> QED
      BY <1>2, <2>1
  <1>3. 1 .. n \subseteq T
    <2> HIDE DEF T
    <2> QED
      BY <1>1, <1>2, LevelsUp
  <1>4. ASSUME NEW l \in 1 .. n PROVE l \in S
    <2>1. n + 1 - l \in T /\ n + 1 - (n + 1 - l) = l
      <3> HIDE DEF T
      <3>1. n + 1 - l \in 1 .. n
        OBVIOUS
      <3> QED
        BY <1>3, <3>1
    <2> QED
      BY <2>1
  <1> QED
    BY <1>4

\* Functions that each level defines from the one before, or after.
Climbs(f, n, base, step) ==
    f[1] = base /\ \A l \in 1 .. n : l # n => f[l + 1] = step[l][f[l]]

Falls(f, n, base, step) ==
    f[n] = base /\ \A l \in 1 .. n : l # n => f[l] = step[l][f[l + 1]]

\* There are such functions.
LEMMA UpwardFunction ==
    ASSUME NEW n \in Nat \ {0}, NEW X, NEW base \in X, NEW step,
           step \in [1 .. n -> [X -> X]]
    PROVE  \E f \in [1 .. n -> X] : Climbs(f, n, base, step)
  <1> DEFINE Exists(m) == \E f \in [1 .. m -> X] : Climbs(f, m, base, step)
             S == {m \in 1 .. n : Exists(m)}
  <1>1. 1 \in S
    <2> DEFINE f == [l \in 1 .. 1 |-> base]
    <2>1. f \in [1 .. 1 -> X] /\ Climbs(f, 1, base, step)
      BY DEF Climbs
    <2>2. Exists(1)
      BY <2>1
    <2> HIDE DEF Exists
    <2> QED
      BY <2>2
  <1>2. ASSUME NEW m \in 1 .. n, m # n, Exists(m) PROVE Exists(m + 1)
    <2>1. PICK f \in [1 .. m -> X] : Climbs(f, m, base, step)
      BY <1>2
    <2> DEFINE g == [l \in 1 .. m + 1 |-> IF l = m + 1 THEN step[m][f[m]] ELSE f[l]]
    <2>2. step[m][f[m]] \in X
      <3>1. step[m] \in [X -> X] /\ f[m] \in X
        BY <1>2, <2>1
      <3> QED
        BY <3>1
    <2>3. g \in [1 .. m + 1 -> X]
      BY <2>1, <2>2
    <2>4. g[1] = base
      BY <2>1 DEF Climbs
    <2>5. ASSUME NEW l \in 1 .. m + 1, l # m + 1 PROVE g[l + 1] = step[l][g[l]]
      <3>1. CASE l = m
        BY <3>1
      <3>2. CASE l # m
        <4>1. l \in 1 .. m /\ l + 1 \in 1 .. m /\ g[l] = f[l] /\ g[l + 1] = f[l + 1]
          BY <2>5, <3>2
        <4> QED
          BY <2>1, <3>2, <4>1 DEF Climbs
      <3> QED
        BY <3>1, <3>2
    <2> QED
      BY <2>3, <2>4, <2>5 DEF Climbs
  <1>3. n \in S
    <2> HIDE DEF Exists
    <2>1. \A m \in 1 .. n : m # n /\ m \in S => m + 1 \in S
      BY <1>2
    <2> HIDE DEF S
    <2>2. 1 .. n \subseteq S
      BY <1>1, <2>1, LevelsUp
    <2> QED
      BY <2>2
  <1> QED
    BY <1>3

LEMMA DownwardFunction ==
    ASSUME NEW n \in Nat \ {0}, NEW X, NEW base \in X, NEW step \in [1 .. n -> [X -> X]]
    PROVE  \E f \in [1 .. n -> X] : Falls(f, n, base, step)
  <1> DEFINE back == [l \in 1 .. n |-> IF l = n THEN step[l] ELSE step[n - l]]
  <1>1. back \in [1 .. n -> [X -> X]]
    <2>1. \A l \in 1 .. n : l # n => n - l \in 1 .. n
      OBVIOUS
    <2> QED
      BY <2>1
  <1>2. \A l \in 1 .. n : l # n => back[n - l] = step[l]
    <2> SUFFICES ASSUME NEW l \in 1 .. n, l # n PROVE back[n - l] = step[l]
      OBVIOUS
    <2>1. n - l \in 1 .. n /\ n - l # n /\ n - (n - l) = l
      OBVIOUS
    <2> QED
      BY <2>1
  <1> HIDE DEF back
  <1>3. PICK g \in [1 .. n -> X] : Climbs(g, n, base, back)
    BY <1>1, UpwardFunction
  <1> DEFINE f == [l \in 1 .. n |-> g[n + 1 - l]]
  <1>4. f \in [1 .. n -> X]
    <2>1. \A l \in 1 .. n : n + 1 - l \in 1 .. n
      OBVIOUS
    <2> QED
      BY <1>3, <2>1
  <1>5. f[n] = base
    BY <1>3, n + 1 - n = 1 DEF Climbs
  <1>6. ASSUME NEW l \in 1 .. n, l # n PROVE f[l] = step[l][f[l + 1]]
    <2>1. n - l \in 1 .. n /\ n - l # n /\ l + 1 \in 1 .. n
          /\ (n - l) + 1 = n + 1 - l /\ n + 1 - (l + 1) = n - l
      BY <1>6
    <2>2. g[(n - l) + 1] = back[n - l][g[n - l]]
      BY <1>3, <2>1 DEF Climbs
    <2> QED
      BY <1>2, <1>6, <2>1, <2>2
  <1> QED
    BY <1>4, <1>5, <1>6 DEF Falls

\* The powers of a base, from 1 on.
Scale(base, n) == CHOOSE f : f = [k \in 1 .. n |-> IF k = 1 THEN 1 ELSE base * f[k - 1]]

LEMMA ScaleSteps ==
    ASSUME NEW base \in Nat \ {0}, NEW n \in Nat \ {0}
    PROVE  /\ Scale(base, n)[1] = 1
           /\ \A k \in 1 .. n : Scale(base, n)[k] \in Nat \ {0}
           /\ \A k \in 1 .. n : k # n => Scale(base, n)[k + 1] = base * Scale(base, n)[k]
  <1> DEFINE step == [l \in 1 .. n |-> [s \in Nat \ {0} |-> base * s]]
             Body(f) == [k \in 1 .. n |-> IF k = 1 THEN 1 ELSE base * f[k - 1]]
  <1>1. step \in [1 .. n -> [Nat \ {0} -> Nat \ {0}]]
    <2>1. \A s \in Nat \ {0} : base * s \in Nat \ {0}
      OBVIOUS
    <2> QED
      BY <2>1
  <1>2. 1 \in Nat \ {0} /\ \A l \in 1 .. n : \A s \in Nat \ {0} : step[l][s] = base * s
    OBVIOUS
  <1> HIDE DEF step
  <1>3. PICK f \in [1 .. n -> Nat \ {0}] : Climbs(f, n, 1, step)
    BY <1>1, <1>2, UpwardFunction
  <1>4. f = Body(f)
    <2>1. ASSUME NEW l \in 1 .. n PROVE f[l] = Body(f)[l]
      <3>1. CASE l = 1
        BY <1>3, <3>1 DEF Climbs
      <3>2. CASE l # 1
        <4>1. l - 1 \in 1 .. n /\ l - 1 # n /\ (l - 1) + 1 = l
          BY <3>2
        <4>2. f[(l - 1) + 1] = step[l - 1][f[l - 1]]
          BY <1>3, <4>1 DEF Climbs
        <4>3. f[l] = base * f[l - 1]
          BY <1>2, <1>3, <4>1, <4>2
        <4> QED
          BY <3>2, <4>3
      <3> QED
        BY <3>1, <3>2
    <2> QED
      BY <1>3, <2>1
  <1> DEFINE g == Scale(base, n)
  <1>5. g = Body(g)
    BY <1>4 DEF Scale
  <1> HIDE DEF g
  <1>6. /\ 1 \in 1 .. n /\ g[1] = 1
        /\ \A l \in 1 .. n : l # n => g[l + 1] = base * g[l]
    <2>1. 1 \in 1 .. n
      OBVIOUS
    <2>2. ASSUME NEW l \in 1 .. n, l # n
          PROVE  g[l + 1] = base * g[l]
      <3>1. l + 1 \in 1 .. n /\ l + 1 # 1 /\ (l + 1) - 1 = l
        BY <2>2
      <3> QED
        BY <1>5, <3>1
    <2> QED
      BY <1>5, <2>1, <2>2
  <1> DEFINE S == {l \in 1 .. n : g[l] \in Nat \ {0}}
  <1>7. 1 .. n \subseteq S
    <2>1. 1 \in S
      BY <1>6
    <2>2. \A l \in 1 .. n : l # n /\ l \in S => l + 1 \in S
      <3> SUFFICES ASSUME NEW l \in 1 .. n, l # n, g[l] \in Nat \ {0}
                   PROVE  l + 1 \in S
        OBVIOUS
      <3>1. l + 1 \in 1 .. n /\ g[l + 1] = base * g[l]
        BY <1>6
      <3>2. base * g[l] \in Nat \ {0}
        OBVIOUS
      <3> QED
        BY <3>1, <3>2
    <2> HIDE DEF S
    <2> QED
      BY <2>1, <2>2, LevelsUp
  <1> QED
    BY <1>6, <1>7 DEF g
=============================================================================
