--------------------------- MODULE LiquidityProofs ---------------------------
(***************************************************************************)
(* The liquidity accounting of a pool is right for every number of         *)
(* positions, every tick spacing and array size and every price function.  *)
(* First come the ticks: the search of a swap over its tick arrays skips   *)
(* no initialized tick, whichever arrays were passed.  Then the running    *)
(* totals of the code are compared with sums over positions; then come the *)
(* facts about prices, the invariant, and the actions one by one.          *)
(*                                                                         *)
(* The last part is about any counter of growth that is kept as the code   *)
(* keeps those of fees and rewards: how much of it lies inside a range,    *)
(* what a crossing, a new tick, a claim and an accrual make of that, and   *)
(* what all positions together may claim.                                  *)
(***************************************************************************)
EXTENDS Liquidity, WellFoundedInduction, TLAPS

-----------------------------------------------------------------------------
(* Sums over the position accounts, for every number of them.  The induction   *)
(* they need is over sets of numbers: any nonempty set of natural numbers has  *)
(* a least element, since Nat is well-founded.                                 *)

\* A nonempty set of natural numbers has a least element.
LEMMA LeastElement ==
  ASSUME NEW T \in SUBSET Nat, T # {}
  PROVE  \E x \in T : \A y \in T : x <= y
<1> DEFINE R == {ss \in Nat \X Nat : ss[1] < ss[2]}
<1>1. R = OpToRel(<, Nat)
  BY DEF OpToRel
<1>2. IsWellFoundedOn(R, Nat)
  BY <1>1, NatLessThanWellFounded, Zenon
<1>3. \A x, y \in Nat : <<y, x>> \in R <=> y < x
  OBVIOUS
<1> HIDE DEF R
<1>4. PICK x \in T : \A y \in T : ~ (<<y, x>> \in R)
  BY <1>2, WFMin
<1>5. ASSUME NEW y \in T PROVE x <= y
  <2>1. x \in Nat /\ y \in Nat
    OBVIOUS
  <2>2. ~ (y < x)
    BY <1>3, <1>4, <2>1, Zenon
  <2> QED BY <2>1, <2>2
<1> QED BY <1>5

\* Induction up to N over a set of numbers.
LEMMA UpToN ==
  ASSUME NEW G \in SUBSET Nat, 0 \in G,
         \A n \in Nat : n < N /\ n \in G => n + 1 \in G
  PROVE  0 .. N \subseteq G
<1> DEFINE Bad == {n \in Nat : n <= N /\ n \notin G}
<1>1. SUFFICES ASSUME Bad # {} PROVE FALSE
  BY NAssumption
<1>2. PICK x \in Bad : \A y \in Bad : x <= y
  BY <1>1, LeastElement
<1>3. x - 1 \in Nat /\ x - 1 < N /\ (x - 1) + 1 = x
  BY NAssumption
<1>4. x - 1 \notin Bad
  BY <1>2, <1>3
<1>5. x - 1 \in G
  BY <1>3, <1>4, NAssumption
<1> QED BY <1>3, <1>5

\* Partial sums exist: the recursive definition has a solution.
LEMMA PartialSumsExist ==
  ASSUME NEW h \in [1 .. N -> Int]
  PROVE  \E g \in [0 .. N -> Int] :
            g[0] = 0 /\ \A i \in 1 .. N : g[i] = g[i - 1] + h[i]
<1> DEFINE Ok(n) == \E g \in [0 .. n -> Int] :
                       g[0] = 0 /\ \A i \in 1 .. n : g[i] = g[i - 1] + h[i]
           G == {n \in Nat : Ok(n)}
<1>1. Ok(0)
  <2> DEFINE g == [i \in 0 .. 0 |-> 0]
  <2>1. g \in [0 .. 0 -> Int] /\ g[0] = 0 /\ 1 .. 0 = {}
    OBVIOUS
  <2> HIDE DEF g
  <2> QED BY <2>1
<1>2. ASSUME NEW n \in Nat, n < N, Ok(n) PROVE Ok(n + 1)
  <2>1. PICK g \in [0 .. n -> Int] :
               g[0] = 0 /\ \A i \in 1 .. n : g[i] = g[i - 1] + h[i]
    BY <1>2
  <2> DEFINE k == [i \in 0 .. (n + 1) |->
                      IF i <= n THEN g[i] ELSE g[n] + h[n + 1]]
  <2>2. k \in [0 .. (n + 1) -> Int]
    BY NAssumption, <1>2
  <2>3. k[0] = 0
    BY <2>1
  <2>4. ASSUME NEW i \in 1 .. n + 1 PROVE k[i] = k[i - 1] + h[i]
    <3>1. CASE i <= n
      <4>1. i \in 1 .. n /\ i - 1 \in 0 .. n /\ i \in 0 .. n + 1
            /\ i - 1 \in 0 .. n + 1
        BY <3>1
      <4>2. k[i] = g[i] /\ k[i - 1] = g[i - 1]
        BY <4>1
      <4> QED BY <2>1, <4>1, <4>2
    <3>2. CASE i = n + 1
      <4>1. k[n + 1] = g[n] + h[n + 1] /\ k[n] = g[n]
        OBVIOUS
      <4>2. i - 1 = n
        BY <3>2
      <4> QED BY <3>2, <4>1, <4>2
    <3> QED BY <3>1, <3>2
  <2> HIDE DEF k
  <2> QED BY <2>2, <2>3, <2>4
<1> HIDE DEF Ok
<1>3. /\ G \in SUBSET Nat /\ 0 \in G
      /\ \A n \in Nat : n < N /\ n \in G => n + 1 \in G
      /\ \A n \in G : Ok(n)
  BY <1>1, <1>2
<1> HIDE DEF G
<1>4. 0 .. N \subseteq G
  BY <1>3, UpToN
<1>5. Ok(N)
  BY <1>3, <1>4, NAssumption
<1> QED BY <1>5 DEF Ok

\* The equations of the partial sums.
LEMMA PartialSumsSteps ==
  ASSUME NEW h \in [1 .. N -> Int]
  PROVE  /\ PartialSums(h) \in [0 .. N -> Int]
         /\ PartialSums(h)[0] = 0
         /\ \A i \in 1 .. N : PartialSums(h)[i] = PartialSums(h)[i - 1] + h[i]
<1> DEFINE Solves(g) == g = [i \in 0 .. N |->
                               IF i = 0 THEN 0 ELSE g[i - 1] + h[i]]
<1>1. \E g : Solves(g)
  <2>1. PICK g \in [0 .. N -> Int] :
               g[0] = 0 /\ \A i \in 1 .. N : g[i] = g[i - 1] + h[i]
    BY PartialSumsExist
  <2>2. Solves(g)
    BY <2>1, NAssumption
  <2> QED BY <2>2
<1>2. Solves(PartialSums(h))
  BY <1>1 DEF PartialSums
<1> DEFINE S == PartialSums(h)
<1> HIDE DEF S
<1>3. S = [i \in 0 .. N |-> IF i = 0 THEN 0 ELSE S[i - 1] + h[i]]
  BY <1>2 DEF S
<1>4. S[0] = 0
  BY <1>3, NAssumption
<1>5. ASSUME NEW i \in 1 .. N PROVE S[i] = S[i - 1] + h[i]
  <2>1. i \in 0 .. N /\ i # 0
    OBVIOUS
  <2> QED BY <1>3, <2>1, Zenon
<1> DEFINE G == {n \in Nat : n <= N => S[n] \in Int}
<1>6. ASSUME NEW n \in Nat, n < N, n \in G PROVE n + 1 \in G
  <2>1. n + 1 \in 1 .. N /\ (n + 1) - 1 = n /\ n <= N
    BY <1>6, NAssumption
  <2>2. S[n + 1] = S[n] + h[n + 1] /\ h[n + 1] \in Int /\ S[n] \in Int
    BY <1>5, <1>6, <2>1
  <2> QED BY <2>2
<1>7. G \in SUBSET Nat /\ 0 \in G
  BY <1>4
<1>8. 0 .. N \subseteq G
  <2> HIDE DEF G
  <2> QED BY <1>6, <1>7, UpToN
<1>9. \A i \in 0 .. N : S[i] \in Int
  BY <1>8
<1>10. S \in [0 .. N -> Int]
  BY <1>3, <1>9, Zenon
<1> QED BY <1>4, <1>5, <1>10 DEF S

\* A sum is a number.
LEMMA TotalType ==
  ASSUME NEW h \in [1 .. N -> Int]
  PROVE  Total(h) \in Int
BY PartialSumsSteps, NAssumption DEF Total

\* The sum of two terms is summed apart.
LEMMA TotalPlus ==
  ASSUME NEW a \in [1 .. N -> Int], NEW b \in [1 .. N -> Int],
         NEW c \in [1 .. N -> Int],
         \A i \in 1 .. N : c[i] = a[i] + b[i]
  PROVE  Total(c) = Total(a) + Total(b)
<1> DEFINE A == PartialSums(a)
           B == PartialSums(b)
           C == PartialSums(c)
           G == {n \in Nat : n <= N => C[n] = A[n] + B[n]}
<1>1. /\ A \in [0 .. N -> Int] /\ B \in [0 .. N -> Int]
      /\ C \in [0 .. N -> Int]
      /\ A[0] = 0 /\ B[0] = 0 /\ C[0] = 0
      /\ \A i \in 1 .. N : /\ A[i] = A[i - 1] + a[i]
                           /\ B[i] = B[i - 1] + b[i]
                           /\ C[i] = C[i - 1] + c[i]
  BY PartialSumsSteps
<1> HIDE DEF A, B, C
<1>2. ASSUME NEW n \in Nat, n < N, n \in G PROVE n + 1 \in G
  <2>1. n \in 0 .. N /\ n + 1 \in 1 .. N /\ n + 1 \in 0 .. N /\ (n + 1) - 1 = n
    BY <1>2, NAssumption
  <2>2. C[n] = A[n] + B[n]
    BY <1>2, <2>1
  <2>3. /\ A[n + 1] = A[n] + a[n + 1] /\ B[n + 1] = B[n] + b[n + 1]
        /\ C[n + 1] = C[n] + c[n + 1]
    BY <1>1, <2>1
  <2>4. c[n + 1] = a[n + 1] + b[n + 1]
    BY <2>1
  <2>5. /\ A[n] \in Int /\ B[n] \in Int /\ a[n + 1] \in Int /\ b[n + 1] \in Int
    BY <1>1, <2>1
  <2>6. C[n + 1] = A[n + 1] + B[n + 1]
    BY <2>2, <2>3, <2>4, <2>5
  <2> QED BY <2>6
<1>3. 0 \in G
  BY <1>1
<1>4. 0 .. N \subseteq G
  BY <1>2, <1>3, UpToN
<1>5. C[N] = A[N] + B[N]
  BY <1>4, NAssumption
<1> QED BY <1>5 DEF Total, A, B, C

\* Term by term, a differs from b as c differs from d.
DiffersAs(a, b, c, d) ==
    /\ a \in [1 .. N -> Int] /\ b \in [1 .. N -> Int]
    /\ c \in [1 .. N -> Int] /\ d \in [1 .. N -> Int]
    /\ \A i \in 1 .. N : a[i] - b[i] = c[i] - d[i]

\* Terms of equal differences have sums of equal differences.
LEMMA TotalLinear ==
  ASSUME NEW a, NEW b, NEW c, NEW d, DiffersAs(a, b, c, d)
  PROVE  Total(a) - Total(b) = Total(c) - Total(d)
<1> USE DEF DiffersAs
<1> DEFINE e == [i \in 1 .. N |-> a[i] + d[i]]
<1>1. e \in [1 .. N -> Int] /\ \A i \in 1 .. N : e[i] = a[i] + d[i]
  OBVIOUS
<1>2. ASSUME NEW i \in 1 .. N PROVE e[i] = b[i] + c[i]
  OBVIOUS
<1> HIDE DEF e
<1>3. Total(e) = Total(a) + Total(d)
  BY <1>1, TotalPlus
<1>4. Total(e) = Total(b) + Total(c)
  <2>1. b \in [1 .. N -> Int] /\ c \in [1 .. N -> Int]
    BY Zenon
  <2>2. e \in [1 .. N -> Int] /\ \A i \in 1 .. N : e[i] = b[i] + c[i]
    BY <1>1, <1>2, Zenon
  <2> QED
    BY <2>1, <2>2, TotalPlus, Zenon
<1>5. /\ Total(a) \in Int /\ Total(b) \in Int /\ Total(c) \in Int
      /\ Total(d) \in Int
  BY TotalType
<1> QED BY <1>3, <1>4, <1>5

\* A sum grows with its terms.
LEMMA TotalMonotone ==
  ASSUME NEW a \in [1 .. N -> Int], NEW b \in [1 .. N -> Int],
         \A i \in 1 .. N : a[i] <= b[i]
  PROVE  Total(a) <= Total(b)
<1> DEFINE A == PartialSums(a)
           B == PartialSums(b)
           G == {n \in Nat : n <= N => A[n] <= B[n]}
<1>1. /\ A \in [0 .. N -> Int] /\ B \in [0 .. N -> Int]
      /\ A[0] = 0 /\ B[0] = 0
      /\ \A i \in 1 .. N : A[i] = A[i - 1] + a[i] /\ B[i] = B[i - 1] + b[i]
  BY PartialSumsSteps
<1> HIDE DEF A, B
<1>2. ASSUME NEW n \in Nat, n < N, n \in G PROVE n + 1 \in G
  <2>1. n \in 0 .. N /\ n + 1 \in 1 .. N /\ n + 1 \in 0 .. N /\ (n + 1) - 1 = n
    BY <1>2, NAssumption
  <2>2. A[n] <= B[n]
    BY <1>2, <2>1
  <2>3. A[n + 1] = A[n] + a[n + 1] /\ B[n + 1] = B[n] + b[n + 1]
    BY <1>1, <2>1
  <2>4. a[n + 1] <= b[n + 1]
    BY <2>1
  <2>5. A[n] \in Int /\ B[n] \in Int /\ a[n + 1] \in Int /\ b[n + 1] \in Int
    BY <1>1, <2>1
  <2>6. A[n + 1] <= B[n + 1]
    BY <2>2, <2>3, <2>4, <2>5
  <2> QED BY <2>6
<1>3. 0 \in G
  BY <1>1
<1>4. 0 .. N \subseteq G
  BY <1>2, <1>3, UpToN
<1> QED BY <1>4, NAssumption DEF Total, A, B

\* A sum of nothing is zero.
LEMMA TotalZero ==
  Total([i \in 1 .. N |-> 0]) = 0
<1> DEFINE z == [i \in 1 .. N |-> 0]
           Z == PartialSums(z)
           G == {n \in Nat : n <= N => Z[n] = 0}
<1>1. z \in [1 .. N -> Int] /\ \A i \in 1 .. N : z[i] = 0
  OBVIOUS
<1> HIDE DEF z
<1>2. /\ Z \in [0 .. N -> Int] /\ Z[0] = 0
      /\ \A i \in 1 .. N : Z[i] = Z[i - 1] + z[i]
  BY <1>1, PartialSumsSteps
<1> HIDE DEF Z
<1>3. ASSUME NEW n \in Nat, n < N, n \in G PROVE n + 1 \in G
  BY <1>1, <1>2, <1>3, NAssumption
<1>4. 0 .. N \subseteq G
  BY <1>2, <1>3, UpToN
<1> QED BY <1>4, NAssumption DEF Total, Z, z
\* k is h with delta added to term p.
Updates(h, k, p, delta) ==
    /\ h \in [1 .. N -> Int] /\ k \in [1 .. N -> Int]
    /\ p \in 1 .. N /\ delta \in Int
    /\ k[p] = h[p] + delta
    /\ \A i \in (1 .. N) \ {p} : k[i] = h[i]

\* Changing one term changes the sum by as much.
LEMMA TotalUpdate ==
  ASSUME NEW h, NEW k, NEW p, NEW delta, Updates(h, k, p, delta)
  PROVE  Total(k) = Total(h) + delta
<1> USE DEF Updates
<1> DEFINE at(v) == [i \in 1 .. N |-> IF i = p THEN v ELSE 0]
           S(v) == PartialSums(at(v))
           G == {n \in Nat : n <= N => S(delta)[n] = IF n < p THEN 0 ELSE delta}
<1>1. at(delta) \in [1 .. N -> Int]
  OBVIOUS
<1>2. /\ S(delta) \in [0 .. N -> Int] /\ S(delta)[0] = 0
      /\ \A i \in 1 .. N : S(delta)[i] = S(delta)[i - 1] + at(delta)[i]
  BY <1>1, PartialSumsSteps
<1>3. \A i \in 1 .. N : at(delta)[i] = IF i = p THEN delta ELSE 0
  OBVIOUS
<1>4. \A i \in 1 .. N : k[i] = h[i] + at(delta)[i]
  OBVIOUS
<1> HIDE DEF at
<1>5. Total(k) = Total(h) + Total(at(delta))
  BY <1>1, <1>4, TotalPlus
<1> HIDE DEF S
<1>6. ASSUME NEW n \in Nat, n < N, n \in G PROVE n + 1 \in G
  <2>1. n + 1 \in 1 .. N /\ (n + 1) - 1 = n /\ n <= N
    BY <1>6, NAssumption
  <2>2. S(delta)[n + 1] = S(delta)[n] + at(delta)[n + 1]
    BY <1>2, <2>1
  <2>3. S(delta)[n] = IF n < p THEN 0 ELSE delta
    BY <1>6, <2>1
  <2>4. at(delta)[n + 1] = IF n + 1 = p THEN delta ELSE 0
    BY <1>3, <2>1
  <2>5. S(delta)[n + 1] = IF n + 1 < p THEN 0 ELSE delta
    BY <2>2, <2>3, <2>4
  <2> QED BY <2>5
<1>7. 0 \in G
  BY <1>2
<1>8. 0 .. N \subseteq G
  BY <1>6, <1>7, UpToN
<1>9. S(delta)[N] = delta
  BY <1>8, NAssumption
<1> QED BY <1>5, <1>9 DEF Total, S

\* A term is at most the sum, when no term is negative.
LEMMA TotalMember ==
  ASSUME NEW h \in [1 .. N -> Nat], NEW p \in 1 .. N
  PROVE  h[p] <= Total(h) /\ Total(h) \in Nat
<1> DEFINE z == [i \in 1 .. N |-> 0]
           k == [i \in 1 .. N |-> IF i = p THEN h[p] ELSE 0]
<1>1. z \in [1 .. N -> Int] /\ k \in [1 .. N -> Int] /\ h \in [1 .. N -> Int]
  OBVIOUS
<1>2. k[p] = z[p] + h[p] /\ \A i \in (1 .. N) \ {p} : k[i] = z[i]
  OBVIOUS
<1>3. \A i \in 1 .. N : k[i] <= h[i] /\ h[p] \in Int /\ h[p] >= 0
  OBVIOUS
<1>4. Total(z) = 0
  BY TotalZero
<1> HIDE DEF z, k
<1>5. Total(k) = Total(z) + h[p]
  BY <1>1, <1>2, <1>3, TotalUpdate DEF Updates
<1>6. Total(k) <= Total(h) /\ Total(h) \in Int
  BY <1>1, <1>3, TotalMonotone, TotalType
<1> QED BY <1>3, <1>4, <1>5, <1>6

\* A sum of natural numbers is one.
LEMMA TotalNat ==
  ASSUME NEW h \in [1 .. N -> Nat]
  PROVE  Total(h) \in Nat
<1> DEFINE z == [i \in 1 .. N |-> 0]
<1>1. z \in [1 .. N -> Int] /\ h \in [1 .. N -> Int]
  OBVIOUS
<1>2. \A i \in 1 .. N : z[i] <= h[i]
  OBVIOUS
<1>3. Total(z) = 0
  BY TotalZero
<1> HIDE DEF z
<1>4. Total(z) <= Total(h) /\ Total(h) \in Int
  BY <1>1, <1>2, TotalMonotone, TotalType
<1> QED BY <1>3, <1>4

\* A factor that all terms share can be taken out of the sum.
LEMMA TotalScale ==
  ASSUME NEW h \in [1 .. N -> Int], NEW k \in [1 .. N -> Int], NEW g \in Int,
         \A i \in 1 .. N : k[i] = g * h[i]
  PROVE  Total(k) = g * Total(h)
<1> DEFINE H == PartialSums(h)
           K == PartialSums(k)
           G == {n \in Nat : n <= N => K[n] = g * H[n]}
<1>1. /\ H \in [0 .. N -> Int] /\ K \in [0 .. N -> Int]
      /\ H[0] = 0 /\ K[0] = 0
      /\ \A i \in 1 .. N : H[i] = H[i - 1] + h[i] /\ K[i] = K[i - 1] + k[i]
  BY PartialSumsSteps
<1> HIDE DEF H, K
<1>2. ASSUME NEW n \in Nat, n < N, n \in G PROVE n + 1 \in G
  <2>1. n \in 0 .. N /\ n + 1 \in 1 .. N /\ (n + 1) - 1 = n
    BY <1>2, NAssumption
  <2>2. K[n] = g * H[n]
    BY <1>2, <2>1
  <2>3. H[n + 1] = H[n] + h[n + 1] /\ K[n + 1] = K[n] + g * h[n + 1]
    BY <1>1, <2>1
  <2>4. H[n] \in Int /\ h[n + 1] \in Int
    BY <1>1, <2>1
  <2>5. g * (H[n] + h[n + 1]) = g * H[n] + g * h[n + 1]
    BY <2>4
  <2> QED BY <2>2, <2>3, <2>5
<1>3. 0 \in G
  BY <1>1
<1>4. 0 .. N \subseteq G
  BY <1>2, <1>3, UpToN
<1> QED BY <1>4, NAssumption DEF Total, H, K

-----------------------------------------------------------------------------
(* Counters that wrap.  An equation between remainders is shown by saying how  *)
(* many times the modulus lies between the two sides.                          *)

\* Division with remainder.
LEMMA Remainder ==
  ASSUME NEW b \in Nat \ {0}, NEW a \in Int
  PROVE  /\ a = b * (a \div b) + (a % b)
         /\ a \div b \in Int
         /\ a % b \in 0 .. b - 1
OBVIOUS

\* What is left after taking out the modulus is the remainder.
LEMMA ModUnique ==
  ASSUME NEW m \in Nat \ {0}, NEW a \in Int, NEW q \in Int, NEW r \in 0 .. m - 1,
         a = m * q + r
  PROVE  a % m = r
<1> DEFINE d == a \div m
           s == a % m
<1>1. a = m * d + s /\ d \in Int /\ s \in 0 .. m - 1
  BY Remainder
<1> HIDE DEF d, s
<1>2. CASE d = q
  BY <1>1, <1>2 DEF s
<1>3. CASE d >= q + 1
  <2>1. m * d >= m * (q + 1)
    BY <1>1, <1>3
  <2>2. m * (q + 1) = m * q + m
    OBVIOUS
  <2> QED
    BY <2>1, <2>2, <1>1
<1>4. CASE d <= q - 1
  <2>1. m * d <= m * (q - 1)
    BY <1>1, <1>4
  <2>2. m * (q - 1) = m * q - m
    OBVIOUS
  <2> QED
    BY <2>1, <2>2, <1>1
<1> QED
  BY <1>1, <1>2, <1>3, <1>4

\* Numbers that differ by multiples of the modulus have the same remainder.
LEMMA ModSame ==
  ASSUME NEW m \in Nat \ {0}, NEW a \in Int, NEW b \in Int, NEW k \in Int,
         a = b + m * k
  PROVE  a % m = b % m
<1> DEFINE q == b \div m
           r == b % m
<1>1. b = m * q + r /\ q \in Int /\ r \in 0 .. m - 1
  BY Remainder
<1> HIDE DEF q, r
<1>2. m * (q + k) = m * q + m * k
  BY <1>1
<1>3. a = m * (q + k) + r /\ q + k \in Int
  BY <1>1, <1>2
<1>4. a % m = r
  BY <1>1, <1>3, ModUnique
<1> QED
  BY <1>4 DEF r

\* A term of a sum may be reduced before it is added,
LEMMA ModAdd ==
  ASSUME NEW m \in Nat \ {0}, NEW a \in Int, NEW b \in Int
  PROVE  ((a % m) + b) % m = (a + b) % m
<1> DEFINE q == a \div m
           r == a % m
<1>1. a = m * q + r /\ q \in Int /\ r \in 0 .. m - 1
  BY Remainder
<1> HIDE DEF q, r
<1>2. a + b = (r + b) + m * q
  BY <1>1
<1>3. a + b \in Int /\ r + b \in Int
  BY <1>1
<1>4. (a + b) % m = (r + b) % m
  BY <1>1, <1>2, <1>3, ModSame, Zenon
<1> QED
  BY <1>4 DEF r

\* or taken away,
LEMMA ModSub ==
  ASSUME NEW m \in Nat \ {0}, NEW a \in Int, NEW b \in Int
  PROVE  (b - (a % m)) % m = (b - a) % m
<1> DEFINE q == a \div m
           r == a % m
<1>1. a = m * q + r /\ q \in Int /\ r \in 0 .. m - 1
  BY Remainder
<1> HIDE DEF q, r
<1>2. b - r = (b - a) + m * q
  BY <1>1
<1>3. b - a \in Int /\ b - r \in Int
  BY <1>1
<1>4. (b - r) % m = (b - a) % m
  BY <1>1, <1>2, <1>3, ModSame, Zenon
<1> QED
  BY <1>4 DEF r

\* and also what it is taken from.
LEMMA ModMinus ==
  ASSUME NEW m \in Nat \ {0}, NEW a \in Int, NEW b \in Int
  PROVE  ((a % m) - b) % m = (a - b) % m
<1> DEFINE c == 0 - b
<1>1. c \in Int /\ a + c = a - b /\ \A x \in Int : x + c = x - b
  OBVIOUS
<1> HIDE DEF c
<1>2. ((a % m) + c) % m = (a + c) % m
  BY <1>1, ModAdd
<1>3. a % m \in Int
  BY Remainder
<1>4. (a % m) + c = (a % m) - b
  BY <1>1, <1>3
<1> QED
  BY <1>1, <1>2, <1>4

\* A remainder is never more than the number.
LEMMA ModShrinks ==
  ASSUME NEW m \in Nat \ {0}, NEW a \in Nat
  PROVE  a % m <= a
<1> DEFINE d == a \div m
           r == a % m
<1>1. a = m * d + r /\ d \in Int /\ r \in 0 .. m - 1
  BY Remainder
<1> HIDE DEF d, r
<1>2. CASE d >= 0
  <2>1. m * d >= 0
    BY <1>1, <1>2
  <2> QED
    BY <1>1, <2>1 DEF r
<1>3. CASE d < 0
  <2>1. m * d <= 0 - m
    <3>1. d <= 0 - 1
      BY <1>1, <1>3
    <3>2. m * d <= m * (0 - 1)
      BY <1>1, <3>1
    <3> QED
      BY <3>2
  <2> QED
    BY <1>1, <2>1
<1> QED
  BY <1>1, <1>2, <1>3

\* A number below the modulus is left alone.
LEMMA ModSmall ==
  ASSUME NEW m \in Nat \ {0}, NEW a \in 0 .. m - 1
  PROVE  a % m = a
<1>1. a = m * 0 + a
  OBVIOUS
<1> QED
  BY <1>1, ModUnique

\* Division rounds down.
LEMMA RoundsDown ==
  ASSUME NEW a \in Nat, NEW b \in Nat \ {0}
  PROVE  a \div b \in Nat /\ b * (a \div b) <= a
<1> DEFINE q == a \div b
           r == a % b
<1>1. a = b * q + r /\ q \in Int /\ r \in 0 .. b - 1
  BY Remainder
<1>2. q >= 0
  OBVIOUS
<1> HIDE DEF q, r
<1>3. q \in Nat /\ b * q <= a
  BY <1>1, <1>2
<1> QED
  BY <1>3 DEF q

\* A positive factor can be dropped.
LEMMA Cancel ==
  ASSUME NEW b \in Nat \ {0}, NEW x \in Int, NEW y \in Int, b * x <= b * y
  PROVE  x <= y
<1> SUFFICES ASSUME y + 1 <= x PROVE FALSE
  OBVIOUS
<1>1. b * (y + 1) <= b * x
  OBVIOUS
<1>2. b * (y + 1) = b * y + b
  OBVIOUS
<1> QED
  BY <1>1, <1>2

\* What wraps at a width of m + 1 fits it, and has not grown.
LEMMA WidthShrinks ==
  ASSUME NEW m \in Nat, NEW x \in Nat
  PROVE  x % (m + 1) \in 0 .. m /\ x % (m + 1) <= x
<1> DEFINE n == m + 1
<1>1. n \in Nat \ {0} /\ 0 .. m = 0 .. n - 1
  OBVIOUS
<1> HIDE DEF n
<1>2. x % n <= x
  BY <1>1, ModShrinks
<1>3. x % n \in 0 .. m
  BY <1>1, Remainder
<1> QED
  BY <1>2, <1>3 DEF n

-----------------------------------------------------------------------------
\* Ticks, and the search along the tick arrays of a swap.

\* Division by a positive integer.
LEMMA DivMod ==
  ASSUME NEW b \in Nat \ {0}, NEW a \in Int
  PROVE  /\ a = b * (a \div b) + (a % b)
         /\ a \div b \in Int
         /\ a % b \in 0 .. b - 1
OBVIOUS

\* Multiplying by a positive number keeps the order.
LEMMA MultMonotone ==
  ASSUME NEW b \in Nat \ {0}, NEW j \in Int, NEW d \in Int, j <= d
  PROVE  b * j <= b * d
OBVIOUS

\* Rounding a quotient down gives the largest multiple that is not greater.
LEMMA DivAdjoint ==
  ASSUME NEW b \in Nat \ {0}, NEW a \in Int, NEW j \in Int
  PROVE  j <= a \div b <=> b * j <= a
<1>1. a = b * (a \div b) + (a % b) /\ a \div b \in Int /\ a % b \in 0 .. b - 1
  BY DivMod
<1>2. CASE j <= a \div b
  BY <1>1, <1>2, MultMonotone
<1>3. CASE j >= (a \div b) + 1
  <2>1. b * ((a \div b) + 1) <= b * j
    BY <1>1, <1>3, MultMonotone
  <2>2. b * ((a \div b) + 1) = b * (a \div b) + b
    BY <1>1
  <2> QED BY <1>1, <1>3, <2>1, <2>2
<1> QED BY <1>1, <1>2, <1>3

\* The width of an array is a positive multiple of the tick spacing.
LEMMA ArrayWidth ==
  /\ ticks_in_array \in Nat \ {0}
  /\ ticks_in_array >= tick_spacing
BY TickAssumption DEF ticks_in_array

\* Every valid start is a multiple of the array width, also the one below
\* the lowest tick, and hence of the tick spacing.
LEMMA StartIsMultiple ==
  ASSUME NEW s \in StartTicks
  PROVE  /\ s \in Int /\ s <= MAX_TICK_INDEX
         /\ \E m \in Int : s = tick_spacing * m
<1> DEFINE W == ticks_in_array
<1>1. /\ W \in Nat \ {0} /\ s \in Int /\ s <= MAX_TICK_INDEX
      /\ check_is_valid_start_tick(s)
      /\ MIN_TICK_INDEX \in Int
  BY ArrayWidth, TickAssumption DEF StartTicks
<1>2. \E m \in Int : s = W * m
  <2>1. CASE s \in TickIndex
    <3>1. s % W = 0
      BY <1>1, <2>1 DEF check_is_valid_start_tick
    <3>2. s = W * (s \div W) /\ s \div W \in Int
      BY <1>1, <3>1, DivMod
    <3> QED BY <3>2
  <2>2. CASE s \notin TickIndex
    <3> DEFINE d == TruncDiv(MIN_TICK_INDEX, W)
    <3>1. d \in Int
      BY <1>1, DivMod DEF TruncDiv
    <3> HIDE DEF d
    <3>2. s = MIN_TICK_INDEX - ((MIN_TICK_INDEX - W * d) + W)
      BY <1>1, <2>2 DEF check_is_valid_start_tick, TruncRem, d
    <3>3. s = W * (d - 1) /\ d - 1 \in Int
      BY <1>1, <3>1, <3>2
    <3> QED BY <3>3
  <2> QED BY <2>1, <2>2
<1>3. PICK m \in Int : s = W * m
  BY <1>2
<1>4. s = tick_spacing * (TICK_ARRAY_SIZE * m) /\ TICK_ARRAY_SIZE * m \in Int
  BY <1>3, TickAssumption DEF ticks_in_array
<1> QED BY <1>1, <1>4

\* The slots of an array are in the order of their ticks.
LEMMA OffsetOrder ==
  ASSUME NEW s \in StartTicks, NEW u \in UsableTicks, NEW t \in Int
  PROVE  tick_offset(s, u) <= tick_offset(s, t) <=> u <= t
<1>1. PICK m \in Int : s = tick_spacing * m
  BY StartIsMultiple
<1>2. u \in Int /\ u % tick_spacing = 0 /\ tick_spacing \in Nat \ {0}
  BY TickAssumption DEF UsableTicks, check_is_usable_tick, TickIndex
<1>3. u = tick_spacing * (u \div tick_spacing) /\ u \div tick_spacing \in Int
  BY <1>2, DivMod
<1> DEFINE j == (u \div tick_spacing) - m
<1>4. j \in Int /\ u - s = tick_spacing * j /\ t - s \in Int /\ s \in Int
  BY <1>1, <1>2, <1>3
<1> HIDE DEF j
<1>5. (tick_spacing * j) \div tick_spacing = j
  BY <1>2, <1>4
<1>6. tick_offset(s, u) = j
  BY <1>4, <1>5 DEF tick_offset
<1>7. j <= (t - s) \div tick_spacing <=> tick_spacing * j <= t - s
  BY <1>2, <1>4, DivAdjoint
<1> QED BY <1>2, <1>4, <1>6, <1>7 DEF tick_offset

\* What the search of one array can return.
LEMMA SearchHitsAre ==
  ASSUME NEW s \in StartTicks, NEW t \in Int, NEW a_to_b \in BOOLEAN,
         NEW initialized \in SUBSET UsableTicks, NEW u
  PROVE  u \in SearchHits(s, t, a_to_b, initialized) <=>
            /\ u \in initialized
            /\ s <= u /\ u < s + ticks_in_array
            /\ IF a_to_b THEN u <= t ELSE t < u
<1>1. ASSUME u \in initialized
      PROVE  /\ tick_offset(s, u) <= tick_offset(s, t) <=> u <= t
             /\ tick_offset(s, u) > tick_offset(s, t) <=> t < u
             /\ check_in_array_bounds(s, u) <=>
                   s <= u /\ u < s + ticks_in_array
  <2>1. u \in UsableTicks /\ u \in Int /\ s \in Int
    BY <1>1, StartIsMultiple, TickAssumption
    DEF UsableTicks, check_is_usable_tick, TickIndex
  <2>2. tick_offset(s, u) <= tick_offset(s, t) <=> u <= t
    BY <2>1, OffsetOrder
  <2>3. tick_offset(s, u) \in Int /\ tick_offset(s, t) \in Int
    BY <2>1, TickAssumption, DivMod DEF tick_offset
  <2>4. check_in_array_bounds(s, u) <=> s <= u /\ u < s + ticks_in_array
    BY <2>1, ArrayWidth DEF check_in_array_bounds, in_search_range
  <2> QED BY <2>1, <2>2, <2>3, <2>4
<1> QED BY <1>1 DEF SearchHits

\* Usable ticks right of the last slot before an array are in the array.
LEMMA UsableGap ==
  ASSUME NEW s \in StartTicks, NEW u \in UsableTicks, u > s - tick_spacing
  PROVE  s <= u
<1>1. PICK m \in Int : s = tick_spacing * m
  BY StartIsMultiple
<1>2. u \in Int /\ u % tick_spacing = 0 /\ tick_spacing \in Nat \ {0}
  BY TickAssumption DEF UsableTicks, check_is_usable_tick, TickIndex
<1> DEFINE j == u \div tick_spacing
<1>3. u = tick_spacing * j /\ j \in Int
  BY <1>2, DivMod
<1> HIDE DEF j
<1>4. CASE j <= m - 1
  <2>1. tick_spacing * j <= tick_spacing * (m - 1)
    BY <1>2, <1>3, <1>4, MultMonotone
  <2>2. tick_spacing * (m - 1) = tick_spacing * m - tick_spacing
    BY <1>2
  <2> QED BY <1>1, <1>2, <1>3, <2>1, <2>2
<1>5. CASE m <= j
  BY <1>1, <1>2, <1>3, <1>5, MultMonotone
<1> QED BY <1>3, <1>4, <1>5

-----------------------------------------------------------------------------
\* What a caller can pass to the search, and what it may then return.
Searched(arrays, i, t, a_to_b, initialized, k, next) ==
    /\ \E n \in 1 .. 3 : arrays \in [1 .. n -> StartTicks]
    /\ i \in 1 .. 4
    /\ t \in (MIN_TICK_INDEX - 1) .. MAX_TICK_INDEX
    /\ initialized \in SUBSET UsableTicks
    /\ next \in TickIndex
    /\ get_next_initialized_tick_index(arrays, i, t, a_to_b, initialized, k, next)

\* The search of a swap down returns a tick at or left of the current one,
\* with no initialized tick in between, and finds it in the array it names.
LEMMA SearchLeft ==
  ASSUME NEW arrays, NEW i, NEW t, NEW initialized, NEW k, NEW next,
         Searched(arrays, i, t, TRUE, initialized, k, next),
         t >= MIN_TICK_INDEX
  PROVE  /\ next <= t
         /\ \A u \in initialized : u <= t => u <= next
         /\ next \in initialized => check_in_array_bounds(arrays[k], next)
         /\ k \in 1 .. 3 /\ arrays[k] \in StartTicks
<1> DEFINE W == ticks_in_array
           idx(j) == SearchIndex(arrays, i, t, TRUE, j)
           Hits(j) == SearchHits(arrays[j], idx(j), TRUE, initialized)
<1>1. PICK n \in 1 .. 3 : arrays \in [1 .. n -> StartTicks]
  BY DEF Searched
<1>2. /\ i \in 1 .. 4 /\ k \in 1 .. n /\ k >= i
      /\ t \in Int /\ t >= MIN_TICK_INDEX /\ t <= MAX_TICK_INDEX
      /\ next \in Int /\ next >= MIN_TICK_INDEX /\ next <= MAX_TICK_INDEX
      /\ MIN_TICK_INDEX \in Int /\ MAX_TICK_INDEX \in Int
      /\ W \in Nat \ {0}
      /\ initialized \in SUBSET UsableTicks
      /\ \A u \in initialized : u \in Int /\ u >= MIN_TICK_INDEX
  BY <1>1, TickAssumption, ArrayWidth
  DEF Searched, TickIndex, get_next_initialized_tick_index, UsableTicks,
      check_is_usable_tick
<1>3. /\ \A j \in 1 .. n : arrays[j] \in StartTicks /\ arrays[j] \in Int
      /\ idx(i) = t
      /\ \A j \in i + 1 .. k : idx(j) = arrays[j - 1] - 1
  BY <1>1, <1>2, StartIsMultiple DEF SearchIndex
<1>4. ASSUME NEW j \in i .. k
      PROVE  arrays[j] <= idx(j) /\ idx(j) < arrays[j] + W /\ idx(j) \in Int
  <2>1. in_search_range(arrays[j], idx(j), FALSE)
    BY DEF Searched, get_next_initialized_tick_index
  <2> HIDE DEF idx
  <2>2. idx(j) \in Int
    <3>1. CASE j = i
      BY <1>2, <1>3, <3>1
    <3>2. CASE j # i
      <4>1. j \in i + 1 .. k /\ j - 1 \in 1 .. n
        BY <1>2, <3>2
      <4> QED BY <1>3, <4>1
    <3> QED BY <3>1, <3>2
  <2>3. arrays[j] \in Int
    BY <1>2, <1>3
  <2> QED BY <1>2, <2>1, <2>2, <2>3 DEF in_search_range
<1>5. ASSUME NEW j \in i .. k - 1
      PROVE  Hits(j) = {} /\ arrays[j] > MIN_TICK_INDEX
  <2>1. Hits(j) = {} /\ ~AtEdge(arrays[j], TRUE)
    BY <1>5 DEF Searched, get_next_initialized_tick_index
  <2> HIDE DEF idx, Hits
  <2>2. j \in 1 .. n /\ arrays[j] \in Int
    BY <1>2, <1>3, <1>5
  <2> QED BY <1>2, <2>1, <2>2 DEF AtEdge, is_min_tick_array
<1>6. \/ next \in Hits(k) /\ \A u \in Hits(k) : u <= next
      \/ /\ Hits(k) = {}
         /\ next = IF arrays[k] <= MIN_TICK_INDEX THEN MIN_TICK_INDEX
                   ELSE arrays[k]
  BY DEF Searched, get_next_initialized_tick_index, NextInitTick,
         FallbackTick, is_min_tick_array
<1>7. ASSUME NEW j \in i .. k, NEW u
      PROVE  u \in Hits(j) <=>
                u \in initialized /\ arrays[j] <= u /\ u <= idx(j)
  <2> HIDE DEF idx
  <2>1. arrays[j] \in StartTicks /\ idx(j) \in Int /\ TRUE \in BOOLEAN
        /\ arrays[j] \in Int /\ idx(j) < arrays[j] + W
    BY <1>2, <1>3, <1>4
  <2>2. u \in Hits(j) <=> /\ u \in initialized
                          /\ arrays[j] <= u /\ u < arrays[j] + W
                          /\ u <= idx(j)
    BY <1>2, <2>1, SearchHitsAre
  <2>3. u \in initialized => u \in Int
    BY <1>2
  <2> HIDE DEF Hits
  <2> QED BY <1>2, <2>1, <2>2, <2>3
<1> HIDE DEF idx, Hits, W
<1>8. idx(k) <= t /\ idx(k) >= MIN_TICK_INDEX
  <2>1. CASE k = i
    BY <1>2, <1>3, <2>1
  <2>2. CASE k = i + 1
    <3>1. idx(k) = arrays[i] - 1 /\ arrays[i] <= t /\ arrays[i] > MIN_TICK_INDEX
          /\ arrays[i] \in Int
      BY <1>2, <1>3, <1>4, <1>5, <2>2
    <3> QED BY <1>2, <3>1
  <2>3. CASE k = i + 2
    <3>1. /\ idx(k) = arrays[i + 1] - 1 /\ arrays[i + 1] <= idx(i + 1)
          /\ idx(i + 1) = arrays[i] - 1 /\ arrays[i] <= t
          /\ arrays[i + 1] > MIN_TICK_INDEX
          /\ arrays[i] \in Int /\ arrays[i + 1] \in Int
      BY <1>2, <1>3, <1>4, <1>5, <2>3
    <3> QED BY <1>2, <3>1
  <2> QED BY <1>2, <2>1, <2>2, <2>3
<1>9. /\ arrays[k] \in Int /\ arrays[k] \in StartTicks
      /\ arrays[k] <= idx(k) /\ idx(k) < arrays[k] + W /\ idx(k) \in Int
  BY <1>2, <1>3, <1>4
<1>10. /\ \/ arrays[k] <= next
          \/ next = MIN_TICK_INDEX /\ arrays[k] <= MIN_TICK_INDEX
       /\ next <= idx(k)
  BY <1>2, <1>6, <1>7, <1>8, <1>9
<1>11. next <= t
  BY <1>2, <1>8, <1>9, <1>10
<1>12. ASSUME NEW u \in initialized, u <= t, u > next PROVE FALSE
  <2>1. u \in Int /\ u >= MIN_TICK_INDEX
    BY <1>2
  <2>2. CASE u <= idx(k)
    <3>1. u \in Hits(k)
      BY <1>2, <1>7, <1>9, <1>10, <1>12, <2>1, <2>2
    <3> QED BY <1>2, <1>6, <1>12, <2>1, <3>1
  <2>3. CASE u > idx(k)
    <3>1. k > i
      BY <1>2, <1>3, <1>12, <2>1, <2>3
    <3>2. idx(k) = arrays[k - 1] - 1 /\ k - 1 \in i .. k - 1 /\ k - 1 \in i .. k
          /\ arrays[k - 1] \in Int /\ idx(k - 1) \in Int
      BY <1>2, <1>3, <1>4, <3>1
    <3>3. u >= arrays[k - 1]
      BY <1>9, <2>1, <2>3, <3>2
    <3>4. ~ (u <= idx(k - 1))
      BY <1>5, <1>7, <3>2, <3>3
    <3>5. k - 1 > i
      BY <1>2, <1>3, <1>12, <2>1, <3>1, <3>2, <3>4
    <3>6. i = 1 /\ k = 3
      BY <1>2, <3>5
    <3>7. /\ idx(2) = arrays[1] - 1 /\ idx(1) = t /\ arrays[1] \in Int
          /\ 1 \in i .. k - 1 /\ 1 \in i .. k /\ k - 1 = 2
      BY <1>1, <1>2, <1>3, <3>6
    <3>8. u >= arrays[1]
      BY <2>1, <3>2, <3>4, <3>7
    <3> QED BY <1>5, <1>7, <1>12, <3>7, <3>8
  <2> QED BY <1>9, <2>1, <2>2, <2>3
<1>13. arrays[k] <= next /\ next < arrays[k] + W
  BY <1>2, <1>8, <1>9, <1>10
<1>14. check_in_array_bounds(arrays[k], next)
  BY <1>2, <1>9, <1>13 DEF check_in_array_bounds, in_search_range, W
<1>15. \A u \in initialized : u <= t => u <= next
  BY <1>2, <1>12
<1>16. k \in 1 .. 3
  BY <1>1, <1>2
<1> QED BY <1>9, <1>11, <1>14, <1>15, <1>16

\* The search of a swap up returns a tick right of the current one, with no
\* initialized tick in between, and finds it in the array it names.
LEMMA SearchRight ==
  ASSUME NEW arrays, NEW i, NEW t, NEW initialized, NEW k, NEW next,
         Searched(arrays, i, t, FALSE, initialized, k, next),
         t < MAX_TICK_INDEX
  PROVE  /\ t < next
         /\ \A u \in initialized : t < u => next <= u
         /\ next \in initialized => check_in_array_bounds(arrays[k], next)
         /\ k \in 1 .. 3 /\ arrays[k] \in StartTicks
<1> DEFINE W == ticks_in_array
           idx(j) == SearchIndex(arrays, i, t, FALSE, j)
           Hits(j) == SearchHits(arrays[j], idx(j), FALSE, initialized)
<1>1. PICK n \in 1 .. 3 : arrays \in [1 .. n -> StartTicks]
  BY DEF Searched
<1>2. /\ i \in 1 .. 4 /\ k \in 1 .. n /\ k >= i
      /\ t \in Int /\ t < MAX_TICK_INDEX
      /\ next \in Int /\ next <= MAX_TICK_INDEX
      /\ MIN_TICK_INDEX \in Int /\ MAX_TICK_INDEX \in Int
      /\ W \in Nat \ {0} /\ W >= tick_spacing /\ tick_spacing \in Nat \ {0}
      /\ initialized \in SUBSET UsableTicks
      /\ \A u \in initialized : u \in Int /\ u <= MAX_TICK_INDEX
  BY <1>1, TickAssumption, ArrayWidth
  DEF Searched, TickIndex, get_next_initialized_tick_index, UsableTicks,
      check_is_usable_tick
<1>3. /\ \A j \in 1 .. n : /\ arrays[j] \in StartTicks /\ arrays[j] \in Int
                           /\ arrays[j] <= MAX_TICK_INDEX
      /\ idx(i) = t
      /\ \A j \in i + 1 .. k : idx(j) = arrays[j - 1] + W - 1
  BY <1>1, <1>2, StartIsMultiple DEF SearchIndex
<1>4. ASSUME NEW j \in i .. k
      PROVE  /\ arrays[j] - tick_spacing <= idx(j)
             /\ idx(j) < arrays[j] + W - tick_spacing
             /\ idx(j) \in Int
  <2>1. in_search_range(arrays[j], idx(j), TRUE)
    BY DEF Searched, get_next_initialized_tick_index
  <2> HIDE DEF idx
  <2>2. idx(j) \in Int
    <3>1. CASE j = i
      BY <1>2, <1>3, <3>1
    <3>2. CASE j # i
      <4>1. j \in i + 1 .. k /\ j - 1 \in 1 .. n
        BY <1>2, <3>2
      <4> QED BY <1>2, <1>3, <4>1
    <3> QED BY <3>1, <3>2
  <2>3. arrays[j] \in Int
    BY <1>2, <1>3
  <2> QED BY <1>2, <2>1, <2>2, <2>3 DEF in_search_range
<1>5. \A j \in i .. k - 1 : Hits(j) = {}
  BY DEF Searched, get_next_initialized_tick_index
<1>6. \/ next \in Hits(k) /\ \A u \in Hits(k) : next <= u
      \/ /\ Hits(k) = {}
         /\ next = IF arrays[k] + W > MAX_TICK_INDEX THEN MAX_TICK_INDEX
                   ELSE arrays[k] + W - 1
  BY DEF Searched, get_next_initialized_tick_index, NextInitTick,
         FallbackTick, is_max_tick_array
<1>7. ASSUME NEW j \in i .. k, NEW u
      PROVE  u \in Hits(j) <=>
                u \in initialized /\ u < arrays[j] + W /\ idx(j) < u
  <2> HIDE DEF idx
  <2>1. arrays[j] \in StartTicks /\ idx(j) \in Int /\ FALSE \in BOOLEAN
        /\ arrays[j] \in Int /\ arrays[j] - tick_spacing <= idx(j)
    BY <1>2, <1>3, <1>4
  <2>2. u \in Hits(j) <=> /\ u \in initialized
                          /\ arrays[j] <= u /\ u < arrays[j] + W
                          /\ idx(j) < u
    BY <1>2, <2>1, SearchHitsAre
  <2>3. u \in initialized /\ idx(j) < u => arrays[j] <= u
    <3>1. ASSUME u \in initialized, idx(j) < u
          PROVE  u \in UsableTicks /\ u > arrays[j] - tick_spacing
      BY <1>2, <2>1, <3>1
    <3> QED BY <2>1, <3>1, UsableGap
  <2> HIDE DEF Hits
  <2> QED BY <2>2, <2>3
<1> HIDE DEF idx, Hits, W
<1>8. t <= idx(k)
  <2>1. CASE k = i
    BY <1>2, <1>3, <2>1
  <2>2. CASE k = i + 1
    <3>1. idx(k) = arrays[i] + W - 1 /\ t < arrays[i] + W - tick_spacing
          /\ arrays[i] \in Int
      BY <1>2, <1>3, <1>4, <2>2
    <3> QED BY <1>2, <3>1
  <2>3. CASE k = i + 2
    <3>1. /\ idx(k) = arrays[i + 1] + W - 1
          /\ idx(i + 1) < arrays[i + 1] + W - tick_spacing
          /\ idx(i + 1) = arrays[i] + W - 1
          /\ t < arrays[i] + W - tick_spacing
          /\ arrays[i] \in Int /\ arrays[i + 1] \in Int
      BY <1>2, <1>3, <1>4, <2>3
    <3> QED BY <1>2, <3>1
  <2> QED BY <1>2, <2>1, <2>2, <2>3
<1>9. /\ arrays[k] \in Int /\ arrays[k] \in StartTicks
      /\ arrays[k] <= MAX_TICK_INDEX
      /\ arrays[k] - tick_spacing <= idx(k)
      /\ idx(k) < arrays[k] + W - tick_spacing /\ idx(k) \in Int
  BY <1>2, <1>3, <1>4
<1>10. t < next /\ next < arrays[k] + W
  BY <1>2, <1>6, <1>7, <1>8, <1>9
<1>11. ASSUME NEW u \in initialized, t < u, u < next PROVE FALSE
  <2>1. u \in Int
    BY <1>2
  <2>2. CASE idx(k) < u
    <3>1. u \in Hits(k)
      BY <1>2, <1>7, <1>9, <1>10, <1>11, <2>1, <2>2
    <3> QED BY <1>2, <1>6, <1>11, <2>1, <3>1
  <2>3. CASE u <= idx(k)
    <3>1. k > i
      BY <1>2, <1>3, <1>11, <2>1, <2>3
    <3>2. idx(k) = arrays[k - 1] + W - 1 /\ k - 1 \in i .. k - 1
          /\ k - 1 \in i .. k
          /\ arrays[k - 1] \in Int /\ idx(k - 1) \in Int
      BY <1>2, <1>3, <1>4, <3>1
    <3>3. u < arrays[k - 1] + W
      BY <1>2, <2>1, <2>3, <3>2
    <3>4. ~ (idx(k - 1) < u)
      BY <1>5, <1>7, <3>2, <3>3
    <3>5. k - 1 > i
      BY <1>2, <1>3, <1>11, <2>1, <3>1, <3>2, <3>4
    <3>6. i = 1 /\ k = 3
      BY <1>2, <3>5
    <3>7. /\ idx(2) = arrays[1] + W - 1 /\ idx(1) = t /\ arrays[1] \in Int
          /\ 1 \in i .. k - 1 /\ 1 \in i .. k /\ k - 1 = 2
      BY <1>1, <1>2, <1>3, <3>6
    <3>8. u < arrays[1] + W
      BY <1>2, <2>1, <3>2, <3>4, <3>7
    <3> QED BY <1>5, <1>7, <1>11, <3>7, <3>8
  <2> QED BY <1>9, <2>1, <2>2, <2>3
<1>12. ASSUME next \in initialized
       PROVE  check_in_array_bounds(arrays[k], next)
  <2>1. next > arrays[k] - tick_spacing \/ arrays[k] <= next
    BY <1>2, <1>6, <1>7, <1>9
  <2>2. arrays[k] <= next
    BY <1>2, <1>9, <1>12, <2>1, UsableGap
  <2> QED BY <1>2, <1>9, <1>10, <2>2
          DEF check_in_array_bounds, in_search_range, W
<1>13. \A u \in initialized : t < u => next <= u
  BY <1>2, <1>11
<1>14. k \in 1 .. 3
  BY <1>1, <1>2
<1> QED BY <1>9, <1>10, <1>12, <1>13, <1>14

-----------------------------------------------------------------------------
\* Sums over positions.

Accounts == {accounts \in [PositionId -> Position] :
                \A p \in PositionId :
                    accounts[p].tick_lower_index <= accounts[p].tick_upper_index}

\* U128 values are naturals.
LEMMA U128Nat ==
  U128 \in SUBSET Nat /\ MAX_U128 \in Nat /\ MAX_I128 \in Nat
BY LiquidityAssumption DEF U128

\* Ticks are integers.
LEMMA TickInts ==
  /\ TickIndex \in SUBSET Int /\ UsableTicks \in SUBSET TickIndex
  /\ StartTicks \in SUBSET Int /\ CurrentTick \in SUBSET Int
  /\ MIN_TICK_INDEX \in TickIndex /\ MAX_TICK_INDEX \in TickIndex
BY TickAssumption, StartIsMultiple
DEF TickIndex, UsableTicks, check_is_usable_tick, CurrentTick

\* The fields of a position are integers.
LEMMA PositionTypes ==
  ASSUME NEW a \in [PositionId -> Position], NEW p \in PositionId
  PROVE  /\ a[p].tick_lower_index \in Int /\ a[p].tick_lower_index \in TickIndex
         /\ a[p].tick_upper_index \in Int /\ a[p].tick_upper_index \in TickIndex
         /\ a[p].liquidity \in Int /\ a[p].liquidity \in Nat
         /\ a[p].liquidity \in U128
<1>1. a[p] \in Position
  OBVIOUS
<1>2. /\ a[p].tick_lower_index \in TickIndex /\ a[p].tick_upper_index \in TickIndex
      /\ a[p].liquidity \in U128
  BY <1>1 DEF Position
<1>3. /\ TickIndex \in SUBSET Int /\ U128 \in SUBSET Nat
  BY TickInts, U128Nat
<1>4. \A n \in Nat : n \in Int
  OBVIOUS
<1> QED BY <1>2, <1>3, <1>4, Zenon

\* Every contribution is a function to the naturals.
LEMMA ContributionTypes ==
  ASSUME NEW a \in [PositionId -> Position], NEW t \in Int
  PROVE  /\ Entering(a, t) \in [1 .. N -> Nat]
         /\ Leaving(a, t) \in [1 .. N -> Nat]
         /\ ActiveAt(a, t) \in [1 .. N -> Nat]
         /\ LiquidityOf(a) \in [1 .. N -> Nat]
BY U128Nat DEF PositionId, Position, Entering, Leaving, ActiveAt, LiquidityOf

\* Such functions are integer functions too, as the lemmas of sums want them.
LEMMA ContributionInts ==
  ASSUME NEW a \in [PositionId -> Position], NEW t \in Int
  PROVE  /\ Entering(a, t) \in [1 .. N -> Int]
         /\ Leaving(a, t) \in [1 .. N -> Int]
         /\ ActiveAt(a, t) \in [1 .. N -> Int]
         /\ LiquidityOf(a) \in [1 .. N -> Int]
         /\ Total(Entering(a, t)) \in Nat
         /\ Total(Leaving(a, t)) \in Nat
         /\ Total(ActiveAt(a, t)) \in Nat
         /\ Total(LiquidityOf(a)) \in Nat
BY ContributionTypes, TotalNat

\* b is a with delta added to the liquidity of position p.
Modifies(a, b, p, delta) ==
    /\ a \in [PositionId -> Position] /\ b \in [PositionId -> Position]
    /\ p \in PositionId /\ delta \in Int
    /\ b = [a EXCEPT ![p].liquidity = @ + delta]

\* A change to the liquidity of one position changes the sums it is part of.
LEMMA ContributionUpdate ==
  ASSUME NEW a, NEW b, NEW p, NEW delta, NEW t \in Int, Modifies(a, b, p, delta)
  PROVE  /\ Total(LiquidityOf(b)) = Total(LiquidityOf(a)) + delta
         /\ Total(Entering(b, t)) = Total(Entering(a, t))
               + IF a[p].tick_lower_index = t THEN delta ELSE 0
         /\ Total(Leaving(b, t)) = Total(Leaving(a, t))
               + IF a[p].tick_upper_index = t THEN delta ELSE 0
         /\ Total(ActiveAt(b, t)) = Total(ActiveAt(a, t))
               + IF a[p].tick_lower_index <= t /\ t < a[p].tick_upper_index
                 THEN delta ELSE 0
<1> USE DEF Modifies
<1>1. /\ b[p].tick_lower_index = a[p].tick_lower_index
      /\ b[p].tick_upper_index = a[p].tick_upper_index
      /\ b[p].liquidity = a[p].liquidity + delta
      /\ a[p].liquidity \in Int
      /\ \A q \in PositionId \ {p} : b[q] = a[q]
  BY U128Nat DEF Position
<1>2. p \in 1 .. N
  BY DEF PositionId
<1>3. Total(LiquidityOf(b)) = Total(LiquidityOf(a)) + delta
  <2> DEFINE h == LiquidityOf(a)
             k == LiquidityOf(b)
             d == delta
  <2>1. d \in Int
    OBVIOUS
  <2>2. h \in [1 .. N -> Int] /\ k \in [1 .. N -> Int]
    BY ContributionInts, Zenon
  <2>3. k[p] = h[p] + d /\ \A q \in (1 .. N) \ {p} : k[q] = h[q]
    BY <1>1, <1>2 DEF LiquidityOf, PositionId
  <2> HIDE DEF h, k, d
  <2>4. Updates(h, k, p, d)
    BY <1>2, <2>1, <2>2, <2>3, Zenon DEF Updates
  <2>5. Total(k) = Total(h) + d
    BY <2>4, TotalUpdate
  <2> QED BY <2>5 DEF h, k, d
<1>4. Total(Entering(b, t)) = Total(Entering(a, t))
         + (IF a[p].tick_lower_index = t THEN delta ELSE 0)
  <2> DEFINE h == Entering(a, t)
             k == Entering(b, t)
             d == (IF a[p].tick_lower_index = t THEN delta ELSE 0)
  <2>1. d \in Int
    OBVIOUS
  <2>2. h \in [1 .. N -> Int] /\ k \in [1 .. N -> Int]
    BY ContributionInts, Zenon
  <2>3. k[p] = h[p] + d /\ \A q \in (1 .. N) \ {p} : k[q] = h[q]
    BY <1>1, <1>2 DEF Entering, PositionId
  <2> HIDE DEF h, k, d
  <2>4. Updates(h, k, p, d)
    BY <1>2, <2>1, <2>2, <2>3, Zenon DEF Updates
  <2>5. Total(k) = Total(h) + d
    BY <2>4, TotalUpdate
  <2> QED BY <2>5 DEF h, k, d
<1>5. Total(Leaving(b, t)) = Total(Leaving(a, t))
         + (IF a[p].tick_upper_index = t THEN delta ELSE 0)
  <2> DEFINE h == Leaving(a, t)
             k == Leaving(b, t)
             d == (IF a[p].tick_upper_index = t THEN delta ELSE 0)
  <2>1. d \in Int
    OBVIOUS
  <2>2. h \in [1 .. N -> Int] /\ k \in [1 .. N -> Int]
    BY ContributionInts, Zenon
  <2>3. k[p] = h[p] + d /\ \A q \in (1 .. N) \ {p} : k[q] = h[q]
    BY <1>1, <1>2 DEF Leaving, PositionId
  <2> HIDE DEF h, k, d
  <2>4. Updates(h, k, p, d)
    BY <1>2, <2>1, <2>2, <2>3, Zenon DEF Updates
  <2>5. Total(k) = Total(h) + d
    BY <2>4, TotalUpdate
  <2> QED BY <2>5 DEF h, k, d
<1>6. Total(ActiveAt(b, t)) = Total(ActiveAt(a, t))
         + (IF a[p].tick_lower_index <= t /\ t < a[p].tick_upper_index
            THEN delta ELSE 0)
  <2> DEFINE h == ActiveAt(a, t)
             k == ActiveAt(b, t)
             d == (IF a[p].tick_lower_index <= t /\ t < a[p].tick_upper_index
            THEN delta ELSE 0)
  <2>1. d \in Int
    OBVIOUS
  <2>2. h \in [1 .. N -> Int] /\ k \in [1 .. N -> Int]
    BY ContributionInts, Zenon
  <2>3. k[p] = h[p] + d /\ \A q \in (1 .. N) \ {p} : k[q] = h[q]
    BY <1>1, <1>2 DEF ActiveAt, PositionId
  <2> HIDE DEF h, k, d
  <2>4. Updates(h, k, p, d)
    BY <1>2, <2>1, <2>2, <2>3, Zenon DEF Updates
  <2>5. Total(k) = Total(h) + d
    BY <2>4, TotalUpdate
  <2> QED BY <2>5 DEF h, k, d
<1> QED BY <1>3, <1>4, <1>5, <1>6

\* Opening or closing a position, which holds no liquidity, changes no sum.
LEMMA ContributionSame ==
  ASSUME NEW a \in [PositionId -> Position], NEW b \in [PositionId -> Position],
         NEW p \in PositionId, NEW t \in Int,
         a[p].liquidity = 0, b[p].liquidity = 0,
         \A q \in PositionId \ {p} : b[q] = a[q]
  PROVE  /\ LiquidityOf(b) = LiquidityOf(a)
         /\ Entering(b, t) = Entering(a, t)
         /\ Leaving(b, t) = Leaving(a, t)
         /\ ActiveAt(b, t) = ActiveAt(a, t)
BY DEF LiquidityOf, Entering, Leaving, ActiveAt

\* The active liquidity changes across a tick by what enters there less what
\* leaves there.
LEMMA ActiveStep ==
  ASSUME NEW a \in Accounts, NEW t \in Int
  PROVE  Total(ActiveAt(a, t)) - Total(ActiveAt(a, t - 1))
            = Total(Entering(a, t)) - Total(Leaving(a, t))
<1>1. a \in [PositionId -> Position] /\ t - 1 \in Int
  BY DEF Accounts
<1>2. ASSUME NEW p \in 1 .. N
      PROVE  ActiveAt(a, t)[p] - ActiveAt(a, t - 1)[p]
                = Entering(a, t)[p] - Leaving(a, t)[p]
  <2>1. /\ a[p].tick_lower_index \in Int /\ a[p].tick_upper_index \in Int
        /\ a[p].liquidity \in Int
        /\ a[p].tick_lower_index <= a[p].tick_upper_index
    BY <1>1, PositionTypes DEF Accounts, PositionId
  <2> QED BY <2>1 DEF ActiveAt, Entering, Leaving, PositionId
<1> DEFINE h == ActiveAt(a, t)
           k == ActiveAt(a, t - 1)
           e == Entering(a, t)
           l == Leaving(a, t)
<1>3. /\ h \in [1 .. N -> Int] /\ k \in [1 .. N -> Int]
      /\ e \in [1 .. N -> Int] /\ l \in [1 .. N -> Int]
  BY <1>1, ContributionInts
<1>4. \A p \in 1 .. N : h[p] - k[p] = e[p] - l[p]
  BY <1>2
<1> HIDE DEF h, k, e, l
<1>5. DiffersAs(h, k, e, l)
  BY <1>3, <1>4 DEF DiffersAs
<1>6. Total(h) - Total(k) = Total(e) - Total(l)
  BY <1>5, TotalLinear
<1> QED BY <1>6 DEF h, k, e, l

\* The active liquidity is the same from tick t to tick u when no position
\* with liquidity begins or ends after t and up to u.
LEMMA ActiveConstant ==
  ASSUME NEW a \in [PositionId -> Position], NEW t \in Int, NEW u \in Int, t <= u,
         \A p \in PositionId :
            a[p].liquidity > 0 =>
               /\ ~(t < a[p].tick_lower_index /\ a[p].tick_lower_index <= u)
               /\ ~(t < a[p].tick_upper_index /\ a[p].tick_upper_index <= u)
  PROVE  ActiveAt(a, t) = ActiveAt(a, u)
<1>1. ASSUME NEW p \in PositionId
      PROVE  (IF a[p].tick_lower_index <= t /\ t < a[p].tick_upper_index
              THEN a[p].liquidity ELSE 0)
              = IF a[p].tick_lower_index <= u /\ u < a[p].tick_upper_index
                THEN a[p].liquidity ELSE 0
  <2>1. /\ a[p].tick_lower_index \in Int /\ a[p].tick_upper_index \in Int
        /\ a[p].liquidity \in Nat
    BY PositionTypes
  <2>2. CASE a[p].liquidity = 0
    BY <2>1, <2>2
  <2>3. CASE a[p].liquidity > 0
    BY <2>1, <2>3
  <2> QED BY <2>1, <2>2, <2>3
<1> QED BY <1>1 DEF ActiveAt

\* No sum exceeds the liquidity of all positions together, nor is less than
\* what one position adds to it.
LEMMA ContributionBounds ==
  ASSUME NEW a \in [PositionId -> Position], NEW t \in Int
  PROVE  /\ Total(Entering(a, t)) <= Total(LiquidityOf(a))
         /\ Total(Leaving(a, t)) <= Total(LiquidityOf(a))
         /\ Total(ActiveAt(a, t)) <= Total(LiquidityOf(a))
         /\ \A p \in PositionId :
               /\ Entering(a, t)[p] <= Total(Entering(a, t))
               /\ Leaving(a, t)[p] <= Total(Leaving(a, t))
               /\ ActiveAt(a, t)[p] <= Total(ActiveAt(a, t))
               /\ a[p].liquidity <= Total(LiquidityOf(a))
<1>1. ASSUME NEW p \in 1 .. N
      PROVE  /\ Entering(a, t)[p] <= LiquidityOf(a)[p]
             /\ Leaving(a, t)[p] <= LiquidityOf(a)[p]
             /\ ActiveAt(a, t)[p] <= LiquidityOf(a)[p]
  <2>1. a[p].liquidity \in Nat
    BY U128Nat DEF PositionId, Position
  <2> QED BY <2>1 DEF Entering, Leaving, ActiveAt, LiquidityOf, PositionId
<1>2. /\ Total(Entering(a, t)) <= Total(LiquidityOf(a))
      /\ Total(Leaving(a, t)) <= Total(LiquidityOf(a))
      /\ Total(ActiveAt(a, t)) <= Total(LiquidityOf(a))
  BY <1>1, TotalMonotone, ContributionInts
<1>3. ASSUME NEW p \in PositionId
      PROVE  /\ Entering(a, t)[p] <= Total(Entering(a, t))
             /\ Leaving(a, t)[p] <= Total(Leaving(a, t))
             /\ ActiveAt(a, t)[p] <= Total(ActiveAt(a, t))
             /\ LiquidityOf(a)[p] <= Total(LiquidityOf(a))
  BY TotalMember, ContributionTypes DEF PositionId
<1>4. \A p \in PositionId : LiquidityOf(a)[p] = a[p].liquidity
  BY DEF LiquidityOf
<1> QED BY <1>2, <1>3, <1>4

-----------------------------------------------------------------------------
\* Prices.

\* Prices are naturals, and grow with the ticks.
LEMMA PriceMonotone ==
  /\ \A t \in TickIndex : sqrt_price_from_tick_index[t] \in Nat
  /\ \A t, u \in TickIndex :
        /\ t <= u => sqrt_price_from_tick_index[t] <= sqrt_price_from_tick_index[u]
        /\ t < u => sqrt_price_from_tick_index[t] < sqrt_price_from_tick_index[u]
  /\ SqrtPrice \in SUBSET Nat
<1>1. /\ \A t \in TickIndex : sqrt_price_from_tick_index[t] \in Nat
      /\ \A t, u \in TickIndex :
            t < u => sqrt_price_from_tick_index[t] < sqrt_price_from_tick_index[u]
  BY LiquidityAssumption
<1>2. ASSUME NEW t \in TickIndex, NEW u \in TickIndex, t <= u
      PROVE  sqrt_price_from_tick_index[t] <= sqrt_price_from_tick_index[u]
  <2>1. CASE t = u
    BY <1>1, <2>1
  <2>2. CASE t < u
    BY <1>1, <2>2
  <2> QED BY <1>2, <2>1, <2>2, TickInts
<1>3. SqrtPrice \in SUBSET Nat
  BY <1>1, TickInts DEF SqrtPrice, MIN_SQRT_PRICE, MAX_SQRT_PRICE
<1> QED BY <1>1, <1>2, <1>3

\* Every price between the lowest and the highest has a tick.
LEMMA TickOfPrice ==
  ASSUME NEW p \in SqrtPrice
  PROVE  LET t == tick_index_from_sqrt_price(p)
         IN  /\ t \in TickIndex
             /\ sqrt_price_from_tick_index[t] <= p
             /\ t < MAX_TICK_INDEX => p < sqrt_price_from_tick_index[t + 1]
<1> DEFINE P == sqrt_price_from_tick_index
           Below == {x \in Nat : /\ MAX_TICK_INDEX - x >= MIN_TICK_INDEX
                                 /\ P[MAX_TICK_INDEX - x] <= p}
<1>1. /\ MIN_TICK_INDEX \in Int /\ MAX_TICK_INDEX \in Int
      /\ MIN_TICK_INDEX < MAX_TICK_INDEX
      /\ \A t \in Int : t \in TickIndex <=>
            t >= MIN_TICK_INDEX /\ t <= MAX_TICK_INDEX
  BY TickAssumption DEF TickIndex
<1>2. p \in Nat /\ P[MIN_TICK_INDEX] <= p /\ \A t \in TickIndex : P[t] \in Nat
  BY PriceMonotone, TickInts DEF SqrtPrice, MIN_SQRT_PRICE, MAX_SQRT_PRICE
<1>3. MAX_TICK_INDEX - MIN_TICK_INDEX \in Below
  BY <1>1, <1>2
<1>4. PICK x \in Below : \A y \in Below : x <= y
  BY <1>3, LeastElement
<1> DEFINE t0 == MAX_TICK_INDEX - x
<1>5. t0 \in TickIndex /\ P[t0] <= p /\ t0 \in Int
  BY <1>1, <1>4
<1>6. ASSUME t0 < MAX_TICK_INDEX PROVE p < P[t0 + 1]
  <2>1. x - 1 \in Nat /\ x - 1 \notin Below
    BY <1>1, <1>4, <1>6
  <2>2. MAX_TICK_INDEX - (x - 1) = t0 + 1 /\ t0 + 1 \in TickIndex
    BY <1>1, <1>4, <1>5, <1>6
  <2>3. ~(P[t0 + 1] <= p)
    BY <1>1, <2>1, <2>2
  <2> QED BY <1>2, <2>2, <2>3
<1>7. \E t \in TickIndex : /\ P[t] <= p
                           /\ t < MAX_TICK_INDEX => p < P[t + 1]
  BY <1>5, <1>6
<1> QED BY <1>7 DEF tick_index_from_sqrt_price

-----------------------------------------------------------------------------
\* The inductive invariant.

\* A position is well formed, and its ticks are stored in one of the arrays
\* that start at starts while it has liquidity.
WellFormed(position, starts) ==
    /\ position.tick_lower_index <= position.tick_upper_index
    /\ position.open => /\ position.tick_lower_index \in UsableTicks
                        /\ position.tick_upper_index \in UsableTicks
                        /\ position.tick_lower_index < position.tick_upper_index
    /\ ~position.open => position.liquidity = 0
    /\ position.liquidity > 0 =>
          /\ \E s \in starts : check_in_array_bounds(s, position.tick_lower_index)
          /\ \E s \in starts : check_in_array_bounds(s, position.tick_upper_index)

PositionsOK == \A p \in PositionId : WellFormed(positions[p], tick_arrays)

\* Deposits stop at what the tokens can buy.
SupplyOK == Total(LiquidityOf(positions)) <= LiquiditySupply

\* A swap has not overshot its limit.
SwapTowardsLimit ==
    swap.in_progress =>
        IF swap.a_to_b THEN swap.limit <= swap.sqrt_price
                       ELSE swap.sqrt_price <= swap.limit

IInv ==
    /\ TypeOK
    /\ PositionsOK
    /\ SupplyOK
    /\ TickLiquidity
    /\ ActiveLiquidity
    /\ SwapActiveLiquidity
    /\ PriceMatchesTick
    /\ SwapTowardsLimit

\* The positions, with their well-formedness, are accounts.
LEMMA PositionsAreAccounts ==
  ASSUME IInv
  PROVE  positions \in [PositionId -> Position] /\ positions \in Accounts
BY DEF IInv, TypeOK, PositionsOK, WellFormed, Accounts

\* A swap in progress has the loop variables of one.
LEMMA SwapType ==
  ASSUME IInv, swap.in_progress
  PROVE  /\ swap \in Swap
         /\ swap.a_to_b \in BOOLEAN /\ swap.limit \in SqrtPrice
         /\ swap.arrays \in SwapTickSequence(StartTicks)
         /\ swap.array_index \in 1 .. 4 /\ swap.sqrt_price \in SqrtPrice
         /\ swap.tick_index \in CurrentTick /\ swap.liquidity \in U128
<1>1. swap \in Swap
  BY DEF IInv, TypeOK, NoSwap
<1> QED BY <1>1 DEF Swap

\* The price lies in the range of the tick found for it.
LEMMA FoundTickMatches ==
  ASSUME NEW p \in SqrtPrice
  PROVE  PriceAtTick(p, tick_index_from_sqrt_price(p))
<1>1. LET t == tick_index_from_sqrt_price(p)
      IN  /\ t \in TickIndex
          /\ sqrt_price_from_tick_index[t] <= p
          /\ t < MAX_TICK_INDEX => p < sqrt_price_from_tick_index[t + 1]
  BY TickOfPrice
<1>2. \A t \in TickIndex : t < MAX_TICK_INDEX => t + 1 \in TickIndex
  BY TickAssumption DEF TickIndex
<1>3. p \in Nat /\ \A t \in TickIndex : sqrt_price_from_tick_index[t] \in Nat
  BY PriceMonotone
<1> QED BY <1>1, <1>2, <1>3 DEF PriceAtTick

\* Without liquidity all sums are zero.
LEMMA NoContribution ==
  ASSUME NEW a \in [PositionId -> Position], NEW t \in Int,
         \A p \in PositionId : a[p].liquidity = 0
  PROVE  /\ Total(LiquidityOf(a)) = 0
         /\ Total(Entering(a, t)) = 0
         /\ Total(Leaving(a, t)) = 0
         /\ Total(ActiveAt(a, t)) = 0
<1> DEFINE z == [i \in 1 .. N |-> 0]
<1>1. LiquidityOf(a) = z /\ Entering(a, t) = z /\ Leaving(a, t) = z
      /\ ActiveAt(a, t) = z
  BY DEF PositionId, LiquidityOf, Entering, Leaving, ActiveAt
<1> QED BY <1>1, TotalZero

\* A new pool.
LEMMA InitInv == Init => IInv
<1> SUFFICES ASSUME Init PROVE IInv
  OBVIOUS
<1>1. PICK p \in SqrtPrice :
         pool = [liquidity |-> 0, sqrt_price |-> p,
                 tick_current_index |-> tick_index_from_sqrt_price(p)]
  BY DEF Init
<1>2. tick_index_from_sqrt_price(p) \in TickIndex /\ TickIndex \in SUBSET Int
      /\ TickIndex \in SUBSET CurrentTick
  BY TickOfPrice, TickInts, TickAssumption DEF TickIndex, CurrentTick
<1>3. ClosedPosition \in Position /\ DefaultTick \in Tick /\ 0 \in U128
  BY U128Nat, TickInts
  DEF ClosedPosition, Position, DefaultTick, Tick, U128, I128
<1>4. positions \in [PositionId -> Position]
  BY <1>3 DEF Init
<1>5. TypeOK
  BY <1>1, <1>2, <1>3, <1>4 DEF Init, TypeOK, Pool
<1>6. \A q \in PositionId : positions[q] = ClosedPosition
  BY DEF Init
<1>7. \A q \in PositionId : positions[q].liquidity = 0
  BY <1>6 DEF ClosedPosition
<1>8. PositionsOK
  <2>1. MIN_TICK_INDEX \in Int
    BY TickAssumption
  <2>2. WellFormed(ClosedPosition, tick_arrays)
    BY <2>1 DEF WellFormed, ClosedPosition
  <2> QED BY <1>6, <2>2 DEF PositionsOK
<1>9. SupplyOK
  <2>1. Total(LiquidityOf(positions)) = 0
    BY <1>4, <1>7, NoContribution
  <2> QED BY <2>1, LiquidityAssumption DEF SupplyOK
<1>10. TickLiquidity
  <2> SUFFICES ASSUME NEW t \in UsableTicks
               PROVE  /\ ticks[t].liquidity_net =
                            Total(Entering(positions, t)) - Total(Leaving(positions, t))
                      /\ ticks[t].liquidity_gross =
                            Total(Entering(positions, t)) + Total(Leaving(positions, t))
                      /\ ticks[t].initialized <=> ticks[t].liquidity_gross > 0
    BY DEF TickLiquidity
  <2>1. t \in Int
    BY TickInts
  <2>2. Total(Entering(positions, t)) = 0 /\ Total(Leaving(positions, t)) = 0
    BY <1>4, <1>7, <2>1, NoContribution
  <2>3. ticks[t] = DefaultTick
    BY DEF Init
  <2> QED BY <2>2, <2>3 DEF DefaultTick
<1>11. ActiveLiquidity
  <2>1. pool.tick_current_index \in Int /\ pool.liquidity = 0
    BY <1>1, <1>2
  <2> QED BY <1>4, <1>7, <2>1, NoContribution DEF ActiveLiquidity
<1>12. ~swap.in_progress
  BY DEF Init, NoSwap
<1>13. PriceMatchesTick
  BY <1>1, <1>12, FoundTickMatches DEF PriceMatchesTick
<1> QED BY <1>5, <1>8, <1>9, <1>10, <1>11, <1>12, <1>13
        DEF IInv, SwapActiveLiquidity, SwapTowardsLimit

-----------------------------------------------------------------------------
\* Accounts come and go.

\* One lemma for each instruction: initialize_tick_array.
LEMMA InitializeTickArrayInv ==
  ASSUME IInv, NEW start \in StartTicks, InitializeTickArray(start)
  PROVE  IInv'
<1>1. /\ UNCHANGED <<pool, ticks, positions, swap>>
      /\ tick_arrays' \subseteq StartTicks
      /\ tick_arrays \subseteq tick_arrays'
  BY DEF InitializeTickArray, IInv, TypeOK
<1>2. TypeOK'
  BY <1>1 DEF IInv, TypeOK
<1>3. PositionsOK'
  BY <1>1 DEF IInv, PositionsOK, WellFormed
<1> QED BY <1>1, <1>2, <1>3
        DEF IInv, SupplyOK, TickLiquidity, ActiveLiquidity, SwapActiveLiquidity,
            PriceMatchesTick, SwapTowardsLimit

\* A position without liquidity replaces another such.
LEMMA EmptyPositionInv ==
  ASSUME IInv, UNCHANGED <<pool, tick_arrays, ticks, swap>>,
         NEW p \in PositionId, NEW new \in Position,
         positions[p].liquidity = 0, new.liquidity = 0,
         WellFormed(new, tick_arrays),
         positions' = [positions EXCEPT ![p] = new]
  PROVE  IInv'
<1>1. /\ positions \in [PositionId -> Position]
      /\ positions' \in [PositionId -> Position]
      /\ positions'[p] = new
      /\ \A q \in PositionId \ {p} : positions'[q] = positions[q]
  BY DEF IInv, TypeOK
<1>2. \A t \in Int : /\ LiquidityOf(positions') = LiquidityOf(positions)
                     /\ Entering(positions', t) = Entering(positions, t)
                     /\ Leaving(positions', t) = Leaving(positions, t)
                     /\ ActiveAt(positions', t) = ActiveAt(positions, t)
  <2> TAKE t \in Int
  <2> DEFINE b == positions'
  <2>1. b \in [PositionId -> Position] /\ b[p].liquidity = 0
    BY <1>1
  <2>2. \A q \in PositionId \ {p} : b[q] = positions[q]
    BY <1>1
  <2> HIDE DEF b
  <2>3. /\ LiquidityOf(b) = LiquidityOf(positions)
        /\ Entering(b, t) = Entering(positions, t)
        /\ Leaving(b, t) = Leaving(positions, t)
        /\ ActiveAt(b, t) = ActiveAt(positions, t)
    BY <1>1, <2>1, <2>2, ContributionSame
  <2> QED BY <2>3 DEF b
<1>3. TypeOK'
  BY <1>1 DEF IInv, TypeOK
<1>4. PositionsOK'
  <2> SUFFICES ASSUME NEW q \in PositionId
               PROVE  WellFormed(positions'[q], tick_arrays)
    BY DEF PositionsOK
  <2>1. CASE q = p
    BY <1>1, <2>1
  <2>2. CASE q # p
    BY <1>1, <2>2 DEF IInv, PositionsOK
  <2> QED BY <2>1, <2>2
<1>5. SupplyOK'
  BY <1>2, 0 \in Int DEF IInv, SupplyOK
<1>6. TickLiquidity'
  BY <1>2, TickInts DEF IInv, TickLiquidity
<1>7. ActiveLiquidity'
  <2>1. pool.tick_current_index \in Int
    BY TickInts DEF IInv, TypeOK, Pool
  <2> QED BY <1>2, <2>1 DEF IInv, ActiveLiquidity
<1>8. SwapActiveLiquidity'
  <2>1. swap.in_progress => swap.tick_index \in Int
    BY SwapType, TickInts
  <2> QED BY <1>2, <2>1 DEF IInv, SwapActiveLiquidity
<1> QED BY <1>3, <1>4, <1>5, <1>6, <1>7, <1>8
        DEF IInv, PriceMatchesTick, SwapTowardsLimit

\* open_position: a new position is empty.
LEMMA OpenPositionInv ==
  ASSUME IInv, NEW p \in PositionId, NEW lower \in UsableTicks,
         NEW upper \in UsableTicks, OpenPosition(p, lower, upper)
  PROVE  IInv'
<1> DEFINE new == [open |-> TRUE, tick_lower_index |-> lower,
                   tick_upper_index |-> upper, liquidity |-> 0]
<1>1. lower < upper /\ lower \in Int /\ upper \in Int
      /\ lower \in TickIndex /\ upper \in TickIndex
  BY TickInts DEF OpenPosition
<1>2. new \in Position /\ new.open /\ new.liquidity = 0
      /\ new.tick_lower_index = lower /\ new.tick_upper_index = upper
  BY <1>1, U128Nat DEF Position, U128
<1>3. /\ UNCHANGED <<pool, tick_arrays, ticks, swap>>
      /\ positions[p].liquidity = 0
      /\ positions' = [positions EXCEPT ![p] = new]
  BY DEF OpenPosition, IInv, PositionsOK, WellFormed
<1>4. WellFormed(new, tick_arrays)
  BY <1>1, <1>2 DEF WellFormed
<1> HIDE DEF new
<1> QED BY <1>2, <1>3, <1>4, EmptyPositionInv

\* close_position: what is closed is empty.
LEMMA ClosePositionInv ==
  ASSUME IInv, NEW p \in PositionId, ClosePosition(p)
  PROVE  IInv'
<1>1. /\ ClosedPosition \in Position /\ ~ClosedPosition.open
      /\ ClosedPosition.liquidity = 0
      /\ WellFormed(ClosedPosition, tick_arrays)
  BY U128Nat, TickInts DEF ClosedPosition, Position, U128, WellFormed
<1>2. /\ UNCHANGED <<pool, tick_arrays, ticks, swap>>
      /\ positions[p].liquidity = 0
      /\ positions' = [positions EXCEPT ![p] = ClosedPosition]
  BY DEF ClosePosition
<1> QED BY <1>1, <1>2, EmptyPositionInv

-----------------------------------------------------------------------------
\* Deposits and withdrawals.

\* What next_tick_modify_liquidity_update returns is a tick.
LEMMA NextTickType ==
  ASSUME NEW tick \in Tick, NEW delta \in Int, NEW is_upper_tick \in BOOLEAN,
         CanUpdateTick(tick, delta, is_upper_tick)
  PROVE  NextTick(tick, delta, is_upper_tick) \in Tick
BY U128Nat DEF Tick, CanUpdateTick, CanAdd, NextTick, DefaultTick, U128, I128,
               SignedNet

\* The tick that net and gross sums of liquidity describe.
IsTickOf(tick, entering, leaving) ==
    /\ tick.liquidity_net = entering - leaving
    /\ tick.liquidity_gross = entering + leaving
    /\ tick.initialized <=> tick.liquidity_gross > 0

\* The update of a lower tick follows what enters there.
LEMMA NextLowerTick ==
  ASSUME NEW tick \in Tick, NEW delta \in Int, NEW e \in Nat, NEW l \in Nat,
         IsTickOf(tick, e, l), e + delta \in Nat
  PROVE  IsTickOf(NextTick(tick, delta, FALSE), e + delta, l)
BY DEF IsTickOf, NextTick, DefaultTick, SignedNet

\* The update of an upper tick follows what leaves there.
LEMMA NextUpperTick ==
  ASSUME NEW tick \in Tick, NEW delta \in Int, NEW e \in Nat, NEW l \in Nat,
         IsTickOf(tick, e, l), l + delta \in Nat
  PROVE  IsTickOf(NextTick(tick, delta, TRUE), e, l + delta)
BY DEF IsTickOf, NextTick, DefaultTick, SignedNet

\* calculate_modify_liquidity and sync_modify_liquidity_values, for a delta of
\* either sign: ticks, pool and position change alike.
LEMMA ModifyLiquidityInv ==
  ASSUME IInv, NEW p \in PositionId, NEW delta \in Int,
         Total(LiquidityOf(positions)) + delta <= LiquiditySupply,
         ModifyLiquidity(p, delta)
  PROVE  IInv'
<1> DEFINE lower == positions[p].tick_lower_index
           upper == positions[p].tick_upper_index
           b == positions'
           E(a, t) == Total(Entering(a, t))
           L(a, t) == Total(Leaving(a, t))
<1>1. /\ ~swap.in_progress /\ swap' = swap /\ tick_arrays' = tick_arrays
      /\ positions[p].open /\ CanModify(positions[p], delta)
      /\ b = [positions EXCEPT ![p].liquidity = @ + delta]
      /\ ticks' = [ticks EXCEPT ![lower] = NextTick(@, delta, FALSE),
                                ![upper] = NextTick(@, delta, TRUE)]
      /\ pool' = IF InRange(positions[p])
                 THEN [pool EXCEPT !.liquidity = @ + delta] ELSE pool
  BY Zenon DEF ModifyLiquidity
<1>2. /\ positions \in [PositionId -> Position]
      /\ ticks \in [UsableTicks -> Tick] /\ pool \in Pool
      /\ tick_arrays \subseteq StartTicks /\ swap \in {NoSwap} \union Swap
  BY DEF IInv, TypeOK
<1>3. /\ lower \in UsableTicks /\ upper \in UsableTicks
      /\ lower < upper /\ lower \in Int /\ upper \in Int
  BY <1>1, TickInts DEF IInv, PositionsOK, WellFormed
<1>4. /\ CanUpdateTick(ticks[lower], delta, FALSE)
      /\ CanUpdateTick(ticks[upper], delta, TRUE)
      /\ CanAdd(positions[p].liquidity, delta)
      /\ InRange(positions[p]) => CanAdd(pool.liquidity, delta)
      /\ \E s \in tick_arrays : check_in_array_bounds(s, lower)
      /\ \E s \in tick_arrays : check_in_array_bounds(s, upper)
  BY <1>1, Zenon DEF CanModify, HasTick
<1>5. /\ ticks'[lower] = NextTick(ticks[lower], delta, FALSE)
      /\ ticks'[upper] = NextTick(ticks[upper], delta, TRUE)
      /\ \A t \in UsableTicks \ {lower, upper} : ticks'[t] = ticks[t]
      /\ NextTick(ticks[lower], delta, FALSE) \in Tick
      /\ NextTick(ticks[upper], delta, TRUE) \in Tick
      /\ ticks' \in [UsableTicks -> Tick]
  <2>1. NextTick(ticks[lower], delta, FALSE) \in Tick
    BY <1>2, <1>3, <1>4, NextTickType
  <2>2. NextTick(ticks[upper], delta, TRUE) \in Tick
    BY <1>2, <1>3, <1>4, NextTickType
  <2> DEFINE m == NextTick(ticks[lower], delta, FALSE)
             n == NextTick(ticks[upper], delta, TRUE)
  <2>3. ticks' = [ticks EXCEPT ![lower] = m, ![upper] = n]
    BY <1>1, <1>2, <1>3
  <2>4. m \in Tick /\ n \in Tick
    BY <2>1, <2>2
  <2> HIDE DEF m, n, lower, upper
  <2>5. /\ ticks'[lower] = m /\ ticks'[upper] = n
        /\ \A t \in UsableTicks \ {lower, upper} : ticks'[t] = ticks[t]
        /\ ticks' \in [UsableTicks -> Tick]
    BY <1>2, <1>3, <2>3, <2>4
  <2> QED BY <2>4, <2>5 DEF m, n
<1>6. /\ b \in [PositionId -> Position]
      /\ b[p].open = positions[p].open
      /\ b[p].tick_lower_index = lower /\ b[p].tick_upper_index = upper
      /\ \A q \in PositionId \ {p} : b[q] = positions[q]
  BY <1>1, <1>2, <1>4 DEF Position, CanAdd
<1>7. pool' \in Pool
  BY <1>1, <1>2, <1>4 DEF Pool, CanAdd
<1>8. TypeOK'
  BY <1>1, <1>2, <1>5, <1>6, <1>7 DEF TypeOK
<1>9. PositionsOK'
  <2> SUFFICES ASSUME NEW q \in PositionId PROVE WellFormed(b[q], tick_arrays)
    BY <1>1 DEF PositionsOK
  <2>1. CASE q = p
    BY <1>1, <1>3, <1>4, <1>6, <2>1 DEF WellFormed
  <2>2. CASE q # p
    BY <1>6, <2>2 DEF IInv, PositionsOK
  <2> QED BY <2>1, <2>2
<1> HIDE DEF b
<1>10. ASSUME NEW t \in Int
       PROVE  /\ Total(LiquidityOf(b)) = Total(LiquidityOf(positions)) + delta
              /\ E(b, t) = E(positions, t) + (IF lower = t THEN delta ELSE 0)
              /\ L(b, t) = L(positions, t) + (IF upper = t THEN delta ELSE 0)
              /\ Total(ActiveAt(b, t)) = Total(ActiveAt(positions, t))
                    + (IF lower <= t /\ t < upper THEN delta ELSE 0)
  <2>1. /\ positions \in [PositionId -> Position]
        /\ b \in [PositionId -> Position]
        /\ b = [positions EXCEPT ![p].liquidity = @ + delta]
    BY <1>1, <1>2, <1>6
  <2>2. Modifies(positions, b, p, delta)
    BY <2>1 DEF Modifies
  <2> QED BY <2>2, ContributionUpdate
<1>11. SupplyOK'
  BY <1>10, 0 \in Int DEF SupplyOK, b
<1>12. TickLiquidity'
  <2> SUFFICES ASSUME NEW t \in UsableTicks
               PROVE  IsTickOf(ticks'[t], E(b, t), L(b, t))
    BY DEF TickLiquidity, IsTickOf, b
  <2>1. /\ t \in Int
        /\ E(b, t) \in Nat /\ L(b, t) \in Nat
        /\ E(positions, t) \in Nat /\ L(positions, t) \in Nat
    BY <1>2, <1>6, TickInts, ContributionInts
  <2>2. IsTickOf(ticks[t], E(positions, t), L(positions, t)) /\ ticks[t] \in Tick
    BY <1>2 DEF IInv, TickLiquidity, IsTickOf
  <2>3. /\ E(b, t) = E(positions, t) + (IF lower = t THEN delta ELSE 0)
        /\ L(b, t) = L(positions, t) + (IF upper = t THEN delta ELSE 0)
    BY <1>10, <2>1
  <2> HIDE DEF E, L, lower, upper
  <2>4. CASE t = lower
    <3>1. E(b, t) = E(positions, t) + delta /\ L(b, t) = L(positions, t)
      BY <1>3, <2>1, <2>3, <2>4
    <3>2. IsTickOf(NextTick(ticks[t], delta, FALSE), E(positions, t) + delta,
                   L(positions, t))
      BY <2>1, <2>2, <3>1, NextLowerTick
    <3> QED BY <1>5, <2>4, <3>1, <3>2
  <2>5. CASE t = upper
    <3>1. E(b, t) = E(positions, t) /\ L(b, t) = L(positions, t) + delta
      BY <1>3, <2>1, <2>3, <2>5
    <3>2. IsTickOf(NextTick(ticks[t], delta, TRUE), E(positions, t),
                   L(positions, t) + delta)
      BY <2>1, <2>2, <3>1, NextUpperTick
    <3> QED BY <1>5, <2>5, <3>1, <3>2
  <2>6. CASE t # lower /\ t # upper
    BY <1>5, <2>1, <2>2, <2>3, <2>6
  <2> QED BY <2>4, <2>5, <2>6
<1>13. ActiveLiquidity'
  <2>1. /\ pool'.tick_current_index = pool.tick_current_index
        /\ pool.tick_current_index \in Int
        /\ pool'.liquidity = pool.liquidity
              + (IF lower <= pool.tick_current_index
                    /\ pool.tick_current_index < upper THEN delta ELSE 0)
    <3>1. pool.tick_current_index \in CurrentTick /\ pool.liquidity \in U128
      BY <1>2 DEF Pool
    <3>2. pool.tick_current_index \in Int /\ pool.liquidity \in Nat
      BY <3>1, TickInts, U128Nat, Zenon
    <3> QED BY <1>1, <1>2, <1>3, <3>2 DEF Pool, InRange
  <2> QED BY <1>10, <2>1 DEF IInv, ActiveLiquidity, b
<1>14. /\ pool'.tick_current_index = pool.tick_current_index
       /\ pool'.sqrt_price = pool.sqrt_price
  BY <1>1, <1>2 DEF Pool
<1>15. PriceMatchesTick'
  BY <1>1, <1>14 DEF IInv, PriceMatchesTick, PriceAtTick
<1> QED BY <1>1, <1>8, <1>9, <1>11, <1>12, <1>13, <1>15
        DEF IInv, SwapActiveLiquidity, SwapTowardsLimit

\* increase_liquidity: the supply bounds the deposit.
LEMMA IncreaseLiquidityInv ==
  ASSUME IInv, NEW p \in PositionId, NEW liquidity_amount \in LiquidityAmounts,
         IncreaseLiquidity(p, liquidity_amount)
  PROVE  IInv'
<1>1. /\ liquidity_amount \in Int
      /\ Total(LiquidityOf(positions)) + liquidity_amount <= LiquiditySupply
      /\ ModifyLiquidity(p, liquidity_amount)
  BY LiquidityAssumption DEF IncreaseLiquidity
<1> QED BY <1>1, ModifyLiquidityInv

\* decrease_liquidity.
LEMMA DecreaseLiquidityInv ==
  ASSUME IInv, NEW p \in PositionId, NEW liquidity_amount \in LiquidityAmounts,
         DecreaseLiquidity(p, liquidity_amount)
  PROVE  IInv'
<1>1. liquidity_amount \in Nat /\ ModifyLiquidity(p, -liquidity_amount)
  BY LiquidityAssumption DEF DecreaseLiquidity
<1>2. Total(LiquidityOf(positions)) \in Nat /\ LiquiditySupply \in Int
  BY ContributionInts, LiquidityAssumption, 0 \in Int DEF IInv, TypeOK
<1>3. -liquidity_amount \in Int
      /\ Total(LiquidityOf(positions)) + (-liquidity_amount) <= LiquiditySupply
  BY <1>1, <1>2 DEF IInv, SupplyOK
<1> QED BY <1>1, <1>3, ModifyLiquidityInv

-----------------------------------------------------------------------------
\* Swaps.

\* The loop starts from the pool.
LEMMA SwapStartInv ==
  ASSUME IInv, NEW a_to_b \in BOOLEAN, NEW limit \in SqrtPriceLimits,
         NEW arrays \in SwapTickSequence(tick_arrays),
         SwapStart(a_to_b, limit, arrays)
  PROVE  IInv'
<1>1. /\ UNCHANGED <<pool, tick_arrays, ticks, positions>>
      /\ limit \in SqrtPrice
      /\ IF a_to_b THEN limit <= pool.sqrt_price ELSE limit >= pool.sqrt_price
      /\ swap' = [in_progress |-> TRUE, a_to_b |-> a_to_b, limit |-> limit,
                  arrays |-> arrays, array_index |-> 1, amount_remains |-> TRUE,
                  sqrt_price |-> pool.sqrt_price,
                  tick_index |-> pool.tick_current_index,
                  liquidity |-> pool.liquidity]
  BY DEF SwapStart
<1>2. arrays \in SwapTickSequence(StartTicks)
  <2>1. tick_arrays \subseteq StartTicks
    BY DEF IInv, TypeOK
  <2>2. PICK n \in 1 .. 3 : arrays \in [1 .. n -> tick_arrays]
    BY DEF SwapTickSequence
  <2>3. arrays \in [1 .. n -> StartTicks]
    BY <2>1, <2>2
  <2>4. \A i, j \in DOMAIN arrays : arrays[i] = arrays[j] => i = j
    BY DEF SwapTickSequence
  <2> QED BY <2>3, <2>4 DEF SwapTickSequence
<1>3. /\ pool.sqrt_price \in SqrtPrice /\ pool.tick_current_index \in CurrentTick
      /\ pool.liquidity \in U128
  BY DEF IInv, TypeOK, Pool
<1>4. swap' \in Swap
  BY <1>1, <1>2, <1>3 DEF Swap
<1>5. TypeOK'
  BY <1>1, <1>4 DEF IInv, TypeOK
<1>6. SwapActiveLiquidity'
  BY <1>1 DEF IInv, SwapActiveLiquidity, ActiveLiquidity
<1>7. PriceMatchesTick'
  BY <1>1 DEF IInv, PriceMatchesTick
<1>8. SwapTowardsLimit'
  <2>1. limit \in Nat /\ pool.sqrt_price \in Nat
    BY <1>1, <1>3, PriceMonotone, Zenon
  <2> QED BY <1>1, <2>1 DEF SwapTowardsLimit
<1> QED BY <1>1, <1>5, <1>6, <1>7, <1>8
        DEF IInv, PositionsOK, SupplyOK, TickLiquidity, ActiveLiquidity

\* update_after_swap: the pool becomes what the loop arrived at.
LEMMA SwapEndInv ==
  ASSUME IInv, SwapEnd
  PROVE  IInv'
<1>1. /\ swap.in_progress /\ swap' = NoSwap
      /\ UNCHANGED <<tick_arrays, ticks, positions>>
      /\ pool' = [pool EXCEPT !.liquidity = swap.liquidity,
                              !.sqrt_price = swap.sqrt_price,
                              !.tick_current_index = swap.tick_index]
  BY DEF SwapEnd
<1>2. /\ pool' \in Pool
      /\ pool'.liquidity = swap.liquidity
      /\ pool'.sqrt_price = swap.sqrt_price
      /\ pool'.tick_current_index = swap.tick_index
  <2>1. pool \in Pool
    BY DEF IInv, TypeOK
  <2>2. /\ swap.sqrt_price \in SqrtPrice /\ swap.tick_index \in CurrentTick
        /\ swap.liquidity \in U128
    BY <1>1, SwapType
  <2> QED BY <1>1, <2>1, <2>2 DEF Pool
<1>3. ~swap'.in_progress
  BY <1>1 DEF NoSwap
<1>4. TypeOK'
  BY <1>1, <1>2 DEF IInv, TypeOK
<1>5. ActiveLiquidity'
  BY <1>1, <1>2 DEF IInv, SwapActiveLiquidity, ActiveLiquidity
<1>6. PriceMatchesTick'
  BY <1>1, <1>2, <1>3 DEF IInv, PriceMatchesTick
<1> QED BY <1>1, <1>3, <1>4, <1>5, <1>6
        DEF IInv, PositionsOK, SupplyOK, TickLiquidity, SwapActiveLiquidity,
            SwapTowardsLimit

\* SwapFail and SwapReject: the transaction is rolled back.
LEMMA SwapAbortInv ==
  ASSUME IInv, swap' = NoSwap, UNCHANGED <<pool, tick_arrays, ticks, positions>>
  PROVE  IInv'
<1>1. ~swap'.in_progress
  BY DEF NoSwap
<1> QED BY <1>1
        DEF IInv, TypeOK, PositionsOK, SupplyOK, TickLiquidity, ActiveLiquidity,
            SwapActiveLiquidity, PriceMatchesTick, SwapTowardsLimit

\* The ticks of a position with liquidity are initialized.
LEMMA LiveTicks ==
  ASSUME IInv, NEW p \in PositionId, positions[p].liquidity > 0
  PROVE  /\ positions[p].tick_lower_index \in InitializedTicks
         /\ positions[p].tick_upper_index \in InitializedTicks
<1> DEFINE lower == positions[p].tick_lower_index
           upper == positions[p].tick_upper_index
<1>1. positions \in [PositionId -> Position]
  BY DEF IInv, TypeOK
<1>2. lower \in UsableTicks /\ upper \in UsableTicks /\ lower \in Int /\ upper \in Int
  <2>1. positions[p].liquidity # 0
    OBVIOUS
  <2> QED BY <2>1, TickInts DEF IInv, PositionsOK, WellFormed
<1>3. Entering(positions, lower)[p] > 0 /\ Leaving(positions, upper)[p] > 0
  BY DEF Entering, Leaving
<1>4. /\ Entering(positions, lower)[p] <= Total(Entering(positions, lower))
      /\ Leaving(positions, upper)[p] <= Total(Leaving(positions, upper))
      /\ Entering(positions, lower)[p] \in Nat /\ Leaving(positions, upper)[p] \in Nat
  <2>1. /\ Entering(positions, lower)[p] <= Total(Entering(positions, lower))
        /\ Leaving(positions, upper)[p] <= Total(Leaving(positions, upper))
    BY <1>1, <1>2, ContributionBounds
  <2>2. /\ Entering(positions, lower) \in [1 .. N -> Nat]
        /\ Leaving(positions, upper) \in [1 .. N -> Nat]
    BY <1>1, <1>2, ContributionTypes
  <2> QED BY <2>1, <2>2 DEF PositionId
<1>5. /\ Total(Entering(positions, lower)) \in Nat
      /\ Total(Leaving(positions, lower)) \in Nat
      /\ Total(Entering(positions, upper)) \in Nat
      /\ Total(Leaving(positions, upper)) \in Nat
  BY <1>1, <1>2, ContributionInts
<1>6. ticks[lower].liquidity_gross > 0 /\ ticks[upper].liquidity_gross > 0
  BY <1>2, <1>3, <1>4, <1>5 DEF IInv, TickLiquidity
<1> QED BY <1>2, <1>6 DEF IInv, TickLiquidity, InitializedTicks

\* Between two ticks with no initialized one after the first and up to the
\* second, the active liquidity is the same.
LEMMA QuietRange ==
  ASSUME IInv, NEW t \in Int, NEW u \in Int, t <= u,
         \A v \in InitializedTicks : ~(t < v /\ v <= u)
  PROVE  Total(ActiveAt(positions, t)) = Total(ActiveAt(positions, u))
<1>1. positions \in [PositionId -> Position]
  BY DEF IInv, TypeOK
<1>2. \A p \in PositionId :
         positions[p].liquidity > 0 =>
            /\ ~(t < positions[p].tick_lower_index /\ positions[p].tick_lower_index <= u)
            /\ ~(t < positions[p].tick_upper_index /\ positions[p].tick_upper_index <= u)
  BY LiveTicks
<1> QED BY <1>1, <1>2, ActiveConstant

\* Crossing an initialized tick changes the active liquidity by its net.
LEMMA CrossedTick ==
  ASSUME IInv, NEW t \in UsableTicks
  PROVE  /\ Total(ActiveAt(positions, t)) - Total(ActiveAt(positions, t - 1))
               = ticks[t].liquidity_net
         /\ Total(ActiveAt(positions, t)) \in U128
         /\ Total(ActiveAt(positions, t - 1)) \in U128
<1>1. t \in Int /\ t - 1 \in Int
  BY TickInts
<1>2. positions \in [PositionId -> Position] /\ positions \in Accounts
  BY PositionsAreAccounts
<1>3. Total(ActiveAt(positions, t)) - Total(ActiveAt(positions, t - 1))
         = Total(Entering(positions, t)) - Total(Leaving(positions, t))
  BY <1>1, <1>2, ActiveStep
<1>4. ASSUME NEW u \in Int PROVE Total(ActiveAt(positions, u)) \in U128
  <2>1. /\ Total(ActiveAt(positions, u)) <= Total(LiquidityOf(positions))
        /\ Total(ActiveAt(positions, u)) \in Nat
        /\ Total(LiquidityOf(positions)) \in Nat
    BY <1>2, ContributionBounds, ContributionInts
  <2>2. /\ Total(LiquidityOf(positions)) <= LiquiditySupply
        /\ LiquiditySupply \in Nat /\ LiquiditySupply <= MAX_I128
        /\ MAX_I128 \in Nat /\ MAX_U128 = 2 * MAX_I128 + 1
    BY LiquidityAssumption DEF IInv, SupplyOK
  <2> QED BY <2>1, <2>2 DEF U128
<1> QED BY <1>1, <1>3, <1>4 DEF IInv, TickLiquidity

\* The loop runs at a tick from which the search can move.
LEMMA SwapHasRoom ==
  ASSUME IInv, SwapContinues
  PROVE  /\ swap.in_progress
         /\ swap.a_to_b => /\ swap.limit < swap.sqrt_price
                           /\ swap.tick_index >= MIN_TICK_INDEX
         /\ ~swap.a_to_b => /\ swap.sqrt_price < swap.limit
                            /\ swap.tick_index < MAX_TICK_INDEX
<1> DEFINE P == sqrt_price_from_tick_index
           t == swap.tick_index
<1>1. /\ swap.in_progress /\ swap.limit # swap.sqrt_price
      /\ swap.a_to_b \in BOOLEAN
      /\ swap.limit \in SqrtPrice /\ swap.sqrt_price \in SqrtPrice
      /\ t \in CurrentTick
  BY SwapType DEF SwapContinues
<1>2. /\ swap.limit \in Nat /\ swap.limit >= P[MIN_TICK_INDEX]
      /\ swap.limit <= P[MAX_TICK_INDEX]
      /\ swap.sqrt_price \in Nat
      /\ P[MIN_TICK_INDEX] \in Nat /\ P[MAX_TICK_INDEX] \in Nat
  BY <1>1, PriceMonotone, TickInts DEF SqrtPrice, MIN_SQRT_PRICE, MAX_SQRT_PRICE
<1>3. PriceAtTick(swap.sqrt_price, t)
  BY <1>1 DEF IInv, PriceMatchesTick
<1>4. ASSUME swap.a_to_b
      PROVE  swap.limit < swap.sqrt_price /\ t >= MIN_TICK_INDEX
  <2>1. swap.limit < swap.sqrt_price
    BY <1>1, <1>2, <1>4 DEF IInv, SwapTowardsLimit
  <2>2. CASE t = MIN_TICK_INDEX - 1
    <3>1. swap.sqrt_price <= P[MIN_TICK_INDEX]
      BY <1>3, <2>2, TickAssumption DEF PriceAtTick
    <3> QED BY <1>2, <2>1, <3>1
  <2> QED BY <1>1, <2>1, <2>2, TickAssumption DEF CurrentTick
<1>5. ASSUME ~swap.a_to_b
      PROVE  swap.sqrt_price < swap.limit /\ t < MAX_TICK_INDEX
  <2>1. swap.sqrt_price < swap.limit
    BY <1>1, <1>2, <1>5 DEF IInv, SwapTowardsLimit
  <2>2. CASE t = MAX_TICK_INDEX
    <3>1. P[MAX_TICK_INDEX] <= swap.sqrt_price
      BY <1>3, <2>2, TickAssumption DEF PriceAtTick
    <3> QED BY <1>2, <2>1, <3>1
  <2> QED BY <1>1, <2>1, <2>2, TickAssumption DEF CurrentTick
<1> QED BY <1>1, <1>4, <1>5

\* The search skips no initialized tick and moves in the right direction.
LEMMA FoundTick ==
  ASSUME IInv, SwapContinues, NEW k, NEW next \in TickIndex, NextTickFound(k, next)
  PROVE  /\ IF swap.a_to_b
            THEN /\ next <= swap.tick_index
                 /\ \A v \in InitializedTicks : ~(next < v /\ v <= swap.tick_index)
            ELSE /\ swap.tick_index < next
                 /\ \A v \in InitializedTicks : ~(swap.tick_index < v /\ v < next)
         /\ Crosses(k, next) <=> next \in InitializedTicks
         /\ k \in 1 .. 3
<1> DEFINE t == swap.tick_index
<1>1. /\ swap.in_progress /\ swap.a_to_b \in BOOLEAN
      /\ swap.arrays \in SwapTickSequence(StartTicks)
      /\ swap.array_index \in 1 .. 4 /\ t \in CurrentTick
  BY SwapHasRoom, SwapType
<1>2. InitializedTicks \in SUBSET UsableTicks
  BY DEF InitializedTicks
<1>3. \E n \in 1 .. 3 : swap.arrays \in [1 .. n -> StartTicks]
  BY <1>1 DEF SwapTickSequence
<1>4. Searched(swap.arrays, swap.array_index, t, swap.a_to_b, InitializedTicks,
               k, next)
  BY <1>1, <1>2, <1>3, Zenon DEF Searched, NextTickFound, CurrentTick
<1>5. \A v \in InitializedTicks : v \in Int
  BY <1>2, TickInts, Zenon
<1>6. t \in Int /\ next \in Int
  BY <1>1, TickInts, Zenon
<1>7. CASE swap.a_to_b
  <2>1. t >= MIN_TICK_INDEX
    BY <1>7, SwapHasRoom
  <2>2. Searched(swap.arrays, swap.array_index, t, TRUE, InitializedTicks, k, next)
    BY <1>1, <1>4, <1>7
  <2>3. /\ next <= t
        /\ \A v \in InitializedTicks : v <= t => v <= next
        /\ next \in InitializedTicks => check_in_array_bounds(swap.arrays[k], next)
        /\ k \in 1 .. 3
    BY <2>1, <2>2, SearchLeft
  <2> QED BY <1>5, <1>6, <1>7, <2>3 DEF Crosses
<1>8. CASE ~swap.a_to_b
  <2>1. t < MAX_TICK_INDEX
    BY <1>8, SwapHasRoom
  <2>2. Searched(swap.arrays, swap.array_index, t, FALSE, InitializedTicks, k, next)
    BY <1>1, <1>4, <1>8
  <2>3. /\ t < next
        /\ \A v \in InitializedTicks : t < v => next <= v
        /\ next \in InitializedTicks => check_in_array_bounds(swap.arrays[k], next)
        /\ k \in 1 .. 3
    BY <2>1, <2>2, SearchRight
  <2> QED BY <1>5, <1>6, <1>8, <2>3 DEF Crosses
<1> QED BY <1>7, <1>8

\* The price, the tick found and the target of the step are in order.
LEMMA TargetInOrder ==
  ASSUME IInv, SwapContinues, NEW k, NEW next \in TickIndex, NextTickFound(k, next),
         NEW next_price \in SqrtPrice, NEW amount_remains \in BOOLEAN,
         ComputeSwap(SqrtPriceTarget(next), next_price, amount_remains)
  PROVE  IF swap.a_to_b
         THEN /\ sqrt_price_from_tick_index[next] <= next_price
              /\ swap.limit <= next_price /\ next_price <= swap.sqrt_price
         ELSE /\ next_price <= sqrt_price_from_tick_index[next]
              /\ next_price <= swap.limit /\ swap.sqrt_price <= next_price
<1> DEFINE P == sqrt_price_from_tick_index
           t == swap.tick_index
           target == SqrtPriceTarget(next)
<1>1. /\ swap.in_progress /\ swap.a_to_b \in BOOLEAN
      /\ swap.limit \in Nat /\ swap.sqrt_price \in Nat /\ next_price \in Nat
      /\ t \in CurrentTick
  BY SwapHasRoom, SwapType, PriceMonotone, Zenon
<1>2. P[next] \in Nat
  BY PriceMonotone
<1>3. CASE swap.a_to_b
  <2>1. target = IF P[next] < swap.limit THEN swap.limit ELSE P[next]
    BY <1>3 DEF SqrtPriceTarget
  <2>2. next_price \in target .. swap.sqrt_price
    BY <1>3 DEF ComputeSwap
  <2> HIDE DEF target, P
  <2> QED BY <1>1, <1>2, <1>3, <2>1, <2>2 DEF P
<1>4. CASE ~swap.a_to_b
  <2>1. target = IF P[next] > swap.limit THEN swap.limit ELSE P[next]
    BY <1>4 DEF SqrtPriceTarget
  <2>2. next_price \in swap.sqrt_price .. target
    BY <1>4 DEF ComputeSwap
  <2> HIDE DEF target, P
  <2> QED BY <1>1, <1>2, <1>4, <2>1, <2>2 DEF P
<1> QED BY <1>3, <1>4

\* The tick after a step: at the tick found, or short of it.
LEMMA TickMoves ==
  ASSUME IInv, SwapContinues, NEW k, NEW next \in TickIndex, NextTickFound(k, next),
         NEW next_price \in SqrtPrice, NEW amount_remains \in BOOLEAN,
         ComputeSwap(SqrtPriceTarget(next), next_price, amount_remains)
  PROVE  LET t == swap.tick_index
             u == TickIndexAfter(next, next_price)
         IN  /\ u \in CurrentTick
             /\ PriceAtTick(next_price, u)
             /\ IF next_price = sqrt_price_from_tick_index[next]
                THEN u = IF swap.a_to_b THEN next - 1 ELSE next
                ELSE IF swap.a_to_b THEN next <= u /\ u <= t
                                    ELSE t <= u /\ u < next
<1> DEFINE P == sqrt_price_from_tick_index
           t == swap.tick_index
           u == TickIndexAfter(next, next_price)
<1>1. /\ swap.in_progress /\ swap.a_to_b \in BOOLEAN
      /\ swap.sqrt_price \in Nat /\ next_price \in Nat
      /\ t \in CurrentTick /\ t \in Int /\ next \in Int
      /\ PriceAtTick(swap.sqrt_price, t)
  BY SwapHasRoom, SwapType, PriceMonotone, TickInts, Zenon DEF IInv, PriceMatchesTick
<1>2. IF swap.a_to_b
      THEN /\ next <= t /\ P[next] <= next_price /\ next_price <= swap.sqrt_price
      ELSE /\ t < next /\ next_price <= P[next] /\ swap.sqrt_price <= next_price
  BY FoundTick, TargetInOrder
<1>3. /\ \A v \in TickIndex : P[v] \in Nat
      /\ \A v, w \in TickIndex : v <= w => P[v] <= P[w]
  BY PriceMonotone
<1>4. /\ MIN_TICK_INDEX \in Int /\ MAX_TICK_INDEX \in Int
      /\ MIN_TICK_INDEX < MAX_TICK_INDEX
      /\ \A v \in Int : v \in TickIndex <=>
            v >= MIN_TICK_INDEX /\ v <= MAX_TICK_INDEX
      /\ \A v \in Int : v \in CurrentTick <=>
            v >= MIN_TICK_INDEX - 1 /\ v <= MAX_TICK_INDEX
  BY TickAssumption DEF TickIndex, CurrentTick
<1>5. swap.a_to_b => t >= MIN_TICK_INDEX
  BY SwapHasRoom
<1>6. CASE next_price = P[next] /\ swap.a_to_b
  <2>1. u = next - 1
    BY <1>6 DEF TickIndexAfter
  <2>2. next - 1 >= MIN_TICK_INDEX => P[next - 1] <= P[next]
    BY <1>1, <1>3, <1>4
  <2>3. PriceAtTick(next_price, next - 1)
    BY <1>1, <1>3, <1>4, <1>6, <2>2 DEF PriceAtTick
  <2> QED BY <1>1, <1>4, <1>6, <2>1, <2>3
<1>7. CASE next_price = P[next] /\ ~swap.a_to_b
  <2>1. u = next
    BY <1>7 DEF TickIndexAfter
  <2>2. next < MAX_TICK_INDEX => P[next] <= P[next + 1]
    BY <1>1, <1>3, <1>4
  <2>3. PriceAtTick(next_price, next)
    BY <1>1, <1>3, <1>4, <1>7, <2>2 DEF PriceAtTick
  <2> QED BY <1>1, <1>4, <1>7, <2>1, <2>3
<1>8. CASE next_price # P[next] /\ next_price = swap.sqrt_price
  <2>1. u = t
    BY <1>8 DEF TickIndexAfter
  <2> QED BY <1>1, <1>2, <1>8, <2>1
<1>9. CASE next_price # P[next] /\ next_price # swap.sqrt_price
  <2> DEFINE w == tick_index_from_sqrt_price(next_price)
  <2>1. u = w
    BY <1>9 DEF TickIndexAfter
  <2>2. /\ w \in TickIndex /\ P[w] <= next_price
        /\ w < MAX_TICK_INDEX => next_price < P[w + 1]
        /\ PriceAtTick(next_price, w)
    BY TickOfPrice, FoundTickMatches
  <2> HIDE DEF w, P
  <2>3. w \in Int /\ w \in CurrentTick
    <3>1. w \in Int
      BY <2>2, TickInts, Zenon
    <3> QED BY <1>4, <2>2, <3>1
  <2>4. CASE swap.a_to_b
    <3>1. next <= w
      <4> SUFFICES ASSUME w < next PROVE FALSE
        BY <1>1, <2>3
      <4>1. w < MAX_TICK_INDEX /\ w + 1 \in TickIndex /\ w + 1 <= next
        BY <1>1, <1>4, <2>2, <2>3
      <4>2. P[w + 1] <= P[next] /\ P[w + 1] \in Nat /\ P[next] \in Nat
        BY <1>3, <4>1
      <4> QED BY <1>1, <1>2, <2>2, <2>4, <4>1, <4>2
    <3>2. w <= t
      <4> SUFFICES ASSUME t < w PROVE FALSE
        BY <1>1, <2>3
      <4>1. t < MAX_TICK_INDEX /\ t + 1 \in TickIndex /\ t + 1 <= w
        BY <1>1, <1>4, <1>5, <2>2, <2>3, <2>4
      <4>2. P[t + 1] <= P[w] /\ P[t + 1] \in Nat /\ P[w] \in Nat
        BY <1>3, <2>2, <4>1
      <4>3. swap.sqrt_price <= P[t + 1]
        BY <1>1, <4>1 DEF PriceAtTick, P
      <4> QED BY <1>1, <1>2, <1>9, <2>2, <2>4, <4>2, <4>3
    <3> QED BY <1>9, <2>1, <2>2, <2>3, <2>4, <3>1, <3>2 DEF P
  <2>5. CASE ~swap.a_to_b
    <3>1. w < next
      <4> SUFFICES ASSUME next <= w PROVE FALSE
        BY <1>1, <2>3
      <4>1. P[next] <= P[w] /\ P[next] \in Nat /\ P[w] \in Nat
        BY <1>3, <2>2
      <4> QED BY <1>1, <1>2, <1>9, <2>2, <2>5, <4>1
    <3>2. t <= w
      <4> SUFFICES ASSUME w < t PROVE FALSE
        BY <1>1, <2>3
      <4>1. /\ t >= MIN_TICK_INDEX /\ t \in TickIndex
            /\ w < MAX_TICK_INDEX /\ w + 1 \in TickIndex /\ w + 1 <= t
        BY <1>1, <1>4, <2>2, <2>3
      <4>2. P[w + 1] <= P[t] /\ P[w + 1] \in Nat /\ P[t] \in Nat
        BY <1>3, <4>1
      <4>3. P[t] <= swap.sqrt_price
        BY <1>1, <4>1 DEF PriceAtTick, P
      <4> QED BY <1>1, <1>2, <2>2, <2>5, <4>1, <4>2, <4>3
    <3> QED BY <1>9, <2>1, <2>2, <2>3, <2>5, <3>1, <3>2 DEF P
  <2> QED BY <2>4, <2>5
<1> QED BY <1>6, <1>7, <1>8, <1>9

\* The liquidity on the near side of the tick found is that of the loop, and
\* crossing the tick gives that of its far side.
LEMMA CrossingFits ==
  ASSUME IInv, SwapContinues, NEW k, NEW next \in TickIndex, NextTickFound(k, next)
  PROVE  LET A(v) == Total(ActiveAt(positions, v))
             near == IF swap.a_to_b THEN next ELSE next - 1
             far == IF swap.a_to_b THEN next - 1 ELSE next
         IN  /\ swap.liquidity = A(near)
             /\ Crosses(k, next) => /\ LiquidityAcross(next) = A(far)
                                    /\ LiquidityAcross(next) \in U128
             /\ ~Crosses(k, next) => A(far) = A(near)
<1> DEFINE t == swap.tick_index
           A(v) == Total(ActiveAt(positions, v))
<1>1. /\ swap.in_progress /\ swap.a_to_b \in BOOLEAN
      /\ t \in Int /\ next \in Int /\ next - 1 \in Int
      /\ swap.liquidity = A(t)
  <2>1. /\ swap.in_progress /\ swap.a_to_b \in BOOLEAN
        /\ t \in CurrentTick /\ swap.liquidity = A(t)
    BY SwapHasRoom, SwapType DEF IInv, SwapActiveLiquidity
  <2>2. t \in Int /\ next \in Int
    BY <2>1, TickInts, Zenon
  <2> QED BY <2>1, <2>2
<1>2. /\ IF swap.a_to_b
         THEN /\ next <= t /\ \A v \in InitializedTicks : ~(next < v /\ v <= t)
         ELSE /\ t < next /\ \A v \in InitializedTicks : ~(t < v /\ v < next)
      /\ Crosses(k, next) <=> next \in InitializedTicks
  BY FoundTick
<1>3. \A v \in InitializedTicks : v \in UsableTicks /\ v \in Int
  BY TickInts DEF InitializedTicks
<1>4. A(next) \in Nat /\ A(next - 1) \in Nat
  BY <1>1, ContributionInts DEF IInv, TypeOK
<1> HIDE DEF t
<1>5. swap.a_to_b => swap.liquidity = A(next)
  <2> SUFFICES ASSUME swap.a_to_b PROVE A(next) = A(t)
    BY <1>1
  <2> QED BY <1>1, <1>2, <1>3, QuietRange
<1>6. ~swap.a_to_b => swap.liquidity = A(next - 1)
  <2> SUFFICES ASSUME ~swap.a_to_b PROVE A(t) = A(next - 1)
    BY <1>1
  <2>1. t <= next - 1 /\ \A v \in InitializedTicks : ~(t < v /\ v <= next - 1)
    BY <1>1, <1>2, <1>3
  <2> QED BY <1>1, <2>1, QuietRange
<1>7. ASSUME Crosses(k, next)
      PROVE  /\ LiquidityAcross(next) = A(IF swap.a_to_b THEN next - 1 ELSE next)
             /\ LiquidityAcross(next) \in U128
  <2>1. next \in UsableTicks
    BY <1>2, <1>3, <1>7
  <2>2. /\ A(next) - A(next - 1) = ticks[next].liquidity_net
        /\ A(next) \in U128 /\ A(next - 1) \in U128
    BY <2>1, CrossedTick
  <2> HIDE DEF A
  <2>3. CASE swap.a_to_b
    BY <1>4, <1>5, <2>2, <2>3 DEF LiquidityAcross
  <2>4. CASE ~swap.a_to_b
    BY <1>4, <1>6, <2>2, <2>4 DEF LiquidityAcross
  <2> QED BY <2>3, <2>4
<1>8. ASSUME ~Crosses(k, next) PROVE A(next - 1) = A(next)
  <2>1. \A v \in InitializedTicks : ~(next - 1 < v /\ v <= next)
    BY <1>1, <1>2, <1>3, <1>8
  <2> QED BY <1>1, <2>1, QuietRange
<1> QED BY <1>1, <1>5, <1>6, <1>7, <1>8

\* A step keeps the liquidity of the loop that of the positions in range.
LEMMA LiquidityMoves ==
  ASSUME IInv, SwapContinues, NEW k, NEW next \in TickIndex, NextTickFound(k, next),
         NEW next_price \in SqrtPrice, NEW amount_remains \in BOOLEAN,
         ComputeSwap(SqrtPriceTarget(next), next_price, amount_remains)
  PROVE  (IF /\ next_price = sqrt_price_from_tick_index[next]
             /\ Crosses(k, next)
          THEN LiquidityAcross(next) ELSE swap.liquidity)
            = Total(ActiveAt(positions, TickIndexAfter(next, next_price)))
<1> DEFINE t == swap.tick_index
           u == TickIndexAfter(next, next_price)
           A(v) == Total(ActiveAt(positions, v))
           near == IF swap.a_to_b THEN next ELSE next - 1
           far == IF swap.a_to_b THEN next - 1 ELSE next
<1>1. /\ swap.in_progress /\ swap.a_to_b \in BOOLEAN
      /\ t \in CurrentTick /\ swap.liquidity = A(t)
  BY SwapHasRoom, SwapType DEF IInv, SwapActiveLiquidity
<1>2. t \in Int /\ next \in Int
  BY <1>1, TickInts, Zenon
<1>3. /\ u \in Int
      /\ IF next_price = sqrt_price_from_tick_index[next]
         THEN u = far
         ELSE IF swap.a_to_b THEN next <= u /\ u <= t ELSE t <= u /\ u < next
  BY TickMoves, TickInts
<1>4. /\ swap.liquidity = A(near)
      /\ Crosses(k, next) => LiquidityAcross(next) = A(far)
      /\ ~Crosses(k, next) => A(far) = A(near)
  BY CrossingFits
<1>5. IF swap.a_to_b
      THEN \A v \in InitializedTicks : ~(next < v /\ v <= t)
      ELSE \A v \in InitializedTicks : ~(t < v /\ v < next)
  BY FoundTick
<1>6. \A v \in InitializedTicks : v \in Int
  BY TickInts DEF InitializedTicks
<1> HIDE DEF u, t
<1>7. CASE next_price = sqrt_price_from_tick_index[next]
  <2>1. u = far
    BY <1>3, <1>7
  <2> QED BY <1>4, <1>7, <2>1, Zenon DEF u
<1>8. CASE next_price # sqrt_price_from_tick_index[next] /\ swap.a_to_b
  <2>1. u <= t /\ \A v \in InitializedTicks : ~(u < v /\ v <= t)
    BY <1>2, <1>3, <1>5, <1>6, <1>8
  <2>2. A(u) = A(t)
    BY <1>2, <1>3, <2>1, QuietRange
  <2> QED BY <1>1, <1>8, <2>2 DEF u
<1>9. CASE next_price # sqrt_price_from_tick_index[next] /\ ~swap.a_to_b
  <2>1. t <= u /\ \A v \in InitializedTicks : ~(t < v /\ v <= u)
    BY <1>2, <1>3, <1>5, <1>6, <1>9
  <2>2. A(t) = A(u)
    BY <1>2, <1>3, <2>1, QuietRange
  <2> QED BY <1>1, <1>9, <2>2 DEF u
<1> QED BY <1>1, <1>7, <1>8, <1>9

\* An iteration of the loop, as section 4 of the README outlines it.
LEMMA SwapStepInv ==
  ASSUME IInv, SwapStep
  PROVE  IInv'
<1>1. PICK k \in DOMAIN swap.arrays, next \in TickIndex :
         /\ SwapContinues
         /\ NextTickFound(k, next)
         /\ \E next_price \in SqrtPrice, amount_remains \in BOOLEAN :
               SwapIteration(k, next, next_price, amount_remains)
  BY Zenon DEF SwapStep
<1>2. PICK next_price \in SqrtPrice, amount_remains \in BOOLEAN :
         /\ ComputeSwap(SqrtPriceTarget(next), next_price, amount_remains)
         /\ Advance(k, next, next_price, amount_remains)
         /\ UNCHANGED <<pool, tick_arrays, ticks, positions>>
  BY <1>1, Zenon DEF SwapIteration
<1> DEFINE reached == next_price = sqrt_price_from_tick_index[next]
           u == TickIndexAfter(next, next_price)
           across == IF reached /\ Crosses(k, next)
                     THEN LiquidityAcross(next) ELSE swap.liquidity
           index == IF reached
                    THEN NextArrayIndex(swap.arrays, k, next, swap.a_to_b)
                    ELSE swap.array_index
<1>3. UNCHANGED <<pool, tick_arrays, ticks, positions>>
  BY <1>2
<1>4. swap \in Swap /\ swap.in_progress /\ swap.array_index \in 1 .. 4
      /\ swap.liquidity \in U128
  BY <1>1, SwapHasRoom, SwapType
<1>5. swap' = [swap EXCEPT !.amount_remains = amount_remains,
                           !.sqrt_price = next_price,
                           !.tick_index = u,
                           !.liquidity = across,
                           !.array_index = index]
  BY <1>2, Zenon DEF Advance
<1>6. /\ u \in CurrentTick /\ PriceAtTick(next_price, u)
  BY <1>1, <1>2, TickMoves
<1>7. across = Total(ActiveAt(positions, u))
  BY <1>1, <1>2, LiquidityMoves
<1>8. across \in U128
  BY <1>1, <1>4, CrossingFits
<1>9. index \in 1 .. 4
  BY <1>1, <1>4, FoundTick DEF NextArrayIndex
<1>10. IF swap.a_to_b THEN swap.limit <= next_price ELSE next_price <= swap.limit
  BY <1>1, <1>2, TargetInOrder
<1> HIDE DEF u, across, index
<1>11. /\ swap' \in Swap
       /\ swap'.in_progress /\ swap'.sqrt_price = next_price
       /\ swap'.a_to_b = swap.a_to_b /\ swap'.limit = swap.limit
       /\ swap'.tick_index = u /\ swap'.liquidity = across
  BY <1>4, <1>5, <1>6, <1>8, <1>9 DEF Swap
<1>12. TypeOK'
  BY <1>3, <1>11 DEF IInv, TypeOK
<1>13. SwapActiveLiquidity'
  BY <1>3, <1>7, <1>11 DEF SwapActiveLiquidity
<1>14. PriceMatchesTick'
  BY <1>3, <1>6, <1>11 DEF IInv, PriceMatchesTick
<1>15. SwapTowardsLimit'
  BY <1>10, <1>11 DEF SwapTowardsLimit
<1> QED BY <1>3, <1>12, <1>13, <1>14, <1>15
        DEF IInv, PositionsOK, SupplyOK, TickLiquidity, ActiveLiquidity

-----------------------------------------------------------------------------
\* The theorems.

\* Every step preserves the invariant.
LEMMA NextInv == IInv /\ [Next]_vars => IInv'
<1> SUFFICES ASSUME IInv, [Next]_vars PROVE IInv'
  OBVIOUS
<1>1. ASSUME NEW start \in StartTicks, InitializeTickArray(start) PROVE IInv'
  BY <1>1, InitializeTickArrayInv
<1>2. ASSUME NEW p \in PositionId, NEW lower \in UsableTicks,
             NEW upper \in UsableTicks, OpenPosition(p, lower, upper)
      PROVE  IInv'
  BY <1>2, OpenPositionInv
<1>3. ASSUME NEW p \in PositionId, ClosePosition(p) PROVE IInv'
  BY <1>3, ClosePositionInv
<1>4. ASSUME NEW p \in PositionId, NEW amount \in LiquidityAmounts,
             IncreaseLiquidity(p, amount)
      PROVE  IInv'
  BY <1>4, IncreaseLiquidityInv
<1>5. ASSUME NEW p \in PositionId, NEW amount \in LiquidityAmounts,
             DecreaseLiquidity(p, amount)
      PROVE  IInv'
  BY <1>5, DecreaseLiquidityInv
<1>6. ASSUME NEW a_to_b \in BOOLEAN, NEW limit \in SqrtPriceLimits,
             NEW arrays \in SwapTickSequence(tick_arrays),
             SwapStart(a_to_b, limit, arrays)
      PROVE  IInv'
  BY <1>6, SwapStartInv
<1>7. CASE SwapStep
  BY <1>7, SwapStepInv
<1>8. CASE SwapEnd
  BY <1>8, SwapEndInv
<1>9. CASE SwapFail
  BY <1>9, SwapAbortInv DEF SwapFail
<1>10. CASE SwapReject
  BY <1>10, SwapAbortInv DEF SwapReject
<1>11. CASE UNCHANGED vars
  BY <1>11
  DEF vars, IInv, TypeOK, PositionsOK, SupplyOK, TickLiquidity, ActiveLiquidity,
      SwapActiveLiquidity, PriceMatchesTick, SwapTowardsLimit
<1> QED BY <1>1, <1>2, <1>3, <1>4, <1>5, <1>6, <1>7, <1>8, <1>9, <1>10, <1>11
        DEF Next

\* The invariant holds of every reachable state.
THEOREM Invariance == Spec => []IInv
BY InitInv, NextInv, PTL DEF Spec

\* Every variable has its type.
THEOREM TypeCorrect == Spec => []TypeOK
<1>1. IInv => TypeOK
  BY DEF IInv
<1> QED BY Invariance, <1>1, PTL

\* The pool's liquidity is that of the positions in range, always.
THEOREM ActiveLiquidityHolds == Spec => []ActiveLiquidity
<1>1. IInv => ActiveLiquidity
  BY DEF IInv
<1> QED BY Invariance, <1>1, PTL

\* So is the loop's at each of its iterations.
THEOREM SwapActiveLiquidityHolds == Spec => []SwapActiveLiquidity
<1>1. IInv => SwapActiveLiquidity
  BY DEF IInv
<1> QED BY Invariance, <1>1, PTL

\* A tick records exactly the positions that begin or end there.
THEOREM TickLiquidityHolds == Spec => []TickLiquidity
<1>1. IInv => TickLiquidity
  BY DEF IInv
<1> QED BY Invariance, <1>1, PTL

\* The price and the current tick agree, in the pool and in the loop.
THEOREM PriceMatchesTickHolds == Spec => []PriceMatchesTick
<1>1. IInv => PriceMatchesTick
  BY DEF IInv
<1> QED BY Invariance, <1>1, PTL

\* No crossing overflows or underflows.
THEOREM CrossingSucceedsHolds == Spec => []CrossingSucceeds
<1>1. IInv => CrossingSucceeds
  BY CrossingFits DEF CrossingSucceeds
<1> QED BY Invariance, <1>1, PTL

\* An iteration that leaves something to trade has reached the tick it found,
\* unless it stopped at the limit.
LEMMA ReachesNext ==
  ASSUME NEW next, NEW next_price, next_price # swap.limit,
         ComputeSwap(SqrtPriceTarget(next), next_price, TRUE)
  PROVE  next_price = sqrt_price_from_tick_index[next]
<1>1. next_price = SqrtPriceTarget(next)
  BY DEF ComputeSwap
<1> QED
  BY <1>1 DEF SqrtPriceTarget

\* It then leaves that tick behind, which was not behind it before.
LEMMA TickAdvances ==
  ASSUME IInv, SwapContinues, NEW k, NEW next \in TickIndex, NextTickFound(k, next),
         NEW next_price \in SqrtPrice, next_price # swap.limit,
         ComputeSwap(SqrtPriceTarget(next), next_price, TRUE)
  PROVE  IF swap.a_to_b
         THEN TickIndexAfter(next, next_price) < swap.tick_index
         ELSE swap.tick_index < TickIndexAfter(next, next_price)
<1>1. TickIndexAfter(next, next_price) = IF swap.a_to_b THEN next - 1 ELSE next
  BY ReachesNext DEF TickIndexAfter
<1>2. IF swap.a_to_b THEN next <= swap.tick_index ELSE swap.tick_index < next
  BY FoundTick
<1>3. swap.tick_index \in Int /\ next \in Int
  BY SwapHasRoom, SwapType, TickInts
<1> QED
  BY <1>1, <1>2, <1>3

\* An iteration after which the loop goes on moves the tick on.
THEOREM IterationsAdvanceHolds == Spec => []IterationsAdvance
<1>1. IInv => IterationsAdvance
  <2> SUFFICES ASSUME IInv, SwapContinues, NEW k \in DOMAIN swap.arrays,
                      NEW next \in TickIndex, NextTickFound(k, next),
                      NEW next_price \in SqrtPrice \ {swap.limit},
                      ComputeSwap(SqrtPriceTarget(next), next_price, TRUE)
               PROVE  IF swap.a_to_b
                      THEN TickIndexAfter(next, next_price) < swap.tick_index
                      ELSE swap.tick_index < TickIndexAfter(next, next_price)
    BY DEF IterationsAdvance
  <2>1. next_price \in SqrtPrice /\ next_price # swap.limit
    OBVIOUS
  <2> QED
    BY <2>1, TickAdvances
<1> QED BY Invariance, <1>1, PTL

\* The ticks that a swap may still pass.
TicksLeft == IF swap.a_to_b THEN swap.tick_index - MIN_TICK_INDEX
                            ELSE MAX_TICK_INDEX - swap.tick_index

\* While the loop runs there are ticks ahead of it.
LEMMA TicksAhead ==
  IInv /\ SwapContinues => TicksLeft \in Nat /\ swap.tick_index \in Int
<1> SUFFICES ASSUME IInv, SwapContinues
             PROVE  TicksLeft \in Nat /\ swap.tick_index \in Int
  OBVIOUS
<1>1. /\ swap.a_to_b => swap.tick_index >= MIN_TICK_INDEX
      /\ ~swap.a_to_b => swap.tick_index < MAX_TICK_INDEX
      /\ swap.tick_index \in Int
  BY SwapHasRoom, SwapType, TickInts
<1>2. MIN_TICK_INDEX \in Int /\ MAX_TICK_INDEX \in Int
  BY TickInts
<1> QED
  BY <1>1, <1>2 DEF TicksLeft

\* The variant of the loop of a swap: a number that each iteration lowers after
\* which the loop goes on.  No swap has more iterations than the pool has ticks.
THEOREM LoopVariant ==
  Spec => [][SwapStep /\ SwapContinues'
                => TicksLeft' \in Nat /\ TicksLeft \in Nat /\ TicksLeft' < TicksLeft]_vars
<1>1. ASSUME IInv, IInv', SwapStep, SwapContinues'
      PROVE  TicksLeft' \in Nat /\ TicksLeft \in Nat /\ TicksLeft' < TicksLeft
  <2>1. PICK k \in DOMAIN swap.arrays, next \in TickIndex :
           /\ NextTickFound(k, next)
           /\ \E next_price \in SqrtPrice, amount_remains \in BOOLEAN :
                 SwapIteration(k, next, next_price, amount_remains)
    BY <1>1 DEF SwapStep
  <2>2. PICK next_price \in SqrtPrice, amount_remains \in BOOLEAN :
           SwapIteration(k, next, next_price, amount_remains)
    BY <2>1
  <2>3. SwapContinues /\ swap \in Swap
    BY <1>1, SwapHasRoom, SwapType DEF SwapStep
  <2>4. /\ swap'.amount_remains = amount_remains
        /\ swap'.sqrt_price = next_price
        /\ swap'.tick_index = TickIndexAfter(next, next_price)
        /\ swap'.limit = swap.limit /\ swap'.a_to_b = swap.a_to_b
    BY <2>2, <2>3 DEF SwapIteration, Advance, Swap
  <2>5. amount_remains = TRUE /\ next_price # swap.limit
    BY <1>1, <2>4 DEF SwapContinues
  <2>6. IF swap.a_to_b THEN swap'.tick_index < swap.tick_index
                       ELSE swap.tick_index < swap'.tick_index
    <3>1. ComputeSwap(SqrtPriceTarget(next), next_price, TRUE)
      BY <2>2, <2>5 DEF SwapIteration
    <3> QED
      BY <1>1, <2>1, <2>3, <2>4, <2>5, <3>1, TickAdvances
  <2>7. TicksLeft \in Nat /\ swap.tick_index \in Int
    BY <1>1, <2>3, TicksAhead
  <2>8. (TicksLeft \in Nat /\ swap.tick_index \in Int)'
    BY <1>1, TicksAhead, PTL
  <2>9. MIN_TICK_INDEX \in Int /\ MAX_TICK_INDEX \in Int
    BY TickInts
  <2>10. TicksLeft' < TicksLeft
    BY <2>4, <2>6, <2>7, <2>8, <2>9 DEF TicksLeft
  <2> QED
    BY <2>7, <2>8, <2>10
<1> QED
  BY Invariance, <1>1, PTL DEF Spec

\* A position with liquidity can be emptied.
LEMMA PositionEmpties ==
  ASSUME IInv, NEW p \in PositionId, positions[p].liquidity > 0
  PROVE  CanModify(positions[p], -positions[p].liquidity)
<1> DEFINE lower == positions[p].tick_lower_index
           upper == positions[p].tick_upper_index
           amount == positions[p].liquidity
           E(t) == Total(Entering(positions, t))
           L(t) == Total(Leaving(positions, t))
<1>1. /\ positions \in [PositionId -> Position] /\ pool \in Pool
      /\ WellFormed(positions[p], tick_arrays)
  BY DEF IInv, TypeOK, PositionsOK
<1>2. /\ amount \in Nat /\ amount > 0 /\ amount \in U128
      /\ lower \in UsableTicks /\ upper \in UsableTicks
      /\ lower \in Int /\ upper \in Int
  <2>1. amount \in Nat /\ amount \in U128
    BY <1>1, PositionTypes
  <2>2. positions[p].liquidity # 0
    OBVIOUS
  <2>3. lower \in UsableTicks /\ upper \in UsableTicks
    BY <1>1, <2>2 DEF WellFormed
  <2>4. lower \in Int /\ upper \in Int
    BY <2>3, TickInts
  <2> QED BY <2>1, <2>3, <2>4
<1>3. HasTick(lower) /\ HasTick(upper)
  BY <1>1 DEF WellFormed, HasTick
<1>4. ASSUME NEW t \in Int
      PROVE  /\ E(t) \in Nat /\ L(t) \in Nat
             /\ E(t) <= MAX_I128 /\ L(t) <= MAX_I128
             /\ lower = t => amount <= E(t)
             /\ upper = t => amount <= L(t)
             /\ lower <= t /\ t < upper => amount <= Total(ActiveAt(positions, t))
             /\ Total(ActiveAt(positions, t)) \in Nat
  <2>1. /\ E(t) \in Nat /\ L(t) \in Nat /\ Total(LiquidityOf(positions)) \in Nat
        /\ Total(ActiveAt(positions, t)) \in Nat
    BY <1>1, ContributionInts
  <2>2. /\ E(t) <= Total(LiquidityOf(positions))
        /\ L(t) <= Total(LiquidityOf(positions))
        /\ Entering(positions, t)[p] <= E(t)
        /\ Leaving(positions, t)[p] <= L(t)
        /\ ActiveAt(positions, t)[p] <= Total(ActiveAt(positions, t))
    BY <1>1, ContributionBounds
  <2>3. /\ Total(LiquidityOf(positions)) <= LiquiditySupply
        /\ LiquiditySupply \in Nat /\ LiquiditySupply <= MAX_I128 /\ MAX_I128 \in Nat
    BY LiquidityAssumption DEF IInv, SupplyOK
  <2>4. /\ lower = t => Entering(positions, t)[p] = amount
        /\ upper = t => Leaving(positions, t)[p] = amount
        /\ lower <= t /\ t < upper => ActiveAt(positions, t)[p] = amount
    BY DEF Entering, Leaving, ActiveAt
  <2> HIDE DEF E, L, lower, upper, amount
  <2> QED BY <2>1, <2>2, <2>3, <2>4
<1>5. /\ ticks[lower].liquidity_net = E(lower) - L(lower)
      /\ ticks[lower].liquidity_gross = E(lower) + L(lower)
      /\ ticks[upper].liquidity_net = E(upper) - L(upper)
      /\ ticks[upper].liquidity_gross = E(upper) + L(upper)
  BY <1>2 DEF IInv, TickLiquidity
<1>6. /\ MAX_I128 \in Nat /\ MAX_U128 = 2 * MAX_I128 + 1
  BY LiquidityAssumption
<1>7. /\ pool.tick_current_index \in Int
      /\ pool.liquidity = Total(ActiveAt(positions, pool.tick_current_index))
      /\ pool.liquidity \in U128
  <2>1. pool.tick_current_index \in CurrentTick
    BY <1>1 DEF Pool
  <2> QED BY <1>1, <2>1, TickInts DEF IInv, ActiveLiquidity, Pool
<1> HIDE DEF E, L
<1>8. InRange(positions[p]) => CanAdd(pool.liquidity, -amount)
  <2> SUFFICES ASSUME InRange(positions[p]) PROVE CanAdd(pool.liquidity, -amount)
    OBVIOUS
  <2>1. lower <= pool.tick_current_index /\ pool.tick_current_index < upper
    BY <1>2, <1>7 DEF InRange
  <2>2. amount <= pool.liquidity
    BY <1>4, <1>7, <2>1
  <2> QED BY <1>2, <1>6, <1>7, <2>2 DEF CanAdd, U128
<1>9. CanUpdateTick(ticks[lower], -amount, FALSE)
  BY <1>2, <1>4, <1>5, <1>6 DEF CanUpdateTick, CanAdd, SignedNet, U128, I128
<1>10. CanUpdateTick(ticks[upper], -amount, TRUE)
  BY <1>2, <1>4, <1>5, <1>6 DEF CanUpdateTick, CanAdd, SignedNet, U128, I128
<1>11. CanAdd(amount, -amount)
  BY <1>2, <1>6 DEF CanAdd, U128
<1> QED BY <1>3, <1>8, <1>9, <1>10, <1>11, Zenon DEF CanModify

\* Withdrawing everything is always possible between two instructions.
THEOREM WithdrawableHolds == Spec => []Withdrawable
<1>1. IInv => Withdrawable
  BY PositionEmpties DEF Withdrawable
<1> QED BY Invariance, <1>1, PTL

-----------------------------------------------------------------------------
(***************************************************************************)
(* Growth per unit of liquidity, of fees or of a reward, is kept by a pool *)
(* in the same way: a counter for the whole pool, and for each tick how    *)
(* much of it accrued on the other side of the tick.  What follows is of   *)
(* any such counter, and does not say what makes it grow.                  *)
(***************************************************************************)
\* Counters of 128 bits.

CounterSize == MAX_U128 + 1
Wrap(x) == x % CounterSize

\* They are numbers,
LEMMA U128Number ==
  ASSUME NEW x \in U128
  PROVE  x \in Nat /\ x \in Int
BY U128Nat DEF U128

\* and wrap to what fits them.
LEMMA WrapType ==
  ASSUME NEW x \in Int
  PROVE  Wrap(x) \in U128 /\ Wrap(x) \in Nat
<1>1. CounterSize \in Nat \ {0} /\ U128 = 0 .. CounterSize - 1
  BY U128Nat DEF CounterSize, U128
<1> QED
  BY <1>1, Remainder DEF Wrap

\* What fits is left alone.
LEMMA WrapFits ==
  ASSUME NEW x \in U128
  PROVE  Wrap(x) = x
<1>1. CounterSize \in Nat \ {0} /\ U128 = 0 .. CounterSize - 1
  BY U128Nat DEF CounterSize, U128
<1> QED
  BY <1>1, ModSmall DEF Wrap

\* A sum or a difference may wrap at every operation, or once at the end.
LEMMA WrapOnce ==
  ASSUME NEW a \in Int, NEW b \in Int
  PROVE  /\ Wrap(Wrap(a) + b) = Wrap(a + b)
         /\ Wrap(Wrap(a) - b) = Wrap(a - b)
         /\ Wrap(b - Wrap(a)) = Wrap(b - a)
<1>1. CounterSize \in Nat \ {0}
  BY U128Nat DEF CounterSize
<1>2. ((a % CounterSize) + b) % CounterSize = (a + b) % CounterSize
  BY <1>1, ModAdd, Zenon
<1>3. ((a % CounterSize) - b) % CounterSize = (a - b) % CounterSize
  BY <1>1, ModMinus, Zenon
<1>4. (b - (a % CounterSize)) % CounterSize = (b - a) % CounterSize
  BY <1>1, ModSub, Zenon
<1> QED
  BY <1>2, <1>3, <1>4, Zenon DEF Wrap

\* Wrapping up never makes a number larger.
LEMMA WrapShrinks ==
  ASSUME NEW x \in Nat
  PROVE  Wrap(x) <= x /\ Wrap(x) \in Nat
<1>1. CounterSize \in Nat \ {0}
  BY U128Nat DEF CounterSize
<1>2. x % CounterSize <= x
  BY <1>1, ModShrinks
<1> QED
  BY <1>2, WrapType DEF Wrap

-----------------------------------------------------------------------------
\* Growth below, above and inside.

\* The counters of a pool, or of a swap's copy of it.
Counts(books) ==
    /\ books.growth \in U128
    /\ books.outside \in [UsableTicks -> U128]

\* The growth below and above a tick, as the code computes it from what is stored.
BelowIn(stored, books, t, current) ==
    IF ~stored[t].initialized THEN books.growth
    ELSE IF current < t
    THEN Wrap(books.growth - books.outside[t])
    ELSE books.outside[t]

AboveIn(stored, books, t, current) ==
    IF ~stored[t].initialized THEN 0
    ELSE IF current < t
    THEN books.outside[t]
    ELSE Wrap(books.growth - books.outside[t])

\* The growth above a tick is the rest of the growth, whether the tick is in
\* use or not, and wherever the current tick is.
LEMMA AboveIsRest ==
  ASSUME NEW stored, NEW books, Counts(books), NEW t \in UsableTicks,
         NEW current \in Int
  PROVE  /\ BelowIn(stored, books, t, current) \in U128
         /\ AboveIn(stored, books, t, current)
               = Wrap(books.growth - BelowIn(stored, books, t, current))
<1> DEFINE G == books.growth
           O == books.outside[t]
<1>0. G \in U128 /\ O \in U128
  BY DEF Counts
<1>1. G \in U128 /\ O \in U128 /\ G \in Int /\ O \in Int
  BY <1>0, U128Nat
<1>2. CASE ~stored[t].initialized
  <2>1. 0 \in U128 /\ G - G = 0
    BY <1>1, U128Nat DEF U128
  <2>2. Wrap(0) = 0
    BY <2>1, WrapFits
  <2> QED
    BY <1>1, <1>2, <2>1, <2>2 DEF BelowIn, AboveIn
<1>3. CASE stored[t].initialized /\ current < t
  <2>1. /\ BelowIn(stored, books, t, current) = Wrap(G - O)
        /\ AboveIn(stored, books, t, current) = O
    BY <1>3 DEF BelowIn, AboveIn
  <2>2. G - O \in Int /\ G - (G - O) = O
    BY <1>1
  <2>3. Wrap(G - Wrap(G - O)) = Wrap(G - (G - O))
    BY <1>1, <2>2, WrapOnce
  <2>4. Wrap(O) = O
    BY <1>1, WrapFits
  <2> QED
    BY <1>1, <2>1, <2>2, <2>3, <2>4, WrapType
<1>4. CASE stored[t].initialized /\ ~(current < t)
  BY <1>1, <1>4 DEF BelowIn, AboveIn
<1> QED
  BY <1>2, <1>3, <1>4

\* So the growth inside a range is the difference of the growths below its ends.
InsideIn(stored, books, position, current) ==
    Wrap(BelowIn(stored, books, position.tick_upper_index, current)
           - BelowIn(stored, books, position.tick_lower_index, current))

\* The code subtracts what is below and above from the whole
\* (next_fee_growths_inside, next_reward_growths_inside).
CodedInside(stored, books, position, current) ==
    Wrap(Wrap(books.growth
               - BelowIn(stored, books, position.tick_lower_index, current))
          - AboveIn(stored, books, position.tick_upper_index, current))

LEMMA InsideIsDifference ==
  ASSUME NEW stored, NEW books, Counts(books), NEW position, NEW current \in Int,
         position.tick_lower_index \in UsableTicks,
         position.tick_upper_index \in UsableTicks
  PROVE  CodedInside(stored, books, position, current)
            = InsideIn(stored, books, position, current)
<1> DEFINE G == books.growth
           L == BelowIn(stored, books, position.tick_lower_index, current)
           U == BelowIn(stored, books, position.tick_upper_index, current)
           above == AboveIn(stored, books, position.tick_upper_index, current)
<1>1. L \in U128 /\ U \in U128 /\ above = Wrap(G - U) /\ G \in U128
  BY AboveIsRest DEF Counts
<1> HIDE DEF G, L, U, above
<1>3. /\ G \in Int /\ L \in Int /\ U \in Int /\ G - L \in Int /\ G - U \in Int
      /\ (G - L) - (G - U) = U - L
  BY <1>1, U128Nat
<1>4. Wrap(G - U) \in Int
  BY <1>3, WrapType
<1>5. Wrap(Wrap(G - L) - Wrap(G - U)) = Wrap((G - L) - Wrap(G - U))
  BY <1>3, <1>4, WrapOnce
<1>6. Wrap((G - L) - Wrap(G - U)) = Wrap((G - L) - (G - U))
  BY <1>3, WrapOnce
<1> QED
  BY <1>1, <1>3, <1>5, <1>6 DEF L, U, G, above, InsideIn, CodedInside

\* What a position can still claim, in those terms.
Due(stored, books, position, checkpoint, current) ==
    IF position.liquidity = 0 THEN 0
    ELSE Wrap(InsideIn(stored, books, position, current) - checkpoint)

Dues(stored, books, accounts, checkpoints, current) ==
    [p \in PositionId |-> Due(stored, books, accounts[p], checkpoints[p], current)]

\* Positions with liquidity have ticks that can be stored.
Placed(accounts) ==
    /\ accounts \in [PositionId -> Position]
    /\ \A p \in PositionId : accounts[p].liquidity > 0 =>
          /\ accounts[p].tick_lower_index \in UsableTicks
          /\ accounts[p].tick_upper_index \in UsableTicks
          /\ accounts[p].tick_lower_index < accounts[p].tick_upper_index

\* Unclaimed, of given ticks and positions.
UnclaimedIn(stored, books, accounts, checkpoints, current) ==
    [p \in PositionId |->
        IF accounts[p].liquidity = 0 THEN 0
        ELSE Wrap(CodedInside(stored, books, accounts[p], current) - checkpoints[p])]

\* It is the same, and fits its counter.
LEMMA DuesOf ==
  ASSUME NEW stored, NEW books, Counts(books), NEW accounts, Placed(accounts),
         NEW checkpoints \in [PositionId -> U128], NEW current \in Int
  PROVE  /\ UnclaimedIn(stored, books, accounts, checkpoints, current)
             = Dues(stored, books, accounts, checkpoints, current)
         /\ Dues(stored, books, accounts, checkpoints, current) \in [PositionId -> U128]
<1>1. ASSUME NEW p \in PositionId, accounts[p].liquidity # 0
      PROVE  /\ accounts[p].tick_lower_index \in UsableTicks
             /\ accounts[p].tick_upper_index \in UsableTicks
  <2>1. accounts[p].liquidity \in Nat
    BY PositionTypes DEF Placed
  <2> QED
    BY <1>1, <2>1 DEF Placed
<1>2. ASSUME NEW p \in PositionId, accounts[p].liquidity # 0
      PROVE  Wrap(CodedInside(stored, books, accounts[p], current) - checkpoints[p])
             = Due(stored, books, accounts[p], checkpoints[p], current)
  BY <1>1, <1>2, InsideIsDifference DEF Due
<1>3. ASSUME NEW p \in PositionId
      PROVE  Due(stored, books, accounts[p], checkpoints[p], current) \in U128
  <2>1. CASE accounts[p].liquidity = 0
    BY <2>1, U128Nat DEF Due, U128
  <2>2. CASE accounts[p].liquidity # 0
    <3> DEFINE L == BelowIn(stored, books, accounts[p].tick_lower_index, current)
               U == BelowIn(stored, books, accounts[p].tick_upper_index, current)
    <3>1. L \in U128 /\ U \in U128
      BY <1>1, <2>2, AboveIsRest
    <3> HIDE DEF L, U
    <3>2. L \in Int /\ U \in Int /\ U - L \in Int
      BY <3>1, U128Nat
    <3>3. checkpoints[p] \in U128
      OBVIOUS
    <3>4. checkpoints[p] \in Int
      BY <3>3, U128Nat DEF U128
    <3>5. InsideIn(stored, books, accounts[p], current) = Wrap(U - L)
      BY DEF InsideIn, L, U
    <3>6. InsideIn(stored, books, accounts[p], current) \in Int
      BY <3>2, <3>5, WrapType
    <3> QED
      BY <2>2, <3>6, <3>4, WrapType DEF Due
  <2> QED
    BY <2>1, <2>2
<1>4. Dues(stored, books, accounts, checkpoints, current) \in [PositionId -> U128]
  BY <1>3 DEF Dues
<1>5. ASSUME NEW p \in PositionId, accounts[p].liquidity = 0
      PROVE  Due(stored, books, accounts[p], checkpoints[p], current) = 0
  BY <1>5 DEF Due
<1> QED
  BY <1>2, <1>4, <1>5 DEF Dues, UnclaimedIn

-----------------------------------------------------------------------------
\* A step that adds g to the growth while c is the current tick, and leaves d.

\* A tick between the two trades its sides, and no other does.
TradesSides(old, new, v, c, d) ==
    new.outside[v] =
        IF (c < v) = (d < v)
        THEN old.outside[v]
        ELSE Wrap(new.growth - old.outside[v])

\* Then the growth is below exactly the ticks above the current one.
LEMMA BelowMoves ==
  ASSUME NEW stored, NEW old, NEW new, Counts(old), Counts(new),
         NEW c \in Int, NEW d \in Int, NEW g \in Int,
         new.growth = Wrap(old.growth + g),
         NEW v \in UsableTicks, stored[v].initialized, TradesSides(old, new, v, c, d)
  PROVE  BelowIn(stored, new, v, d)
            = Wrap(BelowIn(stored, old, v, c) + (IF c < v THEN g ELSE 0))
<1> DEFINE G == old.growth
           H == new.growth
           O == old.outside[v]
           P == new.outside[v]
<1>0. v \in Int
  BY TickInts
<1>1. /\ G \in U128 /\ O \in U128 /\ H \in U128 /\ P \in U128
      /\ H = Wrap(G + g)
      /\ P = IF (c < v) = (d < v) THEN O ELSE Wrap(H - O)
      /\ BelowIn(stored, old, v, c) = IF c < v THEN Wrap(G - O) ELSE O
      /\ BelowIn(stored, new, v, d) = IF d < v THEN Wrap(H - P) ELSE P
  BY <1>0 DEF Counts, TradesSides, BelowIn
<1> HIDE DEF G, H, O, P
<1>2. G \in Int /\ O \in Int /\ H \in Int /\ P \in Int
  BY <1>1, U128Nat
<1>3. Wrap(H - O) = Wrap(Wrap(G - O) + g)
  <2>1. G + g \in Int /\ G - O \in Int /\ (G + g) - O = (G - O) + g
    BY <1>2
  <2>2. Wrap(H - O) = Wrap((G + g) - O)
    BY <1>1, <1>2, <2>1, WrapOnce
  <2>3. Wrap((G - O) + g) = Wrap(Wrap(G - O) + g)
    BY <1>2, <2>1, WrapOnce
  <2> QED
    BY <2>1, <2>2, <2>3
<1>4. Wrap(O + 0) = O
  BY <1>1, <1>2, WrapFits
<1>5. CASE (c < v) = (d < v)
  BY <1>1, <1>3, <1>4, <1>5
<1>6. CASE c < v /\ ~(d < v)
  BY <1>1, <1>3, <1>6
<1>7. CASE ~(c < v) /\ d < v
  <2>1. P = Wrap(H - O)
    BY <1>1, <1>7
  <2>2. H - O \in Int /\ H - (H - O) = O
    BY <1>2
  <2>3. Wrap(H - P) = Wrap(H - (H - O))
    BY <1>2, <2>1, <2>2, WrapOnce
  <2> QED
    BY <1>1, <1>4, <1>7, <1>2, <2>2, <2>3
<1> QED
  BY <1>5, <1>6, <1>7

\* The whole step.
Accrues(stored, old, new, c, d, g) ==
    /\ Counts(old) /\ Counts(new)
    /\ c \in Int /\ d \in Int /\ g \in Int
    /\ new.growth = Wrap(old.growth + g)
    /\ \A v \in UsableTicks : stored[v].initialized => TradesSides(old, new, v, c, d)

\* A position between two ticks in use.
Spans(stored, position) ==
    /\ position.tick_lower_index \in UsableTicks
    /\ position.tick_upper_index \in UsableTicks
    /\ stored[position.tick_lower_index].initialized
    /\ stored[position.tick_upper_index].initialized
    /\ position.tick_lower_index <= position.tick_upper_index

\* So a position in range is credited with g, and no other with anything.
LEMMA InsideMoves ==
  ASSUME NEW stored, NEW old, NEW new, NEW c, NEW d, NEW g,
         Accrues(stored, old, new, c, d, g),
         NEW position, Spans(stored, position), NEW checkpoint \in Int
  PROVE  Wrap(InsideIn(stored, new, position, d) - checkpoint)
            = IF position.tick_lower_index <= c /\ c < position.tick_upper_index
              THEN Wrap(Wrap(InsideIn(stored, old, position, c) - checkpoint) + g)
              ELSE Wrap(InsideIn(stored, old, position, c) - checkpoint)
<1> USE DEF Accrues, Spans
<1> DEFINE l == position.tick_lower_index
           u == position.tick_upper_index
           gl == IF c < l THEN g ELSE 0
           gu == IF c < u THEN g ELSE 0
           L == BelowIn(stored, old, l, c)
           U == BelowIn(stored, old, u, c)
<1>1. /\ l \in UsableTicks /\ u \in UsableTicks /\ l \in Int /\ u \in Int
      /\ L \in U128 /\ U \in U128
  BY TickInts, AboveIsRest
<1>2. /\ BelowIn(stored, new, l, d) = Wrap(L + gl)
      /\ BelowIn(stored, new, u, d) = Wrap(U + gu)
  BY BelowMoves
<1>3. /\ InsideIn(stored, old, position, c) = Wrap(U - L)
      /\ InsideIn(stored, new, position, d) = Wrap(Wrap(U + gu) - Wrap(L + gl))
  BY <1>1, <1>2 DEF InsideIn
<1>4. gu - gl = (IF l <= c /\ c < u THEN g ELSE 0) /\ gl \in Int /\ gu \in Int
  BY <1>1
<1> HIDE DEF L, U, gl, gu
<1>5. L \in Int /\ U \in Int
  BY <1>1, U128Nat
<1> DEFINE a == U - L
           b == (U + gu) - (L + gl)
           h == IF l <= c /\ c < u THEN g ELSE 0
<1>6. a \in Int /\ b \in Int /\ h \in Int /\ b = a + h
  BY <1>4, <1>5
<1>7. Wrap(Wrap(U + gu) - Wrap(L + gl)) = Wrap(b)
  <2>1. U + gu \in Int /\ L + gl \in Int /\ Wrap(L + gl) \in Int
    BY <1>4, <1>5, WrapType
  <2>2. Wrap(Wrap(U + gu) - Wrap(L + gl)) = Wrap((U + gu) - Wrap(L + gl))
    BY <2>1, WrapOnce
  <2>3. Wrap((U + gu) - Wrap(L + gl)) = Wrap((U + gu) - (L + gl))
    BY <2>1, WrapOnce
  <2> QED
    BY <2>2, <2>3
<1>8. /\ InsideIn(stored, old, position, c) = Wrap(a)
      /\ InsideIn(stored, new, position, d) = Wrap(b)
  BY <1>3, <1>7
<1> HIDE DEF a, b, h
<1>9. /\ Wrap(Wrap(a) - checkpoint) = Wrap(a - checkpoint)
      /\ Wrap(Wrap(b) - checkpoint) = Wrap((a + h) - checkpoint)
  BY <1>6, WrapOnce
<1>10. CASE l <= c /\ c < u
  <2>1. h = g /\ a - checkpoint \in Int /\ (a - checkpoint) + g = (a + h) - checkpoint
    BY <1>6, <1>10 DEF h
  <2>2. Wrap(Wrap(a - checkpoint) + g) = Wrap((a - checkpoint) + g)
    BY <2>1, WrapOnce
  <2> QED
    BY <1>8, <1>9, <1>10, <2>1, <2>2
<1>11. CASE ~(l <= c /\ c < u)
  <2>1. h = 0 /\ a + h = a
    BY <1>6, <1>11 DEF h
  <2> QED
    BY <1>8, <1>9, <1>11, <2>1
<1> QED
  BY <1>10, <1>11

-----------------------------------------------------------------------------
\* What the steps of the pool make of it.

\* The tick of the pool, or of the swap's loop while there is one.
RunningTick == IF swap.in_progress THEN swap.tick_index ELSE pool.tick_current_index

AllPlaced ==
    /\ Placed(positions)
    /\ pool.tick_current_index \in Int /\ pool.tick_current_index \in CurrentTick
    /\ RunningTick \in Int /\ RunningTick \in CurrentTick

\* The positions and the price are where growth can be looked up.
LEMMA PositionsPlaced == IInv => AllPlaced
<1> SUFFICES ASSUME IInv PROVE AllPlaced
  OBVIOUS
<1>1. pool.tick_current_index \in CurrentTick
  BY DEF IInv, TypeOK, Pool
<1>2. RunningTick \in CurrentTick
  BY <1>1, SwapType DEF RunningTick
<1>3. ASSUME NEW p \in PositionId, positions[p].liquidity > 0 PROVE positions[p].open
  BY <1>3, PositionTypes, PositionsAreAccounts DEF IInv, PositionsOK, WellFormed
<1>4. Placed(positions)
  BY <1>3, PositionsAreAccounts DEF Placed, IInv, PositionsOK, WellFormed
<1> QED
  BY <1>1, <1>2, <1>4, TickInts DEF AllPlaced

\* Positions with liquidity have ticks in use.
TicksInUse ==
    \A p \in PositionId : positions[p].liquidity > 0 =>
        /\ positions[p].tick_lower_index \in UsableTicks
        /\ ticks[positions[p].tick_lower_index].initialized
        /\ positions[p].tick_upper_index \in UsableTicks
        /\ ticks[positions[p].tick_upper_index].initialized

LEMMA LivePositions == IInv => TicksInUse
BY LiveTicks DEF InitializedTicks, TicksInUse

\* Both stay so.
LEMMA PlacedNext ==
  ASSUME IInv'
  PROVE  /\ AllPlaced' /\ TicksInUse'
         /\ Placed(positions')
         /\ pool'.tick_current_index \in Int /\ pool'.tick_current_index \in CurrentTick
         /\ RunningTick' \in Int /\ RunningTick' \in CurrentTick
<1>1. (IInv => AllPlaced)'
  BY PositionsPlaced, PTL
<1>2. (IInv => TicksInUse)'
  BY LivePositions, PTL
<1> QED
  BY <1>1, <1>2 DEF AllPlaced

\* Claims depend on positions with liquidity only.
LEMMA DuesSame ==
  ASSUME NEW stored, NEW books, NEW a, NEW b, NEW j, NEW k, NEW current,
         \A p \in PositionId :
            \/ a[p].liquidity = 0 /\ b[p].liquidity = 0
            \/ b[p] = a[p] /\ k[p] = j[p]
  PROVE  Dues(stored, books, b, k, current) = Dues(stored, books, a, j, current)
<1>1. ASSUME NEW p \in PositionId
      PROVE  Due(stored, books, b[p], k[p], current) = Due(stored, books, a[p], j[p], current)
  BY DEF Due, InsideIn, BelowIn
<1> QED
  BY <1>1 DEF Dues

\* The growth inside a position that is open.
LEMMA OpenInside ==
  ASSUME IInv, NEW books, Counts(books), NEW p \in PositionId, positions[p].open
  PROVE  /\ InsideIn(ticks, books, positions[p], pool.tick_current_index) \in U128
         /\ CodedInside(ticks, books, positions[p], pool.tick_current_index)
              = InsideIn(ticks, books, positions[p], pool.tick_current_index)
         /\ positions[p].tick_lower_index \in UsableTicks
         /\ positions[p].tick_upper_index \in UsableTicks
         /\ positions[p].tick_lower_index # positions[p].tick_upper_index
<1> DEFINE c == pool.tick_current_index
           l == positions[p].tick_lower_index
           u == positions[p].tick_upper_index
           L == BelowIn(ticks, books, l, c)
           U == BelowIn(ticks, books, u, c)
<1>1. l \in UsableTicks /\ u \in UsableTicks /\ l < u /\ l \in Int /\ u \in Int
  BY TickInts DEF IInv, PositionsOK, WellFormed
<1>2. c \in Int
  BY PositionsPlaced DEF AllPlaced
<1>3. CodedInside(ticks, books, positions[p], c) = InsideIn(ticks, books, positions[p], c)
  BY <1>1, <1>2, InsideIsDifference
<1>4. L \in U128 /\ U \in U128
  BY <1>1, <1>2, AboveIsRest
<1>5. InsideIn(ticks, books, positions[p], c) = Wrap(U - L)
  BY DEF InsideIn
<1> HIDE DEF L, U
<1>6. U - L \in Int
  BY <1>4, U128Number
<1> QED
  BY <1>1, <1>3, <1>5, <1>6, WrapType

\* next_tick_modify_liquidity_update: what a tick that changes is given.
OutsideAfter(books, t, delta) ==
    IF ticks[t].liquidity_gross + delta = 0 THEN 0
    ELSE IF ticks[t].liquidity_gross = 0
    THEN IF pool.tick_current_index >= t THEN books.growth ELSE 0
    ELSE books.outside[t]

\* Taking a tick into use, or changing what is on it, leaves the growth below it
\* alone: that is the convention for a new tick.
LEMMA TickKept ==
  ASSUME IInv, NEW p \in PositionId, NEW delta \in Int, ModifyLiquidity(p, delta),
         NEW old, NEW new, Counts(old), new.growth = old.growth,
         NEW t \in UsableTicks, ticks'[t].initialized,
         new.outside[t] = IF \/ t = positions[p].tick_lower_index
                             \/ t = positions[p].tick_upper_index
                          THEN OutsideAfter(old, t, delta) ELSE old.outside[t]
  PROVE  BelowIn(ticks', new, t, pool.tick_current_index)
            = BelowIn(ticks, old, t, pool.tick_current_index)
<1> DEFINE c == pool.tick_current_index
           l == positions[p].tick_lower_index
           u == positions[p].tick_upper_index
           gross == ticks[t].liquidity_gross
           G == old.growth
           O == old.outside[t]
<1>1. l \in UsableTicks /\ u \in UsableTicks /\ l # u
  BY OpenInside DEF ModifyLiquidity
<1>2. new.growth = G
  OBVIOUS
<1>3. new.outside[t] = IF t = l \/ t = u THEN OutsideAfter(old, t, delta) ELSE O
  OBVIOUS
<1>4. ticks \in [UsableTicks -> Tick]
  BY DEF IInv, TypeOK
<1>5. ticks'[t] = IF t = l THEN NextTick(ticks[t], delta, FALSE)
                  ELSE IF t = u THEN NextTick(ticks[t], delta, TRUE)
                  ELSE ticks[t]
  BY <1>1, <1>4 DEF ModifyLiquidity
<1>6. CASE t # l /\ t # u
  BY <1>2, <1>3, <1>5, <1>6 DEF BelowIn
<1>7. CASE t = l \/ t = u
  <2>1. gross + delta # 0
    BY <1>5, <1>7 DEF NextTick, DefaultTick
  <2>2. gross \in Nat /\ (ticks[t].initialized <=> gross > 0)
    BY <1>4, U128Number DEF IInv, TickLiquidity, Tick
  <2>3. OutsideAfter(old, t, delta) =
          IF gross = 0 THEN (IF c >= t THEN G ELSE 0) ELSE O
    BY <2>1 DEF OutsideAfter
  <2>4. CASE gross = 0
    <3>1. ~ticks[t].initialized
      BY <2>2, <2>4
    <3>2. c \in Int /\ t \in Int /\ G \in U128 /\ G \in Int
      BY PositionsPlaced, TickInts, U128Number DEF AllPlaced, Counts
    <3>3. Wrap(G - 0) = G
      BY <3>2, WrapFits
    <3>4. new.outside[t] = IF c >= t THEN G ELSE 0
      BY <1>3, <1>7, <2>3, <2>4
    <3> QED
      BY <1>2, <3>1, <3>2, <3>3, <3>4 DEF BelowIn
  <2>5. CASE gross # 0
    <3>1. ticks[t].initialized
      BY <2>2, <2>5
    <3> QED
      BY <1>2, <1>3, <1>7, <2>3, <2>5, <3>1 DEF BelowIn
  <2> QED
    BY <2>4, <2>5
<1> QED
  BY <1>6, <1>7

\* An update settles the growth of one position, up to now, and of no other.
LEMMA DuesSettled ==
  ASSUME IInv, IInv', NEW old, NEW new, Counts(old), Counts(new),
         NEW j \in [PositionId -> U128], NEW p \in PositionId, positions[p].open,
         \A t \in UsableTicks : ticks'[t].initialized =>
            BelowIn(ticks', new, t, pool.tick_current_index)
               = BelowIn(ticks, old, t, pool.tick_current_index),
         positions'[p].tick_lower_index = positions[p].tick_lower_index,
         positions'[p].tick_upper_index = positions[p].tick_upper_index,
         \A q \in PositionId \ {p} : positions'[q] = positions[q],
         NEW k, k[p] = InsideIn(ticks, old, positions[p], pool.tick_current_index),
         \A q \in PositionId \ {p} : k[q] = j[q]
  PROVE  /\ Dues(ticks', new, positions', k, pool.tick_current_index)[p] = 0
         /\ \A q \in PositionId \ {p} :
               Dues(ticks', new, positions', k, pool.tick_current_index)[q]
                  = Dues(ticks, old, positions, j, pool.tick_current_index)[q]
<1> DEFINE c == pool.tick_current_index
           inside == InsideIn(ticks, old, positions[p], c)
           OldDue(q) == Due(ticks, old, positions[q], j[q], c)
           NewDue(q) == Due(ticks', new, positions'[q], k[q], c)
<1>1. inside \in U128
  BY OpenInside
<1>2. ASSUME NEW q \in PositionId, positions'[q].liquidity # 0
      PROVE  InsideIn(ticks', new, positions'[q], c)
               = InsideIn(ticks, old, positions'[q], c)
  <2>1. positions'[q].liquidity > 0
    <3>1. positions'[q].liquidity \in Nat
      BY PlacedNext, PositionTypes DEF Placed
    <3> QED
      BY <1>2, <3>1
  <2>2. /\ positions'[q].tick_lower_index \in UsableTicks
        /\ ticks'[positions'[q].tick_lower_index].initialized
        /\ positions'[q].tick_upper_index \in UsableTicks
        /\ ticks'[positions'[q].tick_upper_index].initialized
    BY <2>1, PlacedNext DEF TicksInUse
  <2> QED
    BY <2>2 DEF InsideIn
<1>3. NewDue(p) = 0
  <2>1. CASE positions'[p].liquidity = 0
    BY <2>1 DEF Due
  <2>2. CASE positions'[p].liquidity # 0
    <3>1. InsideIn(ticks, old, positions'[p], c) = inside
      BY DEF InsideIn
    <3>2. k[p] = inside
      OBVIOUS
    <3>3. inside - inside = 0 /\ 0 \in U128
      BY <1>1, U128Number, U128Nat DEF U128
    <3>4. Wrap(0) = 0
      BY <3>3, WrapFits
    <3> QED
      BY <1>2, <2>2, <3>1, <3>2, <3>3, <3>4 DEF Due
  <2> QED
    BY <2>1, <2>2
<1>4. ASSUME NEW q \in PositionId, q # p
      PROVE  NewDue(q) = OldDue(q)
  <2>1. positions'[q] = positions[q] /\ k[q] = j[q]
    BY <1>4
  <2> QED
    BY <1>2, <2>1 DEF Due
<1> HIDE DEF NewDue, OldDue
<1>5. /\ Dues(ticks', new, positions', k, c) = [q \in PositionId |-> NewDue(q)]
      /\ Dues(ticks, old, positions, j, c) = [q \in PositionId |-> OldDue(q)]
  BY DEF Dues, NewDue, OldDue
<1> QED
  BY <1>3, <1>4, <1>5

\* In range, of a tick.
EarningAt(position, c) ==
    /\ position.liquidity > 0
    /\ position.tick_lower_index <= c
    /\ c < position.tick_upper_index

\* When the counter grows, the positions in range are credited with the same
\* growth, and nobody else with any.
LEMMA DuesAccrue ==
  ASSUME IInv, NEW old, NEW new, NEW c, NEW d, NEW g, Accrues(ticks, old, new, c, d, g),
         NEW j \in [PositionId -> U128]
  PROVE  Dues(ticks, new, positions, j, d)
            = [p \in PositionId |->
                  IF EarningAt(positions[p], c)
                  THEN Wrap(Dues(ticks, old, positions, j, c)[p] + g)
                  ELSE Dues(ticks, old, positions, j, c)[p]]
<1>1. ASSUME NEW p \in PositionId
      PROVE  Due(ticks, new, positions[p], j[p], d)
               = IF EarningAt(positions[p], c)
                 THEN Wrap(Due(ticks, old, positions[p], j[p], c) + g)
                 ELSE Due(ticks, old, positions[p], j[p], c)
  <2>1. CASE positions[p].liquidity = 0
    BY <2>1 DEF Due, EarningAt
  <2>2. CASE positions[p].liquidity # 0
    <3>1. positions[p].liquidity > 0
      BY <2>2, PositionTypes, PositionsAreAccounts
    <3>2. Spans(ticks, positions[p])
      <4>1. positions[p].tick_lower_index <= positions[p].tick_upper_index
        BY <3>1, LivePositions, TickInts DEF TicksInUse, IInv, PositionsOK, WellFormed
      <4> QED
        BY <3>1, <4>1, LivePositions DEF Spans, TicksInUse
    <3>3. j[p] \in U128
      OBVIOUS
    <3>4. j[p] \in Int
      BY <3>3, U128Number
    <3>5. Wrap(InsideIn(ticks, new, positions[p], d) - j[p])
            = IF positions[p].tick_lower_index <= c /\ c < positions[p].tick_upper_index
              THEN Wrap(Wrap(InsideIn(ticks, old, positions[p], c) - j[p]) + g)
              ELSE Wrap(InsideIn(ticks, old, positions[p], c) - j[p])
      BY <3>2, <3>4, InsideMoves
    <3> QED
      BY <2>2, <3>1, <3>5 DEF Due, EarningAt
  <2> QED
    BY <2>1, <2>2
<1> QED
  BY <1>1 DEF Dues

\* What the search and the arithmetic of an iteration agree on.
Iterates(k, next, next_price, amount_remains) ==
    /\ SwapContinues
    /\ next \in TickIndex /\ next_price \in SqrtPrice /\ amount_remains \in BOOLEAN
    /\ NextTickFound(k, next)
    /\ ComputeSwap(SqrtPriceTarget(next), next_price, amount_remains)

\* next_tick_cross_update: the tick that is crossed trades its sides, and no other.
LEMMA SidesTraded ==
  ASSUME IInv, NEW k, NEW next, NEW next_price, NEW amount_remains,
         Iterates(k, next, next_price, amount_remains), NEW old, NEW new,
         NEW v \in UsableTicks, ticks[v].initialized,
         new.outside[v] =
            IF /\ next_price = sqrt_price_from_tick_index[next]
               /\ Crosses(k, next) /\ v = next
            THEN Wrap(new.growth - old.outside[v]) ELSE old.outside[v]
  PROVE  TradesSides(old, new, v, swap.tick_index, TickIndexAfter(next, next_price))
<1> USE DEF Iterates
<1> DEFINE c == swap.tick_index
           d == TickIndexAfter(next, next_price)
           reached == next_price = sqrt_price_from_tick_index[next]
<1>1. v \in InitializedTicks /\ v \in Int /\ next \in Int /\ c \in Int /\ d \in Int
  BY TickInts, SwapType, TickMoves DEF InitializedTicks, SwapContinues
<1>2. /\ IF swap.a_to_b
         THEN /\ next <= c
              /\ \A w \in InitializedTicks : ~(next < w /\ w <= c)
         ELSE /\ c < next
              /\ \A w \in InitializedTicks : ~(c < w /\ w < next)
      /\ Crosses(k, next) <=> next \in InitializedTicks
  BY FoundTick
<1>3. IF reached
      THEN d = IF swap.a_to_b THEN next - 1 ELSE next
      ELSE IF swap.a_to_b THEN next <= d /\ d <= c ELSE c <= d /\ d < next
  BY TickMoves
<1>4. new.outside[v] =
        IF reached /\ Crosses(k, next) /\ v = next
        THEN Wrap(new.growth - old.outside[v]) ELSE old.outside[v]
  OBVIOUS
<1> HIDE DEF c, d, reached, Iterates
<1>5. (c < v) = (d < v) <=> ~(reached /\ Crosses(k, next) /\ v = next)
  <2>1. CASE v = next
    BY <1>1, <1>2, <1>3, <2>1
  <2>2. CASE v # next
    BY <1>1, <1>2, <1>3, <2>2
  <2> QED
    BY <2>1, <2>2
<1>6. TradesSides(old, new, v, c, d)
  BY <1>4, <1>5 DEF TradesSides
<1> QED
  BY <1>6 DEF c, d
-----------------------------------------------------------------------------
\* What positions are worth: what they are owed, in units that are split as
\* finely as growth is, and their unclaimed growth times their liquidity.  None
\* of it is rounded, so that it adds up.

Worth(unit, owed, accounts, unclaimed) ==
    [p \in PositionId |-> unit * owed[p] + accounts[p].liquidity * unclaimed[p]]

WorthTypes(unit, owed, accounts, unclaimed) ==
    /\ unit \in Nat
    /\ \A p \in PositionId : owed[p] \in Nat
    /\ accounts \in [PositionId -> Position]
    /\ unclaimed \in [PositionId -> U128]

LEMMA WorthType ==
  ASSUME NEW unit, NEW o, NEW a, NEW u, WorthTypes(unit, o, a, u)
  PROVE  /\ \A p \in PositionId :
               /\ unit * o[p] \in Nat /\ a[p].liquidity * u[p] \in Nat
               /\ a[p].liquidity \in Nat /\ u[p] \in Nat
         /\ Worth(unit, o, a, u) \in [1 .. N -> Nat]
         /\ Worth(unit, o, a, u) \in [1 .. N -> Int]
         /\ Total(Worth(unit, o, a, u)) \in Nat
<1>1. ASSUME NEW p \in PositionId
      PROVE  /\ unit * o[p] \in Nat /\ a[p].liquidity * u[p] \in Nat
             /\ a[p].liquidity \in Nat /\ u[p] \in Nat
  <2>1. unit \in Nat /\ o[p] \in Nat /\ u[p] \in U128
    BY DEF WorthTypes
  <2>2. a[p].liquidity \in Nat /\ u[p] \in Nat
    BY <2>1, PositionTypes, U128Number DEF WorthTypes
  <2> QED
    BY <2>1, <2>2
<1>2. \A p \in PositionId : unit * o[p] + a[p].liquidity * u[p] \in Nat
  BY <1>1
<1>3. Worth(unit, o, a, u) \in [1 .. N -> Nat]
  BY <1>2 DEF Worth, PositionId
<1>4. Worth(unit, o, a, u) \in [1 .. N -> Int]
  BY <1>3
<1> QED
  BY <1>1, <1>3, <1>4, TotalNat

\* If no position gains, all together do not.
LEMMA WorthFalls ==
  ASSUME NEW unit, NEW o, NEW a, NEW u, NEW q, NEW b, NEW v,
         WorthTypes(unit, o, a, u), WorthTypes(unit, q, b, v),
         \A p \in PositionId :
            unit * q[p] + b[p].liquidity * v[p] <= unit * o[p] + a[p].liquidity * u[p]
  PROVE  Total(Worth(unit, q, b, v)) <= Total(Worth(unit, o, a, u))
<1>1. \A p \in 1 .. N : Worth(unit, q, b, v)[p] <= Worth(unit, o, a, u)[p]
  BY DEF Worth, PositionId
<1> QED
  BY <1>1, WorthType, TotalMonotone

\* A position whose growth is settled, for no more than it was worth.
LEMMA WorthSettled ==
  ASSUME NEW unit, NEW o, NEW a, NEW u, NEW q, NEW b, NEW v,
         WorthTypes(unit, o, a, u), WorthTypes(unit, q, b, v),
         NEW p \in PositionId,
         unit * q[p] <= unit * o[p] + a[p].liquidity * u[p], v[p] = 0,
         \A r \in PositionId \ {p} : q[r] = o[r] /\ b[r] = a[r] /\ v[r] = u[r]
  PROVE  Total(Worth(unit, q, b, v)) <= Total(Worth(unit, o, a, u))
<1>1. ASSUME NEW r \in PositionId
      PROVE  unit * q[r] + b[r].liquidity * v[r] <= unit * o[r] + a[r].liquidity * u[r]
  <2>1. CASE r = p
    <3>1. b[p].liquidity * v[p] = 0 /\ unit * q[p] \in Int
      <4>1. b[p].liquidity \in Nat /\ unit * q[p] \in Nat
        BY WorthType
      <4> QED
        BY <4>1
    <3> QED
      BY <2>1, <3>1
  <2>2. CASE r # p
    <3>1. unit * o[r] \in Nat /\ a[r].liquidity * u[r] \in Nat
      BY WorthType
    <3>2. q[r] = o[r] /\ b[r] = a[r] /\ v[r] = u[r]
      BY <2>2
    <3> QED
      BY <3>1, <3>2
  <2> QED
    BY <2>1, <2>2
<1> QED
  BY <1>1, WorthFalls

\* What one position is paid, all together lose.
LEMMA WorthPaid ==
  ASSUME NEW unit, NEW o, NEW a, NEW u, NEW q,
         WorthTypes(unit, o, a, u), WorthTypes(unit, q, a, u),
         NEW p \in PositionId, NEW x \in Nat, q[p] = o[p] - x,
         \A r \in PositionId \ {p} : q[r] = o[r]
  PROVE  Total(Worth(unit, q, a, u)) = Total(Worth(unit, o, a, u)) - unit * x
<1> DEFINE old == Worth(unit, o, a, u)
           new == Worth(unit, q, a, u)
           loss == 0 - unit * x
<1>1. /\ old \in [1 .. N -> Int] /\ new \in [1 .. N -> Int]
      /\ unit \in Nat /\ loss \in Int /\ unit * x \in Int
  BY WorthType DEF WorthTypes
<1>2. \A r \in PositionId \ {p} : new[r] = old[r]
  BY DEF Worth
<1>3. new[p] = old[p] + loss
  <2>1. o[p] \in Nat /\ a[p].liquidity * u[p] \in Nat /\ unit * o[p] \in Nat
    BY WorthType DEF WorthTypes
  <2>2. unit * (o[p] - x) = unit * o[p] - unit * x
    BY <1>1, <2>1
  <2>3. /\ new[p] = unit * (o[p] - x) + a[p].liquidity * u[p]
        /\ old[p] = unit * o[p] + a[p].liquidity * u[p]
    BY DEF Worth
  <2> HIDE DEF old, new
  <2> QED
    BY <1>1, <2>1, <2>2, <2>3
<1> HIDE DEF old, new, loss
<1>4. Updates(old, new, p, loss)
  BY <1>1, <1>2, <1>3 DEF Updates, PositionId
<1>5. Total(new) = Total(old) + loss /\ Total(old) \in Int
  BY <1>1, <1>4, TotalUpdate, TotalType
<1> QED
  BY <1>1, <1>5 DEF old, new, loss

\* Rounding the growth of each position down gives them no more.
LEMMA WorthRounded ==
  ASSUME NEW unit, NEW o, NEW a, NEW u, WorthTypes(unit, o, a, u),
         NEW paid \in [1 .. N -> Nat],
         \A p \in PositionId :
            \E d \in Nat : paid[p] = o[p] + d /\ unit * d <= a[p].liquidity * u[p]
  PROVE  unit * Total(paid) <= Total(Worth(unit, o, a, u)) /\ Total(paid) \in Nat
<1> DEFINE w == Worth(unit, o, a, u)
           scaled == [p \in 1 .. N |-> unit * paid[p]]
<1>1. unit \in Nat /\ paid \in [1 .. N -> Int]
  BY DEF WorthTypes
<1>2. /\ scaled \in [1 .. N -> Int]
      /\ \A p \in 1 .. N : scaled[p] = unit * paid[p]
  <2>1. \A p \in 1 .. N : unit * paid[p] \in Int
    BY <1>1
  <2> QED
    BY <2>1, Zenon
<1>3. ASSUME NEW p \in PositionId
      PROVE  unit * paid[p] <= w[p]
  <2>1. PICK d \in Nat : paid[p] = o[p] + d /\ unit * d <= a[p].liquidity * u[p]
    OBVIOUS
  <2>2. o[p] \in Nat /\ unit * o[p] \in Nat /\ a[p].liquidity * u[p] \in Nat
    BY WorthType DEF WorthTypes
  <2>3. unit * (o[p] + d) = unit * o[p] + unit * d /\ unit * d \in Nat
    BY <1>1, <2>2
  <2>4. w[p] = unit * o[p] + a[p].liquidity * u[p]
    BY DEF Worth
  <2> HIDE DEF w
  <2> QED
    BY <2>1, <2>2, <2>3, <2>4
<1>4. w \in [1 .. N -> Int]
  BY WorthType
<1> HIDE DEF w, scaled
<1>5. \A p \in 1 .. N : scaled[p] <= w[p]
  BY <1>2, <1>3 DEF PositionId
<1>6. Total(scaled) <= Total(w)
  BY <1>2, <1>4, <1>5, TotalMonotone
<1>7. Total(scaled) = unit * Total(paid)
  <2>1. unit \in Int
    BY <1>1
  <2> QED
    BY <1>1, <1>2, <2>1, TotalScale, Zenon
<1> QED
  BY <1>6, <1>7, TotalNat DEF w

\* When growth accrues, all positions together gain no more than it is worth to
\* the liquidity in range.
LEMMA WorthAccrues ==
  ASSUME NEW unit, NEW o, NEW u, NEW v, NEW c \in Int, NEW g \in Nat,
         WorthTypes(unit, o, positions, u), WorthTypes(unit, o, positions, v),
         v = [p \in PositionId |-> IF EarningAt(positions[p], c) THEN Wrap(u[p] + g)
                                   ELSE u[p]]
  PROVE  Total(Worth(unit, o, positions, v))
            <= Total(Worth(unit, o, positions, u)) + g * Total(ActiveAt(positions, c))
<1> DEFINE active == ActiveAt(positions, c)
           earned == [p \in 1 .. N |-> g * active[p]]
           old == Worth(unit, o, positions, u)
           new == Worth(unit, o, positions, v)
           bound == [p \in 1 .. N |-> old[p] + earned[p]]
<1>1. active \in [1 .. N -> Int] /\ g \in Int
  <2>1. positions \in [PositionId -> Position]
    BY DEF WorthTypes
  <2>2. active \in [1 .. N -> Int]
    BY <2>1, ContributionInts
  <2> QED
    BY <2>2
<1>2. old \in [1 .. N -> Int] /\ new \in [1 .. N -> Int]
  BY WorthType
<1>3. ASSUME NEW p \in PositionId
      PROVE  new[p] <= old[p] + g * active[p]
  <2> DEFINE l == positions[p].liquidity
             r == u[p]
             w == unit * o[p]
  <2>1. l \in Nat /\ r \in Nat /\ w \in Nat /\ l * r \in Nat
    BY WorthType
  <2>2. old[p] = w + l * r /\ new[p] = w + l * v[p]
    BY DEF Worth
  <2>3. active[p] = IF EarningAt(positions[p], c) THEN l ELSE 0
    BY <2>1 DEF ActiveAt, EarningAt
  <2>4. CASE EarningAt(positions[p], c)
    <3>1. v[p] = Wrap(r + g) /\ active[p] = l
      BY <2>3, <2>4
    <3> HIDE DEF l, r, w
    <3>2. Wrap(r + g) <= r + g /\ Wrap(r + g) \in Nat
      BY <2>1, WrapShrinks
    <3>3. l * Wrap(r + g) <= l * (r + g)
      BY <2>1, <3>2
    <3>4. l * (r + g) = l * r + g * l
      BY <2>1
    <3>5. l * Wrap(r + g) \in Int /\ g * l \in Int
      BY <2>1, <3>2
    <3> QED
      BY <2>1, <2>2, <3>1, <3>3, <3>4, <3>5
  <2>5. CASE ~EarningAt(positions[p], c)
    <3>1. v[p] = r /\ active[p] = 0
      BY <2>3, <2>5
    <3> HIDE DEF l, r, w
    <3> QED
      BY <2>1, <2>2, <3>1
  <2> QED
    BY <2>4, <2>5
<1> HIDE DEF active, old, new
<1>4. /\ earned \in [1 .. N -> Int]
      /\ \A p \in 1 .. N : earned[p] = g * active[p]
  <2>1. \A p \in 1 .. N : g * active[p] \in Int
    BY <1>1
  <2> QED
    BY <2>1, Zenon
<1> HIDE DEF earned
<1>5. Total(earned) = g * Total(active)
  BY <1>1, <1>4, TotalScale, Zenon
<1>6. /\ bound \in [1 .. N -> Int]
      /\ \A p \in 1 .. N : bound[p] = old[p] + earned[p]
  BY <1>2, <1>4
<1> HIDE DEF bound
<1>7. Total(bound) = Total(old) + Total(earned)
  BY <1>2, <1>4, <1>6, TotalPlus
<1>8. Total(new) <= Total(bound)
  <2>1. \A p \in 1 .. N : new[p] <= bound[p]
    BY <1>3, <1>4, <1>6 DEF PositionId
  <2> QED
    BY <1>2, <1>6, <2>1, TotalMonotone
<1> QED
  BY <1>5, <1>7, <1>8 DEF new, old, active
=============================================================================
