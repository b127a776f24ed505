----------------------------- MODULE WordsProofs -----------------------------
(***************************************************************************)
(* The 256-bit integers of four words are the integers modulo 2^256, of    *)
(* whatever width a word has: the operations on them word by word, with    *)
(* their carries and borrows, and the long division with its estimated     *)
(* digits and their corrections (math/u256_math.rs).                       *)
(***************************************************************************)
EXTENDS MCWords, ArithmeticProofs

-----------------------------------------------------------------------------
\* Powers of two.

\* A set that goes on, up to M, from every number in it.
LEMMA UpTo ==
  ASSUME NEW M \in Nat, NEW G \in SUBSET Nat, 0 \in G,
         \A n \in G : n < M => n + 1 \in G
  PROVE  0 .. M \subseteq G
<1> DEFINE Bad == {n \in 0 .. M : n \notin G}
<1> SUFFICES ASSUME Bad # {} PROVE FALSE
  OBVIOUS
<1>1. Bad \in SUBSET Nat
  OBVIOUS
<1>2. PICK b \in Bad : \A n \in Bad : b <= n
  BY <1>1, LeastElement
<1>3. b \in 1 .. M /\ b \notin G
  <2>1. b \in 0 .. M /\ b \notin G
    OBVIOUS
  <2>2. b # 0
    BY <2>1
  <2> QED
    BY <2>1, <2>2
<1>4. b - 1 \in 0 .. M /\ b - 1 < M /\ (b - 1) + 1 = b
  BY <1>3
<1>5. b - 1 \in G
  <2> SUFFICES ASSUME b - 1 \notin G PROVE FALSE
    OBVIOUS
  <2>1. b - 1 \in Bad
    BY <1>4
  <2>2. b <= b - 1
    BY <1>2, <2>1
  <2> QED
    BY <1>3, <2>2
<1> QED
  BY <1>3, <1>4, <1>5, Zenon

LEMMA WidthType ==
  /\ U64_RESOLUTION \in Nat \ {0}
  /\ NUM_WORDS = 4
  /\ NUM_WORDS * U64_RESOLUTION = 4 * U64_RESOLUTION
  /\ Index = {0, 1, 2, 3}
<1>1. Index = 0 .. 3
  BY DEF Index, NUM_WORDS
<1> QED
  BY <1>1, WordAssumption DEF NUM_WORDS

\* The powers of two up to M.
PowersTo(g, M) ==
    /\ g \in [0 .. M -> Nat \ {0}]
    /\ g[0] = 1
    /\ \A n \in 1 .. M : g[n] = 2 * g[n - 1]

LEMMA PowersExist ==
  ASSUME NEW M \in Nat
  PROVE  \E g : PowersTo(g, M)
<1> DEFINE G == {n \in Nat : \E g : PowersTo(g, n)}
<1>1. 0 \in G
  <2> DEFINE g == [n \in 0 .. 0 |-> 1]
  <2>1. PowersTo(g, 0)
    BY DEF PowersTo
  <2> QED
    BY <2>1
<1>2. ASSUME NEW n \in G PROVE n + 1 \in G
  <2>1. n \in Nat
    OBVIOUS
  <2>2. PICK g : PowersTo(g, n)
    OBVIOUS
  <2> DEFINE h == [k \in 0 .. n + 1 |-> IF k = n + 1 THEN 2 * g[n] ELSE g[k]]
  <2>3. h \in [0 .. n + 1 -> Nat \ {0}]
    <3>1. ASSUME NEW k \in 0 .. n + 1 PROVE h[k] \in Nat \ {0}
      <4>1. CASE k = n + 1
        <5>1. g[n] \in Nat \ {0}
          BY <2>1, <2>2 DEF PowersTo
        <5>2. h[k] = 2 * g[n]
          BY <4>1
        <5> QED
          BY <5>1, <5>2
      <4>2. CASE k # n + 1
        <5>1. k \in 0 .. n
          BY <2>1, <4>2
        <5> QED
          BY <2>2, <4>2, <5>1 DEF PowersTo
      <4> QED
        BY <4>1, <4>2
    <3> QED
      BY <3>1
  <2>4. h[0] = 1
    BY <2>1, <2>2 DEF PowersTo
  <2>5. ASSUME NEW k \in 1 .. n + 1 PROVE h[k] = 2 * h[k - 1]
    <3>1. k - 1 \in 0 .. n + 1 /\ k - 1 # n + 1 /\ k \in 0 .. n + 1
      BY <2>1
    <3>2. h[k - 1] = g[k - 1]
      BY <3>1
    <3>3. CASE k = n + 1
      <4>1. h[k] = 2 * g[n] /\ k - 1 = n
        BY <2>1, <3>1, <3>3
      <4> QED
        BY <3>2, <4>1
    <3>4. CASE k # n + 1
      <4>1. k \in 1 .. n
        BY <2>1, <3>4
      <4>2. h[k] = g[k]
        BY <3>1, <3>4
      <4>3. g[k] = 2 * g[k - 1]
        BY <2>2, <4>1 DEF PowersTo
      <4> QED
        BY <3>2, <4>2, <4>3
    <3> QED
      BY <3>3, <3>4
  <2>6. PowersTo(h, n + 1)
    <3> HIDE DEF h
    <3> QED
      BY <2>3, <2>4, <2>5 DEF PowersTo
  <2> QED
    BY <2>1, <2>6
<1>3. 0 .. M \subseteq G
  BY <1>1, <1>2, UpTo, G \in SUBSET Nat
<1>4. M \in G
  BY <1>3
<1> QED
  BY <1>4

LEMMA PowerIs ==
  LET M == NUM_WORDS * U64_RESOLUTION
  IN  /\ DOMAIN Pow2 = 0 .. M
      /\ \A n \in 0 .. M : Pow2[n] \in Nat \ {0}
      /\ Pow2[0] = 1
      /\ \A n \in 1 .. M : Pow2[n] = 2 * Pow2[n - 1]
<1> DEFINE M == NUM_WORDS * U64_RESOLUTION
           Solves(g) == g = [n \in 0 .. M |-> IF n = 0 THEN 1 ELSE 2 * g[n - 1]]
<1>1. M \in Nat
  BY WidthType
<1> HIDE DEF M
<1>2. PICK g : PowersTo(g, M)
  BY <1>1, PowersExist
<1>3. Solves(g)
  <2> DEFINE f == [n \in 0 .. M |-> IF n = 0 THEN 1 ELSE 2 * g[n - 1]]
  <2>1. DOMAIN g = 0 .. M /\ g = [n \in 0 .. M |-> g[n]]
    BY <1>2 DEF PowersTo
  <2>2. ASSUME NEW n \in 0 .. M PROVE g[n] = f[n]
    <3>1. CASE n = 0
      BY <1>2, <3>1 DEF PowersTo
    <3>2. CASE n # 0
      <4>1. n \in 1 .. M
        BY <1>1, <3>2
      <4> QED
        BY <1>2, <3>2, <4>1 DEF PowersTo
    <3> QED
      BY <3>1, <3>2
  <2>3. DOMAIN f = 0 .. M /\ f = [n \in 0 .. M |-> f[n]]
    OBVIOUS
  <2>4. [n \in 0 .. M |-> g[n]] = [n \in 0 .. M |-> f[n]]
    BY <2>2
  <2> QED
    BY <2>1, <2>4
<1>4. Pow2 = CHOOSE h : Solves(h)
  BY DEF Pow2, M
<1>5. Solves(Pow2)
  <2> HIDE DEF Solves
  <2> QED
    BY <1>3, <1>4
<1>6. DOMAIN Pow2 = 0 .. M
  BY <1>5
<1>7. \A n \in 0 .. M : Pow2[n] = IF n = 0 THEN 1 ELSE 2 * Pow2[n - 1]
  BY <1>5
<1>8. Pow2[0] = 1
  BY <1>1, <1>7
<1>9. ASSUME NEW n \in 1 .. M PROVE Pow2[n] = 2 * Pow2[n - 1]
  BY <1>1, <1>7
<1>10. \A n \in 0 .. M : Pow2[n] \in Nat \ {0}
  <2> DEFINE G == {n \in Nat : n <= M => Pow2[n] \in Nat \ {0}}
  <2>1. 0 \in G
    BY <1>8
  <2>2. ASSUME NEW n \in G, n < M PROVE n + 1 \in G
    <3>1. n \in Nat /\ n + 1 \in 1 .. M /\ (n + 1) - 1 = n /\ n <= M
      BY <1>1, <2>2
    <3>2. Pow2[n + 1] = 2 * Pow2[n]
      BY <1>9, <3>1
    <3>3. Pow2[n] \in Nat \ {0}
      <4>1. n <= M => Pow2[n] \in Nat \ {0}
        BY <2>2
      <4> QED
        BY <3>1, <4>1
    <3>4. Pow2[n + 1] \in Nat \ {0}
      BY <3>2, <3>3
    <3> QED
      BY <3>1, <3>4
  <2>3. 0 .. M \subseteq G
    <3>1. G \in SUBSET Nat
      OBVIOUS
    <3>2. \A n \in G : n < M => n + 1 \in G
      BY <2>2
    <3> HIDE DEF G
    <3> QED
      BY <1>1, <2>1, <3>1, <3>2, UpTo
  <2> QED
    BY <1>1, <2>3
<1> QED
  BY <1>6, <1>8, <1>9, <1>10 DEF M

LEMMA PowersMultiply ==
  ASSUME NEW m \in Nat, NEW n \in Nat, m + n <= 4 * U64_RESOLUTION
  PROVE  Pow2[m + n] = Pow2[m] * Pow2[n]
<1> DEFINE M == 4 * U64_RESOLUTION
           G == {k \in Nat : m + k <= M => Pow2[m + k] = Pow2[m] * Pow2[k]}
<1>1. M \in Nat /\ M = NUM_WORDS * U64_RESOLUTION /\ m + n <= M
  BY WidthType
<1> HIDE DEF M
<1>2. \A k \in 0 .. M : Pow2[k] \in Nat \ {0}
  BY <1>1, PowerIs
<1>3. m \in 0 .. M /\ n \in 0 .. M
  BY <1>1
<1>4. 0 \in G
  BY <1>1, <1>2, <1>3, PowerIs
<1>5. ASSUME NEW k \in G, k < M PROVE k + 1 \in G
  <2> SUFFICES ASSUME m + (k + 1) <= M PROVE Pow2[m + (k + 1)] = Pow2[m] * Pow2[k + 1]
    OBVIOUS
  <2>1. /\ k \in Nat /\ k + 1 \in 1 .. M /\ (k + 1) - 1 = k
        /\ m + (k + 1) \in 1 .. M /\ (m + (k + 1)) - 1 = m + k
        /\ m + k <= M /\ k \in 0 .. M
    BY <1>1, <1>5
  <2>2. Pow2[k + 1] = 2 * Pow2[k]
    BY <1>1, <2>1, PowerIs
  <2>3. Pow2[m + (k + 1)] = 2 * Pow2[m + k]
    BY <1>1, <2>1, PowerIs
  <2>4. Pow2[m + k] = Pow2[m] * Pow2[k]
    BY <2>1
  <2>5. Pow2[m] \in Nat /\ Pow2[k] \in Nat
    BY <1>2, <1>3, <2>1
  <2>6. 2 * (Pow2[m] * Pow2[k]) = Pow2[m] * (2 * Pow2[k])
    BY <2>5
  <2> QED
    BY <2>2, <2>3, <2>4, <2>6
<1>6. 0 .. M \subseteq G
  <2>1. G \in SUBSET Nat
    OBVIOUS
  <2>2. \A k \in G : k < M => k + 1 \in G
    BY <1>5
  <2> HIDE DEF G
  <2> QED
    BY <1>1, <1>4, <2>1, <2>2, UpTo
<1> QED
  BY <1>1, <1>3, <1>6

LEMMA PowerType ==
  ASSUME NEW n \in Nat, n <= 4 * U64_RESOLUTION
  PROVE  Pow2[n] \in Nat \ {0}
<1>1. n \in 0 .. NUM_WORDS * U64_RESOLUTION
  BY WidthType
<1> QED
  BY <1>1, PowerIs

LEMMA BaseType ==
  /\ Base \in Nat /\ Base >= 2
  /\ Base * Base \in Nat /\ Base * (Base * Base) \in Nat
  /\ Pow2[U64_RESOLUTION] = Base
  /\ Pow2[2 * U64_RESOLUTION] = Base * Base
  /\ Pow2[3 * U64_RESOLUTION] = Base * (Base * Base)
  /\ Pow2[4 * U64_RESOLUTION] = Modulus
  /\ Modulus \in Nat \ {0}
<1> DEFINE R == U64_RESOLUTION
<1>1. R \in Nat \ {0}
  BY WidthType
<1>2. Pow2[R] = Base
  BY DEF Base
<1>3. /\ R \in 1 .. NUM_WORDS * U64_RESOLUTION /\ R - 1 \in Nat /\ R - 1 <= 4 * U64_RESOLUTION
      /\ R + R <= 4 * R /\ R + R = 2 * R /\ R + 2 * R <= 4 * R /\ R + 2 * R = 3 * R
      /\ R + 3 * R <= 4 * R /\ R + 3 * R = 4 * R /\ 2 * R \in Nat /\ 3 * R \in Nat
  BY <1>1, WidthType
<1>4. Base = 2 * Pow2[R - 1]
  BY <1>2, <1>3, PowerIs
<1>5. Pow2[R - 1] \in Nat \ {0}
  BY <1>3, PowerType
<1>6. Base \in Nat /\ Base >= 2
  BY <1>4, <1>5
<1>7. Pow2[2 * R] = Base * Base
  BY <1>1, <1>2, <1>3, PowersMultiply
<1>8. Pow2[3 * R] = Base * (Base * Base)
  <2>1. Pow2[R + 2 * R] = Pow2[R] * Pow2[2 * R]
    BY <1>1, <1>3, PowersMultiply
  <2> QED
    BY <1>2, <1>3, <1>7, <2>1
<1>9. Pow2[4 * R] = Modulus
  <2>1. Pow2[R + 3 * R] = Pow2[R] * Pow2[3 * R]
    BY <1>1, <1>3, PowersMultiply
  <2> QED
    BY <1>2, <1>3, <1>8, <2>1 DEF Modulus
<1>10. Modulus \in Nat \ {0}
  <2>1. 4 * U64_RESOLUTION \in Nat
    BY <1>1
  <2> QED
    BY <1>1, <1>9, <2>1, PowerType
<1>11. Base * Base \in Nat /\ Base * (Base * Base) \in Nat
  <2>1. Base * Base \in Nat
    BY <1>6
  <2> QED
    BY <1>6, <2>1
<1> QED
  BY <1>2, <1>6, <1>7, <1>8, <1>9, <1>10, <1>11

-----------------------------------------------------------------------------
\* Numbers of four words and their values.

Number == [Index -> Word]

LEMMA NumberIs ==
  ASSUME NEW x \in Number
  PROVE  /\ x[0] \in Nat /\ x[1] \in Nat /\ x[2] \in Nat /\ x[3] \in Nat
         /\ x[0] < Base /\ x[1] < Base /\ x[2] < Base /\ x[3] < Base
BY BaseType, WidthType DEF Number, Word

LEMMA WordIs ==
  ASSUME NEW x \in Number, NEW i \in Index
  PROVE  x[i] \in Nat /\ x[i] < Base /\ x[i] \in Word
BY BaseType DEF Number, Word

\* A digit below Base in front of a number below K.
LEMMA Horner ==
  ASSUME NEW w \in Nat, w < Base, NEW v \in Nat, NEW K \in Nat, v < K
  PROVE  w + Base * v \in Nat /\ w + Base * v < Base * K
<1> DEFINE B == Base
<1>1. B \in Nat \ {0} /\ w < B
  BY BaseType
<1> HIDE DEF B
<1>2. B * (v + 1) <= B * K
  BY <1>1, Cancel
<1>3. B * (v + 1) = B * v + B /\ B * v \in Nat /\ B * K \in Nat
  BY <1>1
<1>4. w + B * v \in Nat /\ w + B * v < B * K
  BY <1>1, <1>2, <1>3
<1> QED
  BY <1>4 DEF B

LEMMA ValueType ==
  ASSUME NEW x \in Number
  PROVE  /\ Value(x) \in Nat /\ Value(x) < Modulus /\ Value(x) \in U256
         /\ x[2] + Base * x[3] \in Nat /\ x[2] + Base * x[3] < Base * Base
         /\ x[1] + Base * (x[2] + Base * x[3]) \in Nat
         /\ x[1] + Base * (x[2] + Base * x[3]) < Base * (Base * Base)
<1>1. x[2] + Base * x[3] \in Nat /\ x[2] + Base * x[3] < Base * Base
  BY NumberIs, BaseType, Horner
<1>2. /\ x[1] + Base * (x[2] + Base * x[3]) \in Nat
      /\ x[1] + Base * (x[2] + Base * x[3]) < Base * (Base * Base)
  BY <1>1, NumberIs, BaseType, Horner
<1>3. Value(x) \in Nat /\ Value(x) < Modulus
  BY <1>2, NumberIs, BaseType, Horner DEF Value, Modulus
<1>4. Value(x) \in U256
  <2>1. Modulus \in Nat
    BY BaseType
  <2> HIDE DEF Value, Modulus
  <2> QED
    BY <1>3, <2>1 DEF U256
<1> QED
  BY <1>1, <1>2, <1>3, <1>4

\* What is left of a number when multiples of the modulus are dropped.
LEMMA WrapsTo ==
  ASSUME NEW v \in U256, NEW q \in Int
  PROVE  (v + Modulus * q) % Modulus = v
<1> DEFINE M == Modulus
           n == v + M * q
<1>1. M \in Nat \ {0} /\ v \in 0 .. M - 1
  BY BaseType DEF U256
<1> HIDE DEF M
<1>2. M * q \in Int
  BY <1>1
<1>3. n \in Int /\ M * q <= n /\ n < M * q + M
  BY <1>1, <1>2
<1> HIDE DEF n
<1>4. n % M = n - M * q
  BY <1>1, <1>3, QuotientIs
<1>5. n - M * q = v
  BY <1>1, <1>2 DEF n
<1> QED
  BY <1>4, <1>5 DEF M, n

LEMMA LoHi ==
  ASSUME NEW n \in Int
  PROVE  /\ lo(n) \in Nat /\ lo(n) < Base /\ lo(n) \in Word
         /\ hi(n) \in Int
         /\ n = lo(n) + Base * hi(n)
<1>1. Base \in Nat \ {0}
  BY BaseType
<1>2. n = Base * (n \div Base) + (n % Base) /\ n \div Base \in Int /\ n % Base \in 0 .. Base - 1
  BY <1>1, FloorRemainder
<1> DEFINE q == n \div Base
           r == n % Base
           p == Base * q
<1>3. n = p + r /\ q \in Int /\ r \in 0 .. Base - 1 /\ p \in Int
  BY <1>1, <1>2
<1> HIDE DEF q, r, p
<1>4. r \in Nat /\ r < Base /\ r \in Word /\ n = r + p
  BY <1>1, <1>3 DEF Word
<1> QED
  BY <1>3, <1>4 DEF lo, hi, q, r, p

LEMMA SplitIs ==
  ASSUME NEW w \in Nat, w < Base, NEW q \in Int
  PROVE  lo(w + Base * q) = w /\ hi(w + Base * q) = q
<1> DEFINE B == Base
           n == w + B * q
<1>1. B \in Nat \ {0} /\ w < B
  BY BaseType
<1> HIDE DEF B
<1>2. B * q \in Int
  BY <1>1
<1>3. n \in Int /\ B * q <= n /\ n < B * q + B /\ n - B * q = w
  BY <1>1, <1>2
<1> HIDE DEF n
<1>4. n \div B = q /\ n % B = w
  BY <1>1, <1>3, QuotientIs
<1> QED
  BY <1>4 DEF B, n, lo, hi

LEMMA LoOfWord ==
  ASSUME NEW w \in Nat, w < Base
  PROVE  lo(w) = w /\ hi(w) = 0
<1>1. w + Base * 0 = w
  BY BaseType
<1> QED
  BY <1>1, SplitIs

LEMMA HighBelow ==
  ASSUME NEW n \in Nat, NEW K \in Nat, n < Base * K
  PROVE  hi(n) \in Nat /\ hi(n) < K
<1> DEFINE B == Base
           h == hi(n)
           l == lo(n)
<1>1. B \in Nat \ {0} /\ n < B * K
  BY BaseType
<1>2. n = l + B * h /\ h \in Int /\ l \in Nat /\ l < B
  BY LoHi
<1> HIDE DEF B, h, l
<1>3. B * h \in Int /\ B * K \in Int /\ B * (h + 1) = B * h + B
  BY <1>1, <1>2
<1>4. ~(h + 1 <= 0)
  <2> SUFFICES ASSUME h + 1 <= 0 PROVE FALSE
    OBVIOUS
  <2>1. B * (h + 1) <= B * 0 /\ B * 0 = 0
    BY <1>1, <1>2, Cancel
  <2> QED
    BY <1>1, <1>2, <1>3, <2>1
<1>5. ~(K <= h)
  <2> SUFFICES ASSUME K <= h PROVE FALSE
    OBVIOUS
  <2>1. B * K <= B * h
    BY <1>1, <1>2, Cancel
  <2> QED
    BY <1>1, <1>2, <1>3, <2>1
<1>6. h \in Nat /\ h < K
  BY <1>2, <1>4, <1>5
<1> QED
  BY <1>6 DEF h

LEMMA NewIs ==
  ASSUME NEW h \in Nat, h < Base * Base, NEW l \in Nat, l < Base * Base
  PROVE  /\ New(h, l) \in Number
         /\ New(h, l)[0] = lo(l) /\ New(h, l)[1] = hi(l)
         /\ New(h, l)[2] = lo(h) /\ New(h, l)[3] = hi(h)
         /\ Value(New(h, l)) = l + (Base * Base) * h
<1>1. /\ lo(l) \in Nat /\ lo(l) < Base /\ l = lo(l) + Base * hi(l)
      /\ lo(h) \in Nat /\ lo(h) < Base /\ h = lo(h) + Base * hi(h)
  BY LoHi
<1>2. hi(l) \in Nat /\ hi(l) < Base /\ hi(h) \in Nat /\ hi(h) < Base
  BY BaseType, HighBelow
<1> DEFINE x == New(h, l)
<1>3. x[0] = lo(l) /\ x[1] = hi(l) /\ x[2] = lo(h) /\ x[3] = hi(h)
  BY WidthType DEF New
<1>4. x \in Number
  <2> DEFINE W(i) == CASE i = 0 -> lo(l) [] i = 1 -> hi(l)
                       [] i = 2 -> lo(h) [] i = 3 -> hi(h)
  <2>0. x = [i \in Index |-> W(i)]
    BY DEF New
  <2>1. DOMAIN x = Index /\ x = [i \in Index |-> x[i]]
    <3> HIDE DEF x, W
    <3> QED
      BY <2>0, Zenon
  <2>2. ASSUME NEW i \in Index PROVE x[i] \in Word
    <3>1. x[0] \in Word /\ x[1] \in Word /\ x[2] \in Word /\ x[3] \in Word
      BY <1>1, <1>2, <1>3, BaseType DEF Word
    <3> HIDE DEF x
    <3> QED
      BY <3>1, WidthType
  <2> HIDE DEF x
  <2> QED
    BY <2>1, <2>2 DEF Number
<1>5. Value(x) = l + (Base * Base) * h
  <2> DEFINE B == Base
             l0 == lo(l)
             l1 == hi(l)
             h0 == lo(h)
             h1 == hi(h)
  <2>1. Value(x) = l0 + B * (l1 + B * (h0 + B * h1))
    BY <1>3, Zenon DEF Value
  <2>2. /\ l = l0 + B * l1 /\ h = h0 + B * h1
        /\ B \in Nat /\ l0 \in Nat /\ l1 \in Nat /\ h0 \in Nat /\ h1 \in Nat
    BY <1>1, <1>2, BaseType
  <2> HIDE DEF x, B, l0, l1, h0, h1
  <2>3. B * (l1 + B * h) = B * l1 + (B * B) * h
    BY <2>2
  <2>4. Value(x) = l0 + B * (l1 + B * h)
    BY <2>1, <2>2, Zenon
  <2>5. B * l1 \in Nat /\ (B * B) * h \in Nat
    BY <2>2
  <2>6. Value(x) = l + (B * B) * h
    BY <2>2, <2>3, <2>4, <2>5
  <2> QED
    BY <2>6 DEF B
<1> QED
  BY <1>3, <1>4, <1>5, Zenon

LEMMA OfIs ==
  ASSUME NEW n \in U256
  PROVE  Of(n) \in Number /\ Value(Of(n)) = n
<1> DEFINE D == Base * Base
           h == n \div D
           l == n % D
<1>1. D \in Nat \ {0}
  <2>1. Base * Base # 0
    BY BaseType
  <2> QED
    BY <2>1, BaseType
<1>2. Modulus = D * D
  <2>1. Base * (Base * (Base * Base)) = (Base * Base) * (Base * Base)
    BY BaseType
  <2> QED
    BY <2>1 DEF Modulus
<1>3. n \in Nat /\ n < Modulus /\ Modulus \in Nat
  BY BaseType DEF U256
<1>4. n = D * h + l /\ h \in Nat /\ l \in 0 .. D - 1
  BY <1>1, <1>3, Remainder
<1>5. Of(n) = New(h, l)
  BY DEF Of
<1> HIDE DEF h, l, D
<1>6. h < D
  <2> SUFFICES ASSUME D <= h PROVE FALSE
    BY <1>1, <1>4
  <2>1. D * D <= D * h
    BY <1>1, <1>4, Cancel
  <2>2. D * D \in Nat /\ D * h \in Nat
    BY <1>1, <1>4
  <2> QED
    BY <1>1, <1>2, <1>3, <1>4, <2>1, <2>2
<1>7. l \in Nat /\ l < D
  BY <1>1, <1>4
<1>8. New(h, l) \in Number /\ Value(New(h, l)) = l + D * h
  BY <1>4, <1>6, <1>7, NewIs DEF D
<1>9. l + D * h = n
  <2>1. D * h \in Nat
    BY <1>1, <1>4
  <2> QED
    BY <1>4, <1>7, <2>1
<1> QED
  BY <1>5, <1>8, <1>9

-----------------------------------------------------------------------------
\* Sums and differences, place by place.

LEMMA AddPlace ==
  ASSUME NEW u \in Int, NEW v \in Int, NEW c \in Int, NEW w \in Int, NEW d \in Int,
         NEW s \in Int, NEW t \in Int, (u + v) + c = w + Base * d
  PROVE  ((u + Base * s) + (v + Base * t)) + c = w + Base * ((s + t) + d)
<1> DEFINE B == Base
           bs == B * s
           bt == B * t
           bd == B * d
<1>1. B \in Int
  BY BaseType
<1>2. B * ((s + t) + d) = (bs + bt) + bd
  <2> HIDE DEF B
  <2> QED
    BY <1>1
<1>3. bs \in Int /\ bt \in Int /\ bd \in Int /\ (u + v) + c = w + bd
  BY <1>1
<1> HIDE DEF bs, bt, bd
<1>4. ((u + bs) + (v + bt)) + c = w + ((bs + bt) + bd)
  BY <1>3
<1> QED
  BY <1>2, <1>4 DEF bs, bt

LEMMA OverflowOut ==
  ASSUME NEW a \in Int, NEW b \in Int, NEW c \in Int, NEW d \in Int, NEW e \in Int
  PROVE  a + Base * (b + Base * (c + Base * (d + Base * e)))
            = (a + Base * (b + Base * (c + Base * d))) + Modulus * e
<1> DEFINE B == Base
<1>1. B \in Int
  BY BaseType
<1> HIDE DEF B
<1> DEFINE f == B * e
           g == B * f
           h == B * g
           k == B * h
           d1 == c + B * d
           c1 == b + B * d1
<1>2. f \in Int /\ g \in Int /\ h \in Int /\ k \in Int /\ d1 \in Int /\ c1 \in Int
  BY <1>1
<1>3. c + B * (d + f) = d1 + g
  <2> HIDE DEF f
  <2> QED
    BY <1>1, <1>2
<1>4. b + B * (d1 + g) = c1 + h
  <2> HIDE DEF f, g, d1
  <2> QED
    BY <1>1, <1>2
<1>5. a + B * (c1 + h) = (a + B * c1) + k
  <2> HIDE DEF f, g, d1, h, c1
  <2> QED
    BY <1>1, <1>2
<1>6. k = (B * (B * (B * B))) * e
  <2>1. B * B \in Int /\ B * (B * B) \in Int
    BY <1>1
  <2>2. (B * B) * e = B * (B * e)
    BY <1>1
  <2>3. (B * (B * B)) * e = B * ((B * B) * e)
    BY <1>1, <2>1
  <2>4. (B * (B * (B * B))) * e = B * ((B * (B * B)) * e)
    BY <1>1, <2>1
  <2> QED
    BY <2>2, <2>3, <2>4, Zenon
<1>7. a + B * (b + B * (c + B * (d + f))) = (a + B * c1) + k
  BY <1>3, <1>4, <1>5, Zenon
<1> QED
  BY <1>6, <1>7, Zenon DEF B, Modulus

\* The carries of a sum.
SumCarries(x, y, c) ==
    /\ c[0] = 0
    /\ c[1] = hi((x[0] + y[0]) + c[0]) /\ c[2] = hi((x[1] + y[1]) + c[1])
    /\ c[3] = hi((x[2] + y[2]) + c[2]) /\ c[4] = hi((x[3] + y[3]) + c[3])
    /\ add(x, y) = [i \in Index |-> lo((x[i] + y[i]) + c[i])]

LEMMA AddIs ==
  ASSUME NEW x, NEW y
  PROVE  \E c : SumCarries(x, y, c)
<1> DEFINE Step(f, i) == IF i = 0 THEN 0 ELSE hi((x[i - 1] + y[i - 1]) + f[i - 1])
           Solves(f) == f = [i \in 0 .. NUM_WORDS |-> Step(f, i)]
           c1 == hi((x[0] + y[0]) + 0)
           c2 == hi((x[1] + y[1]) + c1)
           c3 == hi((x[2] + y[2]) + c2)
           c4 == hi((x[3] + y[3]) + c3)
           At(i) == CASE i = 0 -> 0 [] i = 1 -> c1 [] i = 2 -> c2 [] i = 3 -> c3 [] i = 4 -> c4
           g == [i \in 0 .. NUM_WORDS |-> At(i)]
<1>1. 0 .. NUM_WORDS = {0, 1, 2, 3, 4}
  BY DEF NUM_WORDS
<1>2. 1 - 1 = 0 /\ 2 - 1 = 1 /\ 3 - 1 = 2 /\ 4 - 1 = 3
  OBVIOUS
<1>3. Solves(g)
  <2>1. g[0] = 0 /\ g[1] = c1 /\ g[2] = c2 /\ g[3] = c3 /\ g[4] = c4
    <3> HIDE DEF c1, c2, c3, c4
    <3> QED
      BY <1>1
  <2>2. ASSUME NEW i \in 0 .. NUM_WORDS PROVE g[i] = Step(g, i)
    <3> HIDE DEF g
    <3>1. i \in {0, 1, 2, 3, 4}
      BY <1>1
    <3>2. Step(g, 0) = 0
      OBVIOUS
    <3>3. Step(g, 1) = hi((x[0] + y[0]) + g[0]) /\ Step(g, 2) = hi((x[1] + y[1]) + g[1])
      BY <1>2
    <3>4. Step(g, 3) = hi((x[2] + y[2]) + g[2]) /\ Step(g, 4) = hi((x[3] + y[3]) + g[3])
      BY <1>2
    <3> HIDE DEF Step
    <3>5. g[1] = Step(g, 1) /\ g[2] = Step(g, 2)
      BY <2>1, <3>3, Zenon
    <3>6. g[3] = Step(g, 3) /\ g[4] = Step(g, 4)
      BY <2>1, <3>4, Zenon
    <3> QED
      BY <2>1, <3>1, <3>2, <3>5, <3>6, Zenon
  <2>3. g = [i \in 0 .. NUM_WORDS |-> g[i]]
    <3> HIDE DEF At
    <3> QED
      BY Zenon
  <2> HIDE DEF g, Step
  <2>4. [i \in 0 .. NUM_WORDS |-> g[i]] = [i \in 0 .. NUM_WORDS |-> Step(g, i)]
    BY <2>2, Zenon
  <2> QED
    BY <2>3, <2>4, Zenon
<1> HIDE DEF g
<1> DEFINE c == CHOOSE f : Solves(f)
<1>4. Solves(c)
  <2> HIDE DEF Solves
  <2> QED
    BY <1>3, Zenon
<1>5. add(x, y) = [i \in Index |-> lo((x[i] + y[i]) + c[i])]
  BY Zenon DEF add
<1> HIDE DEF c
<1>6. \A i \in {0, 1, 2, 3, 4} : c[i] = Step(c, i)
  <2> HIDE DEF Step
  <2> QED
    BY <1>1, <1>4, Zenon
<1>7. c[0] = 0
  BY <1>6
<1>8. c[1] = hi((x[0] + y[0]) + c[0]) /\ c[2] = hi((x[1] + y[1]) + c[1])
  BY <1>2, <1>6
<1>9. c[3] = hi((x[2] + y[2]) + c[2]) /\ c[4] = hi((x[3] + y[3]) + c[3])
  BY <1>2, <1>6
<1> QED
  BY <1>5, <1>7, <1>8, <1>9, Zenon DEF SumCarries

LEMMA AddExact ==
  ASSUME NEW x \in Number, NEW y \in Number
  PROVE  /\ add(x, y) \in Number
         /\ Value(add(x, y)) = (Value(x) + Value(y)) % Modulus
<1> PICK c : SumCarries(x, y, c)
  BY AddIs, Zenon
<1>1. /\ c[0] = 0
      /\ c[1] = hi((x[0] + y[0]) + c[0]) /\ c[2] = hi((x[1] + y[1]) + c[1])
      /\ c[3] = hi((x[2] + y[2]) + c[2]) /\ c[4] = hi((x[3] + y[3]) + c[3])
      /\ add(x, y) = [i \in Index |-> lo((x[i] + y[i]) + c[i])]
  BY Zenon DEF SumCarries
<1> DEFINE z == add(x, y)
           T(i) == (x[i] + y[i]) + c[i]
<1>2. z[0] = lo(T(0)) /\ z[1] = lo(T(1)) /\ z[2] = lo(T(2)) /\ z[3] = lo(T(3))
  BY <1>1, WidthType
<1>3. T(0) \in Int /\ T(0) = z[0] + Base * c[1] /\ c[1] \in Int /\ z[0] \in Word
  <2>1. T(0) \in Int
    BY <1>1, NumberIs
  <2> QED
    BY <1>1, <1>2, <2>1, LoHi, Zenon
<1>4. T(1) \in Int /\ T(1) = z[1] + Base * c[2] /\ c[2] \in Int /\ z[1] \in Word
  <2>1. T(1) \in Int
    BY <1>3, NumberIs
  <2> QED
    BY <1>1, <1>2, <2>1, LoHi, Zenon
<1>5. T(2) \in Int /\ T(2) = z[2] + Base * c[3] /\ c[3] \in Int /\ z[2] \in Word
  <2>1. T(2) \in Int
    BY <1>4, NumberIs
  <2> QED
    BY <1>1, <1>2, <2>1, LoHi, Zenon
<1>6. T(3) \in Int /\ T(3) = z[3] + Base * c[4] /\ c[4] \in Int /\ z[3] \in Word
  <2>1. T(3) \in Int
    BY <1>5, NumberIs
  <2> QED
    BY <1>1, <1>2, <2>1, LoHi, Zenon
<1>7. z \in Number
  <2>1. ASSUME NEW i \in Index PROVE z[i] \in Word
    BY <1>3, <1>4, <1>5, <1>6, WidthType, Zenon
  <2>2. z = [i \in Index |-> z[i]]
    BY <1>1, Zenon
  <2> HIDE DEF z
  <2> QED
    BY <2>1, <2>2, Zenon DEF Number
<1> HIDE DEF z, T
<1> DEFINE B == Base
           x0 == x[0]
           x1 == x[1]
           x2 == x[2]
           x3 == x[3]
           y0 == y[0]
           y1 == y[1]
           y2 == y[2]
           y3 == y[3]
           z0 == z[0]
           z1 == z[1]
           z2 == z[2]
           z3 == z[3]
           c1 == c[1]
           c2 == c[2]
           c3 == c[3]
           c4 == c[4]
           xb == x2 + Base * x3
           xa == x1 + Base * xb
           yb == y2 + Base * y3
           ya == y1 + Base * yb
<1>8. /\ x0 \in Int /\ x1 \in Int /\ x2 \in Int /\ x3 \in Int /\ xa \in Int /\ xb \in Int
      /\ y0 \in Int /\ y1 \in Int /\ y2 \in Int /\ y3 \in Int /\ ya \in Int /\ yb \in Int
  BY NumberIs, ValueType
<1>9. /\ z0 \in Int /\ z1 \in Int /\ z2 \in Int /\ z3 \in Int
      /\ c1 \in Int /\ c2 \in Int /\ c3 \in Int /\ c4 \in Int
  BY <1>3, <1>4, <1>5, <1>6, <1>7, NumberIs
<1>10. /\ (x0 + y0) + 0 = z0 + Base * c1 /\ (x1 + y1) + c1 = z1 + Base * c2
       /\ (x2 + y2) + c2 = z2 + Base * c3 /\ (x3 + y3) + c3 = z3 + Base * c4
  BY <1>1, <1>3, <1>4, <1>5, <1>6, Zenon DEF T
<1>11. Value(x) = x0 + Base * xa /\ Value(y) = y0 + Base * ya
  BY Zenon DEF Value
<1>12. Value(z) = z0 + Base * (z1 + Base * (z2 + Base * z3))
  BY Zenon DEF Value
<1>13. (xb + yb) + c2 = z2 + Base * ((x3 + y3) + c3)
  <2> HIDE DEF x2, x3, y2, y3, z2, c2, c3
  <2> QED
    BY <1>8, <1>9, <1>10, AddPlace
<1>14. (xa + ya) + c1 = z1 + Base * ((xb + yb) + c2)
  <2> HIDE DEF x1, y1, z1, c1, c2, xb, yb
  <2> QED
    BY <1>8, <1>9, <1>10, AddPlace
<1>15. (Value(x) + Value(y)) + 0 = z0 + Base * ((xa + ya) + c1)
  <2> HIDE DEF x0, y0, z0, c1, xa, ya
  <2>1. ((x0 + Base * xa) + (y0 + Base * ya)) + 0 = z0 + Base * ((xa + ya) + c1)
    BY <1>8, <1>9, <1>10, AddPlace
  <2> QED
    BY <1>11, <2>1, Zenon
<1>16. (Value(x) + Value(y)) + 0 = z0 + Base * (z1 + Base * (z2 + Base * (z3 + Base * c4)))
  BY <1>10, <1>13, <1>14, <1>15, Zenon
<1>17. z0 + Base * (z1 + Base * (z2 + Base * (z3 + Base * c4))) = Value(z) + Modulus * c4
  <2> HIDE DEF z0, z1, z2, z3, c4
  <2>1. z0 + Base * (z1 + Base * (z2 + Base * (z3 + Base * c4)))
           = (z0 + Base * (z1 + Base * (z2 + Base * z3))) + Modulus * c4
    BY ONLY <1>9, OverflowOut
  <2> QED
    BY <1>12, <2>1, Zenon
<1>18. Value(x) + Value(y) = Value(z) + Modulus * c4
  <2>1. Value(x) + Value(y) \in Int
    BY ValueType
  <2>2. (Value(x) + Value(y)) + 0 = Value(x) + Value(y)
    BY <2>1
  <2> QED
    BY <1>16, <1>17, <2>2, Zenon
<1>19. (Value(z) + Modulus * c4) % Modulus = Value(z)
  <2>1. Value(z) \in U256
    BY <1>7, ValueType
  <2> HIDE DEF c4
  <2> QED
    BY <1>9, <2>1, WrapsTo
<1> QED
  BY <1>7, <1>18, <1>19, Zenon DEF z

\* The borrow out of a place.
Borrows(u, v, b) == IF u < v \/ lo(u - v) < b THEN 1 ELSE 0

LEMMA SubPlace ==
  ASSUME NEW u \in Nat, u < Base, NEW v \in Nat, v < Base, NEW b \in {0, 1}
  PROVE  /\ Borrows(u, v, b) \in {0, 1}
         /\ lo((u - v) - b) \in Word
         /\ (u - v) - b = lo((u - v) - b) - Base * Borrows(u, v, b)
<1> DEFINE B == Base
           t == lo(u - v)
           w == lo((u - v) - b)
           d == Borrows(u, v, b)
<1>1. B \in Nat /\ B >= 2 /\ u < B /\ v < B
  BY BaseType
<1>2. d \in {0, 1} /\ w \in Word
  BY LoHi DEF Borrows
<1>3. (u - v) - b = w - B * d
  <2>1. CASE u < v
    <3> DEFINE m == (u - v) + B
               r == ((u - v) - b) + B
    <3>1. /\ m \in Nat /\ m < B /\ r \in Nat /\ r < B
          /\ u - v = m + B * (0 - 1) /\ (u - v) - b = r + B * (0 - 1)
      <4> HIDE DEF B
      <4> QED
        BY <1>1, <2>1
    <3>2. w = r
      <4> HIDE DEF r
      <4>1. lo(r + Base * (0 - 1)) = r
        BY <3>1, SplitIs
      <4> QED
        BY <3>1, <4>1, Zenon
    <3>3. d = 1
      BY <2>1, Zenon DEF Borrows
    <3> HIDE DEF w, d, B
    <3> QED
      BY <1>1, <3>2, <3>3
  <2>2. CASE ~(u < v)
    <3> DEFINE m == u - v
    <3>1. m \in Nat /\ m < B
      <4> HIDE DEF B
      <4> QED
        BY <1>1, <2>2
    <3>2. t = m
      <4> HIDE DEF m
      <4> QED
        BY <3>1, LoOfWord DEF m
    <3>3. CASE m < b
      <4>1. m = 0 /\ b = 1
        BY <3>1, <3>3
      <4>2. d = 1
        BY <3>2, <3>3, Zenon DEF Borrows
      <4> DEFINE r == B - 1
      <4>3. r \in Nat /\ r < B /\ (u - v) - b = r + B * (0 - 1)
        <5> HIDE DEF B
        <5> QED
          BY <1>1, <4>1
      <4>4. w = r
        <5> HIDE DEF r
        <5>1. lo(r + Base * (0 - 1)) = r
          BY <4>3, SplitIs
        <5> QED
          BY <4>3, <5>1, Zenon
      <4> HIDE DEF w, d, B
      <4> QED
        BY <1>1, <4>1, <4>2, <4>4
    <3>4. CASE ~(m < b)
      <4>1. d = 0
        BY <2>2, <3>2, <3>4, Zenon DEF Borrows
      <4> DEFINE r == (u - v) - b
      <4>2. r \in Nat /\ r < B
        <5> HIDE DEF B
        <5> QED
          BY <1>1, <3>1, <3>4
      <4>3. w = r
        <5> HIDE DEF r
        <5> QED
          BY <4>2, LoOfWord DEF r
      <4>4. r - B * 0 = r
        <5> HIDE DEF r, B
        <5> QED
          BY <1>1, <4>2
      <4> HIDE DEF w, d, B
      <4> QED
        BY <4>1, <4>3, <4>4, Zenon
    <3> QED
      BY <3>3, <3>4
  <2> QED
    BY <2>1, <2>2
<1> QED
  BY <1>2, <1>3

LEMMA DifferencePlace ==
  ASSUME NEW u \in Int, NEW v \in Int, NEW b \in Int, NEW w \in Int, NEW d \in Int,
         NEW s \in Int, NEW t \in Int, (u - v) - b = w - Base * d
  PROVE  ((u + Base * s) - (v + Base * t)) - b = w + Base * ((s - t) - d)
<1> DEFINE B == Base
           bs == B * s
           bt == B * t
           bd == B * d
<1>1. B \in Int
  BY BaseType
<1>2. B * ((s - t) - d) = (bs - bt) - bd
  <2> HIDE DEF B
  <2> QED
    BY <1>1
<1>3. bs \in Int /\ bt \in Int /\ bd \in Int /\ (u - v) - b = w - bd
  BY <1>1
<1> HIDE DEF bs, bt, bd
<1>4. ((u + bs) - (v + bt)) - b = w + ((bs - bt) - bd)
  BY <1>3
<1> QED
  BY <1>2, <1>4 DEF bs, bt

\* The borrows of a difference.
DifferenceBorrows(x, y, c) ==
    /\ c[0] = 0
    /\ c[1] = Borrows(x[0], y[0], c[0]) /\ c[2] = Borrows(x[1], y[1], c[1])
    /\ c[3] = Borrows(x[2], y[2], c[2]) /\ c[4] = Borrows(x[3], y[3], c[3])
    /\ sub(x, y) = [i \in Index |-> lo((x[i] - y[i]) - c[i])]

LEMMA SubIs ==
  ASSUME NEW x, NEW y
  PROVE  \E c : DifferenceBorrows(x, y, c)
<1> DEFINE Step(f, i) == IF i = 0 THEN 0 ELSE Borrows(x[i - 1], y[i - 1], f[i - 1])
           Solves(f) == f = [i \in 0 .. NUM_WORDS |-> Step(f, i)]
           c1 == Borrows(x[0], y[0], 0)
           c2 == Borrows(x[1], y[1], c1)
           c3 == Borrows(x[2], y[2], c2)
           c4 == Borrows(x[3], y[3], c3)
           At(i) == CASE i = 0 -> 0 [] i = 1 -> c1 [] i = 2 -> c2 [] i = 3 -> c3 [] i = 4 -> c4
           g == [i \in 0 .. NUM_WORDS |-> At(i)]
<1>1. 0 .. NUM_WORDS = {0, 1, 2, 3, 4}
  BY DEF NUM_WORDS
<1>2. 1 - 1 = 0 /\ 2 - 1 = 1 /\ 3 - 1 = 2 /\ 4 - 1 = 3
  OBVIOUS
<1>3. Solves(g)
  <2>1. g[0] = 0 /\ g[1] = c1 /\ g[2] = c2 /\ g[3] = c3 /\ g[4] = c4
    <3> HIDE DEF c1, c2, c3, c4
    <3> QED
      BY <1>1
  <2>2. ASSUME NEW i \in 0 .. NUM_WORDS PROVE g[i] = Step(g, i)
    <3> HIDE DEF g
    <3>1. i \in {0, 1, 2, 3, 4}
      BY <1>1
    <3>2. Step(g, 0) = 0
      OBVIOUS
    <3>3. Step(g, 1) = Borrows(x[0], y[0], g[0]) /\ Step(g, 2) = Borrows(x[1], y[1], g[1])
      BY <1>2
    <3>4. Step(g, 3) = Borrows(x[2], y[2], g[2]) /\ Step(g, 4) = Borrows(x[3], y[3], g[3])
      BY <1>2
    <3> HIDE DEF Step
    <3>5. g[1] = Step(g, 1) /\ g[2] = Step(g, 2)
      BY <2>1, <3>3, Zenon
    <3>6. g[3] = Step(g, 3) /\ g[4] = Step(g, 4)
      BY <2>1, <3>4, Zenon
    <3> QED
      BY <2>1, <3>1, <3>2, <3>5, <3>6, Zenon
  <2>3. g = [i \in 0 .. NUM_WORDS |-> g[i]]
    <3> HIDE DEF At
    <3> QED
      BY Zenon
  <2> HIDE DEF g, Step
  <2>4. [i \in 0 .. NUM_WORDS |-> g[i]] = [i \in 0 .. NUM_WORDS |-> Step(g, i)]
    BY <2>2, Zenon
  <2> QED
    BY <2>3, <2>4, Zenon
<1> HIDE DEF g
<1> DEFINE c == CHOOSE f : Solves(f)
<1>4. Solves(c)
  <2> HIDE DEF Solves
  <2> QED
    BY <1>3, Zenon
<1>5. sub(x, y) = [i \in Index |-> lo((x[i] - y[i]) - c[i])]
  BY Zenon DEF sub, Borrows
<1> HIDE DEF c
<1>6. \A i \in {0, 1, 2, 3, 4} : c[i] = Step(c, i)
  <2> HIDE DEF Step
  <2> QED
    BY <1>1, <1>4, Zenon
<1>7. c[0] = 0
  BY <1>6
<1>8. c[1] = Borrows(x[0], y[0], c[0]) /\ c[2] = Borrows(x[1], y[1], c[1])
  BY <1>2, <1>6
<1>9. c[3] = Borrows(x[2], y[2], c[2]) /\ c[4] = Borrows(x[3], y[3], c[3])
  BY <1>2, <1>6
<1> QED
  BY <1>5, <1>7, <1>8, <1>9, Zenon DEF DifferenceBorrows

LEMMA SubExact ==
  ASSUME NEW x \in Number, NEW y \in Number
  PROVE  /\ sub(x, y) \in Number
         /\ Value(sub(x, y)) = (Value(x) - Value(y)) % Modulus
<1> PICK c : DifferenceBorrows(x, y, c)
  BY SubIs, Zenon
<1>1. /\ c[0] = 0
      /\ c[1] = Borrows(x[0], y[0], c[0]) /\ c[2] = Borrows(x[1], y[1], c[1])
      /\ c[3] = Borrows(x[2], y[2], c[2]) /\ c[4] = Borrows(x[3], y[3], c[3])
      /\ sub(x, y) = [i \in Index |-> lo((x[i] - y[i]) - c[i])]
  BY Zenon DEF DifferenceBorrows
<1> DEFINE z == sub(x, y)
           T(i) == (x[i] - y[i]) - c[i]
<1>2. z[0] = lo(T(0)) /\ z[1] = lo(T(1)) /\ z[2] = lo(T(2)) /\ z[3] = lo(T(3))
  BY <1>1, WidthType
<1>3. T(0) = z[0] - Base * c[1] /\ c[1] \in {0, 1} /\ z[0] \in Word
  <2>1. c[0] \in {0, 1}
    BY <1>1
  <2>2. /\ Borrows(x[0], y[0], c[0]) \in {0, 1}
        /\ lo((x[0] - y[0]) - c[0]) \in Word
        /\ (x[0] - y[0]) - c[0]
              = lo((x[0] - y[0]) - c[0]) - Base * Borrows(x[0], y[0], c[0])
    BY <2>1, NumberIs, SubPlace
  <2> QED
    BY <1>1, <1>2, <2>2, Zenon
<1>4. T(1) = z[1] - Base * c[2] /\ c[2] \in {0, 1} /\ z[1] \in Word
  <2>1. c[1] \in {0, 1}
    BY <1>3
  <2>2. /\ Borrows(x[1], y[1], c[1]) \in {0, 1}
        /\ lo((x[1] - y[1]) - c[1]) \in Word
        /\ (x[1] - y[1]) - c[1]
              = lo((x[1] - y[1]) - c[1]) - Base * Borrows(x[1], y[1], c[1])
    BY <2>1, NumberIs, SubPlace
  <2> QED
    BY <1>1, <1>2, <2>2, Zenon
<1>5. T(2) = z[2] - Base * c[3] /\ c[3] \in {0, 1} /\ z[2] \in Word
  <2>1. c[2] \in {0, 1}
    BY <1>4
  <2>2. /\ Borrows(x[2], y[2], c[2]) \in {0, 1}
        /\ lo((x[2] - y[2]) - c[2]) \in Word
        /\ (x[2] - y[2]) - c[2]
              = lo((x[2] - y[2]) - c[2]) - Base * Borrows(x[2], y[2], c[2])
    BY <2>1, NumberIs, SubPlace
  <2> QED
    BY <1>1, <1>2, <2>2, Zenon
<1>6. T(3) = z[3] - Base * c[4] /\ c[4] \in {0, 1} /\ z[3] \in Word
  <2>1. c[3] \in {0, 1}
    BY <1>5
  <2>2. /\ Borrows(x[3], y[3], c[3]) \in {0, 1}
        /\ lo((x[3] - y[3]) - c[3]) \in Word
        /\ (x[3] - y[3]) - c[3]
              = lo((x[3] - y[3]) - c[3]) - Base * Borrows(x[3], y[3], c[3])
    BY <2>1, NumberIs, SubPlace
  <2> QED
    BY <1>1, <1>2, <2>2, Zenon
<1>7. z \in Number
  <2>1. ASSUME NEW i \in Index PROVE z[i] \in Word
    BY <1>3, <1>4, <1>5, <1>6, WidthType, Zenon
  <2>2. z = [i \in Index |-> z[i]]
    BY <1>1, Zenon
  <2> HIDE DEF z
  <2> QED
    BY <2>1, <2>2, Zenon DEF Number
<1> HIDE DEF z, T
<1> DEFINE x0 == x[0]
           x1 == x[1]
           x2 == x[2]
           x3 == x[3]
           y0 == y[0]
           y1 == y[1]
           y2 == y[2]
           y3 == y[3]
           z0 == z[0]
           z1 == z[1]
           z2 == z[2]
           z3 == z[3]
           c1 == c[1]
           c2 == c[2]
           c3 == c[3]
           c4 == c[4]
           xb == x2 + Base * x3
           xa == x1 + Base * xb
           yb == y2 + Base * y3
           ya == y1 + Base * yb
<1>8. /\ x0 \in Int /\ x1 \in Int /\ x2 \in Int /\ x3 \in Int /\ xa \in Int /\ xb \in Int
      /\ y0 \in Int /\ y1 \in Int /\ y2 \in Int /\ y3 \in Int /\ ya \in Int /\ yb \in Int
  BY NumberIs, ValueType
<1>9. /\ z0 \in Int /\ z1 \in Int /\ z2 \in Int /\ z3 \in Int
      /\ c1 \in Int /\ c2 \in Int /\ c3 \in Int /\ c4 \in Int
  BY <1>3, <1>4, <1>5, <1>6, <1>7, NumberIs
<1>10. /\ (x0 - y0) - 0 = z0 - Base * c1 /\ (x1 - y1) - c1 = z1 - Base * c2
       /\ (x2 - y2) - c2 = z2 - Base * c3 /\ (x3 - y3) - c3 = z3 - Base * c4
  BY <1>1, <1>3, <1>4, <1>5, <1>6, Zenon DEF T
<1>11. Value(x) = x0 + Base * xa /\ Value(y) = y0 + Base * ya
  BY Zenon DEF Value
<1>12. Value(z) = z0 + Base * (z1 + Base * (z2 + Base * z3))
  BY Zenon DEF Value
<1>13. (xb - yb) - c2 = z2 + Base * ((x3 - y3) - c3)
  <2>1. (x2 - y2) - c2 = z2 - Base * c3
    BY <1>10
  <2> HIDE DEF x2, x3, y2, y3, z2, c2, c3
  <2> QED
    BY ONLY <1>8, <1>9, <2>1, DifferencePlace
<1>14. (xa - ya) - c1 = z1 + Base * ((xb - yb) - c2)
  <2>1. (x1 - y1) - c1 = z1 - Base * c2
    BY <1>10
  <2>2. /\ x1 \in Int /\ y1 \in Int /\ xb \in Int /\ yb \in Int
        /\ z1 \in Int /\ c1 \in Int /\ c2 \in Int
    BY <1>8, <1>9
  <2> HIDE DEF x1, y1, z1, c1, c2, xb, yb
  <2> QED
    BY ONLY <2>1, <2>2, DifferencePlace
<1>15. (Value(x) - Value(y)) - 0 = z0 + Base * ((xa - ya) - c1)
  <2>1. (x0 - y0) - 0 = z0 - Base * c1
    BY <1>10
  <2>2. /\ x0 \in Int /\ y0 \in Int /\ xa \in Int /\ ya \in Int
        /\ z0 \in Int /\ c1 \in Int /\ 0 \in Int
    BY <1>8, <1>9
  <2> HIDE DEF x0, y0, z0, c1, xa, ya
  <2>3. ((x0 + Base * xa) - (y0 + Base * ya)) - 0 = z0 + Base * ((xa - ya) - c1)
    BY ONLY <2>1, <2>2, DifferencePlace
  <2> QED
    BY <1>11, <2>3, Zenon
<1> DEFINE d == 0 - c4
<1>16. (x3 - y3) - c3 = z3 + Base * d /\ d \in Int
  <2>1. (x3 - y3) - c3 = z3 - Base * c4
    BY <1>10
  <2>2. z3 - Base * c4 = z3 + Base * (0 - c4)
    <3>1. Base \in Int
      BY BaseType
    <3> HIDE DEF z3, c4
    <3> QED
      BY <1>9, <3>1
  <2>3. d \in Int
    BY <1>9
  <2> QED
    BY <2>1, <2>2, <2>3, Zenon
<1>17. (Value(x) - Value(y)) - 0 = z0 + Base * (z1 + Base * (z2 + Base * (z3 + Base * d)))
  BY <1>13, <1>14, <1>15, <1>16, Zenon
<1>18. z0 + Base * (z1 + Base * (z2 + Base * (z3 + Base * d))) = Value(z) + Modulus * d
  <2> HIDE DEF z0, z1, z2, z3, d
  <2>1. z0 + Base * (z1 + Base * (z2 + Base * (z3 + Base * d)))
           = (z0 + Base * (z1 + Base * (z2 + Base * z3))) + Modulus * d
    BY ONLY <1>9, <1>16, OverflowOut
  <2> QED
    BY <1>12, <2>1, Zenon
<1>19. Value(x) - Value(y) = Value(z) + Modulus * d
  <2>1. Value(x) - Value(y) \in Int
    BY ValueType
  <2>2. (Value(x) - Value(y)) - 0 = Value(x) - Value(y)
    BY <2>1
  <2> QED
    BY <1>17, <1>18, <2>2, Zenon
<1>20. (Value(z) + Modulus * d) % Modulus = Value(z)
  <2>1. Value(z) \in U256
    BY <1>7, ValueType
  <2> HIDE DEF d
  <2> QED
    BY <1>16, <2>1, WrapsTo
<1> QED
  BY <1>7, <1>19, <1>20, Zenon DEF z

-----------------------------------------------------------------------------
\* The additive inverse, and comparisons.

LEMMA DoubleBase ==
  /\ Base * Base \in Nat \ {0} /\ Base * Base >= 4
  /\ Modulus = (Base * Base) * (Base * Base)
<1> DEFINE B == Base
<1>1. B \in Nat /\ B >= 2
  BY BaseType
<1> HIDE DEF B
<1>2. B * B >= B * 2
  BY <1>1, Cancel
<1>3. B * B \in Nat /\ B * B >= 4
  BY <1>1, <1>2
<1>4. B * (B * (B * B)) = (B * B) * (B * B)
  BY <1>1
<1> QED
  BY <1>3, <1>4 DEF B, Modulus

LEMMA FitsIn ==
  ASSUME NEW v \in U256
  PROVE  v % Modulus = v
<1>1. v + Modulus * 0 = v
  BY BaseType DEF U256
<1>2. (v + Modulus * 0) % Modulus = v
  BY WrapsTo
<1> QED
  BY <1>1, <1>2, Zenon

LEMMA WrapsAround ==
  ASSUME NEW n \in Int, NEW q \in Int
  PROVE  (n + Modulus * q) % Modulus = n % Modulus
<1> DEFINE M == Modulus
           p == n \div M
           r == n % M
<1>1. M \in Nat \ {0}
  BY BaseType
<1>2. n = M * p + r /\ p \in Int /\ r \in 0 .. M - 1
  BY <1>1, FloorRemainder
<1>3. r \in U256
  BY <1>2 DEF U256
<1> HIDE DEF M, p, r
<1>4. M * (p + q) = M * p + M * q /\ M * p \in Int /\ M * q \in Int /\ p + q \in Int
  BY <1>1, <1>2
<1>5. n + M * q = r + M * (p + q)
  BY <1>1, <1>2, <1>4
<1>6. (r + M * (p + q)) % M = r
  BY <1>3, <1>4, WrapsTo DEF M
<1> QED
  BY <1>5, <1>6 DEF M, r

LEMMA ZeroIs ==
  /\ Zero \in Number /\ Value(Zero) = 0
  /\ \A i \in Index : Zero[i] = 0
<1>1. 0 \in Nat /\ 0 < Base * Base /\ 0 < Base
  BY DoubleBase, BaseType
<1>2. lo(0) = 0 /\ hi(0) = 0
  BY <1>1, LoOfWord
<1>3. 0 + (Base * Base) * 0 = 0
  BY DoubleBase
<1>4. /\ Zero \in Number /\ Value(Zero) = 0 + (Base * Base) * 0
      /\ Zero[0] = lo(0) /\ Zero[1] = hi(0) /\ Zero[2] = lo(0) /\ Zero[3] = hi(0)
  BY <1>1, NewIs DEF Zero
<1> QED
  BY <1>2, <1>3, <1>4, WidthType, Zenon

LEMMA SameNumber ==
  ASSUME NEW x \in Number, NEW y \in Number, \A i \in Index : x[i] = y[i]
  PROVE  x = y
<1>1. x = [i \in Index |-> x[i]] /\ y = [i \in Index |-> y[i]]
  BY Zenon DEF Number
<1>2. [i \in Index |-> x[i]] = [i \in Index |-> y[i]]
  BY Zenon
<1> QED
  BY <1>1, <1>2, Zenon

LEMMA NegateExact ==
  ASSUME NEW x \in Number
  PROVE  Value(get_add_inverse(x)) = (-Value(x)) % Modulus
<1> DEFINE D == Base * Base
           M == Modulus
           v == Value(x)
           ones == New(D - 1, D - 1)
           one == New(0, 1)
           left == sub(ones, x)
<1>1. D \in Nat /\ D >= 4 /\ M = D * D /\ M \in Nat
  BY DoubleBase, BaseType
<1>2. v \in Nat /\ v < M
  BY ValueType
<1>3. CASE eq(x, Zero)
  <2>1. \A i \in Index : x[i] = Zero[i]
    BY <1>3 DEF eq, Differing
  <2>2. x = Zero
    BY <2>1, ZeroIs, SameNumber
  <2>3. v = 0
    BY <2>2, ZeroIs, Zenon
  <2>4. -v = 0 /\ 0 \in U256
    <3>1. 0 \in U256
      BY <1>1, <1>2 DEF U256
    <3>2. v \in Int /\ v <= 0 /\ 0 <= v
      BY <2>3
    <3> HIDE DEF v
    <3>3. -v = 0
      BY ONLY <3>2
    <3> QED
      BY <3>1, <3>3
  <2>5. get_add_inverse(x) = Zero
    BY <1>3, Zenon DEF get_add_inverse
  <2>6. 0 % Modulus = 0
    BY <2>4, FitsIn
  <2> QED
    BY <2>4, <2>5, <2>6, ZeroIs, Zenon
<1>4. CASE ~eq(x, Zero)
  <2>1. get_add_inverse(x) = add(left, one)
    BY <1>4, Zenon DEF get_add_inverse
  <2>2. ones \in Number /\ Value(ones) = M - 1
    <3> DEFINE e == D - 1
    <3>1. e \in Nat /\ e < D
      <4> HIDE DEF D
      <4> QED
        BY <1>1
    <3>2. e + D * e = M - 1
      <4> HIDE DEF D, M
      <4>1. D * (D - 1) = D * D - D /\ D * D \in Nat
        BY <1>1
      <4> QED
        BY <1>1, <4>1
    <3>3. New(e, e) \in Number /\ Value(New(e, e)) = e + D * e
      <4> HIDE DEF e
      <4> QED
        BY <3>1, NewIs
    <3> QED
      BY <3>2, <3>3
  <2>3. one \in Number /\ Value(one) = 1
    <3>1. 0 < Base * Base /\ 1 < Base * Base /\ 1 + (Base * Base) * 0 = 1
      BY DoubleBase
    <3> QED
      BY <3>1, NewIs
  <2> DEFINE r == (M - 1) - v
  <2>4. r \in U256
    <3>1. r \in 0 .. M - 1
      <4> HIDE DEF M, v
      <4> QED
        BY <1>1, <1>2
    <3> QED
      BY <3>1 DEF U256
  <2>5. left \in Number /\ Value(left) = r
    <3>1. left \in Number /\ Value(left) = (Value(ones) - Value(x)) % Modulus
      BY <2>2, SubExact
    <3>2. Value(ones) - Value(x) = r
      BY <2>2, Zenon
    <3> HIDE DEF r
    <3>3. r % Modulus = r
      BY <2>4, FitsIn
    <3> QED
      BY <3>1, <3>2, <3>3, Zenon
  <2>6. Value(add(left, one)) = (r + 1) % M
    <3>1. Value(add(left, one)) = (Value(left) + Value(one)) % Modulus
      BY <2>3, <2>5, AddExact
    <3> QED
      BY <2>3, <2>5, <3>1, Zenon
  <2>7. r + 1 = (-v) + Modulus * 1
    <3>1. Modulus * 1 = M
      BY <1>1
    <3>2. r + 1 = (-v) + M
      <4> HIDE DEF M, v
      <4> QED
        BY <1>1, <1>2
    <3> QED
      BY <3>1, <3>2, Zenon
  <2>8. ((-v) + Modulus * 1) % Modulus = (-v) % Modulus
    <3>1. -v \in Int
      BY <1>2
    <3> DEFINE m == -v
    <3> HIDE DEF m
    <3>2. m \in Int
      BY <3>1 DEF m
    <3>3. (m + Modulus * 1) % Modulus = m % Modulus
      BY <3>2, WrapsAround
    <3> QED
      BY <3>3 DEF m
  <2> QED
    BY <2>1, <2>6, <2>7, <2>8, Zenon
<1> QED
  BY <1>3, <1>4

\* A higher place decides whatever is below it.
LEMMA WordBefore ==
  ASSUME NEW a \in Nat, a < Base, NEW b \in Nat, NEW s \in Int, NEW t \in Int, s < t
  PROVE  a + Base * s < b + Base * t
<1> DEFINE B == Base
<1>1. B \in Nat \ {0} /\ a < B
  BY BaseType
<1> HIDE DEF B
<1>2. B * (s + 1) <= B * t /\ B * (s + 1) = B * s + B /\ B * s \in Int /\ B * t \in Int
  BY <1>1, Cancel
<1>3. a + B * s < b + B * t
  BY <1>1, <1>2
<1> QED
  BY <1>3 DEF B

LEMMA WordAfter ==
  ASSUME NEW a \in Nat, NEW b \in Nat, NEW s \in Int, a < b
  PROVE  a + Base * s < b + Base * s
<1>1. Base * s \in Int
  BY BaseType
<1> QED
  BY <1>1

LEMMA HighestDecides ==
  ASSUME NEW x \in Number, NEW y \in Number, NEW k \in Index, x[k] < y[k],
         \A i \in Index : i > k => x[i] = y[i]
  PROVE  Value(x) < Value(y)
<1> DEFINE x0 == x[0]
           x1 == x[1]
           x2 == x[2]
           x3 == x[3]
           y0 == y[0]
           y1 == y[1]
           y2 == y[2]
           y3 == y[3]
           xb == x2 + Base * x3
           xa == x1 + Base * xb
           yb == y2 + Base * y3
           ya == y1 + Base * yb
<1>1. /\ x0 \in Nat /\ x1 \in Nat /\ x2 \in Nat /\ x3 \in Nat /\ xa \in Nat /\ xb \in Nat
      /\ y0 \in Nat /\ y1 \in Nat /\ y2 \in Nat /\ y3 \in Nat /\ ya \in Nat /\ yb \in Nat
      /\ x0 < Base /\ x1 < Base /\ x2 < Base
  BY NumberIs, ValueType
<1>2. Value(x) = x0 + Base * xa /\ Value(y) = y0 + Base * ya
  BY Zenon DEF Value
<1>3. ASSUME x3 < y3 PROVE xb < yb
  <2>1. x2 \in Nat /\ x2 < Base /\ y2 \in Nat /\ x3 \in Int /\ y3 \in Int
    BY <1>1
  <2> HIDE DEF x2, x3, y2, y3
  <2> QED
    BY ONLY <1>3, <2>1, WordBefore
<1>4. x3 = y3 /\ x2 < y2 => xb < yb
  <2> HIDE DEF x2, x3, y2, y3
  <2> QED
    BY <1>1, WordAfter
<1>5. ASSUME xb < yb PROVE xa < ya
  <2>1. x1 \in Nat /\ x1 < Base /\ y1 \in Nat /\ xb \in Int /\ yb \in Int
    BY <1>1
  <2> HIDE DEF xb, yb, x1, y1
  <2> QED
    BY ONLY <1>5, <2>1, WordBefore
<1>6. xb = yb /\ x1 < y1 => xa < ya
  <2> HIDE DEF xb, yb, x1, y1
  <2> QED
    BY <1>1, WordAfter
<1>7. ASSUME xa < ya PROVE x0 + Base * xa < y0 + Base * ya
  <2>1. x0 \in Nat /\ x0 < Base /\ y0 \in Nat /\ xa \in Int /\ ya \in Int
    BY <1>1
  <2> HIDE DEF xa, ya, x0, y0
  <2> QED
    BY ONLY <1>7, <2>1, WordBefore
<1>8. xa = ya /\ x0 < y0 => x0 + Base * xa < y0 + Base * ya
  <2> HIDE DEF xa, ya, x0, y0
  <2> QED
    BY <1>1, WordAfter
<1>9. CASE k = 3
  BY <1>2, <1>3, <1>5, <1>7, <1>9, Zenon
<1>10. CASE k = 2
  <2>1. x3 = y3
    BY <1>10, WidthType
  <2>2. x2 < y2
    BY <1>10
  <2> QED
    BY <1>2, <1>4, <1>5, <1>7, <2>1, <2>2, Zenon
<1>11. CASE k = 1
  <2>1. x3 = y3 /\ x2 = y2
    BY <1>11, WidthType
  <2>2. x1 < y1
    BY <1>11
  <2>3. xb = yb
    BY <2>1, Zenon
  <2> QED
    BY <1>2, <1>6, <1>7, <2>2, <2>3, Zenon
<1>12. CASE k = 0
  <2>1. x3 = y3 /\ x2 = y2 /\ x1 = y1
    BY <1>12, WidthType
  <2>2. x0 < y0
    BY <1>12
  <2>3. xa = ya
    BY <2>1, Zenon
  <2> QED
    BY <1>2, <1>8, <2>2, <2>3, Zenon
<1> QED
  BY <1>9, <1>10, <1>11, <1>12, WidthType, Zenon

LEMMA HighestDiffers ==
  ASSUME NEW x, NEW y, Differing(x, y) # {}
  PROVE  LET k == Max(Differing(x, y))
         IN  k \in Index /\ x[k] # y[k] /\ \A i \in Index : i > k => x[i] = y[i]
<1> DEFINE D == Differing(x, y)
           Top(k) == k \in D /\ \A i \in D : k >= i
<1>1. D \subseteq {0, 1, 2, 3} /\ D # {}
  BY WidthType DEF Differing
<1>2. \E k : Top(k)
  <2>1. CASE 3 \in D
    <3>1. Top(3)
      <4> HIDE DEF D
      <4> QED
        BY <1>1, <2>1
    <3> QED
      BY <3>1
  <2>2. CASE 3 \notin D /\ 2 \in D
    <3>1. Top(2)
      <4> HIDE DEF D
      <4> QED
        BY <1>1, <2>2
    <3> QED
      BY <3>1
  <2>3. CASE 3 \notin D /\ 2 \notin D /\ 1 \in D
    <3>1. Top(1)
      <4> HIDE DEF D
      <4> QED
        BY <1>1, <2>3
    <3> QED
      BY <3>1
  <2>4. CASE 3 \notin D /\ 2 \notin D /\ 1 \notin D
    <3>1. Top(0)
      <4> HIDE DEF D
      <4>1. ASSUME NEW i \in D PROVE i = 0
        BY <1>1, <2>4
      <4>2. 0 \in D
        BY <1>1, <4>1
      <4>3. \A i \in D : 0 >= i
        BY <4>1
      <4> QED
        BY <4>2, <4>3
    <3> QED
      BY <3>1
  <2> QED
    BY <2>1, <2>2, <2>3, <2>4
<1>3. Max(D) = CHOOSE k \in D : \A i \in D : k >= i
  BY Zenon DEF Max
<1> DEFINE k == Max(D)
<1>4. Top(k)
  <2> HIDE DEF D
  <2>1. \E j \in D : \A i \in D : j >= i
    BY <1>2, Zenon
  <2>2. k \in D /\ \A i \in D : k >= i
    BY <1>3, <2>1, Zenon
  <2> QED
    BY <2>2
<1> HIDE DEF k
<1>5. k \in Index /\ x[k] # y[k]
  BY <1>4, Zenon DEF Differing
<1>6. ASSUME NEW i \in Index, i > k PROVE x[i] = y[i]
  <2> SUFFICES ASSUME x[i] # y[i] PROVE FALSE
    OBVIOUS
  <2>1. i \in D
    BY Zenon DEF Differing
  <2>2. k >= i
    BY <1>4, <2>1, Zenon
  <2>3. i \in Int /\ k \in Int
    BY <1>5, WidthType
  <2> QED
    BY <1>6, <2>2, <2>3
<1> QED
  BY <1>5, <1>6 DEF k

LEMMA ComparisonsExact ==
  ASSUME NEW x \in Number, NEW y \in Number
  PROVE  /\ eq(x, y) <=> Value(x) = Value(y)
         /\ lt(x, y) <=> Value(x) < Value(y)
         /\ gt(x, y) <=> Value(x) > Value(y)
         /\ lte(x, y) <=> Value(x) <= Value(y)
         /\ gte(x, y) <=> Value(x) >= Value(y)
<1> DEFINE k == Max(Differing(x, y))
<1>1. Value(x) \in Nat /\ Value(y) \in Nat
  BY ValueType
<1>2. CASE Differing(x, y) = {}
  <2>1. \A i \in Index : x[i] = y[i]
    BY <1>2 DEF Differing
  <2>2. x = y
    BY <2>1, SameNumber
  <2>3. eq(x, y) /\ ~lt(x, y) /\ ~gt(x, y) /\ lte(x, y) /\ gte(x, y)
    BY <1>2, Zenon DEF eq, lt, gt, lte, gte
  <2> QED
    BY <1>1, <2>2, <2>3
<1>3. CASE Differing(x, y) # {}
  <2>1. /\ k \in Index /\ x[k] # y[k]
        /\ \A i \in Index : i > k => x[i] = y[i]
    BY <1>3, HighestDiffers
  <2>2. /\ ~eq(x, y) /\ (lt(x, y) <=> x[k] < y[k]) /\ (gt(x, y) <=> x[k] > y[k])
        /\ (lte(x, y) <=> x[k] < y[k]) /\ (gte(x, y) <=> x[k] > y[k])
    BY <1>3, Zenon DEF eq, lt, gt, lte, gte
  <2> HIDE DEF k
  <2>3. x[k] \in Nat /\ y[k] \in Nat
    BY <2>1, WordIs
  <2>4. CASE x[k] < y[k]
    <3>1. Value(x) < Value(y)
      BY <2>1, <2>4, HighestDecides
    <3> QED
      BY <1>1, <2>2, <2>3, <2>4, <3>1
  <2>5. CASE y[k] < x[k]
    <3>1. Value(y) < Value(x)
      BY <2>1, <2>5, HighestDecides
    <3> QED
      BY <1>1, <2>2, <2>3, <2>5, <3>1
  <2> QED
    BY <2>1, <2>3, <2>4, <2>5
<1> QED
  BY <1>2, <1>3

-----------------------------------------------------------------------------
\* Shifts: by words, then by the bits of a word.

\* A factor may wrap before or after it is multiplied.
LEMMA FactorWraps ==
  ASSUME NEW a \in Int, NEW p \in Int
  PROVE  ((a % Modulus) * p) % Modulus = (a * p) % Modulus
<1> DEFINE M == Modulus
           q == a \div M
           r == a % M
<1>1. M \in Nat \ {0}
  BY BaseType
<1>2. a = M * q + r /\ q \in Int /\ r \in Int
  BY <1>1, FloorRemainder
<1> HIDE DEF M, q, r
<1>3. a * p = r * p + M * (q * p)
  <2>1. (M * q + r) * p = r * p + M * (q * p)
    BY <1>1, <1>2
  <2> QED
    BY <1>2, <2>1, Zenon
<1>4. r * p \in Int /\ q * p \in Int
  BY <1>2
<1> DEFINE n == r * p
           m == q * p
<1>5. (n + M * m) % M = n % M
  <2> HIDE DEF n, m
  <2> QED
    BY <1>4, WrapsAround DEF M, n, m
<1> QED
  BY <1>3, <1>5, Zenon DEF M, r

LEMMA DivideTwice ==
  ASSUME NEW a \in Nat, NEW p \in Nat \ {0}, NEW q \in Nat \ {0}
  PROVE  (a \div p) \div q = a \div (p * q)
<1> DEFINE b == a \div p
           r == a % p
           c == b \div q
           s == b % q
           d == p * q
<1>1. a = p * b + r /\ b \in Nat /\ r \in 0 .. p - 1
  BY Remainder
<1> HIDE DEF b, r
<1>2. b = q * c + s /\ c \in Nat /\ s \in 0 .. q - 1
  BY <1>1, Remainder
<1> HIDE DEF c, s
<1>3. d \in Nat \ {0}
  <2>1. p * q # 0
    OBVIOUS
  <2> QED
    BY <2>1
<1>4. a = d * c + (p * s + r)
  <2>1. p * (q * c + s) = (p * q) * c + p * s
    BY <1>2
  <2>2. (p * q) * c \in Nat /\ p * s \in Nat
    BY <1>2
  <2>3. a = ((p * q) * c + p * s) + r
    BY <1>1, <1>2, <2>1, Zenon
  <2> QED
    BY <1>1, <2>2, <2>3
<1>5. p * s + r \in Nat /\ p * s + r < d
  <2>1. s + 1 <= q
    BY <1>2
  <2>2. p * (s + 1) <= p * q
    BY <1>2, <2>1, Cancel
  <2>3. p * (s + 1) = p * s + p /\ p * s \in Nat /\ p * q \in Nat
    BY <1>2
  <2> QED
    BY <1>1, <2>2, <2>3
<1>6. a \div d = c
  <2> DEFINE e == p * s + r
             dc == d * c
  <2>1. dc \in Nat
    BY <1>2, <1>3
  <2>2. a = dc + e /\ e \in Nat /\ e < d
    BY <1>4, <1>5
  <2> HIDE DEF e, d, dc
  <2>3. dc <= a /\ a < dc + d
    BY <1>3, <2>1, <2>2
  <2>4. d * c <= a /\ a < d * c + d
    BY <2>3 DEF dc
  <2> QED
    BY <1>2, <1>3, <2>4, QuotientIs
<1> QED
  BY <1>6 DEF b, c, d

Moved(x, k) == [i \in Index |-> WordAt(x, i - k)]
MovedDown(x, k) == [i \in Index |-> WordAt(x, i + k)]

LEMMA WordAtType ==
  ASSUME NEW x \in Number, NEW i \in Int
  PROVE  WordAt(x, i) \in Word /\ (i \notin Index => WordAt(x, i) = 0)
<1>1. 0 \in Word
  BY BaseType DEF Word
<1> QED
  BY <1>1, WordIs DEF WordAt

LEMMA MovedIs ==
  ASSUME NEW x \in Number, NEW k \in 0 .. 3
  PROVE  Moved(x, k) \in Number /\ MovedDown(x, k) \in Number
<1>1. ASSUME NEW i \in Index PROVE i - k \in Int /\ i + k \in Int
  BY WidthType
<1>2. ASSUME NEW i \in Index PROVE WordAt(x, i - k) \in Word /\ WordAt(x, i + k) \in Word
  BY <1>1, WordAtType
<1> QED
  BY <1>2, Zenon DEF Moved, MovedDown, Number

\* The lowest word becomes 0, or the highest.
LEMMA MoveOne ==
  ASSUME NEW y \in Number, NEW z \in Number,
         z[0] = 0, z[1] = y[0], z[2] = y[1], z[3] = y[2]
  PROVE  Value(z) = (Value(y) * Base) % Modulus
<1> DEFINE y0 == y[0]
           y1 == y[1]
           y2 == y[2]
           y3 == y[3]
<1>1. y0 \in Int /\ y1 \in Int /\ y2 \in Int /\ y3 \in Int /\ 0 \in Int
  BY NumberIs
<1>2. Value(z) = 0 + Base * (y0 + Base * (y1 + Base * y2))
  BY Zenon DEF Value
<1>3. Value(y) = y0 + Base * (y1 + Base * (y2 + Base * y3))
  BY Zenon DEF Value
<1>4. 0 + Base * Value(y) = Value(z) + Modulus * y3
  <2> HIDE DEF y0, y1, y2, y3
  <2>1. 0 + Base * (y0 + Base * (y1 + Base * (y2 + Base * y3)))
           = (0 + Base * (y0 + Base * (y1 + Base * y2))) + Modulus * y3
    BY ONLY <1>1, OverflowOut
  <2> QED
    BY <1>2, <1>3, <2>1, Zenon
<1>5. Value(y) * Base = 0 + Base * Value(y)
  <2> DEFINE v == Value(y)
  <2>1. v \in Nat /\ Base \in Nat
    BY ValueType, BaseType
  <2> HIDE DEF v
  <2>2. v * Base = 0 + Base * v
    BY <2>1
  <2> QED
    BY <2>2 DEF v
<1>6. (Value(z) + Modulus * y3) % Modulus = Value(z)
  <2>1. Value(z) \in U256
    BY ValueType
  <2> HIDE DEF y3
  <2> QED
    BY <1>1, <2>1, WrapsTo
<1> QED
  BY <1>4, <1>5, <1>6, Zenon

LEMMA MoveOneDown ==
  ASSUME NEW y \in Number, NEW z \in Number,
         z[0] = y[1], z[1] = y[2], z[2] = y[3], z[3] = 0
  PROVE  Value(z) = Value(y) \div Base
<1> DEFINE y0 == y[0]
           a == y[1] + Base * (y[2] + Base * y[3])
<1>1. y0 \in Nat /\ y0 < Base /\ a \in Int
  BY NumberIs, ValueType
<1>2. Value(y) = y0 + Base * a
  BY Zenon DEF Value
<1>3. Value(z) = a
  <2>1. y[3] + Base * 0 = y[3]
    <3>1. y[3] \in Nat /\ Base * 0 = 0
      BY NumberIs, BaseType
    <3> QED
      BY <3>1
  <2>2. Value(z) = y[1] + Base * (y[2] + Base * (y[3] + Base * 0))
    BY Zenon DEF Value
  <2> QED
    BY <2>1, <2>2, Zenon
<1>4. hi(y0 + Base * a) = a
  <2> HIDE DEF y0, a
  <2> QED
    BY <1>1, SplitIs
<1> QED
  BY <1>2, <1>3, <1>4, Zenon DEF hi

LEMMA WordPowers ==
  /\ Pow2[0 * U64_RESOLUTION] = 1
  /\ \A k \in 0 .. 3 : /\ Pow2[k * U64_RESOLUTION] \in Nat \ {0}
                       /\ Pow2[(k + 1) * U64_RESOLUTION] = Pow2[k * U64_RESOLUTION] * Base
<1> DEFINE R == U64_RESOLUTION
<1>1. R \in Nat
  BY WidthType
<1>2. Pow2[0 * R] = 1
  <2>1. 0 * R = 0
    BY <1>1
  <2> QED
    BY <2>1, PowerIs, Zenon
<1>3. ASSUME NEW k \in 0 .. 3
      PROVE  Pow2[k * R] \in Nat \ {0} /\ Pow2[(k + 1) * R] = Pow2[k * R] * Base
  <2>1. k \in {0, 1, 2, 3}
    OBVIOUS
  <2>2. k * R \in Nat /\ k * R + R <= 4 * R /\ (k + 1) * R = k * R + R
    BY <1>1, <2>1
  <2> DEFINE n == k * R
  <2>3. Pow2[n + R] = Pow2[n] * Pow2[R]
    <3> HIDE DEF n
    <3> QED
      BY <1>1, <2>2, PowersMultiply DEF n
  <2>4. Pow2[n] \in Nat \ {0}
    <3>1. n <= 4 * R /\ n \in Nat
      <4> HIDE DEF n
      <4> QED
        BY <1>1, <2>2 DEF n
    <3> HIDE DEF n
    <3> QED
      BY <3>1, PowerType
  <2> QED
    BY <2>2, <2>3, <2>4, BaseType, Zenon
<1> QED
  BY <1>2, <1>3

LEMMA WordsMoved ==
  ASSUME NEW x \in Number, NEW k \in 0 .. 3
  PROVE  /\ Value(Moved(x, k)) = (Value(x) * Pow2[k * U64_RESOLUTION]) % Modulus
         /\ Value(MovedDown(x, k)) = Value(x) \div Pow2[k * U64_RESOLUTION]
<1> DEFINE v == Value(x)
           Is(j) == /\ Value(Moved(x, j)) = (v * Pow2[j * U64_RESOLUTION]) % Modulus
                    /\ Value(MovedDown(x, j)) = v \div Pow2[j * U64_RESOLUTION]
<1>1. v \in U256 /\ v \in Nat
  BY ValueType
<1>2. Is(0)
  <2>1. ASSUME NEW i \in Index PROVE Moved(x, 0)[i] = x[i] /\ MovedDown(x, 0)[i] = x[i]
    <3>1. i - 0 = i /\ i + 0 = i
      BY WidthType
    <3> QED
      BY <3>1 DEF Moved, MovedDown, WordAt
  <2>2. Moved(x, 0) = x /\ MovedDown(x, 0) = x
    BY <2>1, MovedIs, SameNumber
  <2>3. v * 1 = v /\ v \div 1 = v
    <3> HIDE DEF v
    <3> QED
      BY <1>1
  <2>4. v % Modulus = v
    BY <1>1, FitsIn
  <2> QED
    BY <2>2, <2>3, <2>4, WordPowers, Zenon
<1>3. ASSUME NEW j \in {0, 1, 2}, Is(j) PROVE Is(j + 1)
  <2> DEFINE y == Moved(x, j)
             z == Moved(x, j + 1)
             y1 == MovedDown(x, j)
             z1 == MovedDown(x, j + 1)
             p == Pow2[j * U64_RESOLUTION]
  <2>1. y \in Number /\ z \in Number /\ y1 \in Number /\ z1 \in Number
    <3>1. j \in 0 .. 3 /\ j + 1 \in 0 .. 3
      OBVIOUS
    <3> QED
      BY <3>1, MovedIs
  <2>2. z[0] = 0 /\ z[1] = y[0] /\ z[2] = y[1] /\ z[3] = y[2]
    <3>1. 0 - (j + 1) \notin Index
      BY WidthType
    <3>2. 1 - (j + 1) = 0 - j /\ 2 - (j + 1) = 1 - j /\ 3 - (j + 1) = 2 - j
      OBVIOUS
    <3>3. /\ z[0] = WordAt(x, 0 - (j + 1)) /\ z[1] = WordAt(x, 1 - (j + 1))
          /\ z[2] = WordAt(x, 2 - (j + 1)) /\ z[3] = WordAt(x, 3 - (j + 1))
          /\ y[0] = WordAt(x, 0 - j) /\ y[1] = WordAt(x, 1 - j) /\ y[2] = WordAt(x, 2 - j)
      BY WidthType DEF Moved
    <3>4. WordAt(x, 0 - (j + 1)) = 0
      BY <3>1, Zenon DEF WordAt
    <3> QED
      BY <3>2, <3>3, <3>4, Zenon
  <2>3. z1[0] = y1[1] /\ z1[1] = y1[2] /\ z1[2] = y1[3] /\ z1[3] = 0
    <3>1. 3 + (j + 1) \notin Index
      BY WidthType
    <3>2. 0 + (j + 1) = 1 + j /\ 1 + (j + 1) = 2 + j /\ 2 + (j + 1) = 3 + j
      OBVIOUS
    <3>3. /\ z1[0] = WordAt(x, 0 + (j + 1)) /\ z1[1] = WordAt(x, 1 + (j + 1))
          /\ z1[2] = WordAt(x, 2 + (j + 1)) /\ z1[3] = WordAt(x, 3 + (j + 1))
          /\ y1[1] = WordAt(x, 1 + j) /\ y1[2] = WordAt(x, 2 + j) /\ y1[3] = WordAt(x, 3 + j)
      BY WidthType DEF MovedDown
    <3>4. WordAt(x, 3 + (j + 1)) = 0
      BY <3>1, Zenon DEF WordAt
    <3> QED
      BY <3>2, <3>3, <3>4, Zenon
  <2>4. p \in Nat \ {0} /\ Pow2[(j + 1) * U64_RESOLUTION] = p * Base /\ Base \in Nat \ {0}
    <3>1. j \in 0 .. 3
      OBVIOUS
    <3> QED
      BY <3>1, WordPowers, BaseType
  <2>5. Value(z) = (Value(y) * Base) % Modulus
    <3> HIDE DEF y, z
    <3> QED
      BY <2>1, <2>2, MoveOne
  <2>6. Value(z1) = Value(y1) \div Base
    <3> HIDE DEF y1, z1
    <3> QED
      BY <2>1, <2>3, MoveOneDown
  <2>7. Value(y) = (v * p) % Modulus /\ Value(y1) = v \div p
    BY <1>3
  <2> HIDE DEF y, z, y1, z1, p, v
  <2>8. (((v * p) % Modulus) * Base) % Modulus = ((v * p) * Base) % Modulus
    <3> DEFINE a == v * p
    <3>1. a \in Int
      BY <1>1, <2>4
    <3> HIDE DEF a
    <3>2. ((a % Modulus) * Base) % Modulus = (a * Base) % Modulus
      BY <2>4, <3>1, FactorWraps
    <3> QED
      BY <3>2 DEF a
  <2>9. (v * p) * Base = v * (p * Base)
    BY <1>1, <2>4
  <2>10. (v \div p) \div Base = v \div (p * Base)
    BY <1>1, <2>4, DivideTwice
  <2>11. Value(z) = (v * (p * Base)) % Modulus
    BY <2>5, <2>7, <2>8, <2>9, Zenon
  <2>12. Value(z1) = v \div (p * Base)
    BY <2>6, <2>7, <2>10, Zenon
  <2> QED
    BY <2>4, <2>11, <2>12, Zenon DEF z, z1, p
<1> HIDE DEF Is
<1>4. Is(0) /\ Is(1) /\ Is(2) /\ Is(3)
  <2>1. 0 + 1 = 1 /\ 1 + 1 = 2 /\ 2 + 1 = 3
    OBVIOUS
  <2> QED
    BY <1>2, <1>3, <2>1
<1>5. k \in {0, 1, 2, 3}
  OBVIOUS
<1>6. Is(k)
  BY <1>4, <1>5, Zenon
<1> QED
  BY <1>6 DEF Is

\* A word times p, where p * q = Base: what stays in the word and what leaves it.
LEMMA BitsSplit ==
  ASSUME NEW u \in Nat, u < Base, NEW p \in Nat \ {0}, NEW q \in Nat \ {0}, p * q = Base
  PROVE  /\ u * p = (u % q) * p + Base * (u \div q)
         /\ lo(u * p) = (u % q) * p /\ hi(u * p) = u \div q
         /\ (u % q) * p \in Nat /\ (u % q) * p + p <= Base
         /\ u \div q \in Nat /\ u \div q < p
<1> DEFINE B == Base
           d == u \div q
           r == u % q
           rp == r * p
<1>1. u = q * d + r /\ d \in Nat /\ r \in 0 .. q - 1
  BY Remainder
<1>2. B \in Nat /\ u < B /\ p * q = B
  BY BaseType
<1> HIDE DEF B, d, r
<1>3. (r + 1) * p <= q * p /\ (r + 1) * p = rp + p /\ q * p = B /\ rp \in Nat
  <2>1. p * (r + 1) <= p * q
    BY <1>1, Cancel
  <2>2. p * (r + 1) = (r + 1) * p /\ p * q = q * p /\ (r + 1) * p = r * p + p /\ r * p \in Nat
    BY <1>1
  <2> QED
    BY <1>2, <2>1, <2>2
<1>4. u * p = rp + B * d
  <2>1. (q * d + r) * p = r * p + (p * q) * d
    BY <1>1
  <2> QED
    BY <1>1, <1>2, <2>1, Zenon
<1>5. rp < B /\ rp + p <= B
  BY <1>2, <1>3
<1>6. d < p
  <2> SUFFICES ASSUME p <= d PROVE FALSE
    BY <1>1
  <2>1. q * p <= q * d /\ q * d \in Nat
    BY <1>1, Cancel
  <2> QED
    BY <1>1, <1>2, <1>3, <2>1
<1>7. lo(rp + B * d) = rp /\ hi(rp + B * d) = d
  <2> HIDE DEF rp
  <2> QED
    BY <1>1, <1>3, <1>5, SplitIs DEF B
<1> QED
  BY <1>1, <1>3, <1>4, <1>5, <1>6, <1>7, Zenon DEF d, r, B

LEMMA PlaceScaled ==
  ASSUME NEW u \in Int, NEW p \in Int, NEW c \in Int, NEW w \in Int, NEW h \in Int,
         NEW s \in Int, u * p = w + Base * h
  PROVE  (u + Base * s) * p + c = (w + c) + Base * (s * p + h)
<1> DEFINE B == Base
           up == u * p
           bsp == B * (s * p)
           bh == B * h
<1>1. B \in Int /\ up = w + bh
  BY BaseType
<1>2. (u + B * s) * p = up + bsp
  <2> HIDE DEF B
  <2> QED
    BY <1>1
<1>3. B * (s * p + h) = bsp + bh
  <2>1. s * p \in Int
    OBVIOUS
  <2> DEFINE sp == s * p
  <2> HIDE DEF B, sp
  <2>2. B * (sp + h) = B * sp + B * h
    BY <1>1, <2>1 DEF sp
  <2> QED
    BY <2>2 DEF sp
<1>4. up \in Int /\ bsp \in Int /\ bh \in Int
  BY <1>1
<1> HIDE DEF up, bsp, bh
<1>5. (up + bsp) + c = (w + c) + (bsp + bh)
  BY <1>1, <1>4
<1> QED
  BY <1>2, <1>3, <1>5, Zenon DEF B

ShiftedUp(y, p, q) == [i \in Index |-> lo(y[i] * p) + WordAt(y, i - 1) \div q]
ShiftedDown(y, p, q) == [i \in Index |-> y[i] \div p + lo(WordAt(y, i + 1) * q)]

LEMMA ZeroSplits ==
  ASSUME NEW q \in Nat \ {0}
  PROVE  0 \div q = 0 /\ 0 % q = 0 /\ lo(0 * q) = 0
<1>1. 0 * q = 0
  OBVIOUS
<1>2. q * 0 <= 0 /\ 0 < q * 0 + q /\ 0 - q * 0 = 0
  OBVIOUS
<1>3. 0 \div q = 0 /\ 0 % q = 0
  BY <1>2, QuotientIs
<1>4. lo(0) = 0
  BY BaseType, LoOfWord
<1> QED
  BY <1>1, <1>3, <1>4

LEMMA BitsUp ==
  ASSUME NEW y \in Number, NEW p \in Nat \ {0}, NEW q \in Nat \ {0}, p * q = Base
  PROVE  /\ ShiftedUp(y, p, q) \in Number
         /\ Value(ShiftedUp(y, p, q)) = (Value(y) * p) % Modulus
<1> DEFINE z == ShiftedUp(y, p, q)
           L(i) == lo(y[i] * p)
           H(i) == y[i] \div q
<1>1. ASSUME NEW i \in Index
      PROVE  /\ y[i] * p = L(i) + Base * H(i)
             /\ L(i) \in Nat /\ L(i) + p <= Base /\ H(i) \in Nat /\ H(i) < p
  <2> DEFINE u == y[i]
  <2>1. u \in Nat /\ u < Base
    BY WordIs
  <2> HIDE DEF u
  <2>2. /\ u * p = (u % q) * p + Base * (u \div q)
        /\ lo(u * p) = (u % q) * p
        /\ (u % q) * p \in Nat /\ (u % q) * p + p <= Base
        /\ u \div q \in Nat /\ u \div q < p
    BY <2>1, BitsSplit
  <2> QED
    BY <2>2, Zenon DEF u
<1>2. z[0] = L(0) + 0 /\ z[1] = L(1) + H(0) /\ z[2] = L(2) + H(1) /\ z[3] = L(3) + H(2)
  <2>1. /\ z[0] = L(0) + WordAt(y, 0 - 1) \div q /\ z[1] = L(1) + WordAt(y, 1 - 1) \div q
        /\ z[2] = L(2) + WordAt(y, 2 - 1) \div q /\ z[3] = L(3) + WordAt(y, 3 - 1) \div q
    BY WidthType DEF ShiftedUp
  <2>2. /\ 0 - 1 \notin Index /\ 1 - 1 = 0 /\ 2 - 1 = 1 /\ 3 - 1 = 2
        /\ 0 \in Index /\ 1 \in Index /\ 2 \in Index
    BY WidthType
  <2>3. /\ WordAt(y, 0 - 1) = 0 /\ WordAt(y, 1 - 1) = y[0] /\ WordAt(y, 2 - 1) = y[1]
        /\ WordAt(y, 3 - 1) = y[2]
    BY <2>2, Zenon DEF WordAt
  <2>4. 0 \div q = 0
    BY ZeroSplits
  <2> QED
    BY <2>1, <2>3, <2>4, Zenon
<1> DEFINE l0 == L(0)
           l1 == L(1)
           l2 == L(2)
           l3 == L(3)
           h0 == H(0)
           h1 == H(1)
           h2 == H(2)
           h3 == H(3)
           B == Base
<1>3. /\ l0 \in Nat /\ l0 + p <= B /\ h0 \in Nat /\ h0 < p
      /\ l1 \in Nat /\ l1 + p <= B /\ h1 \in Nat /\ h1 < p
      /\ l2 \in Nat /\ l2 + p <= B /\ h2 \in Nat /\ h2 < p
      /\ l3 \in Nat /\ l3 + p <= B /\ h3 \in Nat /\ h3 < p /\ B \in Nat
  BY <1>1, WidthType, BaseType
<1>4. z \in Number
  <2>1. z = [i \in Index |-> z[i]]
    BY Zenon DEF ShiftedUp
  <2>2. z[0] \in Word /\ z[1] \in Word /\ z[2] \in Word /\ z[3] \in Word
    <3>1. /\ z[0] = l0 + 0 /\ z[1] = l1 + h0 /\ z[2] = l2 + h1 /\ z[3] = l3 + h2
      BY <1>2
    <3> HIDE DEF z, l0, l1, l2, l3, h0, h1, h2, h3
    <3>2. l0 + 0 \in 0 .. B - 1 /\ l1 + h0 \in 0 .. B - 1 /\ l2 + h1 \in 0 .. B - 1
          /\ l3 + h2 \in 0 .. B - 1
      <4> HIDE DEF B
      <4> QED
        BY <1>3
    <3> QED
      BY <3>1, <3>2, Zenon DEF Word
  <2>3. ASSUME NEW i \in Index PROVE z[i] \in Word
    <3> HIDE DEF z
    <3> QED
      BY <2>2, WidthType, Zenon
  <2> HIDE DEF z
  <2> QED
    BY <2>1, <2>3, Zenon DEF Number
<1> DEFINE y0 == y[0]
           y1 == y[1]
           y2 == y[2]
           y3 == y[3]
           yb == y2 + Base * y3
           ya == y1 + Base * yb
           z0 == l0 + 0
           z1 == l1 + h0
           z2 == l2 + h1
           z3 == l3 + h2
<1>5. /\ y0 \in Int /\ y1 \in Int /\ y2 \in Int /\ y3 \in Int /\ ya \in Int /\ yb \in Int
      /\ p \in Int /\ 0 \in Int
  BY NumberIs, ValueType
<1>6. /\ y0 * p = l0 + Base * h0 /\ y1 * p = l1 + Base * h1
      /\ y2 * p = l2 + Base * h2 /\ y3 * p = l3 + Base * h3
  BY <1>1, WidthType
<1>7. Value(y) = y0 + Base * ya /\ Value(z) = z0 + Base * (z1 + Base * (z2 + Base * z3))
  BY <1>2, Zenon DEF Value
<1> HIDE DEF z, y0, y1, y2, y3, l0, l1, l2, l3, h0, h1, h2, h3, B, L, H
<1>8. z0 \in Int /\ z1 \in Int /\ z2 \in Int /\ z3 \in Int /\ h3 \in Int
  BY <1>3
<1>9. y3 * p + h2 = z3 + Base * h3
  <2>1. Base * h3 \in Int
    BY <1>3, BaseType
  <2> QED
    BY <1>3, <1>6, <2>1
<1>10. yb * p + h1 = z2 + Base * (y3 * p + h2)
  <2>1. /\ y2 \in Int /\ p \in Int /\ h1 \in Int /\ l2 \in Int /\ h2 \in Int /\ y3 \in Int
        /\ y2 * p = l2 + Base * h2
    BY <1>3, <1>5, <1>6
  <2>2. (y2 + Base * y3) * p + h1 = (l2 + h1) + Base * (y3 * p + h2)
    BY ONLY <2>1, PlaceScaled
  <2> QED
    BY <2>2
<1>11. ya * p + h0 = z1 + Base * (yb * p + h1)
  <2>1. /\ y1 \in Int /\ p \in Int /\ h0 \in Int /\ l1 \in Int /\ h1 \in Int /\ yb \in Int
        /\ y1 * p = l1 + Base * h1
    BY <1>3, <1>5, <1>6
  <2> HIDE DEF yb
  <2>2. (y1 + Base * yb) * p + h0 = (l1 + h0) + Base * (yb * p + h1)
    BY ONLY <2>1, PlaceScaled
  <2> QED
    BY <2>2
<1>12. Value(y) * p + 0 = z0 + Base * (ya * p + h0)
  <2>1. /\ y0 \in Int /\ p \in Int /\ 0 \in Int /\ l0 \in Int /\ h0 \in Int /\ ya \in Int
        /\ y0 * p = l0 + Base * h0
    BY <1>3, <1>5, <1>6
  <2> HIDE DEF ya
  <2>2. (y0 + Base * ya) * p + 0 = (l0 + 0) + Base * (ya * p + h0)
    BY ONLY <2>1, PlaceScaled
  <2> QED
    BY <1>7, <2>2, Zenon
<1>13. Value(y) * p + 0 = z0 + Base * (z1 + Base * (z2 + Base * (z3 + Base * h3)))
  BY <1>9, <1>10, <1>11, <1>12, Zenon
<1>14. z0 + Base * (z1 + Base * (z2 + Base * (z3 + Base * h3))) = Value(z) + Modulus * h3
  <2> HIDE DEF z0, z1, z2, z3
  <2>1. z0 + Base * (z1 + Base * (z2 + Base * (z3 + Base * h3)))
           = (z0 + Base * (z1 + Base * (z2 + Base * z3))) + Modulus * h3
    BY ONLY <1>8, OverflowOut
  <2> QED
    BY <1>7, <2>1, Zenon
<1>15. Value(y) * p = Value(z) + Modulus * h3
  <2>1. Value(y) * p \in Int
    BY ValueType
  <2>2. Value(y) * p + 0 = Value(y) * p
    BY <2>1
  <2> QED
    BY <1>13, <1>14, <2>2, Zenon
<1>16. (Value(z) + Modulus * h3) % Modulus = Value(z)
  BY <1>4, <1>8, ValueType, WrapsTo
<1> QED
  BY <1>4, <1>15, <1>16, Zenon DEF z

LEMMA PlaceDivided ==
  ASSUME NEW u \in Nat, NEW s \in Nat, NEW p \in Nat \ {0}, NEW q \in Nat \ {0}, p * q = Base
  PROVE  /\ (u + Base * s) \div p = (u \div p + (s % p) * q) + Base * (s \div p)
         /\ (u + Base * s) % p = u % p
<1> DEFINE B == Base
           d == u \div p
           r == u % p
           e == s \div p
           t == s % p
           k == (d + t * q) + B * e
           n == u + B * s
           pk == p * k
<1>1. B \in Nat /\ p * q = B
  BY BaseType
<1>2. u = p * d + r /\ d \in Nat /\ r \in 0 .. p - 1
  BY Remainder
<1>3. s = p * e + t /\ e \in Nat /\ t \in 0 .. p - 1
  BY Remainder
<1> HIDE DEF B, d, r, e, t
<1>4. n = pk + r
  <2>1. B * (p * e + t) = p * (B * e) + B * t
    BY <1>1, <1>3
  <2>2. B * t = p * (t * q)
    <3>1. (p * q) * t = p * (t * q)
      BY <1>3
    <3> QED
      BY <1>1, <3>1, Zenon
  <2>3. B * s = p * (B * e) + p * (t * q)
    BY <1>3, <2>1, <2>2, Zenon
  <2> DEFINE be == B * e
             tq == t * q
  <2>4. be \in Nat /\ tq \in Nat
    BY <1>1, <1>3
  <2>5. p * ((d + tq) + be) = (p * d + p * tq) + p * be
    <3> HIDE DEF be, tq
    <3> QED
      BY <1>2, <2>4
  <2>6. p * d \in Nat /\ p * tq \in Nat /\ p * be \in Nat
    BY <1>2, <2>4
  <2>7. pk = (p * d + p * tq) + p * be
    BY <2>5
  <2>8. n = (p * d + r) + (p * be + p * tq)
    BY <1>2, <2>3, Zenon
  <2> DEFINE pd == p * d
             ptq == p * tq
             pbe == p * be
  <2>9. pd \in Nat /\ ptq \in Nat /\ pbe \in Nat /\ pk = (pd + ptq) + pbe
        /\ n = (pd + r) + (pbe + ptq)
    BY <2>6, <2>7, <2>8
  <2> HIDE DEF pd, ptq, pbe, pk, n
  <2> QED
    BY <1>2, <2>9
<1>5. k \in Nat /\ n \in Nat /\ pk \in Nat
  <2>1. t * q \in Nat /\ B * e \in Nat /\ B * s \in Nat
    BY <1>1, <1>3
  <2>2. k \in Nat /\ n \in Nat
    BY <1>2, <2>1
  <2> HIDE DEF k
  <2> QED
    BY <2>2
<1>6. p * k <= n /\ n < p * k + p /\ n - p * k = r
  <2> HIDE DEF k, n, pk
  <2>1. pk <= n /\ n < pk + p /\ n - pk = r
    BY <1>2, <1>4, <1>5
  <2> QED
    BY <2>1 DEF pk
<1>7. n \div p = k /\ n % p = r
  <2>1. /\ k \in Int /\ n \in Int /\ p \in Nat \ {0}
        /\ p * k <= n /\ n < p * k + p /\ n - p * k = r
    BY <1>5, <1>6
  <2> HIDE DEF k, n
  <2>2. n \div p = k /\ n % p = n - p * k
    BY ONLY <2>1, QuotientIs
  <2> QED
    BY <2>1, <2>2, Zenon
<1> QED
  BY <1>7 DEF n, k, d, r, e, t, B

LEMMA BitsDown ==
  ASSUME NEW y \in Number, NEW p \in Nat \ {0}, NEW q \in Nat \ {0}, p * q = Base
  PROVE  /\ ShiftedDown(y, p, q) \in Number
         /\ Value(ShiftedDown(y, p, q)) = Value(y) \div p
<1> DEFINE z == ShiftedDown(y, p, q)
           D(i) == y[i] \div p
           T(i) == (y[i] % p) * q
<1>1. q * p = Base
  <2>1. q * p = p * q
    OBVIOUS
  <2> QED
    BY <2>1
<1>2. ASSUME NEW i \in Index
      PROVE  /\ lo(y[i] * q) = T(i)
             /\ T(i) \in Nat /\ T(i) + q <= Base /\ D(i) \in Nat /\ D(i) < q
  <2>1. y[i] \in Nat /\ y[i] < Base
    BY WordIs
  <2> QED
    BY <1>1, <2>1, BitsSplit
<1>3. z[0] = D(0) + T(1) /\ z[1] = D(1) + T(2) /\ z[2] = D(2) + T(3) /\ z[3] = D(3) + 0
  <2>1. /\ z[0] = D(0) + lo(WordAt(y, 0 + 1) * q) /\ z[1] = D(1) + lo(WordAt(y, 1 + 1) * q)
        /\ z[2] = D(2) + lo(WordAt(y, 2 + 1) * q) /\ z[3] = D(3) + lo(WordAt(y, 3 + 1) * q)
    BY WidthType DEF ShiftedDown
  <2>2. /\ 3 + 1 \notin Index /\ 0 + 1 = 1 /\ 1 + 1 = 2 /\ 2 + 1 = 3
        /\ 3 \in Index /\ 1 \in Index /\ 2 \in Index
    BY WidthType
  <2>3. /\ WordAt(y, 0 + 1) = y[1] /\ WordAt(y, 1 + 1) = y[2] /\ WordAt(y, 2 + 1) = y[3]
        /\ WordAt(y, 3 + 1) = 0
    BY <2>2, Zenon DEF WordAt
  <2>4. lo(0 * q) = 0
    BY ZeroSplits
  <2>5. lo(y[1] * q) = T(1) /\ lo(y[2] * q) = T(2) /\ lo(y[3] * q) = T(3)
    BY <1>2, <2>2
  <2> QED
    BY <2>1, <2>3, <2>4, <2>5, Zenon
<1> DEFINE d0 == D(0)
           d1 == D(1)
           d2 == D(2)
           d3 == D(3)
           t1 == T(1)
           t2 == T(2)
           t3 == T(3)
           B == Base
<1>4. /\ d0 \in Nat /\ d0 < q /\ d1 \in Nat /\ d1 < q /\ d2 \in Nat /\ d2 < q
      /\ d3 \in Nat /\ d3 < q /\ t1 \in Nat /\ t1 + q <= B /\ t2 \in Nat /\ t2 + q <= B
      /\ t3 \in Nat /\ t3 + q <= B /\ B \in Nat
  BY <1>2, WidthType, BaseType
<1>5. z \in Number
  <2>1. z = [i \in Index |-> z[i]]
    BY Zenon DEF ShiftedDown
  <2>2. z[0] \in Word /\ z[1] \in Word /\ z[2] \in Word /\ z[3] \in Word
    <3>1. /\ z[0] = d0 + t1 /\ z[1] = d1 + t2 /\ z[2] = d2 + t3 /\ z[3] = d3 + 0
      BY <1>3
    <3> HIDE DEF z, d0, d1, d2, d3, t1, t2, t3
    <3>2. d0 + t1 \in 0 .. B - 1 /\ d1 + t2 \in 0 .. B - 1 /\ d2 + t3 \in 0 .. B - 1
          /\ d3 + 0 \in 0 .. B - 1
      <4> HIDE DEF B
      <4> QED
        BY <1>4
    <3> QED
      BY <3>1, <3>2, Zenon DEF Word
  <2>3. ASSUME NEW i \in Index PROVE z[i] \in Word
    <3> HIDE DEF z
    <3> QED
      BY <2>2, WidthType, Zenon
  <2> HIDE DEF z
  <2> QED
    BY <2>1, <2>3, Zenon DEF Number
<1> DEFINE y0 == y[0]
           y1 == y[1]
           y2 == y[2]
           y3 == y[3]
           yb == y2 + Base * y3
           ya == y1 + Base * yb
<1>6. /\ y0 \in Nat /\ y1 \in Nat /\ y2 \in Nat /\ y3 \in Nat /\ ya \in Nat /\ yb \in Nat
  BY NumberIs, ValueType
<1>7. Value(y) = y0 + Base * ya
  BY Zenon DEF Value
<1>8. Value(z) = (d0 + t1) + Base * ((d1 + t2) + Base * ((d2 + t3) + Base * (d3 + 0)))
  BY <1>3, Zenon DEF Value
<1>9. /\ yb \div p = (y2 \div p + (y3 % p) * q) + Base * (y3 \div p)
      /\ yb % p = y2 % p
  <2>1. /\ y2 \in Nat /\ y3 \in Nat /\ p \in Nat \ {0} /\ q \in Nat \ {0}
        /\ p * q = Base
    BY <1>6
  <2> HIDE DEF y2, y3
  <2> QED
    BY ONLY <2>1, PlaceDivided
<1>10. /\ ya \div p = (y1 \div p + (yb % p) * q) + Base * (yb \div p)
       /\ ya % p = y1 % p
  <2>1. /\ y1 \in Nat /\ yb \in Nat /\ p \in Nat \ {0} /\ q \in Nat \ {0}
        /\ p * q = Base
    BY <1>6
  <2> HIDE DEF y1, yb
  <2> QED
    BY ONLY <2>1, PlaceDivided
<1>11. Value(y) \div p = (y0 \div p + (ya % p) * q) + Base * (ya \div p)
  <2>1. /\ y0 \in Nat /\ ya \in Nat /\ p \in Nat \ {0} /\ q \in Nat \ {0}
        /\ p * q = Base
    BY <1>6
  <2> HIDE DEF y0, ya
  <2>2. /\ (y0 + Base * ya) \div p = (y0 \div p + (ya % p) * q) + Base * (ya \div p)
        /\ (y0 + Base * ya) % p = y0 % p
    BY ONLY <2>1, PlaceDivided
  <2> QED
    BY <1>7, <2>2, Zenon
<1>12. Value(y) \div p = (d0 + t1) + Base * ((d1 + t2) + Base * ((d2 + t3) + Base * d3))
  BY <1>9, <1>10, <1>11, Zenon
<1>13. d3 + 0 = d3
  BY <1>4
<1> QED
  BY <1>5, <1>8, <1>12, <1>13, Zenon

LEMMA BelowDivisor ==
  ASSUME NEW n \in Nat, NEW d \in Nat \ {0}, n < d
  PROVE  n \div d = 0 /\ n % d = n
<1>1. d * 0 <= n /\ n < d * 0 + d /\ n - d * 0 = n
  OBVIOUS
<1> QED
  BY <1>1, QuotientIs

\* An amount is a number of words and one of bits.
LEMMA AmountIs ==
  ASSUME NEW b \in 0 .. 4 * U64_RESOLUTION - 1
  PROVE  LET k == b \div U64_RESOLUTION
             r == b % U64_RESOLUTION
         IN  /\ k \in 0 .. 3 /\ r \in 0 .. U64_RESOLUTION - 1
             /\ b = k * U64_RESOLUTION + r
             /\ Pow2[b] = Pow2[k * U64_RESOLUTION] * Pow2[r]
             /\ Pow2[r] * Pow2[U64_RESOLUTION - r] = Base
             /\ Pow2[r] \in Nat \ {0} /\ Pow2[U64_RESOLUTION - r] \in Nat \ {0}
             /\ Pow2[k * U64_RESOLUTION] \in Nat \ {0}
<1> DEFINE R == U64_RESOLUTION
           k == b \div R
           r == b % R
           n == k * R
<1>1. R \in Nat \ {0} /\ b \in Nat /\ b < 4 * R
  BY WidthType
<1>2. b = R * k + r /\ k \in Nat /\ r \in 0 .. R - 1
  BY <1>1, Remainder
<1> HIDE DEF k, r
<1>3. R * k = n /\ n \in Nat
  BY <1>1, <1>2
<1>4. k \in 0 .. 3
  <2> SUFFICES ASSUME 4 <= k PROVE FALSE
    BY <1>2
  <2>1. R * 4 <= R * k /\ R * 4 = 4 * R
    BY <1>1, <1>2, Cancel
  <2> HIDE DEF n
  <2> QED
    BY <1>1, <1>2, <1>3, <2>1
<1>5. n + r = b
  <2> HIDE DEF n
  <2> QED
    BY <1>1, <1>2, <1>3
<1>6. Pow2[n + r] = Pow2[n] * Pow2[r]
  <2>1. r \in Nat /\ n + r <= 4 * R
    <3> HIDE DEF n
    <3> QED
      BY <1>1, <1>2, <1>5
  <2> HIDE DEF n
  <2> QED
    BY <1>3, <2>1, PowersMultiply
<1>7. Pow2[r] * Pow2[R - r] = Base
  <2>1. r \in Nat /\ R - r \in Nat /\ r + (R - r) = R /\ r + (R - r) <= 4 * R
    BY <1>1, <1>2
  <2>2. Pow2[r + (R - r)] = Pow2[r] * Pow2[R - r]
    BY <2>1, PowersMultiply
  <2> QED
    BY <2>1, <2>2, BaseType, Zenon
<1>8. Pow2[r] \in Nat \ {0} /\ Pow2[R - r] \in Nat \ {0}
  <2>1. r \in Nat /\ r <= 4 * R /\ R - r \in Nat /\ R - r <= 4 * R
    BY <1>1, <1>2
  <2> QED
    BY <2>1, PowerType
<1>9. Pow2[n] \in Nat \ {0}
  <2>1. n <= 4 * R
    <3> HIDE DEF n
    <3> QED
      BY <1>1, <1>2, <1>3, <1>5
  <2> HIDE DEF n
  <2> QED
    BY <1>3, <2>1, PowerType
<1> QED
  BY <1>2, <1>4, <1>5, <1>6, <1>7, <1>8, <1>9, Zenon DEF k, r, n

LEMMA ShiftsExact ==
  ASSUME NEW x \in Number, NEW b \in 0 .. 4 * U64_RESOLUTION
  PROVE  /\ shift_left(x, b) \in Number /\ shift_right(x, b) \in Number
         /\ Value(shift_left(x, b)) = (Value(x) * Pow2[b]) % Modulus
         /\ Value(shift_right(x, b)) = Value(x) \div Pow2[b]
<1> DEFINE R == U64_RESOLUTION
           v == Value(x)
<1>1. R \in Nat \ {0} /\ U64_RESOLUTION * NUM_WORDS = 4 * R
  BY WidthType
<1>2. v \in U256 /\ v \in Nat /\ v < Modulus /\ Modulus \in Nat \ {0}
  BY ValueType, BaseType
<1>3. CASE b = 4 * R
  <2>1. b >= U64_RESOLUTION * NUM_WORDS
    BY <1>1, <1>3
  <2>2. shift_left(x, b) = Zero /\ shift_right(x, b) = Zero
    BY <2>1 DEF shift_left, shift_right
  <2>3. Pow2[b] = Modulus
    BY <1>3, BaseType
  <2>4. v \div Modulus = 0
    <3> HIDE DEF v
    <3> QED
      BY <1>2, BelowDivisor
  <2>5. (v * Modulus) % Modulus = 0
    <3>1. v * Modulus = 0 + Modulus * v
      <4> HIDE DEF v
      <4> QED
        BY <1>2
    <3>2. 0 \in U256
      BY <1>2 DEF U256
    <3>3. (0 + Modulus * v) % Modulus = 0
      <4> HIDE DEF v
      <4> QED
        BY <1>2, <3>2, WrapsTo
    <3> QED
      BY <3>1, <3>3, Zenon
  <2> QED
    BY <2>2, <2>3, <2>4, <2>5, ZeroIs, Zenon
<1>4. CASE b # 4 * R
  <2>1. b \in 0 .. 4 * U64_RESOLUTION - 1 /\ ~(b >= U64_RESOLUTION * NUM_WORDS)
    BY <1>1, <1>4
  <2> DEFINE k == b \div U64_RESOLUTION
             r == b % U64_RESOLUTION
             W == Pow2[k * U64_RESOLUTION]
             p == Pow2[r]
             q == Pow2[U64_RESOLUTION - r]
             up == Moved(x, k)
             down == MovedDown(x, k)
  <2>2. /\ k \in 0 .. 3 /\ r \in 0 .. R - 1
        /\ Pow2[b] = W * p /\ p * q = Base
        /\ p \in Nat \ {0} /\ q \in Nat \ {0} /\ W \in Nat \ {0}
    BY <2>1, AmountIs
  <2>3. /\ shift_left(x, b) = IF r = 0 THEN up ELSE ShiftedUp(up, p, q)
        /\ shift_right(x, b) = IF r = 0 THEN down ELSE ShiftedDown(down, p, q)
    BY <2>1, Zenon DEF shift_left, shift_right, Moved, MovedDown, ShiftedUp, ShiftedDown
  <2> HIDE DEF k, r
  <2>4. /\ up \in Number /\ down \in Number
        /\ Value(up) = (v * W) % Modulus /\ Value(down) = v \div W
    BY <2>2, MovedIs, WordsMoved
  <2>5. CASE r = 0
    <3>1. p = 1
      BY <2>5, PowerIs
    <3>2. W * p = W
      BY <2>2, <3>1
    <3> QED
      BY <2>2, <2>3, <2>4, <2>5, <3>2, Zenon
  <2>6. CASE r # 0
    <3>1. /\ ShiftedUp(up, p, q) \in Number
          /\ Value(ShiftedUp(up, p, q)) = (Value(up) * p) % Modulus
      <4> HIDE DEF up, p, q
      <4> QED
        BY <2>2, <2>4, BitsUp
    <3>2. /\ ShiftedDown(down, p, q) \in Number
          /\ Value(ShiftedDown(down, p, q)) = Value(down) \div p
      <4> HIDE DEF down, p, q
      <4> QED
        BY <2>2, <2>4, BitsDown
    <3>3. (((v * W) % Modulus) * p) % Modulus = (v * (W * p)) % Modulus
      <4> DEFINE a == v * W
      <4> HIDE DEF v, W, p
      <4>1. a \in Int /\ p \in Int
        BY <1>2, <2>2
      <4>2. a * p = v * (W * p)
        BY <1>2, <2>2
      <4> HIDE DEF a
      <4>3. ((a % Modulus) * p) % Modulus = (a * p) % Modulus
        BY <4>1, FactorWraps
      <4> QED
        BY <4>2, <4>3, Zenon DEF a
    <3>4. (v \div W) \div p = v \div (W * p)
      <4> HIDE DEF v, W, p
      <4> QED
        BY <1>2, <2>2, DivideTwice
    <3>5. shift_left(x, b) = ShiftedUp(up, p, q) /\ shift_right(x, b) = ShiftedDown(down, p, q)
      BY <2>3, <2>6, Zenon
    <3>6. Value(ShiftedUp(up, p, q)) = (v * Pow2[b]) % Modulus
      BY <2>2, <2>4, <3>1, <3>3, Zenon
    <3>7. Value(ShiftedDown(down, p, q)) = v \div Pow2[b]
      BY <2>2, <2>4, <3>2, <3>4, Zenon
    <3> QED
      BY <3>1, <3>2, <3>5, <3>6, <3>7, Zenon
  <2> QED
    BY <2>5, <2>6
<1> QED
  BY <1>3, <1>4

-----------------------------------------------------------------------------
\* The product of two numbers of two words.

LEMMA ProductSplit ==
  ASSUME NEW v0 \in Int, NEW v1 \in Int, NEW n0 \in Int, NEW n1 \in Int
  PROVE  (v0 + Base * v1) * (n0 + Base * n1)
            = (v0 * n0 + Base * (v0 * n1)) + (Base * (v1 * n0) + (Base * Base) * (v1 * n1))
<1> DEFINE B == Base
           w1 == B * v1
           m1 == B * n1
<1>1. B \in Int
  BY BaseType
<1> HIDE DEF B
<1>2. w1 \in Int /\ m1 \in Int
  BY <1>1
<1>3. v0 * m1 = B * (v0 * n1) /\ w1 * n0 = B * (v1 * n0) /\ w1 * m1 = (B * B) * (v1 * n1)
  BY <1>1
<1> HIDE DEF w1, m1
<1>4. (v0 + w1) * (n0 + m1) = (v0 * n0 + v0 * m1) + (w1 * n0 + w1 * m1)
  BY <1>2
<1> QED
  BY <1>3, <1>4, Zenon DEF B, w1, m1

LEMMA ProductCarries ==
  ASSUME NEW l0 \in Int, NEW h0 \in Int, NEW la \in Int, NEW ha \in Int, NEW lb \in Int,
         NEW hb \in Int, NEW lc \in Int, NEW hc \in Int, NEW e \in Int,
         h0 + la + lb = lc + Base * hc
  PROVE  ((l0 + Base * h0) + Base * (la + Base * ha))
            + (Base * (lb + Base * hb) + (Base * Base) * e)
         = (lc * Base + l0) + (Base * Base) * (e + hc + ha + hb)
<1> DEFINE B == Base
           D == B * B
<1>1. B \in Int /\ D \in Int /\ h0 + la + lb = lc + B * hc
  BY BaseType
<1> HIDE DEF B
<1>2. B * (la + B * ha) = B * la + D * ha /\ B * (lb + B * hb) = B * lb + D * hb
  BY <1>1
<1>3. B * (h0 + la + lb) = (B * h0 + B * la) + B * lb
  BY <1>1
<1>4. B * (lc + B * hc) = B * lc + D * hc
  BY <1>1
<1>5. lc * B = B * lc
  BY <1>1
<1> HIDE DEF D
<1>6. D * (e + hc + ha + hb) = ((D * e + D * hc) + D * ha) + D * hb
  BY <1>1
<1> DEFINE bh0 == B * h0
           bla == B * la
           blb == B * lb
           blc == B * lc
           dha == D * ha
           dhb == D * hb
           dhc == D * hc
           de == D * e
<1>7. /\ bh0 \in Int /\ bla \in Int /\ blb \in Int /\ blc \in Int
      /\ dha \in Int /\ dhb \in Int /\ dhc \in Int /\ de \in Int
  BY <1>1
<1>8. (bh0 + bla) + blb = blc + dhc
  BY <1>1, <1>3, <1>4
<1>9. ((l0 + bh0) + (bla + dha)) + ((blb + dhb) + de)
         = (blc + l0) + (((de + dhc) + dha) + dhb)
  <2> HIDE DEF bh0, bla, blb, blc, dha, dhb, dhc, de
  <2> QED
    BY <1>7, <1>8
<1> QED
  BY <1>2, <1>5, <1>6, <1>9, Zenon DEF B, D

LEMMA MulU256Exact ==
  ASSUME NEW v \in DoubleWord, NEW n \in DoubleWord
  PROVE  mul_u256(v, n) \in Number /\ Value(mul_u256(v, n)) = v * n
<1> DEFINE B == Base
           D == Base * Base
           v0 == lo(v)
           v1 == hi(v)
           n0 == lo(n)
           n1 == hi(n)
           c0 == v0 * n0
           a1 == v0 * n1
           b0 == v1 * n0
           e == v1 * n1
           c1 == hi(c0) + lo(a1) + lo(b0)
           high == e + hi(c1) + hi(a1) + hi(b0)
           low == hi_lo(lo(c1), lo(c0))
<1>1. D \in Nat \ {0} /\ D >= 4 /\ B \in Nat /\ Modulus = D * D
  BY DoubleBase, BaseType
<1>2. v \in Nat /\ v < D /\ n \in Nat /\ n < D
  BY <1>1 DEF DoubleWord
<1>3. /\ v0 \in Int /\ v1 \in Int /\ v = v0 + B * v1
      /\ n0 \in Int /\ n1 \in Int /\ n = n0 + B * n1
  BY <1>2, LoHi
<1>4. mul_u256(v, n) = New(Wrapped(high), low)
  BY Zenon DEF mul_u256
<1> HIDE DEF v0, v1, n0, n1
<1>5. c0 \in Int /\ a1 \in Int /\ b0 \in Int /\ e \in Int
  BY <1>3
<1>6. v * n = (c0 + B * a1) + (B * b0 + D * e)
  <2>1. (v0 + Base * v1) * (n0 + Base * n1)
           = (v0 * n0 + Base * (v0 * n1)) + (Base * (v1 * n0) + (Base * Base) * (v1 * n1))
    BY <1>3, ProductSplit
  <2> QED
    BY <1>3, <2>1, Zenon
<1> HIDE DEF c0, a1, b0, e
<1>7. /\ lo(c0) \in Nat /\ lo(c0) < B /\ hi(c0) \in Int /\ c0 = lo(c0) + B * hi(c0)
      /\ lo(a1) \in Nat /\ hi(a1) \in Int /\ a1 = lo(a1) + B * hi(a1)
      /\ lo(b0) \in Nat /\ hi(b0) \in Int /\ b0 = lo(b0) + B * hi(b0)
  BY <1>5, LoHi
<1> DEFINE l0 == lo(c0)
           h0 == hi(c0)
           la == lo(a1)
           ha == hi(a1)
           lb == lo(b0)
           hb == hi(b0)
<1>8. c1 \in Int
  BY <1>7
<1>9. lo(c1) \in Nat /\ lo(c1) < B /\ hi(c1) \in Int /\ c1 = lo(c1) + B * hi(c1)
  <2> HIDE DEF c1
  <2> QED
    BY <1>8, LoHi
<1> DEFINE lc == lo(c1)
           hc == hi(c1)
<1>10. v * n = (lc * B + l0) + D * high
  <2>1. /\ l0 \in Int /\ h0 \in Int /\ la \in Int /\ ha \in Int /\ lb \in Int /\ hb \in Int
        /\ lc \in Int /\ hc \in Int /\ e \in Int
    BY <1>5, <1>7, <1>9
  <2>2. h0 + la + lb = lc + Base * hc
    BY <1>9, Zenon
  <2>3. v * n = ((l0 + B * h0) + B * (la + B * ha)) + (B * (lb + B * hb) + D * e)
    BY <1>6, <1>7, Zenon
  <2> HIDE DEF l0, h0, la, ha, lb, hb, lc, hc
  <2>4. ((l0 + Base * h0) + Base * (la + Base * ha))
            + (Base * (lb + Base * hb) + (Base * Base) * e)
         = (lc * Base + l0) + (Base * Base) * (e + hc + ha + hb)
    BY ONLY <2>1, <2>2, ProductCarries
  <2>5. e + hc + ha + hb = high
    BY Zenon DEF hc, ha, hb
  <2> QED
    BY <2>3, <2>4, <2>5, Zenon
<1>11. low = lc * B + l0 /\ low \in Nat /\ low < D
  <2>1. low = lc * B + l0
    BY DEF hi_lo
  <2>2. l0 + Base * lc \in Nat /\ l0 + Base * lc < Base * Base
    <3> HIDE DEF lc, l0
    <3>1. lc \in Nat /\ lc < Base /\ l0 \in Nat /\ l0 < Base
      BY <1>7, <1>9 DEF lc, l0
    <3> QED
      BY <1>1, <3>1, Horner
  <2>3. lc * B + l0 = l0 + B * lc
    <3>1. lc \in Nat /\ l0 \in Nat
      BY <1>7, <1>9
    <3> HIDE DEF lc, l0, B
    <3> QED
      BY <1>1, <3>1
  <2> QED
    BY <2>1, <2>2, <2>3, Zenon
<1>12. high \in Nat /\ high < D
  <2> DEFINE dh == D * high
             vn == v * n
  <2>1. high \in Int
    BY <1>5, <1>7, <1>9
  <2> HIDE DEF high, low
  <2>2. vn = low + dh /\ vn \in Nat /\ dh \in Int
    <3>1. dh \in Int
      <4> HIDE DEF D
      <4> QED
        BY <1>1, <2>1
    <3>2. vn \in Nat
      BY <1>2
    <3> QED
      BY <1>10, <1>11, <3>1, <3>2, Zenon
  <2>3. vn < D * D
    <3> HIDE DEF D
    <3>1. v * n <= v * D
      <4>1. CASE v = 0
        BY <1>1, <1>2, <4>1
      <4>2. CASE v # 0
        BY <1>1, <1>2, <4>2, Cancel
      <4> QED
        BY <4>1, <4>2
    <3>2. D * (v + 1) <= D * D
      BY <1>1, <1>2, Cancel
    <3>3. D * (v + 1) = v * D + D /\ v * D \in Nat /\ D * D \in Nat /\ v * n \in Nat
      BY <1>1, <1>2
    <3> QED
      BY <1>1, <3>1, <3>2, <3>3
  <2>4. ~(D <= high)
    <3> SUFFICES ASSUME D <= high PROVE FALSE
      OBVIOUS
    <3> HIDE DEF D, vn
    <3>1. D * D <= D * high
      BY <1>1, <2>1, Cancel
    <3>2. D * D \in Nat
      BY <1>1
    <3> DEFINE dd == D * D
    <3>3. dd <= dh /\ dd \in Nat /\ vn < dd
      BY <2>3, <3>1, <3>2
    <3> HIDE DEF dd, dh
    <3> QED
      BY <1>11, <2>2, <3>3
  <2>5. ~(high + 1 <= 0)
    <3> SUFFICES ASSUME high + 1 <= 0 PROVE FALSE
      OBVIOUS
    <3> HIDE DEF D, vn
    <3>1. D * (high + 1) <= D * 0 /\ D * (high + 1) = D * high + D /\ D * 0 = 0
      BY <1>1, <2>1, Cancel
    <3>2. dh + D <= 0
      BY <3>1
    <3> HIDE DEF dh
    <3> QED
      BY <1>1, <1>11, <2>2, <3>2
  <2> QED
    BY <1>1, <2>1, <2>4, <2>5
<1>13. Wrapped(high) = high
  <2> HIDE DEF high
  <2>1. high % D = high
    <3> HIDE DEF D
    <3> QED
      BY <1>1, <1>12, BelowDivisor
  <2> QED
    BY <2>1, Zenon DEF Wrapped
<1>14. New(high, low) \in Number /\ Value(New(high, low)) = low + D * high
  <2> HIDE DEF high, low
  <2> QED
    BY <1>11, <1>12, NewIs
<1> QED
  BY <1>4, <1>10, <1>11, <1>13, <1>14, Zenon

-----------------------------------------------------------------------------
\* What a word is worth at its place.

Weight(n) == Pow2[n * U64_RESOLUTION]

LEMMA Weights ==
  /\ Weight(0) = 1 /\ Weight(1) = Base /\ Weight(2) = Base * Base
  /\ Weight(3) = Base * (Base * Base) /\ Weight(4) = Modulus
  /\ \A n \in 0 .. 4 : Weight(n) \in Nat \ {0}
<1> DEFINE R == U64_RESOLUTION
<1>1. R \in Nat \ {0} /\ 0 * R = 0 /\ 1 * R = R
  BY WidthType
<1>2. /\ Weight(0) = 1 /\ Weight(1) = Base /\ Weight(2) = Base * Base
      /\ Weight(3) = Base * (Base * Base) /\ Weight(4) = Modulus
  BY <1>1, BaseType, PowerIs, Zenon DEF Weight
<1>3. ASSUME NEW n \in 0 .. 4 PROVE Weight(n) \in Nat \ {0}
  <2>1. n \in {0, 1, 2, 3, 4}
    OBVIOUS
  <2>2. /\ 1 \in Nat \ {0} /\ Base \in Nat \ {0} /\ Base * Base \in Nat \ {0}
        /\ Modulus \in Nat \ {0}
    BY BaseType, DoubleBase
  <2>3. Base * (Base * Base) \in Nat \ {0}
    BY <2>2
  <2> QED
    BY <1>2, <2>1, <2>2, <2>3, Zenon
<1> QED
  BY <1>2, <1>3

LEMMA WeightsMultiply ==
  ASSUME NEW m \in 0 .. 4, NEW n \in 0 .. 4, m + n <= 4
  PROVE  Weight(m + n) = Weight(m) * Weight(n)
<1> DEFINE R == U64_RESOLUTION
           a == m * R
           b == n * R
<1>1. R \in Nat
  BY WidthType
<1>2. m \in {0, 1, 2, 3, 4} /\ n \in {0, 1, 2, 3, 4}
  OBVIOUS
<1>3. a \in Nat /\ b \in Nat /\ a + b <= 4 * R /\ (m + n) * R = a + b
  <2>1. (m + n) * R = a + b
    BY <1>1
  <2>2. a \in Nat /\ b \in Nat
    BY <1>1
  <2>3. (m + n) * R <= 4 * R
    <3> DEFINE s == m + n
    <3>1. s \in {0, 1, 2, 3, 4}
      BY <1>2
    <3> HIDE DEF s
    <3>2. s * R <= 4 * R
      BY <1>1, <3>1
    <3> QED
      BY <3>2 DEF s
  <2> QED
    BY <2>1, <2>2, <2>3, Zenon
<1>4. Pow2[a + b] = Pow2[a] * Pow2[b]
  <2> HIDE DEF a, b
  <2> QED
    BY <1>3, PowersMultiply
<1> QED
  BY <1>3, <1>4, Zenon DEF Weight

LEMMA WeightsBeyond ==
  ASSUME NEW m \in 0 .. 3, NEW n \in 0 .. 3, m + n >= 4
  PROVE  \E c \in Int : Weight(m) * Weight(n) = Modulus * c
<1> DEFINE d == 4 - n
           e == (m + n) - 4
<1>1. /\ d \in 0 .. 4 /\ e \in 0 .. 4 /\ d + e = m /\ d + n = 4 /\ m \in 0 .. 4 /\ n \in 0 .. 4
      /\ d + e <= 4 /\ d + n <= 4
  OBVIOUS
<1> HIDE DEF d, e
<1>2. Weight(m) = Weight(d) * Weight(e)
  <2>1. Weight(d + e) = Weight(d) * Weight(e)
    BY <1>1, WeightsMultiply
  <2> QED
    BY <1>1, <2>1, Zenon
<1>3. Modulus = Weight(d) * Weight(n)
  <2>1. Weight(d + n) = Weight(d) * Weight(n)
    BY <1>1, WeightsMultiply
  <2> QED
    BY <1>1, <2>1, Weights, Zenon
<1>4. Weight(d) \in Nat /\ Weight(e) \in Nat /\ Weight(n) \in Nat
  BY <1>1, Weights
<1>5. (Weight(d) * Weight(e)) * Weight(n) = (Weight(d) * Weight(n)) * Weight(e)
  BY <1>4
<1>6. Weight(m) * Weight(n) = Modulus * Weight(e) /\ Weight(e) \in Int
  BY <1>2, <1>3, <1>4, <1>5
<1> QED
  BY <1>6

LEMMA WordReplaced ==
  ASSUME NEW x \in Number, NEW n \in Index, NEW w \in Word
  PROVE  /\ [x EXCEPT ![n] = w] \in Number
         /\ [x EXCEPT ![n] = w][n] = w
         /\ \A i \in Index \ {n} : [x EXCEPT ![n] = w][i] = x[i]
         /\ Value([x EXCEPT ![n] = w]) = Value(x) + (w - x[n]) * Weight(n)
<1> DEFINE z == [x EXCEPT ![n] = w]
<1>1. z \in Number
  BY Zenon DEF Number
<1>2. z[n] = w /\ \A i \in Index \ {n} : z[i] = x[i]
  BY DEF Number
<1> DEFINE B == Base
           x0 == x[0]
           x1 == x[1]
           x2 == x[2]
           x3 == x[3]
           xb == x2 + Base * x3
           xa == x1 + Base * xb
<1>3. /\ x0 \in Int /\ x1 \in Int /\ x2 \in Int /\ x3 \in Int /\ xa \in Int /\ xb \in Int
      /\ B \in Int /\ w \in Int
  BY NumberIs, ValueType, BaseType DEF Word
<1>4. Value(x) = x0 + B * (x1 + B * (x2 + B * x3))
  BY Zenon DEF Value
<1>5. Value(z) = z[0] + B * (z[1] + B * (z[2] + B * z[3]))
  BY Zenon DEF Value
<1> HIDE DEF z
<1>6. ASSUME NEW c \in Int, NEW a \in Int, NEW d \in Int
      PROVE  a + B * (c + d) = (a + B * c) + B * d
  <2> HIDE DEF B
  <2> QED
    BY <1>3, <1>6
<1> DEFINE d == w - x[n]
<1>7. CASE n = 0
  <2>1. z[0] = w /\ z[1] = x1 /\ z[2] = x2 /\ z[3] = x3
    BY <1>2, <1>7, WidthType
  <2>2. Value(z) = w + B * xa /\ Value(x) = x0 + B * xa
    BY <1>4, <1>5, <2>1, Zenon
  <2>3. w + B * xa = (x0 + B * xa) + d * 1
    <3> DEFINE e == B * xa
    <3>1. e \in Int /\ d = w - x0
      BY <1>3, <1>7
    <3> HIDE DEF e, x0, d
    <3> QED
      BY <1>3, <3>1
  <2> QED
    BY <1>1, <1>2, <1>7, <2>2, <2>3, Weights, Zenon DEF z
<1>8. CASE n = 1
  <2>1. z[0] = x0 /\ z[1] = w /\ z[2] = x2 /\ z[3] = x3
    BY <1>2, <1>8, WidthType
  <2>2. Value(z) = x0 + B * (w + B * xb) /\ Value(x) = x0 + B * (x1 + B * xb)
    BY <1>4, <1>5, <2>1, Zenon
  <2>3. x0 + B * (w + B * xb) = (x0 + B * (x1 + B * xb)) + d * B
    <3> DEFINE e == B * xb
    <3>1. e \in Int /\ d = w - x1 /\ d \in Int
      BY <1>3, <1>8
    <3> HIDE DEF e, x0, x1, d, B
    <3>2. w + e = (x1 + e) + d /\ x1 + e \in Int
      BY <1>3, <3>1
    <3>3. x0 + B * ((x1 + e) + d) = (x0 + B * (x1 + e)) + B * d /\ B * d = d * B
      BY <1>3, <3>1, <3>2
    <3> QED
      BY <3>2, <3>3, Zenon DEF e
  <2> QED
    BY <1>1, <1>2, <1>8, <2>2, <2>3, Weights, Zenon DEF z
<1>9. CASE n = 2
  <2>1. z[0] = x0 /\ z[1] = x1 /\ z[2] = w /\ z[3] = x3
    BY <1>2, <1>9, WidthType
  <2>2. Value(z) = x0 + B * (x1 + B * (w + B * x3))
    BY <1>5, <2>1, Zenon
  <2>3. x0 + B * (x1 + B * (w + B * x3)) = (x0 + B * (x1 + B * (x2 + B * x3))) + d * (B * B)
    <3> DEFINE e == B * x3
    <3>1. e \in Int /\ d = w - x2 /\ d \in Int
      BY <1>3, <1>9
    <3> HIDE DEF e, x0, x1, x2, d, B
    <3>2. w + e = (x2 + e) + d /\ x2 + e \in Int
      BY <1>3, <3>1
    <3>3. x1 + B * ((x2 + e) + d) = (x1 + B * (x2 + e)) + B * d
      BY <1>3, <3>1, <3>2
    <3> DEFINE f == x1 + B * (x2 + e)
               g == B * d
    <3>4. f \in Int /\ g \in Int
      BY <1>3, <3>1, <3>2
    <3>5. B * g = d * (B * B)
      BY <1>3, <3>1
    <3> HIDE DEF f, g
    <3>6. x0 + B * (f + g) = (x0 + B * f) + B * g
      BY <1>3, <3>4
    <3> QED
      BY <3>2, <3>3, <3>5, <3>6, Zenon DEF e, f, g
  <2> QED
    BY <1>1, <1>2, <1>4, <1>9, <2>2, <2>3, Weights, Zenon DEF z
<1>10. CASE n = 3
  <2>1. z[0] = x0 /\ z[1] = x1 /\ z[2] = x2 /\ z[3] = w
    BY <1>2, <1>10, WidthType
  <2>2. Value(z) = x0 + B * (x1 + B * (x2 + B * w))
    BY <1>5, <2>1, Zenon
  <2>3. x0 + B * (x1 + B * (x2 + B * w)) = (x0 + B * (x1 + B * (x2 + B * x3))) + d * (B * (B * B))
    <3>1. d = w - x3 /\ d \in Int
      BY <1>3, <1>10
    <3> HIDE DEF x0, x1, x2, x3, d, B
    <3>2. w = x3 + d
      BY <1>3, <3>1
    <3> DEFINE e == B * d
               k == x2 + B * x3
    <3>3. x2 + B * (x3 + d) = k + e /\ e \in Int /\ k \in Int
      BY <1>3, <3>1
    <3> DEFINE f == x1 + B * k
               g == B * e
    <3> HIDE DEF e, k
    <3>4. x1 + B * (k + e) = f + g /\ f \in Int /\ g \in Int
      BY <1>3, <3>3
    <3>5. B * g = d * (B * (B * B))
      <4>1. B * (B * (B * d)) = d * (B * (B * B))
        BY <1>3, <3>1
      <4> QED
        BY <4>1 DEF g, e
    <3> HIDE DEF f, g
    <3>6. x0 + B * (f + g) = (x0 + B * f) + B * g
      BY <1>3, <3>4
    <3> QED
      BY <3>2, <3>3, <3>4, <3>5, <3>6, Zenon DEF f, k
  <2> QED
    BY <1>1, <1>2, <1>4, <1>10, <2>2, <2>3, Weights, Zenon DEF z
<1> QED
  BY <1>7, <1>8, <1>9, <1>10, WidthType, Zenon

\* The lowest n words of a number.
Low(x, n) ==
    CASE n = 0 -> 0
      [] n = 1 -> x[0]
      [] n = 2 -> x[0] + Base * x[1]
      [] n = 3 -> x[0] + Base * (x[1] + Base * x[2])
      [] n = 4 -> Value(x)

LEMMA LowIs ==
  ASSUME NEW x \in Number
  PROVE  /\ Low(x, 0) = 0 /\ Low(x, 4) = Value(x)
         /\ \A n \in 0 .. 4 : Low(x, n) \in Nat /\ Low(x, n) < Weight(n)
         /\ \A n \in 0 .. 3 : Low(x, n + 1) = Low(x, n) + x[n] * Weight(n)
<1> DEFINE B == Base
           x0 == x[0]
           x1 == x[1]
           x2 == x[2]
           x3 == x[3]
<1>1. /\ x0 \in Nat /\ x1 \in Nat /\ x2 \in Nat /\ x3 \in Nat /\ B \in Nat
      /\ x0 < B /\ x1 < B /\ x2 < B /\ x3 < B
  BY NumberIs, BaseType
<1>2. /\ Low(x, 0) = 0 /\ Low(x, 1) = x0 /\ Low(x, 2) = x0 + B * x1
      /\ Low(x, 3) = x0 + B * (x1 + B * x2)
      /\ Low(x, 4) = x0 + B * (x1 + B * (x2 + B * x3))
      /\ Low(x, 4) = Value(x)
  BY DEF Low, Value
<1> HIDE DEF x0, x1, x2, x3
<1>3. 0 \in Nat /\ 0 < 1
  OBVIOUS
<1>4. x0 + B * x1 \in Nat /\ x0 + B * x1 < B * B
  BY <1>1, Horner
<1>5. x1 + B * x2 \in Nat /\ x1 + B * x2 < B * B
  BY <1>1, Horner
<1>6. x0 + B * (x1 + B * x2) \in Nat /\ x0 + B * (x1 + B * x2) < B * (B * B)
  BY <1>1, <1>5, Horner, BaseType
<1>7. Value(x) \in Nat /\ Value(x) < Modulus
  BY ValueType
<1>8. \A n \in {0, 1, 2, 3, 4} : Low(x, n) \in Nat /\ Low(x, n) < Weight(n)
  BY <1>1, <1>2, <1>3, <1>4, <1>6, <1>7, Weights, Zenon
<1>9. ASSUME NEW n \in 0 .. 3 PROVE Low(x, n + 1) = Low(x, n) + x[n] * Weight(n)
  <2> HIDE DEF B
  <2>1. x0 = 0 + x0 * 1 /\ x0 + B * x1 = x0 + x1 * B
    BY <1>1
  <2>2. x0 + B * (x1 + B * x2) = (x0 + B * x1) + x2 * (B * B)
    <3>1. B * (x1 + B * x2) = B * x1 + x2 * (B * B)
      BY <1>1
    <3> DEFINE e == B * x1
               f == x2 * (B * B)
    <3>2. e \in Nat /\ f \in Nat
      BY <1>1
    <3> HIDE DEF e, f
    <3>3. x0 + (e + f) = (x0 + e) + f
      BY <1>1, <3>2
    <3> QED
      BY <3>1, <3>3, Zenon DEF e, f
  <2>3. x0 + B * (x1 + B * (x2 + B * x3)) = (x0 + B * (x1 + B * x2)) + x3 * (B * (B * B))
    <3> DEFINE e == B * x3
               k == B * x2
               f == B * e
               m == B * f
    <3>1. e \in Nat /\ k \in Nat /\ f \in Nat /\ m \in Nat
      BY <1>1
    <3>2. B * (x2 + e) = k + f
      <4> HIDE DEF e
      <4> QED
        BY <1>1, <3>1
    <3>3. m = x3 * (B * (B * B))
      BY <1>1
    <3> HIDE DEF e, f, k
    <3>4. x1 + (k + f) = (x1 + k) + f
      BY <1>1, <3>1
    <3> DEFINE j == x1 + k
    <3>5. j \in Nat
      BY <1>1, <3>1
    <3> HIDE DEF j
    <3>6. x0 + B * (j + f) = (x0 + B * j) + m
      <4>1. B * (j + f) = B * j + B * f /\ B * j \in Nat /\ B * f \in Nat
        BY <1>1, <3>1, <3>5
      <4> DEFINE bj == B * j
                 bf == B * f
      <4> HIDE DEF bj, bf
      <4>2. x0 + (bj + bf) = (x0 + bj) + bf
        BY <1>1, <4>1 DEF bj, bf
      <4> QED
        BY <4>1, <4>2, Zenon DEF bj, bf
    <3> QED
      BY <3>2, <3>3, <3>4, <3>6, Zenon DEF e, k, j
  <2>4. n \in {0, 1, 2, 3} /\ 0 + 1 = 1 /\ 1 + 1 = 2 /\ 2 + 1 = 3 /\ 3 + 1 = 4
    OBVIOUS
  <2>5. CASE n = 0
    BY <1>2, <2>1, <2>4, <2>5, Weights, Zenon DEF x0
  <2>6. CASE n = 1
    BY <1>2, <2>1, <2>4, <2>6, Weights, Zenon DEF x1, B
  <2>7. CASE n = 2
    BY <1>2, <2>2, <2>4, <2>7, Weights, Zenon DEF x2, B
  <2>8. CASE n = 3
    BY <1>2, <2>3, <2>4, <2>8, Weights, Zenon DEF x3, B
  <2> QED
    BY <2>4, <2>5, <2>6, <2>7, <2>8, Zenon
<1>10. \A n \in 0 .. 4 : n \in {0, 1, 2, 3, 4}
  OBVIOUS
<1> QED
  BY <1>2, <1>8, <1>9, <1>10, Zenon

\* The words in use hold the whole value.
LEMMA LowWhole ==
  ASSUME NEW x \in Number, NEW n \in 0 .. 4, \A i \in Index : i >= n => x[i] = 0
  PROVE  Low(x, n) = Value(x)
<1>1. ASSUME NEW i \in 0 .. 3, i >= n PROVE Low(x, i + 1) = Low(x, i)
  <2>1. x[i] = 0
    BY <1>1, WidthType
  <2>2. Low(x, i) \in Nat /\ Weight(i) \in Nat
    <3>1. i \in 0 .. 4
      OBVIOUS
    <3> QED
      BY <3>1, LowIs, Weights
  <2>3. Low(x, i + 1) = Low(x, i) + 0 * Weight(i)
    BY <2>1, LowIs
  <2> QED
    BY <2>2, <2>3
<1>2. Low(x, 4) = Value(x)
  BY LowIs
<1>3. n <= 3 => Low(x, 3 + 1) = Low(x, 3)
  BY <1>1
<1>4. n <= 2 => Low(x, 2 + 1) = Low(x, 2)
  BY <1>1
<1>5. n <= 1 => Low(x, 1 + 1) = Low(x, 1)
  BY <1>1
<1>6. n <= 0 => Low(x, 0 + 1) = Low(x, 0)
  BY <1>1
<1>7. n \in {0, 1, 2, 3, 4} /\ 3 + 1 = 4 /\ 2 + 1 = 3 /\ 1 + 1 = 2 /\ 0 + 1 = 1
  OBVIOUS
<1> QED
  BY <1>2, <1>3, <1>4, <1>5, <1>6, <1>7

\* The words past num_words are 0, and the one before them is not.
LEMMA InUse ==
  ASSUME NEW x
  PROVE  /\ num_words(x) \in 0 .. 4
         /\ \A i \in Index : i >= num_words(x) => x[i] = 0
         /\ num_words(x) > 0 => num_words(x) - 1 \in Index /\ x[num_words(x) - 1] # 0
<1> DEFINE S == {0} \cup {i + 1 : i \in {k \in Index : x[k] # 0}}
           Top(n) == n \in S /\ \A i \in S : n >= i
<1>1. \A n \in S : n \in 0 .. 4 /\ (n > 0 => n - 1 \in Index /\ x[n - 1] # 0)
  <2> SUFFICES ASSUME NEW n \in S
               PROVE  n \in 0 .. 4 /\ (n > 0 => n - 1 \in Index /\ x[n - 1] # 0)
    OBVIOUS
  <2>1. CASE n = 0
    BY <2>1
  <2>2. CASE n # 0
    <3>1. PICK i \in Index : n = i + 1 /\ x[i] # 0
      BY <2>2
    <3>2. i \in {0, 1, 2, 3} /\ n - 1 = i
      BY <3>1, WidthType
    <3> QED
      BY <3>1, <3>2
  <2> QED
    BY <2>1, <2>2
<1>2. 0 \in S
  OBVIOUS
<1>3. ASSUME NEW i \in Index, x[i] # 0 PROVE i + 1 \in S
  BY <1>3
<1> HIDE DEF S
<1>4. \E n : Top(n)
  <2>1. CASE 4 \in S
    <3>1. Top(4)
      BY <1>1, <2>1
    <3> QED
      BY <3>1
  <2>2. CASE 4 \notin S /\ 3 \in S
    <3>1. Top(3)
      <4>1. ASSUME NEW i \in S PROVE 3 >= i
        <5>1. i \in 0 .. 4 /\ i # 4
          BY <1>1, <2>2
        <5> QED
          BY <5>1
      <4> QED
        BY <2>2, <4>1
    <3> QED
      BY <3>1
  <2>3. CASE 4 \notin S /\ 3 \notin S /\ 2 \in S
    <3>1. Top(2)
      <4>1. ASSUME NEW i \in S PROVE 2 >= i
        <5>1. i \in 0 .. 4 /\ i # 4 /\ i # 3
          BY <1>1, <2>3
        <5> QED
          BY <5>1
      <4> QED
        BY <2>3, <4>1
    <3> QED
      BY <3>1
  <2>4. CASE 4 \notin S /\ 3 \notin S /\ 2 \notin S /\ 1 \in S
    <3>1. Top(1)
      <4>1. ASSUME NEW i \in S PROVE 1 >= i
        <5>1. i \in 0 .. 4 /\ i # 4 /\ i # 3 /\ i # 2
          BY <1>1, <2>4
        <5> QED
          BY <5>1
      <4> QED
        BY <2>4, <4>1
    <3> QED
      BY <3>1
  <2>5. CASE 4 \notin S /\ 3 \notin S /\ 2 \notin S /\ 1 \notin S
    <3>1. Top(0)
      <4>1. ASSUME NEW i \in S PROVE 0 >= i
        <5>1. i \in 0 .. 4 /\ i # 4 /\ i # 3 /\ i # 2 /\ i # 1
          BY <1>1, <2>5
        <5> QED
          BY <5>1
      <4> QED
        BY <1>2, <4>1
    <3> QED
      BY <3>1
  <2> QED
    BY <2>1, <2>2, <2>3, <2>4, <2>5
<1> DEFINE m == num_words(x)
<1>5. Top(m)
  <2>1. m = CHOOSE n \in S : \A i \in S : n >= i
    BY Zenon DEF num_words, Max, S
  <2> HIDE DEF m
  <2>2. \E n \in S : \A i \in S : n >= i
    BY <1>4, Zenon
  <2>3. m \in S /\ \A i \in S : m >= i
    BY <2>1, <2>2, Zenon
  <2> QED
    BY <2>3
<1> HIDE DEF m
<1>6. m \in 0 .. 4 /\ (m > 0 => m - 1 \in Index /\ x[m - 1] # 0)
  BY <1>1, <1>5
<1>7. ASSUME NEW i \in Index, i >= m PROVE x[i] = 0
  <2> SUFFICES ASSUME x[i] # 0 PROVE FALSE
    OBVIOUS
  <2>1. i + 1 \in S
    BY <1>3
  <2>2. m >= i + 1
    BY <1>5, <2>1
  <2>3. i \in Int
    BY WidthType
  <2> QED
    BY <1>6, <1>7, <2>2, <2>3
<1> QED
  BY <1>6, <1>7 DEF m

\* Numbers that differ by multiples of 2^256.
Same(a, b) == \E q \in Int : a = b + Modulus * q

LEMMA SameIs ==
  ASSUME NEW a \in Int, NEW b \in Int, NEW c \in Int
  PROVE  /\ Same(a, a) /\ Same(a + Modulus * c, a)
         /\ Same(a, b) => Same(b, a)
         /\ Same(a, b) => Same(a + c, b + c)
         /\ Same(a, b) /\ Same(b, c) => Same(a, c)
<1> DEFINE M == Modulus
<1>1. M \in Int
  BY BaseType
<1>2. Same(a, a)
  <2>1. a = a + M * 0
    <3> HIDE DEF M
    <3> QED
      BY <1>1
  <2> QED
    BY <2>1 DEF Same
<1>3. Same(a + Modulus * c, a)
  BY Zenon DEF Same
<1>4. ASSUME Same(a, b) PROVE Same(b, a) /\ Same(a + c, b + c)
  <2>1. PICK q \in Int : a = b + M * q
    BY <1>4 DEF Same
  <2>2. b = a + M * (0 - q) /\ a + c = (b + c) + M * q
    <3>1. M * q \in Int /\ M * (0 - q) = 0 - M * q
      <4> HIDE DEF M
      <4> QED
        BY <1>1
    <3> DEFINE e == M * q
    <3>2. a = b + e /\ e \in Int
      BY <2>1, <3>1
    <3> HIDE DEF e
    <3>3. b = a + (0 - e) /\ a + c = (b + c) + e
      BY <3>2
    <3> QED
      BY <3>1, <3>3 DEF e
  <2>3. 0 - q \in Int
    OBVIOUS
  <2> QED
    BY <2>2, <2>3, Zenon DEF Same
<1>5. ASSUME Same(a, b), Same(b, c) PROVE Same(a, c)
  <2>1. PICK q \in Int : a = b + M * q
    BY <1>5 DEF Same
  <2>2. PICK r \in Int : b = c + M * r
    BY <1>5 DEF Same
  <2>3. a = c + M * (r + q)
    <3>1. M * (r + q) = M * r + M * q /\ M * r \in Int /\ M * q \in Int
      <4> HIDE DEF M
      <4> QED
        BY <1>1
    <3> DEFINE e == M * q
               f == M * r
    <3>2. a = b + e /\ b = c + f /\ e \in Int /\ f \in Int
      BY <2>1, <2>2, <3>1
    <3> HIDE DEF e, f
    <3>3. a = c + (f + e)
      BY <3>2
    <3> QED
      BY <3>1, <3>3, Zenon DEF e, f
  <2>4. r + q \in Int
    OBVIOUS
  <2> QED
    BY <2>3, <2>4, Zenon DEF Same
<1> QED
  BY <1>2, <1>3, <1>4, <1>5

LEMMA SameWraps ==
  ASSUME NEW v \in U256, NEW n \in Int, Same(v, n)
  PROVE  v = n % Modulus
<1>1. Same(n, v)
  <2>1. v \in Int
    BY BaseType DEF U256
  <2> QED
    BY <2>1, SameIs
<1>2. PICK q \in Int : n = v + Modulus * q
  BY <1>1 DEF Same
<1>3. (v + Modulus * q) % Modulus = v
  BY WrapsTo
<1> QED
  BY <1>2, <1>3, Zenon

-----------------------------------------------------------------------------
\* The rows of a product.

\* A product of two words, a word and a carry fit in two words.
LEMMA PlaceFits ==
  ASSUME NEW u \in Word, NEW w \in Word, NEW r \in Word, NEW k \in Word
  PROVE  LET t == Wrapped(Wrapped(u * w) + r + k)
         IN  /\ t = u * w + r + k /\ t \in Nat /\ lo(t) \in Word /\ hi(t) \in Word
             /\ u * w + r + k = lo(t) + Base * hi(t)
<1> DEFINE B == Base
           D == Base * Base
           m == u * w
           s == m + r + k
<1>1. B \in Nat /\ B >= 2 /\ D \in Nat \ {0}
  BY BaseType, DoubleBase
<1>2. /\ u \in Nat /\ u <= B - 1 /\ w \in Nat /\ w <= B - 1
      /\ r \in Nat /\ r <= B - 1 /\ k \in Nat /\ k <= B - 1
  BY <1>1 DEF Word
<1>3. m \in Nat /\ m + 2 * B <= D + 1
  <2> HIDE DEF B
  <2>1. u * w <= u * (B - 1)
    <3>1. CASE u = 0
      BY <1>1, <1>2, <3>1
    <3>2. CASE u # 0
      BY <1>1, <1>2, <3>2, Cancel
    <3> QED
      BY <3>1, <3>2
  <2>2. (B - 1) * u <= (B - 1) * (B - 1)
    BY <1>1, <1>2, Cancel
  <2>3. u * (B - 1) = (B - 1) * u
    BY <1>1, <1>2
  <2>4. (B - 1) * (B - 1) = B * B - 2 * B + 1
    BY <1>1
  <2>5. u * w \in Nat /\ B * B \in Nat /\ (B - 1) * u \in Nat
    <3>1. u * w \in Nat /\ B * B \in Nat
      BY <1>1, <1>2
    <3>2. B - 1 \in Nat
      BY <1>1
    <3> DEFINE c == B - 1
    <3> HIDE DEF c
    <3>3. c * u \in Nat
      BY <1>2, <3>2 DEF c
    <3> QED
      BY <3>1, <3>3 DEF c
  <2> DEFINE uw == u * w
             bb == B * B
             cu == (B - 1) * u
  <2>6. uw \in Nat /\ bb \in Nat /\ cu \in Nat /\ uw <= cu /\ cu <= bb - 2 * B + 1
    BY <2>1, <2>2, <2>3, <2>4, <2>5
  <2> HIDE DEF uw, bb, cu
  <2>7. uw \in Nat /\ uw + 2 * B <= bb + 1
    BY <1>1, <2>6
  <2> QED
    BY <2>7 DEF uw, bb, B
<1> HIDE DEF m, B
<1>4. m < D /\ s \in Nat /\ s < D
  <2> HIDE DEF D
  <2> QED
    BY <1>1, <1>2, <1>3
<1>5. Wrapped(m) = m
  <2>1. m % D = m
    <3> HIDE DEF D
    <3> QED
      BY <1>1, <1>3, <1>4, BelowDivisor
  <2> QED
    BY <2>1, Zenon DEF Wrapped
<1> HIDE DEF s
<1>6. Wrapped(s) = s
  <2>1. s % D = s
    <3> HIDE DEF D
    <3> QED
      BY <1>1, <1>4, BelowDivisor
  <2> QED
    BY <2>1, Zenon DEF Wrapped
<1>7. lo(s) \in Word /\ s = lo(s) + Base * hi(s) /\ hi(s) \in Word
  <2>1. lo(s) \in Word /\ s = lo(s) + Base * hi(s)
    BY <1>4, LoHi
  <2>2. hi(s) \in Nat /\ hi(s) < Base
    BY <1>4, BaseType, HighBelow
  <2> QED
    BY <2>1, <2>2, BaseType DEF Word
<1>8. Wrapped(Wrapped(u * w) + r + k) = s
  BY <1>5, <1>6, Zenon DEF m, s
<1> QED
  BY <1>4, <1>7, <1>8, Zenon DEF m, s

\* The sum of a number and of a carry before the place at, if there is one.
RowSum(v, k, at) == v + (IF at \in Index THEN k * Weight(at) ELSE 0)

AddsUp(v, l, h, r, k, m, W) == (v + (l - r) * W) + h * (W * Base) = (v + k * W) + m * W

LEMMA StepAdds ==
  ASSUME NEW v \in Int, NEW l \in Int, NEW h \in Int, NEW r \in Int, NEW k \in Int,
         NEW m \in Int, NEW W \in Int, m + r + k = l + Base * h
  PROVE  AddsUp(v, l, h, r, k, m, W)
<1> DEFINE B == Base
           hb == B * h
           lw == l * W
           rw == r * W
           kw == k * W
           mw == m * W
           hw == h * (W * B)
<1>1. B \in Int /\ hb \in Int
  BY BaseType
<1>2. /\ lw \in Int /\ rw \in Int /\ kw \in Int /\ mw \in Int /\ hw \in Int
      /\ (l - r) * W = lw - rw /\ hb * W = hw
  BY <1>1
<1> HIDE DEF B, hb
<1>3. (m + r + k) * W = mw + rw + kw /\ (l + hb) * W = lw + hb * W
  BY <1>1
<1>4. m + r + k = l + hb
  BY DEF hb, B
<1>5. mw + rw + kw = lw + hw
  BY <1>2, <1>3, <1>4, Zenon
<1> HIDE DEF lw, rw, kw, mw, hw
<1>6. (v + (lw - rw)) + hw = (v + kw) + mw
  BY <1>2, <1>5
<1> QED
  BY <1>2, <1>6, Zenon DEF hw, kw, mw, B, AddsUp

LEMMA FourFactors ==
  ASSUME NEW L \in Int, NEW u \in Int, NEW w \in Int, NEW V \in Int, NEW W \in Int
  PROVE  ((L + u * V) * w) * W = (L * w) * W + (u * w) * (V * W)
<1> DEFINE e == u * V
           Lw == L * w
           uw == u * w
<1>1. e \in Int /\ e * w = uw * V /\ Lw \in Int /\ uw \in Int
  OBVIOUS
<1>2. (L + e) * w = Lw + e * w
  <2> HIDE DEF e
  <2> QED
    BY <1>1
<1> HIDE DEF e, Lw, uw
<1>3. (Lw + uw * V) * W = Lw * W + uw * (V * W)
  BY <1>1
<1> QED
  BY <1>1, <1>2, <1>3, Zenon DEF e, Lw, uw

\* A step of a row: word i of x is done after it.
RowStep(x, y, j, row, i) ==
    LET at == i + j
    IN  IF at \notin Index THEN row
        ELSE LET t == Wrapped(Wrapped(x[i] * y[j]) + row.result[at] + row.k)
             IN  [result |-> [row.result EXCEPT ![at] = lo(t)], k |-> hi(t)]

\* The lowest i words of x are multiplied; the words above are as at the start.
RowInv(x, y, j, start, row, i) ==
    /\ row.result \in Number /\ row.k \in Word
    /\ \A p \in Index : p >= i + j => row.result[p] = start[p]
    /\ Same(RowSum(Value(row.result), row.k, i + j),
            Value(start) + (Low(x, i) * y[j]) * Weight(j))

LEMMA RowGoesOn ==
  ASSUME NEW x \in Number, NEW y \in Number, NEW start \in Number, NEW j \in Index,
         NEW i \in 0 .. 3, NEW row, RowInv(x, y, j, start, row, i)
  PROVE  RowInv(x, y, j, start, RowStep(x, y, j, row, i), i + 1)
<1> DEFINE at == i + j
           V == Value(row.result)
           u == x[i]
           w == y[j]
           L == Low(x, i)
           S == Value(start)
           Wj == Weight(j)
           Wi == Weight(i)
           next == RowStep(x, y, j, row, i)
           Goal == S + (L * w) * Wj
           Gain == (u * w) * (Wi * Wj)
<1>1. row.result \in Number /\ row.k \in Word /\ i \in Index /\ j \in 0 .. 3 /\ i \in 0 .. 4
      /\ j \in 0 .. 4 /\ at \in Nat
  BY WidthType DEF RowInv
<1>2. /\ V \in Int /\ u \in Int /\ w \in Int /\ L \in Int /\ S \in Int /\ Wj \in Int /\ Wi \in Int
  BY <1>1, ValueType, WordIs, LowIs, Weights
<1>3. Same(RowSum(V, row.k, at), Goal)
  BY DEF RowInv
<1>4. S + (Low(x, i + 1) * w) * Wj = Goal + Gain /\ Goal \in Int /\ Gain \in Int
  <2>1. Low(x, i + 1) = L + u * Wi
    BY LowIs
  <2> HIDE DEF L, u, w, Wi, Wj, S
  <2>2. ((L + u * Wi) * w) * Wj = (L * w) * Wj + (u * w) * (Wi * Wj)
    BY <1>2, FourFactors
  <2> DEFINE a == (L * w) * Wj
             b == (u * w) * (Wi * Wj)
  <2>3. a \in Int /\ b \in Int
    <3>1. L * w \in Int /\ u * w \in Int /\ Wi * Wj \in Int
      BY <1>2
    <3> QED
      BY <1>2, <3>1
  <2>4. Goal = S + a /\ Gain = b
    OBVIOUS
  <2>5. S + (Low(x, i + 1) * w) * Wj = S + (a + b)
    BY <2>1, <2>2, Zenon
  <2> HIDE DEF a, b, Goal, Gain
  <2>6. S + (a + b) = (S + a) + b /\ S + a \in Int
    BY <1>2, <2>3
  <2> QED
    BY <2>3, <2>4, <2>5, <2>6, Zenon
<1>5. CASE at \notin Index
  <2>1. next = row
    BY <1>5, Zenon DEF RowStep
  <2>2. i + 1 + j \notin Index /\ at >= 4 /\ \A p \in Index : ~(p >= (i + 1) + j)
    BY <1>1, <1>5, WidthType
  <2>3. RowSum(V, row.k, (i + 1) + j) = RowSum(V, row.k, at)
    <3>1. (i + 1) + j \notin Index
      BY <1>1, <1>5, WidthType
    <3> QED
      BY <1>5, <3>1, Zenon DEF RowSum
  <2>4. Same(Goal + Gain, Goal)
    <3>1. PICK c \in Int : Wi * Wj = Modulus * c
      BY <1>1, <2>2, WeightsBeyond
    <3> DEFINE d == (u * w) * c
    <3>2. Gain = Modulus * d /\ d \in Int
      <4>1. u * w \in Int /\ Modulus \in Int
        BY <1>2, BaseType
      <4> DEFINE e == u * w
                 M == Modulus
      <4> HIDE DEF e, M
      <4>2. e * (M * c) = M * (e * c) /\ e * c \in Int
        BY <4>1 DEF e, M
      <4> QED
        BY <3>1, <4>2, Zenon DEF e, M
    <3> HIDE DEF Goal, Gain, d
    <3>3. Same(Goal + Modulus * d, Goal)
      BY <1>4, <3>2, SameIs
    <3> QED
      BY <3>2, <3>3, Zenon
  <2>5. Same(RowSum(V, row.k, at), Goal + Gain)
    <3>1. RowSum(V, row.k, at) \in Int
      BY <1>2, <1>5 DEF RowSum
    <3> DEFINE s == RowSum(V, row.k, at)
    <3> HIDE DEF s, Goal, Gain
    <3>2. Goal + Gain \in Int
      BY <1>4
    <3>3. Same(Goal, Goal + Gain)
      BY <1>4, <2>4, <3>2, SameIs
    <3> QED
      BY <1>3, <1>4, <3>1, <3>2, <3>3, SameIs DEF s
  <2> HIDE DEF Goal, Gain, next
  <2> QED
    BY <1>1, <1>4, <2>1, <2>2, <2>3, <2>5, Zenon DEF RowInv, next
<1>6. CASE at \in Index
  <2> DEFINE r == row.result[at]
             k == row.k
             t == Wrapped(Wrapped(u * w) + r + k)
             l == lo(t)
             h == hi(t)
             W == Weight(at)
             z == [row.result EXCEPT ![at] = l]
  <2>1. next = [result |-> z, k |-> h]
    BY <1>6, Zenon DEF RowStep
  <2>2. u \in Word /\ w \in Word /\ r \in Word /\ k \in Word
    BY <1>1, <1>6, WordIs
  <2>3. l \in Word /\ h \in Word /\ u * w + r + k = l + Base * h
    <3> HIDE DEF u, w, r, k
    <3> QED
      BY <2>2, PlaceFits
  <2>4. /\ l \in Int /\ h \in Int /\ r \in Int /\ k \in Int /\ W \in Int
        /\ at \in 0 .. 3 /\ at \in 0 .. 4
    BY <1>6, <2>2, <2>3, Weights, WidthType, BaseType DEF Word
  <2> HIDE DEF l, h, r, t
  <2>5. /\ z \in Number /\ z[at] = l /\ (\A p \in Index \ {at} : z[p] = row.result[p])
        /\ Value(z) = V + (l - r) * W
    BY <1>1, <1>6, <2>3, WordReplaced DEF r
  <2>6. W = Wi * Wj
    <3>1. i + j <= 4
      BY <2>4
    <3> QED
      BY <1>1, <3>1, WeightsMultiply
  <2> DEFINE m == u * w
  <2>7. (V + (l - r) * W) + h * (W * Base) = (V + k * W) + m * W
    <3>1. /\ m \in Int /\ m + r + k = l + Base * h /\ V \in Int
          /\ l \in Int /\ h \in Int /\ r \in Int /\ k \in Int /\ W \in Int
      BY <1>2, <2>3, <2>4
    <3> HIDE DEF m, V, k, W
    <3>2. AddsUp(V, l, h, r, k, m, W)
      BY ONLY <3>1, StepAdds
    <3> QED
      BY <3>2, Zenon DEF AddsUp
  <2>8. RowSum(V, k, at) = V + k * W
    BY <1>6, Zenon DEF RowSum
  <2>9. m * W = Gain
    BY <2>6, Zenon
  <2> HIDE DEF z
  <2>10. Same(RowSum(Value(z), h, (i + 1) + j), Value(z) + h * (W * Base))
    <3>1. (i + 1) + j = at + 1 /\ at \in {0, 1, 2, 3}
      BY <1>1, <2>4
    <3>2. Value(z) \in Int
      BY <2>5, ValueType
    <3>3. W * Base = Weight(at + 1)
      <4>1. 1 \in 0 .. 4 /\ at + 1 <= 4
        BY <2>4
      <4>2. Weight(at + 1) = Weight(at) * Weight(1)
        BY <2>4, <4>1, WeightsMultiply
      <4> QED
        BY <4>2, Weights, Zenon
    <3>4. CASE at + 1 \in Index
      <4>1. RowSum(Value(z), h, at + 1) = Value(z) + h * Weight(at + 1)
        BY <3>4, Zenon DEF RowSum
      <4>2. Value(z) + h * Weight(at + 1) \in Int
        <5>1. Weight(at + 1) \in Int
          <6>1. at + 1 \in 0 .. 4
            BY <2>4
          <6> QED
            BY <6>1, Weights
        <5> DEFINE Wn == Weight(at + 1)
                   vz == Value(z)
        <5> HIDE DEF Wn, vz
        <5>2. vz + h * Wn \in Int
          BY <2>4, <3>2, <5>1 DEF Wn, vz
        <5> QED
          BY <5>2 DEF Wn, vz
      <4> DEFINE a == Value(z) + h * Weight(at + 1)
      <4> HIDE DEF a
      <4>3. Same(a, a)
        BY <4>2, SameIs DEF a
      <4> QED
        BY <3>1, <3>3, <4>1, <4>3, Zenon DEF a
    <3>5. CASE at + 1 \notin Index
      <4>1. RowSum(Value(z), h, at + 1) = Value(z)
        <5>1. RowSum(Value(z), h, at + 1) = Value(z) + 0
          BY <3>5, Zenon DEF RowSum
        <5> QED
          BY <3>2, <5>1
      <4>2. Weight(at + 1) = Modulus
        <5>1. at + 1 = 4
          BY <3>1, <3>5, WidthType
        <5> QED
          BY <5>1, Weights, Zenon
      <4>3. h * Modulus = Modulus * h /\ Value(z) + Modulus * h \in Int
        <5> DEFINE M == Modulus
                   vz == Value(z)
        <5>1. M \in Int /\ vz \in Int
          BY <3>2, BaseType
        <5> HIDE DEF M, vz
        <5>2. h * M = M * h /\ vz + M * h \in Int
          BY <2>4, <5>1
        <5> QED
          BY <5>2 DEF M, vz
      <4>4. Same(Value(z) + Modulus * h, Value(z))
        BY <2>4, <3>2, SameIs
      <4> DEFINE a == Value(z) + Modulus * h
                 b == Value(z)
      <4> HIDE DEF a, b
      <4>5. Same(b, a)
        BY <3>2, <4>3, <4>4, SameIs DEF a, b
      <4> QED
        BY <3>1, <3>3, <4>1, <4>2, <4>3, <4>5, Zenon DEF a, b
    <3> QED
      BY <3>4, <3>5
  <2>11. Same(RowSum(Value(z), h, (i + 1) + j), Goal + Gain)
    <3> DEFINE s == RowSum(Value(z), h, (i + 1) + j)
               a == Value(z) + h * (W * Base)
               b == RowSum(V, k, at)
    <3>1. a = b + Gain
      BY <2>5, <2>7, <2>8, <2>9, Zenon
    <3>2. b \in Int
      <4>1. V + k * W \in Int
        <5> HIDE DEF V, k, W
        <5> QED
          BY <1>2, <2>4
      <4> QED
        BY <2>8, <4>1, Zenon
    <3>3. s \in Int
      <4>1. Value(z) \in Int
        BY <2>5, ValueType
      <4>2. CASE (i + 1) + j \in Index
        <5> DEFINE n == (i + 1) + j
        <5>1. Weight(n) \in Int
          <6>1. n \in 0 .. 4
            BY <4>2, WidthType
          <6> QED
            BY <6>1, Weights
        <5>2. s = Value(z) + h * Weight(n)
          BY <4>2, Zenon DEF RowSum
        <5> DEFINE Wn == Weight(n)
                   vz == Value(z)
        <5> HIDE DEF n, Wn, vz
        <5>3. vz + h * Wn \in Int
          BY <2>4, <4>1, <5>1 DEF Wn, vz
        <5> QED
          BY <5>2, <5>3, Zenon DEF Wn, vz
      <4>3. CASE (i + 1) + j \notin Index
        <5>1. s = Value(z) + 0
          BY <4>3, Zenon DEF RowSum
        <5> QED
          BY <4>1, <5>1
      <4> QED
        BY <4>2, <4>3
    <3>4. Same(b, Goal)
      BY <1>3
    <3>5. Same(s, a)
      BY <2>10
    <3> HIDE DEF s, a, b, Goal, Gain
    <3>6. Same(b + Gain, Goal + Gain)
      BY <1>4, <3>2, <3>4, SameIs
    <3>7. b + Gain \in Int /\ Goal + Gain \in Int
      BY <1>4, <3>2
    <3>8. Same(s, b + Gain)
      BY <3>1, <3>5, Zenon
    <3>9. Same(s, Goal + Gain)
      BY <3>3, <3>6, <3>7, <3>8, SameIs
    <3> QED
      BY <3>9 DEF s
  <2>12. \A p \in Index : p >= (i + 1) + j => z[p] = start[p]
    <3> SUFFICES ASSUME NEW p \in Index, p >= (i + 1) + j PROVE z[p] = start[p]
      OBVIOUS
    <3>1. p \in Int
      BY WidthType
    <3>2. p # at /\ p >= i + j
      BY <1>1, <3>1
    <3>3. row.result[p] = start[p]
      BY <3>2 DEF RowInv
    <3> HIDE DEF at
    <3> QED
      BY <2>5, <3>2, <3>3
  <2>13. next.result = z /\ next.k = h
    BY <2>1
  <2> HIDE DEF next, Goal, Gain
  <2> QED
    BY <1>4, <2>3, <2>5, <2>11, <2>12, <2>13, Zenon DEF RowInv, next
<1> QED
  BY <1>5, <1>6

\* The steps of a row, one after the other.
RowSteps(x, y, j, m, start, f) ==
    /\ MulRow(x, y, j, m, start) = CarryOut(f[m].result, j, m, f[m].k)
    /\ f[0] = [result |-> start, k |-> 0]
    /\ \A i \in 0 .. 3 : i < m => f[i + 1] = RowStep(x, y, j, f[i], i)

LEMMA RowIs ==
  ASSUME NEW x, NEW y, NEW j, NEW m \in 0 .. 4, NEW start
  PROVE  \E f : RowSteps(x, y, j, m, start, f)
<1> DEFINE First == [result |-> start, k |-> 0]
           Step(f, i) == IF i = 0 THEN First ELSE RowStep(x, y, j, f[i - 1], i - 1)
           Solves(f) == f = [i \in 0 .. m |-> Step(f, i)]
           r0 == First
           r1 == RowStep(x, y, j, r0, 0)
           r2 == RowStep(x, y, j, r1, 1)
           r3 == RowStep(x, y, j, r2, 2)
           r4 == RowStep(x, y, j, r3, 3)
           At(i) == CASE i = 0 -> r0 [] i = 1 -> r1 [] i = 2 -> r2 [] i = 3 -> r3 [] i = 4 -> r4
           g == [i \in 0 .. m |-> At(i)]
<1>1. \A i \in 0 .. m : i \in {0, 1, 2, 3, 4}
  OBVIOUS
<1>2. Solves(g)
  <2>1. At(0) = r0 /\ At(1) = r1 /\ At(2) = r2 /\ At(3) = r3 /\ At(4) = r4
    <3> HIDE DEF r0, r1, r2, r3, r4
    <3> QED
      OBVIOUS
  <2>2. \A i \in 0 .. m : g[i] = At(i)
    <3> HIDE DEF At
    <3> QED
      OBVIOUS
  <2>3. ASSUME NEW i \in 0 .. m PROVE g[i] = Step(g, i)
    <3> HIDE DEF g, At
    <3>1. CASE i = 0
      BY <2>1, <2>2, <3>1, Zenon
    <3>2. CASE i # 0
      <4>1. Step(g, i) = RowStep(x, y, j, g[i - 1], i - 1)
        BY <3>2, Zenon
      <4>2. i - 1 \in 0 .. m
        BY <3>2
      <4>3. g[i - 1] = At(i - 1)
        BY <2>2, <4>2, Zenon
      <4>4. CASE i = 1
        <5>1. i - 1 = 0
          BY <4>4
        <5> HIDE DEF First, Step, r0
        <5> QED
          BY <2>1, <2>2, <4>1, <4>3, <4>4, <5>1, Zenon
      <4>5. CASE i = 2
        <5>1. i - 1 = 1
          BY <4>5
        <5> HIDE DEF First, Step, r1
        <5> QED
          BY <2>1, <2>2, <4>1, <4>3, <4>5, <5>1, Zenon
      <4>6. CASE i = 3
        <5>1. i - 1 = 2
          BY <4>6
        <5> HIDE DEF First, Step, r2
        <5> QED
          BY <2>1, <2>2, <4>1, <4>3, <4>6, <5>1, Zenon
      <4>7. CASE i = 4
        <5>1. i - 1 = 3
          BY <4>7
        <5> HIDE DEF First, Step, r3
        <5> QED
          BY <2>1, <2>2, <4>1, <4>3, <4>7, <5>1, Zenon
      <4>8. i \in {0, 1, 2, 3, 4}
        BY <1>1
      <4> HIDE DEF Step
      <4> QED
        BY <3>2, <4>4, <4>5, <4>6, <4>7, <4>8, Zenon
    <3> QED
      BY <3>1, <3>2
  <2>4. g = [i \in 0 .. m |-> g[i]]
    <3> HIDE DEF At
    <3> QED
      BY Zenon
  <2> HIDE DEF g, Step
  <2>5. [i \in 0 .. m |-> g[i]] = [i \in 0 .. m |-> Step(g, i)]
    BY <2>3, Zenon
  <2> QED
    BY <2>4, <2>5, Zenon
<1> HIDE DEF g
<1> DEFINE f == CHOOSE h : Solves(h)
<1>3. Solves(f)
  <2> HIDE DEF Solves
  <2> QED
    BY <1>2, Zenon
<1>4. MulRow(x, y, j, m, start) = CarryOut(f[m].result, j, m, f[m].k)
  BY Zenon DEF MulRow, RowStep
<1> HIDE DEF f
<1>5. \A i \in 0 .. m : f[i] = Step(f, i)
  <2> HIDE DEF Step
  <2> QED
    BY <1>3, Zenon
<1>6. f[0] = First
  BY <1>5
<1>7. ASSUME NEW i \in 0 .. 3, i < m PROVE f[i + 1] = RowStep(x, y, j, f[i], i)
  <2>1. i + 1 \in 0 .. m /\ (i + 1) - 1 = i /\ i + 1 # 0
    BY <1>7
  <2>2. f[i + 1] = RowStep(x, y, j, f[(i + 1) - 1], (i + 1) - 1)
    BY <1>5, <2>1, Zenon
  <2> QED
    BY <2>1, <2>2, Zenon
<1>8. \A i \in 0 .. 3 : i < m => f[i + 1] = RowStep(x, y, j, f[i], i)
  BY <1>7, Zenon
<1> QED
  BY <1>4, <1>6, <1>8, Zenon DEF RowSteps

\* A row adds the whole of x times a word of y.
LEMMA RowAdds ==
  ASSUME NEW x \in Number, NEW y \in Number, NEW j \in Index, NEW start \in Number,
         NEW m \in 0 .. 4, \A i \in Index : i >= m => x[i] = 0,
         \A i \in Index : i >= j + m => start[i] = 0
  PROVE  LET next == MulRow(x, y, j, m, start)
         IN  /\ next \in Number
             /\ \A i \in Index : i >= (j + 1) + m => next[i] = 0
             /\ Same(Value(next), Value(start) + (Value(x) * y[j]) * Weight(j))
<1>0. PICK f : RowSteps(x, y, j, m, start, f)
  BY RowIs
<1>1. /\ MulRow(x, y, j, m, start) = CarryOut(f[m].result, j, m, f[m].k)
      /\ f[0] = [result |-> start, k |-> 0]
      /\ \A i \in 0 .. 3 : i < m => f[i + 1] = RowStep(x, y, j, f[i], i)
  BY <1>0 DEF RowSteps
<1> DEFINE Inv(i) == RowInv(x, y, j, start, f[i], i)
           next == MulRow(x, y, j, m, start)
           Goal == Value(start) + (Value(x) * y[j]) * Weight(j)
<1>2. j \in 0 .. 3 /\ j \in Nat /\ j \in 0 .. 4
  BY WidthType
<1>3. /\ Value(start) \in Int /\ Value(x) \in Int /\ y[j] \in Int /\ Weight(j) \in Int
      /\ Goal \in Int
  <2>1. /\ Value(start) \in Int /\ Value(x) \in Int /\ y[j] \in Int /\ Weight(j) \in Int
    BY <1>2, ValueType, WordIs, Weights
  <2> DEFINE s == Value(start)
             v == Value(x)
             w == y[j]
             W == Weight(j)
  <2> HIDE DEF s, v, w, W
  <2>2. s + (v * w) * W \in Int
    <3>1. v * w \in Int
      BY <2>1 DEF v, w
    <3>2. (v * w) * W \in Int
      BY <2>1, <3>1 DEF W
    <3> QED
      BY <2>1, <3>2 DEF s
  <2> QED
    BY <2>1, <2>2, Zenon DEF s, v, w, W
<1>4. Inv(0)
  <2>1. f[0].result = start /\ f[0].k = 0
    BY <1>1
  <2>2. 0 \in Word
    BY BaseType DEF Word
  <2>3. RowSum(Value(start), 0, 0 + j) = Value(start)
    <3>1. 0 + j = j
      BY <1>2
    <3>2. RowSum(Value(start), 0, j) = Value(start) + 0 * Weight(j)
      BY Zenon DEF RowSum
    <3> QED
      BY <1>3, <3>1, <3>2
  <2>4. Value(start) + (Low(x, 0) * y[j]) * Weight(j) = Value(start)
    <3>1. Low(x, 0) = 0
      BY LowIs
    <3>2. 0 * y[j] = 0 /\ 0 * Weight(j) = 0
      BY <1>3
    <3> QED
      BY <1>3, <3>1, <3>2
  <2>5. Same(Value(start), Value(start))
    BY <1>3, SameIs
  <2> QED
    BY <2>1, <2>2, <2>3, <2>4, <2>5, Zenon DEF RowInv
<1>5. ASSUME NEW i \in 0 .. 3, i < m, Inv(i) PROVE Inv(i + 1)
  <2>1. f[i + 1] = RowStep(x, y, j, f[i], i)
    BY <1>1, <1>5
  <2>2. RowInv(x, y, j, start, RowStep(x, y, j, f[i], i), i + 1)
    BY <1>5, RowGoesOn
  <2> QED
    BY <2>1, <2>2, Zenon
<1>6. Inv(m)
  <2> HIDE DEF Inv
  <2>1. 0 < m => Inv(0 + 1)
    BY <1>4, <1>5
  <2>2. 1 < m => Inv(1 + 1)
    BY <1>5, <2>1
  <2>3. 2 < m => Inv(2 + 1)
    BY <1>5, <2>2
  <2>4. 3 < m => Inv(3 + 1)
    BY <1>5, <2>3
  <2>5. m \in {0, 1, 2, 3, 4} /\ 0 + 1 = 1 /\ 1 + 1 = 2 /\ 2 + 1 = 3 /\ 3 + 1 = 4
    OBVIOUS
  <2>6. m = 1 => Inv(1)
    BY <2>1, <2>5
  <2>7. m = 2 => Inv(2)
    BY <2>2, <2>5
  <2>8. m = 3 => Inv(3)
    BY <2>3, <2>5
  <2>9. m = 4 => Inv(4)
    BY <2>4, <2>5
  <2> QED
    BY <1>4, <2>5, <2>6, <2>7, <2>8, <2>9, Zenon
<1> DEFINE r == f[m].result
           k == f[m].k
<1>7. /\ r \in Number /\ k \in Word /\ (\A p \in Index : p >= m + j => r[p] = start[p])
      /\ Same(RowSum(Value(r), k, m + j), Goal)
  <2>1. Low(x, m) = Value(x)
    BY LowWhole
  <2> QED
    BY <1>6, <2>1, Zenon DEF RowInv
<1>8. next = CarryOut(r, j, m, k)
  BY <1>1
<1>9. j + m = m + j /\ j + m \in Nat
  BY <1>2
<1> HIDE DEF r, k, Goal
<1>10. CASE m + j \in Index
  <2> DEFINE at == m + j
  <2>1. next = [r EXCEPT ![at] = k]
    <3>1. j + m < NUM_WORDS
      BY <1>9, <1>10, WidthType
    <3>2. lo(k) = k
      <4>1. k \in Nat /\ k < Base
        BY <1>7, BaseType DEF Word
      <4> QED
        BY <4>1, LoOfWord
    <3> QED
      BY <1>8, <1>9, <3>1, <3>2, Zenon DEF CarryOut
  <2>2. /\ next \in Number /\ next[at] = k /\ (\A p \in Index \ {at} : next[p] = r[p])
        /\ Value(next) = Value(r) + (k - r[at]) * Weight(at)
    <3>1. at \in Index
      BY <1>10
    <3> HIDE DEF at, next
    <3>2. k \in Word /\ r \in Number
      BY <1>7
    <3>3. /\ [r EXCEPT ![at] = k] \in Number /\ [r EXCEPT ![at] = k][at] = k
          /\ (\A p \in Index \ {at} : [r EXCEPT ![at] = k][p] = r[p])
          /\ Value([r EXCEPT ![at] = k]) = Value(r) + (k - r[at]) * Weight(at)
      BY <3>1, <3>2, WordReplaced
    <3> QED
      BY <2>1, <3>3, Zenon
  <2>3. r[at] = 0
    <3>1. at >= m + j
      BY <1>9
    <3> QED
      BY <1>7, <1>9, <1>10, <3>1
  <2>4. Value(next) = RowSum(Value(r), k, at)
    <3>1. k - 0 = k
      BY <1>7, BaseType DEF Word
    <3> QED
      BY <1>10, <2>2, <2>3, <3>1, Zenon DEF RowSum
  <2>5. ASSUME NEW i \in Index, i >= (j + 1) + m PROVE next[i] = 0
    <3>1. i # at /\ i >= m + j /\ i >= j + m
      BY <1>2, <2>5, WidthType
    <3>2. next[i] = r[i] /\ r[i] = start[i] /\ start[i] = 0
      BY <1>7, <2>2, <3>1
    <3> QED
      BY <3>2
  <2> QED
    BY <1>7, <2>2, <2>4, <2>5, Zenon DEF Goal
<1>11. CASE m + j \notin Index
  <2>1. ~(j + m < NUM_WORDS)
    BY <1>9, <1>11, WidthType
  <2>2. next = r
    BY <1>8, <2>1, Zenon DEF CarryOut
  <2>3. RowSum(Value(r), k, m + j) = Value(r)
    <3>1. Value(r) \in Int
      BY <1>7, ValueType
    <3>2. RowSum(Value(r), k, m + j) = Value(r) + 0
      BY <1>11, Zenon DEF RowSum
    <3> QED
      BY <3>1, <3>2
  <2>4. \A i \in Index : ~(i >= (j + 1) + m)
    BY <1>2, <2>1, WidthType
  <2> QED
    BY <1>7, <2>2, <2>3, <2>4, Zenon DEF Goal
<1> QED
  BY <1>10, <1>11

\* The rows, one after the other.
LEMMA RowsAre ==
  ASSUME NEW x, NEW y
  PROVE  \E f : /\ mul(x, y) = f[num_words(y)] /\ f[0] = Zero
                /\ \A j \in 0 .. 3 : j < num_words(y) =>
                      f[j + 1] = MulRow(x, y, j, num_words(x), f[j])
<1> DEFINE n == num_words(y)
           m == num_words(x)
           Step(f, j) == IF j = 0 THEN Zero ELSE MulRow(x, y, j - 1, m, f[j - 1])
           Solves(f) == f = [j \in 0 .. n |-> Step(f, j)]
           r0 == Zero
           r1 == MulRow(x, y, 0, m, r0)
           r2 == MulRow(x, y, 1, m, r1)
           r3 == MulRow(x, y, 2, m, r2)
           r4 == MulRow(x, y, 3, m, r3)
           At(j) == CASE j = 0 -> r0 [] j = 1 -> r1 [] j = 2 -> r2 [] j = 3 -> r3 [] j = 4 -> r4
           g == [j \in 0 .. n |-> At(j)]
<1>1. n \in 0 .. 4
  BY InUse
<1>2. \A j \in 0 .. n : j \in {0, 1, 2, 3, 4}
  <2> HIDE DEF n
  <2> QED
    BY <1>1
<1>3. mul(x, y) = (CHOOSE h : Solves(h))[n]
  BY Zenon DEF mul
<1> HIDE DEF n, m
<1>4. Solves(g)
  <2>1. At(0) = r0 /\ At(1) = r1 /\ At(2) = r2 /\ At(3) = r3 /\ At(4) = r4
    <3> HIDE DEF r0, r1, r2, r3, r4
    <3> QED
      OBVIOUS
  <2>2. \A j \in 0 .. n : g[j] = At(j)
    <3> HIDE DEF At
    <3> QED
      OBVIOUS
  <2>3. ASSUME NEW j \in 0 .. n PROVE g[j] = Step(g, j)
    <3> HIDE DEF g, At
    <3>1. CASE j = 0
      BY <2>1, <2>2, <3>1, Zenon
    <3>2. CASE j # 0
      <4>1. Step(g, j) = MulRow(x, y, j - 1, m, g[j - 1])
        BY <3>2, Zenon
      <4>2. j - 1 \in 0 .. n
        BY <1>1, <3>2
      <4>3. g[j - 1] = At(j - 1)
        BY <2>2, <4>2, Zenon
      <4>4. CASE j = 1
        <5>1. j - 1 = 0
          BY <4>4
        <5> HIDE DEF Step, r0
        <5> QED
          BY <2>1, <2>2, <4>1, <4>3, <4>4, <5>1, Zenon
      <4>5. CASE j = 2
        <5>1. j - 1 = 1
          BY <4>5
        <5> HIDE DEF Step, r1
        <5> QED
          BY <2>1, <2>2, <4>1, <4>3, <4>5, <5>1, Zenon
      <4>6. CASE j = 3
        <5>1. j - 1 = 2
          BY <4>6
        <5> HIDE DEF Step, r2
        <5> QED
          BY <2>1, <2>2, <4>1, <4>3, <4>6, <5>1, Zenon
      <4>7. CASE j = 4
        <5>1. j - 1 = 3
          BY <4>7
        <5> HIDE DEF Step, r3
        <5> QED
          BY <2>1, <2>2, <4>1, <4>3, <4>7, <5>1, Zenon
      <4>8. j \in {0, 1, 2, 3, 4}
        BY <1>2
      <4> HIDE DEF Step
      <4> QED
        BY <3>2, <4>4, <4>5, <4>6, <4>7, <4>8, Zenon
    <3> QED
      BY <3>1, <3>2
  <2>4. g = [j \in 0 .. n |-> g[j]]
    <3> HIDE DEF At
    <3> QED
      BY Zenon
  <2> HIDE DEF g, Step
  <2>5. [j \in 0 .. n |-> g[j]] = [j \in 0 .. n |-> Step(g, j)]
    BY <2>3, Zenon
  <2> QED
    BY <2>4, <2>5, Zenon
<1> HIDE DEF g
<1> DEFINE f == CHOOSE h : Solves(h)
<1>5. Solves(f)
  <2> HIDE DEF Solves
  <2> QED
    BY <1>4, Zenon
<1>6. mul(x, y) = f[n]
  BY <1>3
<1> HIDE DEF f
<1>7. \A j \in 0 .. n : f[j] = Step(f, j)
  <2> HIDE DEF Step
  <2> QED
    BY <1>5, Zenon
<1>8. f[0] = Zero
  <2>1. 0 \in 0 .. n
    BY <1>1
  <2> QED
    BY <1>7, <2>1
<1>9. ASSUME NEW j \in 0 .. 3, j < n PROVE f[j + 1] = MulRow(x, y, j, m, f[j])
  <2>1. j + 1 \in 0 .. n /\ (j + 1) - 1 = j /\ j + 1 # 0
    BY <1>1, <1>9
  <2>2. f[j + 1] = MulRow(x, y, (j + 1) - 1, m, f[(j + 1) - 1])
    BY <1>7, <2>1, Zenon
  <2> QED
    BY <2>1, <2>2, Zenon
<1> QED
  BY <1>6, <1>8, <1>9, Zenon DEF n, m

\* The lowest j words of y are multiplied.
RowsInv(x, y, m, r, j) ==
    /\ r \in Number
    /\ \A i \in Index : i >= j + m => r[i] = 0
    /\ Same(Value(r), Value(x) * Low(y, j))

LEMMA RowsGoOn ==
  ASSUME NEW x \in Number, NEW y \in Number, NEW j \in 0 .. 3, NEW r,
         NEW m \in 0 .. 4, \A i \in Index : i >= m => x[i] = 0, RowsInv(x, y, m, r, j)
  PROVE  RowsInv(x, y, m, MulRow(x, y, j, m, r), j + 1)
<1> DEFINE next == MulRow(x, y, j, m, r)
           v == Value(x)
           w == y[j]
           L == Low(y, j)
           W == Weight(j)
           s == Value(r)
           z == Value(next)
<1>1. j \in Index /\ j \in 0 .. 4 /\ r \in Number /\ (\A i \in Index : i >= j + m => r[i] = 0)
  BY WidthType DEF RowsInv
<1>2. /\ next \in Number /\ (\A i \in Index : i >= (j + 1) + m => next[i] = 0)
      /\ Same(z, s + (v * w) * W)
  BY <1>1, RowAdds
<1>3. /\ v \in Int /\ w \in Int /\ L \in Int /\ W \in Int /\ s \in Int /\ z \in Int
  BY <1>1, <1>2, ValueType, WordIs, LowIs, Weights
<1>4. Low(y, j + 1) = L + w * W
  BY LowIs
<1>5. Same(s, v * L)
  BY DEF RowsInv
<1> HIDE DEF v, w, L, W, s, z
<1>6. v * (L + w * W) = v * L + (v * w) * W
  BY <1>3
<1> DEFINE a == v * L
           b == (v * w) * W
<1>7. a \in Int /\ b \in Int
  <2>1. v * w \in Int
    BY <1>3
  <2> QED
    BY <1>3, <2>1
<1> HIDE DEF a, b
<1>8. Same(s + b, a + b)
  <2>1. s \in Int /\ a \in Int /\ b \in Int /\ Same(s, a)
    BY <1>3, <1>5, <1>7, Zenon DEF a
  <2> QED
    BY ONLY <2>1, SameIs
<1>9. s + b \in Int /\ a + b \in Int
  BY <1>3, <1>7
<1>10. Same(z, s + b)
  BY <1>2, Zenon DEF b
<1>11. Same(z, a + b)
  BY <1>3, <1>8, <1>9, <1>10, SameIs
<1>12. Same(z, v * Low(y, j + 1))
  BY <1>4, <1>6, <1>11, Zenon DEF a, b
<1> HIDE DEF next
<1> QED
  BY <1>2, <1>12, Zenon DEF RowsInv, next, z, v

LEMMA MulExact ==
  ASSUME NEW x \in Number, NEW y \in Number
  PROVE  mul(x, y) \in Number /\ Value(mul(x, y)) = (Value(x) * Value(y)) % Modulus
<1> DEFINE n == num_words(y)
           m == num_words(x)
<1>1. PICK f : /\ mul(x, y) = f[n] /\ f[0] = Zero
               /\ \A j \in 0 .. 3 : j < n => f[j + 1] = MulRow(x, y, j, m, f[j])
  BY RowsAre
<1>2. /\ n \in 0 .. 4 /\ (\A i \in Index : i >= n => y[i] = 0)
      /\ m \in 0 .. 4 /\ (\A i \in Index : i >= m => x[i] = 0)
  BY InUse
<1> HIDE DEF n, m
<1> DEFINE Inv(j) == RowsInv(x, y, m, f[j], j)
<1>3. Inv(0)
  <2>1. Low(y, 0) = 0 /\ Value(x) * 0 = 0
    BY LowIs, ValueType
  <2>2. Same(0, 0)
    BY SameIs
  <2>3. \A i \in Index : i >= 0 + m => Zero[i] = 0
    BY ZeroIs
  <2> QED
    BY <1>1, <2>1, <2>2, <2>3, ZeroIs, Zenon DEF RowsInv
<1>4. ASSUME NEW j \in 0 .. 3, j < n, Inv(j) PROVE Inv(j + 1)
  <2>1. f[j + 1] = MulRow(x, y, j, m, f[j])
    BY <1>1, <1>4
  <2>2. RowsInv(x, y, m, MulRow(x, y, j, m, f[j]), j + 1)
    BY <1>2, <1>4, RowsGoOn
  <2> QED
    BY <2>1, <2>2, Zenon
<1>5. Inv(n)
  <2> HIDE DEF Inv
  <2>1. 0 < n => Inv(0 + 1)
    BY <1>3, <1>4
  <2>2. 1 < n => Inv(1 + 1)
    BY <1>2, <1>4, <2>1
  <2>3. 2 < n => Inv(2 + 1)
    BY <1>2, <1>4, <2>2
  <2>4. 3 < n => Inv(3 + 1)
    BY <1>2, <1>4, <2>3
  <2>5. n \in {0, 1, 2, 3, 4} /\ 0 + 1 = 1 /\ 1 + 1 = 2 /\ 2 + 1 = 3 /\ 3 + 1 = 4
    BY <1>2
  <2>6. n = 1 => Inv(1)
    BY <2>1, <2>5
  <2>7. n = 2 => Inv(2)
    BY <2>2, <2>5
  <2>8. n = 3 => Inv(3)
    BY <2>3, <2>5
  <2>9. n = 4 => Inv(4)
    BY <2>4, <2>5
  <2> QED
    BY <1>3, <2>5, <2>6, <2>7, <2>8, <2>9, Zenon
<1>6. f[n] \in Number /\ Same(Value(f[n]), Value(x) * Low(y, n))
  BY <1>5 DEF RowsInv
<1>7. Low(y, n) = Value(y)
  BY <1>2, LowWhole
<1> DEFINE v == Value(f[n])
           p == Value(x) * Value(y)
<1>8. v \in U256 /\ p \in Int /\ Same(v, p)
  <2>1. v \in U256
    BY <1>6, ValueType
  <2>2. p \in Int
    BY ValueType
  <2> QED
    BY <1>6, <1>7, <2>1, <2>2, Zenon
<1> HIDE DEF v, p
<1>9. v = p % Modulus
  BY <1>8, SameWraps
<1> QED
  BY <1>1, <1>6, <1>9, Zenon DEF v, p

LEMMA WordsExactAlways ==
  ASSUME WordsInit
  PROVE  WordsExact
<1> DEFINE a == words[1]
           b == words[2]
           x == Of(a)
           y == Of(b)
<1>1. a \in U256 /\ b \in U256
  BY DEF WordsInit
<1>2. x \in Number /\ Value(x) = a /\ y \in Number /\ Value(y) = b
  BY <1>1, OfIs
<1> HIDE DEF a, b, x, y
<1>3. Value(add(x, y)) = (a + b) % Modulus
  BY <1>2, AddExact, Zenon
<1>4. Value(sub(x, y)) = (a - b) % Modulus
  BY <1>2, SubExact, Zenon
<1>5. Value(mul(x, y)) = (a * b) % Modulus
  BY <1>2, MulExact, Zenon
<1>6. Value(get_add_inverse(x)) = (-a) % Modulus
  BY <1>2, NegateExact, Zenon
<1>7. b \in DOMAIN Pow2 =>
        /\ Value(shift_left(x, b)) = (a * Pow2[b]) % Modulus
        /\ Value(shift_right(x, b)) = a \div Pow2[b]
  <2>1. DOMAIN Pow2 = 0 .. 4 * U64_RESOLUTION
    BY PowerIs, WidthType, Zenon
  <2> QED
    BY <1>2, <2>1, ShiftsExact, Zenon
<1>8. b \notin DOMAIN Pow2 => shift_left(x, b) = Zero /\ shift_right(x, b) = Zero
  <2> SUFFICES ASSUME b \notin DOMAIN Pow2
               PROVE  shift_left(x, b) = Zero /\ shift_right(x, b) = Zero
    OBVIOUS
  <2>1. DOMAIN Pow2 = 0 .. 4 * U64_RESOLUTION
    BY PowerIs, WidthType, Zenon
  <2>2. b \in Nat
    BY <1>1, BaseType DEF U256
  <2>3. b >= U64_RESOLUTION * NUM_WORDS
    BY <2>1, <2>2, WidthType
  <2> QED
    BY <2>3 DEF shift_left, shift_right
<1>9. {a, b} \subseteq DoubleWord => Value(mul_u256(a, b)) = a * b
  <2> SUFFICES ASSUME {a, b} \subseteq DoubleWord PROVE Value(mul_u256(a, b)) = a * b
    OBVIOUS
  <2>1. a \in DoubleWord /\ b \in DoubleWord
    OBVIOUS
  <2> QED
    BY <2>1, MulU256Exact
<1>10. /\ lt(x, y) <=> a < b
       /\ gt(x, y) <=> a > b
       /\ lte(x, y) <=> a <= b
       /\ gte(x, y) <=> a >= b
  BY <1>2, ComparisonsExact, Zenon
<1>11. /\ lt(x, y) = (a < b) /\ gt(x, y) = (a > b)
       /\ lte(x, y) = (a <= b) /\ gte(x, y) = (a >= b)
  <2>1. /\ lt(x, y) \in BOOLEAN /\ gt(x, y) \in BOOLEAN
        /\ lte(x, y) \in BOOLEAN /\ gte(x, y) \in BOOLEAN
    BY DEF lt, gt, lte, gte, eq
  <2> QED
    BY <1>10, <2>1
<1> QED
  BY <1>3, <1>4, <1>5, <1>6, <1>7, <1>8, <1>9, <1>11, Zenon DEF WordsExact, a, b, x, y

(* Whatever the width of a word, and for every pair of numbers, the four words *)
(* add, subtract, negate, multiply, shift and compare as the number does whose *)
(* words they are, modulo 2 to the power of four widths.                       *)
THEOREM WordsExactHolds == WordsSpec => []WordsExact
<1>1. WordsInit => WordsExact
  BY WordsExactAlways
<1>2. WordsExact /\ [FALSE]_words => WordsExact'
  <2> SUFFICES ASSUME WordsExact, UNCHANGED words PROVE WordsExact'
    OBVIOUS
  <2> QED
    BY DEF WordsExact
<1> QED
  BY <1>1, <1>2, PTL DEF WordsSpec

-----------------------------------------------------------------------------
\* Long division: the cases of few words.

\* A number whose words past the first n are 0 is below the weight of n.
LEMMA ValueFits ==
  ASSUME NEW x \in Number, NEW n \in 0 .. 4, \A i \in Index : i >= n => x[i] = 0
  PROVE  Value(x) < Weight(n)
<1>1. Low(x, n) = Value(x)
  BY LowWhole
<1>2. Low(x, n) < Weight(n)
  BY LowIs
<1> QED
  BY <1>1, <1>2, Zenon

\* And one below the weight of n has no words past them.
LEMMA FitsValue ==
  ASSUME NEW x \in Number, NEW n \in 0 .. 4, Value(x) < Weight(n)
  PROVE  \A i \in Index : i >= n => x[i] = 0
<1> SUFFICES ASSUME NEW i \in Index, i >= n, x[i] # 0 PROVE FALSE
  OBVIOUS
<1> DEFINE v == Value(x)
           W == Weight(n)
           V == Weight(i)
           d == Weight(i - n)
           w == x[i]
<1>1. i \in 0 .. 3 /\ i - n \in 0 .. 4 /\ n + (i - n) = i /\ n + (i - n) <= 4 /\ i \in 0 .. 4
  BY WidthType
<1>2. /\ v \in Nat /\ W \in Nat \ {0} /\ V \in Nat \ {0} /\ d \in Nat \ {0} /\ w \in Nat \ {0}
      /\ v < W
  BY <1>1, ValueType, Weights, WordIs
<1>3. V = W * d
  BY <1>1, WeightsMultiply
<1>4. v >= w * V
  <2> DEFINE l(k) == Low(x, k)
  <2>1. l(i + 1) = l(i) + w * V
    BY <1>1, LowIs
  <2>2. l(i) \in Nat
    BY <1>1, LowIs
  <2>3. l(i + 1) <= v
    <3>1. ASSUME NEW k \in 0 .. 3 PROVE l(k) <= l(k + 1)
      <4>1. l(k + 1) = l(k) + x[k] * Weight(k) /\ l(k) \in Nat
        BY LowIs
      <4>2. x[k] \in Nat /\ Weight(k) \in Nat
        BY WordIs, Weights, WidthType
      <4> DEFINE m == x[k] * Weight(k)
      <4>3. m \in Nat
        BY <4>2
      <4> HIDE DEF l, m
      <4> QED
        BY <4>1, <4>3 DEF m
    <3>2. l(4) = v
      BY LowIs
    <3>3. l(1) \in Nat /\ l(2) \in Nat /\ l(3) \in Nat /\ l(4) \in Nat
      BY LowIs
    <3> HIDE DEF l
    <3>4. l(1) <= l(2) /\ l(2) <= l(3) /\ l(3) <= l(4)
      <4>1. l(1) <= l(1 + 1) /\ l(2) <= l(2 + 1) /\ l(3) <= l(3 + 1)
        BY <3>1
      <4> QED
        BY <4>1
    <3>5. i + 1 \in {1, 2, 3, 4}
      BY <1>1
    <3>6. /\ l(1) <= v /\ l(2) <= v /\ l(3) <= v /\ l(4) <= v
      BY <3>2, <3>3, <3>4, <1>2
    <3> QED
      BY <3>5, <3>6, Zenon
  <2> DEFINE m == w * V
  <2>4. m \in Nat
    BY <1>2
  <2> HIDE DEF l, m, v
  <2>5. v \in Nat /\ l(i + 1) \in Nat
    BY <1>2, <2>1, <2>2, <2>4 DEF m
  <2> QED
    BY <2>1, <2>2, <2>3, <2>4, <2>5 DEF m
<1> HIDE DEF v, W, V, d, w
<1>5. w * V >= V /\ W * d >= W
  BY <1>2
<1> QED
  BY <1>2, <1>3, <1>4, <1>5

\* A number is at least the weight of its highest word in use.
LEMMA UseBounds ==
  ASSUME NEW x \in Number
  PROVE  LET n == num_words(x)
         IN  /\ n \in 0 .. 4 /\ (\A i \in Index : i >= n => x[i] = 0)
             /\ Value(x) < Weight(n)
             /\ n = 0 => Value(x) = 0
             /\ n > 0 => /\ n - 1 \in Index /\ x[n - 1] \in Nat \ {0}
                         /\ Value(x) = Low(x, n - 1) + x[n - 1] * Weight(n - 1)
                         /\ Weight(n - 1) <= Value(x)
<1> DEFINE n == num_words(x)
<1>1. /\ n \in 0 .. 4 /\ (\A i \in Index : i >= n => x[i] = 0)
      /\ n > 0 => n - 1 \in Index /\ x[n - 1] # 0
  BY InUse
<1> HIDE DEF n
<1>2. Value(x) < Weight(n)
  BY <1>1, ValueFits
<1>3. Low(x, n) = Value(x)
  BY <1>1, LowWhole
<1>4. n = 0 => Value(x) = 0
  BY <1>3, LowIs
<1>5. ASSUME n > 0
      PROVE  /\ n - 1 \in Index /\ x[n - 1] \in Nat \ {0}
             /\ Value(x) = Low(x, n - 1) + x[n - 1] * Weight(n - 1)
             /\ Weight(n - 1) <= Value(x)
  <2> DEFINE m == n - 1
             w == x[m]
             W == Weight(m)
             l == Low(x, m)
  <2>1. m \in Index /\ w \in Nat \ {0} /\ m \in 0 .. 3 /\ m + 1 = n
    BY <1>1, <1>5, WordIs, WidthType
  <2>2. Value(x) = l + w * W
    <3>1. Low(x, m + 1) = l + w * W
      BY <2>1, LowIs
    <3> QED
      BY <1>3, <2>1, <3>1, Zenon
  <2>3. W \in Nat /\ l \in Nat
    BY <2>1, Weights, LowIs
  <2> HIDE DEF m, w, W, l
  <2>4. w * W >= W /\ w * W \in Nat
    BY <2>1, <2>3
  <2>5. W <= l + w * W
    BY <2>3, <2>4
  <2> QED
    BY <2>1, <2>2, <2>5, Zenon DEF m, w, W, l
<1> QED
  BY <1>1, <1>2, <1>4, <1>5, Zenon DEF n

LEMMA WeightsGrow ==
  ASSUME NEW m \in 0 .. 4, NEW n \in 0 .. 4, m <= n
  PROVE  Weight(m) <= Weight(n)
<1> DEFINE d == n - m
<1>1. d \in 0 .. 4 /\ m + d = n /\ m + d <= 4
  OBVIOUS
<1> HIDE DEF d
<1>2. Weight(n) = Weight(m) * Weight(d)
  <2>1. Weight(m + d) = Weight(m) * Weight(d)
    BY <1>1, WeightsMultiply
  <2> QED
    BY <1>1, <2>1, Zenon
<1>3. Weight(m) \in Nat \ {0} /\ Weight(d) \in Nat \ {0}
  BY <1>1, Weights
<1> QED
  BY <1>2, <1>3

\* A result of a division is the quotient and the remainder.
Divides(result, a, b) ==
    /\ result # Panic
    /\ Value(result.quotient) = a \div b /\ Value(result.remainder) = a % b

LEMMA ResultIs ==
  ASSUME NEW q, NEW r, NEW a \in Nat, NEW b \in Nat \ {0},
         Value(q) \in Int, Value(r) \in Nat, Value(r) < b, a = b * Value(q) + Value(r)
  PROVE  Divides([quotient |-> q, remainder |-> r], a, b)
<1> DEFINE result == [quotient |-> q, remainder |-> r]
           u == Value(q)
           v == Value(r)
<1>1. result # Panic
  <2>1. "quotient" \in DOMAIN result /\ "quotient" \notin DOMAIN Panic
    BY DEF Panic
  <2> QED
    BY <2>1, Zenon
<1>2. a \div b = u /\ a % b = v
  <2>1. u \in Int /\ v \in Nat /\ v < b /\ a = b * u + v /\ b * u \in Int
    OBVIOUS
  <2> HIDE DEF u, v
  <2>2. b * u <= a /\ a < b * u + b /\ a - b * u = v
    BY <2>1
  <2>3. a \in Int /\ b \in Nat \ {0} /\ u \in Int /\ b * u <= a /\ a < b * u + b
    BY <2>1, <2>2
  <2>4. a \div b = u /\ a % b = a - b * u
    BY ONLY <2>3, QuotientIs
  <2> QED
    BY <2>2, <2>4
<1>3. result.quotient = q /\ result.remainder = r
  OBVIOUS
<1> HIDE DEF result
<1> QED
  BY <1>1, <1>2, <1>3, Zenon DEF Divides, result

\* The dividend has fewer words than the divisor.
LEMMA DivideBelow ==
  ASSUME NEW x \in Number, NEW y \in Number, num_words(x) < num_words(y)
  PROVE  Divides([quotient |-> Zero, remainder |-> x], Value(x), Value(y))
<1> DEFINE m == num_words(x)
           n == num_words(y)
           a == Value(x)
           b == Value(y)
<1>1. m \in 0 .. 4 /\ a < Weight(m)
  BY UseBounds
<1>2. n \in 0 .. 4 /\ (n > 0 => Weight(n - 1) <= b)
  BY UseBounds
<1>3. a \in Nat /\ b \in Nat /\ m < n
  BY ValueType
<1> HIDE DEF a, b, m, n
<1>4. n - 1 \in 0 .. 4 /\ m <= n - 1 /\ n > 0
  BY <1>1, <1>2, <1>3
<1>5. Weight(m) <= Weight(n - 1)
  BY <1>1, <1>4, WeightsGrow
<1>6. Weight(m) \in Nat /\ Weight(n - 1) \in Nat
  BY <1>1, <1>4, Weights
<1>7. a < b
  BY <1>1, <1>2, <1>3, <1>4, <1>5, <1>6
<1>8. Value(Zero) = 0
  BY ZeroIs
<1>9. /\ b \in Nat \ {0} /\ Value(Zero) \in Int /\ Value(x) \in Nat /\ Value(x) < b
      /\ a = b * Value(Zero) + Value(x)
  BY <1>3, <1>7, <1>8 DEF a
<1> QED
  BY <1>3, <1>9, ResultIs DEF a, b

\* Both have two words at most.
LEMMA ShortValue ==
  ASSUME NEW x \in Number, num_words(x) < 3
  PROVE  try_into_u128(x) = Value(x) /\ Value(x) \in DoubleWord
<1>1. \A i \in Index : i >= num_words(x) => x[i] = 0
  BY UseBounds
<1>2. num_words(x) \in 0 .. 4
  BY UseBounds
<1>3. x[2] = 0 /\ x[3] = 0
  BY <1>1, <1>2, WidthType
<1>4. Value(x) = x[0] + Base * x[1]
  <2>1. x[0] \in Nat /\ x[1] \in Nat /\ Base \in Nat
    BY NumberIs, BaseType
  <2>2. x[1] + Base * (x[2] + Base * x[3]) = x[1]
    BY <1>3, <2>1
  <2> QED
    BY <2>2, Zenon DEF Value
<1>5. try_into_u128(x) = x[1] * Base + x[0]
  <2>1. ~(num_words(x) > 2)
    BY <1>2
  <2> QED
    BY <2>1, Zenon DEF try_into_u128, hi_lo
<1>6. x[1] * Base + x[0] = x[0] + Base * x[1] /\ x[0] + Base * x[1] < Base * Base
      /\ x[0] + Base * x[1] \in Nat
  <2>1. x[0] \in Nat /\ x[1] \in Nat /\ x[0] < Base /\ x[1] < Base /\ Base \in Nat
    BY NumberIs, BaseType
  <2>2. x[0] + Base * x[1] \in Nat /\ x[0] + Base * x[1] < Base * Base
    BY <2>1, Horner
  <2> QED
    BY <2>1, <2>2
<1>7. Base * Base \in Nat
  BY BaseType
<1> DEFINE v == Value(x)
           M == Base * Base
<1>8. v \in Nat /\ v < M /\ M \in Nat
  BY <1>4, <1>6, <1>7, Zenon
<1> HIDE DEF v, M
<1>9. v \in 0 .. M - 1
  BY <1>8
<1> QED
  BY <1>4, <1>5, <1>6, <1>9, Zenon DEF v, M, DoubleWord

\* A number of two words.
LEMMA NewLow ==
  ASSUME NEW l \in Nat, l < Base * Base
  PROVE  New(0, l) \in Number /\ Value(New(0, l)) = l
<1>1. 0 \in Nat /\ 0 < Base * Base /\ Base * Base \in Nat
  BY DoubleBase
<1>2. New(0, l) \in Number /\ Value(New(0, l)) = l + (Base * Base) * 0
  BY <1>1, NewIs
<1> QED
  BY <1>1, <1>2

LEMMA DivideShort ==
  ASSUME NEW x \in Number, NEW y \in Number, num_words(x) < 3, num_words(y) < 3,
         Value(y) # 0
  PROVE  LET u == try_into_u128(x)
             v == try_into_u128(y)
         IN  Divides([quotient |-> New(0, u \div v), remainder |-> New(0, u % v)],
                     Value(x), Value(y))
<1> DEFINE a == Value(x)
           b == Value(y)
           M == Base * Base
<1>1. try_into_u128(x) = a /\ try_into_u128(y) = b /\ a \in DoubleWord /\ b \in DoubleWord
  BY ShortValue
<1>2. M \in Nat /\ b # 0
  BY BaseType
<1>3. a \in Nat /\ b \in Nat \ {0} /\ a < M /\ b < M
  <2>1. a \in 0 .. M - 1 /\ b \in 0 .. M - 1
    BY <1>1 DEF DoubleWord
  <2> HIDE DEF a, b, M
  <2> QED
    BY <1>2, <2>1
<1> HIDE DEF a, b, M
<1> DEFINE q == a \div b
           r == a % b
<1>4. a = b * q + r /\ q \in Nat /\ r \in Nat /\ r < b
  <2>1. a = b * q + r /\ q \in Nat /\ r \in 0 .. b - 1
    BY <1>3, Remainder
  <2> HIDE DEF q, r
  <2> QED
    BY <1>3, <2>1
<1> HIDE DEF q, r
<1>5. q < M /\ r < M
  <2>1. b * q >= q
    BY <1>3, <1>4
  <2>2. b * q \in Nat
    BY <1>3, <1>4
  <2> QED
    BY <1>2, <1>3, <1>4, <2>1, <2>2
<1>6. Value(New(0, q)) = q /\ Value(New(0, r)) = r
  BY <1>4, <1>5, NewLow DEF M
<1>7. Divides([quotient |-> New(0, q), remainder |-> New(0, r)], a, b)
  <2>1. /\ Value(New(0, q)) \in Int /\ Value(New(0, r)) \in Nat /\ Value(New(0, r)) < b
        /\ a = b * Value(New(0, q)) + Value(New(0, r))
    BY <1>4, <1>6
  <2> QED
    BY <1>3, <2>1, ResultIs
<1> QED
  BY <1>1, <1>7, Zenon DEF a, b, q, r

-----------------------------------------------------------------------------
\* A divisor of one word.

\* The step of the loop for word j.
WordStep(x, d, row, j) ==
    LET d1 == hi_lo(lo(row.k), x[j])
    IN  [quotient |-> [row.quotient EXCEPT ![j] = lo(d1 \div d)], k |-> d1 % d]

\* The steps, from the highest word down.
WordSteps(x, m, d, f) ==
    /\ DivideByWord(x, m, d) = [quotient |-> f[0].quotient, remainder |-> New(0, f[0].k)]
    /\ f[m] = [quotient |-> Zero, k |-> 0]
    /\ \A j \in 0 .. 3 : j < m => f[j] = WordStep(x, d, f[j + 1], j)

LEMMA WordStepsExist ==
  ASSUME NEW x, NEW m \in 0 .. 4, NEW d
  PROVE  \E f : WordSteps(x, m, d, f)
<1> DEFINE First == [quotient |-> Zero, k |-> 0]
<1> DEFINE Step(f, j) == IF j = m THEN First ELSE WordStep(x, d, f[j + 1], j)
           Solves(f) == f = [j \in 0 .. m |-> Step(f, j)]
           r0 == First
           r1 == WordStep(x, d, r0, m - 1)
           r2 == WordStep(x, d, r1, m - 2)
           r3 == WordStep(x, d, r2, m - 3)
           r4 == WordStep(x, d, r3, m - 4)
           At(i) == CASE i = 0 -> r0 [] i = 1 -> r1 [] i = 2 -> r2 [] i = 3 -> r3 [] i = 4 -> r4
           g == [j \in 0 .. m |-> At(m - j)]
<1>1. \A j \in 0 .. m : m - j \in {0, 1, 2, 3, 4} /\ (j = m <=> m - j = 0)
  OBVIOUS
<1>2. Solves(g)
  <2>1. At(0) = r0 /\ At(1) = r1 /\ At(2) = r2 /\ At(3) = r3 /\ At(4) = r4
    <3> HIDE DEF r0, r1, r2, r3, r4
    <3> QED
      OBVIOUS
  <2>2. \A j \in 0 .. m : g[j] = At(m - j)
    <3> HIDE DEF At
    <3> QED
      OBVIOUS
  <2>3. ASSUME NEW j \in 0 .. m PROVE g[j] = Step(g, j)
    <3> HIDE DEF g, At
    <3>1. CASE j = m
      <4>1. m - j = 0
        BY <1>1, <3>1
      <4> QED
        BY <2>1, <2>2, <3>1, <4>1, Zenon
    <3>2. CASE j # m
      <4>1. Step(g, j) = WordStep(x, d, g[j + 1], j)
        BY <3>2, Zenon
      <4>2. j + 1 \in 0 .. m
        BY <3>2
      <4>3. g[j + 1] = At(m - (j + 1))
        BY <2>2, <4>2, Zenon
      <4>4. CASE m - j = 1
        <5>1. m - (j + 1) = 0 /\ m - 1 = j
          BY <4>4
        <5> HIDE DEF First, Step, r0
        <5> QED
          BY <2>1, <2>2, <4>1, <4>3, <4>4, <5>1, Zenon
      <4>5. CASE m - j = 2
        <5>1. m - (j + 1) = 1 /\ m - 2 = j
          BY <4>5
        <5> HIDE DEF First, Step, r1
        <5> QED
          BY <2>1, <2>2, <4>1, <4>3, <4>5, <5>1, Zenon
      <4>6. CASE m - j = 3
        <5>1. m - (j + 1) = 2 /\ m - 3 = j
          BY <4>6
        <5> HIDE DEF First, Step, r2
        <5> QED
          BY <2>1, <2>2, <4>1, <4>3, <4>6, <5>1, Zenon
      <4>7. CASE m - j = 4
        <5>1. m - (j + 1) = 3 /\ m - 4 = j
          BY <4>7
        <5> HIDE DEF First, Step, r3
        <5> QED
          BY <2>1, <2>2, <4>1, <4>3, <4>7, <5>1, Zenon
      <4>8. m - j \in {1, 2, 3, 4}
        BY <1>1, <3>2
      <4> HIDE DEF Step
      <4> QED
        BY <4>4, <4>5, <4>6, <4>7, <4>8, Zenon
    <3> QED
      BY <3>1, <3>2
  <2>4. g = [j \in 0 .. m |-> g[j]]
    <3> HIDE DEF At
    <3> QED
      BY Zenon
  <2> HIDE DEF g, Step
  <2>5. [j \in 0 .. m |-> g[j]] = [j \in 0 .. m |-> Step(g, j)]
    BY <2>3, Zenon
  <2> QED
    BY <2>4, <2>5, Zenon
<1> HIDE DEF g
<1> DEFINE f == CHOOSE h : Solves(h)
<1>3. Solves(f)
  <2> HIDE DEF Solves
  <2> QED
    BY <1>2, Zenon
<1>4. DivideByWord(x, m, d) = [quotient |-> f[0].quotient, remainder |-> New(0, f[0].k)]
  BY Zenon DEF DivideByWord, WordStep
<1> HIDE DEF f
<1>5. \A j \in 0 .. m : f[j] = Step(f, j)
  <2> HIDE DEF Step
  <2> QED
    BY <1>3, Zenon
<1>6. f[m] = First
  <2>1. m \in 0 .. m
    OBVIOUS
  <2> QED
    BY <1>5, <2>1, Zenon
<1>7. ASSUME NEW j \in 0 .. 3, j < m PROVE f[j] = WordStep(x, d, f[j + 1], j)
  <2>1. j \in 0 .. m /\ j # m
    BY <1>7
  <2> QED
    BY <1>5, <2>1, Zenon
<1>8. \A j \in 0 .. 3 : j < m => f[j] = WordStep(x, d, f[j + 1], j)
  BY <1>7, Zenon
<1> QED
  BY <1>4, <1>6, <1>8, Zenon DEF WordSteps

\* The words from j on are divided; row.k is what is left of them.
WordInv(x, d, row, j) ==
    /\ row.quotient \in Number /\ row.k \in Nat /\ row.k < d
    /\ \A i \in Index : i < j => row.quotient[i] = 0
    /\ Value(x) = (d * Value(row.quotient) + row.k * Weight(j)) + Low(x, j)

SplitsWord(d, q, r, k, w, v, V, L) ==
    (d * v + k * (Base * V)) + (L + w * V) = (d * (v + q * V) + r * V) + L

LEMMA WordDivides ==
  ASSUME NEW d \in Int, NEW q \in Int, NEW r \in Int, NEW k \in Int, NEW w \in Int,
         NEW v \in Int, NEW V \in Int, NEW L \in Int, k * Base + w = d * q + r
  PROVE  SplitsWord(d, q, r, k, w, v, V, L)
<1> DEFINE B == Base
<1>1. B \in Int
  BY BaseType
<1> HIDE DEF B
<1>2. /\ k * (B * V) + w * V = (k * B + w) * V
      /\ (d * q + r) * V = d * (q * V) + r * V
      /\ d * (v + q * V) = d * v + d * (q * V)
  BY <1>1
<1>3. (k * B + w) * V = (d * q + r) * V
  BY DEF B
<1> DEFINE t1 == k * (B * V)
           t2 == w * V
           t3 == d * (q * V)
           t4 == r * V
           t5 == d * v
<1>4. t1 \in Int /\ t2 \in Int /\ t3 \in Int /\ t4 \in Int /\ t5 \in Int
  <2>1. B * V \in Int /\ q * V \in Int
    BY <1>1
  <2> QED
    BY <2>1
<1>5. t1 + t2 = t3 + t4
  BY <1>2, <1>3
<1>6. d * (v + q * V) = t5 + t3
  BY <1>2
<1> HIDE DEF t1, t2, t3, t4, t5
<1>7. (t5 + t1) + (L + t2) = ((t5 + t3) + t4) + L
  BY <1>4, <1>5
<1> QED
  BY <1>6, <1>7, Zenon DEF t1, t2, t3, t4, t5, B, SplitsWord

LEMMA WordGoesOn ==
  ASSUME NEW x \in Number, NEW d \in Nat \ {0}, d < Base, NEW j \in 0 .. 3, NEW row,
         WordInv(x, d, row, j + 1)
  PROVE  WordInv(x, d, WordStep(x, d, row, j), j)
<1> DEFINE next == WordStep(x, d, row, j)
           Q == row.quotient
           k == row.k
           w == x[j]
           d1 == hi_lo(lo(k), w)
           q == d1 \div d
           r == d1 % d
           V == Weight(j)
           L == Low(x, j)
           v == Value(Q)
<1>1. /\ Q \in Number /\ k \in Nat /\ k < d /\ (\A i \in Index : i < j + 1 => Q[i] = 0)
      /\ Value(x) = (d * v + k * Weight(j + 1)) + Low(x, j + 1)
  BY Zenon DEF WordInv
<1>2. /\ j \in Index /\ j + 1 \in 0 .. 4 /\ j \in 0 .. 4 /\ 1 \in 0 .. 4 /\ 1 + j <= 4
      /\ 1 + j = j + 1
  BY WidthType
<1>3. /\ w \in Nat /\ w < Base /\ V \in Nat /\ L \in Int /\ v \in Int /\ Base \in Nat
  BY <1>1, <1>2, WordIs, Weights, LowIs, ValueType, BaseType
<1>4. d1 = k * Base + w
  <2>1. k < Base
    BY <1>1, <1>3
  <2>2. lo(k) = k
    BY <1>1, <2>1, LoOfWord
  <2> QED
    BY <2>2, Zenon DEF hi_lo
<1>5. Weight(j + 1) = Base * V
  <2>1. Weight(1 + j) = Weight(1) * Weight(j)
    BY <1>2, WeightsMultiply
  <2>2. Weight(1) = Base
    BY Weights
  <2> QED
    BY <1>2, <2>1, <2>2, Zenon
<1>6. Low(x, j + 1) = L + w * V
  BY LowIs
<1>7. next = [quotient |-> [Q EXCEPT ![j] = lo(q)], k |-> r]
  BY Zenon DEF WordStep
<1> HIDE DEF next, Q, k, w, V, L, v, d1
<1>8. d1 \in Nat /\ d1 < d * Base
  <2> DEFINE B == Base
             p == k * B
  <2>1. p \in Nat /\ p + B <= d * B
    <3>1. k + 1 <= d /\ B \in Nat
      BY <1>1, <1>3
    <3> HIDE DEF B
    <3>2. (k + 1) * B <= d * B /\ (k + 1) * B = k * B + B
      BY <1>1, <3>1
    <3>3. k * B \in Nat
      BY <1>1, <3>1
    <3> QED
      BY <3>2, <3>3
  <2>2. d * B \in Nat
    BY <1>3
  <2>3. d1 = p + w /\ B \in Nat /\ w < B
    BY <1>3, <1>4
  <2> HIDE DEF B, p
  <2>4. d1 \in Nat /\ d1 < d * B
    BY <1>3, <2>1, <2>2, <2>3
  <2> QED
    BY <2>4 DEF B
<1>9. d1 = d * q + r /\ q \in Nat /\ r \in 0 .. d - 1
  BY <1>8, Remainder
<1> HIDE DEF q, r
<1>10. r \in Nat /\ r < d
  BY <1>9
<1>11. q < Base
  <2>1. d * q <= d1
    <3>1. d * q \in Int
      BY <1>9
    <3> QED
      BY <1>8, <1>9, <1>10, <3>1
  <2>2. ASSUME q >= Base PROVE FALSE
    <3>1. d * q >= d * Base /\ d * q \in Int /\ d * Base \in Int
      BY <1>3, <1>9, <2>2
    <3> QED
      BY <1>8, <2>1, <3>1
  <2> QED
    BY <1>3, <1>9, <2>2
<1>12. lo(q) = q /\ q \in Word
  <2>1. lo(q) = q
    BY <1>9, <1>11, LoOfWord
  <2> QED
    BY <1>3, <1>9, <1>11, <2>1 DEF Word
<1> DEFINE P == [Q EXCEPT ![j] = q]
<1>13. /\ P \in Number /\ (\A i \in Index \ {j} : P[i] = Q[i])
       /\ Value(P) = v + q * V
  <2>1. /\ P \in Number /\ (\A i \in Index \ {j} : P[i] = Q[i])
        /\ Value(P) = Value(Q) + (q - Q[j]) * Weight(j)
    BY <1>1, <1>2, <1>12, WordReplaced
  <2>2. Q[j] = 0 /\ q - 0 = q
    BY <1>1, <1>2, <1>9
  <2> QED
    BY <2>1, <2>2, Zenon DEF v, V
<1>14. next.quotient = P /\ next.k = r
  BY <1>7, <1>12
<1> HIDE DEF P
<1>15. ASSUME NEW i \in Index, i < j PROVE P[i] = 0
  <2>1. i # j /\ i < j + 1
    BY <1>15, WidthType
  <2>2. P[i] = Q[i] /\ Q[i] = 0
    BY <1>1, <1>13, <2>1
  <2> QED
    BY <2>2
<1>16. Value(x) = (d * Value(P) + r * V) + L
  <2>1. k * Base + w = d * q + r
    BY <1>4, <1>9
  <2>2. (d * v + k * (Base * V)) + (L + w * V) = (d * (v + q * V) + r * V) + L
    <3>1. /\ d \in Int /\ q \in Int /\ r \in Int /\ k \in Int /\ w \in Int /\ v \in Int
          /\ V \in Int /\ L \in Int
      BY <1>1, <1>3, <1>9, <1>10
    <3>2. SplitsWord(d, q, r, k, w, v, V, L)
      BY ONLY <2>1, <3>1, WordDivides
    <3> QED
      BY <3>2 DEF SplitsWord
  <2>3. Value(x) = (d * v + k * (Base * V)) + (L + w * V)
    BY <1>1, <1>5, <1>6, Zenon
  <2> QED
    BY <1>13, <2>2, <2>3, Zenon
<1> QED
  BY <1>10, <1>13, <1>14, <1>15, <1>16, Zenon DEF WordInv, V, L, next

LEMMA DivideOneWord ==
  ASSUME NEW x \in Number, NEW y \in Number, num_words(y) = 1
  PROVE  Divides(DivideByWord(x, num_words(x), y[0]), Value(x), Value(y))
<1> DEFINE m == num_words(x)
           d == y[0]
<1>1. m \in 0 .. 4 /\ \A i \in Index : i >= m => x[i] = 0
  BY UseBounds
<1>2. d \in Nat \ {0} /\ d < Base /\ Value(y) = d
  <2>1. /\ y[1 - 1] \in Nat \ {0} /\ 1 - 1 = 0
        /\ Value(y) = Low(y, 1 - 1) + y[1 - 1] * Weight(1 - 1)
    BY UseBounds
  <2>2. Low(y, 0) = 0 /\ Weight(0) = 1
    BY LowIs, Weights
  <2>3. y[0] < Base
    BY NumberIs
  <2> QED
    BY <2>1, <2>2, <2>3
<1> HIDE DEF m, d
<1>3. PICK f : WordSteps(x, m, d, f)
  BY <1>1, WordStepsExist
<1>4. /\ DivideByWord(x, m, d) = [quotient |-> f[0].quotient, remainder |-> New(0, f[0].k)]
      /\ f[m] = [quotient |-> Zero, k |-> 0]
      /\ \A j \in 0 .. 3 : j < m => f[j] = WordStep(x, d, f[j + 1], j)
  BY <1>3 DEF WordSteps
<1> DEFINE Inv(j) == WordInv(x, d, f[j], j)
<1>5. Inv(m)
  <2>1. f[m].quotient = Zero /\ f[m].k = 0
    BY <1>4
  <2>2. Value(x) = (d * 0 + 0 * Weight(m)) + Low(x, m)
    <3>1. Low(x, m) = Value(x)
      BY <1>1, LowWhole
    <3>2. Value(x) \in Int /\ Weight(m) \in Int
      BY <1>1, ValueType, Weights
    <3> QED
      BY <1>2, <3>1, <3>2
  <2>3. 0 \in Nat /\ 0 < d
    BY <1>2
  <2> QED
    BY <2>1, <2>2, <2>3, ZeroIs, Zenon DEF WordInv
<1>6. ASSUME NEW j \in 0 .. 3, j < m, Inv(j + 1) PROVE Inv(j)
  <2>1. f[j] = WordStep(x, d, f[j + 1], j)
    BY <1>4, <1>6
  <2>2. WordInv(x, d, WordStep(x, d, f[j + 1], j), j)
    BY <1>2, <1>6, WordGoesOn
  <2> QED
    BY <2>1, <2>2, Zenon
<1>7. Inv(0)
  <2> HIDE DEF Inv
  <2> DEFINE G == {i \in Nat : i <= m => Inv(m - i)}
  <2>1. 0 \in G
    <3>1. m - 0 = m
      BY <1>1
    <3> QED
      BY <1>5, <3>1
  <2>2. ASSUME NEW i \in G, i < m PROVE i + 1 \in G
    <3> DEFINE j == m - (i + 1)
    <3>1. j \in 0 .. 3 /\ j < m /\ j + 1 = m - i /\ i <= m /\ i \in Nat
      BY <1>1, <2>2
    <3> HIDE DEF j
    <3>2. Inv(m - i)
      BY <2>2, <3>1
    <3>3. Inv(j + 1)
      BY <3>1, <3>2, Zenon
    <3>4. Inv(j)
      BY <1>6, <3>1, <3>3
    <3> QED
      BY <3>1, <3>4 DEF j
  <2>3. 0 .. m \subseteq G
    <3>1. m \in Nat /\ G \in SUBSET Nat
      BY <1>1
    <3> HIDE DEF G
    <3> QED
      BY <2>1, <2>2, <3>1, UpTo
  <2>4. m \in G /\ m <= m /\ m - m = 0
    <3>1. m \in 0 .. m
      BY <1>1
    <3> HIDE DEF G
    <3> QED
      BY <1>1, <2>3, <3>1
  <2> QED
    BY <2>4
<1> DEFINE Q == f[0].quotient
           k == f[0].k
<1>8. Q \in Number /\ k \in Nat /\ k < d /\ Value(x) = (d * Value(Q) + k * Weight(0)) + Low(x, 0)
  BY <1>7, Zenon DEF WordInv
<1>9. Value(Q) \in Int /\ Value(x) \in Nat
  BY <1>8, ValueType
<1> HIDE DEF Q, k
<1>10. Value(x) = d * Value(Q) + k
  <2>1. Low(x, 0) = 0 /\ Weight(0) = 1
    BY LowIs, Weights
  <2>2. d * Value(Q) \in Int
    BY <1>2, <1>9
  <2> QED
    BY <1>8, <2>1, <2>2
<1>11. New(0, k) \in Number /\ Value(New(0, k)) = k
  <2>1. k < Base * Base
    <3>1. Base \in Nat /\ Base >= 2
      BY BaseType
    <3>2. Base * Base >= Base /\ Base * Base \in Nat
      BY <3>1
    <3> QED
      BY <1>2, <1>8, <3>1, <3>2
  <2> QED
    BY <1>8, <2>1, NewLow
<1>12. Divides([quotient |-> Q, remainder |-> New(0, k)], Value(x), Value(y))
  BY <1>2, <1>8, <1>9, <1>10, <1>11, ResultIs
<1> QED
  BY <1>4, <1>12, Zenon DEF Q, k, m, d

-----------------------------------------------------------------------------
\* The dividend of a long division: five words, the last of them the carry space.

Dividing == [dividend : Number, quotient : Number, carry : Word]

\* What the five words are worth.
Rest(st) == Value(st.dividend) + Modulus * st.carry

LEMMA DividingIs ==
  ASSUME NEW st \in Dividing
  PROVE  /\ st.dividend \in Number /\ st.quotient \in Number /\ st.carry \in Word
         /\ st.carry \in Nat /\ st.carry < Base /\ st # Panic /\ Rest(st) \in Nat
<1>1. st.dividend \in Number /\ st.quotient \in Number /\ st.carry \in Word
  BY DEF Dividing
<1>2. st.carry \in Nat /\ st.carry < Base
  BY <1>1, BaseType DEF Word
<1>3. st # Panic
  <2>1. DOMAIN st = {"dividend", "quotient", "carry"}
    BY DEF Dividing
  <2>2. DOMAIN Panic = {"panicked"}
    BY DEF Panic
  <2>3. "carry" \in DOMAIN st /\ "carry" \notin DOMAIN Panic
    BY <2>1, <2>2
  <2> QED
    BY <2>3, Zenon
<1>4. Rest(st) \in Nat
  <2>1. Value(st.dividend) \in Nat
    BY <1>1, ValueType
  <2>2. Modulus \in Nat
    BY BaseType
  <2> DEFINE v == Value(st.dividend)
             M == Modulus
             c == st.carry
             p == M * c
  <2>3. p \in Nat
    <3>1. M \in Nat /\ c \in Nat
      BY <1>2, <2>2
    <3> HIDE DEF M, c
    <3> QED
      BY <3>1
  <2> HIDE DEF p
  <2>4. v + p \in Nat
    BY <2>1, <2>3
  <2> QED
    BY <2>4, Zenon DEF Rest, p
<1> QED
  BY <1>1, <1>2, <1>3, <1>4

LEMMA DigitType ==
  ASSUME NEW st \in Dividing, NEW i \in 0 .. 4
  PROVE  Digit(st, i) \in Nat /\ Digit(st, i) < Base /\ Digit(st, i) \in Word
<1>1. CASE i = 4
  BY <1>1, DividingIs, WidthType DEF Digit
<1>2. CASE i # 4
  <2>1. i \in Index /\ i # NUM_WORDS
    BY <1>2, WidthType
  <2>2. Digit(st, i) = st.dividend[i]
    BY <2>1, Zenon DEF Digit
  <2>3. st.dividend \in Number
    BY DividingIs
  <2> QED
    BY <2>1, <2>2, <2>3, WordIs
<1> QED
  BY <1>1, <1>2

\* One of the five words is replaced.
Replaced(st, i, w, next) ==
    /\ next \in Dividing /\ next.quotient = st.quotient
    /\ Digit(next, i) = w
    /\ \A k \in 0 .. 4 : k # i => Digit(next, k) = Digit(st, k)
    /\ Rest(next) = Rest(st) + (w - Digit(st, i)) * Weight(i)

LEMMA DigitReplaced ==
  ASSUME NEW st \in Dividing, NEW i \in 0 .. 4, NEW w \in Word
  PROVE  Replaced(st, i, w, SetDigit(st, i, w))
<1> DEFINE next == SetDigit(st, i, w)
           x == st.dividend
           c == st.carry
<1>1. x \in Number /\ c \in Word /\ st \in [dividend : Number, quotient : Number, carry : Word]
  BY DividingIs DEF Dividing
<1>2. w \in Int /\ Modulus \in Int /\ Value(x) \in Int /\ c \in Int
  BY <1>1, BaseType, ValueType DEF Word
<1>3. CASE i = 4
  <2>1. next = [st EXCEPT !.carry = w] /\ i = NUM_WORDS
    BY <1>3, WidthType, Zenon DEF SetDigit
  <2>2. /\ next \in Dividing /\ next.quotient = st.quotient /\ next.dividend = x
        /\ next.carry = w
    <3> HIDE DEF next
    <3> QED
      BY <1>1, <2>1 DEF Dividing
  <2> HIDE DEF next, x, c
  <2>3. Digit(next, i) = w /\ Digit(st, i) = c
    BY <2>1, <2>2, Zenon DEF Digit, c
  <2>4. ASSUME NEW k \in 0 .. 4, k # i PROVE Digit(next, k) = Digit(st, k)
    <3>1. k # NUM_WORDS
      BY <2>1, <2>4
    <3> QED
      BY <2>2, <3>1, Zenon DEF Digit, x
  <2>5. Rest(next) = Value(x) + Modulus * w /\ Rest(st) = Value(x) + Modulus * c
    BY <2>2, Zenon DEF Rest, x, c
  <2>6. Weight(i) = Modulus
    BY <1>3, Weights
  <2>7. Value(x) + Modulus * w = (Value(x) + Modulus * c) + (w - c) * Modulus
    <3> DEFINE M == Modulus
               v == Value(x)
    <3>1. M \in Int /\ v \in Int
      BY <1>2
    <3> HIDE DEF M, v
    <3>2. (w - c) * M = M * w - M * c /\ M * w \in Int /\ M * c \in Int
      BY <1>2, <3>1
    <3>3. v + M * w = (v + M * c) + (w - c) * M
      BY <3>1, <3>2
    <3> QED
      BY <3>3 DEF M, v
  <2> QED
    BY <2>2, <2>3, <2>4, <2>5, <2>6, <2>7, Zenon DEF next, Replaced
<1>4. CASE i # 4
  <2> DEFINE y == [x EXCEPT ![i] = w]
  <2>1. i \in Index /\ i # NUM_WORDS
    BY <1>4, WidthType
  <2>2. next = [st EXCEPT !.dividend[i] = w]
    BY <2>1, Zenon DEF SetDigit
  <2>3. /\ y \in Number /\ y[i] = w /\ (\A k \in Index \ {i} : y[k] = x[k])
        /\ Value(y) = Value(x) + (w - x[i]) * Weight(i)
    BY <1>1, <2>1, WordReplaced
  <2>4. /\ next \in Dividing /\ next.quotient = st.quotient /\ next.dividend = y
        /\ next.carry = c
    <3>1. y \in Number
      BY <2>3
    <3>2. next = [st EXCEPT !.dividend = y]
      <4> HIDE DEF next
      <4> QED
        BY <1>1, <2>2
    <3> HIDE DEF next, y
    <3> QED
      BY <1>1, <3>1, <3>2 DEF Dividing
  <2> HIDE DEF next, y
  <2>5. Digit(next, i) = w /\ Digit(st, i) = x[i]
    BY <2>1, <2>3, <2>4, Zenon DEF Digit
  <2>6. ASSUME NEW k \in 0 .. 4, k # i PROVE Digit(next, k) = Digit(st, k)
    <3>1. CASE k = NUM_WORDS
      BY <2>4, <3>1, Zenon DEF Digit
    <3>2. CASE k # NUM_WORDS
      <4>1. k \in Index \ {i}
        BY <2>6, <3>2, WidthType
      <4>2. y[k] = x[k]
        BY <2>3, <4>1
      <4> QED
        BY <2>4, <3>2, <4>2, Zenon DEF Digit
    <3> QED
      BY <3>1, <3>2
  <2>7. Rest(next) = Value(y) + Modulus * c /\ Rest(st) = Value(x) + Modulus * c
    BY <2>4, Zenon DEF Rest
  <2>8. Value(y) + Modulus * c = (Value(x) + Modulus * c) + (w - x[i]) * Weight(i)
    <3> DEFINE v == Value(x)
               p == Modulus * c
               q == (w - x[i]) * Weight(i)
    <3>1. v \in Int /\ p \in Int /\ q \in Int
      <4>1. x[i] \in Int /\ Weight(i) \in Int
        BY <1>1, <2>1, WordIs, Weights
      <4>2. w - x[i] \in Int
        BY <1>2, <4>1
      <4> QED
        BY <1>2, <4>1, <4>2
    <3> HIDE DEF v, p, q
    <3>2. (v + q) + p = (v + p) + q
      BY <3>1
    <3> QED
      BY <2>3, <3>2, Zenon DEF v, p, q
  <2> QED
    BY <2>4, <2>5, <2>6, <2>7, <2>8, Zenon DEF next, Replaced
<1> QED
  BY <1>3, <1>4

\* The words above place m are 0.
Clear(st, m) == \A k \in 0 .. 4 : k > m => Digit(st, k) = 0

\* Words below place m, and the one at place m.
LEMMA RestIs ==
  ASSUME NEW st \in Dividing, NEW m \in 0 .. 4, Clear(st, m)
  PROVE  Rest(st) = Low(st.dividend, m) + Digit(st, m) * Weight(m)
<1> DEFINE x == st.dividend
           c == st.carry
<1>1. x \in Number /\ c \in Nat /\ Modulus \in Nat /\ Value(x) \in Nat
  BY DividingIs, ValueType, BaseType
<1>2. Rest(st) = Value(x) + Modulus * c
  BY Zenon DEF Rest
<1>3. CASE m = 4
  <2>1. Digit(st, m) = c /\ Weight(m) = Modulus /\ Low(x, m) = Value(x)
    BY <1>1, <1>3, Weights, LowIs, WidthType DEF Digit
  <2> HIDE DEF x, c
  <2>2. Modulus * c = c * Modulus
    BY <1>1
  <2> QED
    BY <1>2, <2>1, <2>2, Zenon DEF x
<1>4. CASE m # 4
  <2>1. m \in Index /\ m # NUM_WORDS /\ m + 1 \in 0 .. 4
    BY <1>4, WidthType
  <2>2. Digit(st, m) = x[m]
    BY <2>1, Zenon DEF Digit
  <2>3. c = 0
    <3>1. Digit(st, 4) = 0
      BY <1>4 DEF Clear
    <3> QED
      BY <3>1, WidthType DEF Digit
  <2>4. ASSUME NEW i \in Index, i >= m + 1 PROVE x[i] = 0
    <3>1. i \in 0 .. 4 /\ i > m /\ i # NUM_WORDS
      BY <2>4, WidthType
    <3>2. Digit(st, i) = 0
      BY <3>1 DEF Clear
    <3> QED
      BY <3>1, <3>2, Zenon DEF Digit
  <2>5. Low(x, m + 1) = Value(x)
    BY <1>1, <2>1, <2>4, LowWhole
  <2>6. Low(x, m + 1) = Low(x, m) + x[m] * Weight(m)
    BY <1>1, <2>1, LowIs, WidthType
  <2> HIDE DEF x, c
  <2>7. Value(x) + Modulus * c = Value(x)
    BY <1>1, <2>3
  <2> QED
    BY <1>2, <2>2, <2>5, <2>6, <2>7, Zenon DEF x
<1> QED
  BY <1>3, <1>4

\* The word at place m decides how large the five words can be.
LEMMA RestBelow ==
  ASSUME NEW st \in Dividing, NEW m \in 0 .. 4, Clear(st, m)
  PROVE  Rest(st) < Base * Weight(m)
<1> DEFINE l == Low(st.dividend, m)
           h == Digit(st, m)
           W == Weight(m)
           B == Base
<1>1. Rest(st) = l + h * W
  BY RestIs
<1>2. l \in Nat /\ l < W /\ h \in Nat /\ h < B /\ W \in Nat /\ B \in Nat
  BY DividingIs, LowIs, DigitType, Weights, BaseType
<1> HIDE DEF l, h, W, B
<1>3. l + h * W < B * W
  <2>1. h + 1 <= B
    BY <1>2
  <2>2. (h + 1) * W <= B * W /\ (h + 1) * W = h * W + W
    BY <1>2, <2>1
  <2>3. h * W \in Int /\ B * W \in Int
    BY <1>2
  <2> QED
    BY <1>2, <2>2, <2>3
<1> QED
  BY <1>1, <1>3, Zenon DEF W, B

\* Five words that are worth less than the weight of place m are 0 from there on.
LEMMA RestClears ==
  ASSUME NEW st \in Dividing, NEW m \in 0 .. 3, Rest(st) < Weight(m + 1)
  PROVE  Clear(st, m)
<1> DEFINE x == st.dividend
           c == st.carry
           v == Value(x)
           M == Modulus
           W == Weight(m + 1)
<1>1. m + 1 \in 0 .. 4 /\ m + 1 <= 4 /\ 4 \in 0 .. 4
  OBVIOUS
<1>2. x \in Number /\ c \in Nat /\ M \in Nat \ {0} /\ v \in Nat /\ W \in Nat
  BY <1>1, DividingIs, ValueType, BaseType, Weights
<1>3. W <= M
  BY <1>1, Weights, WeightsGrow
<1>4. v + M * c < W
  BY Zenon DEF Rest
<1>5. c = 0 /\ v < W
  <2> HIDE DEF x, c, v, M, W
  <2>1. M * c \in Nat
    BY <1>2
  <2>2. c > 0 => M * c >= M
    BY <1>2
  <2> QED
    BY <1>2, <1>3, <1>4, <2>1, <2>2
<1>6. \A i \in Index : i >= m + 1 => x[i] = 0
  BY <1>1, <1>2, <1>5, FitsValue
<1> SUFFICES ASSUME NEW k \in 0 .. 4, k > m PROVE Digit(st, k) = 0
  BY DEF Clear
<1>7. CASE k = NUM_WORDS
  BY <1>5, <1>7, Zenon DEF Digit
<1>8. CASE k # NUM_WORDS
  <2>1. k \in Index /\ k >= m + 1
    BY <1>8, WidthType
  <2>2. x[k] = 0
    BY <1>6, <2>1
  <2> QED
    BY <1>8, <2>2, Zenon DEF Digit
<1> QED
  BY <1>7, <1>8

-----------------------------------------------------------------------------
\* The digit that is guessed from the highest words.

LEMMA GreatestIs ==
  ASSUME NEW N \in Nat, NEW T, T \subseteq 0 .. N, T # {}
  PROVE  Max(T) \in T /\ \A y \in T : y <= Max(T)
<1> DEFINE S == {N - t : t \in T}
<1>1. S \in SUBSET Nat /\ S # {}
  <2>1. ASSUME NEW t \in T PROVE N - t \in Nat
    BY <2>1
  <2> QED
    BY <2>1
<1>2. PICK s \in S : \A u \in S : s <= u
  BY <1>1, LeastElement
<1>3. PICK x \in T : s = N - x
  BY <1>2
<1>4. ASSUME NEW y \in T PROVE x >= y
  <2>1. s <= N - y
    BY <1>2
  <2>2. x \in 0 .. N /\ y \in 0 .. N
    BY <1>3, Zenon
  <2> QED
    BY <1>3, <2>1, <2>2
<1>5. \E z \in T : \A y \in T : z >= y
  BY <1>4
<1>6. Max(T) = CHOOSE z \in T : \A y \in T : z >= y
  BY Zenon DEF Max
<1>7. Max(T) \in T /\ \A y \in T : Max(T) >= y
  BY <1>5, <1>6, Zenon
<1> DEFINE m == Max(T)
<1> HIDE DEF m
<1>8. m \in T /\ \A y \in T : m >= y
  BY <1>7 DEF m
<1>9. \A y \in T : y <= m
  BY <1>8
<1> QED
  BY <1>8, <1>9 DEF m

LEMMA LeastIs ==
  ASSUME NEW T \in SUBSET Nat, T # {}
  PROVE  Min(T) \in T /\ \A y \in T : Min(T) <= y
<1>1. \E x \in T : \A y \in T : x <= y
  BY LeastElement
<1>2. Min(T) = CHOOSE z \in T : \A y \in T : z =< y
  BY Zenon DEF Min
<1> QED
  BY <1>1, <1>2, Zenon

LEMMA SmallIs ==
  ASSUME NEW n \in Nat
  PROVE  /\ hi(n) = 0 <=> n < Base
         /\ lo(n) \in Nat /\ lo(n) <= n
         /\ n < Base => lo(n) = n
<1> DEFINE B == Base
           l == lo(n)
           h == hi(n)
<1>1. l \in Nat /\ l < B /\ h \in Int /\ n = l + B * h /\ B \in Nat /\ B >= 2
  <2>1. n \in Int
    OBVIOUS
  <2>2. B \in Nat /\ B >= 2
    BY BaseType
  <2> QED
    BY <2>1, <2>2, LoHi, Zenon
<1>2. n < B => l = n /\ h = 0
  BY LoOfWord
<1> HIDE DEF B, l, h
<1>3. h >= 0
  <2>1. ASSUME h <= -1 PROVE FALSE
    <3>1. B * h <= -B /\ B * h \in Int
      BY <1>1, <2>1
    <3> QED
      BY <1>1, <3>1
  <2> QED
    BY <1>1, <2>1
<1>4. B * h \in Nat
  BY <1>1, <1>3
<1>5. h = 0 => n < B
  BY <1>1
<1>6. l <= n
  BY <1>1, <1>4
<1> QED
  BY <1>1, <1>2, <1>5, <1>6 DEF B, l, h

\* Where the loop stops; the remainder of q is d0 - d1 * q.
StopsAt(q, d0, d1, u0, d2) ==
    \/ q < d0 \div d1 /\ d0 - d1 * q >= Base
    \/ q < Base /\ q * d2 <= lo(d0 - d1 * q) * Base + u0

Guess(d0, d1, u0, d2) == Max({q \in 0 .. d0 \div d1 : StopsAt(q, d0, d1, u0, d2)})

\* The first guess is at most two too large.
LEMMA FirstGuess ==
  ASSUME NEW d0 \in Nat, NEW d1 \in Nat \ {0}, Base <= 2 * d1, d0 < (d1 + 1) * Base
  PROVE  /\ d0 \div d1 \in Nat /\ d0 \div d1 <= Base + 1
         /\ d1 * (d0 \div d1) <= d0 /\ d0 - d1 * (d0 \div d1) < d1
<1> DEFINE q == d0 \div d1
           r == d0 % d1
           B == Base
<1>1. d0 = d1 * q + r /\ q \in Nat /\ r \in 0 .. d1 - 1
  BY Remainder
<1>2. B \in Nat /\ B <= 2 * d1 /\ d0 < (d1 + 1) * B
  BY BaseType
<1> HIDE DEF q, r, B
<1>3. d1 * q \in Nat /\ r \in Nat /\ r < d1
  BY <1>1
<1>4. ASSUME q >= B + 2 PROVE FALSE
  <2>1. d1 * q >= d1 * (B + 2) /\ d1 * (B + 2) = d1 * B + 2 * d1 /\ (d1 + 1) * B = d1 * B + B
    BY <1>1, <1>2, <1>4
  <2>2. d1 * B \in Nat
    BY <1>2
  <2> QED
    BY <1>1, <1>2, <1>3, <2>1, <2>2
<1>5. q <= B + 1
  BY <1>1, <1>2, <1>4
<1> QED
  BY <1>1, <1>3, <1>5 DEF q, B

LEMMA RemainderIs ==
  ASSUME NEW d0 \in Nat, NEW d1 \in Nat \ {0}, NEW q0 \in Nat, d1 * q0 <= d0,
         NEW q \in 0 .. q0
  PROVE  d0 - d1 * q \in Nat /\ (d0 - d1 * q0) + (q0 - q) * d1 = d0 - d1 * q
<1>1. d1 * q <= d1 * q0 /\ d1 * q \in Nat /\ d1 * q0 \in Nat
  OBVIOUS
<1> QED
  BY <1>1

LEMMA GuessGap ==
  ASSUME NEW d0 \in Int, NEW d1 \in Int, NEW u0 \in Int, NEW d2 \in Int, NEW q \in Int,
         NEW B \in Int
  PROVE  /\ d1 * B + d2 \in Int /\ q * (d1 * B + d2) \in Int /\ d0 * B + u0 \in Int
         /\ (d0 - d1 * q) * B + u0 \in Int /\ q * d2 \in Int
         /\ (d0 * B + u0) - q * (d1 * B + d2) = ((d0 - d1 * q) * B + u0) - q * d2
<1> DEFINE a == d1 * B
           b == d1 * q
           c == a * q
           e == d0 * B
           f == q * d2
<1>1. a \in Int /\ b \in Int /\ c \in Int /\ e \in Int /\ f \in Int
  <2>1. a \in Int
    OBVIOUS
  <2> HIDE DEF a
  <2> QED
    BY <2>1
<1>2. (d0 - b) * B = e - b * B /\ b * B = c
  OBVIOUS
<1>3. q * (a + d2) = c + f
  <2> HIDE DEF a
  <2> QED
    BY <1>1
<1> HIDE DEF a, b, c, e, f
<1>4. /\ a + d2 \in Int /\ q * (a + d2) \in Int /\ e + u0 \in Int
      /\ (d0 - b) * B + u0 \in Int
      /\ (e + u0) - q * (a + d2) = ((d0 - b) * B + u0) - f
  BY <1>1, <1>2, <1>3
<1> QED
  BY <1>1, <1>4, Zenon DEF a, b, e, f

\* The digit that the two highest words of the divisor stand for.
TopDigit(q, x, y) ==
    /\ q \in Nat /\ q < Base /\ q * y <= x
    /\ q + 1 < Base => x < (q + 1) * y

LEMMA GuessIs ==
  ASSUME NEW d0 \in Nat, NEW d1 \in Nat \ {0}, NEW u0 \in Nat, u0 < Base,
         NEW d2 \in Nat, d2 < Base, Base <= 2 * d1, d1 < Base, d0 < (d1 + 1) * Base
  PROVE  TopDigit(Guess(d0, d1, u0, d2), d0 * Base + u0, d1 * Base + d2)
<1> DEFINE B == Base
           q0 == d0 \div d1
           T == {q \in 0 .. q0 : StopsAt(q, d0, d1, u0, d2)}
           Q == Guess(d0, d1, u0, d2)
           x == d0 * B + u0
           y == d1 * B + d2
           r(q) == d0 - d1 * q
<1>1. B \in Nat /\ B >= 2
  BY BaseType
<1>2. q0 \in Nat /\ d1 * q0 <= d0 /\ r(q0) < d1 /\ r(q0) \in Int
  BY FirstGuess
<1>3. ASSUME NEW q \in 0 .. q0 PROVE r(q) \in Nat
  BY <1>2, <1>3, RemainderIs
<1>4. ASSUME NEW q \in 0 .. q0 PROVE x - q * y = (r(q) * B + u0) - q * d2
  BY <1>1, <1>2, <1>4, GuessGap
<1>5. 0 \in T
  <2>1. 0 \in 0 .. q0 /\ 0 < B /\ 0 * d2 = 0
    BY <1>1, <1>2
  <2>2. r(0) \in Nat
    BY <1>3, <2>1
  <2> HIDE DEF r
  <2>3. lo(r(0)) \in Nat
    BY <2>2, SmallIs
  <2>4. 0 <= lo(r(0)) * B + u0
    <3>1. lo(r(0)) * B \in Nat
      BY <1>1, <2>3
    <3> QED
      BY <3>1
  <2>5. StopsAt(0, d0, d1, u0, d2)
    BY <2>1, <2>4, Zenon DEF StopsAt, r
  <2> QED
    BY <2>1, <2>5
<1>6. Q \in T /\ \A q \in T : q <= Q
  <2>1. T \subseteq 0 .. q0 /\ T # {} /\ Q = Max(T)
    BY <1>5, Zenon DEF Guess
  <2> HIDE DEF T, q0, Q
  <2> QED
    BY <1>2, <2>1, GreatestIs
<1>7. Q \in 0 .. q0 /\ Q \in Nat /\ StopsAt(Q, d0, d1, u0, d2)
  <2>1. Q \in 0 .. q0 /\ StopsAt(Q, d0, d1, u0, d2)
    BY <1>6, Zenon
  <2> HIDE DEF Q, q0
  <2> QED
    BY <1>2, <2>1
<1>8. \/ Q < q0 /\ r(Q) >= B
      \/ Q < B /\ Q * d2 <= lo(r(Q)) * B + u0
  BY <1>7, Zenon DEF StopsAt
<1>9. /\ r(Q) \in Nat /\ lo(r(Q)) \in Nat /\ lo(r(Q)) <= r(Q)
      /\ x - Q * y = (r(Q) * B + u0) - Q * d2
  <2>1. r(Q) \in Nat /\ x - Q * y = (r(Q) * B + u0) - Q * d2
    BY <1>3, <1>4, <1>7
  <2> HIDE DEF r
  <2> QED
    BY <2>1, SmallIs
<1> HIDE DEF Q, T
<1>10. Q < B
  <2>1. ASSUME Q >= B, r(Q) >= B PROVE FALSE
    <3>1. d1 * Q >= d1 * B /\ d1 * Q \in Nat /\ d1 * B \in Nat
      BY <1>1, <1>7, <2>1
    <3>2. (d1 + 1) * B = d1 * B + B
      BY <1>1
    <3> QED
      BY <1>1, <2>1, <3>1, <3>2
  <2> HIDE DEF r
  <2> QED
    BY <1>1, <1>7, <1>8, <2>1
<1>11. x \in Int /\ y \in Int /\ Q * y \in Int /\ (Q + 1) * y \in Int
  <2>1. x \in Int /\ y \in Int
    BY <1>1
  <2> HIDE DEF x, y
  <2> QED
    BY <1>7, <2>1
<1>12. Q * y <= x
  <2> DEFINE R == r(Q)
             l == lo(R)
             p == Q * d2
  <2>1. p <= R * B + u0 /\ p \in Int /\ R * B \in Int
    <3>1. R \in Nat /\ l \in Nat /\ l <= R
      BY <1>9
    <3>2. R >= B \/ p <= l * B + u0
      BY <1>8
    <3> HIDE DEF R, l
    <3>3. p \in Int /\ R * B \in Int /\ l * B \in Int
      BY <1>1, <1>7, <3>1
    <3>4. CASE R >= B
      <4>1. p <= B * B
        BY <1>1, <1>7, <1>10
      <4>2. B * B <= R * B /\ B * B \in Int
        BY <1>1, <3>1, <3>4
      <4> HIDE DEF p
      <4> QED
        BY <3>3, <4>1, <4>2
    <3>5. CASE p <= l * B + u0
      <4>1. l * B <= R * B
        BY <1>1, <3>1
      <4> HIDE DEF p
      <4> QED
        BY <3>3, <3>5, <4>1
    <3> QED
      BY <3>2, <3>3, <3>4, <3>5
  <2>2. x - Q * y = (R * B + u0) - p
    BY <1>9
  <2> DEFINE z == Q * y
  <2>3. z \in Int /\ x \in Int
    BY <1>11
  <2> HIDE DEF x, y, z, R, p
  <2>4. z <= x
    BY <2>1, <2>2, <2>3 DEF z
  <2> QED
    BY <2>4 DEF z
<1>13. ASSUME Q + 1 < B PROVE x < (Q + 1) * y
  <2> DEFINE q == Q + 1
  <2>1. q \in Nat /\ q < B
    BY <1>7, <1>13
  <2>2. CASE Q = q0
    <3>1. d0 + 1 <= d1 * q
      <4>1. d1 * q = d1 * Q + d1 /\ d1 * Q \in Int
        BY <1>7
      <4>2. d0 - d1 * Q < d1
        BY <1>2, <2>2, Zenon
      <4> QED
        BY <4>1, <4>2
    <3>2. x < (d0 + 1) * B
      <4>1. (d0 + 1) * B = d0 * B + B /\ d0 * B \in Int
        BY <1>1
      <4> QED
        BY <1>1, <4>1
    <3>3. (d0 + 1) * B <= (d1 * q) * B
      <4> DEFINE e == d1 * q
      <4>1. e \in Int
        BY <2>1
      <4> HIDE DEF e, q
      <4>2. d0 + 1 <= e
        BY <3>1 DEF e
      <4>3. (d0 + 1) * B <= e * B
        BY <1>1, <4>1, <4>2
      <4> QED
        BY <4>3 DEF e
    <3>4. (d1 * q) * B <= q * y
      <4>1. q * y = (d1 * q) * B + q * d2
        <5>1. q \in Int /\ B \in Int
          BY <1>1, <2>1
        <5> HIDE DEF q, B
        <5>2. q * (d1 * B + d2) = q * (d1 * B) + q * d2
          <6> DEFINE a == d1 * B
          <6>1. a \in Int
            BY <5>1
          <6> HIDE DEF a
          <6>2. q * (a + d2) = q * a + q * d2
            BY <5>1, <6>1
          <6> QED
            BY <6>2 DEF a
        <5>3. q * (d1 * B) = (d1 * q) * B
          BY <5>1
        <5> QED
          BY <5>2, <5>3, Zenon
      <4>2. q * d2 \in Nat
        BY <2>1
      <4> DEFINE a == (d1 * q) * B
                 b == q * d2
                 c == q * y
      <4>3. a \in Int
        <5>1. d1 * q \in Int
          BY <2>1
        <5> QED
          BY <1>1, <5>1
      <4>4. c = a + b /\ b \in Nat
        BY <4>1, <4>2
      <4> HIDE DEF a, b, c
      <4>5. a <= c
        BY <4>3, <4>4
      <4> QED
        BY <4>5 DEF a, c
    <3> DEFINE a == (d1 * q) * B
               b == (d0 + 1) * B
               c == q * y
    <3>5. a \in Int /\ b \in Int /\ c \in Int /\ x \in Int
      <4>1. d1 * q \in Int
        BY <2>1
      <4> QED
        BY <1>1, <1>11, <4>1
    <3>6. x < b /\ b <= a /\ a <= c
      BY <3>2, <3>3, <3>4
    <3> HIDE DEF a, b, c, x
    <3>7. x < c
      BY <3>5, <3>6
    <3> QED
      BY <3>7 DEF c
  <2>3. CASE Q # q0
    <3> DEFINE R == r(q)
               p == q * d2
    <3>1. q \in 0 .. q0
      BY <1>2, <1>7, <2>3
    <3>2. q \notin T
      <4>1. q > Q
        BY <1>7
      <4> HIDE DEF q
      <4> QED
        BY <1>6, <1>7, <2>1, <4>1
    <3>3. ~StopsAt(q, d0, d1, u0, d2)
      BY <3>1, <3>2, Zenon DEF T
    <3>4. R \in Nat /\ x - q * y = (R * B + u0) - p
      <4>1. r(q) \in Nat
        BY <1>3, <3>1
      <4>2. x - q * y = (r(q) * B + u0) - q * d2
        BY <1>4, <3>1
      <4> QED
        BY <4>1, <4>2
    <3>5. ~(q < q0 /\ R >= B) /\ ~(p <= lo(R) * B + u0)
      BY <2>1, <3>3, Zenon DEF StopsAt
    <3>6. R < B
      <4>1. CASE q < q0
        <5> HIDE DEF R
        <5> QED
          BY <1>1, <3>4, <3>5, <4>1
      <4>2. CASE q = q0
        <5>1. R < d1
          BY <1>2, <4>2, Zenon
        <5> HIDE DEF R
        <5> QED
          BY <1>1, <3>4, <5>1
      <4> QED
        BY <1>2, <3>1, <4>1, <4>2
    <3>7. lo(R) = R
      <4> HIDE DEF R
      <4> QED
        BY <3>4, <3>6, SmallIs
    <3>8. p \in Int /\ R * B \in Int
      <4>1. p \in Int
        BY <2>1
      <4> HIDE DEF R
      <4> QED
        BY <1>1, <3>4, <4>1
    <3> DEFINE c == q * y
    <3>9. c \in Int /\ x \in Int /\ x - c = (R * B + u0) - p /\ ~(p <= R * B + u0)
      BY <1>11, <3>4, <3>5, <3>7
    <3> HIDE DEF c, p, R, x
    <3>10. x < c
      BY <3>8, <3>9
    <3> QED
      BY <3>10 DEF c
  <2> QED
    BY <2>2, <2>3
<1> QED
  BY <1>7, <1>10, <1>12, <1>13, Zenon DEF TopDigit, x, y, B, Q

\* The products of the loop never wrap.
LEMMA EstimateIs ==
  ASSUME NEW st \in Dividing, NEW n \in 2 .. 4, NEW j \in 0 .. 2, j + n <= 4,
         NEW v \in Number, Base <= 2 * v[n - 1],
         hi_lo(Digit(st, j + n), st.dividend[j + n - 1]) < (v[n - 1] + 1) * Base
  PROVE  EstimateQuotient(st, j, n, v)
            = Guess(hi_lo(Digit(st, j + n), st.dividend[j + n - 1]), v[n - 1],
                    st.dividend[j + n - 2], v[n - 2])
<1> DEFINE d0 == hi_lo(Digit(st, j + n), st.dividend[j + n - 1])
           d1 == v[n - 1]
           u0 == st.dividend[j + n - 2]
           d2 == v[n - 2]
           qhat == d0 \div d1
           Rhat(q) == d0 - d1 * qhat + (qhat - q) * d1
           StopsHere(q) ==
             \/ q < qhat /\ hi(Rhat(q)) # 0
             \/ /\ hi(q) = 0
                /\ Wrapped(qhat * d2) - (qhat - q) * d2 <= hi_lo(lo(Rhat(q)), u0)
<1>1. EstimateQuotient(st, j, n, v) = Max({q \in 0 .. qhat : StopsHere(q)})
  BY Zenon DEF EstimateQuotient
<1>2. /\ j + n \in 0 .. 4 /\ j + n - 1 \in Index /\ j + n - 2 \in Index
      /\ n - 1 \in Index /\ n - 2 \in Index
  BY WidthType
<1>3. d1 \in Nat \ {0} /\ u0 \in Nat /\ d2 \in Nat /\ d2 < Base /\ Base \in Nat /\ Base >= 2
  <2>1. st.dividend \in Number
    BY DividingIs
  <2>2. d1 \in Nat /\ u0 \in Nat /\ d2 \in Nat /\ d2 < Base
    BY <1>2, <2>1, WordIs
  <2>3. Base \in Nat /\ Base >= 2
    BY BaseType
  <2> HIDE DEF d1
  <2>4. Base <= 2 * d1
    BY DEF d1
  <2>5. d1 # 0
    BY <2>2, <2>3, <2>4
  <2> QED
    BY <2>2, <2>3, <2>5
<1>4. d0 \in Nat
  <2>1. Digit(st, j + n) \in Nat
    BY <1>2, DigitType
  <2>2. st.dividend[j + n - 1] \in Nat
    BY <1>2, DividingIs, WordIs
  <2> DEFINE g == Digit(st, j + n)
             h == st.dividend[j + n - 1]
  <2> HIDE DEF g, h
  <2>3. g * Base + h \in Nat
    <3>1. g \in Nat /\ h \in Nat
      BY <2>1, <2>2 DEF g, h
    <3> QED
      BY <1>3, <3>1
  <2> QED
    BY <2>3, Zenon DEF hi_lo, g, h
<1>5. qhat \in Nat /\ qhat <= Base + 1 /\ d1 * qhat <= d0
  <2>1. Base <= 2 * d1 /\ d0 < (d1 + 1) * Base
    OBVIOUS
  <2> HIDE DEF d0, d1
  <2> QED
    BY <1>3, <1>4, <2>1, FirstGuess
<1> HIDE DEF d0, d1, u0, d2, qhat
<1>6. Wrapped(qhat * d2) = qhat * d2
  <2>1. qhat * d2 \in Nat
    BY <1>3, <1>5
  <2>2. qhat * d2 <= (Base + 1) * d2 /\ (Base + 1) * d2 <= (Base + 1) * (Base - 1)
    BY <1>3, <1>5
  <2>3. (Base + 1) * (Base - 1) = Base * Base - 1 /\ Base * Base \in Nat \ {0}
    BY <1>3
  <2> DEFINE p == qhat * d2
             M == Base * Base
  <2>4. p <= M - 1
    <3>1. (Base + 1) * d2 \in Int /\ (Base + 1) * (Base - 1) \in Int
      BY <1>3
    <3> QED
      BY <2>1, <2>2, <2>3, <3>1
  <2> HIDE DEF p, M
  <2>5. p % M = p
    BY <2>1, <2>3, <2>4, BelowDivisor DEF p, M
  <2> QED
    BY <2>5, Zenon DEF Wrapped, p, M
<1>7. ASSUME NEW q \in 0 .. qhat PROVE StopsHere(q) <=> StopsAt(q, d0, d1, u0, d2)
  <2> DEFINE r == d0 - d1 * q
  <2>1. r \in Nat /\ Rhat(q) = r
    BY <1>3, <1>4, <1>5, <1>7, RemainderIs
  <2>2. q \in Nat
    BY <1>5
  <2>3. Wrapped(qhat * d2) - (qhat - q) * d2 = q * d2
    <3>1. qhat * d2 - (qhat - q) * d2 = q * d2
      BY <1>3, <1>5, <2>2
    <3> QED
      BY <1>6, <3>1, Zenon
  <2> HIDE DEF r, Rhat
  <2>4. (hi(r) = 0 <=> r < Base) /\ (hi(q) = 0 <=> q < Base)
    BY <2>1, <2>2, SmallIs
  <2>5. hi(r) # 0 <=> r >= Base
    BY <1>3, <2>1, <2>4
  <2>6. StopsAt(q, d0, d1, u0, d2) <=> \/ q < qhat /\ r >= Base
                                       \/ q < Base /\ q * d2 <= lo(r) * Base + u0
    BY Zenon DEF StopsAt, r, qhat
  <2>7. hi_lo(lo(Rhat(q)), u0) = lo(r) * Base + u0
    BY <2>1, Zenon DEF hi_lo
  <2> QED
    BY <2>1, <2>3, <2>4, <2>5, <2>6, <2>7, Zenon
<1> HIDE DEF StopsHere
<1>8. {q \in 0 .. qhat : StopsHere(q)} = {q \in 0 .. qhat : StopsAt(q, d0, d1, u0, d2)}
  BY <1>7
<1> QED
  BY <1>1, <1>8, Zenon DEF Guess, qhat, d0, d1, u0, d2

\* What a digit that was guessed from the highest words is for all of them: it may be
\* one too large, but not if the divisor has no other words.
DigitBounds(q, u, d, m) ==
    /\ u < (q + 1) * d
    /\ q * d <= u + d
    /\ m = 0 => q * d <= u

LEMMA TopDigitBounds ==
  ASSUME NEW l \in Nat, NEW m \in Nat, NEW P \in Nat, NEW x \in Nat, NEW y \in Nat, NEW q,
         l < P, m < P, Base <= y, TopDigit(q, x, y), l + x * P < Base * (m + y * P)
  PROVE  DigitBounds(q, l + x * P, m + y * P, m)
<1> DEFINE B == Base
           X == x * P
           Y == y * P
           u == l + X
           d == m + Y
<1>1. /\ B \in Nat /\ B >= 2 /\ B <= y /\ q \in Nat /\ q < B /\ q * y <= x
      /\ q + 1 < B => x < (q + 1) * y
  BY BaseType DEF TopDigit
<1> HIDE DEF B
<1>2. X \in Nat /\ Y \in Nat
  OBVIOUS
<1>3. q * Y <= X /\ q * Y \in Nat
  <2>1. q * Y = (q * y) * P
    BY <1>1
  <2> DEFINE e == q * y
  <2>2. e \in Nat /\ e <= x
    BY <1>1
  <2> HIDE DEF e
  <2>3. e * P <= X /\ e * P \in Nat
    BY <2>2
  <2> QED
    BY <2>1, <2>3 DEF e
<1>4. q * m <= Y /\ q * m \in Nat /\ (m = 0 => q * m = 0)
  <2>1. q * m <= B * P
    <3>1. q * m <= B * m /\ B * m <= B * P
      BY <1>1
    <3>2. q * m \in Int /\ B * m \in Int /\ B * P \in Int
      BY <1>1
    <3> QED
      BY <3>1, <3>2
  <2>2. B * P <= Y
    BY <1>1
  <2>3. q * m \in Nat /\ B * P \in Nat /\ (m = 0 => q * m = 0)
    BY <1>1
  <2> HIDE DEF Y
  <2> QED
    BY <1>2, <2>1, <2>2, <2>3
<1>5. q * d = q * m + q * Y /\ q * d \in Int
  <2> HIDE DEF Y
  <2> QED
    BY <1>1, <1>2
<1>6. q * d <= u + d /\ (m = 0 => q * d <= u)
  <2> DEFINE e == q * d
             f == q * m
             g == q * Y
  <2>1. e = f + g /\ e \in Int /\ f \in Nat /\ g \in Nat /\ f <= Y /\ g <= X /\ (m = 0 => f = 0)
    BY <1>3, <1>4, <1>5
  <2> HIDE DEF e, f, g, X, Y
  <2>2. e <= u + d /\ (m = 0 => e <= u)
    BY <1>2, <2>1
  <2> QED
    BY <2>2 DEF e
<1>7. u < (q + 1) * d
  <2>1. CASE q + 1 < B
    <3> DEFINE r == q + 1
    <3>1. x + 1 <= r * y /\ r \in Nat
      BY <1>1, <2>1
    <3> HIDE DEF r
    <3>2. (x + 1) * P = X + P
      OBVIOUS
    <3>3. (x + 1) * P <= (r * y) * P
      <4> DEFINE e == r * y
      <4>1. e \in Int /\ x + 1 <= e
        BY <3>1
      <4> HIDE DEF e
      <4>2. (x + 1) * P <= e * P
        BY <4>1
      <4> QED
        BY <4>2 DEF e
    <3>4. r * d = r * m + (r * y) * P /\ r * m \in Nat /\ (r * y) * P \in Int
      <4>1. (r * y) * P = r * Y
        BY <3>1
      <4>2. (r * y) * P \in Int
        <5>1. r * y \in Int
          BY <3>1
        <5> QED
          BY <5>1
      <4>3. r * m \in Nat
        BY <3>1
      <4> HIDE DEF Y
      <4>4. r * d = r * m + r * Y
        BY <1>2, <3>1
      <4> QED
        BY <4>1, <4>2, <4>3, <4>4
    <3> DEFINE e == (r * y) * P
               f == r * m
               g == r * d
    <3>5. X + P <= e /\ g = f + e /\ f \in Nat /\ e \in Int
      BY <3>2, <3>3, <3>4
    <3> HIDE DEF e, f, g, X
    <3>6. u < g
      BY <1>2, <3>5
    <3> QED
      BY <3>6, Zenon DEF g, r
  <2>2. CASE ~(q + 1 < B)
    <3>1. u < B * d
      BY DEF B
    <3>2. u \in Nat /\ d \in Nat
      BY <1>2
    <3> HIDE DEF u, d
    <3>3. B * d <= (q + 1) * d /\ B * d \in Int /\ (q + 1) * d \in Int
      BY <1>1, <2>2, <3>2
    <3> QED
      BY <3>1, <3>2, <3>3
  <2> QED
    BY <2>1, <2>2
<1> QED
  BY <1>6, <1>7, Zenon DEF DigitBounds, u, d, X, Y

\* The highest words of what is left are not more than the divisor's allow.
HeadBelow(d0, d1) == d0 < (d1 + 1) * Base

LEMMA HeadIs ==
  ASSUME NEW l \in Nat, NEW m \in Nat, NEW P \in Nat \ {0}, NEW d0 \in Nat, NEW u0 \in Nat,
         NEW d1 \in Nat, NEW d2 \in Nat, m < P, d2 < Base,
         l + (d0 * Base + u0) * P < Base * (m + (d1 * Base + d2) * P)
  PROVE  HeadBelow(d0, d1)
<1> DEFINE B == Base
           x == d0 * B + u0
           y == d1 * B + d2
           z == (d1 + 1) * B
<1>1. B \in Nat /\ B >= 2 /\ d2 < B
  BY BaseType
<1>2. l + x * P < B * (m + y * P)
  BY DEF B
<1> HIDE DEF B
<1>3. d0 * B \in Nat /\ d1 * B \in Nat /\ z \in Nat /\ z = d1 * B + B
  BY <1>1
<1>4. x \in Nat /\ y \in Nat /\ d0 * B <= x /\ y + 1 <= z
  <2> DEFINE a == d0 * B
             b == d1 * B
  <2> HIDE DEF z
  <2>1. a \in Nat /\ b \in Nat /\ z = b + B
    BY <1>3
  <2> HIDE DEF a, b
  <2>2. a + u0 \in Nat /\ b + d2 \in Nat /\ a <= a + u0 /\ (b + d2) + 1 <= z
    BY <1>1, <2>1
  <2> QED
    BY <2>2 DEF a, b
<1> SUFFICES ASSUME ~(d0 < z) PROVE FALSE
  BY Zenon DEF HeadBelow, z, B
<1>5. z * B <= x
  <2>1. z * B <= d0 * B /\ z * B \in Int
    <3> HIDE DEF z
    <3> QED
      BY <1>1, <1>3
  <2> HIDE DEF x, z
  <2> QED
    BY <1>3, <1>4, <2>1
<1> HIDE DEF x, y, z
<1>6. B * (m + y * P) <= (z * P) * B
  <2>1. m + y * P <= z * P
    <3>1. (y + 1) * P = y * P + P /\ (y + 1) * P <= z * P
      BY <1>3, <1>4
    <3>2. y * P \in Int /\ z * P \in Int
      BY <1>3, <1>4
    <3> QED
      BY <3>1, <3>2
  <2> DEFINE a == m + y * P
             b == z * P
  <2>2. a \in Int /\ b \in Int /\ a <= b
    <3>1. y * P \in Int /\ z * P \in Int
      BY <1>3, <1>4
    <3> QED
      BY <2>1, <3>1
  <2> HIDE DEF a, b
  <2>3. B * a <= b * B
    BY <1>1, <2>2
  <2> QED
    BY <2>3 DEF a, b
<1>7. (z * P) * B <= x * P
  <2>1. (z * P) * B = (z * B) * P
    BY <1>1, <1>3
  <2> DEFINE e == z * B
  <2>2. e \in Int /\ e <= x
    BY <1>1, <1>3, <1>5
  <2> HIDE DEF e
  <2>3. e * P <= x * P
    BY <1>4, <2>2
  <2> QED
    BY <2>1, <2>3 DEF e
<1> DEFINE a == x * P
           b == (z * P) * B
           c == B * (m + y * P)
<1>8. a \in Int /\ b \in Int /\ c \in Int
  <2>1. z * P \in Int /\ y * P \in Int /\ x * P \in Int
    BY <1>3, <1>4
  <2>2. m + y * P \in Int
    BY <2>1
  <2> QED
    BY <1>1, <2>1, <2>2
<1>9. l + a < c /\ c <= b /\ b <= a
  BY <1>2, <1>6, <1>7
<1> HIDE DEF a, b, c
<1> QED
  BY <1>8, <1>9

\* Three words above a number.
ThreeWords(l, u, w, h, P) ==
    (l + u * P + w * (Base * P)) + h * (Base * (Base * P))
       = l + ((h * Base + w) * Base + u) * P

LEMMA ThreeWordsAre ==
  ASSUME NEW l \in Int, NEW u \in Int, NEW w \in Int, NEW h \in Int, NEW P \in Int
  PROVE  ThreeWords(l, u, w, h, P)
<1> DEFINE B == Base
           C == B * P
           D == B * C
           g == h * B + w
<1>1. B \in Int
  BY BaseType
<1> HIDE DEF B
<1>2. C \in Int /\ g \in Int
  BY <1>1
<1>3. D \in Int
  BY <1>1, <1>2
<1>4. (g * B + u) * P = g * C + u * P
  <2> HIDE DEF g
  <2>1. g * B \in Int
    BY <1>1, <1>2
  <2>2. (g * B) * P = g * C
    BY <1>1, <1>2
  <2> DEFINE e == g * B
  <2> HIDE DEF e
  <2>3. (e + u) * P = e * P + u * P
    BY <2>1 DEF e
  <2> QED
    BY <2>2, <2>3 DEF e
<1>5. g * C = h * D + w * C
  <2>1. (h * B) * C = h * D
    BY <1>1, <1>2
  <2>2. h * B \in Int
    BY <1>1
  <2> DEFINE e == h * B
  <2> HIDE DEF e, C, D
  <2>3. (e + w) * C = e * C + w * C
    BY <1>2, <2>2 DEF e
  <2> QED
    BY <2>1, <2>3 DEF e
<1> DEFINE t1 == u * P
           t2 == w * C
           t3 == h * D
           t4 == (g * B + u) * P
<1>6. t1 \in Int /\ t2 \in Int /\ t3 \in Int
  <2> HIDE DEF C, D
  <2> QED
    BY <1>2, <1>3
<1>7. t4 = (t3 + t2) + t1
  BY <1>4, <1>5, Zenon
<1> HIDE DEF t1, t2, t3, t4
<1>8. (l + t1 + t2) + t3 = l + t4
  BY <1>6, <1>7
<1> QED
  BY <1>8, Zenon DEF t1, t2, t3, t4, ThreeWords, C, D, B, g

LEMMA NextWeight ==
  ASSUME NEW m \in 0 .. 3
  PROVE  Weight(m + 1) = Base * Weight(m)
<1>1. m \in 0 .. 4 /\ 1 \in 0 .. 4 /\ 1 + m <= 4 /\ 1 + m = m + 1
  OBVIOUS
<1>2. Weight(1 + m) = Weight(1) * Weight(m)
  BY <1>1, WeightsMultiply
<1> QED
  BY <1>1, <1>2, Weights, Zenon

\* What is left, by its three highest words.
LEMMA RestTop ==
  ASSUME NEW st \in Dividing, NEW m \in 2 .. 4, Clear(st, m)
  PROVE  Rest(st) = Low(st.dividend, m - 2)
            + (hi_lo(Digit(st, m), st.dividend[m - 1]) * Base + st.dividend[m - 2])
                * Weight(m - 2)
<1> DEFINE x == st.dividend
           l == Low(x, m - 2)
           u == x[m - 2]
           w == x[m - 1]
           h == Digit(st, m)
           P == Weight(m - 2)
<1>1. /\ m \in 0 .. 4 /\ m - 1 \in 0 .. 3 /\ m - 2 \in 0 .. 3 /\ m - 1 \in Index /\ m - 2 \in Index
      /\ (m - 2) + 1 = m - 1 /\ (m - 1) + 1 = m /\ m - 2 \in 0 .. 4
  BY WidthType
<1>2. Rest(st) = Low(x, m) + h * Weight(m)
  BY <1>1, RestIs
<1>3. x \in Number
  BY DividingIs
<1>4. /\ Low(x, (m - 2) + 1) = l + u * P
      /\ Low(x, (m - 1) + 1) = Low(x, m - 1) + w * Weight(m - 1)
  BY <1>1, <1>3, LowIs
<1>5. Weight((m - 2) + 1) = Base * P /\ Weight((m - 1) + 1) = Base * Weight(m - 1)
  BY <1>1, NextWeight
<1>6. Low(x, m) = l + u * P + w * (Base * P) /\ Weight(m) = Base * (Base * P)
  BY <1>1, <1>4, <1>5, Zenon
<1>7. l \in Int /\ u \in Int /\ w \in Int /\ h \in Int /\ P \in Int
  BY <1>1, <1>3, LowIs, WordIs, DigitType, Weights
<1> HIDE DEF x, l, u, w, h, P
<1>8. ThreeWords(l, u, w, h, P)
  BY <1>7, ThreeWordsAre
<1> QED
  BY <1>2, <1>6, <1>8, Zenon DEF ThreeWords, x, l, u, w, h, P, hi_lo

\* A divisor of n words that is normalized.
Normal(v, n) ==
    /\ v \in Number /\ n \in 2 .. 4
    /\ \A i \in Index : i >= n => v[i] = 0
    /\ Base <= 2 * v[n - 1]

\* The divisor at the place of digit j.
At(v, j) == Value(v) * Weight(j)

\* The divisor at a place, by its two highest words.
LEMMA DivisorTop ==
  ASSUME NEW v, NEW n \in 2 .. 4, NEW j \in 0 .. 2, j + n <= 4, Normal(v, n)
  PROVE  /\ At(v, j) = Low(v, n - 2) * Weight(j)
                          + (v[n - 1] * Base + v[n - 2]) * Weight((j + n) - 2)
         /\ Low(v, n - 2) * Weight(j) \in Nat
         /\ Low(v, n - 2) * Weight(j) < Weight((j + n) - 2)
<1> DEFINE l == Low(v, n - 2)
           u == v[n - 2]
           w == v[n - 1]
           V == Weight(n - 2)
           W == Weight(j)
           P == Weight((j + n) - 2)
<1>1. /\ v \in Number /\ n \in 0 .. 4 /\ j \in 0 .. 4 /\ n - 2 \in 0 .. 3 /\ n - 2 \in 0 .. 4
      /\ n - 1 \in 0 .. 3 /\ n - 1 \in Index /\ n - 2 \in Index
      /\ j + (n - 2) <= 4 /\ j + (n - 2) = (j + n) - 2
      /\ (n - 2) + 1 = n - 1 /\ (n - 1) + 1 = n
  BY WidthType DEF Normal
<1>2. Value(v) = Low(v, n)
  <2>1. \A i \in Index : i >= n => v[i] = 0
    BY DEF Normal
  <2> QED
    BY <1>1, <2>1, LowWhole
<1>3. /\ Low(v, (n - 2) + 1) = l + u * V
      /\ Low(v, (n - 1) + 1) = Low(v, n - 1) + w * Weight(n - 1)
  BY <1>1, LowIs
<1>4. Weight((n - 2) + 1) = Base * V
  BY <1>1, NextWeight
<1>5. Value(v) = l + u * V + w * (Base * V)
  BY <1>1, <1>2, <1>3, <1>4, Zenon
<1>6. /\ l \in Nat /\ l < V /\ u \in Nat /\ w \in Nat /\ V \in Nat /\ W \in Nat \ {0}
      /\ Base \in Nat
  BY <1>1, LowIs, WordIs, Weights, BaseType
<1>7. P = W * V
  <2>1. Weight(j + (n - 2)) = Weight(j) * Weight(n - 2)
    BY <1>1, WeightsMultiply
  <2> QED
    BY <1>1, <2>1, Zenon
<1> HIDE DEF l, u, w, V, W, P
<1>8. l * W \in Nat /\ l * W < P
  <2>1. l * W < V * W /\ l * W \in Nat
    BY <1>6
  <2>2. V * W = W * V
    BY <1>6
  <2> QED
    BY <1>7, <2>1, <2>2
<1>9. (l + u * V + w * (Base * V)) * W = l * W + (w * Base + u) * P
  <2>1. u * V + w * (Base * V) = (w * Base + u) * V
    <3> DEFINE B == Base
               g == w * B
    <3>1. B \in Nat /\ g \in Nat /\ w * (B * V) = g * V
      BY <1>6
    <3> HIDE DEF g
    <3>2. (g + u) * V = g * V + u * V
      BY <1>6, <3>1
    <3>3. g * V \in Int /\ u * V \in Int
      BY <1>6, <3>1
    <3> QED
      BY <3>1, <3>2, <3>3 DEF g
  <2> DEFINE y == w * Base + u
             c == w * (Base * V)
             b == u * V
  <2>2. y \in Int /\ b \in Int /\ c \in Int
    <3>1. w * Base \in Int /\ Base * V \in Int
      BY <1>6
    <3> QED
      BY <1>6, <3>1
  <2> HIDE DEF y, b, c
  <2>3. b + c = y * V
    BY <2>1 DEF y, b, c
  <2>4. (l + b + c) * W = l * W + (y * V) * W
    <3> DEFINE e == y * V
    <3>1. e \in Int /\ l + b + c = l + e
      BY <1>6, <2>2, <2>3
    <3> HIDE DEF e
    <3>2. (l + e) * W = l * W + e * W
      BY <1>6, <3>1
    <3> QED
      BY <3>1, <3>2, Zenon DEF e
  <2>5. (y * V) * W = y * (W * V)
    BY <1>6, <2>2
  <2> QED
    BY <1>7, <2>4, <2>5, Zenon DEF y, b, c
<1> QED
  BY <1>5, <1>8, <1>9, Zenon DEF At, l, u, w, V, W, P

\* What the estimate of a digit is for the whole dividend and the whole divisor.
LEMMA DigitEstimated ==
  ASSUME NEW st \in Dividing, NEW v, NEW n \in 2 .. 4, NEW j \in 0 .. 2, j + n <= 4,
         Normal(v, n), Clear(st, j + n), Rest(st) < Base * At(v, j)
  PROVE  LET q == EstimateQuotient(st, j, n, v)
         IN  /\ q \in Nat /\ q < Base
             /\ Rest(st) < (q + 1) * At(v, j)
             /\ q * At(v, j) <= Rest(st) + At(v, j)
             /\ n = 2 => q * At(v, j) <= Rest(st)
<1> DEFINE k == j + n
           d0 == hi_lo(Digit(st, k), st.dividend[k - 1])
           u0 == st.dividend[k - 2]
           d1 == v[n - 1]
           d2 == v[n - 2]
           l == Low(st.dividend, k - 2)
           m == Low(v, n - 2) * Weight(j)
           P == Weight(k - 2)
           x == d0 * Base + u0
           y == d1 * Base + d2
           q == EstimateQuotient(st, j, n, v)
<1>1. /\ k \in 2 .. 4 /\ k \in 0 .. 4 /\ k - 1 \in Index /\ k - 2 \in Index /\ k - 2 \in 0 .. 4
      /\ n - 1 \in Index /\ n - 2 \in Index /\ v \in Number
  BY WidthType DEF Normal
<1>2. Rest(st) = l + x * P
  <2>1. Rest(st) = Low(st.dividend, k - 2)
            + (hi_lo(Digit(st, k), st.dividend[k - 1]) * Base + st.dividend[k - 2])
                * Weight(k - 2)
    BY <1>1, RestTop
  <2> QED
    BY <2>1, Zenon
<1>3. At(v, j) = m + y * P /\ m \in Nat /\ m < P
  BY DivisorTop
<1>4. /\ l \in Nat /\ l < P /\ u0 \in Nat /\ u0 < Base /\ d1 \in Nat /\ d1 < Base /\ d2 \in Nat
      /\ d2 < Base /\ P \in Nat \ {0} /\ Base \in Nat /\ Base >= 2
  <2>1. st.dividend \in Number
    BY DividingIs
  <2> QED
    BY <1>1, <2>1, LowIs, WordIs, Weights, BaseType
<1>5. d0 \in Nat
  <2> DEFINE g == Digit(st, k)
             h == st.dividend[k - 1]
  <2>1. g \in Nat /\ h \in Nat
    BY <1>1, DigitType, DividingIs, WordIs
  <2> HIDE DEF g, h
  <2>2. g * Base + h \in Nat
    BY <1>4, <2>1
  <2> QED
    BY <2>2, Zenon DEF hi_lo, g, h
<1>6. Base <= 2 * d1
  BY DEF Normal
<1>7. q = Guess(d0, d1, u0, d2)
  <2>1. l + x * P < Base * (m + y * P)
    BY <1>2, <1>3
  <2> HIDE DEF d0, u0, d1, d2, l, m, P
  <2>2. HeadBelow(d0, d1)
    BY <1>3, <1>4, <1>5, <2>1, HeadIs
  <2>3. d0 < (d1 + 1) * Base
    BY <2>2, Zenon DEF HeadBelow
  <2>4. hi_lo(Digit(st, j + n), st.dividend[j + n - 1]) < (v[n - 1] + 1) * Base
    BY <2>3 DEF d0, d1, k
  <2>5. Base <= 2 * v[n - 1]
    BY <1>6, Zenon DEF d1
  <2> QED
    BY <1>1, <2>4, <2>5, EstimateIs DEF d0, d1, u0, d2
<1> HIDE DEF d0, u0, d1, d2, l, m, P, q, k
<1>8. d1 \in Nat \ {0}
  BY <1>4, <1>6
<1>9. HeadBelow(d0, d1)
  <2>1. l + (d0 * Base + u0) * P < Base * (m + (d1 * Base + d2) * P)
    BY <1>2, <1>3
  <2> QED
    BY <1>3, <1>4, <1>5, <2>1, HeadIs
<1>10. TopDigit(q, x, y)
  <2>1. d0 < (d1 + 1) * Base
    BY <1>9, Zenon DEF HeadBelow
  <2>2. TopDigit(Guess(d0, d1, u0, d2), d0 * Base + u0, d1 * Base + d2)
    BY <1>4, <1>5, <1>6, <1>8, <2>1, GuessIs
  <2> QED
    BY <1>7, <2>2, Zenon
<1>11. x \in Nat /\ y \in Nat /\ Base <= y
  <2>1. d0 * Base \in Nat /\ d1 * Base \in Nat /\ Base <= d1 * Base
    BY <1>4, <1>5, <1>8
  <2> QED
    BY <1>4, <2>1
<1>12. DigitBounds(q, l + x * P, m + y * P, m)
  <2>1. l + x * P < Base * (m + y * P)
    BY <1>2, <1>3
  <2> HIDE DEF x, y
  <2> QED
    BY <1>3, <1>4, <1>10, <1>11, <2>1, TopDigitBounds
<1>13. n = 2 => m = 0
  <2> SUFFICES ASSUME n = 2 PROVE m = 0
    OBVIOUS
  <2>1. Low(v, n - 2) = 0
    BY <1>1, LowIs
  <2>2. Weight(j) \in Nat
    BY Weights
  <2> QED
    BY <2>1, <2>2 DEF m
<1>14. q \in Nat /\ q < Base
  BY <1>10 DEF TopDigit
<1> HIDE DEF x, y
<1> QED
  BY <1>2, <1>3, <1>12, <1>13, <1>14, Zenon DEF DigitBounds, q

-----------------------------------------------------------------------------
\* A multiple of the divisor is taken away.

\* A place of it: what is borrowed is at most a word.
BorrowFits(g, k, q, u) ==
    LET p == Wrapped(q * u)
        t == Wrapped(g - k - lo(p))
        b == lo(hi(p) - hi(t))
    IN  /\ lo(t) \in Word /\ b \in Nat /\ b < Base
        /\ (g - k) - q * u = lo(t) - Base * b

LEMMA BorrowIs ==
  ASSUME NEW g \in Nat, g < Base, NEW k \in Nat, k < Base, NEW q \in Nat, q < Base,
         NEW u \in Nat, u < Base
  PROVE  BorrowFits(g, k, q, u)
<1> DEFINE B == Base
           M == B * B
           p == Wrapped(q * u)
           z == g - k - lo(p)
           t == Wrapped(z)
           c == z \div M
           e == hi(p) - hi(t) - B * c
<1>1. B \in Nat /\ B >= 2 /\ M \in Nat \ {0}
  BY BaseType, DoubleBase
<1>2. q * u \in Nat /\ q * u <= (B - 1) * (B - 1) /\ (B - 1) * (B - 1) = (M - B) - (B - 1)
  <2>1. q <= B - 1 /\ u <= B - 1 /\ B - 1 \in Nat
    BY <1>1
  <2>2. (B - 1) * (B - 1) = (M - B) - (B - 1)
    BY <1>1
  <2> DEFINE C == B - 1
  <2>3. q <= C /\ u <= C /\ C \in Nat
    BY <2>1
  <2> HIDE DEF C
  <2>4. q * u <= C * u /\ C * u <= C * C /\ q * u \in Nat /\ C * u \in Nat /\ C * C \in Nat
    BY <2>3
  <2>5. q * u <= C * C
    BY <2>4
  <2> QED
    BY <2>2, <2>4, <2>5 DEF C
<1>3. p = q * u /\ p \in Nat
  <2> DEFINE x == q * u
  <2>1. x \in Nat /\ x < M
    BY <1>1, <1>2
  <2> HIDE DEF x, M
  <2>2. x % M = x
    BY <1>1, <2>1, BelowDivisor
  <2> QED
    BY <2>1, <2>2, Zenon DEF x, M, Wrapped
<1> HIDE DEF p
<1>4. lo(p) \in Nat /\ lo(p) < B /\ hi(p) \in Int /\ p = lo(p) + B * hi(p)
  <2>1. p \in Int
    BY <1>3
  <2> QED
    BY <2>1, LoHi, Zenon
<1>5. z \in Int
  BY <1>4
<1> HIDE DEF z
<1>6. z = M * c + t /\ c \in Int /\ t \in Nat
  <2> HIDE DEF M
  <2>1. z = M * (z \div M) + (z % M) /\ z \div M \in Int /\ z % M \in 0 .. M - 1
    BY <1>1, <1>5, FloorRemainder
  <2>2. z % M \in Nat
    BY <1>1, <2>1
  <2>3. t = z % M
    BY Zenon DEF Wrapped, M
  <2> QED
    BY <2>1, <2>2, <2>3, Zenon
<1> HIDE DEF c, t
<1>7. lo(t) \in Nat /\ lo(t) < B /\ lo(t) \in Word /\ hi(t) \in Int /\ t = lo(t) + B * hi(t)
  <2>1. t \in Int
    BY <1>6
  <2> QED
    BY <2>1, LoHi, Zenon
<1> HIDE DEF B
<1>8. e \in Int
  BY <1>1, <1>4, <1>6, <1>7
<1>9. (g - k) - q * u = lo(t) - B * e
  <2> DEFINE x1 == B * hi(p)
             x2 == B * hi(t)
             x3 == B * (B * c)
  <2>1. B * e = (x1 - x2) - x3
    <3> DEFINE bc == B * c
               a1 == hi(p)
               a2 == hi(t)
    <3>1. bc \in Int /\ a1 \in Int /\ a2 \in Int
      BY <1>1, <1>4, <1>6, <1>7
    <3> HIDE DEF bc, a1, a2
    <3>2. B * (a1 - a2 - bc) = (B * a1 - B * a2) - B * bc
      BY <1>1, <3>1
    <3> QED
      BY <3>2 DEF bc, a1, a2
  <2>2. M * c = x3
    BY <1>1, <1>6
  <2>3. x1 \in Int /\ x2 \in Int /\ x3 \in Int
    <3>1. B * c \in Int
      BY <1>1, <1>6
    <3> QED
      BY <1>1, <1>4, <1>7, <3>1
  <2>4. (g - k) - p = z - x1
    <3>1. z = g - k - lo(p) /\ p = lo(p) + x1
      BY <1>4 DEF z
    <3> HIDE DEF x1
    <3> QED
      BY <1>3, <1>4, <2>3, <3>1
  <2> DEFINE f == B * e
             y == q * u
  <2>5. f = (x1 - x2) - x3 /\ y = p /\ z = x3 + t /\ t = lo(t) + x2
    BY <1>3, <1>6, <1>7, <2>1, <2>2
  <2> HIDE DEF f, y, x1, x2, x3
  <2>6. (g - k) - y = lo(t) - f
    BY <1>3, <1>5, <1>6, <1>7, <2>3, <2>4, <2>5
  <2> QED
    BY <2>6 DEF f, y
<1>10. 0 <= e /\ e < B
  <2> HIDE DEF e
  <2> DEFINE f == B * e
             y == q * u
  <2>1. f \in Int /\ y \in Nat /\ y <= (M - B) - (B - 1) /\ (g - k) - y = lo(t) - f
    <3>1. f \in Int
      BY <1>1, <1>8
    <3> HIDE DEF f, M
    <3>2. (g - k) - y = lo(t) - f
      BY <1>9 DEF f
    <3> QED
      BY <1>1, <1>2, <3>1, <3>2
  <2>2. f > -B /\ f < M
    <3> HIDE DEF f, y, M
    <3>1. f = ((lo(t) - g) + k) + y
      BY <1>7, <2>1
    <3> QED
      BY <1>1, <1>7, <2>1, <3>1 DEF B
  <2>3. ASSUME e <= -1 PROVE FALSE
    <3>1. B * e <= -B
      BY <1>1, <1>8, <2>3
    <3> QED
      BY <1>1, <2>1, <2>2, <3>1
  <2>4. ASSUME e >= B PROVE FALSE
    <3>1. B * e >= B * B
      BY <1>1, <1>8, <2>4
    <3> QED
      BY <1>1, <2>1, <2>2, <3>1
  <2> QED
    BY <1>1, <1>8, <2>3, <2>4
<1>11. lo(hi(p) - hi(t)) = e
  <2>1. hi(p) - hi(t) = e + B * c
    <3> DEFINE bc == B * c
               a1 == hi(p)
               a2 == hi(t)
    <3>1. bc \in Int /\ a1 \in Int /\ a2 \in Int
      BY <1>1, <1>4, <1>6, <1>7
    <3>2. e = a1 - a2 - bc
      BY Zenon
    <3> HIDE DEF bc, a1, a2, e
    <3>3. a1 - a2 = e + bc
      BY <3>1, <3>2
    <3> QED
      BY <3>3 DEF bc, a1, a2
  <2>2. e \in Nat /\ e < Base /\ c \in Int
    BY <1>6, <1>8, <1>10 DEF B
  <2> HIDE DEF e
  <2>3. lo(e + Base * c) = e
    BY <2>2, SplitIs
  <2> QED
    BY <2>1, <2>3, Zenon DEF B
<1>12. e \in Nat /\ e < B
  BY <1>8, <1>10
<1> HIDE DEF e
<1> QED
  BY <1>7, <1>9, <1>11, <1>12, Zenon DEF BorrowFits, p, t, z, B

\* The step for word i - 1 of the divisor.
SubStep(index, divisor, qhat, prev, i) ==
    LET p == Wrapped(qhat * divisor[i - 1])
        t == Wrapped(prev.state.dividend[index + i - 1] - prev.k - lo(p))
    IN  [state |-> SetDigit(prev.state, index + i - 1, lo(t)), k |-> lo(hi(p) - hi(t))]

\* The steps, one after the other.
SubSteps(st, j, n, v, q, f) ==
    /\ MultiplySubtract(st, j, n, v, q) =
          [state |-> SetDigit(f[n].state, j + n, lo(Digit(st, j + n) - f[n].k)),
           too_large |-> f[n].k > Digit(st, j + n)]
    /\ f[0] = [state |-> st, k |-> 0]
    /\ \A i \in 0 .. n : i # 0 => f[i] = SubStep(j, v, q, f[i - 1], i)

LEMMA SubStepsExist ==
  ASSUME NEW st, NEW j, NEW n \in 0 .. 4, NEW v, NEW q
  PROVE  \E f : SubSteps(st, j, n, v, q, f)
<1> DEFINE First == [state |-> st, k |-> 0]
<1> DEFINE Step(f, i) == IF i = 0 THEN First ELSE SubStep(j, v, q, f[i - 1], i)
           Solves(f) == f = [i \in 0 .. n |-> Step(f, i)]
           r0 == First
           r1 == SubStep(j, v, q, r0, 1)
           r2 == SubStep(j, v, q, r1, 2)
           r3 == SubStep(j, v, q, r2, 3)
           r4 == SubStep(j, v, q, r3, 4)
           Done(i) == CASE i = 0 -> r0 [] i = 1 -> r1 [] i = 2 -> r2 [] i = 3 -> r3 [] i = 4 -> r4
           g == [i \in 0 .. n |-> Done(i)]
<1>1. \A i \in 0 .. n : i \in {0, 1, 2, 3, 4}
  OBVIOUS
<1>2. Solves(g)
  <2>1. Done(0) = r0 /\ Done(1) = r1 /\ Done(2) = r2 /\ Done(3) = r3 /\ Done(4) = r4
    <3> HIDE DEF r0, r1, r2, r3, r4
    <3> QED
      OBVIOUS
  <2>2. \A i \in 0 .. n : g[i] = Done(i)
    <3> HIDE DEF Done
    <3> QED
      OBVIOUS
  <2>3. ASSUME NEW i \in 0 .. n PROVE g[i] = Step(g, i)
    <3> HIDE DEF g, Done
    <3>1. CASE i = 0
      BY <2>1, <2>2, <3>1, Zenon
    <3>2. CASE i # 0
      <4>1. Step(g, i) = SubStep(j, v, q, g[i - 1], i)
        BY <3>2, Zenon
      <4>2. i - 1 \in 0 .. n
        BY <3>2
      <4>3. g[i - 1] = Done(i - 1)
        BY <2>2, <4>2, Zenon
      <4>4. CASE i = 1
        <5>1. i - 1 = 0
          BY <4>4
        <5> HIDE DEF First, Step, r0
        <5> QED
          BY <2>1, <2>2, <4>1, <4>3, <4>4, <5>1, Zenon
      <4>5. CASE i = 2
        <5>1. i - 1 = 1
          BY <4>5
        <5> HIDE DEF First, Step, r1
        <5> QED
          BY <2>1, <2>2, <4>1, <4>3, <4>5, <5>1, Zenon
      <4>6. CASE i = 3
        <5>1. i - 1 = 2
          BY <4>6
        <5> HIDE DEF First, Step, r2
        <5> QED
          BY <2>1, <2>2, <4>1, <4>3, <4>6, <5>1, Zenon
      <4>7. CASE i = 4
        <5>1. i - 1 = 3
          BY <4>7
        <5> HIDE DEF First, Step, r3
        <5> QED
          BY <2>1, <2>2, <4>1, <4>3, <4>7, <5>1, Zenon
      <4>8. i \in {0, 1, 2, 3, 4}
        BY <1>1
      <4> HIDE DEF Step
      <4> QED
        BY <3>2, <4>4, <4>5, <4>6, <4>7, <4>8, Zenon
    <3> QED
      BY <3>1, <3>2
  <2>4. g = [i \in 0 .. n |-> g[i]]
    <3> HIDE DEF Done
    <3> QED
      BY Zenon
  <2> HIDE DEF g, Step
  <2>5. [i \in 0 .. n |-> g[i]] = [i \in 0 .. n |-> Step(g, i)]
    BY <2>3, Zenon
  <2> QED
    BY <2>4, <2>5, Zenon
<1> HIDE DEF g
<1> DEFINE f == CHOOSE h : Solves(h)
<1>3. Solves(f)
  <2> HIDE DEF Solves
  <2> QED
    BY <1>2, Zenon
<1>4. MultiplySubtract(st, j, n, v, q) =
        [state |-> SetDigit(f[n].state, j + n, lo(Digit(st, j + n) - f[n].k)),
         too_large |-> f[n].k > Digit(st, j + n)]
  BY Zenon DEF MultiplySubtract, SubStep
<1> HIDE DEF f
<1>5. \A i \in 0 .. n : f[i] = Step(f, i)
  <2> HIDE DEF Step
  <2> QED
    BY <1>3, Zenon
<1>6. f[0] = First
  <2>1. 0 \in 0 .. n
    OBVIOUS
  <2> QED
    BY <1>5, <2>1, Zenon
<1>7. ASSUME NEW i \in 0 .. n, i # 0 PROVE f[i] = SubStep(j, v, q, f[i - 1], i)
  BY <1>5, <1>7, Zenon
<1> QED
  BY <1>4, <1>6, <1>7, Zenon DEF SubSteps

\* The lowest i words of the divisor are multiplied and taken away; k is owed.
SubInv(st, j, v, q, row, i) ==
    /\ row.state \in Dividing /\ row.state.quotient = st.quotient
    /\ row.k \in Nat /\ row.k < Base
    /\ \A p \in 0 .. 4 : p >= j + i => Digit(row.state, p) = Digit(st, p)
    /\ Rest(row.state) = (Rest(st) - (q * Low(v, i)) * Weight(j)) + row.k * Weight(j + i)

TakesAway(S, q, L, u, V, W, k, b, w, g) ==
    ((S - (q * L) * W) + k * (W * V)) + (w - g) * (W * V)
       = (S - (q * (L + u * V)) * W) + b * (Base * (W * V))

LEMMA SubAdds ==
  ASSUME NEW S \in Int, NEW q \in Int, NEW L \in Int, NEW u \in Int, NEW V \in Int,
         NEW W \in Int, NEW k \in Int, NEW b \in Int, NEW w \in Int, NEW g \in Int,
         (g - k) - q * u = w - Base * b
  PROVE  TakesAway(S, q, L, u, V, W, k, b, w, g)
<1> DEFINE B == Base
           X == W * V
           a == (q * L) * W
           c == (q * u) * X
           d == k * X
           e == b * (B * X)
           h == w * X
           m == g * X
           qu == q * u
           Bb == B * b
<1>1. B \in Int /\ X \in Int /\ qu \in Int /\ Bb \in Int
  BY BaseType
<1>2. (q * (L + u * V)) * W = a + c
  <2>1. q * (L + u * V) = q * L + qu * V /\ q * L \in Int /\ qu * V \in Int
    <3> DEFINE uV == u * V
    <3>1. uV \in Int
      OBVIOUS
    <3> HIDE DEF uV
    <3>2. q * (L + uV) = q * L + q * uV
      BY <3>1
    <3>3. q * uV = qu * V /\ q * uV \in Int /\ q * L \in Int
      BY <3>1 DEF uV
    <3> QED
      BY <3>2, <3>3 DEF uV
  <2> DEFINE x == q * L
             y == qu * V
  <2>2. x \in Int /\ y \in Int
    BY <2>1
  <2> HIDE DEF qu
  <2>3. y * W = qu * X
    BY <1>1
  <2> HIDE DEF x, y
  <2>4. (x + y) * W = x * W + y * W
    BY <2>2
  <2> QED
    BY <2>1, <2>3, <2>4, Zenon DEF x, y, qu
<1>3. (w - g) * X = h - m /\ h \in Int /\ m \in Int /\ d \in Int
  <2> HIDE DEF X
  <2> QED
    BY <1>1
<1>4. h - m = (e - d) - c /\ e \in Int /\ c \in Int
  <2>1. (w - g) = (Bb - k) - qu
    <3>1. (g - k) - qu = w - Bb
      BY DEF B
    <3> HIDE DEF qu, Bb
    <3> QED
      BY <1>1, <3>1
  <2> HIDE DEF X, qu, Bb
  <2>2. ((Bb - k) - qu) * X = (Bb * X - d) - qu * X
    BY <1>1
  <2>3. Bb * X \in Int /\ qu * X \in Int
    BY <1>1
  <2>4. Bb * X = e
    <3> HIDE DEF B
    <3> QED
      BY <1>1 DEF Bb
  <2>5. (w - g) * X = ((Bb - k) - qu) * X
    BY <2>1, Zenon
  <2> QED
    BY <1>3, <2>2, <2>3, <2>4, <2>5 DEF qu
<1>5. a \in Int
  <2>1. q * L \in Int
    OBVIOUS
  <2> QED
    BY <2>1
<1> DEFINE s == (w - g) * X
           r == (q * (L + u * V)) * W
<1>6. s = h - m /\ r = a + c
  BY <1>2, <1>3
<1> HIDE DEF a, c, d, e, h, m, s, r
<1>7. ((S - a) + d) + s = (S - r) + e
  BY <1>3, <1>4, <1>5, <1>6
<1> QED
  BY <1>7, Zenon DEF TakesAway, a, c, d, e, s, r, X, B

LEMMA SubGoesOn ==
  ASSUME NEW st \in Dividing, NEW v \in Number, NEW n \in 2 .. 4, NEW j \in 0 .. 2,
         j + n <= 4, NEW q \in Nat, q < Base, NEW i \in 0 .. 3, i < n, NEW row,
         SubInv(st, j, v, q, row, i)
  PROVE  SubInv(st, j, v, q, SubStep(j, v, q, row, i + 1), i + 1)
<1> DEFINE s == row.state
           k == row.k
           m == j + i
           g == s.dividend[m]
           u == v[i]
           p == Wrapped(q * u)
           t == Wrapped(g - k - lo(p))
           w == lo(t)
           b == lo(hi(p) - hi(t))
           s2 == SetDigit(s, m, w)
           next == SubStep(j, v, q, row, i + 1)
           W == Weight(j)
           V == Weight(i)
           L == Low(v, i)
           S == Rest(st)
<1>1. /\ s \in Dividing /\ s.quotient = st.quotient /\ k \in Nat /\ k < Base
      /\ (\A x \in 0 .. 4 : x >= m => Digit(s, x) = Digit(st, x))
      /\ Rest(s) = (S - (q * L) * W) + k * Weight(m)
  BY Zenon DEF SubInv
<1>2. /\ m \in Index /\ m \in 0 .. 4 /\ m \in 0 .. 3 /\ i \in Index /\ i \in 0 .. 4 /\ j \in 0 .. 4
      /\ (i + 1) - 1 = i /\ j + (i + 1) - 1 = m /\ j + (i + 1) = m + 1 /\ m # NUM_WORDS
  BY WidthType
<1>3. next = [state |-> s2, k |-> b]
  BY <1>2, Zenon DEF SubStep
<1>4. g \in Nat /\ g < Base /\ u \in Nat /\ u < Base /\ Digit(s, m) = g
  <2>1. s.dividend \in Number
    BY <1>1, DividingIs
  <2>2. Digit(s, m) = g
    BY <1>2, Zenon DEF Digit
  <2> QED
    BY <1>2, <2>1, <2>2, WordIs
<1>5. w \in Word /\ b \in Nat /\ b < Base /\ (g - k) - q * u = w - Base * b
  <2>1. BorrowFits(g, k, q, u)
    <3> HIDE DEF g, k, u
    <3> QED
      BY <1>1, <1>4, BorrowIs
  <2> QED
    BY <2>1, Zenon DEF BorrowFits
<1> HIDE DEF w, b, k, g, u
<1>6. /\ s2 \in Dividing /\ s2.quotient = s.quotient
      /\ (\A x \in 0 .. 4 : x # m => Digit(s2, x) = Digit(s, x))
      /\ Rest(s2) = Rest(s) + (w - Digit(s, m)) * Weight(m)
  <2> HIDE DEF s, m
  <2>1. s \in Dividing /\ m \in 0 .. 4 /\ w \in Word
    BY <1>1, <1>2, <1>5
  <2>2. Replaced(s, m, w, SetDigit(s, m, w))
    BY ONLY <2>1, DigitReplaced
  <2> QED
    BY <2>2, Zenon DEF Replaced
<1>7. Weight(m) = W * V /\ Weight(m + 1) = Base * (W * V)
  <2>1. Weight(j + i) = Weight(j) * Weight(i)
    <3>1. j + i <= 4
      BY <1>2
    <3> QED
      BY <1>2, <3>1, WeightsMultiply
  <2>2. Weight(m + 1) = Base * Weight(m)
    <3> HIDE DEF m
    <3> QED
      BY <1>2, NextWeight
  <2> QED
    BY <2>1, <2>2, Zenon
<1>8. Low(v, i + 1) = L + u * V
  BY LowIs DEF u
<1>9. /\ S \in Int /\ L \in Int /\ V \in Int /\ W \in Int /\ w \in Int /\ k \in Int /\ b \in Int
      /\ g \in Int /\ u \in Int /\ q \in Int
  <2>1. S \in Int /\ L \in Int /\ V \in Int /\ W \in Int
    BY <1>2, DividingIs, LowIs, Weights
  <2>2. w \in Int
    BY <1>5, BaseType DEF Word
  <2> QED
    BY <1>1, <1>4, <1>5, <2>1, <2>2
<1> HIDE DEF s, s2, next, W, V, L, S
<1>10. TakesAway(S, q, L, u, V, W, k, b, w, g)
  BY ONLY <1>5, <1>9, SubAdds
<1>11. Rest(s2) = (S - (q * Low(v, i + 1)) * W) + b * Weight(j + (i + 1))
  <2>1. Rest(s2) = ((S - (q * L) * W) + k * (W * V)) + (w - g) * (W * V)
    BY <1>1, <1>4, <1>6, <1>7, Zenon
  <2>2. Rest(s2) = (S - (q * (L + u * V)) * W) + b * (Base * (W * V))
    BY <1>10, <2>1, Zenon DEF TakesAway
  <2> QED
    BY <1>2, <1>7, <1>8, <2>2, Zenon
<1>12. ASSUME NEW x \in 0 .. 4, x >= j + (i + 1) PROVE Digit(s2, x) = Digit(st, x)
  <2>1. x # m /\ x >= m
    BY <1>12
  <2>2. Digit(s2, x) = Digit(s, x) /\ Digit(s, x) = Digit(st, x)
    BY <1>1, <1>6, <2>1
  <2> QED
    BY <2>2
<1>13. next.state = s2 /\ next.k = b
  BY <1>3
<1>14. s2.quotient = st.quotient
  BY <1>1, <1>6, Zenon
<1> QED
  BY <1>5, <1>6, <1>11, <1>12, <1>13, <1>14, Zenon DEF SubInv, next, S, W

\* What is left when the digit is taken away, and what tells that it is too large.
TakenAway(st, j, n, d, r) ==
    /\ r.state \in Dividing /\ r.state.quotient = st.quotient /\ Clear(r.state, j + n)
    /\ r.too_large \in BOOLEAN
    /\ ~r.too_large => Rest(r.state) = Rest(st) - d
    /\ r.too_large => /\ Rest(st) < d
                      /\ Rest(r.state) = (Rest(st) - d) + Base * Weight(j + n)

LEMMA HeadSubtracted ==
  ASSUME NEW h \in Nat, h < Base, NEW k \in Nat, k < Base
  PROVE  /\ lo(h - k) \in Word
         /\ k <= h => (k - h) + lo(h - k) = 0
         /\ k > h => (k - h) + lo(h - k) = Base
<1> DEFINE B == Base
           d == h - k
<1>1. B \in Nat /\ d \in Int /\ h < B /\ k < B
  BY BaseType
<1>2. lo(d) \in Word
  BY <1>1, LoHi
<1>3. CASE k <= h
  <2>1. d \in Nat /\ d < Base
    BY <1>1, <1>3
  <2> HIDE DEF d
  <2>2. lo(d) = d
    BY <2>1, LoOfWord
  <2>3. (k - h) + d = 0
    BY DEF d
  <2> QED
    BY <1>2, <1>3, <2>2, <2>3 DEF d
<1>4. CASE k > h
  <2> DEFINE e == d + B
  <2>1. e \in Nat /\ e < Base
    BY <1>1, <1>4
  <2>2. d = e + Base * (-1)
    <3>1. Base * (-1) = -B
      BY <1>1
    <3> HIDE DEF B
    <3> QED
      BY <1>1, <3>1
  <2>3. (k - h) + e = Base
    BY <1>1
  <2> HIDE DEF e, d, B
  <2>4. lo(e + Base * (-1)) = e
    BY <2>1, SplitIs
  <2>5. lo(d) = e
    BY <2>2, <2>4, Zenon
  <2>6. lo(h - k) = e
    BY <2>5, Zenon DEF d
  <2>7. ~(k <= h)
    BY <1>4
  <2> QED
    BY <1>2, <1>4, <2>3, <2>6, <2>7, Zenon DEF d
<1> QED
  BY <1>1, <1>3, <1>4

LEMMA Subtracted ==
  ASSUME NEW st \in Dividing, NEW v, NEW n \in 2 .. 4, NEW j \in 0 .. 2, j + n <= 4,
         Normal(v, n), Clear(st, j + n), NEW q \in Nat, q < Base
  PROVE  TakenAway(st, j, n, q * At(v, j), MultiplySubtract(st, j, n, v, q))
<1>1. v \in Number /\ n \in 0 .. 4 /\ j + n \in 0 .. 4 /\ j \in 0 .. 4
      /\ \A i \in Index : i >= n => v[i] = 0
  BY DEF Normal
<1>2. PICK f : SubSteps(st, j, n, v, q, f)
  BY <1>1, SubStepsExist
<1> DEFINE r == MultiplySubtract(st, j, n, v, q)
           h == Digit(st, j + n)
<1>3. /\ r = [state |-> SetDigit(f[n].state, j + n, lo(h - f[n].k)), too_large |-> f[n].k > h]
      /\ f[0] = [state |-> st, k |-> 0]
      /\ \A i \in 0 .. n : i # 0 => f[i] = SubStep(j, v, q, f[i - 1], i)
  BY <1>2 DEF SubSteps
<1> DEFINE Inv(i) == SubInv(st, j, v, q, f[i], i)
<1>4. Inv(0)
  <2>1. f[0].state = st /\ f[0].k = 0
    BY <1>3
  <2>2. 0 \in Nat /\ 0 < Base
    BY BaseType
  <2>3. Rest(st) = (Rest(st) - (q * Low(v, 0)) * Weight(j)) + 0 * Weight(j + 0)
    <3>1. Low(v, 0) = 0 /\ j + 0 = j
      BY <1>1, LowIs
    <3>2. Weight(j) \in Int /\ Rest(st) \in Int
      BY <1>1, Weights, DividingIs
    <3>3. (q * 0) * Weight(j) = 0 /\ 0 * Weight(j) = 0
      BY <3>2
    <3> QED
      BY <3>1, <3>2, <3>3
  <2> QED
    BY <2>1, <2>2, <2>3, Zenon DEF SubInv
<1>5. ASSUME NEW i \in 0 .. 3, i < n, Inv(i) PROVE Inv(i + 1)
  <2>1. i + 1 \in 0 .. n /\ i + 1 # 0 /\ (i + 1) - 1 = i
    BY <1>5
  <2>2. f[i + 1] = SubStep(j, v, q, f[(i + 1) - 1], i + 1)
    BY <1>3, <2>1, Zenon
  <2>3. f[i + 1] = SubStep(j, v, q, f[i], i + 1)
    BY <2>1, <2>2, Zenon
  <2>4. SubInv(st, j, v, q, SubStep(j, v, q, f[i], i + 1), i + 1)
    BY <1>1, <1>5, SubGoesOn
  <2> QED
    BY <2>3, <2>4, Zenon
<1>6. Inv(n)
  <2> HIDE DEF Inv
  <2> DEFINE G == {i \in Nat : i <= n => Inv(i)}
  <2>1. 0 \in G
    BY <1>4
  <2>2. ASSUME NEW i \in G, i < n PROVE i + 1 \in G
    <3>1. i \in 0 .. 3 /\ Inv(i)
      BY <2>2
    <3>2. Inv(i + 1)
      BY <1>5, <2>2, <3>1
    <3> QED
      BY <3>1, <3>2
  <2>3. 0 .. n \subseteq G
    <3>1. n \in Nat /\ G \in SUBSET Nat
      OBVIOUS
    <3> HIDE DEF G
    <3> QED
      BY <2>1, <2>2, <3>1, UpTo
  <2>4. n \in G
    <3>1. n \in 0 .. n
      OBVIOUS
    <3> HIDE DEF G
    <3> QED
      BY <2>3, <3>1
  <2> QED
    BY <2>4
<1> DEFINE s == f[n].state
           k == f[n].k
           w == lo(h - k)
           W == Weight(j + n)
           d == q * At(v, j)
           z == SetDigit(s, j + n, w)
<1>7. /\ s \in Dividing /\ s.quotient = st.quotient /\ k \in Nat /\ k < Base
      /\ (\A x \in 0 .. 4 : x >= j + n => Digit(s, x) = Digit(st, x))
      /\ Rest(s) = (Rest(st) - (q * Low(v, n)) * Weight(j)) + k * W
  BY <1>6, Zenon DEF SubInv
<1>8. (q * Low(v, n)) * Weight(j) = d /\ d \in Int
  <2>1. Low(v, n) = Value(v)
    BY <1>1, LowWhole
  <2> DEFINE x == Value(v)
             y == Weight(j)
  <2>2. x \in Int /\ y \in Int
    BY <1>1, ValueType, Weights
  <2> HIDE DEF x, y
  <2>3. (q * x) * y = q * (x * y) /\ q * (x * y) \in Int
    <3>1. x * y \in Int
      BY <2>2
    <3> QED
      BY <2>2, <3>1
  <2> QED
    BY <2>1, <2>3, Zenon DEF x, y, At
<1>9. h \in Nat /\ h < Base /\ W \in Int /\ Rest(st) \in Nat
  BY <1>1, DigitType, Weights, DividingIs
<1>10. /\ w \in Word
       /\ k <= h => (k - h) + w = 0
       /\ k > h => (k - h) + w = Base
  <2> HIDE DEF h, k
  <2> QED
    BY <1>7, <1>9, HeadSubtracted
<1>11. r.state = z /\ r.too_large = (k > h)
  BY <1>3
<1> HIDE DEF r, h, s, k, w, W, d
<1>12. /\ z \in Dividing /\ z.quotient = s.quotient
       /\ (\A x \in 0 .. 4 : x # j + n => Digit(z, x) = Digit(s, x))
       /\ Rest(z) = Rest(s) + (w - Digit(s, j + n)) * W
  <2> DEFINE m == j + n
  <2>1. s \in Dividing /\ m \in 0 .. 4 /\ w \in Word
    BY <1>1, <1>7, <1>10
  <2> HIDE DEF m
  <2>2. /\ z \in Dividing /\ z.quotient = s.quotient
        /\ (\A x \in 0 .. 4 : x # m => Digit(z, x) = Digit(s, x))
        /\ Rest(z) = Rest(s) + (w - Digit(s, m)) * Weight(m)
    <3>1. Replaced(s, m, w, SetDigit(s, m, w))
      BY ONLY <2>1, DigitReplaced
    <3> QED
      BY <3>1, Zenon DEF m, Replaced
  <2> QED
    BY <2>2, Zenon DEF m, W
<1>13. Digit(s, j + n) = h
  BY <1>1, <1>7 DEF h
<1> HIDE DEF z
<1>14. w \in Int /\ k \in Int /\ h \in Int
  BY <1>7, <1>9, <1>10, BaseType DEF Word
<1>15. Rest(z) = (Rest(st) - d) + ((k - h) + w) * W
  <2>1. Rest(z) = ((Rest(st) - d) + k * W) + (w - h) * W
    BY <1>7, <1>8, <1>12, <1>13, Zenon
  <2>2. k * W + (w - h) * W = ((k - h) + w) * W
    BY <1>9, <1>14
  <2> DEFINE a == k * W
             b == (w - h) * W
  <2>3. a \in Int /\ b \in Int
    BY <1>9, <1>14
  <2> HIDE DEF a, b
  <2>4. ((Rest(st) - d) + a) + b = (Rest(st) - d) + (a + b)
    BY <1>8, <1>9, <2>3
  <2> QED
    BY <2>1, <2>2, <2>4, Zenon DEF a, b
<1>16. Clear(z, j + n)
  <2> SUFFICES ASSUME NEW x \in 0 .. 4, x > j + n PROVE Digit(z, x) = 0
    BY DEF Clear
  <2>1. x # j + n /\ x >= j + n
    OBVIOUS
  <2>2. Digit(z, x) = Digit(s, x) /\ Digit(s, x) = Digit(st, x)
    BY <1>7, <1>12, <2>1
  <2>3. Digit(st, x) = 0
    BY DEF Clear
  <2> QED
    BY <2>2, <2>3
<1>17. k <= h => Rest(z) = Rest(st) - d
  <2>1. (Rest(st) - d) + 0 * W = Rest(st) - d
    BY <1>8, <1>9
  <2> QED
    BY <1>10, <1>15, <2>1, Zenon
<1>18. ASSUME k > h
       PROVE  Rest(z) = (Rest(st) - d) + Base * W /\ Rest(st) < d
  <2>1. Rest(z) = (Rest(st) - d) + Base * W
    BY <1>10, <1>15, <1>18
  <2>2. Rest(z) < Base * W
    BY <1>1, <1>12, <1>16, RestBelow DEF W
  <2>3. Base * W \in Int
    BY <1>9, BaseType
  <2> DEFINE M == Base * W
             y == Rest(z)
             x == Rest(st)
  <2>4. M \in Int /\ y = (x - d) + M /\ y < M /\ x \in Int
    BY <1>9, <2>1, <2>2, <2>3
  <2> HIDE DEF M, x, y
  <2>5. x < d
    BY <1>8, <2>4
  <2> QED
    BY <2>1, <2>5 DEF x
<1>19. ~(k > h) => k <= h
  BY <1>14
<1>20. (k > h) \in BOOLEAN
  OBVIOUS
<1>21. z.quotient = st.quotient
  BY <1>7, <1>12, Zenon
<1> HIDE DEF z
<1> QED
  BY <1>11, <1>12, <1>16, <1>17, <1>18, <1>19, <1>20, <1>21, Zenon DEF TakenAway, d, W, r

-----------------------------------------------------------------------------
\* The divisor is added back: minus one times it is taken away.

\* The step for word i - 1 of the divisor.
AddStep(index, divisor, prev, i) ==
    LET t == prev.state.dividend[index + i - 1] + divisor[i - 1] + prev.k
    IN  [state |-> SetDigit(prev.state, index + i - 1, lo(t)), k |-> hi(t)]

\* The steps, one after the other.
AddSteps(st, j, n, v, f) ==
    /\ AddBack(st, j, n, v) =
          IF j + n \notin Index THEN Panic
          ELSE SetDigit(f[n].state, j + n, lo(st.dividend[j + n] + f[n].k))
    /\ f[0] = [state |-> st, k |-> 0]
    /\ \A i \in 0 .. n : i # 0 => f[i] = AddStep(j, v, f[i - 1], i)

LEMMA AddStepsExist ==
  ASSUME NEW st, NEW j, NEW n \in 0 .. 4, NEW v
  PROVE  \E f : AddSteps(st, j, n, v, f)
<1> DEFINE First == [state |-> st, k |-> 0]
<1> DEFINE Step(f, i) == IF i = 0 THEN First ELSE AddStep(j, v, f[i - 1], i)
           Solves(f) == f = [i \in 0 .. n |-> Step(f, i)]
           r0 == First
           r1 == AddStep(j, v, r0, 1)
           r2 == AddStep(j, v, r1, 2)
           r3 == AddStep(j, v, r2, 3)
           r4 == AddStep(j, v, r3, 4)
           Done(i) == CASE i = 0 -> r0 [] i = 1 -> r1 [] i = 2 -> r2 [] i = 3 -> r3 [] i = 4 -> r4
           g == [i \in 0 .. n |-> Done(i)]
<1>1. \A i \in 0 .. n : i \in {0, 1, 2, 3, 4}
  OBVIOUS
<1>2. Solves(g)
  <2>1. Done(0) = r0 /\ Done(1) = r1 /\ Done(2) = r2 /\ Done(3) = r3 /\ Done(4) = r4
    <3> HIDE DEF r0, r1, r2, r3, r4
    <3> QED
      OBVIOUS
  <2>2. \A i \in 0 .. n : g[i] = Done(i)
    <3> HIDE DEF Done
    <3> QED
      OBVIOUS
  <2>3. ASSUME NEW i \in 0 .. n PROVE g[i] = Step(g, i)
    <3> HIDE DEF g, Done
    <3>1. CASE i = 0
      BY <2>1, <2>2, <3>1, Zenon
    <3>2. CASE i # 0
      <4>1. Step(g, i) = AddStep(j, v, g[i - 1], i)
        BY <3>2, Zenon
      <4>2. i - 1 \in 0 .. n
        BY <3>2
      <4>3. g[i - 1] = Done(i - 1)
        BY <2>2, <4>2, Zenon
      <4>4. CASE i = 1
        <5>1. i - 1 = 0
          BY <4>4
        <5> HIDE DEF First, Step, r0
        <5> QED
          BY <2>1, <2>2, <4>1, <4>3, <4>4, <5>1, Zenon
      <4>5. CASE i = 2
        <5>1. i - 1 = 1
          BY <4>5
        <5> HIDE DEF First, Step, r1
        <5> QED
          BY <2>1, <2>2, <4>1, <4>3, <4>5, <5>1, Zenon
      <4>6. CASE i = 3
        <5>1. i - 1 = 2
          BY <4>6
        <5> HIDE DEF First, Step, r2
        <5> QED
          BY <2>1, <2>2, <4>1, <4>3, <4>6, <5>1, Zenon
      <4>7. CASE i = 4
        <5>1. i - 1 = 3
          BY <4>7
        <5> HIDE DEF First, Step, r3
        <5> QED
          BY <2>1, <2>2, <4>1, <4>3, <4>7, <5>1, Zenon
      <4>8. i \in {0, 1, 2, 3, 4}
        BY <1>1
      <4> HIDE DEF Step
      <4> QED
        BY <3>2, <4>4, <4>5, <4>6, <4>7, <4>8, Zenon
    <3> QED
      BY <3>1, <3>2
  <2>4. g = [i \in 0 .. n |-> g[i]]
    <3> HIDE DEF Done
    <3> QED
      BY Zenon
  <2> HIDE DEF g, Step
  <2>5. [i \in 0 .. n |-> g[i]] = [i \in 0 .. n |-> Step(g, i)]
    BY <2>3, Zenon
  <2> QED
    BY <2>4, <2>5, Zenon
<1> HIDE DEF g
<1> DEFINE f == CHOOSE h : Solves(h)
<1>3. Solves(f)
  <2> HIDE DEF Solves
  <2> QED
    BY <1>2, Zenon
<1>4. AddBack(st, j, n, v) =
        IF j + n \notin Index THEN Panic
        ELSE SetDigit(f[n].state, j + n, lo(st.dividend[j + n] + f[n].k))
  BY Zenon DEF AddBack, AddStep
<1> HIDE DEF f
<1>5. \A i \in 0 .. n : f[i] = Step(f, i)
  <2> HIDE DEF Step
  <2> QED
    BY <1>3, Zenon
<1>6. f[0] = First
  <2>1. 0 \in 0 .. n
    OBVIOUS
  <2> QED
    BY <1>5, <2>1, Zenon
<1>7. ASSUME NEW i \in 0 .. n, i # 0 PROVE f[i] = AddStep(j, v, f[i - 1], i)
  BY <1>5, <1>7, Zenon
<1> QED
  BY <1>4, <1>6, <1>7, Zenon DEF AddSteps

\* A carry of a sum of two words and a carry.
LEMMA CarryIs ==
  ASSUME NEW g \in Nat, g < Base, NEW u \in Nat, u < Base, NEW k \in {0, 1}
  PROVE  /\ lo(g + u + k) \in Word /\ hi(g + u + k) \in {0, 1}
         /\ g + u + k = lo(g + u + k) + Base * hi(g + u + k)
<1> DEFINE B == Base
           t == g + u + k
<1>1. B \in Nat /\ B >= 2 /\ g < B /\ u < B /\ t \in Nat /\ t \in Int
  BY BaseType
<1>2. t < B * 2
  BY <1>1
<1> HIDE DEF t
<1>3. lo(t) \in Word /\ t = lo(t) + B * hi(t)
  BY <1>1, LoHi, Zenon
<1>4. hi(t) \in Nat /\ hi(t) < 2
  BY <1>1, <1>2, HighBelow
<1>5. hi(t) \in {0, 1}
  BY <1>4
<1> QED
  BY <1>3, <1>5, Zenon DEF t, B

\* The lowest i words of the divisor are added; k is the carry.
AddInv(st, j, v, row, i) ==
    /\ row.state \in Dividing /\ row.state.quotient = st.quotient
    /\ row.k \in {0, 1}
    /\ \A p \in 0 .. 4 : p >= j + i => Digit(row.state, p) = Digit(st, p)
    /\ Rest(row.state) = (Rest(st) - ((-1) * Low(v, i)) * Weight(j)) + (-row.k) * Weight(j + i)

LEMMA AddGoesOn ==
  ASSUME NEW st \in Dividing, NEW v \in Number, NEW n \in 2 .. 4, NEW j \in 0 .. 2,
         j + n <= 4, NEW i \in 0 .. 3, i < n, NEW row, AddInv(st, j, v, row, i)
  PROVE  AddInv(st, j, v, AddStep(j, v, row, i + 1), i + 1)
<1> DEFINE s == row.state
           k == row.k
           m == j + i
           g == s.dividend[m]
           u == v[i]
           t == g + u + k
           w == lo(t)
           b == hi(t)
           s2 == SetDigit(s, m, w)
           next == AddStep(j, v, row, i + 1)
           W == Weight(j)
           V == Weight(i)
           L == Low(v, i)
           S == Rest(st)
<1>1. /\ s \in Dividing /\ s.quotient = st.quotient /\ k \in {0, 1}
      /\ (\A x \in 0 .. 4 : x >= m => Digit(s, x) = Digit(st, x))
      /\ Rest(s) = (S - ((-1) * L) * W) + (-k) * Weight(m)
  BY Zenon DEF AddInv
<1>2. /\ m \in Index /\ m \in 0 .. 4 /\ m \in 0 .. 3 /\ i \in Index /\ i \in 0 .. 4 /\ j \in 0 .. 4
      /\ (i + 1) - 1 = i /\ j + (i + 1) - 1 = m /\ j + (i + 1) = m + 1 /\ m # NUM_WORDS
  BY WidthType
<1>3. next = [state |-> s2, k |-> b]
  BY <1>2, Zenon DEF AddStep
<1>4. g \in Nat /\ g < Base /\ u \in Nat /\ u < Base /\ Digit(s, m) = g
  <2>1. s.dividend \in Number
    BY <1>1, DividingIs
  <2>2. Digit(s, m) = g
    BY <1>2, Zenon DEF Digit
  <2> QED
    BY <1>2, <2>1, <2>2, WordIs
<1>5. w \in Word /\ b \in {0, 1} /\ g + u + k = w + Base * b
  <2> HIDE DEF g, k, u
  <2> QED
    BY <1>1, <1>4, CarryIs
<1> HIDE DEF w, b, k, g, u
<1>6. /\ s2 \in Dividing /\ s2.quotient = s.quotient
      /\ (\A x \in 0 .. 4 : x # m => Digit(s2, x) = Digit(s, x))
      /\ Rest(s2) = Rest(s) + (w - Digit(s, m)) * Weight(m)
  <2> HIDE DEF s, m
  <2>1. s \in Dividing /\ m \in 0 .. 4 /\ w \in Word
    BY <1>1, <1>2, <1>5
  <2>2. Replaced(s, m, w, SetDigit(s, m, w))
    BY ONLY <2>1, DigitReplaced
  <2> QED
    BY <2>2, Zenon DEF Replaced
<1>7. Weight(m) = W * V /\ Weight(m + 1) = Base * (W * V)
  <2>1. Weight(j + i) = Weight(j) * Weight(i)
    <3>1. j + i <= 4
      BY <1>2
    <3> QED
      BY <1>2, <3>1, WeightsMultiply
  <2>2. Weight(m + 1) = Base * Weight(m)
    <3> HIDE DEF m
    <3> QED
      BY <1>2, NextWeight
  <2> QED
    BY <2>1, <2>2, Zenon
<1>8. Low(v, i + 1) = L + u * V
  BY LowIs DEF u
<1>9. /\ S \in Int /\ L \in Int /\ V \in Int /\ W \in Int /\ w \in Int /\ k \in Int /\ b \in Int
      /\ g \in Int /\ u \in Int /\ -k \in Int /\ -b \in Int /\ -1 \in Int
  <2>1. S \in Int /\ L \in Int /\ V \in Int /\ W \in Int
    BY <1>2, DividingIs, LowIs, Weights
  <2>2. w \in Int
    BY <1>5, BaseType DEF Word
  <2> QED
    BY <1>1, <1>4, <1>5, <2>1, <2>2
<1> HIDE DEF s, s2, next, W, V, L, S
<1>10. TakesAway(S, -1, L, u, V, W, -k, -b, w, g)
  <2>1. (g - (-k)) - (-1) * u = w - Base * (-b)
    <3> DEFINE x == Base * b
    <3>1. x \in Int /\ Base * (-b) = -x
      BY <1>9, BaseType
    <3>2. g + u + k = w + x
      BY <1>5
    <3> HIDE DEF x
    <3>3. (g - (-k)) - (-1) * u = w - (-x)
      BY <1>9, <3>1, <3>2
    <3> QED
      BY <3>1, <3>3, Zenon
  <2> QED
    BY ONLY <1>9, <2>1, SubAdds
<1>11. Rest(s2) = (S - ((-1) * Low(v, i + 1)) * W) + (-b) * Weight(j + (i + 1))
  <2>1. Rest(s2) = ((S - ((-1) * L) * W) + (-k) * (W * V)) + (w - g) * (W * V)
    BY <1>1, <1>4, <1>6, <1>7, Zenon
  <2>2. Rest(s2) = (S - ((-1) * (L + u * V)) * W) + (-b) * (Base * (W * V))
    BY <1>10, <2>1, Zenon DEF TakesAway
  <2> QED
    BY <1>2, <1>7, <1>8, <2>2, Zenon
<1>12. ASSUME NEW x \in 0 .. 4, x >= j + (i + 1) PROVE Digit(s2, x) = Digit(st, x)
  <2>1. x # m /\ x >= m
    BY <1>12
  <2>2. Digit(s2, x) = Digit(s, x) /\ Digit(s, x) = Digit(st, x)
    BY <1>1, <1>6, <2>1
  <2> QED
    BY <2>2
<1>13. next.state = s2 /\ next.k = b
  BY <1>3
<1>14. s2.quotient = st.quotient
  BY <1>1, <1>6, Zenon
<1> QED
  BY <1>5, <1>6, <1>11, <1>12, <1>13, <1>14, Zenon DEF AddInv, next, S, W

\* The divisor is added, up to a carry out of the word at its head.
AddedBack(st, j, n, d, next) ==
    /\ next \in Dividing /\ next.quotient = st.quotient /\ Clear(next, j + n)
    /\ \/ Rest(next) = Rest(st) + d
       \/ Rest(next) = (Rest(st) + d) - Base * Weight(j + n)

LEMMA Added ==
  ASSUME NEW st \in Dividing, NEW v, NEW n \in 2 .. 4, NEW j \in 0 .. 2, j + n < 4,
         Normal(v, n), Clear(st, j + n)
  PROVE  AddedBack(st, j, n, At(v, j), AddBack(st, j, n, v))
<1>1. v \in Number /\ n \in 0 .. 4 /\ j + n \in 0 .. 4 /\ j \in 0 .. 4 /\ j + n \in Index
      /\ j + n # NUM_WORDS /\ j + n <= 4 /\ \A i \in Index : i >= n => v[i] = 0
  BY WidthType DEF Normal
<1>2. PICK f : AddSteps(st, j, n, v, f)
  BY <1>1, AddStepsExist
<1> DEFINE h == Digit(st, j + n)
           z == AddBack(st, j, n, v)
<1>3. /\ z = SetDigit(f[n].state, j + n, lo(h + f[n].k))
      /\ f[0] = [state |-> st, k |-> 0]
      /\ \A i \in 0 .. n : i # 0 => f[i] = AddStep(j, v, f[i - 1], i)
  <2>1. h = st.dividend[j + n]
    BY <1>1, Zenon DEF Digit
  <2> QED
    BY <1>1, <1>2, <2>1, Zenon DEF AddSteps
<1> DEFINE Inv(i) == AddInv(st, j, v, f[i], i)
<1>4. Inv(0)
  <2>1. f[0].state = st /\ f[0].k = 0
    BY <1>3
  <2>2. 0 \in {0, 1}
    OBVIOUS
  <2>3. Rest(st) = (Rest(st) - ((-1) * Low(v, 0)) * Weight(j)) + (-0) * Weight(j + 0)
    <3>1. Low(v, 0) = 0 /\ j + 0 = j
      BY <1>1, LowIs
    <3>2. Weight(j) \in Int /\ Rest(st) \in Int
      BY <1>1, Weights, DividingIs
    <3>3. ((-1) * 0) * Weight(j) = 0 /\ (-0) * Weight(j) = 0
      BY <3>2
    <3> QED
      BY <3>1, <3>2, <3>3
  <2> QED
    BY <2>1, <2>2, <2>3, Zenon DEF AddInv
<1>5. ASSUME NEW i \in 0 .. 3, i < n, Inv(i) PROVE Inv(i + 1)
  <2>1. i + 1 \in 0 .. n /\ i + 1 # 0 /\ (i + 1) - 1 = i
    BY <1>5
  <2>2. f[i + 1] = AddStep(j, v, f[(i + 1) - 1], i + 1)
    BY <1>3, <2>1, Zenon
  <2>3. f[i + 1] = AddStep(j, v, f[i], i + 1)
    BY <2>1, <2>2, Zenon
  <2>4. AddInv(st, j, v, AddStep(j, v, f[i], i + 1), i + 1)
    BY <1>1, <1>5, AddGoesOn
  <2> QED
    BY <2>3, <2>4, Zenon
<1>6. Inv(n)
  <2> HIDE DEF Inv
  <2> DEFINE G == {i \in Nat : i <= n => Inv(i)}
  <2>1. 0 \in G
    BY <1>4
  <2>2. ASSUME NEW i \in G, i < n PROVE i + 1 \in G
    <3>1. i \in 0 .. 3 /\ Inv(i)
      BY <2>2
    <3>2. Inv(i + 1)
      BY <1>5, <2>2, <3>1
    <3> QED
      BY <3>1, <3>2
  <2>3. 0 .. n \subseteq G
    <3>1. n \in Nat /\ G \in SUBSET Nat
      OBVIOUS
    <3> HIDE DEF G
    <3> QED
      BY <2>1, <2>2, <3>1, UpTo
  <2>4. n \in G
    <3>1. n \in 0 .. n
      OBVIOUS
    <3> HIDE DEF G
    <3> QED
      BY <2>3, <3>1
  <2> QED
    BY <2>4
<1> DEFINE s == f[n].state
           k == f[n].k
           t == h + k
           w == lo(t)
           o == hi(t)
           W == Weight(j + n)
           d == At(v, j)
           S == Rest(st)
<1>7. /\ s \in Dividing /\ s.quotient = st.quotient /\ k \in {0, 1}
      /\ (\A x \in 0 .. 4 : x >= j + n => Digit(s, x) = Digit(st, x))
      /\ Rest(s) = (S - ((-1) * Low(v, n)) * Weight(j)) + (-k) * W
  BY <1>6, Zenon DEF AddInv
<1>8. ((-1) * Low(v, n)) * Weight(j) = -d /\ d \in Int
  <2>1. Low(v, n) = Value(v)
    BY <1>1, LowWhole
  <2> DEFINE x == Value(v)
             y == Weight(j)
  <2>2. x \in Int /\ y \in Int
    BY <1>1, ValueType, Weights
  <2> HIDE DEF x, y
  <2>3. ((-1) * x) * y = -(x * y) /\ x * y \in Int
    BY <2>2
  <2> QED
    BY <2>1, <2>3, Zenon DEF x, y, At
<1>9. h \in Nat /\ h < Base /\ W \in Int /\ S \in Nat
  BY <1>1, DigitType, Weights, DividingIs
<1>10. w \in Word /\ o \in {0, 1} /\ t = w + Base * o
  <2> HIDE DEF h, k
  <2>1. 0 \in Nat /\ 0 < Base /\ h + 0 + k = h + k
    BY <1>7, <1>9, BaseType
  <2>2. /\ lo(h + 0 + k) \in Word /\ hi(h + 0 + k) \in {0, 1}
        /\ h + 0 + k = lo(h + 0 + k) + Base * hi(h + 0 + k)
    BY <1>7, <1>9, <2>1, CarryIs
  <2> QED
    BY <2>1, <2>2, Zenon
<1>11. z = SetDigit(s, j + n, w)
  BY <1>3
<1> HIDE DEF z, h, s, k, w, o, W, d, S
<1>12. /\ z \in Dividing /\ z.quotient = s.quotient
       /\ (\A x \in 0 .. 4 : x # j + n => Digit(z, x) = Digit(s, x))
       /\ Rest(z) = Rest(s) + (w - Digit(s, j + n)) * W
  <2> DEFINE y == SetDigit(s, j + n, w)
  <2>1. /\ y \in Dividing /\ y.quotient = s.quotient
        /\ (\A x \in 0 .. 4 : x # j + n => Digit(y, x) = Digit(s, x))
        /\ Rest(y) = Rest(s) + (w - Digit(s, j + n)) * Weight(j + n)
    <3> DEFINE m == j + n
    <3>1. s \in Dividing /\ m \in 0 .. 4 /\ w \in Word
      BY <1>1, <1>7, <1>10
    <3> HIDE DEF m, s, w
    <3>2. Replaced(s, m, w, SetDigit(s, m, w))
      BY ONLY <3>1, DigitReplaced
    <3> QED
      BY <3>2, Zenon DEF m, Replaced
  <2>2. z = y
    BY <1>11
  <2> HIDE DEF y
  <2> QED
    BY <2>1, <2>2, Zenon DEF W
<1>13. Digit(s, j + n) = h
  BY <1>1, <1>7 DEF h
<1>14. w \in Int /\ k \in Int /\ h \in Int /\ o \in Int /\ Base \in Int
  BY <1>7, <1>9, <1>10, BaseType DEF Word
<1>15. Rest(z) = (S + d) - (Base * o) * W
  <2>1. Rest(z) = ((S - (-d)) + (-k) * W) + (w - h) * W
    BY <1>7, <1>8, <1>12, <1>13, Zenon
  <2> DEFINE x == Base * o
             a == (-k) * W
             b == (w - h) * W
             c == x * W
  <2>2. x \in Int /\ w - h = k - x
    <3>1. x \in Int
      BY <1>14
    <3>2. h + k = w + x
      BY <1>10
    <3> HIDE DEF x
    <3> QED
      BY <1>14, <3>1, <3>2
  <2> HIDE DEF x
  <2>3. b = (k - x) * W /\ (k - x) * W = k * W - c /\ a = -(k * W) /\ k * W \in Int /\ c \in Int
    BY <1>9, <1>14, <2>2
  <2> DEFINE e == k * W
  <2>4. b = e - c /\ a = -e /\ e \in Int /\ c \in Int
    BY <2>3
  <2> HIDE DEF a, b, c, e
  <2>5. ((S - (-d)) + a) + b = (S + d) - c
    BY <1>8, <1>9, <2>4
  <2> QED
    BY <2>1, <2>5, Zenon DEF a, b, c, x
<1>16. Clear(z, j + n)
  <2> SUFFICES ASSUME NEW x \in 0 .. 4, x > j + n PROVE Digit(z, x) = 0
    BY DEF Clear
  <2>1. x # j + n /\ x >= j + n
    OBVIOUS
  <2>2. Digit(z, x) = Digit(s, x) /\ Digit(s, x) = Digit(st, x)
    BY <1>7, <1>12, <2>1
  <2>3. Digit(st, x) = 0
    BY DEF Clear
  <2> QED
    BY <2>2, <2>3
<1>17. Rest(z) = S + d \/ Rest(z) = (S + d) - Base * W
  <2>1. CASE o = 0
    <3>1. (Base * 0) * W = 0
      BY <1>9, <1>14
    <3>2. (S + d) - 0 = S + d
      BY <1>8, <1>9
    <3> QED
      BY <1>15, <2>1, <3>1, <3>2, Zenon
  <2>2. CASE o = 1
    <3>1. Base * 1 = Base
      BY <1>14
    <3> QED
      BY <1>15, <2>2, <3>1, Zenon
  <2> QED
    BY <1>10, <2>1, <2>2
<1>18. z.quotient = st.quotient
  BY <1>7, <1>12, Zenon
<1> QED
  BY <1>12, <1>16, <1>17, <1>18, Zenon DEF AddedBack, d, W, S, z

-----------------------------------------------------------------------------
\* One digit of the quotient.

\* A word of the quotient is set.
LEMMA QuotientSet ==
  ASSUME NEW st \in Dividing, NEW j \in Index, NEW w \in Word
  PROVE  LET next == [st EXCEPT !.quotient[j] = w]
         IN  /\ next \in Dividing /\ Rest(next) = Rest(st)
             /\ next.quotient = [st.quotient EXCEPT ![j] = w]
<1> DEFINE x == st.quotient
           y == [x EXCEPT ![j] = w]
           next == [st EXCEPT !.quotient[j] = w]
<1>1. x \in Number /\ st \in [dividend : Number, quotient : Number, carry : Word]
  BY DividingIs DEF Dividing
<1>2. y \in Number
  BY <1>1, WordReplaced
<1>3. next = [st EXCEPT !.quotient = y]
  BY <1>1
<1> HIDE DEF next, y
<1>4. /\ next \in Dividing /\ next.quotient = y /\ next.dividend = st.dividend
      /\ next.carry = st.carry
  BY <1>1, <1>2, <1>3 DEF Dividing
<1>5. Rest(next) = Rest(st)
  BY <1>4, Zenon DEF Rest
<1> QED
  BY <1>4, <1>5, Zenon DEF next, y

\* A digit q is written at place j, and q times the divisor is gone.
Digits(st, j, d, q, next) ==
    /\ next \in Dividing /\ q \in Word
    /\ next.quotient = [st.quotient EXCEPT ![j] = q]
    /\ Rest(st) = Rest(next) + q * d
    /\ Rest(next) < d

LEMMA DigitIs ==
  ASSUME NEW st \in Dividing, NEW v, NEW n \in 2 .. 4, NEW j \in 0 .. 2, j + n <= 4,
         Normal(v, n), Clear(st, j + n), Rest(st) < Base * At(v, j)
  PROVE  LET next == div_loop(st, j, n, v)
         IN  \/ next = Panic /\ j + n = 4 /\ n >= 3
             \/ \E q : Digits(st, j, At(v, j), q, next)
<1> DEFINE q == EstimateQuotient(st, j, n, v)
           r == MultiplySubtract(st, j, n, v, q)
           a == AddBack(r.state, j, n, v)
           d == At(v, j)
           S == Rest(st)
           M == Base * Weight(j + n)
           next == div_loop(st, j, n, v)
<1>1. /\ q \in Nat /\ q < Base /\ S < (q + 1) * d /\ q * d <= S + d
      /\ (n = 2 => q * d <= S)
  BY DigitEstimated
<1>2. TakenAway(st, j, n, q * d, r)
  <2> HIDE DEF q
  <2> QED
    BY <1>1, Subtracted
<1>3. next = IF ~r.too_large THEN [r.state EXCEPT !.quotient[j] = lo(q)]
             ELSE IF a = Panic THEN Panic
             ELSE [a EXCEPT !.quotient[j] = lo(q - 1)]
  BY Zenon DEF div_loop
<1>4. j \in Index /\ j \in 0 .. 4 /\ j + n \in 0 .. 4
  BY WidthType
<1>5. S \in Nat /\ d \in Int /\ M \in Int /\ Base \in Nat
  <2>1. v \in Number
    BY DEF Normal
  <2>2. Value(v) \in Int /\ Weight(j) \in Int /\ Weight(j + n) \in Int /\ Base \in Nat
    BY <1>4, <2>1, ValueType, Weights, BaseType
  <2>3. Value(v) * Weight(j) \in Int /\ Base * Weight(j + n) \in Int
    BY <2>2
  <2> QED
    BY <2>2, <2>3, DividingIs DEF At
<1> HIDE DEF q, r, a, d, S, M, next
<1>6. q * d \in Int /\ (q + 1) * d = q * d + d
  BY <1>1, <1>5
<1>7. ASSUME ~r.too_large PROVE \E x : Digits(st, j, d, x, next)
  <2>1. r.state \in Dividing /\ r.state.quotient = st.quotient /\ Rest(r.state) = S - q * d
    BY <1>2, <1>7, Zenon DEF TakenAway, S
  <2>2. lo(q) = q /\ q \in Word
    <3>1. lo(q) = q
      BY <1>1, LoOfWord
    <3> QED
      BY <1>1, <1>5, <3>1 DEF Word
  <2>3. next = [r.state EXCEPT !.quotient[j] = q]
    BY <1>3, <1>7, <2>2, Zenon
  <2>4. /\ next \in Dividing /\ Rest(next) = Rest(r.state)
        /\ next.quotient = [st.quotient EXCEPT ![j] = q]
    <3> DEFINE s == r.state
    <3>1. s \in Dividing
      BY <2>1
    <3> HIDE DEF s
    <3>2. /\ [s EXCEPT !.quotient[j] = q] \in Dividing
          /\ Rest([s EXCEPT !.quotient[j] = q]) = Rest(s)
          /\ [s EXCEPT !.quotient[j] = q].quotient = [s.quotient EXCEPT ![j] = q]
      BY <1>4, <2>2, <3>1, QuotientSet
    <3>3. next = [s EXCEPT !.quotient[j] = q] /\ s.quotient = st.quotient
      BY <2>1, <2>3, Zenon DEF s
    <3> QED
      BY <3>2, <3>3, Zenon DEF s
  <2> DEFINE x == Rest(next)
             e == q * d
             f == (q + 1) * d
  <2>5. x = S - e /\ e \in Int /\ f = e + d /\ S < f
    BY <1>1, <1>6, <2>1, <2>4
  <2> HIDE DEF x, e, f
  <2>6. S = x + e /\ x < d
    BY <1>5, <2>5
  <2>7. Digits(st, j, d, q, next)
    BY <2>2, <2>4, <2>6, Zenon DEF Digits, x, e, S
  <2> QED
    BY <2>7
<1>8. ASSUME r.too_large
      PROVE  \/ next = Panic /\ j + n = 4 /\ n >= 3
             \/ \E x : Digits(st, j, d, x, next)
  <2>1. /\ r.state \in Dividing /\ r.state.quotient = st.quotient /\ Clear(r.state, j + n)
        /\ S < q * d /\ Rest(r.state) = (S - q * d) + M
    BY <1>2, <1>8, Zenon DEF TakenAway, S, M
  <2>2. n >= 3
    <3>1. n # 2
      <4> DEFINE e == q * d
      <4>1. S < e /\ (n = 2 => e <= S) /\ e \in Int
        BY <1>1, <1>6, <2>1
      <4> HIDE DEF e
      <4> QED
        BY <1>5, <4>1
    <3> QED
      BY <3>1
  <2>3. CASE j + n = 4
    <3>1. j + n \notin Index
      BY <2>3, WidthType
    <3>2. a = Panic
      BY <3>1, Zenon DEF a, AddBack
    <3>3. next = Panic
      BY <1>3, <1>8, <3>2, Zenon
    <3> QED
      BY <2>2, <2>3, <3>3
  <2>4. CASE j + n # 4
    <3>1. j + n < 4
      BY <2>4
    <3>2. AddedBack(r.state, j, n, d, a)
      <4> DEFINE s == r.state
      <4>1. s \in Dividing /\ Clear(s, j + n)
        BY <2>1
      <4> HIDE DEF s
      <4>2. AddedBack(s, j, n, At(v, j), AddBack(s, j, n, v))
        BY <3>1, <4>1, Added
      <4> QED
        BY <4>2, Zenon DEF s, d, a
    <3>3. /\ a \in Dividing /\ a.quotient = st.quotient /\ Clear(a, j + n)
          /\ (Rest(a) = Rest(r.state) + d \/ Rest(a) = (Rest(r.state) + d) - M)
      BY <2>1, <3>2, Zenon DEF AddedBack, M
    <3>4. Rest(a) < M
      BY <1>4, <3>3, RestBelow DEF M
    <3> DEFINE e == q * d
               x == Rest(a)
    <3>5. /\ e \in Int /\ e <= S + d /\ S < e /\ x < M
          /\ (x = ((S - e) + M) + d \/ x = (((S - e) + M) + d) - M)
      BY <1>1, <1>6, <2>1, <3>3, <3>4
    <3>6. (q - 1) * d = e - d
      BY <1>1, <1>5
    <3>7. q >= 1
      <4>1. ASSUME q = 0 PROVE FALSE
        <5>1. e = 0
          BY <1>5, <4>1
        <5> HIDE DEF e
        <5> QED
          BY <1>5, <3>5, <5>1
      <4> QED
        BY <1>1, <4>1
    <3> HIDE DEF e, x
    <3>8. x = (S - e) + d /\ x < d /\ S = x + (e - d)
      BY <1>5, <3>5
    <3> DEFINE p == q - 1
    <3>9. lo(p) = p /\ p \in Word
      <4>1. p \in Nat /\ p < Base
        BY <1>1, <1>5, <3>7
      <4> HIDE DEF p
      <4>2. lo(p) = p
        BY <4>1, LoOfWord
      <4> QED
        BY <1>5, <4>1, <4>2 DEF Word
    <3>10. a # Panic
      BY <3>3, DividingIs
    <3>11. next = [a EXCEPT !.quotient[j] = p]
      BY <1>3, <1>8, <3>9, <3>10, Zenon
    <3> HIDE DEF p
    <3>12. /\ next \in Dividing /\ Rest(next) = x
           /\ next.quotient = [st.quotient EXCEPT ![j] = p]
      <4>1. /\ [a EXCEPT !.quotient[j] = p] \in Dividing
            /\ Rest([a EXCEPT !.quotient[j] = p]) = Rest(a)
            /\ [a EXCEPT !.quotient[j] = p].quotient = [a.quotient EXCEPT ![j] = p]
        BY <1>4, <3>3, <3>9, QuotientSet
      <4> QED
        BY <3>3, <3>11, <4>1, Zenon DEF x
    <3>13. Digits(st, j, d, p, next)
      <4>1. S = x + p * d
        BY <3>6, <3>8, Zenon DEF p
      <4> QED
        BY <3>8, <3>9, <3>12, <4>1, Zenon DEF Digits, S
    <3> QED
      BY <3>13
  <2> QED
    BY <2>3, <2>4
<1>9. \/ next = Panic /\ j + n = 4 /\ n >= 3
      \/ \E x : Digits(st, j, d, x, next)
  BY <1>7, <1>8
<1> QED
  BY <1>9, Zenon DEF d, next

-----------------------------------------------------------------------------
\* Both numbers are shifted until the highest bit of the divisor is set.

LEMMA PowersGrow ==
  ASSUME NEW m \in Nat, NEW n \in Nat, m <= n, n <= 4 * U64_RESOLUTION
  PROVE  Pow2[m] <= Pow2[n]
<1> DEFINE d == n - m
           R == U64_RESOLUTION
<1>1. d \in Nat /\ m + d = n /\ R \in Nat
  BY WidthType
<1> HIDE DEF d, R
<1>2. m + d <= 4 * U64_RESOLUTION /\ m <= 4 * U64_RESOLUTION /\ d <= 4 * U64_RESOLUTION
  BY <1>1, WidthType
<1>3. Pow2[m + d] = Pow2[m] * Pow2[d]
  BY <1>1, <1>2, PowersMultiply
<1>4. Pow2[n] = Pow2[m] * Pow2[d]
  BY <1>1, <1>3, Zenon
<1>5. Pow2[m] \in Nat \ {0} /\ Pow2[d] \in Nat \ {0}
  BY <1>1, <1>2, PowerType
<1> QED
  BY <1>4, <1>5

LEMMA LeadingZerosIs ==
  ASSUME NEW w \in Nat \ {0}, w < Base
  PROVE  LET s == leading_zeros(w)
         IN  /\ s \in 0 .. U64_RESOLUTION - 1
             /\ w < Pow2[U64_RESOLUTION - s]
             /\ Base <= 2 * (w * Pow2[s])
<1> DEFINE R == U64_RESOLUTION
           T == {k \in 0 .. R : w < Pow2[k]}
           k == Min(T)
           s == R - k
<1>1. R \in Nat \ {0} /\ Pow2[R] = Base
  BY WidthType, BaseType
<1>2. T \in SUBSET Nat /\ R \in T
  <2> HIDE DEF R
  <2> QED
    BY <1>1
<1>3. k \in T /\ \A y \in T : k <= y
  <2>1. T # {}
    BY <1>2
  <2> HIDE DEF T
  <2> QED
    BY <1>2, <2>1, LeastIs
<1>4. k \in 0 .. R /\ w < Pow2[k]
  <2> HIDE DEF k
  <2> QED
    BY <1>3
<1>5. leading_zeros(w) = s
  BY Zenon DEF leading_zeros
<1> HIDE DEF k
<1>6. k # 0
  <2>1. Pow2[0] = 1
    BY PowerIs
  <2> QED
    BY <1>4, <2>1
<1> DEFINE m == k - 1
<1>7. m \in 0 .. R /\ m \in Nat /\ m < k /\ k \in 1 .. 4 * R /\ m + 1 = k /\ k \in Nat /\ s \in 0 .. R - 1
      /\ k + s = R /\ s \in Nat /\ R - s = k /\ k + s <= 4 * R /\ s <= 4 * R /\ m <= 4 * R
  <2> HIDE DEF R
  <2> QED
    BY <1>1, <1>4, <1>6
<1> HIDE DEF R
<1>8. Pow2[m] <= w /\ Pow2[m] \in Nat
  <2>1. m \notin T
    <3>1. ASSUME m \in T PROVE FALSE
      <4>1. k <= m
        BY <1>3, <3>1
      <4> QED
        BY <1>7, <4>1
    <3> QED
      BY <3>1
  <2>2. ~(w < Pow2[m])
    BY <1>7, <2>1
  <2>3. Pow2[m] \in Nat
    BY <1>7, PowerType DEF R
  <2> QED
    BY <2>2, <2>3
<1>9. Pow2[k] = 2 * Pow2[m]
  <2>1. \A i \in 1 .. NUM_WORDS * U64_RESOLUTION : Pow2[i] = 2 * Pow2[i - 1]
    BY PowerIs
  <2>2. k \in 1 .. NUM_WORDS * U64_RESOLUTION
    BY <1>7, WidthType DEF R
  <2> QED
    BY <2>1, <2>2
<1>10. Base = Pow2[k] * Pow2[s] /\ Pow2[s] \in Nat \ {0}
  <2>1. Pow2[k + s] = Pow2[k] * Pow2[s]
    BY <1>7, PowersMultiply DEF R
  <2>2. Pow2[s] \in Nat \ {0}
    BY <1>7, PowerType DEF R
  <2> QED
    BY <1>1, <1>7, <2>1, <2>2
<1>11. Base <= 2 * (w * Pow2[s])
  <2> DEFINE a == Pow2[m]
             p == Pow2[s]
  <2>1. a \in Nat /\ p \in Nat /\ a <= w /\ Base = (2 * a) * p
    BY <1>8, <1>9, <1>10
  <2> HIDE DEF a, p
  <2>2. a * p <= w * p /\ (2 * a) * p = 2 * (a * p) /\ a * p \in Int /\ w * p \in Int
    BY <2>1
  <2>3. Base <= 2 * (w * p)
    BY <2>1, <2>2
  <2> QED
    BY <2>3 DEF p
<1> HIDE DEF s
<1>12. s \in 0 .. U64_RESOLUTION - 1 /\ w < Pow2[U64_RESOLUTION - s]
  BY <1>4, <1>7 DEF R
<1> QED
  BY <1>5, <1>11, <1>12, Zenon

LEMMA ZerosShift ==
  ASSUME NEW s \in 0 .. U64_RESOLUTION - 1
  PROVE  /\ Pow2[s] \in Nat \ {0} /\ Pow2[U64_RESOLUTION - s] \in Nat \ {0}
         /\ Pow2[s] * Pow2[U64_RESOLUTION - s] = Base
         /\ s \in 0 .. 4 * U64_RESOLUTION /\ s \in Nat
<1> DEFINE R == U64_RESOLUTION
           d == R - s
<1>1. R \in Nat \ {0} /\ Pow2[R] = Base
  BY WidthType, BaseType
<1>2. s \in Nat /\ d \in Nat /\ s + d = R /\ s <= 4 * R /\ d <= 4 * R /\ R <= 4 * R
      /\ s \in 0 .. 4 * R
  <2>1. s \in 0 .. R - 1
    OBVIOUS
  <2> HIDE DEF R
  <2> QED
    BY <1>1, <2>1
<1> HIDE DEF d, R
<1>3. Pow2[s + d] = Pow2[s] * Pow2[d]
  BY <1>2, PowersMultiply DEF R
<1>4. Pow2[s] \in Nat \ {0} /\ Pow2[d] \in Nat \ {0}
  BY <1>2, PowerType DEF R
<1> QED
  BY <1>1, <1>2, <1>3, <1>4, Zenon DEF d, R

LEMMA DivisorShifted ==
  ASSUME NEW y \in Number, num_words(y) > 1
  PROVE  LET n == num_words(y)
             s == leading_zeros(y[n - 1])
         IN  /\ n \in 2 .. 4 /\ s \in 0 .. U64_RESOLUTION - 1
             /\ Normal(shift_left(y, s), n)
             /\ Value(shift_left(y, s)) = Value(y) * Pow2[s]
<1> DEFINE n == num_words(y)
           w == y[n - 1]
           s == leading_zeros(w)
           v == shift_left(y, s)
           l == Low(y, n - 1)
           W == Weight(n - 1)
           b == Value(y)
           p == Pow2[s]
           q == Pow2[U64_RESOLUTION - s]
<1>1. /\ n \in 0 .. 4 /\ n > 1
      /\ (n > 0 => n - 1 \in Index /\ w \in Nat \ {0} /\ b = l + w * W)
  BY UseBounds
<1> HIDE DEF n
<1>2. n \in 2 .. 4 /\ n - 1 \in 0 .. 3 /\ n - 1 \in 0 .. 4 /\ n > 0 /\ (n - 1) + 1 = n
  BY <1>1
<1>3. n - 1 \in Index /\ w \in Nat \ {0} /\ b = l + w * W
  BY <1>1, <1>2
<1>4. w < Base /\ l \in Nat /\ l < W /\ W \in Nat \ {0} /\ b \in Nat /\ Base \in Nat
  BY <1>2, <1>3, WordIs, LowIs, Weights, ValueType, BaseType
<1> HIDE DEF w
<1>5. s \in 0 .. U64_RESOLUTION - 1 /\ w < q /\ Base <= 2 * (w * p)
  BY <1>3, <1>4, LeadingZerosIs
<1> HIDE DEF s
<1>6. p \in Nat \ {0} /\ q \in Nat \ {0} /\ p * q = Base /\ s \in 0 .. 4 * U64_RESOLUTION
  BY <1>5, ZerosShift
<1>7. Value(v) = (b * p) % Modulus /\ v \in Number
  BY <1>6, ShiftsExact
<1>8. Base * W = Weight(n)
  <2>1. Weight((n - 1) + 1) = Base * Weight(n - 1)
    BY <1>2, NextWeight
  <2> QED
    BY <1>2, <2>1, Zenon
<1> HIDE DEF v, l, W, b, p, q
<1>9. w * p + p <= Base
  <2>1. (w % q) * p + p <= Base
    BY <1>3, <1>4, <1>6, BitsSplit
  <2>2. w % q = w
    BY <1>3, <1>5, <1>6, BelowDivisor
  <2> QED
    BY <2>1, <2>2
<1> DEFINE e == w * p
<1>10. b * p = l * p + e * W /\ e \in Nat
  <2>1. e \in Nat /\ w * W \in Nat
    BY <1>3, <1>4, <1>6
  <2> DEFINE x == w * W
  <2>2. x * p = e * W
    BY <1>3, <1>4, <1>6
  <2> HIDE DEF x, e
  <2>3. (l + x) * p = l * p + x * p
    BY <1>4, <1>6, <2>1 DEF x
  <2> QED
    BY <1>3, <2>1, <2>2, <2>3, Zenon DEF x
<1>11. e + p <= Base /\ Base <= 2 * e
  BY <1>5, <1>9
<1> HIDE DEF e
<1> DEFINE bp == b * p
           lp == l * p
           eW == e * W
<1>12. bp \in Nat /\ lp \in Nat /\ eW \in Nat /\ bp = lp + eW
  BY <1>4, <1>6, <1>10
<1>13. bp < Weight(n)
  <2> DEFINE Wp == W * p
             M == Base * W
  <2>1. lp < Wp
    BY <1>4, <1>6
  <2>2. eW + Wp <= M
    <3>1. (e + p) * W <= Base * W
      <4> DEFINE g == e + p
      <4>1. g \in Nat /\ g <= Base
        BY <1>6, <1>10, <1>11
      <4> HIDE DEF g
      <4>2. g * W <= Base * W
        BY <1>4, <4>1
      <4> QED
        BY <4>2 DEF g
    <3>2. (e + p) * W = e * W + W * p
      BY <1>4, <1>6, <1>10
    <3> QED
      BY <3>1, <3>2
  <2>3. Wp \in Nat /\ M \in Nat
    BY <1>4, <1>6
  <2> HIDE DEF bp, lp, eW, Wp, M
  <2>4. bp < M
    BY <1>12, <2>1, <2>2, <2>3
  <2> QED
    BY <1>8, <2>4 DEF M
<1> HIDE DEF bp, lp, eW
<1>14. Value(v) = bp
  <2>1. Weight(n) <= Weight(4) /\ Weight(4) = Modulus /\ Weight(n) \in Nat /\ Modulus \in Nat
    <3>1. n \in 0 .. 4 /\ 4 \in 0 .. 4 /\ n <= 4
      BY <1>1
    <3> QED
      BY <3>1, WeightsGrow, Weights, BaseType
  <2> DEFINE M == Modulus
             Wn == Weight(n)
  <2>2. bp < M /\ M \in Nat /\ M > 0
    <3>1. bp < Wn /\ Wn <= M /\ Wn \in Nat /\ M \in Nat
      BY <1>13, <2>1
    <3> HIDE DEF M, Wn
    <3> QED
      BY <1>12, <3>1
  <2> HIDE DEF M
  <2>3. bp \in 0 .. M - 1
    BY <1>12, <2>2
  <2>4. bp \in U256
    BY <2>3 DEF M, U256
  <2>5. bp % Modulus = bp
    BY <2>4, FitsIn
  <2> QED
    BY <1>7, <2>5, Zenon DEF bp
<1>15. \A i \in Index : i >= n => v[i] = 0
  <2>1. Value(v) < Weight(n) /\ n \in 0 .. 4
    BY <1>1, <1>13, <1>14, Zenon
  <2> QED
    BY <1>7, <2>1, FitsValue
<1> DEFINE u == v[n - 1]
           k == Low(v, n - 1)
<1>16. bp = k + u * W /\ k \in Nat /\ k < W /\ u \in Nat
  <2>1. Low(v, n) = Value(v)
    BY <1>1, <1>7, <1>15, LowWhole
  <2>2. Low(v, (n - 1) + 1) = k + u * Weight(n - 1)
    BY <1>2, <1>7, LowIs
  <2>3. k \in Nat /\ k < Weight(n - 1)
    BY <1>2, <1>7, LowIs
  <2>4. u \in Nat
    BY <1>3, <1>7, WordIs
  <2>5. Low(v, n) = k + u * Weight(n - 1)
    BY <1>2, <2>2, Zenon
  <2> QED
    BY <1>14, <2>1, <2>3, <2>4, <2>5, Zenon DEF W
<1> HIDE DEF u, k
<1>17. e <= u
  <2>1. ASSUME e >= u + 1 PROVE FALSE
    <3>1. e * W >= (u + 1) * W /\ (u + 1) * W = u * W + W
      BY <1>4, <1>10, <1>16, <2>1
    <3>2. u * W \in Nat
      BY <1>4, <1>16
    <3> QED
      BY <1>4, <1>12, <1>16, <3>1, <3>2 DEF eW
  <2> QED
    BY <1>10, <1>16, <2>1
<1>18. Base <= 2 * u
  BY <1>4, <1>10, <1>11, <1>16, <1>17
<1>19. Normal(v, n)
  BY <1>2, <1>7, <1>15, <1>18, Zenon DEF Normal, u
<1> QED
  BY <1>2, <1>5, <1>14, <1>19, Zenon DEF v, b, bp, p, s, w, n

\* The word in front: what the shift drops from the highest word, if that is in use.
CarrySpace(x, m, s) ==
    IF m = NUM_WORDS /\ leading_zeros(x[m - 1]) < s
    THEN x[m - 1] \div Pow2[U64_RESOLUTION - s] ELSE 0

LEMMA DividendShifted ==
  ASSUME NEW x \in Number, num_words(x) >= 3, NEW s \in 0 .. U64_RESOLUTION - 1
  PROVE  LET c == CarrySpace(x, num_words(x), s)
         IN  /\ c \in Word
             /\ Value(shift_left(x, s)) + Modulus * c = Value(x) * Pow2[s]
<1> DEFINE m == num_words(x)
           a == Value(x)
           p == Pow2[s]
           q == Pow2[U64_RESOLUTION - s]
           v == shift_left(x, s)
           c == CarrySpace(x, m, s)
           W == Weight(3)
           M == Modulus
<1>1. m \in 0 .. 4 /\ m >= 3 /\ a < Weight(m) /\ a \in Nat
      /\ (m > 0 => m - 1 \in Index /\ x[m - 1] \in Nat \ {0})
  BY UseBounds, ValueType
<1>2. /\ p \in Nat \ {0} /\ q \in Nat \ {0} /\ p * q = Base /\ s \in 0 .. 4 * U64_RESOLUTION
      /\ s \in Nat
  BY ZerosShift
<1>3. Value(v) = (a * p) % M /\ v \in Number
  BY <1>2, ShiftsExact
<1>4. W \in Nat \ {0} /\ M \in Nat \ {0} /\ Base \in Nat /\ Base >= 2 /\ M = Base * W
  <2>1. Weight(3) \in Nat \ {0} /\ Weight(4) = Modulus /\ Base \in Nat /\ Base >= 2
        /\ Modulus \in Nat \ {0}
    BY Weights, BaseType
  <2>2. Weight(3 + 1) = Base * Weight(3) /\ 3 + 1 = 4
    BY NextWeight
  <2> QED
    BY <2>1, <2>2, Zenon
<1> HIDE DEF m, a, p, q, v, c, W, M
<1>5. CASE m = 3
  <2>1. c = 0
    <3>1. m # NUM_WORDS
      BY <1>5, WidthType
    <3> QED
      BY <3>1, Zenon DEF c, CarrySpace
  <2>2. a * p < M /\ a * p \in Nat
    <3>1. a < W
      BY <1>1, <1>5 DEF W
    <3>2. p <= Base
      BY <1>2
    <3>3. a * p < W * p
      BY <1>1, <1>2, <1>4, <3>1
    <3>4. W * p <= Base * W
      BY <1>2, <1>4, <3>2
    <3>5. a * p \in Nat /\ W * p \in Nat /\ Base * W \in Nat
      BY <1>1, <1>2, <1>4
    <3> DEFINE x1 == a * p
               x2 == W * p
               x3 == Base * W
    <3>6. x1 \in Nat /\ x2 \in Nat /\ x3 \in Nat /\ x1 < x2 /\ x2 <= x3 /\ M = x3
      BY <1>4, <3>3, <3>4, <3>5
    <3> HIDE DEF x1, x2, x3
    <3>7. x1 < M
      BY <3>6
    <3> QED
      BY <3>6, <3>7 DEF x1
  <2> DEFINE e == a * p
  <2>3. e \in Nat /\ e < M
    BY <2>2
  <2> HIDE DEF e
  <2>4. e % M = e
    BY <1>4, <2>3, BelowDivisor
  <2>5. Value(v) = e
    BY <1>3, <2>4, Zenon DEF e
  <2>6. e + M * 0 = e /\ 0 \in Word
    BY <1>4, <2>3 DEF Word
  <2> QED
    BY <2>1, <2>5, <2>6, Zenon DEF e, c, v, m, M, a, p
<1>6. CASE m = 4
  <2> DEFINE t == x[3]
             r == t % q
             d == t \div q
             L == Low(x, 3)
             g == r * p
  <2>1. m - 1 = 3 /\ m = NUM_WORDS /\ t \in Nat \ {0}
    <3>1. m - 1 = 3 /\ m > 0
      BY <1>6
    <3>2. x[m - 1] \in Nat \ {0}
      BY <1>1, <3>1
    <3> QED
      BY <1>6, <3>1, <3>2, WidthType
  <2>2. t < Base
    BY NumberIs
  <2> HIDE DEF t
  <2>3. /\ t * p = g + Base * d /\ g \in Nat /\ g + p <= Base /\ d \in Nat
    <3>1. t \in Nat /\ t < Base /\ p \in Nat \ {0} /\ q \in Nat \ {0} /\ p * q = Base
      BY <1>2, <2>1, <2>2
    <3>2. /\ t * p = (t % q) * p + Base * (t \div q) /\ (t % q) * p \in Nat
          /\ (t % q) * p + p <= Base /\ t \div q \in Nat
      BY ONLY <3>1, BitsSplit
    <3> QED
      BY <3>2, Zenon
  <2>4. d < Base
    <3>1. q * d <= t
      <4>1. t = q * d + r /\ r \in 0 .. q - 1 /\ d \in Nat
        BY <1>2, <2>1, Remainder
      <4> HIDE DEF r, d
      <4>2. q * d \in Nat /\ r \in Nat
        BY <1>2, <4>1
      <4> QED
        BY <4>1, <4>2
    <3>2. d <= q * d /\ q * d \in Nat
      <4> HIDE DEF d
      <4> QED
        BY <1>2, <2>3
    <3> HIDE DEF d
    <3> QED
      BY <1>4, <2>1, <2>2, <2>3, <3>1, <3>2
  <2>5. c = d
    <3> DEFINE z == leading_zeros(t)
    <3>1. c = IF z < s THEN d ELSE 0
      <4>1. x[m - 1] = t
        BY <2>1, Zenon DEF t
      <4> QED
        BY <2>1, <4>1, Zenon DEF c, CarrySpace, q
    <3>2. z \in 0 .. U64_RESOLUTION - 1 /\ t < Pow2[U64_RESOLUTION - z]
      BY <2>1, <2>2, LeadingZerosIs
    <3> HIDE DEF z
    <3>3. CASE ~(z < s)
      <4> DEFINE R == U64_RESOLUTION
      <4>1. R \in Nat
        BY WidthType
      <4>2. R - z \in Nat /\ R - s \in Nat /\ R - z <= R - s /\ R - s <= 4 * R
        <5>1. z \in 0 .. R - 1 /\ s \in 0 .. R - 1
          BY <3>2
        <5> HIDE DEF R
        <5> QED
          BY <3>3, <4>1, <5>1
      <4>3. Pow2[R - z] <= Pow2[R - s]
        BY <4>2, PowersGrow
      <4>4. Pow2[R - z] \in Nat
        <5>1. R - z <= 4 * R
          <6> HIDE DEF R
          <6> QED
            BY <4>1, <4>2
        <5> QED
          BY <4>2, <5>1, PowerType
      <4>5. t < q
        <5> DEFINE pz == Pow2[R - z]
        <5>1. t < pz /\ pz <= q /\ pz \in Nat
          BY <3>2, <4>3, <4>4 DEF q
        <5> HIDE DEF pz
        <5> QED
          BY <1>2, <2>1, <5>1
      <4>6. d = 0
        BY <1>2, <2>1, <4>5, BelowDivisor
      <4> QED
        BY <3>1, <3>3, <4>6
    <3> QED
      BY <3>1, <3>3
  <2>6. L \in Nat /\ L < W /\ a = L + t * W
    <3>1. L \in Nat /\ L < Weight(3)
      BY LowIs
    <3>2. Low(x, 4) = Value(x) /\ Low(x, 3 + 1) = L + x[3] * Weight(3) /\ 3 + 1 = 4
      BY LowIs
    <3> QED
      BY <3>1, <3>2, Zenon DEF a, t, W
  <2> HIDE DEF r, d, L, g
  <2> DEFINE e == L * p + g * W
  <2>7. a * p = e + M * d
    <3> DEFINE h == t * W
               tp == t * p
               f == Base * d
    <3>1. h \in Int /\ f \in Int /\ tp = g + f
      BY <1>4, <2>1, <2>3
    <3>2. h * p = tp * W
      BY <1>2, <1>4, <2>1
    <3>3. f * W = M * d
      <4>1. f * W = (Base * W) * d
        BY <1>4, <2>3
      <4> QED
        BY <1>4, <4>1, Zenon
    <3> HIDE DEF h, tp, f
    <3>4. (L + h) * p = L * p + h * p
      BY <1>2, <2>6, <3>1
    <3>5. (g + f) * W = g * W + f * W
      BY <1>4, <2>3, <3>1
    <3> DEFINE x1 == L * p
               x2 == g * W
               x3 == f * W
    <3>6. x1 \in Int /\ x2 \in Int /\ x3 \in Int
      BY <1>2, <1>4, <2>3, <2>6, <3>1
    <3>7. a * p = x1 + (x2 + x3)
      BY <2>6, <3>1, <3>2, <3>4, <3>5, Zenon DEF h
    <3> HIDE DEF x1, x2, x3
    <3>8. x1 + (x2 + x3) = (x1 + x2) + x3
      BY <3>6
    <3> QED
      BY <3>3, <3>7, <3>8, Zenon DEF x1, x2, x3
  <2>8. e \in Nat /\ e < M
    <3> DEFINE x1 == L * p
               x2 == g * W
               x3 == W * p
               x4 == Base * W
    <3>1. x1 \in Nat /\ x2 \in Nat /\ x3 \in Nat /\ x4 \in Nat
      BY <1>2, <1>4, <2>3, <2>6
    <3>2. x1 < x3
      BY <1>2, <1>4, <2>6
    <3>3. x2 + x3 <= x4
      <4> DEFINE k == g + p
      <4>1. k \in Nat /\ k <= Base
        BY <1>2, <2>3
      <4>2. k * W = g * W + W * p
        BY <1>2, <1>4, <2>3
      <4> HIDE DEF k
      <4>3. k * W <= Base * W
        BY <1>4, <4>1
      <4> QED
        BY <4>2, <4>3
    <3>4. M = x4
      BY <1>4
    <3> HIDE DEF x1, x2, x3, x4
    <3>5. x1 + x2 \in Nat /\ x1 + x2 < M
      BY <3>1, <3>2, <3>3, <3>4
    <3> QED
      BY <3>5 DEF x1, x2
  <2> HIDE DEF e
  <2>9. (e + M * d) % M = e
    <3>1. e \in 0 .. M - 1
      BY <1>4, <2>8
    <3>2. e \in U256 /\ d \in Int
      BY <2>3, <3>1 DEF U256, M
    <3>3. (e + Modulus * d) % Modulus = e
      BY <3>2, WrapsTo
    <3> QED
      BY <3>3, Zenon DEF M
  <2>10. Value(v) = e
    BY <1>3, <2>7, <2>9, Zenon
  <2>11. d \in Word
    BY <1>4, <2>3, <2>4 DEF Word
  <2> QED
    BY <2>5, <2>7, <2>10, <2>11, Zenon DEF c, v, m, M, a, p
<1> QED
  BY <1>1, <1>5, <1>6

-----------------------------------------------------------------------------
\* The digits, from the highest place down.

DigitStep(st, j, n, v) == IF st = Panic THEN Panic ELSE div_loop(st, j, n, v)

DigitLoop(start, m, n, v) ==
    CHOOSE h : h = [j \in 0 .. m |-> IF j = m THEN start ELSE DigitStep(h[j + 1], j, n, v)]

LEMMA DigitLoopIs ==
  ASSUME NEW start, NEW m \in 0 .. 4, NEW n, NEW v
  PROVE  /\ DigitLoop(start, m, n, v)[m] = start
         /\ \A j \in 0 .. 3 : j < m => DigitLoop(start, m, n, v)[j]
                                         = DigitStep(DigitLoop(start, m, n, v)[j + 1], j, n, v)
<1> DEFINE First == start
<1> DEFINE Step(f, j) == IF j = m THEN First ELSE DigitStep(f[j + 1], j, n, v)
           Solves(f) == f = [j \in 0 .. m |-> Step(f, j)]
           r0 == First
           r1 == DigitStep(r0, m - 1, n, v)
           r2 == DigitStep(r1, m - 2, n, v)
           r3 == DigitStep(r2, m - 3, n, v)
           r4 == DigitStep(r3, m - 4, n, v)
           Nth(i) == CASE i = 0 -> r0 [] i = 1 -> r1 [] i = 2 -> r2 [] i = 3 -> r3 [] i = 4 -> r4
           g == [j \in 0 .. m |-> Nth(m - j)]
<1>1. \A j \in 0 .. m : m - j \in {0, 1, 2, 3, 4} /\ (j = m <=> m - j = 0)
  OBVIOUS
<1>2. Solves(g)
  <2>1. Nth(0) = r0 /\ Nth(1) = r1 /\ Nth(2) = r2 /\ Nth(3) = r3 /\ Nth(4) = r4
    <3> HIDE DEF r0, r1, r2, r3, r4
    <3> QED
      OBVIOUS
  <2>2. \A j \in 0 .. m : g[j] = Nth(m - j)
    <3> HIDE DEF Nth
    <3> QED
      OBVIOUS
  <2>3. ASSUME NEW j \in 0 .. m PROVE g[j] = Step(g, j)
    <3> HIDE DEF g, Nth
    <3>1. CASE j = m
      <4>1. m - j = 0
        BY <1>1, <3>1
      <4> QED
        BY <2>1, <2>2, <3>1, <4>1, Zenon
    <3>2. CASE j # m
      <4>1. Step(g, j) = DigitStep(g[j + 1], j, n, v)
        BY <3>2, Zenon
      <4>2. j + 1 \in 0 .. m
        BY <3>2
      <4>3. g[j + 1] = Nth(m - (j + 1))
        BY <2>2, <4>2, Zenon
      <4>4. CASE m - j = 1
        <5>1. m - (j + 1) = 0 /\ m - 1 = j
          BY <4>4
        <5> HIDE DEF First, Step, r0
        <5> QED
          BY <2>1, <2>2, <4>1, <4>3, <4>4, <5>1, Zenon
      <4>5. CASE m - j = 2
        <5>1. m - (j + 1) = 1 /\ m - 2 = j
          BY <4>5
        <5> HIDE DEF First, Step, r1
        <5> QED
          BY <2>1, <2>2, <4>1, <4>3, <4>5, <5>1, Zenon
      <4>6. CASE m - j = 3
        <5>1. m - (j + 1) = 2 /\ m - 3 = j
          BY <4>6
        <5> HIDE DEF First, Step, r2
        <5> QED
          BY <2>1, <2>2, <4>1, <4>3, <4>6, <5>1, Zenon
      <4>7. CASE m - j = 4
        <5>1. m - (j + 1) = 3 /\ m - 4 = j
          BY <4>7
        <5> HIDE DEF First, Step, r3
        <5> QED
          BY <2>1, <2>2, <4>1, <4>3, <4>7, <5>1, Zenon
      <4>8. m - j \in {1, 2, 3, 4}
        BY <1>1, <3>2
      <4> HIDE DEF Step
      <4> QED
        BY <4>4, <4>5, <4>6, <4>7, <4>8, Zenon
    <3> QED
      BY <3>1, <3>2
  <2>4. g = [j \in 0 .. m |-> g[j]]
    <3> HIDE DEF Nth
    <3> QED
      BY Zenon
  <2> HIDE DEF g, Step
  <2>5. [j \in 0 .. m |-> g[j]] = [j \in 0 .. m |-> Step(g, j)]
    BY <2>3, Zenon
  <2> QED
    BY <2>4, <2>5, Zenon
<1> HIDE DEF g
<1> DEFINE f == CHOOSE h : Solves(h)
<1>3. Solves(f)
  <2> HIDE DEF Solves
  <2> QED
    BY <1>2, Zenon
<1>4. DigitLoop(start, m, n, v) = f
  BY Zenon DEF DigitLoop
<1> HIDE DEF f
<1>5. \A j \in 0 .. m : f[j] = Step(f, j)
  <2> HIDE DEF Step
  <2> QED
    BY <1>3, Zenon
<1>6. f[m] = First
  <2>1. m \in 0 .. m
    OBVIOUS
  <2> QED
    BY <1>5, <2>1, Zenon
<1>7. ASSUME NEW j \in 0 .. 3, j < m PROVE f[j] = DigitStep(f[j + 1], j, n, v)
  <2>1. j \in 0 .. m /\ j # m
    BY <1>7
  <2> QED
    BY <1>5, <2>1, Zenon
<1>8. \A j \in 0 .. 3 : j < m => f[j] = DigitStep(f[j + 1], j, n, v)
  BY <1>7, Zenon
<1> QED
  BY <1>4, <1>6, <1>8, Zenon

\* Where the digits start from.
Shifted(x, used, s) ==
    [dividend |-> shift_left(x, s), quotient |-> Zero, carry |-> CarrySpace(x, used, s)]

\* Where they end.
Unshifted(st, s) ==
    IF st = Panic THEN Panic
    ELSE [quotient |-> st.quotient, remainder |-> shift_right(st.dividend, s)]

LEMMA NormalizedIs ==
  ASSUME NEW x, NEW used, NEW y, NEW n
  PROVE  LET s == leading_zeros(y[n - 1])
             m == used - n + 1
         IN  DivideNormalized(x, used, y, n)
               = Unshifted(DigitLoop(Shifted(x, used, s), m, n, shift_left(y, s))[0], s)
  BY Zenon DEF DivideNormalized, DigitLoop, DigitStep, Shifted, CarrySpace, Unshifted

\* The digits from place j on are written, and what is left is below the divisor there.
DigitsInv(u, v, st, j) ==
    /\ st \in Dividing
    /\ \A i \in Index : i < j => st.quotient[i] = 0
    /\ u = Value(v) * Value(st.quotient) + Rest(st)
    /\ Rest(st) < At(v, j)

\* What is left before a digit, and where.
LEMMA BeforeDigit ==
  ASSUME NEW st \in Dividing, NEW v, NEW n \in 2 .. 4, NEW j \in 0 .. 2, j + n <= 4,
         Normal(v, n), Rest(st) < At(v, j + 1)
  PROVE  Clear(st, j + n) /\ Rest(st) < Base * At(v, j)
<1> DEFINE b == Value(v)
           W == Weight(j)
           V == Weight(j + 1)
           X == Rest(st)
<1>1. /\ j \in 0 .. 4 /\ j \in 0 .. 3 /\ j + 1 \in 0 .. 4 /\ n \in 0 .. 4 /\ v \in Number
      /\ \A i \in Index : i >= n => v[i] = 0
  BY DEF Normal
<1>2. b \in Nat /\ W \in Nat /\ V \in Nat \ {0} /\ Base \in Nat /\ X \in Nat /\ Weight(n) \in Nat
  BY <1>1, ValueType, Weights, BaseType, DividingIs
<1>3. V = Base * W
  BY <1>1, NextWeight
<1>4. b < Weight(n)
  BY <1>1, ValueFits
<1>5. X < b * V
  BY DEF At
<1>6. Clear(st, j + n)
  <2>1. CASE j + n = 4
    BY <2>1 DEF Clear
  <2>2. CASE j + n # 4
    <3> DEFINE m == j + n
    <3>1. m \in 0 .. 3 /\ n + (j + 1) = m + 1 /\ n + (j + 1) <= 4
      BY <2>2
    <3>2. Weight(n + (j + 1)) = Weight(n) * V
      BY <1>1, <3>1, WeightsMultiply
    <3> HIDE DEF m
    <3>3. Weight(m + 1) = Weight(n) * V
      BY <3>1, <3>2, Zenon
    <3> HIDE DEF b, V, X
    <3>4. b * V <= Weight(n) * V /\ b * V \in Nat /\ Weight(n) * V \in Nat
      BY <1>2, <1>4
    <3>5. X < Weight(n) * V
      <4> DEFINE x1 == b * V
                 x2 == Weight(n) * V
      <4>1. X < x1 /\ x1 <= x2 /\ x1 \in Nat /\ x2 \in Nat
        BY <1>5, <3>4
      <4> HIDE DEF x1, x2
      <4>2. X < x2
        BY <1>2, <4>1
      <4> QED
        BY <4>2 DEF x2
    <3>6. Rest(st) < Weight(m + 1)
      BY <3>3, <3>5, Zenon DEF X
    <3>7. Clear(st, m)
      BY <3>1, <3>6, RestClears
    <3> QED
      BY <3>7 DEF m
  <2> QED
    BY <2>1, <2>2
<1>7. b * V = Base * (b * W)
  <2> HIDE DEF b, W, V
  <2>1. b * (Base * W) = Base * (b * W)
    BY <1>2
  <2> QED
    BY <1>3, <2>1, Zenon
<1>8. X < Base * (b * W)
  BY <1>5, <1>7, Zenon
<1> QED
  BY <1>6, <1>8, Zenon DEF At

LEMMA DigitGoesOn ==
  ASSUME NEW u \in Nat, NEW st, NEW v, NEW n \in 2 .. 4, NEW j \in 0 .. 2, j + n <= 4,
         Normal(v, n), DigitsInv(u, v, st, j + 1)
  PROVE  LET next == div_loop(st, j, n, v)
         IN  \/ next = Panic /\ j + n = 4 /\ n >= 3
             \/ DigitsInv(u, v, next, j)
<1> DEFINE next == div_loop(st, j, n, v)
           b == Value(v)
           W == Weight(j)
           Q == st.quotient
           X == Rest(st)
<1>1. /\ st \in Dividing /\ (\A i \in Index : i < j + 1 => Q[i] = 0)
      /\ u = b * Value(Q) + X /\ X < At(v, j + 1)
  BY Zenon DEF DigitsInv
<1>2. v \in Number /\ j \in Index /\ j \in 0 .. 4
  BY WidthType DEF Normal
<1>3. Clear(st, j + n) /\ Rest(st) < Base * At(v, j)
  BY <1>1, BeforeDigit
<1>4. \/ next = Panic /\ j + n = 4 /\ n >= 3
      \/ \E q : Digits(st, j, At(v, j), q, next)
  <2> HIDE DEF next
  <2> QED
    BY <1>1, <1>3, DigitIs DEF next
<1> HIDE DEF next
<1>5. ASSUME NEW q, Digits(st, j, At(v, j), q, next) PROVE DigitsInv(u, v, next, j)
  <2> DEFINE P == next.quotient
             Y == Rest(next)
  <2>1. /\ next \in Dividing /\ q \in Word /\ P = [Q EXCEPT ![j] = q]
        /\ X = Y + q * (b * W) /\ Y < At(v, j)
    BY <1>5, Zenon DEF Digits, At
  <2>2. Q \in Number /\ Q[j] = 0
    BY <1>1, <1>2, DividingIs
  <2>3. (\A i \in Index \ {j} : P[i] = Q[i]) /\ Value(P) = Value(Q) + (q - Q[j]) * W
    <3> HIDE DEF Q, P, W
    <3>1. /\ \A i \in Index \ {j} : [Q EXCEPT ![j] = q][i] = Q[i]
          /\ Value([Q EXCEPT ![j] = q]) = Value(Q) + (q - Q[j]) * Weight(j)
      <4>1. Q \in Number /\ q \in Word /\ j \in Index
        BY <1>2, <2>1, <2>2
      <4> QED
        BY ONLY <4>1, WordReplaced
    <3> QED
      BY <2>1, <3>1, Zenon DEF W
  <2>4. /\ b \in Int /\ W \in Int /\ Value(Q) \in Int /\ q \in Int /\ Y \in Int /\ X \in Int
    BY <1>1, <1>2, <2>1, <2>2, ValueType, Weights, DividingIs, BaseType DEF Word
  <2> DEFINE z == Value(Q)
  <2>5. Value(P) = z + q * W
    BY <2>2, <2>3, <2>4
  <2>6. u = b * Value(P) + Y
    <3> HIDE DEF b, W, z, X, Y, P, Q
    <3> DEFINE w == q * W
               x1 == b * z
               x2 == b * w
    <3>1. w \in Int /\ x1 \in Int
      BY <2>4 DEF z
    <3>2. q * (b * W) = x2 /\ x2 \in Int
      BY <2>4, <3>1
    <3> HIDE DEF w
    <3>3. b * (z + w) = x1 + x2
      BY <2>4, <3>1 DEF z
    <3>4. u = x1 + X /\ X = Y + x2
      BY <1>1, <2>1, <3>2 DEF z
    <3> HIDE DEF x1, x2
    <3>5. u = (x1 + x2) + Y
      BY <2>4, <3>1, <3>2, <3>4
    <3> QED
      BY <2>5, <3>3, <3>5, Zenon DEF w
  <2>7. ASSUME NEW i \in Index, i < j PROVE P[i] = 0
    <3>1. i < j + 1 /\ i # j
      BY <2>7, WidthType
    <3> QED
      BY <1>1, <2>3, <3>1
  <2> QED
    BY <2>1, <2>6, <2>7, Zenon DEF DigitsInv
<1>6. \/ next = Panic /\ j + n = 4 /\ n >= 3
      \/ DigitsInv(u, v, next, j)
  BY <1>4, <1>5
<1> QED
  BY <1>6, Zenon DEF next

\* The first words of the dividend are below the divisor at the place before the digits.
LEMMA DigitsStart ==
  ASSUME NEW x \in Number, NEW y \in Number, num_words(y) > 1, num_words(y) <= num_words(x),
         num_words(x) >= 3
  PROVE  LET used == num_words(x)
             n == num_words(y)
             s == leading_zeros(y[n - 1])
         IN  DigitsInv(Value(x) * Pow2[s], shift_left(y, s), Shifted(x, used, s), used - n + 1)
<1> DEFINE used == num_words(x)
           n == num_words(y)
           s == leading_zeros(y[n - 1])
           v == shift_left(y, s)
           m == used - n + 1
           st == Shifted(x, used, s)
           a == Value(x)
           b == Value(y)
           p == Pow2[s]
           c == CarrySpace(x, used, s)
<1>1. n \in 2 .. 4 /\ s \in 0 .. U64_RESOLUTION - 1 /\ Normal(v, n) /\ Value(v) = b * p
  BY DivisorShifted
<1>2. used \in 0 .. 4 /\ a < Weight(used)
  BY UseBounds
<1>3. n > 0 => Weight(n - 1) <= b
  BY UseBounds
<1>4. used >= n /\ used >= 3
  OBVIOUS
<1>5. v \in Number
  BY <1>1 DEF Normal
<1>6. c \in Word /\ Value(shift_left(x, s)) + Modulus * c = a * p
  <2> HIDE DEF s
  <2> QED
    BY <1>1, DividendShifted
<1>7. shift_left(x, s) \in Number /\ p \in Nat \ {0}
  <2> HIDE DEF s
  <2>1. s \in 0 .. 4 * U64_RESOLUTION
    BY <1>1, ZerosShift
  <2> QED
    BY <1>1, <2>1, ShiftsExact, ZerosShift
<1> HIDE DEF s, n, used, c
<1>8. /\ st \in Dividing /\ st.quotient = Zero /\ st.dividend = shift_left(x, s) /\ st.carry = c
  BY <1>6, <1>7, ZeroIs DEF Shifted, c, Dividing
<1>9. Rest(st) = a * p
  BY <1>6, <1>8, Zenon DEF Rest
<1> HIDE DEF st, v, p, a, b
<1>10. a \in Nat /\ b \in Nat
  BY ValueType DEF a, b
<1>11. m \in 0 .. 4 /\ n - 1 \in 0 .. 4 /\ (n - 1) + m = used /\ (n - 1) + m <= 4 /\ n > 0
  BY <1>1, <1>2, <1>4
<1> HIDE DEF m
<1>12. Weight(used) = Weight(n - 1) * Weight(m)
  <2>1. Weight((n - 1) + m) = Weight(n - 1) * Weight(m)
    BY <1>11, WeightsMultiply
  <2> QED
    BY <1>11, <2>1, Zenon
<1>13. Weight(n - 1) \in Nat \ {0} /\ Weight(m) \in Nat \ {0} /\ Weight(n - 1) <= b
  BY <1>3, <1>11, Weights
<1> DEFINE W == Weight(m)
           V == Weight(n - 1)
<1>14. W \in Nat \ {0} /\ V \in Nat \ {0} /\ V <= b /\ a < V * W
  BY <1>2, <1>12, <1>13
<1> HIDE DEF W, V
<1>15. a < b * W
  <2>1. V * W <= b * W /\ V * W \in Nat /\ b * W \in Nat
    BY <1>10, <1>14
  <2> DEFINE x1 == V * W
             x2 == b * W
  <2>2. a < x1 /\ x1 <= x2 /\ x1 \in Nat /\ x2 \in Nat
    BY <1>14, <2>1
  <2> HIDE DEF x1, x2
  <2>3. a < x2
    BY <1>10, <2>2
  <2> QED
    BY <2>3 DEF x2
<1>16. a * p < (b * p) * W
  <2> DEFINE f == b * W
  <2>1. f \in Nat /\ a < f
    BY <1>10, <1>14, <1>15
  <2>2. (b * p) * W = f * p
    BY <1>7, <1>10, <1>14
  <2> HIDE DEF f
  <2>3. a * p < f * p
    BY <1>7, <1>10, <2>1
  <2> QED
    BY <2>2, <2>3, Zenon
<1>17. Rest(st) < At(v, m)
  BY <1>1, <1>9, <1>16, Zenon DEF At, W
<1>18. a * p = Value(v) * Value(st.quotient) + Rest(st)
  <2> DEFINE z == a * p
             w == Value(v)
  <2>1. z \in Nat /\ w \in Nat /\ Value(st.quotient) = 0 /\ Rest(st) = z
    BY <1>5, <1>7, <1>8, <1>9, <1>10, ZeroIs, ValueType
  <2> HIDE DEF z, w
  <2>2. z = w * Value(st.quotient) + Rest(st)
    BY <2>1
  <2> QED
    BY <2>2 DEF z, w
<1>19. \A i \in Index : i < m => st.quotient[i] = 0
  BY <1>8, ZeroIs
<1>20. DigitsInv(a * p, v, st, m)
  BY <1>8, <1>17, <1>18, <1>19, Zenon DEF DigitsInv
<1> QED
  BY <1>20, Zenon DEF a, p, v, st, m, s, n, used

\* After the last digit what is left is the remainder, shifted.
LEMMA DigitsEnd ==
  ASSUME NEW a \in Nat, NEW b \in Nat \ {0}, NEW s \in 0 .. U64_RESOLUTION - 1,
         NEW v \in Number, Value(v) = b * Pow2[s], NEW st, DigitsInv(a * Pow2[s], v, st, 0)
  PROVE  Divides(Unshifted(st, s), a, b)
<1> DEFINE p == Pow2[s]
           x == st.dividend
           Q == st.quotient
           q == Value(Q)
           D == Value(x)
           z == shift_right(x, s)
           r == a - b * q
<1>1. st \in Dividing /\ a * p = Value(v) * q + Rest(st) /\ Rest(st) < At(v, 0)
  BY Zenon DEF DigitsInv
<1>2. st # Panic /\ x \in Number /\ Q \in Number
  BY <1>1, DividingIs
<1>3. p \in Nat \ {0} /\ s \in 0 .. 4 * U64_RESOLUTION
  BY ZerosShift
<1>4. z \in Number /\ Value(z) = D \div p
  BY <1>2, <1>3, ShiftsExact
<1>5. q \in Int /\ D \in Nat /\ Value(v) \in Nat /\ Value(v) < Modulus /\ Modulus \in Nat
      /\ Rest(st) \in Nat
  BY <1>1, <1>2, ValueType, BaseType, DividingIs
<1>6. Rest(st) < Value(v)
  <2>1. Weight(0) = 1
    BY Weights
  <2>2. Value(v) * 1 = Value(v)
    BY <1>5
  <2> QED
    BY <1>1, <2>1, <2>2, Zenon DEF At
<1>7. st.carry = 0
  <2>1. Rest(st) < Weight(3 + 1) /\ 3 \in 0 .. 3
    <3>1. Weight(4) = Modulus /\ 3 + 1 = 4
      BY Weights
    <3>2. Rest(st) < Modulus
      BY <1>5, <1>6
    <3> QED
      BY <3>1, <3>2
  <2>2. Clear(st, 3)
    BY <1>1, <2>1, RestClears
  <2>3. Digit(st, 4) = 0
    BY <2>2 DEF Clear
  <2> QED
    BY <2>3, WidthType DEF Digit
<1>8. Rest(st) = D
  BY <1>5, <1>7 DEF Rest
<1>9. a * p = (b * p) * q + D /\ D < b * p
  BY <1>1, <1>6, <1>8, Zenon
<1> HIDE DEF p, x, Q, q, D, z
<1>10. b * q \in Int /\ (b * p) * q = (b * q) * p
  BY <1>3, <1>5
<1>11. r \in Int /\ D = r * p
  <2> DEFINE y == b * q
             f == a * p
             g == y * p
  <2>1. y \in Int /\ f \in Int /\ g \in Int
    <3>1. y \in Int
      BY <1>10
    <3> HIDE DEF y
    <3> QED
      BY <1>3, <3>1
  <2>2. f = g + D
    BY <1>9, <1>10, Zenon
  <2> HIDE DEF y
  <2>3. (a - y) * p = f - g
    BY <1>3, <2>1
  <2> HIDE DEF f, g
  <2>4. D = f - g
    BY <1>5, <2>1, <2>2
  <2>5. a - y \in Int
    BY <2>1
  <2> QED
    BY <2>3, <2>4, <2>5, Zenon DEF y
<1>12. a = b * q + r
  BY <1>10
<1> HIDE DEF r
<1>13. r \in Nat /\ r < b
  <2>1. ASSUME r < 0 PROVE FALSE
    <3>1. r * p < 0
      BY <1>3, <1>11, <2>1
    <3> QED
      BY <1>5, <1>11, <3>1
  <2>2. ASSUME r >= b PROVE FALSE
    <3>1. r * p >= b * p /\ r * p \in Int /\ b * p \in Int
      BY <1>3, <1>11, <2>2
    <3> DEFINE f == b * p
               g == r * p
    <3>2. D < f /\ D = g /\ g >= f /\ f \in Int
      BY <1>9, <1>11, <3>1
    <3> HIDE DEF f, g
    <3> QED
      BY <1>5, <3>2
  <2> QED
    BY <1>11, <2>1, <2>2
<1>14. D \div p = r
  <2>1. p * r <= D /\ D < p * r + p
    <3>1. p * r = D
      BY <1>3, <1>11
    <3> QED
      BY <1>3, <1>5, <3>1
  <2>2. D \in Int /\ r \in Int
    BY <1>5, <1>11
  <2> QED
    BY ONLY <1>3, <2>1, <2>2, QuotientIs
<1>15. Divides([quotient |-> Q, remainder |-> z], a, b)
  <2>1. /\ Value(Q) \in Int /\ Value(z) \in Nat /\ Value(z) < b
        /\ a = b * Value(Q) + Value(z)
    BY <1>4, <1>5, <1>12, <1>13, <1>14, Zenon DEF q
  <2> QED
    BY <2>1, ResultIs
<1> QED
  BY <1>2, <1>15, Zenon DEF Unshifted, Q, z, x

LEMMA DivideLong ==
  ASSUME NEW x \in Number, NEW y \in Number, num_words(y) > 1, num_words(y) <= num_words(x),
         num_words(x) >= 3
  PROVE  LET result == DivideNormalized(x, num_words(x), y, num_words(y))
         IN  \/ result = Panic /\ num_words(x) = NUM_WORDS /\ num_words(y) >= 3
             \/ Divides(result, Value(x), Value(y))
<1> DEFINE used == num_words(x)
           n == num_words(y)
           s == leading_zeros(y[n - 1])
           v == shift_left(y, s)
           m == used - n + 1
           start == Shifted(x, used, s)
           a == Value(x)
           b == Value(y)
           f == DigitLoop(start, m, n, v)
           result == DivideNormalized(x, used, y, n)
           u == a * Pow2[s]
           Stopped(j) == f[j] = Panic /\ used = 4 /\ n >= 3
           Inv(j) == Stopped(j) \/ DigitsInv(u, v, f[j], j)
<1>1. n \in 2 .. 4 /\ s \in 0 .. U64_RESOLUTION - 1 /\ Normal(v, n) /\ Value(v) = b * Pow2[s]
  BY DivisorShifted
<1>2. used \in 0 .. 4
  BY UseBounds
<1>3. m \in 1 .. 3 /\ m \in 0 .. 4 /\ used = m + n - 1
  <2>1. used >= n
    OBVIOUS
  <2> HIDE DEF used, n
  <2> QED
    BY <1>1, <1>2, <2>1
<1>4. result = Unshifted(f[0], s)
  BY NormalizedIs, Zenon
<1>5. DigitsInv(u, v, start, m)
  BY DigitsStart, Zenon
<1> HIDE DEF v, s, start, m, n, used
<1>6. /\ f[m] = start
      /\ \A j \in 0 .. 3 : j < m => f[j] = DigitStep(f[j + 1], j, n, v)
  BY <1>3, DigitLoopIs
<1> HIDE DEF f
<1>7. u \in Nat
  <2>1. Pow2[s] \in Nat /\ a \in Nat
    BY <1>1, ZerosShift, ValueType
  <2> QED
    BY <2>1
<1> HIDE DEF u
<1>8. Inv(m)
  BY <1>5, <1>6, Zenon
<1>9. ASSUME NEW j \in 0 .. 3, j < m, Inv(j + 1) PROVE Inv(j)
  <2>1. f[j] = DigitStep(f[j + 1], j, n, v)
    BY <1>6, <1>9
  <2>2. j \in 0 .. 2 /\ j + n <= 4
    BY <1>1, <1>2, <1>3, <1>9
  <2>3. CASE f[j + 1] = Panic
    <3>1. f[j] = Panic
      BY <2>1, <2>3, Zenon DEF DigitStep
    <3>2. Stopped(j + 1)
      <4>1. ~DigitsInv(u, v, f[j + 1], j + 1)
        <5>1. f[j + 1] \in Dividing => f[j + 1] # Panic
          BY DividingIs
        <5> QED
          BY <2>3, <5>1, Zenon DEF DigitsInv
      <4> QED
        BY <1>9, <4>1
    <3> QED
      BY <3>1, <3>2
  <2>4. CASE f[j + 1] # Panic
    <3> DEFINE st == f[j + 1]
               next == div_loop(st, j, n, v)
    <3>1. f[j] = next
      BY <2>1, <2>4, Zenon DEF DigitStep
    <3>2. DigitsInv(u, v, st, j + 1)
      BY <1>9, <2>4
    <3> HIDE DEF st
    <3>3. \/ next = Panic /\ j + n = 4 /\ n >= 3
          \/ DigitsInv(u, v, next, j)
      BY <1>1, <1>7, <2>2, <3>2, DigitGoesOn
    <3> HIDE DEF next
    <3>4. j + n = 4 => used = 4
      BY <1>1, <1>2, <1>3, <1>9
    <3> QED
      BY <3>1, <3>3, <3>4
  <2> QED
    BY <2>3, <2>4
<1>10. Inv(0)
  <2> HIDE DEF Inv
  <2> DEFINE G == {i \in Nat : i <= m => Inv(m - i)}
  <2>1. 0 \in G
    <3>1. m - 0 = m
      BY <1>3
    <3> QED
      BY <1>8, <3>1
  <2>2. ASSUME NEW i \in G, i < m PROVE i + 1 \in G
    <3> DEFINE j == m - (i + 1)
    <3>1. j \in 0 .. 3 /\ j < m /\ j + 1 = m - i /\ i <= m /\ i \in Nat
      BY <1>3, <2>2
    <3> HIDE DEF j
    <3>2. Inv(m - i)
      BY <2>2, <3>1
    <3>3. Inv(j + 1)
      BY <3>1, <3>2, Zenon
    <3>4. Inv(j)
      BY <1>9, <3>1, <3>3
    <3> QED
      BY <3>1, <3>4 DEF j
  <2>3. 0 .. m \subseteq G
    <3>1. m \in Nat /\ G \in SUBSET Nat
      BY <1>3
    <3> HIDE DEF G
    <3> QED
      BY <2>1, <2>2, <3>1, UpTo
  <2>4. m \in G /\ m <= m /\ m - m = 0
    <3>1. m \in 0 .. m
      BY <1>3
    <3> HIDE DEF G
    <3> QED
      BY <1>3, <2>3, <3>1
  <2> QED
    BY <2>4
<1> HIDE DEF result
<1>11. CASE Stopped(0)
  <2>1. result = Panic
    BY <1>4, <1>11, Zenon DEF Unshifted
  <2> QED
    BY <1>11, <2>1, WidthType DEF result, used, n
<1>12. CASE DigitsInv(u, v, f[0], 0)
  <2>1. a \in Nat /\ b \in Nat \ {0} /\ v \in Number
    <3>1. a \in Nat /\ b \in Nat /\ v \in Number
      BY <1>1, ValueType DEF Normal
    <3>2. b # 0
      <4>1. n > 0 => Weight(n - 1) <= b
        BY UseBounds DEF n
      <4>2. n - 1 \in 0 .. 4 /\ n > 0
        BY <1>1
      <4>3. Weight(n - 1) \in Nat \ {0}
        BY <4>2, Weights
      <4> HIDE DEF b
      <4> QED
        BY <3>1, <4>1, <4>2, <4>3
    <3> QED
      BY <3>1, <3>2
  <2> DEFINE st == f[0]
  <2>2. DigitsInv(a * Pow2[s], v, st, 0) /\ Value(v) = b * Pow2[s]
    BY <1>1, <1>12 DEF u
  <2> HIDE DEF a, b, st
  <2>3. Divides(Unshifted(st, s), a, b)
    BY <1>1, <2>1, <2>2, DigitsEnd
  <2> QED
    BY <1>4, <2>3, Zenon DEF st, a, b, result, used, n
<1> QED
  BY <1>10, <1>11, <1>12

-----------------------------------------------------------------------------
\* Every case of a division.
LEMMA DivExactAlways ==
  ASSUME WordsInit
  PROVE  DivExact
<1> SUFFICES ASSUME words # None
             PROVE  LET a == words[1]
                        b == words[2]
                        result == div(Of(a), Of(b))
                    IN  IF result = Panic
                        THEN b = 0 \/ (num_words(Of(a)) = NUM_WORDS /\ num_words(Of(b)) >= 3)
                        ELSE Value(result.quotient) = a \div b
                               /\ Value(result.remainder) = a % b
  BY DEF DivExact
<1> DEFINE a == words[1]
           b == words[2]
           x == Of(a)
           y == Of(b)
           m == num_words(x)
           n == num_words(y)
           result == div(x, y)
<1>1. a \in U256 /\ b \in U256
  BY DEF WordsInit
<1> HIDE DEF a, b
<1>2. x \in Number /\ Value(x) = a /\ y \in Number /\ Value(y) = b
  BY <1>1, OfIs
<1> HIDE DEF x, y
<1>3. m \in 0 .. 4 /\ n \in 0 .. 4 /\ (n = 0 => Value(y) = 0)
      /\ (n > 0 => Weight(n - 1) <= Value(y))
  BY <1>2, UseBounds
<1>4. result = CASE n = 0 -> Panic
                 [] n > 0 /\ m < n -> [quotient |-> Zero, remainder |-> x]
                 [] n > 0 /\ m >= n /\ m < 3 ->
                      LET u == try_into_u128(x)
                          v == try_into_u128(y)
                      IN  [quotient |-> New(0, u \div v), remainder |-> New(0, u % v)]
                 [] n = 1 /\ m >= 3 -> DivideByWord(x, m, y[0])
                 [] n > 1 /\ m >= n /\ m >= 3 -> DivideNormalized(x, m, y, n)
  BY Zenon DEF div
<1> DEFINE Short == LET u == try_into_u128(x)
                        v == try_into_u128(y)
                    IN  [quotient |-> New(0, u \div v), remainder |-> New(0, u % v)]
           OneWord == DivideByWord(x, m, y[0])
           Long == DivideNormalized(x, m, y, n)
<1>5. n > 0 /\ m < n => Divides([quotient |-> Zero, remainder |-> x], a, b)
  BY <1>2, DivideBelow
<1>6. n > 0 /\ m >= n /\ m < 3 => Divides(Short, a, b)
  <2> SUFFICES ASSUME n > 0, m >= n, m < 3 PROVE Divides(Short, a, b)
    OBVIOUS
  <2>1. num_words(x) < 3 /\ num_words(y) < 3
    BY <1>3
  <2>2. Value(y) # 0
    <3>1. n - 1 \in 0 .. 4
      BY <1>3
    <3>2. Weight(n - 1) \in Nat \ {0} /\ Value(y) \in Nat /\ Weight(n - 1) <= Value(y)
      BY <1>2, <1>3, <3>1, Weights, ValueType
    <3> QED
      BY <3>2
  <2>3. Divides(Short, Value(x), Value(y))
    BY <1>2, <2>1, <2>2, DivideShort
  <2> QED
    BY <1>2, <2>3, Zenon
<1>7. n = 1 => Divides(OneWord, a, b)
  BY <1>2, DivideOneWord
<1>8. n > 1 /\ m >= n /\ m >= 3 => \/ Long = Panic /\ m = NUM_WORDS /\ n >= 3
                                   \/ Divides(Long, a, b)
  <2> SUFFICES ASSUME n > 1, m >= n, m >= 3
               PROVE  \/ Long = Panic /\ m = NUM_WORDS /\ n >= 3
                      \/ Divides(Long, a, b)
    OBVIOUS
  <2>1. num_words(y) <= num_words(x)
    BY <1>3
  <2>2. \/ Long = Panic /\ m = NUM_WORDS /\ n >= 3
        \/ Divides(Long, Value(x), Value(y))
    BY <1>2, <2>1, DivideLong
  <2> QED
    BY <1>2, <2>2, Zenon
<1>9. \/ result = Panic /\ n = 0
      \/ result = Panic /\ m = NUM_WORDS /\ n >= 3
      \/ Divides(result, a, b)
  <2> HIDE DEF m, n, result, Short, OneWord, Long
  <2>1. result = CASE n = 0 -> Panic
                   [] n > 0 /\ m < n -> [quotient |-> Zero, remainder |-> x]
                   [] n > 0 /\ m >= n /\ m < 3 -> Short
                   [] n = 1 /\ m >= 3 -> OneWord
                   [] n > 1 /\ m >= n /\ m >= 3 -> Long
    BY <1>4, Zenon DEF Short, OneWord, Long
  <2>2. CASE n = 0
    <3>1. ~(n > 0) /\ ~(n = 1) /\ ~(n > 1)
      BY <2>2
    <3> QED
      BY <2>1, <2>2, <3>1
  <2>3. CASE n > 0 /\ m < n
    <3>1. /\ ~(n = 0) /\ ~(m >= n) /\ ~(n = 1 /\ m >= 3)
      BY <1>3, <2>3
    <3> QED
      BY <1>5, <2>1, <2>3, <3>1
  <2>4. CASE n > 0 /\ m >= n /\ m < 3
    <3>1. ~(n = 0) /\ ~(m < n) /\ ~(m >= 3)
      BY <1>3, <2>4
    <3> QED
      BY <1>6, <2>1, <2>4, <3>1
  <2>5. CASE n = 1 /\ m >= 3
    <3>1. ~(n = 0) /\ ~(m < n) /\ ~(m < 3) /\ ~(n > 1)
      BY <1>3, <2>5
    <3> QED
      BY <1>7, <2>1, <2>5, <3>1
  <2>6. CASE n > 1 /\ m >= n /\ m >= 3
    <3>1. ~(n = 0) /\ ~(m < n) /\ ~(m < 3) /\ ~(n = 1)
      BY <1>3, <2>6
    <3> QED
      BY <1>8, <2>1, <2>6, <3>1
  <2>7. \/ n = 0 \/ (n > 0 /\ m < n) \/ (n > 0 /\ m >= n /\ m < 3) \/ (n = 1 /\ m >= 3)
        \/ (n > 1 /\ m >= n /\ m >= 3)
    BY <1>3
  <2> QED
    BY <2>2, <2>3, <2>4, <2>5, <2>6, <2>7
<1> HIDE DEF result, m, n
<1>10. n = 0 => b = 0
  BY <1>2, <1>3
<1>11. result # Panic => Value(result.quotient) = a \div b /\ Value(result.remainder) = a % b
  BY <1>9, Zenon DEF Divides
<1>12. result = Panic => b = 0 \/ (m = NUM_WORDS /\ n >= 3)
  BY <1>9, <1>10, Zenon DEF Divides
<1> QED
  BY <1>11, <1>12, Zenon DEF result, m, n, x, y, a, b

\* For words of any width, long division, which estimates every digit and takes back one that
\* is too large, returns the quotient and the remainder of every pair of numbers, unless the
\* divisor is 0 or has three words or more in use and the dividend all four.
THEOREM DivExactHolds == WordsSpec => []DivExact
<1>1. WordsInit => DivExact
  BY DivExactAlways
<1>2. DivExact /\ [FALSE]_words => DivExact'
  <2> SUFFICES ASSUME DivExact, UNCHANGED words PROVE DivExact'
    OBVIOUS
  <2> QED
    BY DEF DivExact
<1> QED
  BY <1>1, <1>2, PTL DEF WordsSpec
=============================================================================
