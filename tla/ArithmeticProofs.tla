--------------------------- MODULE ArithmeticProofs --------------------------
(***************************************************************************)
(* The steps of a swap are what the loop around them takes them for, for   *)
(* every amount, fee, liquidity and price, and whatever the fixed point:   *)
(* the closed formulas of compute_swap find the price that a search would, *)
(* and all their roundings are in the pool's favour.  Then the SDK: its    *)
(* step is the same when token A is paid in, and the tick arrays of its    *)
(* quotes are all that the searches of a swap need.                        *)
(***************************************************************************)
EXTENDS MCQuoteWalk, WellFoundedInduction, TLAPS

-----------------------------------------------------------------------------
\* Quotients, each by the inequality that it solves.

\* Division with remainder.
LEMMA Remainder ==
  ASSUME NEW n \in Nat, NEW d \in Nat \ {0}
  PROVE  /\ n = d * (n \div d) + (n % d)
         /\ n \div d \in Nat
         /\ n % d \in 0 .. d - 1
OBVIOUS

\* A positive factor can be dropped.
LEMMA Cancel ==
  ASSUME NEW d \in Nat \ {0}, NEW x \in Int, NEW y \in Int
  PROVE  d * x <= d * y <=> x <= y
<1>1. ASSUME x <= y PROVE d * x <= d * y
  BY <1>1
<1>2. ASSUME y + 1 <= x PROVE d * y < d * x
  <2>1. d * (y + 1) <= d * x
    BY <1>2
  <2>2. d * (y + 1) = d * y + d
    OBVIOUS
  <2> QED
    BY <2>1, <2>2
<1> QED
  BY <1>1, <1>2

\* Rounded down, the quotient is the largest x with d * x <= n.
LEMMA FloorIs ==
  ASSUME NEW n \in Nat, NEW d \in Nat \ {0}
  PROVE  /\ DivRound(n, d, FALSE) = n \div d
         /\ n \div d \in Nat
         /\ d * (n \div d) <= n
         /\ \A x \in Int : x <= n \div d <=> d * x <= n
<1> DEFINE q == n \div d
           r == n % d
<1>1. n = d * q + r /\ q \in Nat /\ r \in 0 .. d - 1
  BY Remainder
<1>2. DivRound(n, d, FALSE) = q
  BY DEF DivRound
<1> HIDE DEF q, r
<1>3. ASSUME NEW x \in Int PROVE x <= q <=> d * x <= n
  <2>1. ASSUME x <= q PROVE d * x <= n
    <3>1. d * x <= d * q
      BY <1>1, <2>1, Cancel
    <3> QED
      BY <1>1, <3>1
  <2>2. ASSUME q + 1 <= x PROVE n < d * x
    <3>1. d * (q + 1) <= d * x
      BY <1>1, <2>2, Cancel
    <3>2. d * (q + 1) = d * q + d
      BY <1>1
    <3> QED
      BY <1>1, <3>1, <3>2
  <2> QED
    BY <1>1, <2>1, <2>2
<1>4. d * q <= n
  BY <1>1
<1> QED
  BY <1>1, <1>2, <1>3, <1>4 DEF q

\* Rounded up, it is the smallest x with n <= d * x.
LEMMA CeilingIs ==
  ASSUME NEW n \in Nat, NEW d \in Nat \ {0}
  PROVE  /\ DivRound(n, d, TRUE) \in Nat
         /\ n <= d * DivRound(n, d, TRUE)
         /\ \A x \in Int : DivRound(n, d, TRUE) <= x <=> n <= d * x
<1> DEFINE q == n \div d
           r == n % d
           c == DivRound(n, d, TRUE)
<1>1. n = d * q + r /\ q \in Nat /\ r \in 0 .. d - 1
  BY Remainder
<1>2. c = IF r > 0 THEN q + 1 ELSE q
  BY DEF DivRound
<1> HIDE DEF q, r, c
<1>3. c \in Nat
  BY <1>1, <1>2
<1>4. d * (q + 1) = d * q + d
  BY <1>1
<1>5. n <= d * c
  BY <1>1, <1>2, <1>4
<1>6. ASSUME NEW x \in Int PROVE c <= x <=> n <= d * x
  <2>1. ASSUME c <= x PROVE n <= d * x
    <3>1. d * c <= d * x
      BY <1>3, <2>1, Cancel
    <3> QED
      BY <1>3, <1>5, <3>1
  <2>2. ASSUME x + 1 <= c PROVE d * x < n
    <3>1. CASE r > 0
      <4>1. d * x <= d * q
        BY <1>1, <1>2, <2>2, <3>1, Cancel
      <4> QED
        BY <1>1, <3>1, <4>1
    <3>2. CASE ~(r > 0)
      <4>1. d * (x + 1) <= d * q
        BY <1>1, <1>2, <2>2, <3>2, Cancel
      <4>2. d * (x + 1) = d * x + d
        OBVIOUS
      <4> QED
        BY <1>1, <3>2, <4>1, <4>2
    <3> QED
      BY <3>1, <3>2
  <2> QED
    BY <1>3, <2>1, <2>2
<1> QED
  BY <1>3, <1>5, <1>6 DEF c

\* The same, one fact at a time.
LEMMA QuotientType ==
  ASSUME NEW n \in Nat, NEW d \in Nat \ {0}, NEW up \in BOOLEAN
  PROVE  DivRound(n, d, up) \in Nat
BY FloorIs, CeilingIs, up \in {TRUE, FALSE}

LEMMA CeilingType ==
  ASSUME NEW n \in Nat, NEW d \in Nat \ {0}
  PROVE  DivRound(n, d, TRUE) \in Nat
BY CeilingIs

LEMMA FloorAtLeast ==
  ASSUME NEW n \in Nat, NEW d \in Nat \ {0}, NEW x \in Int
  PROVE  x <= DivRound(n, d, FALSE) <=> d * x <= n
BY FloorIs

LEMMA CeilingAtMost ==
  ASSUME NEW n \in Nat, NEW d \in Nat \ {0}, NEW x \in Int
  PROVE  DivRound(n, d, TRUE) <= x <=> n <= d * x
BY CeilingIs

-----------------------------------------------------------------------------
\* Amounts and prices: the amount that a move of the price takes, or yields,
\* reaches a given one at the price that the closed formulas find.

AmountA(p, q, liquidity, round_up) ==
    DivRound(liquidity * Distance(p, q) * Q64, p * q, round_up)
AmountB(p, q, liquidity, round_up) ==
    DivRound(liquidity * Distance(p, q), Q64, round_up)

\* The quotients behind them.
LEMMA AmountTypes ==
  ASSUME NEW p \in Nat \ {0}, NEW q \in Nat \ {0}, NEW l \in Nat
  PROVE  /\ Distance(p, q) \in Nat
         /\ l * Distance(p, q) \in Nat
         /\ l * Distance(p, q) * Q64 \in Nat
         /\ p * q \in Nat \ {0} /\ Q64 \in Nat \ {0}
         /\ \A up \in BOOLEAN : AmountA(p, q, l, up) \in Nat /\ AmountB(p, q, l, up) \in Nat
<1>1. Distance(p, q) \in Nat /\ Q64 \in Nat \ {0}
  BY SwapMathAssumption DEF Distance
<1>2. l * Distance(p, q) \in Nat
  BY <1>1
<1>3. l * Distance(p, q) * Q64 \in Nat
  BY <1>1, <1>2
<1>4. p * q \in Nat \ {0}
  <2>1. p * q \in Nat /\ p * q # 0
    OBVIOUS
  <2> QED
    BY <2>1
<1>5. ASSUME NEW up \in BOOLEAN
      PROVE  AmountA(p, q, l, up) \in Nat /\ AmountB(p, q, l, up) \in Nat
  <2>1. CASE up = TRUE
    BY <1>1, <1>2, <1>3, <1>4, <2>1, CeilingIs DEF AmountA, AmountB
  <2>2. CASE up = FALSE
    BY <1>1, <1>2, <1>3, <1>4, <2>2, FloorIs DEF AmountA, AmountB
  <2> QED
    BY <2>1, <2>2
<1> QED
  BY <1>1, <1>2, <1>3, <1>4, <1>5

LEMMA AmountType ==
  ASSUME NEW p \in Nat \ {0}, NEW q \in Nat \ {0}, NEW l \in Nat
  PROVE  /\ AmountA(p, q, l, TRUE) \in Nat /\ AmountA(p, q, l, FALSE) \in Nat
         /\ AmountB(p, q, l, TRUE) \in Nat /\ AmountB(p, q, l, FALSE) \in Nat
BY AmountTypes, TRUE \in BOOLEAN, FALSE \in BOOLEAN, Zenon

\* Token A paid in moves the price down, to the last price that is paid for.
LEMMA InputOfA ==
  ASSUME NEW p \in Nat \ {0}, NEW q \in Nat \ {0}, q <= p,
         NEW l \in Nat \ {0}, NEW a \in Nat
  PROVE  /\ l * Q64 + p * a \in Nat \ {0} /\ l * p * Q64 \in Nat
         /\ AmountA(p, q, l, TRUE) <= a
               <=> DivRound(l * p * Q64, l * Q64 + p * a, TRUE) <= q
<1> DEFINE n == l * (p - q) * Q64
           e == l * Q64 + p * a
           m == l * p * Q64
<1>1. Q64 \in Nat \ {0} /\ Distance(p, q) = p - q
  BY SwapMathAssumption DEF Distance
<1>2. p * q \in Nat \ {0} /\ n \in Nat /\ l * Distance(p, q) * Q64 = n
  BY <1>1, AmountTypes
<1>3. e \in Nat \ {0} /\ m \in Nat
  <2>1. l * Q64 \in Nat /\ l * Q64 # 0 /\ p * a \in Nat
    BY <1>1
  <2>2. l * p \in Nat
    OBVIOUS
  <2> QED
    BY <1>1, <2>1, <2>2
<1>4. n <= (p * q) * a <=> m <= e * q
  <2>1. n = m - l * q * Q64
    BY <1>1
  <2>2. e * q = l * q * Q64 + (p * q) * a
    BY <1>1
  <2>3. l * q * Q64 \in Int /\ (p * q) * a \in Int
    BY <1>1
  <2> HIDE DEF n, e, m
  <2> QED
    BY <1>3, <2>1, <2>2, <2>3
<1> HIDE DEF n, e, m
<1> a \in Int /\ q \in Int
  OBVIOUS
<1>5. AmountA(p, q, l, TRUE) <= a <=> n <= (p * q) * a
  BY <1>2, CeilingAtMost DEF AmountA
<1>6. DivRound(m, e, TRUE) <= q <=> m <= e * q
  BY <1>3, CeilingAtMost
<1> QED
  BY <1>3, <1>4, <1>5, <1>6 DEF e, m

\* Token A asked for moves it up, to the first price that yields the amount.
LEMMA OutputOfA ==
  ASSUME NEW p \in Nat \ {0}, NEW q \in Nat \ {0}, p <= q,
         NEW l \in Nat \ {0}, NEW a \in Nat, l * Q64 - p * a > 0
  PROVE  /\ l * Q64 - p * a \in Nat \ {0} /\ l * p * Q64 \in Nat
         /\ a <= AmountA(p, q, l, FALSE)
               <=> DivRound(l * p * Q64, l * Q64 - p * a, TRUE) <= q
<1> DEFINE n == l * (q - p) * Q64
           e == l * Q64 - p * a
           m == l * p * Q64
<1>1. Q64 \in Nat \ {0} /\ Distance(p, q) = q - p
  BY SwapMathAssumption DEF Distance
<1>2. p * q \in Nat \ {0} /\ n \in Nat /\ l * Distance(p, q) * Q64 = n
  BY <1>1, AmountTypes
<1>3. e \in Nat \ {0} /\ m \in Nat
  <2>1. l * Q64 \in Nat /\ p * a \in Nat
    BY <1>1
  <2>2. l * p \in Nat
    OBVIOUS
  <2> QED
    BY <1>1, <2>1, <2>2
<1>4. (p * q) * a <= n <=> m <= e * q
  <2>1. n = l * q * Q64 - m
    BY <1>1
  <2>2. e * q = l * q * Q64 - (p * q) * a
    BY <1>1
  <2>3. l * q * Q64 \in Int /\ (p * q) * a \in Int
    BY <1>1
  <2> HIDE DEF n, e, m
  <2> QED
    BY <1>3, <2>1, <2>2, <2>3
<1> HIDE DEF n, e, m
<1> a \in Int /\ q \in Int
  OBVIOUS
<1>5. a <= AmountA(p, q, l, FALSE) <=> (p * q) * a <= n
  BY <1>2, FloorAtLeast DEF AmountA
<1>6. DivRound(m, e, TRUE) <= q <=> m <= e * q
  BY <1>3, CeilingAtMost
<1> QED
  BY <1>3, <1>4, <1>5, <1>6 DEF e, m

\* Token B paid in moves the price up, to the last price that is paid for.
LEMMA InputOfB ==
  ASSUME NEW p \in Nat \ {0}, NEW q \in Nat \ {0}, p <= q,
         NEW l \in Nat \ {0}, NEW a \in Nat
  PROVE  /\ DivRound(a * Q64, l, FALSE) \in Nat
         /\ AmountB(p, q, l, TRUE) <= a <=> q <= p + DivRound(a * Q64, l, FALSE)
<1> DEFINE n == l * (q - p)
           m == a * Q64
           c == DivRound(a * Q64, l, FALSE)
<1>1. Q64 \in Nat \ {0} /\ Distance(p, q) = q - p
  BY SwapMathAssumption DEF Distance
<1>2. n \in Nat /\ l * Distance(p, q) = n /\ m \in Nat /\ m = Q64 * a
  BY <1>1
<1> q - p \in Int /\ p - q \in Int /\ a \in Int /\ q \in Int
  OBVIOUS
<1>3. q - p <= c <=> n <= m
  BY <1>2, FloorAtLeast
<1>4. c \in Nat
  BY <1>2, QuotientType
<1> HIDE DEF n, m, c
<1>5. AmountB(p, q, l, TRUE) <= a <=> n <= m
  BY <1>1, <1>2, CeilingAtMost DEF AmountB
<1>6. q <= p + c <=> q - p <= c
  BY <1>4
<1>7. AmountB(p, q, l, TRUE) <= a <=> q <= p + c
  BY <1>3, <1>5, <1>6, Zenon
<1> QED
  BY <1>4, <1>7 DEF c

\* Token B asked for moves it down, to the first price that yields the amount.
LEMMA OutputOfB ==
  ASSUME NEW p \in Nat \ {0}, NEW q \in Nat \ {0}, q <= p,
         NEW l \in Nat \ {0}, NEW a \in Nat
  PROVE  /\ DivRound(a * Q64, l, TRUE) \in Nat
         /\ a <= AmountB(p, q, l, FALSE) <=> q <= p - DivRound(a * Q64, l, TRUE)
<1> DEFINE n == l * (p - q)
           m == a * Q64
           c == DivRound(a * Q64, l, TRUE)
<1>1. Q64 \in Nat \ {0} /\ Distance(p, q) = p - q
  BY SwapMathAssumption DEF Distance
<1>2. n \in Nat /\ l * Distance(p, q) = n /\ m \in Nat /\ m = Q64 * a
  BY <1>1
<1> q - p \in Int /\ p - q \in Int /\ a \in Int /\ q \in Int
  OBVIOUS
<1>3. c <= p - q <=> m <= n
  BY <1>2, CeilingAtMost
<1>4. c \in Nat
  BY <1>2, QuotientType
<1> HIDE DEF n, m, c
<1>5. a <= AmountB(p, q, l, FALSE) <=> m <= n
  BY <1>1, <1>2, FloorAtLeast DEF AmountB
<1>6. q <= p - c <=> c <= p - q
  BY <1>4
<1>7. a <= AmountB(p, q, l, FALSE) <=> q <= p - c
  BY <1>3, <1>5, <1>6, Zenon
<1> QED
  BY <1>4, <1>7 DEF c
\* A price is not moved by nothing.
LEMMA NoAmountOfA ==
  ASSUME NEW p \in Nat \ {0}, NEW l \in Nat \ {0}
  PROVE  DivRound(l * p * Q64, l * Q64, TRUE) = p
<1> DEFINE e == l * Q64
           m == l * p * Q64
           c == DivRound(m, e, TRUE)
<1>1. Q64 \in Nat \ {0}
  BY SwapMathAssumption
<1>2. e \in Nat \ {0} /\ m \in Nat /\ m = e * p
  <2>1. l * Q64 \in Nat /\ l * Q64 # 0 /\ l * p \in Nat
    BY <1>1
  <2> QED
    BY <1>1, <2>1
<1>3. e * (p - 1) = e * p - e
  BY <1>2
<1> HIDE DEF e, m
<1> p \in Int /\ p - 1 \in Int /\ TRUE \in BOOLEAN
  OBVIOUS
<1>4. c <= p <=> m <= e * p
  BY <1>2, CeilingAtMost
<1>5. c <= p - 1 <=> m <= e * (p - 1)
  BY <1>2, CeilingAtMost
<1>6. c \in Nat
  BY <1>2, QuotientType
<1>7. ~(m <= e * (p - 1)) /\ m <= e * p
  BY <1>2, <1>3
<1> HIDE DEF c
<1>8. c = p
  BY <1>4, <1>5, <1>6, <1>7
<1> QED
  BY <1>8 DEF c, e, m

\* What an operator on prices returns is the quotient, or an error.
LEMMA NextFromA ==
  ASSUME NEW p \in Nat \ {0}, NEW l \in Nat \ {0}, NEW a \in Nat,
         NEW in \in BOOLEAN,
         get_next_sqrt_price_from_a_round_up(p, l, a, in) # Err
  PROVE  LET e == IF in THEN l * Q64 + p * a ELSE l * Q64 - p * a
         IN  /\ e > 0
             /\ get_next_sqrt_price_from_a_round_up(p, l, a, in)
                  = DivRound(l * p * Q64, e, TRUE)
<1> DEFINE e == IF in THEN l * Q64 + p * a ELSE l * Q64 - p * a
<1>1. CASE a = 0
  <2>1. e = l * Q64 /\ e > 0
    <3>1. Q64 \in Nat \ {0} /\ p * a = 0
      BY <1>1, SwapMathAssumption
    <3>2. l * Q64 \in Nat /\ l * Q64 # 0
      BY <3>1
    <3> QED
      BY <3>1, <3>2
  <2>2. get_next_sqrt_price_from_a_round_up(p, l, a, in) = p
    BY <1>1 DEF get_next_sqrt_price_from_a_round_up
  <2> QED
    BY <2>1, <2>2, NoAmountOfA
<1>2. CASE a # 0
  <2>1. e \in Int
    BY SwapMathAssumption
  <2>2. ~(e <= 0)
    BY <1>2 DEF get_next_sqrt_price_from_a_round_up
  <2>3. get_next_sqrt_price_from_a_round_up(p, l, a, in)
          = DivRound(l * p * Q64, e, TRUE)
    BY <1>2 DEF get_next_sqrt_price_from_a_round_up
  <2> HIDE DEF e
  <2>4. e > 0
    BY <2>1, <2>2
  <2> QED
    BY <2>3, <2>4 DEF e
<1> QED
  BY <1>1, <1>2

LEMMA NextFromB ==
  ASSUME NEW p \in Nat \ {0}, NEW l \in Nat \ {0}, NEW a \in Nat,
         NEW in \in BOOLEAN,
         get_next_sqrt_price_from_b_round_down(p, l, a, in) # Err
  PROVE  get_next_sqrt_price_from_b_round_down(p, l, a, in)
           = IF in THEN p + DivRound(a * Q64, l, FALSE)
                   ELSE p - DivRound(a * Q64, l, TRUE)
BY DEF get_next_sqrt_price_from_b_round_down, Checked

\* Amounts, likewise.
LEMMA DeltaA ==
  ASSUME NEW p \in Nat \ {0}, NEW q \in Nat \ {0}, NEW l \in Nat,
         NEW up \in BOOLEAN
  PROVE  LET x == get_amount_delta_a(p, q, l, up)
             y == AmountA(p, q, l, up)
         IN  /\ x # Err <=> l * Distance(p, q) < Q64 * Q64 * Q64 /\ y <= MAX_U64
             /\ x # Err => x = y
<1> DEFINE y == AmountA(p, q, l, up)
<1>1. y \in Nat /\ l * Distance(p, q) \in Nat /\ Q64 \in Nat /\ MAX_U64 \in Nat
  BY AmountTypes, SwapMathAssumption
<1>2. Q64 * Q64 * Q64 \in Nat
  <2>1. Q64 * Q64 \in Nat
    BY <1>1
  <2> QED
    BY <1>1, <2>1
<1>3. get_amount_delta_a(p, q, l, up) =
        IF l * Distance(p, q) >= Q64 * Q64 * Q64 THEN Err
        ELSE Checked(y, MAX_U64)
  BY DEF get_amount_delta_a, AmountA
<1>4. Checked(y, MAX_U64) = IF y <= MAX_U64 THEN y ELSE Err
  BY <1>1 DEF Checked
<1>5. y # Err
  BY <1>1 DEF Err
<1> HIDE DEF y
<1>6. l * Distance(p, q) >= Q64 * Q64 * Q64 <=> ~(l * Distance(p, q) < Q64 * Q64 * Q64)
  BY <1>1, <1>2
<1> QED
  BY <1>3, <1>4, <1>5, <1>6 DEF y

LEMMA DeltaB ==
  ASSUME NEW p \in Nat \ {0}, NEW q \in Nat \ {0}, NEW l \in Nat,
         NEW up \in BOOLEAN
  PROVE  LET x == get_amount_delta_b(p, q, l, up)
             y == AmountB(p, q, l, up)
         IN  /\ x # Err <=> l * Distance(p, q) <= MAX_U128 /\ y <= MAX_U64
             /\ x # Err => x = y
<1> DEFINE y == AmountB(p, q, l, up)
<1>1. /\ y \in Nat /\ l * Distance(p, q) \in Nat
      /\ MAX_U128 \in Nat /\ MAX_U64 \in Nat
  BY AmountTypes, SwapMathAssumption
<1>2. get_amount_delta_b(p, q, l, up) =
        IF l * Distance(p, q) > MAX_U128 THEN Err ELSE Checked(y, MAX_U64)
  BY DEF get_amount_delta_b, AmountB
<1>3. Checked(y, MAX_U64) = IF y <= MAX_U64 THEN y ELSE Err
  BY <1>1 DEF Checked
<1>4. y # Err
  BY <1>1 DEF Err
<1> HIDE DEF y
<1>5. l * Distance(p, q) > MAX_U128 <=> ~(l * Distance(p, q) <= MAX_U128)
  BY <1>1
<1> QED
  BY <1>2, <1>3, <1>4, <1>5 DEF y
\* The further a move, the more it takes or yields.
LEMMA NothingDivided ==
  ASSUME NEW d \in Nat \ {0}, NEW up \in BOOLEAN
  PROVE  DivRound(0, d, up) = 0
<1>1. 0 = d * (0 \div d) + (0 % d) /\ 0 \div d \in Nat /\ 0 % d \in 0 .. d - 1
  BY Remainder
<1>2. 0 \div d = 0
  <2> DEFINE k == 0 \div d
  <2>1. k \in Nat /\ d * k <= 0
    BY <1>1
  <2> HIDE DEF k
  <2>2. d * k <= d * 0
    BY <2>1
  <2>3. k <= 0
    BY <2>1, <2>2, Cancel
  <2> QED
    BY <2>1, <2>3 DEF k
<1>3. 0 % d = 0
  BY <1>1, <1>2
<1> QED
  BY <1>2, <1>3 DEF DivRound

LEMMA NoLiquidity ==
  ASSUME NEW p \in Nat \ {0}, NEW q \in Nat \ {0}
  PROVE  /\ AmountA(p, q, 0, TRUE) = 0 /\ AmountA(p, q, 0, FALSE) = 0
         /\ AmountB(p, q, 0, TRUE) = 0 /\ AmountB(p, q, 0, FALSE) = 0
<1>1. Distance(p, q) \in Nat /\ p * q \in Nat \ {0} /\ Q64 \in Nat \ {0}
  BY AmountTypes
<1>2. 0 * Distance(p, q) = 0 /\ 0 * Distance(p, q) * Q64 = 0
  BY <1>1
<1> QED
  BY <1>1, <1>2, NothingDivided, TRUE \in BOOLEAN, FALSE \in BOOLEAN DEF AmountA, AmountB

LEMMA MoreInputOfA ==
  ASSUME NEW p \in Nat \ {0}, NEW q \in Nat \ {0}, NEW t \in Nat \ {0},
         t <= q, q <= p, NEW l \in Nat
  PROVE  AmountA(p, q, l, TRUE) <= AmountA(p, t, l, TRUE)
<1> DEFINE a == AmountA(p, t, l, TRUE)
           c == DivRound(l * p * Q64, l * Q64 + p * a, TRUE)
<1>1. CASE l = 0
  <2>1. AmountA(p, q, 0, TRUE) = 0 /\ AmountA(p, t, 0, TRUE) = 0
    BY NoLiquidity
  <2>2. AmountA(p, q, l, TRUE) = 0 /\ AmountA(p, t, l, TRUE) = 0
    BY <1>1, <2>1
  <2>3. 0 <= 0
    OBVIOUS
  <2> QED
    BY <2>2, <2>3, Zenon
<1>2. CASE l # 0
  <2> l \in Nat \ {0}
    BY <1>2
  <2> t <= p
    OBVIOUS
  <2>1. a \in Nat
    BY AmountType
  <2> HIDE DEF a
  <2>2. a <= a
    BY <2>1
  <2>3. l * Q64 + p * a \in Nat \ {0} /\ l * p * Q64 \in Nat
    BY <2>1, InputOfA
  <2>4. c \in Nat
    BY <2>3, QuotientType
  <2>5. a <= a <=> c <= t
    BY <2>1, InputOfA DEF a
  <2>6. AmountA(p, q, l, TRUE) <= a <=> c <= q
    BY <2>1, InputOfA
  <2> HIDE DEF c
  <2>7. c <= t => c <= q
    BY <2>4
  <2> QED
    BY <2>2, <2>5, <2>6, <2>7 DEF a
<1> QED
  BY <1>1, <1>2

LEMMA MoreInputOfB ==
  ASSUME NEW p \in Nat \ {0}, NEW q \in Nat \ {0}, NEW t \in Nat \ {0},
         p <= q, q <= t, NEW l \in Nat
  PROVE  AmountB(p, q, l, TRUE) <= AmountB(p, t, l, TRUE)
<1> DEFINE a == AmountB(p, t, l, TRUE)
           c == p + DivRound(a * Q64, l, FALSE)
<1>1. CASE l = 0
  <2>1. AmountB(p, q, 0, TRUE) = 0 /\ AmountB(p, t, 0, TRUE) = 0
    BY NoLiquidity
  <2>2. AmountB(p, q, l, TRUE) = 0 /\ AmountB(p, t, l, TRUE) = 0
    BY <1>1, <2>1
  <2>3. 0 <= 0
    OBVIOUS
  <2> QED
    BY <2>2, <2>3, Zenon
<1>2. CASE l # 0
  <2> l \in Nat \ {0}
    BY <1>2
  <2> p <= t
    OBVIOUS
  <2>1. a \in Nat
    BY AmountType
  <2> HIDE DEF a
  <2>2. a <= a
    BY <2>1
  <2>3. DivRound(a * Q64, l, FALSE) \in Nat
    BY <2>1, InputOfB
  <2>4. c \in Nat
    <3> DEFINE d == DivRound(a * Q64, l, FALSE)
    <3>1. d \in Nat
      BY <2>3
    <3> HIDE DEF d
    <3>2. p + d \in Nat
      BY <3>1
    <3> QED
      BY <3>2 DEF d
  <2>5. a <= a <=> t <= c
    BY <2>1, InputOfB DEF a
  <2>6. AmountB(p, q, l, TRUE) <= a <=> q <= c
    BY <2>1, InputOfB
  <2> HIDE DEF c
  <2>7. t <= c => q <= c
    BY <2>4
  <2> QED
    BY <2>2, <2>5, <2>6, <2>7 DEF a
<1> QED
  BY <1>1, <1>2

\* The liquidity between two prices holds less than an infinite move would take.
LEMMA OutputOfAIsBounded ==
  ASSUME NEW p \in Nat \ {0}, NEW q \in Nat \ {0}, p <= q, NEW l \in Nat \ {0}
  PROVE  l * Q64 - p * AmountA(p, q, l, FALSE) > 0
<1> DEFINE a == AmountA(p, q, l, FALSE)
           n == l * (q - p) * Q64
<1>1. Q64 \in Nat \ {0} /\ Distance(p, q) = q - p /\ a \in Nat
  <2>1. Q64 \in Nat \ {0} /\ Distance(p, q) = q - p
    BY SwapMathAssumption DEF Distance
  <2>2. a \in Nat
    BY AmountType
  <2> QED
    BY <2>1, <2>2
<1>2. p * q \in Nat \ {0} /\ n \in Nat /\ l * Distance(p, q) * Q64 = n
  BY <1>1, AmountTypes
<1>3. (p * q) * a <= n
  <2>1. a = DivRound(n, p * q, FALSE)
    BY <1>2 DEF AmountA
  <2> HIDE DEF a, n
  <2>2. a <= a /\ a \in Int
    BY <1>1
  <2> QED
    BY <1>2, <2>1, <2>2, FloorAtLeast
<1> HIDE DEF a
<1>4. ASSUME l * Q64 <= p * a PROVE FALSE
  <2>1. l * Q64 \in Nat \ {0} /\ p * a \in Nat
    <3>1. l * Q64 \in Nat /\ l * Q64 # 0
      BY <1>1
    <3> QED
      BY <1>1, <3>1
  <2>2. q * (l * Q64) <= q * (p * a)
    BY <1>4, <2>1, Cancel
  <2>3. q * (p * a) = (p * q) * a
    BY <1>1
  <2>4. n = q * (l * Q64) - p * (l * Q64)
    BY <1>1
  <2>5. p * (l * Q64) \in Nat \ {0} /\ q * (l * Q64) \in Nat
    <3> DEFINE k == l * Q64
    <3>1. k \in Nat \ {0}
      BY <2>1
    <3> HIDE DEF k
    <3>2. p * k \in Nat /\ p * k # 0 /\ q * k \in Nat
      BY <3>1
    <3> QED
      BY <3>2 DEF k
  <2> DEFINE x == p * (l * Q64)
             y == q * (l * Q64)
             z == (p * q) * a
  <2>6. z \in Int
    BY <1>1
  <2> HIDE DEF n, x, y, z
  <2>7. z <= n /\ y <= z /\ n = y - x /\ x \in Nat \ {0} /\ y \in Nat
    BY <1>3, <2>2, <2>3, <2>4, <2>5 DEF x, y, z
  <2> QED
    BY <2>6, <2>7
<1>5. l * Q64 \in Int /\ p * a \in Int
  BY <1>1
<1>6. l * Q64 - p * a > 0
  BY <1>4, <1>5
<1> QED
  BY <1>6 DEF a

LEMMA MoreOutputOfA ==
  ASSUME NEW p \in Nat \ {0}, NEW q \in Nat \ {0}, NEW t \in Nat \ {0},
         p <= q, q <= t, NEW l \in Nat
  PROVE  AmountA(p, q, l, FALSE) <= AmountA(p, t, l, FALSE)
<1> DEFINE a == AmountA(p, q, l, FALSE)
           c == DivRound(l * p * Q64, l * Q64 - p * a, TRUE)
<1>1. CASE l = 0
  <2>1. AmountA(p, q, 0, FALSE) = 0 /\ AmountA(p, t, 0, FALSE) = 0
    BY NoLiquidity
  <2>2. AmountA(p, q, l, FALSE) = 0 /\ AmountA(p, t, l, FALSE) = 0
    BY <1>1, <2>1
  <2>3. 0 <= 0
    OBVIOUS
  <2> QED
    BY <2>2, <2>3, Zenon
<1>2. CASE l # 0
  <2> l \in Nat \ {0}
    BY <1>2
  <2> p <= t
    OBVIOUS
  <2>1. a \in Nat
    BY AmountType
  <2>2. l * Q64 - p * a > 0
    BY OutputOfAIsBounded
  <2> HIDE DEF a
  <2>3. a <= a
    BY <2>1
  <2>4. l * Q64 - p * a \in Nat \ {0} /\ l * p * Q64 \in Nat
    BY <2>1, <2>2, OutputOfA
  <2>5. c \in Nat
    BY <2>4, QuotientType
  <2>6. a <= a <=> c <= q
    BY <2>1, <2>2, OutputOfA DEF a
  <2>7. a <= AmountA(p, t, l, FALSE) <=> c <= t
    BY <2>1, <2>2, OutputOfA
  <2> HIDE DEF c
  <2>8. c <= q => c <= t
    BY <2>5
  <2> QED
    BY <2>3, <2>6, <2>7, <2>8 DEF a
<1> QED
  BY <1>1, <1>2

LEMMA MoreOutputOfB ==
  ASSUME NEW p \in Nat \ {0}, NEW q \in Nat \ {0}, NEW t \in Nat \ {0},
         t <= q, q <= p, NEW l \in Nat
  PROVE  AmountB(p, q, l, FALSE) <= AmountB(p, t, l, FALSE)
<1> DEFINE a == AmountB(p, q, l, FALSE)
           c == p - DivRound(a * Q64, l, TRUE)
<1>1. CASE l = 0
  <2>1. AmountB(p, q, 0, FALSE) = 0 /\ AmountB(p, t, 0, FALSE) = 0
    BY NoLiquidity
  <2>2. AmountB(p, q, l, FALSE) = 0 /\ AmountB(p, t, l, FALSE) = 0
    BY <1>1, <2>1
  <2>3. 0 <= 0
    OBVIOUS
  <2> QED
    BY <2>2, <2>3, Zenon
<1>2. CASE l # 0
  <2> l \in Nat \ {0}
    BY <1>2
  <2> t <= p
    OBVIOUS
  <2>1. a \in Nat
    BY AmountType
  <2> HIDE DEF a
  <2>2. a <= a
    BY <2>1
  <2>3. DivRound(a * Q64, l, TRUE) \in Nat
    BY <2>1, OutputOfB
  <2>4. c \in Int
    <3> DEFINE d == DivRound(a * Q64, l, TRUE)
    <3>1. d \in Nat
      BY <2>3
    <3> HIDE DEF d
    <3>2. p - d \in Int
      BY <3>1
    <3> QED
      BY <3>2 DEF d
  <2>5. a <= a <=> q <= c
    BY <2>1, OutputOfB DEF a
  <2>6. a <= AmountB(p, t, l, FALSE) <=> t <= c
    BY <2>1, OutputOfB
  <2> HIDE DEF c
  <2>7. q <= c => t <= c
    BY <2>4
  <2> QED
    BY <2>2, <2>5, <2>6, <2>7 DEF a
<1> QED
  BY <1>1, <1>2

-----------------------------------------------------------------------------
\* A step: its arguments, the amount of the fixed token that a move takes or
\* yields, and the price that an amount leads to.

Inputs ==
    [amount: 0 .. MAX_U64, fee_rate: 0 .. FEE_RATE_MUL_VALUE - 1,
     liquidity: 0 .. MAX_U128, price: SqrtPrices, target: SqrtPrices,
     is_input: BOOLEAN, a_to_b: BOOLEAN]

Legal(i) == i \in Inputs /\ i.target \in Targets(i.price, i.a_to_b)

AmountTo(i, q) ==
    IF i.a_to_b = i.is_input THEN AmountA(i.price, q, i.liquidity, i.is_input)
                             ELSE AmountB(i.price, q, i.liquidity, i.is_input)
FixedOf(i, q) ==
    get_amount_fixed_delta(i.price, q, i.liquidity, i.is_input, i.a_to_b)
PriceAt(i, a) ==
    get_next_sqrt_price(i.price, i.liquidity, a, i.is_input, i.a_to_b)

\* A move in the direction of i reaches q no later than t.
NoLater(i, q, t) == IF i.a_to_b THEN t <= q ELSE q <= t
Between(i, q) == NoLater(i, i.price, q) /\ NoLater(i, q, i.target)

LEMMA LegalTypes ==
  ASSUME NEW i, Legal(i)
  PROVE  /\ i.amount \in Nat /\ i.amount <= MAX_U64
         /\ i.fee_rate \in Nat /\ i.fee_rate <= FEE_RATE_MUL_VALUE - 1
         /\ i.liquidity \in Nat
         /\ i.price \in Nat \ {0} /\ i.target \in Nat \ {0}
         /\ i.price \in SqrtPrices /\ i.target \in SqrtPrices
         /\ i.is_input \in BOOLEAN /\ i.a_to_b \in BOOLEAN
         /\ NoLater(i, i.price, i.target)
<1>1. i \in Inputs /\ i.target \in Targets(i.price, i.a_to_b)
  BY DEF Legal
<1>2. /\ i.amount \in 0 .. MAX_U64 /\ i.fee_rate \in 0 .. FEE_RATE_MUL_VALUE - 1
      /\ i.liquidity \in 0 .. MAX_U128
      /\ i.price \in SqrtPrices /\ i.target \in SqrtPrices
      /\ i.is_input \in BOOLEAN /\ i.a_to_b \in BOOLEAN
  BY <1>1 DEF Inputs
<1>3. i.price \in Nat \ {0} /\ i.target \in Nat \ {0}
  BY <1>2, SwapMathAssumption DEF SqrtPrices
<1>4. NoLater(i, i.price, i.target)
  BY <1>1, <1>2 DEF Targets, NoLater
<1> QED
  BY <1>2, <1>3, <1>4, SwapMathAssumption

LEMMA BetweenTypes ==
  ASSUME NEW i, Legal(i), NEW q \in Int, Between(i, q)
  PROVE  q \in Nat \ {0} /\ q \in SqrtPrices
<1>1. /\ i.price \in MIN_SQRT_PRICE .. MAX_SQRT_PRICE
      /\ i.target \in MIN_SQRT_PRICE .. MAX_SQRT_PRICE
      /\ i.a_to_b \in BOOLEAN
  BY LegalTypes DEF SqrtPrices
<1>2. /\ i.a_to_b => i.target <= q /\ q <= i.price
      /\ ~i.a_to_b => i.price <= q /\ q <= i.target
  BY DEF Between, NoLater
<1>3. MIN_SQRT_PRICE \in Nat \ {0} /\ MAX_SQRT_PRICE \in Nat
  BY SwapMathAssumption
<1>4. q \in MIN_SQRT_PRICE .. MAX_SQRT_PRICE
  BY <1>1, <1>2, <1>3
<1> QED
  BY <1>3, <1>4 DEF SqrtPrices

\* The four kinds of step.
LEMMA AmountToIs ==
  ASSUME NEW i, Legal(i), NEW q
  PROVE  /\ i.is_input /\ i.a_to_b
              => AmountTo(i, q) = AmountA(i.price, q, i.liquidity, TRUE)
         /\ i.is_input /\ ~i.a_to_b
              => AmountTo(i, q) = AmountB(i.price, q, i.liquidity, TRUE)
         /\ ~i.is_input /\ i.a_to_b
              => AmountTo(i, q) = AmountB(i.price, q, i.liquidity, FALSE)
         /\ ~i.is_input /\ ~i.a_to_b
              => AmountTo(i, q) = AmountA(i.price, q, i.liquidity, FALSE)
<1>1. i.is_input \in {TRUE, FALSE} /\ i.a_to_b \in {TRUE, FALSE}
  BY LegalTypes
<1> QED
  BY <1>1 DEF AmountTo

LEMMA AmountToType ==
  ASSUME NEW i, Legal(i), NEW q \in Nat \ {0}
  PROVE  AmountTo(i, q) \in Nat
<1>1. i.price \in Nat \ {0} /\ i.liquidity \in Nat
  BY LegalTypes
<1>2. /\ AmountA(i.price, q, i.liquidity, TRUE) \in Nat
      /\ AmountA(i.price, q, i.liquidity, FALSE) \in Nat
      /\ AmountB(i.price, q, i.liquidity, TRUE) \in Nat
      /\ AmountB(i.price, q, i.liquidity, FALSE) \in Nat
  BY <1>1, AmountType
<1> QED
  BY <1>2, AmountToIs, Zenon

\* The further a step goes, the more it takes or yields.
LEMMA MoreFurther ==
  ASSUME NEW i, Legal(i), NEW q \in Int, NEW t \in Int,
         Between(i, q), Between(i, t), NoLater(i, q, t)
  PROVE  AmountTo(i, q) <= AmountTo(i, t)
<1> DEFINE p == i.price
           l == i.liquidity
<1>1. p \in Nat \ {0} /\ l \in Nat /\ q \in Nat \ {0} /\ t \in Nat \ {0}
  BY LegalTypes, BetweenTypes
<1>2. i.is_input \in BOOLEAN /\ i.a_to_b \in BOOLEAN
  BY LegalTypes
<1>3. /\ i.a_to_b => t <= q /\ q <= p
      /\ ~i.a_to_b => p <= q /\ q <= t
  BY DEF Between, NoLater
<1> HIDE DEF p, l
<1>4. CASE i.is_input /\ i.a_to_b
  <2>1. AmountA(p, q, l, TRUE) <= AmountA(p, t, l, TRUE)
    BY <1>1, <1>3, <1>4, MoreInputOfA
  <2> QED
    BY <1>4, <2>1, AmountToIs DEF p, l
<1>5. CASE i.is_input /\ ~i.a_to_b
  <2>1. AmountB(p, q, l, TRUE) <= AmountB(p, t, l, TRUE)
    BY <1>1, <1>3, <1>5, MoreInputOfB
  <2> QED
    BY <1>5, <2>1, AmountToIs DEF p, l
<1>6. CASE ~i.is_input /\ i.a_to_b
  <2>1. AmountB(p, q, l, FALSE) <= AmountB(p, t, l, FALSE)
    BY <1>1, <1>3, <1>6, MoreOutputOfB
  <2> QED
    BY <1>6, <2>1, AmountToIs DEF p, l
<1>7. CASE ~i.is_input /\ ~i.a_to_b
  <2>1. AmountA(p, q, l, FALSE) <= AmountA(p, t, l, FALSE)
    BY <1>1, <1>3, <1>7, MoreOutputOfA
  <2> QED
    BY <1>7, <2>1, AmountToIs DEF p, l
<1> QED
  BY <1>2, <1>4, <1>5, <1>6, <1>7

LEMMA DistanceGrows ==
  ASSUME NEW i, Legal(i), NEW q \in Int, NEW t \in Int,
         Between(i, q), Between(i, t), NoLater(i, q, t)
  PROVE  /\ i.liquidity * Distance(i.price, q) \in Nat
         /\ i.liquidity * Distance(i.price, t) \in Nat
         /\ i.liquidity * Distance(i.price, q) <= i.liquidity * Distance(i.price, t)
<1> DEFINE p == i.price
           l == i.liquidity
           d == Distance(i.price, q)
           e == Distance(i.price, t)
<1>1. p \in Nat \ {0} /\ l \in Nat /\ q \in Nat \ {0} /\ t \in Nat \ {0}
  BY LegalTypes, BetweenTypes
<1>2. /\ i.a_to_b => t <= q /\ q <= p
      /\ ~i.a_to_b => p <= q /\ q <= t
  BY DEF Between, NoLater
<1>3. d \in Nat /\ e \in Nat /\ d <= e
  BY <1>1, <1>2 DEF Distance
<1> HIDE DEF p, l, d, e
<1>4. l * d \in Nat /\ l * e \in Nat
  BY <1>1, <1>3
<1>5. CASE l = 0
  BY <1>3, <1>4, <1>5 DEF p, l, d, e
<1>6. CASE l # 0
  <2>1. l \in Nat \ {0} /\ d \in Int /\ e \in Int
    BY <1>1, <1>3, <1>6
  <2>2. l * d <= l * e
    BY <1>3, <2>1, Cancel
  <2> QED
    BY <1>4, <2>2 DEF p, l, d, e
<1> QED
  BY <1>5, <1>6

\* An amount that does not overflow is the amount, and one to a nearer price
\* does not either.
LEMMA FixedIs ==
  ASSUME NEW i, Legal(i), NEW q \in Nat \ {0}, FixedOf(i, q) # Err
  PROVE  FixedOf(i, q) = AmountTo(i, q) /\ AmountTo(i, q) <= MAX_U64
<1>1. /\ i.price \in Nat \ {0} /\ i.liquidity \in Nat
      /\ i.is_input \in BOOLEAN /\ i.a_to_b \in BOOLEAN
  BY LegalTypes
<1>2. CASE i.a_to_b = i.is_input
  BY <1>1, <1>2, DeltaA DEF FixedOf, AmountTo, get_amount_fixed_delta
<1>3. CASE ~(i.a_to_b = i.is_input)
  BY <1>1, <1>3, DeltaB DEF FixedOf, AmountTo, get_amount_fixed_delta
<1> QED
  BY <1>2, <1>3

LEMMA FixedNearer ==
  ASSUME NEW i, Legal(i), NEW q \in Int, Between(i, q),
         FixedOf(i, i.target) # Err
  PROVE  FixedOf(i, q) = AmountTo(i, q)
<1> DEFINE p == i.price
           l == i.liquidity
           t == i.target
           in == i.is_input
<1>1. /\ p \in Nat \ {0} /\ l \in Nat /\ q \in Nat \ {0} /\ t \in Nat \ {0}
      /\ in \in BOOLEAN /\ i.a_to_b \in BOOLEAN
  BY LegalTypes, BetweenTypes
<1>2. t \in Int /\ Between(i, t) /\ NoLater(i, q, t)
  BY <1>1, LegalTypes DEF Between, NoLater
<1>3. AmountTo(i, q) <= AmountTo(i, t)
  BY <1>2, MoreFurther
<1>4. /\ l * Distance(p, q) \in Nat /\ l * Distance(p, t) \in Nat
      /\ l * Distance(p, q) <= l * Distance(p, t)
  BY <1>2, DistanceGrows
<1>5. AmountTo(i, q) \in Nat /\ AmountTo(i, t) \in Nat
  BY <1>1, AmountToType
<1>6. Q64 * Q64 * Q64 \in Int /\ MAX_U64 \in Nat /\ MAX_U128 \in Nat
  <2>1. Q64 \in Nat /\ Q64 * Q64 \in Nat
    BY SwapMathAssumption
  <2> QED
    BY <2>1, SwapMathAssumption
<1> HIDE DEF p, l, t, in
<1>7. CASE i.a_to_b = in
  <2>1. /\ AmountTo(i, q) = AmountA(p, q, l, in)
        /\ AmountTo(i, t) = AmountA(p, t, l, in)
        /\ FixedOf(i, q) = get_amount_delta_a(p, q, l, in)
        /\ FixedOf(i, t) = get_amount_delta_a(p, t, l, in)
    BY <1>7 DEF AmountTo, FixedOf, get_amount_fixed_delta, p, l, in
  <2>2. get_amount_delta_a(p, t, l, in) # Err
    BY <2>1 DEF t
  <2>3. l * Distance(p, t) < Q64 * Q64 * Q64 /\ AmountTo(i, t) <= MAX_U64
    BY <1>1, <2>1, <2>2, DeltaA
  <2>4. l * Distance(p, q) < Q64 * Q64 * Q64 /\ AmountTo(i, q) <= MAX_U64
    BY <1>3, <1>4, <1>5, <1>6, <2>3
  <2> QED
    BY <1>1, <2>1, <2>4, DeltaA
<1>8. CASE ~(i.a_to_b = in)
  <2>1. /\ AmountTo(i, q) = AmountB(p, q, l, in)
        /\ AmountTo(i, t) = AmountB(p, t, l, in)
        /\ FixedOf(i, q) = get_amount_delta_b(p, q, l, in)
        /\ FixedOf(i, t) = get_amount_delta_b(p, t, l, in)
    BY <1>8 DEF AmountTo, FixedOf, get_amount_fixed_delta, p, l, in
  <2>2. get_amount_delta_b(p, t, l, in) # Err
    BY <2>1 DEF t
  <2>3. l * Distance(p, t) <= MAX_U128 /\ AmountTo(i, t) <= MAX_U64
    BY <1>1, <2>1, <2>2, DeltaB
  <2>4. l * Distance(p, q) <= MAX_U128 /\ AmountTo(i, q) <= MAX_U64
    BY <1>3, <1>4, <1>5, <1>6, <2>3
  <2> QED
    BY <1>1, <2>1, <2>4, DeltaB
<1> QED
  BY <1>7, <1>8

\* An amount that falls short of the target leads to a price on the way.
LEMMA SomeLiquidity ==
  ASSUME NEW p \in Nat \ {0}, NEW t \in Nat \ {0}, NEW l \in Nat, NEW a \in Nat
  PROVE  /\ a < AmountA(p, t, l, TRUE) => l # 0
         /\ a < AmountB(p, t, l, TRUE) => l # 0
         /\ a < AmountA(p, t, l, FALSE) => l # 0
         /\ a < AmountB(p, t, l, FALSE) => l # 0
<1>1. ~(a < 0)
  OBVIOUS
<1> QED
  BY <1>1, NoLiquidity, Zenon

LEMMA StopsInputOfA ==
  ASSUME NEW p \in Nat \ {0}, NEW t \in Nat \ {0}, t <= p,
         NEW l \in Nat \ {0}, NEW a \in Nat, a < AmountA(p, t, l, TRUE)
  PROVE  LET n == DivRound(l * p * Q64, l * Q64 + p * a, TRUE)
         IN  /\ n \in Int /\ n <= p /\ t < n
             /\ \A q \in Nat \ {0} :
                   q <= p => (AmountA(p, q, l, TRUE) <= a <=> n <= q)
<1> DEFINE b == AmountA(p, t, l, TRUE)
           e == l * Q64 + p * a
           m == l * p * Q64
           n == DivRound(m, e, TRUE)
<1>1. b \in Nat /\ a < b
  <2>1. b \in Nat
    BY AmountType
  <2>2. a < b
    OBVIOUS
  <2> QED
    BY <2>1, <2>2, Zenon
<1>2. e \in Nat \ {0} /\ m \in Nat
  BY InputOfA
<1>3. n \in Int
  <2> HIDE DEF m, e
  <2>1. n \in Nat
    BY <1>2, CeilingType
  <2> HIDE DEF n
  <2> QED
    BY <2>1
<1>4. ASSUME NEW q \in Nat \ {0}, q <= p
      PROVE  AmountA(p, q, l, TRUE) <= a <=> n <= q
  BY <1>4, InputOfA
<1>5. m <= e * p
  <2>1. e * p = m + p * a * p
    BY SwapMathAssumption
  <2>2. p * a * p \in Nat
    <3>1. p * a \in Nat
      OBVIOUS
    <3> QED
      BY <3>1
  <2> HIDE DEF m, e
  <2> QED
    BY <1>2, <2>1, <2>2
<1>6. n <= p
  <2> HIDE DEF m, e
  <2> p \in Int
    OBVIOUS
  <2> QED
    BY <1>2, <1>5, CeilingAtMost
<1> HIDE DEF n
<1>7. t < n
  <2>1. ~(b <= a)
    <3> HIDE DEF b
    <3> QED
      BY <1>1
  <2>2. ~(n <= t)
    BY <1>4, <2>1, Zenon
  <2> QED
    BY <1>3, <2>2
<1> QED
  BY <1>3, <1>4, <1>6, <1>7, Zenon DEF n

LEMMA StopsInputOfB ==
  ASSUME NEW p \in Nat \ {0}, NEW t \in Nat \ {0}, p <= t,
         NEW l \in Nat \ {0}, NEW a \in Nat, a < AmountB(p, t, l, TRUE)
  PROVE  LET n == p + DivRound(a * Q64, l, FALSE)
         IN  /\ n \in Int /\ p <= n /\ n < t
             /\ \A q \in Nat \ {0} :
                   p <= q => (AmountB(p, q, l, TRUE) <= a <=> q <= n)
<1> DEFINE b == AmountB(p, t, l, TRUE)
           d == DivRound(a * Q64, l, FALSE)
           n == p + d
<1>1. b \in Nat /\ a < b
  <2>1. b \in Nat
    BY AmountType
  <2>2. a < b
    OBVIOUS
  <2> QED
    BY <2>1, <2>2, Zenon
<1>2. d \in Nat
  BY InputOfB
<1>3. ASSUME NEW q \in Nat \ {0}, p <= q
      PROVE  AmountB(p, q, l, TRUE) <= a <=> q <= n
  BY <1>3, InputOfB
<1> HIDE DEF d
<1>4. n \in Int /\ p <= n
  BY <1>2
<1> HIDE DEF n
<1>5. n < t
  <2>1. ~(b <= a)
    <3> HIDE DEF b
    <3> QED
      BY <1>1
  <2>2. ~(t <= n)
    BY <1>3, <2>1, Zenon
  <2> QED
    BY <1>4, <2>2
<1> QED
  BY <1>3, <1>4, <1>5, Zenon DEF n, d

LEMMA StopsOutputOfA ==
  ASSUME NEW p \in Nat \ {0}, NEW t \in Nat \ {0}, p <= t,
         NEW l \in Nat \ {0}, NEW a \in Nat, a < AmountA(p, t, l, FALSE),
         l * Q64 - p * a > 0
  PROVE  LET n == DivRound(l * p * Q64, l * Q64 - p * a, TRUE)
         IN  /\ n \in Int /\ p <= n /\ n <= t
             /\ \A q \in Nat \ {0} :
                   p <= q => (a <= AmountA(p, q, l, FALSE) <=> n <= q)
<1> DEFINE b == AmountA(p, t, l, FALSE)
           e == l * Q64 - p * a
           m == l * p * Q64
           n == DivRound(m, e, TRUE)
<1>1. b \in Nat /\ a < b
  <2>1. b \in Nat
    BY AmountType
  <2>2. a < b
    OBVIOUS
  <2> QED
    BY <2>1, <2>2, Zenon
<1>2. e \in Nat \ {0} /\ m \in Nat
  BY OutputOfA
<1>3. n \in Int
  <2> HIDE DEF m, e
  <2>1. n \in Nat
    BY <1>2, CeilingType
  <2> HIDE DEF n
  <2> QED
    BY <2>1
<1>4. ASSUME NEW q \in Nat \ {0}, p <= q
      PROVE  a <= AmountA(p, q, l, FALSE) <=> n <= q
  BY <1>4, OutputOfA
<1>5. ~(m <= e * (p - 1))
  <2>1. e * (p - 1) = m - (e + p * a * p)
    BY SwapMathAssumption
  <2>2. p * a * p \in Nat
    <3>1. p * a \in Nat
      OBVIOUS
    <3> QED
      BY <3>1
  <2> HIDE DEF m, e
  <2> QED
    BY <1>2, <2>1, <2>2
<1>6. ~(n <= p - 1)
  <2> HIDE DEF m, e
  <2> p - 1 \in Int
    OBVIOUS
  <2> QED
    BY <1>2, <1>5, CeilingAtMost
<1> HIDE DEF n
<1>7. p <= n
  BY <1>3, <1>6
<1>8. n <= t
  <2>1. a <= b
    <3> HIDE DEF b
    <3> QED
      BY <1>1
  <2> QED
    BY <1>4, <2>1, Zenon
<1> QED
  BY <1>3, <1>4, <1>7, <1>8, Zenon DEF n

LEMMA StopsOutputOfB ==
  ASSUME NEW p \in Nat \ {0}, NEW t \in Nat \ {0}, t <= p,
         NEW l \in Nat \ {0}, NEW a \in Nat, a < AmountB(p, t, l, FALSE)
  PROVE  LET n == p - DivRound(a * Q64, l, TRUE)
         IN  /\ n \in Int /\ n <= p /\ t <= n
             /\ \A q \in Nat \ {0} :
                   q <= p => (a <= AmountB(p, q, l, FALSE) <=> q <= n)
<1> DEFINE b == AmountB(p, t, l, FALSE)
           d == DivRound(a * Q64, l, TRUE)
           n == p - d
<1>1. b \in Nat /\ a < b
  <2>1. b \in Nat
    BY AmountType
  <2>2. a < b
    OBVIOUS
  <2> QED
    BY <2>1, <2>2, Zenon
<1>2. d \in Nat
  BY OutputOfB
<1>3. ASSUME NEW q \in Nat \ {0}, q <= p
      PROVE  a <= AmountB(p, q, l, FALSE) <=> q <= n
  BY <1>3, OutputOfB
<1> HIDE DEF d
<1>4. n \in Int /\ n <= p
  BY <1>2
<1> HIDE DEF n
<1>5. t <= n
  <2>1. a <= b
    <3> HIDE DEF b
    <3> QED
      BY <1>1
  <2> QED
    BY <1>3, <2>1, Zenon
<1> QED
  BY <1>3, <1>4, <1>5, Zenon DEF n, d

\* A step whose amount falls short of its target: it stops on the way, at the
\* last price that the amount pays for, or at the first that yields it.
LEMMA Stops ==
  ASSUME NEW i, Legal(i), NEW a \in Nat, a < AmountTo(i, i.target),
         PriceAt(i, a) # Err
  PROVE  /\ PriceAt(i, a) \in Int /\ Between(i, PriceAt(i, a))
         /\ i.is_input => PriceAt(i, a) # i.target
         /\ \A q \in Nat \ {0} : NoLater(i, i.price, q) =>
               /\ i.is_input =>
                     (AmountTo(i, q) <= a <=> NoLater(i, q, PriceAt(i, a)))
               /\ ~i.is_input =>
                     (a <= AmountTo(i, q) <=> NoLater(i, PriceAt(i, a), q))
<1> DEFINE p == i.price
           l == i.liquidity
           t == i.target
           n == PriceAt(i, a)
<1>1. /\ p \in Nat \ {0} /\ l \in Nat /\ t \in Nat \ {0}
      /\ i.is_input \in BOOLEAN /\ i.a_to_b \in BOOLEAN
      /\ NoLater(i, p, t)
  BY LegalTypes
<1>2. a < AmountTo(i, t) /\ n # Err
  OBVIOUS
<1> HIDE DEF p, l, t, n
<1>3. CASE i.is_input /\ i.a_to_b
  <2>1. AmountTo(i, t) = AmountA(p, t, l, TRUE)
    BY <1>3, AmountToIs DEF p, l
  <2>2. a < AmountA(p, t, l, TRUE)
    BY <1>2, <2>1, Zenon
  <2>3. l \in Nat \ {0}
    BY <1>1, <2>2, SomeLiquidity
  <2>4. n = get_next_sqrt_price_from_a_round_up(p, l, a, TRUE)
    <3>1. i.is_input = TRUE /\ i.a_to_b = TRUE
      BY <1>1, <1>3
    <3> QED
      BY <3>1 DEF n, p, l, PriceAt, get_next_sqrt_price
  <2>5. n = DivRound(l * p * Q64, l * Q64 + p * a, TRUE)
    <3>1. get_next_sqrt_price_from_a_round_up(p, l, a, TRUE) # Err
      BY <1>2, <2>4, Zenon
    <3> QED
      BY <1>1, <2>3, <2>4, <3>1, NextFromA, TRUE \in BOOLEAN
  <2>6. t <= p
    BY <1>1, <1>3 DEF NoLater
  <2> DEFINE m == DivRound(l * p * Q64, l * Q64 + p * a, TRUE)
  <2>7. /\ m \in Int /\ m <= p /\ t < m
        /\ \A q \in Nat \ {0} : q <= p => (AmountA(p, q, l, TRUE) <= a <=> m <= q)
    BY <1>1, <2>2, <2>3, <2>5, <2>6, StopsInputOfA
  <2>8. /\ n \in Int /\ n <= p /\ t < n
        /\ \A q \in Nat \ {0} : q <= p => (AmountA(p, q, l, TRUE) <= a <=> n <= q)
    BY <2>5, <2>7, Zenon
  <2> HIDE DEF m
  <2>9. \A q : AmountTo(i, q) = AmountA(p, q, l, TRUE)
    BY <1>3, AmountToIs DEF p, l
  <2>10. n # t /\ Between(i, n)
    BY <1>1, <1>3, <2>8 DEF Between, NoLater, p, t
  <2>11. ASSUME NEW q \in Nat \ {0}, NoLater(i, p, q)
         PROVE  AmountTo(i, q) <= a <=> NoLater(i, q, n)
    <3>1. q <= p
      BY <1>3, <2>11 DEF NoLater
    <3>2. AmountA(p, q, l, TRUE) <= a <=> n <= q
      BY <2>8, <3>1, Zenon
    <3> QED
      BY <1>3, <2>9, <3>2, Zenon DEF NoLater
  <2> QED
    BY <1>3, <2>8, <2>10, <2>11, Zenon DEF p, t, n
<1>4. CASE i.is_input /\ ~i.a_to_b
  <2>1. AmountTo(i, t) = AmountB(p, t, l, TRUE)
    BY <1>4, AmountToIs DEF p, l
  <2>2. a < AmountB(p, t, l, TRUE)
    BY <1>2, <2>1, Zenon
  <2>3. l \in Nat \ {0}
    BY <1>1, <2>2, SomeLiquidity
  <2>4. n = get_next_sqrt_price_from_b_round_down(p, l, a, TRUE)
    <3>1. i.is_input = TRUE /\ i.a_to_b = FALSE
      BY <1>1, <1>4
    <3> QED
      BY <3>1 DEF n, p, l, PriceAt, get_next_sqrt_price
  <2>5. n = p + DivRound(a * Q64, l, FALSE)
    <3>1. get_next_sqrt_price_from_b_round_down(p, l, a, TRUE) # Err
      BY <1>2, <2>4, Zenon
    <3> QED
      BY <1>1, <2>3, <2>4, <3>1, NextFromB, TRUE \in BOOLEAN
  <2>6. p <= t
    BY <1>1, <1>4 DEF NoLater
  <2> DEFINE m == p + DivRound(a * Q64, l, FALSE)
  <2>7. /\ m \in Int /\ p <= m /\ m < t
        /\ \A q \in Nat \ {0} : p <= q => (AmountB(p, q, l, TRUE) <= a <=> q <= m)
    BY <1>1, <2>2, <2>3, <2>5, <2>6, StopsInputOfB
  <2>8. /\ n \in Int /\ p <= n /\ n < t
        /\ \A q \in Nat \ {0} : p <= q => (AmountB(p, q, l, TRUE) <= a <=> q <= n)
    BY <2>5, <2>7, Zenon
  <2> HIDE DEF m
  <2>9. \A q : AmountTo(i, q) = AmountB(p, q, l, TRUE)
    BY <1>4, AmountToIs DEF p, l
  <2>10. n # t /\ Between(i, n)
    BY <1>1, <1>4, <2>8 DEF Between, NoLater, p, t
  <2>11. ASSUME NEW q \in Nat \ {0}, NoLater(i, p, q)
         PROVE  AmountTo(i, q) <= a <=> NoLater(i, q, n)
    <3>1. p <= q
      BY <1>4, <2>11 DEF NoLater
    <3>2. AmountB(p, q, l, TRUE) <= a <=> q <= n
      BY <2>8, <3>1, Zenon
    <3> QED
      BY <1>4, <2>9, <3>2, Zenon DEF NoLater
  <2> QED
    BY <1>4, <2>8, <2>10, <2>11, Zenon DEF p, t, n
<1>5. CASE ~i.is_input /\ i.a_to_b
  <2>1. AmountTo(i, t) = AmountB(p, t, l, FALSE)
    BY <1>5, AmountToIs DEF p, l
  <2>2. a < AmountB(p, t, l, FALSE)
    BY <1>2, <2>1, Zenon
  <2>3. l \in Nat \ {0}
    BY <1>1, <2>2, SomeLiquidity
  <2>4. n = get_next_sqrt_price_from_b_round_down(p, l, a, FALSE)
    <3>1. i.is_input = FALSE /\ i.a_to_b = TRUE
      BY <1>1, <1>5
    <3> QED
      BY <3>1 DEF n, p, l, PriceAt, get_next_sqrt_price
  <2>5. n = p - DivRound(a * Q64, l, TRUE)
    <3>1. get_next_sqrt_price_from_b_round_down(p, l, a, FALSE) # Err
      BY <1>2, <2>4, Zenon
    <3> QED
      BY <1>1, <2>3, <2>4, <3>1, NextFromB, FALSE \in BOOLEAN
  <2>6. t <= p
    BY <1>1, <1>5 DEF NoLater
  <2> DEFINE m == p - DivRound(a * Q64, l, TRUE)
  <2>7. /\ m \in Int /\ m <= p /\ t <= m
        /\ \A q \in Nat \ {0} : q <= p => (a <= AmountB(p, q, l, FALSE) <=> q <= m)
    BY <1>1, <2>2, <2>3, <2>5, <2>6, StopsOutputOfB
  <2>8. /\ n \in Int /\ n <= p /\ t <= n
        /\ \A q \in Nat \ {0} : q <= p => (a <= AmountB(p, q, l, FALSE) <=> q <= n)
    BY <2>5, <2>7, Zenon
  <2> HIDE DEF m
  <2>9. \A q : AmountTo(i, q) = AmountB(p, q, l, FALSE)
    BY <1>5, AmountToIs DEF p, l
  <2>10. Between(i, n)
    BY <1>1, <1>5, <2>8 DEF Between, NoLater, p, t
  <2>11. ASSUME NEW q \in Nat \ {0}, NoLater(i, p, q)
         PROVE  a <= AmountTo(i, q) <=> NoLater(i, n, q)
    <3>1. q <= p
      BY <1>5, <2>11 DEF NoLater
    <3>2. a <= AmountB(p, q, l, FALSE) <=> q <= n
      BY <2>8, <3>1, Zenon
    <3> QED
      BY <1>5, <2>9, <3>2, Zenon DEF NoLater
  <2> QED
    BY <1>5, <2>8, <2>10, <2>11, Zenon DEF p, t, n
<1>6. CASE ~i.is_input /\ ~i.a_to_b
  <2>1. AmountTo(i, t) = AmountA(p, t, l, FALSE)
    BY <1>6, AmountToIs DEF p, l
  <2>2. a < AmountA(p, t, l, FALSE)
    BY <1>2, <2>1, Zenon
  <2>3. l \in Nat \ {0}
    BY <1>1, <2>2, SomeLiquidity
  <2>4. n = get_next_sqrt_price_from_a_round_up(p, l, a, FALSE)
    <3>1. i.is_input = FALSE /\ i.a_to_b = FALSE
      BY <1>1, <1>6
    <3> QED
      BY <3>1 DEF n, p, l, PriceAt, get_next_sqrt_price
  <2>5. n = DivRound(l * p * Q64, l * Q64 - p * a, TRUE) /\ l * Q64 - p * a > 0
    <3>1. get_next_sqrt_price_from_a_round_up(p, l, a, FALSE) # Err
      BY <1>2, <2>4, Zenon
    <3> QED
      BY <1>1, <2>3, <2>4, <3>1, NextFromA, FALSE \in BOOLEAN
  <2>6. p <= t
    BY <1>1, <1>6 DEF NoLater
  <2> DEFINE m == DivRound(l * p * Q64, l * Q64 - p * a, TRUE)
  <2>7. /\ m \in Int /\ p <= m /\ m <= t
        /\ \A q \in Nat \ {0} : p <= q => (a <= AmountA(p, q, l, FALSE) <=> m <= q)
    BY <1>1, <2>2, <2>3, <2>5, <2>6, StopsOutputOfA
  <2>8. /\ n \in Int /\ p <= n /\ n <= t
        /\ \A q \in Nat \ {0} : p <= q => (a <= AmountA(p, q, l, FALSE) <=> n <= q)
    BY <2>5, <2>7, Zenon
  <2> HIDE DEF m
  <2>9. \A q : AmountTo(i, q) = AmountA(p, q, l, FALSE)
    BY <1>6, AmountToIs DEF p, l
  <2>10. Between(i, n)
    BY <1>1, <1>6, <2>8 DEF Between, NoLater, p, t
  <2>11. ASSUME NEW q \in Nat \ {0}, NoLater(i, p, q)
         PROVE  a <= AmountTo(i, q) <=> NoLater(i, n, q)
    <3>1. p <= q
      BY <1>6, <2>11 DEF NoLater
    <3>2. a <= AmountA(p, q, l, FALSE) <=> n <= q
      BY <2>8, <3>1, Zenon
    <3> QED
      BY <1>6, <2>9, <3>2, Zenon DEF NoLater
  <2> QED
    BY <1>6, <2>8, <2>10, <2>11, Zenon DEF p, t, n
<1> QED
  BY <1>1, <1>3, <1>4, <1>5, <1>6, Zenon

-----------------------------------------------------------------------------
\* What a step that succeeds returns.

UnfixedOf(i, q) ==
    get_amount_unfixed_delta(i.price, q, i.liquidity, i.is_input, i.a_to_b)
BudgetOf(i) == IF i.is_input THEN LessFee(i.amount, i.fee_rate) ELSE i.amount
NextOf(i) ==
    IF BudgetOf(i) >= FixedOf(i, i.target) THEN i.target ELSE PriceAt(i, BudgetOf(i))

\* Neither the amount for the target nor the next price is an error.
Reaches(i) == FixedOf(i, i.target) # Err /\ NextOf(i) # Err

LEMMA OkStep ==
  ASSUME NEW i, Legal(i), IsOk(StepOf(i))
  PROVE  LET s == StepOf(i)
             n == NextOf(i)
         IN  /\ s.next_price = n /\ n # Err
             /\ FixedOf(i, i.target) # Err /\ Reaches(i)
             /\ FixedOf(i, n) # Err /\ UnfixedOf(i, n) # Err
             /\ s.amount_in = IF i.is_input THEN FixedOf(i, n) ELSE UnfixedOf(i, n)
             /\ s.amount_out = CapOutput(IF i.is_input THEN UnfixedOf(i, n)
                                                       ELSE FixedOf(i, n),
                                         i.amount, i.is_input)
             /\ s.fee_amount = IF i.is_input /\ n # i.target
                               THEN i.amount - s.amount_in
                               ELSE Checked(FeeOf(s.amount_in, i.fee_rate), MAX_U64)
             /\ s.fee_amount # Err
<1> DEFINE s == StepOf(i)
           n == NextOf(i)
           full == FixedOf(i, i.target)
           fixed == IF n = i.target THEN full ELSE FixedOf(i, n)
           unfixed == UnfixedOf(i, n)
           in == IF i.is_input THEN fixed ELSE unfixed
           out == IF i.is_input THEN unfixed ELSE fixed
           fee == IF i.is_input /\ ~(n = i.target) THEN i.amount - in
                  ELSE Checked(FeeOf(in, i.fee_rate), MAX_U64)
           failed == Err \in {full, n} \/ Err \in {fixed, unfixed}
<1>1. s = IF failed
          THEN [amount_in |-> Err, amount_out |-> Err, next_price |-> Err,
                fee_amount |-> Err]
          ELSE [amount_in |-> in,
                amount_out |-> CapOutput(out, i.amount, i.is_input),
                next_price |-> n, fee_amount |-> fee]
  BY DEF StepOf, compute_swap, NextOf, BudgetOf, FixedOf, UnfixedOf, PriceAt
<1>2. s.next_price # Err /\ s.fee_amount # Err
  BY DEF IsOk
<1>3. fixed = FixedOf(i, n)
  OBVIOUS
<1> HIDE DEF s, n, full, fixed, unfixed, in, out, fee
<1>4. ~failed
  BY <1>1, <1>2
<1>5. s = [amount_in |-> in,
           amount_out |-> CapOutput(out, i.amount, i.is_input),
           next_price |-> n, fee_amount |-> fee]
  BY <1>1, <1>4
<1>6. /\ s.amount_in = in /\ s.next_price = n /\ s.fee_amount = fee
      /\ s.amount_out = CapOutput(out, i.amount, i.is_input)
  BY <1>5
<1>7. full # Err /\ n # Err /\ fixed # Err /\ unfixed # Err
  BY <1>4
<1> QED
  BY <1>2, <1>3, <1>6, <1>7, Zenon DEF s, n, full, unfixed, in, out, fee, Reaches

\* The amount without its fee.
LEMMA LessFeeIs ==
  ASSUME NEW i, Legal(i)
  PROVE  /\ LessFee(i.amount, i.fee_rate) \in Nat
         /\ \A x \in Int : x <= LessFee(i.amount, i.fee_rate) <=>
               FEE_RATE_MUL_VALUE * x <= i.amount * (FEE_RATE_MUL_VALUE - i.fee_rate)
<1> DEFINE a == i.amount
           r == i.fee_rate
           m == FEE_RATE_MUL_VALUE
           k == a * (m - r)
<1>1. a \in Nat /\ r \in Nat /\ r <= m - 1 /\ m \in Nat
  BY LegalTypes, SwapMathAssumption
<1> HIDE DEF a, r, m
<1>2. m \in Nat \ {0} /\ m - r \in Nat
  BY <1>1
<1>3. k \in Nat
  BY <1>1, <1>2
<1> HIDE DEF k
<1>4. DivRound(k, m, FALSE) = k \div m /\ k \div m \in Nat
  BY <1>2, <1>3, FloorIs
<1>5. ASSUME NEW x \in Int PROVE x <= k \div m <=> m * x <= k
  BY <1>2, <1>3, FloorIs
<1>6. LessFee(i.amount, i.fee_rate) = k \div m
  BY DEF LessFee, k, a, r, m
<1> QED
  BY <1>4, <1>5, <1>6, Zenon DEF k, a, r, m

LEMMA BudgetType ==
  ASSUME NEW i, Legal(i)
  PROVE  BudgetOf(i) \in Nat
BY LessFeeIs, LegalTypes, Zenon DEF BudgetOf

\* A step goes to a price on the way ...
LEMMA NextIsBetween ==
  ASSUME NEW i, Legal(i), Reaches(i)
  PROVE  /\ NextOf(i) \in Int /\ Between(i, NextOf(i))
         /\ NextOf(i) \in Nat \ {0} /\ NextOf(i) \in SqrtPrices
         /\ FixedOf(i, NextOf(i)) = AmountTo(i, NextOf(i))
         /\ AmountTo(i, NextOf(i)) \in Nat
         /\ FixedOf(i, i.target) = AmountTo(i, i.target)
         /\ AmountTo(i, i.target) \in Nat
<1> DEFINE n == NextOf(i)
           t == i.target
<1>1. n # Err /\ FixedOf(i, t) # Err
  BY DEF Reaches
<1>2. t \in Nat \ {0} /\ NoLater(i, i.price, t)
  BY LegalTypes
<1>3. FixedOf(i, t) = AmountTo(i, t) /\ AmountTo(i, t) \in Nat
  BY <1>1, <1>2, FixedIs, AmountToType
<1>4. BudgetOf(i) \in Nat
  BY BudgetType
<1>5. n \in Int /\ Between(i, n)
  <2>1. CASE BudgetOf(i) >= FixedOf(i, t)
    <3>1. n = t
      BY <2>1 DEF NextOf
    <3>2. t \in Int /\ NoLater(i, t, t)
      BY <1>2 DEF NoLater
    <3> QED
      BY <1>2, <3>1, <3>2, Zenon DEF Between
  <2>2. CASE ~(BudgetOf(i) >= FixedOf(i, t))
    <3>1. n = PriceAt(i, BudgetOf(i))
      BY <2>2 DEF NextOf
    <3>2. BudgetOf(i) < AmountTo(i, t)
      BY <1>3, <1>4, <2>2
    <3>3. PriceAt(i, BudgetOf(i)) # Err
      BY <1>1, <3>1, Zenon
    <3> QED
      BY <1>4, <3>1, <3>2, <3>3, Stops, Zenon
  <2> QED
    BY <2>1, <2>2
<1> HIDE DEF n, t
<1>6. n \in Nat \ {0} /\ n \in SqrtPrices
  BY <1>5, BetweenTypes
<1>7. FixedOf(i, n) = AmountTo(i, n) /\ AmountTo(i, n) \in Nat
  BY <1>1, <1>5, <1>6, FixedNearer, AmountToType DEF t
<1> QED
  BY <1>3, <1>5, <1>6, <1>7, Zenon DEF n, t

\* ... as far as an input pays for, and no further ...
LEMMA FurthestStep ==
  ASSUME NEW i, Legal(i), Reaches(i), i.is_input
  PROVE  /\ AmountTo(i, NextOf(i)) <= BudgetOf(i)
         /\ \A q \in Int : Between(i, q) /\ ~NoLater(i, q, NextOf(i))
               => AmountTo(i, q) > BudgetOf(i)
<1> DEFINE n == NextOf(i)
           t == i.target
           b == BudgetOf(i)
<1>1. /\ n \in Nat \ {0} /\ Between(i, n) /\ t \in Nat \ {0}
      /\ AmountTo(i, n) \in Nat /\ AmountTo(i, t) \in Nat /\ b \in Nat
      /\ FixedOf(i, t) = AmountTo(i, t) /\ n # Err
      /\ i.a_to_b \in BOOLEAN
  BY NextIsBetween, LegalTypes, BudgetType, Zenon DEF Reaches
<1>2. n = IF b >= FixedOf(i, t) THEN t ELSE PriceAt(i, b)
  BY DEF NextOf
<1> HIDE DEF n, t, b
<1>3. CASE b >= AmountTo(i, t)
  <2>1. n = t
    BY <1>1, <1>2, <1>3, Zenon
  <2>2. AmountTo(i, n) <= b
    <3>1. AmountTo(i, t) <= b
      BY <1>1, <1>3
    <3> QED
      BY <2>1, <3>1, Zenon
  <2>3. ASSUME NEW q \in Int, Between(i, q), ~NoLater(i, q, n)
        PROVE  FALSE
    BY <2>1, <2>3, Zenon DEF Between, t
  <2> QED
    BY <2>2, <2>3, Zenon DEF n, b
<1>4. CASE ~(b >= AmountTo(i, t))
  <2>1. n = PriceAt(i, b)
    BY <1>1, <1>2, <1>4, Zenon
  <2>2. b < AmountTo(i, t) /\ PriceAt(i, b) # Err
    <3>1. b < AmountTo(i, t)
      BY <1>1, <1>4
    <3> QED
      BY <1>1, <2>1, <3>1, Zenon
  <2>3. \A q \in Nat \ {0} : NoLater(i, i.price, q) =>
           (AmountTo(i, q) <= b <=> NoLater(i, q, n))
    BY <1>1, <2>1, <2>2, Stops, Zenon DEF t
  <2>4. NoLater(i, i.price, n) /\ NoLater(i, n, n)
    BY <1>1 DEF Between, NoLater
  <2>5. AmountTo(i, n) <= b
    BY <1>1, <2>3, <2>4, Zenon
  <2>6. ASSUME NEW q \in Int, Between(i, q), ~NoLater(i, q, n)
        PROVE  AmountTo(i, q) > b
    <3>1. q \in Nat \ {0}
      BY <2>6, BetweenTypes
    <3>2. ~(AmountTo(i, q) <= b)
      BY <2>3, <2>6, <3>1, Zenon DEF Between
    <3>3. AmountTo(i, q) \in Nat
      BY <3>1, AmountToType
    <3> QED
      BY <1>1, <3>2, <3>3
  <2> QED
    BY <2>5, <2>6, Zenon DEF n, b
<1> QED
  BY <1>3, <1>4

\* ... or to the first price that yields an output.
LEMMA NearestStep ==
  ASSUME NEW i, Legal(i), Reaches(i), ~i.is_input
  PROVE  /\ \A q \in Int :
               NoLater(i, i.price, q) /\ NoLater(i, q, NextOf(i)) /\ q # NextOf(i)
                  => AmountTo(i, q) <= i.amount
         /\ NextOf(i) # i.target =>
               /\ AmountTo(i, NextOf(i)) >= i.amount
               /\ \A q \in Int :
                     NoLater(i, i.price, q) /\ NoLater(i, q, NextOf(i)) /\ q # NextOf(i)
                        => AmountTo(i, q) < i.amount
<1> DEFINE n == NextOf(i)
           t == i.target
           b == i.amount
<1>0. BudgetOf(i) = b
  BY DEF BudgetOf
<1>1. /\ n \in Nat \ {0} /\ Between(i, n) /\ t \in Nat \ {0} /\ n \in Int
      /\ AmountTo(i, n) \in Nat /\ AmountTo(i, t) \in Nat /\ b \in Nat
      /\ FixedOf(i, t) = AmountTo(i, t) /\ n # Err
      /\ i.a_to_b \in BOOLEAN
  BY NextIsBetween, LegalTypes, Zenon DEF Reaches
<1>2. n = IF b >= FixedOf(i, t) THEN t ELSE PriceAt(i, b)
  BY <1>0, Zenon DEF NextOf
<1> HIDE DEF n, t, b
<1>3. ASSUME NEW q \in Int, NoLater(i, i.price, q), NoLater(i, q, n), q # n
      PROVE  /\ q \in Nat \ {0} /\ Between(i, q) /\ ~NoLater(i, n, q)
             /\ AmountTo(i, q) \in Nat
  <2>1. NoLater(i, n, t) /\ i.price \in Int /\ t \in Int
    BY <1>1, LegalTypes DEF Between, t
  <2>2. NoLater(i, q, t)
    BY <1>1, <1>3, <2>1 DEF NoLater
  <2>3. Between(i, q)
    BY <1>3, <2>2, Zenon DEF Between, t
  <2>4. q \in Nat \ {0}
    BY <2>3, BetweenTypes
  <2>5. ~NoLater(i, n, q)
    BY <1>1, <1>3 DEF NoLater
  <2> QED
    BY <2>3, <2>4, <2>5, AmountToType
<1>4. CASE b >= AmountTo(i, t)
  <2>1. n = t
    BY <1>1, <1>2, <1>4, Zenon
  <2>2. ASSUME NEW q \in Int, NoLater(i, i.price, q), NoLater(i, q, n), q # n
        PROVE  AmountTo(i, q) <= b
    <3>1. AmountTo(i, q) <= AmountTo(i, n)
      BY <1>1, <1>3, <2>2, MoreFurther
    <3>2. AmountTo(i, n) <= b
      <4>1. AmountTo(i, t) <= b
        BY <1>1, <1>4
      <4> QED
        BY <2>1, <4>1, Zenon
    <3>3. AmountTo(i, q) \in Nat
      BY <1>3, <2>2
    <3> QED
      BY <1>1, <3>1, <3>2, <3>3
  <2> QED
    BY <2>1, <2>2, Zenon DEF n, b, t
<1>5. CASE ~(b >= AmountTo(i, t))
  <2>1. n = PriceAt(i, b)
    BY <1>1, <1>2, <1>5, Zenon
  <2>2. b < AmountTo(i, t) /\ PriceAt(i, b) # Err
    <3>1. b < AmountTo(i, t)
      BY <1>1, <1>5
    <3> QED
      BY <1>1, <2>1, <3>1, Zenon
  <2>3. \A q \in Nat \ {0} : NoLater(i, i.price, q) =>
           (b <= AmountTo(i, q) <=> NoLater(i, n, q))
    BY <1>1, <2>1, <2>2, Stops, Zenon DEF t
  <2>4. NoLater(i, i.price, n) /\ NoLater(i, n, n)
    BY <1>1 DEF Between, NoLater
  <2>5. AmountTo(i, n) >= b
    <3>1. b <= AmountTo(i, n)
      BY <1>1, <2>3, <2>4, Zenon
    <3> QED
      BY <1>1, <3>1
  <2>6. ASSUME NEW q \in Int, NoLater(i, i.price, q), NoLater(i, q, n), q # n
        PROVE  AmountTo(i, q) < b /\ AmountTo(i, q) <= b
    <3>1. q \in Nat \ {0} /\ ~NoLater(i, n, q) /\ AmountTo(i, q) \in Nat
      BY <1>3, <2>6
    <3>2. ~(b <= AmountTo(i, q))
      BY <2>3, <2>6, <3>1, Zenon
    <3> QED
      BY <1>1, <3>1, <3>2
  <2> QED
    BY <2>5, <2>6, Zenon DEF n, b
<1> QED
  BY <1>4, <1>5

-----------------------------------------------------------------------------
\* The amounts of a step that succeeds.

\* Of an amount that an input pays for without its fee, the fee can be paid too.
LEMMA FeeFits ==
  ASSUME NEW i, Legal(i), NEW x \in Nat, x <= LessFee(i.amount, i.fee_rate)
  PROVE  /\ FeeOf(x, i.fee_rate) \in Nat
         /\ x + FeeOf(x, i.fee_rate) <= i.amount
         /\ x <= i.amount
         /\ (i.amount - x) * FEE_RATE_MUL_VALUE >= i.amount * i.fee_rate
<1> DEFINE a == i.amount
           r == i.fee_rate
           m == FEE_RATE_MUL_VALUE
           d == m - r
           f == DivRound(x * r, d, TRUE)
<1>1. a \in Nat /\ r \in Nat /\ m \in Nat /\ d \in Nat \ {0} /\ m = d + r
  <2>1. a \in Nat /\ r \in Nat /\ r <= m - 1 /\ m \in Nat
    BY LegalTypes, SwapMathAssumption
  <2> HIDE DEF a, r, m
  <2> QED
    BY <2>1
<1>2. m * x <= a * d
  BY LessFeeIs
<1>3. FeeOf(x, i.fee_rate) = f
  BY DEF FeeOf
<1> HIDE DEF a, r, m, d
<1>4. x * r \in Nat
  BY <1>1
<1>5. x * r <= d * (a - x)
  <2>1. m * x = d * x + x * r
    BY <1>1
  <2>2. d * (a - x) = a * d - d * x
    BY <1>1
  <2>3. d * x \in Int /\ a * d \in Int /\ x * r \in Int
    BY <1>1
  <2> QED
    BY <1>2, <2>1, <2>2, <2>3
<1>6. a - x \in Int
  BY <1>1
<1>7. f \in Nat
  BY <1>1, <1>4, CeilingType
<1>8. f <= a - x
  BY <1>1, <1>4, <1>5, <1>6, CeilingAtMost
<1> HIDE DEF f
<1>9. x + f <= a /\ x <= a
  BY <1>1, <1>7, <1>8
<1>10. (a - x) * m >= a * r
  <2>1. (a - x) * m = a * d + a * r - m * x
    BY <1>1
  <2>2. a * d \in Int /\ a * r \in Int /\ m * x \in Int
    BY <1>1
  <2> QED
    BY <1>2, <2>1, <2>2
<1> QED
  BY <1>3, <1>7, <1>9, <1>10 DEF a, r, m

\* The fee of any other amount is its share of the amount with the fee.
LEMMA FeeIsShare ==
  ASSUME NEW i, Legal(i), NEW x \in Nat
  PROVE  /\ FeeOf(x, i.fee_rate) \in Nat
         /\ FeeOf(x, i.fee_rate) * FEE_RATE_MUL_VALUE
               >= (x + FeeOf(x, i.fee_rate)) * i.fee_rate
<1> DEFINE r == i.fee_rate
           m == FEE_RATE_MUL_VALUE
           d == m - r
           f == DivRound(x * r, d, TRUE)
<1>1. r \in Nat /\ m \in Nat /\ d \in Nat \ {0} /\ m = d + r
  <2>1. r \in Nat /\ r <= m - 1 /\ m \in Nat
    BY LegalTypes, SwapMathAssumption
  <2> HIDE DEF r, m
  <2> QED
    BY <2>1
<1>2. FeeOf(x, i.fee_rate) = f
  BY DEF FeeOf
<1> HIDE DEF r, m, d
<1>3. x * r \in Nat
  BY <1>1
<1>4. f \in Nat
  BY <1>1, <1>3, CeilingType
<1>5. x * r <= d * f
  <2>1. f \in Int /\ f <= f
    <3> HIDE DEF f
    <3> QED
      BY <1>4
  <2> QED
    BY <1>1, <1>3, <2>1, CeilingAtMost
<1> HIDE DEF f
<1>6. f * m >= (x + f) * r
  <2>1. f * m = d * f + f * r /\ (x + f) * r = x * r + f * r
    BY <1>1, <1>4
  <2>2. d * f \in Int /\ f * r \in Int
    BY <1>1, <1>4
  <2> QED
    BY <1>3, <1>5, <2>1, <2>2
<1> QED
  BY <1>2, <1>4, <1>6 DEF r, m

LEMMA CheckedIs ==
  ASSUME NEW x, NEW y, Checked(x, y) # Err
  PROVE  Checked(x, y) = x
BY DEF Checked

\* What an amount and the other one are worth.
LEMMA UnfixedIs ==
  ASSUME NEW i, Legal(i), NEW q \in Nat \ {0}, UnfixedOf(i, q) # Err
  PROVE  /\ UnfixedOf(i, q) \in Nat
         /\ i.is_input /\ i.a_to_b
              => UnfixedOf(i, q) = AmountB(i.price, q, i.liquidity, FALSE)
         /\ i.is_input /\ ~i.a_to_b
              => UnfixedOf(i, q) = AmountA(i.price, q, i.liquidity, FALSE)
         /\ ~i.is_input /\ i.a_to_b
              => UnfixedOf(i, q) = AmountA(i.price, q, i.liquidity, TRUE)
         /\ ~i.is_input /\ ~i.a_to_b
              => UnfixedOf(i, q) = AmountB(i.price, q, i.liquidity, TRUE)
<1> DEFINE p == i.price
           l == i.liquidity
           up == ~i.is_input
<1>1. /\ p \in Nat \ {0} /\ l \in Nat /\ up \in BOOLEAN
      /\ i.is_input \in {TRUE, FALSE} /\ i.a_to_b \in {TRUE, FALSE}
  BY LegalTypes
<1>2. UnfixedOf(i, q) = IF i.a_to_b = i.is_input THEN get_amount_delta_b(p, q, l, up)
                                                 ELSE get_amount_delta_a(p, q, l, up)
  BY DEF UnfixedOf, get_amount_unfixed_delta
<1> HIDE DEF p, l, up
<1>3. UnfixedOf(i, q) = IF i.a_to_b = i.is_input THEN AmountB(p, q, l, up)
                                                 ELSE AmountA(p, q, l, up)
  <2>1. CASE i.a_to_b = i.is_input
    BY <1>1, <1>2, <2>1, DeltaB
  <2>2. CASE ~(i.a_to_b = i.is_input)
    BY <1>1, <1>2, <2>2, DeltaA
  <2> QED
    BY <2>1, <2>2
<1>4. /\ i.is_input => up = FALSE
      /\ ~i.is_input => up = TRUE
  BY <1>1 DEF up
<1>5. /\ i.is_input /\ i.a_to_b => UnfixedOf(i, q) = AmountB(p, q, l, FALSE)
      /\ i.is_input /\ ~i.a_to_b => UnfixedOf(i, q) = AmountA(p, q, l, FALSE)
      /\ ~i.is_input /\ i.a_to_b => UnfixedOf(i, q) = AmountA(p, q, l, TRUE)
      /\ ~i.is_input /\ ~i.a_to_b => UnfixedOf(i, q) = AmountB(p, q, l, TRUE)
  BY <1>1, <1>3, <1>4
<1>6. UnfixedOf(i, q) \in Nat
  <2>1. /\ AmountA(p, q, l, TRUE) \in Nat /\ AmountA(p, q, l, FALSE) \in Nat
        /\ AmountB(p, q, l, TRUE) \in Nat /\ AmountB(p, q, l, FALSE) \in Nat
    BY <1>1, AmountType, Zenon
  <2>2. up = TRUE \/ up = FALSE
    BY <1>1
  <2>3. CASE up = TRUE
    BY <1>3, <2>1, <2>3, Zenon
  <2>4. CASE up = FALSE
    BY <1>3, <2>1, <2>4, Zenon
  <2> QED
    BY <2>2, <2>3, <2>4
<1> QED
  BY <1>5, <1>6 DEF p, l

\* It fits in 64 bits.
LEMMA UnfixedFits ==
  ASSUME NEW i, Legal(i), NEW q \in Nat \ {0}, UnfixedOf(i, q) # Err
  PROVE  UnfixedOf(i, q) <= MAX_U64
<1> DEFINE p == i.price
           l == i.liquidity
           up == ~i.is_input
<1>1. p \in Nat \ {0} /\ l \in Nat /\ up \in BOOLEAN
  BY LegalTypes
<1>2. UnfixedOf(i, q) = IF i.a_to_b = i.is_input THEN get_amount_delta_b(p, q, l, up)
                                                 ELSE get_amount_delta_a(p, q, l, up)
  BY DEF UnfixedOf, get_amount_unfixed_delta
<1> HIDE DEF p, l, up
<1>3. CASE i.a_to_b = i.is_input
  <2>1. UnfixedOf(i, q) = get_amount_delta_b(p, q, l, up)
    BY <1>2, <1>3, Zenon
  <2>2. get_amount_delta_b(p, q, l, up) # Err
    BY <2>1, Zenon
  <2> QED
    BY <1>1, <2>1, <2>2, DeltaB
<1>4. CASE ~(i.a_to_b = i.is_input)
  <2>1. UnfixedOf(i, q) = get_amount_delta_a(p, q, l, up)
    BY <1>2, <1>4, Zenon
  <2>2. get_amount_delta_a(p, q, l, up) # Err
    BY <2>1, Zenon
  <2> QED
    BY <1>1, <2>1, <2>2, DeltaA
<1> QED
  BY <1>3, <1>4

\* The amount rounded up is worth the move, the amount rounded down is not more.
LEMMA Worth ==
  ASSUME NEW p \in Nat \ {0}, NEW q \in Nat \ {0}, NEW l \in Nat
  PROVE  /\ AmountA(p, q, l, TRUE) * p * q >= l * Distance(p, q) * Q64
         /\ AmountB(p, q, l, TRUE) * Q64 >= l * Distance(p, q)
         /\ AmountA(p, q, l, FALSE) * p * q <= l * Distance(p, q) * Q64
         /\ AmountB(p, q, l, FALSE) * Q64 <= l * Distance(p, q)
<1> DEFINE n == l * Distance(p, q)
           m == l * Distance(p, q) * Q64
           d == p * q
           au == AmountA(p, q, l, TRUE)
           ad == AmountA(p, q, l, FALSE)
           bu == AmountB(p, q, l, TRUE)
           bd == AmountB(p, q, l, FALSE)
<1>1. n \in Nat /\ m \in Nat /\ d \in Nat \ {0} /\ Q64 \in Nat \ {0}
  BY AmountTypes
<1>2. au \in Nat /\ ad \in Nat /\ bu \in Nat /\ bd \in Nat
  BY AmountType
<1>3. /\ au = DivRound(m, d, TRUE) /\ ad = DivRound(m, d, FALSE)
      /\ bu = DivRound(n, Q64, TRUE) /\ bd = DivRound(n, Q64, FALSE)
  BY DEF AmountA, AmountB
<1> HIDE DEF n, m, d, au, ad, bu, bd
<1>4. m <= d * au
  <2>1. au \in Int /\ au <= au
    BY <1>2
  <2> QED
    BY <1>1, <1>3, <2>1, CeilingAtMost
<1>5. n <= Q64 * bu
  <2>1. bu \in Int /\ bu <= bu
    BY <1>2
  <2> QED
    BY <1>1, <1>3, <2>1, CeilingAtMost
<1>6. d * ad <= m
  <2>1. ad \in Int /\ ad <= ad
    BY <1>2
  <2> QED
    BY <1>1, <1>3, <2>1, FloorAtLeast
<1>7. Q64 * bd <= n
  <2>1. bd \in Int /\ bd <= bd
    BY <1>2
  <2> QED
    BY <1>1, <1>3, <2>1, FloorAtLeast
<1>8. /\ au * p * q = d * au /\ ad * p * q = d * ad
      /\ bu * Q64 = Q64 * bu /\ bd * Q64 = Q64 * bd
  BY <1>1, <1>2 DEF d
<1>9. d * au \in Int /\ Q64 * bu \in Int /\ d * ad \in Int /\ Q64 * bd \in Int
  BY <1>1, <1>2
<1>10. au * p * q >= m /\ bu * Q64 >= n /\ ad * p * q <= m /\ bd * Q64 <= n
  BY <1>1, <1>4, <1>5, <1>6, <1>7, <1>8, <1>9
<1> QED
  BY <1>10 DEF n, m, au, ad, bu, bd

LEMMA StepAmounts ==
  ASSUME NEW i, Legal(i), IsOk(StepOf(i))
  PROVE  LET s == StepOf(i)
         IN  /\ s.amount_in \in Nat /\ s.amount_out \in Nat /\ s.fee_amount \in Nat
             /\ s.fee_amount * FEE_RATE_MUL_VALUE
                   >= (s.amount_in + s.fee_amount) * i.fee_rate
             /\ i.is_input =>
                   /\ s.amount_in + s.fee_amount <= i.amount
                   /\ s.next_price # i.target
                         => s.amount_in + s.fee_amount = i.amount
             /\ ~i.is_input =>
                   /\ s.amount_out <= i.amount
                   /\ s.next_price # i.target => s.amount_out = i.amount
<1> DEFINE s == StepOf(i)
           n == NextOf(i)
           x == FixedOf(i, n)
           y == UnfixedOf(i, n)
           r == i.fee_rate
           m == FEE_RATE_MUL_VALUE
           a == i.amount
           in == s.amount_in
           out == s.amount_out
           fee == s.fee_amount
<1>1. /\ s.next_price = n
      /\ in = IF i.is_input THEN x ELSE y
      /\ out = CapOutput(IF i.is_input THEN y ELSE x, a, i.is_input)
      /\ fee = IF i.is_input /\ n # i.target THEN a - in
               ELSE Checked(FeeOf(in, r), MAX_U64)
      /\ fee # Err /\ y # Err
  BY OkStep, Zenon
<1>2. /\ n \in Nat \ {0} /\ x = AmountTo(i, n) /\ x \in Nat
      /\ a \in Nat /\ r \in Nat /\ m \in Nat
  BY OkStep, NextIsBetween, LegalTypes, SwapMathAssumption, Zenon
<1>3. y \in Nat
  BY <1>1, <1>2, UnfixedIs
<1> HIDE DEF s, n, x, y, r, m, a, in, out, fee
<1>4. CASE i.is_input
  <2>1. in = x /\ in \in Nat
    BY <1>1, <1>2, <1>4
  <2>2. out = y
    BY <1>1, <1>4 DEF CapOutput
  <2>3. x <= LessFee(a, r)
    BY <1>2, <1>4, OkStep, FurthestStep, Zenon DEF BudgetOf, n, a, r
  <2>4. /\ FeeOf(in, r) \in Nat /\ in + FeeOf(in, r) <= a /\ in <= a
        /\ (a - in) * m >= a * r
    BY <2>1, <2>3, FeeFits, Zenon DEF a, r, m
  <2>5. CASE n = i.target
    <3>1. fee = Checked(FeeOf(in, r), MAX_U64)
      BY <1>1, <2>5
    <3>2. fee = FeeOf(in, r)
      BY <1>1, <3>1, CheckedIs, Zenon
    <3>3. fee \in Nat /\ in + fee <= a
      BY <2>4, <3>2, Zenon
    <3>4. fee * m >= (in + fee) * r
      BY <2>1, <3>2, FeeIsShare, Zenon DEF r, m
    <3> QED
      BY <1>1, <1>3, <1>4, <2>1, <2>2, <2>5, <3>3, <3>4, Zenon DEF s, in, out, fee, r, m, a
  <2>6. CASE n # i.target
    <3>1. fee = a - in
      BY <1>1, <1>4, <2>6
    <3>2. in + fee = a /\ fee \in Nat /\ in + fee <= a
      <4>1. in + (a - in) = a /\ a - in \in Nat /\ a <= a
        BY <1>2, <2>1, <2>4
      <4> QED
        BY <3>1, <4>1, Zenon
    <3>3. fee * m >= (in + fee) * r
      BY <2>4, <3>1, <3>2, Zenon
    <3> QED
      BY <1>1, <1>3, <1>4, <2>1, <2>2, <3>2, <3>3, Zenon DEF s, in, out, fee, r, m, a
  <2> QED
    BY <2>5, <2>6
<1>5. CASE ~i.is_input
  <2>1. in = y /\ in \in Nat
    BY <1>1, <1>3, <1>5
  <2>2. out = CapOutput(x, a, FALSE)
    BY <1>1, <1>5, LegalTypes
  <2>3. out = IF x > a THEN a ELSE x
    BY <2>2 DEF CapOutput
  <2>4. out \in Nat
    BY <1>2, <2>3
  <2>5. out <= a
    <3>1. CASE x > a
      <4>1. a <= a
        BY <1>2
      <4> QED
        BY <2>3, <3>1, <4>1, Zenon
    <3>2. CASE ~(x > a)
      <4>1. x <= a
        BY <1>2, <3>2
      <4> QED
        BY <2>3, <3>2, <4>1, Zenon
    <3> QED
      BY <3>1, <3>2
  <2>6. ASSUME n # i.target PROVE out = a
    <3>1. x >= a
      BY <1>2, <1>5, <2>6, OkStep, NearestStep, Zenon DEF n, a
    <3>2. CASE x > a
      BY <2>3, <3>2, Zenon
    <3>3. CASE ~(x > a)
      <4>1. x = a
        BY <1>2, <3>1, <3>3
      <4> QED
        BY <2>3, <3>3, <4>1, Zenon
    <3> QED
      BY <3>2, <3>3
  <2>7. fee = Checked(FeeOf(in, r), MAX_U64)
    BY <1>1, <1>5
  <2>8. fee = FeeOf(in, r)
    BY <1>1, <2>7, CheckedIs, Zenon
  <2>9. fee \in Nat /\ fee * m >= (in + fee) * r
    BY <2>1, <2>8, FeeIsShare, Zenon DEF r, m
  <2> QED
    BY <1>1, <1>5, <2>1, <2>4, <2>5, <2>6, <2>9, Zenon DEF s, in, out, fee, r, m, a
<1> QED
  BY <1>4, <1>5

LEMMA StepIsWorth ==
  ASSUME NEW i, Legal(i), IsOk(StepOf(i))
  PROVE  LET s == StepOf(i)
             p == i.price
             q == NextOf(i)
             l == i.liquidity
         IN  IF i.a_to_b
             THEN /\ s.amount_in * p * q >= l * Distance(p, q) * Q64
                  /\ s.amount_out * Q64 <= l * Distance(p, q)
             ELSE /\ s.amount_in * Q64 >= l * Distance(p, q)
                  /\ s.amount_out * p * q <= l * Distance(p, q) * Q64
<1> DEFINE s == StepOf(i)
           p == i.price
           q == NextOf(i)
           l == i.liquidity
           x == FixedOf(i, q)
           y == UnfixedOf(i, q)
           a == i.amount
           in == s.amount_in
           out == s.amount_out
           wa == l * Distance(p, q) * Q64
           wb == l * Distance(p, q)
<1>1. /\ in = IF i.is_input THEN x ELSE y
      /\ out = CapOutput(IF i.is_input THEN y ELSE x, a, i.is_input)
      /\ y # Err
  BY OkStep, Zenon
<1>2. /\ q \in Nat \ {0} /\ x = AmountTo(i, q) /\ x \in Nat
      /\ a \in Nat /\ p \in Nat \ {0} /\ l \in Nat
      /\ i.is_input \in BOOLEAN /\ i.a_to_b \in BOOLEAN
  BY OkStep, NextIsBetween, LegalTypes, Zenon
<1>3. in \in Nat /\ out \in Nat
  BY StepAmounts, Zenon
<1>4. /\ AmountA(p, q, l, TRUE) * p * q >= wa /\ AmountB(p, q, l, TRUE) * Q64 >= wb
      /\ AmountA(p, q, l, FALSE) * p * q <= wa /\ AmountB(p, q, l, FALSE) * Q64 <= wb
  BY <1>2, Worth
<1>5. /\ wa \in Nat /\ wb \in Nat /\ p * q \in Nat \ {0} /\ Q64 \in Nat \ {0}
  BY <1>2, AmountTypes
<1>6. AmountA(p, q, l, FALSE) \in Nat /\ AmountB(p, q, l, FALSE) \in Nat
  BY <1>2, AmountType
<1> DEFINE big == IF i.a_to_b THEN AmountA(p, q, l, TRUE) ELSE AmountB(p, q, l, TRUE)
           small == IF i.a_to_b THEN AmountB(p, q, l, FALSE) ELSE AmountA(p, q, l, FALSE)
<1>7. in = big
  <2>1. CASE i.is_input
    BY <1>1, <1>2, <2>1, AmountToIs
  <2>2. CASE ~i.is_input
    BY <1>1, <1>2, <2>2, UnfixedIs
  <2> QED
    BY <2>1, <2>2
<1>8. small \in Nat /\ out <= small
  <2>1. small \in Nat
    BY <1>6
  <2>2. CASE i.is_input
    <3>1. y = small
      BY <1>1, <1>2, <2>2, UnfixedIs
    <3>2. out = y
      BY <1>1, <2>2 DEF CapOutput
    <3> HIDE DEF small
    <3>3. small <= small
      BY <2>1
    <3> QED
      BY <2>1, <3>1, <3>2, <3>3, Zenon
  <2>3. CASE ~i.is_input
    <3>1. x = small
      BY <1>1, <1>2, <2>3, AmountToIs
    <3>2. out = CapOutput(x, a, FALSE)
      BY <1>1, <1>2, <2>3
    <3>3. out = IF x > a THEN a ELSE x
      BY <3>2 DEF CapOutput
    <3> HIDE DEF small, x, a, out
    <3>4. out <= x
      <4>1. CASE x > a
        <5>1. a <= x
          BY <1>2, <4>1
        <5> QED
          BY <3>3, <4>1, <5>1, Zenon
      <4>2. CASE ~(x > a)
        <5>1. x <= x
          BY <1>2
        <5> QED
          BY <3>3, <4>2, <5>1, Zenon
      <4> QED
        BY <4>1, <4>2
    <3> QED
      BY <2>1, <3>1, <3>4, Zenon
  <2> QED
    BY <2>2, <2>3, <2>1
<1> DEFINE aa == AmountA(p, q, l, FALSE)
           bb == AmountB(p, q, l, FALSE)
<1>9. CASE i.a_to_b
  <2>1. in = AmountA(p, q, l, TRUE) /\ out <= bb
    BY <1>7, <1>8, <1>9
  <2>2. in * p * q >= wa
    BY <1>4, <2>1, Zenon
  <2>3. out * Q64 <= wb
    <3> HIDE DEF out, bb, wb
    <3>1. bb \in Nat /\ bb * Q64 <= wb
      BY <1>4, <1>6, Zenon DEF bb
    <3>2. Q64 * out <= Q64 * bb
      BY <1>3, <1>5, <2>1, <3>1, Cancel
    <3>3. Q64 * out = out * Q64 /\ Q64 * bb = bb * Q64 /\ out * Q64 \in Int /\ bb * Q64 \in Int
      BY <1>3, <1>5, <3>1
    <3> QED
      BY <1>5, <3>1, <3>2, <3>3
  <2> QED
    BY <1>9, <2>2, <2>3, Zenon
<1>10. CASE ~i.a_to_b
  <2>1. in = AmountB(p, q, l, TRUE) /\ out <= aa
    BY <1>7, <1>8, <1>10
  <2>2. in * Q64 >= wb
    BY <1>4, <2>1, Zenon
  <2>3. out * p * q <= wa
    <3> HIDE DEF out, aa, wa, p, q
    <3>1. aa \in Nat /\ aa * p * q <= wa
      BY <1>4, <1>6, Zenon DEF aa
    <3>2. (p * q) * out <= (p * q) * aa
      <4> DEFINE d == p * q
      <4>1. d \in Nat \ {0} /\ out \in Int /\ aa \in Int
        BY <1>3, <1>5, <3>1
      <4> HIDE DEF d
      <4>2. d * out <= d * aa
        BY <2>1, <4>1, Cancel
      <4> QED
        BY <4>2 DEF d
    <3>3. /\ (p * q) * out = out * p * q /\ (p * q) * aa = aa * p * q
          /\ out * p * q \in Int /\ aa * p * q \in Int
      BY <1>2, <1>3, <3>1
    <3> QED
      BY <1>5, <3>1, <3>2, <3>3
  <2> QED
    BY <1>10, <2>2, <2>3, Zenon
<1> QED
  BY <1>9, <1>10

-----------------------------------------------------------------------------
\* The steps of a swap, one after the other.

\* Nothing is traded for nothing: without liquidity, or at the target.
LEMMA NothingMoved ==
  ASSUME NEW p \in Nat \ {0}, NEW q \in Nat \ {0}, NEW l \in Nat, l = 0 \/ p = q
  PROVE  /\ AmountA(p, q, l, TRUE) = 0 /\ AmountA(p, q, l, FALSE) = 0
         /\ AmountB(p, q, l, TRUE) = 0 /\ AmountB(p, q, l, FALSE) = 0
<1>1. Distance(p, q) \in Nat /\ p * q \in Nat \ {0} /\ Q64 \in Nat \ {0}
  BY AmountTypes
<1>2. l * Distance(p, q) = 0
  <2>1. CASE l = 0
    BY <1>1, <2>1
  <2>2. CASE p = q
    BY <2>2 DEF Distance
  <2> QED
    BY <2>1, <2>2
<1>3. 0 * Q64 = 0
  BY <1>1
<1> QED
  BY <1>1, <1>2, <1>3, NothingDivided, TRUE \in BOOLEAN, FALSE \in BOOLEAN, Zenon
  DEF AmountA, AmountB

LEMMA NoMove ==
  ASSUME NEW i, Legal(i), i.liquidity = 0 \/ i.price = i.target
  PROVE  AmountTo(i, i.target) = 0
<1> DEFINE p == i.price
           t == i.target
           l == i.liquidity
<1>1. /\ p \in Nat \ {0} /\ t \in Nat \ {0} /\ l \in Nat /\ (l = 0 \/ p = t)
      /\ i.is_input \in {TRUE, FALSE}
  BY LegalTypes
<1>2. AmountTo(i, t) = IF i.a_to_b = i.is_input THEN AmountA(p, t, l, i.is_input)
                                                ELSE AmountB(p, t, l, i.is_input)
  BY DEF AmountTo
<1> HIDE DEF p, t, l
<1>3. /\ AmountA(p, t, l, TRUE) = 0 /\ AmountA(p, t, l, FALSE) = 0
      /\ AmountB(p, t, l, TRUE) = 0 /\ AmountB(p, t, l, FALSE) = 0
  BY <1>1, NothingMoved
<1>4. AmountA(p, t, l, i.is_input) = 0 /\ AmountB(p, t, l, i.is_input) = 0
  BY <1>1, <1>3
<1> QED
  BY <1>2, <1>4 DEF t

LEMMA IdleStep ==
  ASSUME NEW i, Legal(i), IsOk(StepOf(i)), i.liquidity = 0 \/ i.price = i.target
  PROVE  LET s == StepOf(i)
         IN  s.amount_in = 0 /\ s.amount_out = 0 /\ s.fee_amount = 0
<1> DEFINE s == StepOf(i)
           n == NextOf(i)
           t == i.target
           r == i.fee_rate
           m == FEE_RATE_MUL_VALUE
<1>1. /\ i.price \in Nat \ {0} /\ t \in Nat \ {0} /\ i.liquidity \in Nat
      /\ i.amount \in Nat /\ i.is_input \in {TRUE, FALSE} /\ i.a_to_b \in {TRUE, FALSE}
      /\ r \in Nat /\ r <= m - 1 /\ m \in Nat
  BY LegalTypes, SwapMathAssumption
<1>2. /\ FixedOf(i, t) # Err /\ FixedOf(i, n) # Err /\ UnfixedOf(i, n) # Err
      /\ s.amount_in = IF i.is_input THEN FixedOf(i, n) ELSE UnfixedOf(i, n)
      /\ s.amount_out = CapOutput(IF i.is_input THEN UnfixedOf(i, n)
                                                ELSE FixedOf(i, n),
                                  i.amount, i.is_input)
      /\ s.fee_amount = IF i.is_input /\ n # t
                        THEN i.amount - s.amount_in
                        ELSE Checked(FeeOf(s.amount_in, r), MAX_U64)
      /\ s.fee_amount # Err
  BY OkStep
<1>3. FixedOf(i, t) = 0
  <2>1. FixedOf(i, t) = AmountTo(i, t)
    BY <1>1, <1>2, FixedIs
  <2>2. AmountTo(i, t) = 0
    BY <1>1, NoMove
  <2> QED
    BY <2>1, <2>2
<1>4. n = t
  <2>1. BudgetOf(i) \in Nat
    BY BudgetType
  <2> QED
    BY <1>3, <2>1 DEF NextOf
<1>5. UnfixedOf(i, t) = 0
  <2>1. UnfixedOf(i, t) # Err
    BY <1>2, <1>4
  <2>2. /\ AmountA(i.price, t, i.liquidity, TRUE) = 0
        /\ AmountA(i.price, t, i.liquidity, FALSE) = 0
        /\ AmountB(i.price, t, i.liquidity, TRUE) = 0
        /\ AmountB(i.price, t, i.liquidity, FALSE) = 0
    BY <1>1, NothingMoved
  <2>3. t \in Nat \ {0} /\ i.is_input \in {TRUE, FALSE} /\ i.a_to_b \in {TRUE, FALSE}
    BY <1>1
  <2> HIDE DEF t
  <2>4. /\ i.is_input /\ i.a_to_b
             => UnfixedOf(i, t) = AmountB(i.price, t, i.liquidity, FALSE)
        /\ i.is_input /\ ~i.a_to_b
             => UnfixedOf(i, t) = AmountA(i.price, t, i.liquidity, FALSE)
        /\ ~i.is_input /\ i.a_to_b
             => UnfixedOf(i, t) = AmountA(i.price, t, i.liquidity, TRUE)
        /\ ~i.is_input /\ ~i.a_to_b
             => UnfixedOf(i, t) = AmountB(i.price, t, i.liquidity, TRUE)
    BY <2>1, <2>3, UnfixedIs
  <2> QED
    BY <2>2, <2>3, <2>4
<1> HIDE DEF s, n, t, r, m
<1>6. s.amount_in = 0
  BY <1>2, <1>3, <1>4, <1>5, Zenon
<1>7. s.amount_out = 0
  <2>1. s.amount_out = CapOutput(0, i.amount, i.is_input)
    BY <1>2, <1>3, <1>4, <1>5, Zenon
  <2> QED
    BY <1>1, <2>1 DEF CapOutput
<1>8. s.fee_amount = 0
  <2>1. s.fee_amount = Checked(FeeOf(0, r), MAX_U64)
    BY <1>2, <1>4, <1>6, Zenon
  <2>2. FeeOf(0, r) = 0
    <3>1. 0 * r = 0 /\ FEE_RATE_MUL_VALUE - r \in Nat \ {0}
      BY <1>1 DEF m
    <3> QED
      BY <3>1, NothingDivided, TRUE \in BOOLEAN, Zenon DEF FeeOf
  <2>3. s.fee_amount = FeeOf(0, r)
    BY <1>2, <2>1, CheckedIs, Zenon
  <2> QED
    BY <2>2, <2>3
<1> QED
  BY <1>6, <1>7, <1>8 DEF s

\* A step, as the loop of a swap sees it.
LEMMA StepDoes ==
  ASSUME NEW i, Legal(i), IsOk(StepOf(i))
  PROVE  LET s == StepOf(i)
             p == i.price
             q == s.next_price
             l == i.liquidity
         IN  /\ q \in SqrtPrices
             /\ q \in IF i.a_to_b THEN i.target .. p ELSE p .. i.target
             /\ s.amount_in \in Nat /\ s.amount_out \in Nat /\ s.fee_amount \in Nat
             /\ i.is_input =>
                   /\ s.amount_in + s.fee_amount <= i.amount
                   /\ q # i.target => s.amount_in + s.fee_amount = i.amount
             /\ ~i.is_input =>
                   /\ s.amount_out <= i.amount
                   /\ q # i.target => s.amount_out = i.amount
             /\ q # i.target => l > 0
             /\ l = 0 \/ p = i.target =>
                   s.amount_in = 0 /\ s.amount_out = 0 /\ s.fee_amount = 0
             /\ IF i.a_to_b
                THEN /\ s.amount_in * p * q >= l * Distance(p, q) * Q64
                     /\ s.amount_out * Q64 <= l * Distance(p, q)
                ELSE /\ s.amount_in * Q64 >= l * Distance(p, q)
                     /\ s.amount_out * p * q <= l * Distance(p, q) * Q64
<1> DEFINE s == StepOf(i)
           n == NextOf(i)
<1>1. s.next_price = n /\ Reaches(i)
  BY OkStep
<1>2. n \in Int /\ Between(i, n) /\ n \in SqrtPrices
  BY <1>1, NextIsBetween
<1>3. n \in IF i.a_to_b THEN i.target .. i.price ELSE i.price .. i.target
  <2>1. i.price \in Int /\ i.target \in Int
    BY LegalTypes
  <2> HIDE DEF n
  <2> QED
    BY <1>2, <2>1 DEF Between, NoLater
<1>4. n # i.target => i.liquidity > 0
  <2> SUFFICES ASSUME n # i.target, i.liquidity = 0 PROVE FALSE
    BY LegalTypes
  <2>1. FixedOf(i, i.target) # Err
    BY <1>1 DEF Reaches
  <2>2. /\ i.price \in Nat \ {0} /\ i.target \in Nat \ {0} /\ i.liquidity \in Nat
        /\ i.is_input \in {TRUE, FALSE} /\ i.a_to_b \in {TRUE, FALSE}
    BY LegalTypes
  <2>3. FixedOf(i, i.target) = AmountTo(i, i.target)
    BY <2>1, <2>2, FixedIs
  <2>4. AmountTo(i, i.target) = 0
    BY NoMove
  <2>5. BudgetOf(i) \in Nat
    BY BudgetType
  <2> QED
    BY <2>3, <2>4, <2>5 DEF NextOf
<1>5. i.liquidity = 0 \/ i.price = i.target =>
         s.amount_in = 0 /\ s.amount_out = 0 /\ s.fee_amount = 0
  BY IdleStep
<1> HIDE DEF s, n
<1> QED
  BY <1>1, <1>2, <1>3, <1>4, <1>5, StepAmounts, StepIsWorth, Zenon DEF s, n

\* The arguments are within bounds, and the step is what they give.
SInv == Legal(input) /\ step = StepOf(input)

LEMMA StepsInit == SwapInit => SInv
<1> SUFFICES ASSUME SwapInit PROVE SInv
  OBVIOUS
<1>1. PICK price \in SqrtPrices, a_to_b \in BOOLEAN :
         \E target \in Targets(price, a_to_b) :
            input \in [amount: Amounts, fee_rate: FeeRates,
                       liquidity: Liquidities, price: {price},
                       target: {target}, is_input: BOOLEAN, a_to_b: {a_to_b}]
  BY DEF SwapInit
<1>2. PICK target \in Targets(price, a_to_b) :
         input \in [amount: Amounts, fee_rate: FeeRates,
                    liquidity: Liquidities, price: {price},
                    target: {target}, is_input: BOOLEAN, a_to_b: {a_to_b}]
  BY <1>1
<1>3. target \in SqrtPrices
  BY <1>2 DEF Targets
<1>4. input \in Inputs
  BY <1>2, <1>3, InputsAssumption DEF Inputs
<1>5. input.target = target /\ input.price = price /\ input.a_to_b = a_to_b
  BY <1>2
<1>6. Legal(input)
  BY <1>2, <1>4, <1>5 DEF Legal
<1>7. step = StepOf(input)
  BY DEF SwapInit
<1> QED
  BY <1>6, <1>7 DEF SInv

LEMMA StepsNext == SInv /\ [Continue]_<<input, step>> => SInv'
<1> SUFFICES ASSUME SInv, [Continue]_<<input, step>> PROVE SInv'
  OBVIOUS
<1>1. CASE UNCHANGED <<input, step>>
  <2>1. input' = input /\ step' = step
    BY <1>1
  <2>2. Legal(input)' /\ (step = StepOf(input))'
    BY <2>1 DEF SInv, Legal, Inputs, SqrtPrices, Targets, StepOf
  <2> QED
    BY <2>2 DEF SInv
<1>2. CASE Continue
  <2> DEFINE i == input
             s == step
             n == NextOf(i)
  <2>1. Legal(i) /\ s = StepOf(i) /\ IsOk(StepOf(i)) /\ Left > 0
    BY <1>2 DEF SInv, Continue
  <2>2. /\ s.amount_in \in Nat /\ s.amount_out \in Nat /\ s.fee_amount \in Nat
        /\ i.amount \in Nat /\ i.amount <= MAX_U64
        /\ i.is_input \in BOOLEAN
    BY <2>1, StepAmounts, LegalTypes, Zenon
  <2>3. s.next_price = n /\ n \in SqrtPrices
    BY <2>1, OkStep, NextIsBetween, Zenon
  <2>4. Left \in 0 .. MAX_U64
    <3>1. Left = IF i.is_input THEN i.amount - s.amount_in - s.fee_amount
                               ELSE i.amount - s.amount_out
      BY DEF Left
    <3>2. Left > 0
      BY <2>1
    <3> HIDE DEF i, s
    <3>3. MAX_U64 \in Nat
      BY SwapMathAssumption
    <3>4. CASE i.is_input
      <4>1. Left = i.amount - s.amount_in - s.fee_amount
        BY <3>1, <3>4
      <4> QED
        BY <2>2, <3>2, <3>3, <4>1
    <3>5. CASE ~i.is_input
      <4>1. Left = i.amount - s.amount_out
        BY <3>1, <3>5
      <4> QED
        BY <2>2, <3>2, <3>3, <4>1
    <3> QED
      BY <2>2, <3>4, <3>5
  <2>5. PICK target \in Targets(s.next_price, i.a_to_b), liquidity \in Liquidities :
           input' = [i EXCEPT !.amount = Left, !.price = s.next_price,
                              !.target = target, !.liquidity = liquidity]
    BY <1>2 DEF Continue
  <2>6. step' = StepOf(input')
    BY <1>2 DEF Continue
  <2>7. target \in SqrtPrices /\ liquidity \in 0 .. MAX_U128
    BY <2>5, InputsAssumption DEF Targets
  <2>8. i \in Inputs
    BY <2>1 DEF Legal
  <2>9. input' \in Inputs
    BY <2>3, <2>4, <2>5, <2>7, <2>8 DEF Inputs
  <2>10. /\ input'.target = target /\ input'.price = s.next_price
         /\ input'.a_to_b = i.a_to_b
    BY <2>5, <2>8 DEF Inputs
  <2>11. input'.target \in Targets(input'.price, input'.a_to_b)
    BY <2>5, <2>10, Zenon
  <2>12. Legal(input')
    BY <2>9, <2>11 DEF Legal
  <2> QED
    BY <2>6, <2>12 DEF SInv, Legal, Inputs, SqrtPrices, Targets, StepOf
<1> QED
  BY <1>1, <1>2

\* Every step of a swap is taken from arguments within bounds.
THEOREM StepsInvariance == StepsSpec => []SInv
BY StepsInit, StepsNext, PTL DEF StepsSpec

\* The search for the furthest price agrees: FixedTo is FixedOf, and the prices
\* of Past are those that a move reaches later.
LEMMA PastIs ==
  ASSUME NEW p \in Int, NEW t \in Int, NEW q \in Past(p, t), Legal(input)
  PROVE  /\ q \in Int /\ ~NoLater(input, q, p) /\ NoLater(input, q, t)
         /\ NoLater(input, p, q)
BY LegalTypes DEF Past, NoLater

LEMMA NoLaterChain ==
  ASSUME NEW i, Legal(i), NEW p \in Int, NEW q \in Int, NEW t \in Int,
         NoLater(i, p, q), NoLater(i, q, t)
  PROVE  NoLater(i, p, t)
BY LegalTypes DEF NoLater

LEMMA FurthestHolds == SInv => FurthestForInput
<1> SUFFICES ASSUME Legal(input), step = StepOf(input), IsOk(StepOf(input)),
                    input.is_input
             PROVE  LET budget == LessFee(input.amount, input.fee_rate)
                    IN  /\ FixedTo(step.next_price) \in 0 .. budget
                        /\ \A q \in Past(step.next_price, input.target) :
                              FixedTo(q) > budget
  BY DEF SInv, FurthestForInput
<1> DEFINE i == input
           n == NextOf(i)
           t == i.target
           b == BudgetOf(i)
<1>1. b = LessFee(i.amount, i.fee_rate)
  BY DEF BudgetOf
<1>2. step.next_price = n /\ FixedOf(i, t) # Err
  BY OkStep, Zenon
<1>3. /\ n \in Int /\ Between(i, n) /\ FixedOf(i, n) = AmountTo(i, n)
      /\ AmountTo(i, n) \in Nat /\ b \in Nat /\ t \in Nat \ {0} /\ i.price \in Nat \ {0}
  BY OkStep, NextIsBetween, LegalTypes, BudgetType, Zenon
<1>4. \A q : FixedTo(q) = FixedOf(i, q)
  BY DEF FixedTo, FixedOf
<1>5. /\ AmountTo(i, n) <= b
      /\ \A q \in Int : Between(i, q) /\ ~NoLater(i, q, n) => AmountTo(i, q) > b
  BY OkStep, FurthestStep, Zenon
<1> HIDE DEF i, n, t, b
<1>6. FixedTo(n) \in 0 .. b
  <2>1. AmountTo(i, n) \in 0 .. b
    BY <1>3, <1>5
  <2> QED
    BY <1>3, <1>4, <2>1, Zenon
<1>7. ASSUME NEW q \in Past(n, t) PROVE FixedTo(q) > b
  <2>1. t \in Int /\ i.price \in Int
    BY <1>3
  <2>2. q \in Int /\ ~NoLater(i, q, n) /\ NoLater(i, q, t) /\ NoLater(i, n, q)
    BY <1>3, <2>1, PastIs DEF i
  <2>3. NoLater(i, i.price, q)
    BY <1>3, <2>1, <2>2, NoLaterChain DEF Between, i
  <2>4. Between(i, q)
    BY <2>2, <2>3, Zenon DEF Between, t
  <2>5. FixedOf(i, q) = AmountTo(i, q)
    BY <1>2, <2>2, <2>4, FixedNearer DEF i, t
  <2> QED
    BY <1>4, <1>5, <2>2, <2>4, <2>5, Zenon
<1> QED
  BY <1>1, <1>2, <1>6, <1>7, Zenon DEF i, n, t, b

(***************************************************************************)
(* A step given an input goes exactly as far as the input less its fee can *)
(* pay for (compute_swap, get_next_sqrt_price, get_amount_fixed_delta).    *)
(***************************************************************************)
THEOREM FurthestForInputHolds == StepsSpec => []FurthestForInput
BY StepsInvariance, FurthestHolds, PTL

LEMMA NearestHolds == SInv => NearestForOutput
<1> SUFFICES ASSUME Legal(input), step = StepOf(input), IsOk(StepOf(input)),
                    ~input.is_input
             PROVE  LET before == Past(input.price, step.next_price) \ {step.next_price}
                    IN  /\ \A q \in before : FixedTo(q) <= input.amount
                        /\ step.next_price # input.target =>
                              /\ FixedTo(step.next_price) >= input.amount
                              /\ \A q \in before : FixedTo(q) < input.amount
  BY DEF SInv, NearestForOutput
<1> DEFINE i == input
           p == i.price
           n == NextOf(i)
           t == i.target
           b == i.amount
<1>1. step.next_price = n /\ FixedOf(i, t) # Err
  BY OkStep, Zenon
<1>2. /\ n \in Int /\ Between(i, n) /\ FixedOf(i, n) = AmountTo(i, n)
      /\ t \in Nat \ {0} /\ p \in Nat \ {0}
  BY OkStep, NextIsBetween, LegalTypes, Zenon
<1>3. \A q : FixedTo(q) = FixedOf(i, q)
  BY DEF FixedTo, FixedOf
<1>4. /\ \A q \in Int :
            NoLater(i, p, q) /\ NoLater(i, q, n) /\ q # n => AmountTo(i, q) <= b
      /\ n # t =>
            /\ AmountTo(i, n) >= b
            /\ \A q \in Int :
                  NoLater(i, p, q) /\ NoLater(i, q, n) /\ q # n => AmountTo(i, q) < b
  BY OkStep, NearestStep, Zenon
<1> HIDE DEF i, p, n, t, b
<1>5. ASSUME NEW q \in Past(p, n) \ {n}
      PROVE  /\ q \in Int /\ NoLater(i, p, q) /\ NoLater(i, q, n) /\ q # n
             /\ FixedTo(q) = AmountTo(i, q)
  <2>1. t \in Int /\ p \in Int
    BY <1>2
  <2>2. q \in Int /\ NoLater(i, p, q) /\ NoLater(i, q, n)
    BY <1>2, <2>1, PastIs DEF i
  <2>3. NoLater(i, q, t)
    BY <1>2, <2>1, <2>2, NoLaterChain DEF Between, i, t
  <2>4. Between(i, q)
    BY <2>2, <2>3, Zenon DEF Between, t, p
  <2>5. FixedOf(i, q) = AmountTo(i, q)
    BY <1>1, <2>2, <2>4, FixedNearer DEF i, t
  <2> QED
    BY <1>3, <2>2, <2>5, Zenon
<1>6. ASSUME NEW q \in Past(p, n) \ {n} PROVE FixedTo(q) <= b
  BY <1>4, <1>5, Zenon
<1>7. ASSUME n # t
      PROVE  /\ FixedTo(n) >= b
             /\ \A q \in Past(p, n) \ {n} : FixedTo(q) < b
  BY <1>2, <1>3, <1>4, <1>5, <1>7, Zenon
<1> QED
  BY <1>1, <1>6, <1>7, Zenon DEF i, p, n, t, b

(***************************************************************************)
(* A step asked for an output stops at the first price that yields it, and *)
(* passes none that yields more than was asked for (compute_swap).         *)
(***************************************************************************)
THEOREM NearestForOutputHolds == StepsSpec => []NearestForOutput
BY StepsInvariance, NearestHolds, PTL

LEMMA SufficesHolds == SInv => AmountSuffices
<1> SUFFICES ASSUME Legal(input), step = StepOf(input), IsOk(StepOf(input))
             PROVE  Left >= 0 /\ (step.next_price # input.target => Left = 0)
  BY DEF SInv, AmountSuffices
<1> DEFINE i == input
           s == step
           a == i.amount
           in == s.amount_in
           out == s.amount_out
           fee == s.fee_amount
<1>1. /\ in \in Nat /\ out \in Nat /\ fee \in Nat /\ a \in Nat
      /\ i.is_input => /\ in + fee <= a
                       /\ s.next_price # i.target => in + fee = a
      /\ ~i.is_input => /\ out <= a
                        /\ s.next_price # i.target => out = a
  BY StepAmounts, LegalTypes, Zenon
<1>2. Left = IF i.is_input THEN a - in - fee ELSE a - out
  BY DEF Left
<1> HIDE DEF a, in, out, fee
<1>3. CASE i.is_input
  <2>1. Left = a - in - fee
    BY <1>2, <1>3
  <2>2. a - in - fee >= 0 /\ (in + fee = a => a - in - fee = 0)
    BY <1>1, <1>3
  <2> QED
    BY <1>1, <1>3, <2>1, <2>2, Zenon
<1>4. CASE ~i.is_input
  <2>1. Left = a - out
    BY <1>2, <1>4
  <2>2. a - out >= 0 /\ (out = a => a - out = 0)
    BY <1>1, <1>4
  <2> QED
    BY <1>1, <1>4, <2>1, <2>2, Zenon
<1> QED
  BY <1>3, <1>4

(***************************************************************************)
(* The loop's checked_sub never fails, and a step that falls short of its  *)
(* target uses up the amount (swap_manager.rs, compute_swap).              *)
(***************************************************************************)
THEOREM AmountSufficesHolds == StepsSpec => []AmountSuffices
BY StepsInvariance, SufficesHolds, PTL

LEMMA RoundingHolds == SInv => PoolKeepsRounding
<1> SUFFICES ASSUME Legal(input), step = StepOf(input), IsOk(StepOf(input))
             PROVE  PoolKeepsRounding
  BY DEF SInv, PoolKeepsRounding
<1>1. step.next_price = NextOf(input)
  BY OkStep, Zenon
<1>2. step.fee_amount * FEE_RATE_MUL_VALUE
         >= (step.amount_in + step.fee_amount) * input.fee_rate
  BY StepAmounts, Zenon
<1>3. IF input.a_to_b
      THEN /\ step.amount_in * input.price * NextOf(input)
                >= input.liquidity * Distance(input.price, NextOf(input)) * Q64
           /\ step.amount_out * Q64
                <= input.liquidity * Distance(input.price, NextOf(input))
      ELSE /\ step.amount_in * Q64
                >= input.liquidity * Distance(input.price, NextOf(input))
           /\ step.amount_out * input.price * NextOf(input)
                <= input.liquidity * Distance(input.price, NextOf(input)) * Q64
  BY StepIsWorth, Zenon
<1> QED
  BY <1>1, <1>2, <1>3, Zenon DEF PoolKeepsRounding

(***************************************************************************)
(* Rounding never favours the caller: neither the amounts, up and down, nor *)
(* the fee (get_amount_delta_a, get_amount_delta_b, compute_swap).         *)
(***************************************************************************)
THEOREM PoolKeepsRoundingHolds == StepsSpec => []PoolKeepsRounding
BY StepsInvariance, RoundingHolds, PTL

-----------------------------------------------------------------------------
\* The SDK's step, when token A is paid in.

QuoteOf(i) ==
    computeSwapStep(i.amount, i.fee_rate, i.liquidity, i.price, i.target,
                    i.is_input, i.a_to_b)

\* An amount of A too large for the program's numerator is too large anyway.
LEMMA QuotedA ==
  ASSUME NEW p \in SqrtPrices, NEW q \in SqrtPrices, NEW l \in Nat
  PROVE  getAmountDeltaA(p, q, l, TRUE) = get_amount_delta_a(p, q, l, TRUE)
<1> DEFINE n == l * Distance(p, q)
           c == AmountA(p, q, l, TRUE)
           w == Q64 * Q64 * Q64
           m == MAX_SQRT_PRICE
<1>1. /\ p \in Nat \ {0} /\ q \in Nat \ {0} /\ p <= m /\ q <= m
      /\ m \in Nat /\ Q64 \in Nat \ {0}
  BY SwapMathAssumption DEF SqrtPrices
<1>2. /\ getAmountDeltaA(p, q, l, TRUE) = Checked(c, MAX_U64)
      /\ get_amount_delta_a(p, q, l, TRUE)
            = IF n >= w THEN Err ELSE Checked(c, MAX_U64)
  BY DEF getAmountDeltaA, get_amount_delta_a, AmountA
<1>3. n \in Nat /\ n * Q64 \in Nat /\ p * q \in Nat \ {0} /\ c \in Nat
  BY <1>1, AmountTypes, AmountType
<1>4. w \in Nat
  <2>1. Q64 * Q64 \in Nat
    BY <1>1
  <2> QED
    BY <1>1, <2>1
<1>5. ASSUME n >= w PROVE Checked(c, MAX_U64) = Err
  <2>1. p * q <= w
    <3> HIDE DEF w, m
    <3>1. p * q <= p * m
      BY <1>1, Cancel
    <3>2. p * m <= m * m
      <4>1. m \in Nat \ {0}
        BY <1>1
      <4>2. m * p <= m * m
        BY <1>1, <4>1, Cancel
      <4> QED
        BY <1>1, <4>2
    <3>3. m * m <= w
      BY QuoteAssumption DEF m, w
    <3>4. p * q \in Int /\ p * m \in Int /\ m * m \in Int
      BY <1>1
    <3> QED
      BY <1>4, <3>1, <3>2, <3>3, <3>4
  <2>2. ~(c <= Q64 - 1)
    <3> DEFINE d == p * q
               k == n * Q64
    <3>1. d <= n
      <4> HIDE DEF n, w
      <4> QED
        BY <1>3, <1>4, <1>5, <2>1
    <3>2. d \in Nat \ {0} /\ k \in Nat /\ n \in Nat /\ c = DivRound(k, d, TRUE)
      BY <1>3 DEF AmountA
    <3>3. k = n * Q64
      OBVIOUS
    <3> HIDE DEF d, k, n, c
    <3>4. Q64 - 1 \in Int
      BY <1>1
    <3>5. c <= Q64 - 1 <=> k <= d * (Q64 - 1)
      BY <3>2, <3>4, CeilingAtMost
    <3>6. d * (Q64 - 1) = d * Q64 - d
      BY <1>1, <3>2
    <3>7. Q64 * d <= Q64 * n
      BY <1>1, <3>1, <3>2, Cancel
    <3>8. Q64 * d = d * Q64 /\ Q64 * n = n * Q64 /\ d * Q64 \in Int /\ n * Q64 \in Int
      BY <1>1, <3>2
    <3>9. ~(k <= d * (Q64 - 1))
      BY <3>2, <3>3, <3>6, <3>7, <3>8
    <3> QED
      BY <3>5, <3>9
  <2>3. c \notin 0 .. MAX_U64
    <3> HIDE DEF c
    <3> QED
      BY <1>1, <2>2, QuoteAssumption
  <2> QED
    BY <2>3 DEF Checked
<1> QED
  BY <1>2, <1>5, Zenon

\* A product of 128 bits, shifted, has 64.
LEMMA QuotedB ==
  ASSUME NEW p \in SqrtPrices, NEW q \in SqrtPrices, NEW l \in Nat
  PROVE  getAmountDeltaB(p, q, l, FALSE) = get_amount_delta_b(p, q, l, FALSE)
<1> DEFINE n == l * Distance(p, q)
           c == n \div Q64
<1>1. p \in Nat \ {0} /\ q \in Nat \ {0} /\ Q64 \in Nat \ {0}
  BY SwapMathAssumption DEF SqrtPrices
<1>2. n \in Nat /\ MAX_U128 \in Nat /\ MAX_U128 = Q64 * Q64 - 1 /\ MAX_U64 = Q64 - 1
  BY <1>1, AmountTypes, SwapMathAssumption, QuoteAssumption
<1>3. getAmountDeltaB(p, q, l, FALSE) = IF n > MAX_U128 THEN Err ELSE c
  BY DEF getAmountDeltaB, checked_mul_shift_right_round_up_if
<1>4. get_amount_delta_b(p, q, l, FALSE)
         = IF n > MAX_U128 THEN Err ELSE Checked(c, MAX_U64)
  BY DEF get_amount_delta_b, DivRound
<1> HIDE DEF n
<1>5. c \in Nat /\ DivRound(n, Q64, FALSE) = c
  BY <1>1, <1>2, FloorIs
<1>6. ASSUME ~(n > MAX_U128) PROVE Checked(c, MAX_U64) = c
  <2>1. ~(Q64 * Q64 <= n)
    <3> DEFINE w == Q64 * Q64
    <3>1. w \in Int
      BY <1>1
    <3> HIDE DEF w
    <3>2. MAX_U128 = w - 1
      BY <1>2 DEF w
    <3> QED
      BY <1>2, <1>6, <3>1, <3>2 DEF w
  <2>2. Q64 <= DivRound(n, Q64, FALSE) <=> Q64 * Q64 <= n
    <3>1. Q64 \in Int
      BY <1>1
    <3> QED
      BY <1>1, <1>2, <3>1, FloorAtLeast
  <2> HIDE DEF c
  <2>3. ~(Q64 <= c)
    BY <1>5, <2>1, <2>2, Zenon
  <2>4. c \in 0 .. MAX_U64
    BY <1>1, <1>2, <1>5, <2>3
  <2> QED
    BY <2>4 DEF Checked
<1> QED
  BY <1>3, <1>4, <1>6, Zenon

LEMMA QuotedAmounts ==
  ASSUME NEW i, Legal(i), i.a_to_b, NEW q \in SqrtPrices
  PROVE  /\ getAmountFixedDelta(i.price, q, i.liquidity, i.is_input, i.a_to_b)
              = FixedOf(i, q)
         /\ getAmountUnfixedDelta(i.price, q, i.liquidity, i.is_input, i.a_to_b)
              = UnfixedOf(i, q)
<1>1. i.price \in SqrtPrices /\ i.liquidity \in Nat /\ i.is_input \in BOOLEAN
  BY LegalTypes
<1>2. /\ getAmountDeltaA(i.price, q, i.liquidity, TRUE)
           = get_amount_delta_a(i.price, q, i.liquidity, TRUE)
      /\ getAmountDeltaB(i.price, q, i.liquidity, FALSE)
           = get_amount_delta_b(i.price, q, i.liquidity, FALSE)
  BY <1>1, QuotedA, QuotedB
<1>3. i.a_to_b = TRUE
  BY LegalTypes
<1>4. CASE i.is_input = TRUE
  <2>1. (~TRUE) = FALSE
    OBVIOUS
  <2> QED
    BY <1>2, <1>3, <1>4, <2>1 DEF getAmountFixedDelta, getAmountUnfixedDelta,
       FixedOf, UnfixedOf, get_amount_fixed_delta, get_amount_unfixed_delta
<1>5. CASE i.is_input = FALSE
  <2>1. (~FALSE) = TRUE
    OBVIOUS
  <2> QED
    BY <1>2, <1>3, <1>5, <2>1 DEF getAmountFixedDelta, getAmountUnfixedDelta,
       FixedOf, UnfixedOf, get_amount_fixed_delta, get_amount_unfixed_delta
<1> QED
  BY <1>1, <1>4, <1>5

\* Where the step stops short, the program's bounds on the price do not bite.
LEMMA QuotedNext ==
  ASSUME NEW i, Legal(i), i.a_to_b, ~(BudgetOf(i) >= FixedOf(i, i.target))
  PROVE  getNextSqrtPrice(i.price, i.liquidity, BudgetOf(i), i.is_input, i.a_to_b)
            = PriceAt(i, BudgetOf(i))
<1> DEFINE p == i.price
           t == i.target
           l == i.liquidity
           b == BudgetOf(i)
<1>1. /\ p \in Nat \ {0} /\ t \in Nat \ {0} /\ l \in Nat /\ b \in Nat
      /\ i.is_input \in BOOLEAN /\ i.a_to_b = TRUE /\ t <= p
      /\ p \in MIN_SQRT_PRICE .. MAX_SQRT_PRICE
  BY LegalTypes, BudgetType DEF NoLater, SqrtPrices
<1>2. CASE i.is_input = TRUE
  BY <1>1, <1>2 DEF getNextSqrtPrice, PriceAt, get_next_sqrt_price
<1>3. CASE i.is_input = FALSE
  <2> DEFINE d == DivRound(b * Q64, l, TRUE)
             f == FixedOf(i, t)
  <2>1. (~FALSE) = TRUE
    OBVIOUS
  <2>2. /\ getNextSqrtPrice(p, l, b, i.is_input, i.a_to_b)
              = IF l = 0 THEN Err ELSE p - d
        /\ PriceAt(i, b) = IF l = 0 THEN Err ELSE Checked(p - d, MAX_U128)
    BY <1>1, <1>3, <2>1 DEF getNextSqrtPrice, getNextSqrtPriceFromBRoundDown,
       PriceAt, get_next_sqrt_price, get_next_sqrt_price_from_b_round_down
  <2>3. f # Err
    <3>1. ~(b >= f)
      OBVIOUS
    <3>2. b >= Err
      <4> HIDE DEF b
      <4> QED
        BY <1>1 DEF Err
    <3> QED
      BY <3>1, <3>2, Zenon
  <2>4. f = AmountTo(i, t) /\ AmountTo(i, t) = AmountB(p, t, l, FALSE)
    <3>1. f = AmountTo(i, t)
      BY <1>1, <2>3, FixedIs, Zenon
    <3> QED
      BY <1>1, <1>3, <3>1, AmountToIs
  <2>5. b < AmountB(p, t, l, FALSE)
    <3> DEFINE k == AmountB(p, t, l, FALSE)
    <3>1. k \in Nat
      BY <1>1, AmountType
    <3>2. ~(b >= k)
      BY <2>4, Zenon
    <3> HIDE DEF k, b
    <3>3. b < k
      BY <1>1, <3>1, <3>2
    <3> QED
      BY <3>3 DEF k
  <2>6. l \in Nat \ {0}
    BY <1>1, <2>5, SomeLiquidity, Zenon
  <2>7. p - d \in Int /\ p - d <= p /\ t <= p - d
    <3> HIDE DEF p, t, l, b
    <3> QED
      BY <1>1, <2>5, <2>6, StopsOutputOfB
  <2>8. p - d \in 0 .. MAX_U128
    <3> DEFINE x == p - d
    <3>1. x \in Int /\ x <= p /\ t <= x
      BY <2>7
    <3> HIDE DEF x, p, t
    <3>2. x \in 0 .. MAX_U128
      BY <1>1, <3>1, SwapMathAssumption, QuoteAssumption
    <3> QED
      BY <3>2 DEF x
  <2>9. Checked(p - d, MAX_U128) = p - d
    BY <2>8 DEF Checked
  <2> QED
    BY <2>2, <2>9, Zenon
<1> QED
  BY <1>1, <1>2, <1>3

\* The fee of a step that succeeds is no more than what it is paid for.
LEMMA FeeIsSmall ==
  ASSUME NEW i, Legal(i), NEW x \in Nat, x <= MAX_U64,
         2 * i.fee_rate <= FEE_RATE_MUL_VALUE
  PROVE  FeeOf(x, i.fee_rate) \in 0 .. MAX_U64
<1> DEFINE r == i.fee_rate
           m == FEE_RATE_MUL_VALUE
           d == m - r
           f == DivRound(x * r, d, TRUE)
<1>1. r \in Nat /\ d \in Nat \ {0} /\ r <= d
  <2>1. r \in Nat /\ r <= m - 1 /\ m \in Nat /\ 2 * r <= m
    BY LegalTypes, SwapMathAssumption
  <2> HIDE DEF r, m
  <2> QED
    BY <2>1
<1>2. FeeOf(x, i.fee_rate) = f
  BY DEF FeeOf
<1> HIDE DEF r, m, d
<1>3. x * r \in Nat /\ x \in Int
  BY <1>1
<1>4. x * r <= d * x
  <2>1. CASE x = 0
    BY <1>1, <2>1
  <2>2. CASE x # 0
    <3>1. x \in Nat \ {0} /\ r \in Int /\ d \in Int
      BY <1>1, <2>2
    <3>2. x * r <= x * d
      BY <1>1, <3>1, Cancel
    <3> QED
      BY <1>1, <3>2
  <2> QED
    BY <2>1, <2>2
<1>5. f <= x
  BY <1>1, <1>3, <1>4, CeilingAtMost
<1>6. f \in Nat
  BY <1>1, <1>3, CeilingType
<1> HIDE DEF f
<1>7. f \in 0 .. MAX_U64
  BY <1>5, <1>6, SwapMathAssumption
<1> QED
  BY <1>2, <1>7, Zenon

LEMMA QuotedStep ==
  ASSUME NEW i, Legal(i), i.a_to_b, 2 * i.fee_rate <= FEE_RATE_MUL_VALUE
  PROVE  QuoteOf(i) = StepOf(i)
<1> DEFINE t == i.target
           n == NextOf(i)
           full == FixedOf(i, t)
           b == BudgetOf(i)
           quoted(q) == getAmountFixedDelta(i.price, q, i.liquidity,
                                            i.is_input, i.a_to_b)
           other(q) == getAmountUnfixedDelta(i.price, q, i.liquidity,
                                             i.is_input, i.a_to_b)
           m == IF b >= quoted(t) THEN t
                ELSE getNextSqrtPrice(i.price, i.liquidity, b, i.is_input, i.a_to_b)
           Fixed == IF n = t THEN full ELSE FixedOf(i, n)
           Unfixed == UnfixedOf(i, n)
           QFixed == IF m = t THEN quoted(t) ELSE quoted(m)
           QUnfixed == other(m)
           In == IF i.is_input THEN Fixed ELSE Unfixed
           Out == IF i.is_input THEN Unfixed ELSE Fixed
           QIn == IF i.is_input THEN QFixed ELSE QUnfixed
           QOut == IF i.is_input THEN QUnfixed ELSE QFixed
           failure == [amount_in |-> Err, amount_out |-> Err,
                       next_price |-> Err, fee_amount |-> Err]
<1>1. StepOf(i) =
        IF Err \in {full, n} \/ Err \in {Fixed, Unfixed} THEN failure
        ELSE [amount_in |-> In, amount_out |-> CapOutput(Out, i.amount, i.is_input),
              next_price |-> n,
              fee_amount |-> IF i.is_input /\ ~(n = t) THEN i.amount - In
                             ELSE Checked(FeeOf(In, i.fee_rate), MAX_U64)]
  BY DEF StepOf, compute_swap, NextOf, BudgetOf, FixedOf, UnfixedOf, PriceAt
<1>2. QuoteOf(i) =
        IF Err \in {quoted(t), m} \/ Err \in {QFixed, QUnfixed} THEN failure
        ELSE [amount_in |-> QIn, amount_out |-> CapOutput(QOut, i.amount, i.is_input),
              next_price |-> m,
              fee_amount |-> IF i.is_input /\ ~(m = t) THEN i.amount - QIn
                             ELSE FeeOf(QIn, i.fee_rate)]
  BY DEF QuoteOf, computeSwapStep, BudgetOf
<1>3. /\ t \in SqrtPrices /\ i.amount \in Nat /\ i.amount <= MAX_U64
      /\ i.is_input \in BOOLEAN /\ MAX_U64 \in Nat
  BY LegalTypes, SwapMathAssumption
<1>4. quoted(t) = full
  BY <1>3, QuotedAmounts
<1>5. m = n
  BY <1>4, QuotedNext DEF NextOf
<1>6. ASSUME n # Err, full # Err
      PROVE  /\ quoted(n) = FixedOf(i, n) /\ other(n) = Unfixed
             /\ FixedOf(i, n) = AmountTo(i, n) /\ Reaches(i)
             /\ n \in Nat \ {0} /\ AmountTo(i, n) \in Nat
  <2>1. Reaches(i)
    BY <1>6 DEF Reaches
  <2>2. /\ n \in SqrtPrices /\ FixedOf(i, n) = AmountTo(i, n)
        /\ n \in Nat \ {0} /\ AmountTo(i, n) \in Nat
    BY <2>1, NextIsBetween, Zenon
  <2> QED
    BY <2>1, <2>2, QuotedAmounts
<1>7. CASE n = Err \/ full = Err
  <2> HIDE DEF quoted, other, m, n, full, failure, QFixed, QUnfixed, Fixed, Unfixed
  <2>1. Err \in {full, n} /\ Err \in {quoted(t), m}
    BY <1>4, <1>5, <1>7
  <2> QED
    BY <1>1, <1>2, <2>1, Zenon
<1>8. CASE n # Err /\ full # Err
  <2>1. QFixed = Fixed /\ QUnfixed = Unfixed
    <3> HIDE DEF quoted, other, m, n, full, Unfixed
    <3> QED
      BY <1>4, <1>5, <1>6, <1>8
  <2>2. QIn = In /\ QOut = Out
    BY <2>1, Zenon
  <2>3. ASSUME Unfixed # Err, ~(i.is_input /\ ~(n = t))
        PROVE  Checked(FeeOf(In, i.fee_rate), MAX_U64) = FeeOf(In, i.fee_rate)
    <3>1. In \in Nat /\ In <= MAX_U64
      <4>1. CASE i.is_input
        <5>1. In = AmountTo(i, n)
          BY <1>6, <1>8, <4>1
        <5>2. AmountTo(i, n) <= MAX_U64
          BY <1>6, <1>8, <4>1, FixedIs, <2>3, Zenon
        <5> QED
          BY <1>6, <1>8, <5>1, <5>2, Zenon
      <4>2. CASE ~i.is_input
        <5>1. In = Unfixed
          BY <4>2
        <5>2. Unfixed \in Nat /\ Unfixed <= MAX_U64
          BY <1>6, <1>8, <2>3, UnfixedIs, UnfixedFits, Zenon
        <5> QED
          BY <5>1, <5>2, Zenon
      <4> QED
        BY <4>1, <4>2
    <3> HIDE DEF In
    <3>2. FeeOf(In, i.fee_rate) \in 0 .. MAX_U64
      BY <3>1, FeeIsSmall
    <3> QED
      BY <3>2 DEF Checked
  <2>4. CASE Err \in {Fixed, Unfixed}
    <3>1. Err \in {QFixed, QUnfixed}
      BY <2>1, <2>4, Zenon
    <3>2. StepOf(i) = failure
      BY <1>1, <2>4, Zenon
    <3>3. QuoteOf(i) = failure
      BY <1>2, <3>1, Zenon
    <3> HIDE DEF failure
    <3> QED
      BY <3>2, <3>3
  <2>5. CASE Err \notin {Fixed, Unfixed}
    <3> DEFINE A == IF i.is_input /\ ~(n = t) THEN i.amount - In
                    ELSE Checked(FeeOf(In, i.fee_rate), MAX_U64)
               B == IF i.is_input /\ ~(m = t) THEN i.amount - QIn
                    ELSE FeeOf(QIn, i.fee_rate)
    <3>1. Unfixed # Err
      BY <2>5, Zenon
    <3>2. A = B
      <4>1. B = IF i.is_input /\ ~(n = t) THEN i.amount - In
                ELSE FeeOf(In, i.fee_rate)
        BY <1>5, <2>2, Zenon
      <4> QED
        BY <2>3, <3>1, <4>1, Zenon
    <3>3. StepOf(i) = [amount_in |-> In,
                       amount_out |-> CapOutput(Out, i.amount, i.is_input),
                       next_price |-> n, fee_amount |-> A]
      BY <1>1, <1>8, <2>5, Zenon
    <3>4. QuoteOf(i) = [amount_in |-> QIn,
                        amount_out |-> CapOutput(QOut, i.amount, i.is_input),
                        next_price |-> m, fee_amount |-> B]
      BY <1>2, <1>4, <1>5, <1>8, <2>1, <2>5, Zenon
    <3> HIDE DEF m, n, In, Out, QIn, QOut, A, B
    <3> QED
      BY <1>5, <2>2, <3>2, <3>3, <3>4
  <2> QED
    BY <2>4, <2>5
<1> QED
  BY <1>7, <1>8, Zenon

\* A fee rate does not change along the way.
LEMMA RateInit == SwapInit => 2 * input.fee_rate <= FEE_RATE_MUL_VALUE
<1> SUFFICES ASSUME SwapInit PROVE 2 * input.fee_rate <= FEE_RATE_MUL_VALUE
  OBVIOUS
<1>1. PICK price \in SqrtPrices, a_to_b \in BOOLEAN :
         \E target \in Targets(price, a_to_b) :
            input \in [amount: Amounts, fee_rate: FeeRates,
                       liquidity: Liquidities, price: {price},
                       target: {target}, is_input: BOOLEAN, a_to_b: {a_to_b}]
  BY DEF SwapInit
<1>2. input.fee_rate \in FeeRates
  BY <1>1
<1> QED
  BY <1>2, InputsAssumption

LEMMA RateNext ==
  SInv /\ 2 * input.fee_rate <= FEE_RATE_MUL_VALUE /\ [Continue]_<<input, step>>
     => (2 * input.fee_rate <= FEE_RATE_MUL_VALUE)'
<1> SUFFICES ASSUME SInv, 2 * input.fee_rate <= FEE_RATE_MUL_VALUE,
                    [Continue]_<<input, step>>
             PROVE  2 * input'.fee_rate <= FEE_RATE_MUL_VALUE
  OBVIOUS
<1>1. CASE UNCHANGED <<input, step>>
  BY <1>1
<1>2. CASE Continue
  <2>1. PICK target \in Targets(step.next_price, input.a_to_b),
             liquidity \in Liquidities :
           input' = [input EXCEPT !.amount = Left, !.price = step.next_price,
                                  !.target = target, !.liquidity = liquidity]
    BY <1>2 DEF Continue
  <2>2. input \in Inputs
    BY DEF SInv, Legal
  <2>3. input'.fee_rate = input.fee_rate
    BY <2>1, <2>2 DEF Inputs
  <2> QED
    BY <2>3
<1> QED
  BY <1>1, <1>2

LEMMA QuoteHolds ==
  SInv /\ 2 * input.fee_rate <= FEE_RATE_MUL_VALUE => QuoteExactForA
<1> SUFFICES ASSUME Legal(input), step = StepOf(input), input.a_to_b,
                    2 * input.fee_rate <= FEE_RATE_MUL_VALUE
             PROVE  Quote = step
  BY DEF SInv, QuoteExactForA
<1>1. QuoteOf(input) = StepOf(input)
  BY QuotedStep
<1> QED
  BY <1>1 DEF Quote, QuoteOf

(***************************************************************************)
(* When token A is paid in, the SDK's own arithmetic                       *)
(* (sdk/src/utils/math/swap-math.ts and the files below it) gives the      *)
(* program's step, amount by amount, and fails when it fails.              *)
(***************************************************************************)
THEOREM QuoteExactForAHolds == StepsSpec => []QuoteExactForA
<1>1. SwapInit => SInv /\ 2 * input.fee_rate <= FEE_RATE_MUL_VALUE
  BY StepsInit, RateInit
<1>2. SInv /\ 2 * input.fee_rate <= FEE_RATE_MUL_VALUE /\ [Continue]_<<input, step>>
         => SInv' /\ (2 * input.fee_rate <= FEE_RATE_MUL_VALUE)'
  BY StepsNext, RateNext
<1> QED
  BY <1>1, <1>2, QuoteHolds, PTL DEF StepsSpec

-----------------------------------------------------------------------------
\* The tick arrays of a quote.

\* Division with remainder, of any number.
LEMMA FloorRemainder ==
  ASSUME NEW n \in Int, NEW d \in Nat \ {0}
  PROVE  /\ n = d * (n \div d) + (n % d)
         /\ n \div d \in Int
         /\ n % d \in 0 .. d - 1
OBVIOUS

\* A quotient is the only number between whose multiples n lies.
LEMMA QuotientIs ==
  ASSUME NEW n \in Int, NEW d \in Nat \ {0}, NEW q \in Int,
         d * q <= n, n < d * q + d
  PROVE  n \div d = q /\ n % d = n - d * q
<1> DEFINE p == n \div d
           r == n % d
<1>1. n = d * p + r /\ p \in Int /\ r \in 0 .. d - 1
  BY FloorRemainder
<1> HIDE DEF p, r
<1>2. d * (q + 1) = d * q + d /\ d * (p + 1) = d * p + d
  BY <1>1
<1>3. d * p \in Int /\ d * q \in Int
  BY <1>1
<1>4. ~(q + 1 <= p) 
  <2>1. q + 1 <= p => d * (q + 1) <= d * p
    BY <1>1, Cancel
  <2> QED
    BY <1>1, <1>2, <1>3, <2>1
<1>5. ~(p + 1 <= q)
  <2>1. p + 1 <= q => d * (p + 1) <= d * q
    BY <1>1, Cancel
  <2> QED
    BY <1>1, <1>2, <1>3, <2>1
<1>6. p = q
  BY <1>1, <1>4, <1>5
<1> QED
  BY <1>1, <1>3, <1>6 DEF p, r

LEMMA TickTypes ==
  /\ MIN_TICK_INDEX \in Int /\ MAX_TICK_INDEX \in Int /\ MIN_TICK_INDEX < 0
  /\ TICK_ARRAY_SIZE \in Nat \ {0} /\ tick_spacing \in Nat \ {0}
  /\ ticks_in_array \in Nat \ {0} /\ tick_spacing <= ticks_in_array
BY TickAssumption, QuoteArraysAssumption DEF ticks_in_array

\* A tick by its array, its slot, and its distance from that slot.
LEMMA TickIs ==
  ASSUME NEW t \in Int
  PROVE  \E p \in Int, s \in 0 .. TICK_ARRAY_SIZE - 1, r \in 0 .. tick_spacing - 1 :
            /\ t = ticks_in_array * p + tick_spacing * s + r
            /\ t \div tick_spacing = TICK_ARRAY_SIZE * p + s
            /\ p = (t \div tick_spacing) \div TICK_ARRAY_SIZE
            /\ t \div ticks_in_array = p
            /\ t % ticks_in_array = tick_spacing * s + r
<1> DEFINE S == tick_spacing
           A == TICK_ARRAY_SIZE
           q == t \div S
           r == t % S
           p == q \div A
           s == q % A
<1>1. S \in Nat \ {0} /\ A \in Nat \ {0} /\ ticks_in_array \in Nat \ {0}
      /\ ticks_in_array = A * S
  BY TickTypes DEF ticks_in_array
<1> HIDE DEF S, A
<1>2. t = S * q + r /\ q \in Int /\ r \in 0 .. S - 1
  BY <1>1, FloorRemainder
<1>3. q = A * p + s /\ p \in Int /\ s \in 0 .. A - 1
  BY <1>1, <1>2, FloorRemainder
<1> HIDE DEF q, r, p, s
<1>4. t = ticks_in_array * p + S * s + r
  <2>1. S * (A * p + s) = (A * S) * p + S * s
    BY <1>1, <1>3
  <2> QED
    BY <1>1, <1>2, <1>3, <2>1
<1>5. 0 <= S * s /\ S * s + r < ticks_in_array /\ S * s \in Int
  <2>1. S * s <= S * (A - 1)
    BY <1>1, <1>3, Cancel
  <2>2. S * (A - 1) = A * S - S
    BY <1>1
  <2>3. 0 <= S * s /\ S * s \in Int /\ A * S \in Int
    BY <1>1, <1>3
  <2> QED
    BY <1>1, <1>2, <2>1, <2>2, <2>3
<1>6. ticks_in_array * p \in Int
  BY <1>1, <1>3
<1>7. t \div ticks_in_array = p /\ t % ticks_in_array = t - ticks_in_array * p
  <2>1. ticks_in_array * p <= t /\ t < ticks_in_array * p + ticks_in_array
    BY <1>1, <1>2, <1>4, <1>5, <1>6
  <2> QED
    BY <1>1, <1>3, <2>1, QuotientIs
<1>8. t % ticks_in_array = S * s + r
  BY <1>2, <1>4, <1>5, <1>6, <1>7
<1> QED
  BY <1>2, <1>3, <1>4, <1>7, <1>8 DEF S, A, q, p

\* The quote's place of a tick, floor and remainder over JavaScript's, is right.
LEMMA PlaceInArray ==
  ASSUME NEW t \in Int
  PROVE  /\ fromTickIndex(t).arrayIndex = t \div ticks_in_array
         /\ toTickIndex(fromTickIndex(t)) = tick_spacing * (t \div tick_spacing)
<1> DEFINE S == tick_spacing
           A == TICK_ARRAY_SIZE
           w == ticks_in_array
           e == TruncRem(t, w)
<1>1. PICK p \in Int, s \in 0 .. A - 1, r \in 0 .. S - 1 :
         /\ t = w * p + S * s + r
         /\ t \div S = A * p + s
         /\ p = (t \div S) \div A
         /\ t \div w = p
         /\ t % w = S * s + r
  BY TickIs
<1>2. S \in Nat \ {0} /\ A \in Nat \ {0} /\ w \in Nat \ {0} /\ w = A * S
  BY TickTypes DEF ticks_in_array
<1> DEFINE j == IF e = t % w THEN s ELSE s - A
<1>3. e = t % w \/ e = (t % w) - w
  <2>1. CASE t >= 0
    <3> DEFINE q == t \div w
               f == t % w
    <3>1. e = t - w * q
      BY <2>1 DEF TruncRem, TruncDiv
    <3>2. t = w * q + f /\ q \in Int /\ f \in 0 .. w - 1
      BY <1>2, FloorRemainder
    <3> HIDE DEF e, q, f, w
    <3>3. w * q \in Int
      BY <1>2, <3>2
    <3>4. e = f
      BY <3>1, <3>2, <3>3
    <3> QED
      BY <3>4 DEF f
  <2>2. CASE t < 0
    <3> DEFINE q == (-t) \div w
               f == (-t) % w
    <3>1. e = t - w * (-q)
      BY <2>2 DEF TruncRem, TruncDiv
    <3>2. -t = w * q + f /\ q \in Int /\ f \in 0 .. w - 1
      <4> DEFINE u == -t
      <4>1. u \in Int
        OBVIOUS
      <4> HIDE DEF u
      <4>2. u = w * (u \div w) + (u % w) /\ u \div w \in Int /\ u % w \in 0 .. w - 1
        BY <1>2, <4>1, FloorRemainder
      <4> QED
        BY <4>2 DEF u
    <3> HIDE DEF e, q, f, w
    <3>3. w * (-q) = -(w * q) /\ w * q \in Int
      BY <1>2, <3>2
    <3>4. e = -f
      BY <3>1, <3>2, <3>3
    <3>5. CASE f = 0
      <4>1. w * (-q) <= t /\ t < w * (-q) + w /\ -q \in Int
        BY <1>2, <3>2, <3>3, <3>5
      <4>2. t % w = t - w * (-q)
        BY <1>2, <4>1, QuotientIs
      <4> QED
        BY <3>1, <4>2
    <3>6. CASE f > 0
      <4>1. w * (-q - 1) = -(w * q) - w /\ -q - 1 \in Int
        BY <1>2, <3>2
      <4>2. w * (-q - 1) <= t /\ t < w * (-q - 1) + w
        BY <1>2, <3>2, <3>3, <3>6, <4>1
      <4>3. t % w = t - w * (-q - 1)
        BY <1>2, <4>1, <4>2, QuotientIs
      <4> QED
        BY <1>2, <3>2, <3>3, <3>4, <4>1, <4>3
    <3> QED
      BY <3>2, <3>5, <3>6
  <2> QED
    BY <2>1, <2>2
<1> HIDE DEF e
<1>4. e \div S = j /\ j \in Int
  <2>1. CASE e = t % w
    <3> HIDE DEF w, S, A
    <3>1. s \in Int /\ r \in Int /\ 0 <= r /\ r < S /\ S * s \in Int
      BY <1>2
    <3>2. e = S * s + r
      BY <1>1, <2>1, Zenon
    <3>3. S * s <= e /\ e < S * s + S /\ e \in Int
      BY <1>2, <3>1, <3>2
    <3>4. e \div S = s
      BY <1>2, <3>1, <3>3, QuotientIs
    <3> QED
      BY <2>1, <3>1, <3>4
  <2>2. CASE e # t % w
    <3>1. S * (s - A) = S * s - w /\ S * s \in Int
      BY <1>1, <1>2
    <3>2. e = (S * s + r) - w
      BY <1>1, <1>3, <2>2
    <3> HIDE DEF w, S, A
    <3>3. S * (s - A) <= e /\ e < S * (s - A) + S /\ e \in Int
      BY <1>1, <1>2, <3>1, <3>2
    <3>4. s - A \in Int
      BY <1>1, <1>2
    <3>5. e \div S = s - A
      BY <1>2, <3>3, <3>4, QuotientIs
    <3> QED
      BY <2>2, <3>4, <3>5
  <2> QED
    BY <2>1, <2>2
<1>5. s = IF j < 0 THEN A + j ELSE j
  BY <1>1, <1>2
<1>6. fromTickIndex(t) = [arrayIndex |-> p, offsetIndex |-> s]
  BY <1>1, <1>4, <1>5 DEF fromTickIndex, e
<1>7. (p * A + s) * S = S * (t \div S)
  BY <1>1, <1>2
<1> QED
  BY <1>1, <1>6, <1>7 DEF toTickIndex

\* Start ticks, and where their arrays end.
LEMMA StartIs ==
  ASSUME NEW s \in StartTicks
  PROVE  /\ s \in Int /\ s # MIN_TICK_INDEX /\ s <= MAX_TICK_INDEX
         /\ MIN_TICK_INDEX < s + ticks_in_array
         /\ s <= MIN_TICK_INDEX => s - ticks_in_array \notin StartTicks
<1> DEFINE w == ticks_in_array
           f == (-MIN_TICK_INDEX) % w
           q == (-MIN_TICK_INDEX) \div w
           low == MIN_TICK_INDEX
           e == TruncRem(low, w)
<1>1. /\ low \in Int /\ low < 0 /\ MAX_TICK_INDEX \in Int /\ w \in Nat \ {0}
      /\ s \in Int /\ s <= MAX_TICK_INDEX /\ check_is_valid_start_tick(s)
  BY TickTypes DEF StartTicks
<1>2. low % w # 0
  BY TickAssumption DEF ticks_in_array
<1>3. e = -f /\ f \in 0 .. w - 1 /\ f # 0
  <2>1. e = low - w * (-q)
    BY <1>1 DEF TruncRem, TruncDiv
  <2>2. -low = w * q + f /\ q \in Int /\ f \in 0 .. w - 1
    <3> DEFINE u == -low
    <3>1. u \in Int
      BY <1>1
    <3> HIDE DEF u
    <3>2. u = w * (u \div w) + (u % w) /\ u \div w \in Int /\ u % w \in 0 .. w - 1
      BY <1>1, <3>1, FloorRemainder
    <3> QED
      BY <3>2 DEF u
  <2> HIDE DEF e, q, f, w, low
  <2>3. w * (-q) = -(w * q) /\ w * q \in Int
    BY <1>1, <2>2
  <2>4. CASE f = 0
    <3>1. w * (-q) <= low /\ low < w * (-q) + w /\ -q \in Int
      BY <1>1, <2>2, <2>3, <2>4
    <3>2. low % w = low - w * (-q)
      BY <1>1, <3>1, QuotientIs
    <3> QED
      BY <1>1, <1>2, <2>2, <2>3, <2>4, <3>2
  <2> QED
    BY <1>1, <2>1, <2>2, <2>3, <2>4
<1> HIDE DEF f, q
<1>4. \A n \in Int : n \in TickIndex <=> low <= n /\ n <= MAX_TICK_INDEX
  BY <1>1 DEF TickIndex
<1>5. ASSUME NEW n \in StartTicks, n \notin TickIndex PROVE n = (low + f) - w
  <2>1. n = low - (e + w)
    BY <1>5 DEF StartTicks, check_is_valid_start_tick
  <2> HIDE DEF e, w, low
  <2> QED
    BY <1>1, <1>3, <2>1
<1>6. s \in TickIndex => s % w = 0
  BY <1>1 DEF check_is_valid_start_tick
<1> HIDE DEF e, w
<1>7. s # low
  <2>1. CASE s \in TickIndex
    BY <1>2, <1>6, <2>1
  <2>2. CASE s \notin TickIndex
    BY <1>1, <1>3, <1>5, <2>2
  <2> QED
    BY <2>1, <2>2
<1>8. low < s + w
  <2>1. CASE s \in TickIndex
    BY <1>1, <1>4, <2>1 DEF low
  <2>2. CASE s \notin TickIndex
    BY <1>1, <1>3, <1>5, <2>2
  <2> QED
    BY <2>1, <2>2
<1>9. ASSUME s <= low, s - w \in StartTicks PROVE FALSE
  <2>1. s - w \notin TickIndex /\ s \notin TickIndex
    BY <1>1, <1>4, <1>7, <1>9
  <2> QED
    BY <1>1, <1>3, <1>5, <1>9, <2>1
<1> QED
  BY <1>1, <1>7, <1>8, <1>9 DEF w, low

\* A quote's sequence: neighbours in the direction of the swap.
Neighbours(arrays, a_to_b) ==
    /\ arrays \in Seq(StartTicks) /\ arrays # <<>>
    /\ \E m \in Int : \A j \in DOMAIN arrays :
          arrays[j] = ticks_in_array * (IF a_to_b THEN (m + 1) - j ELSE (m + j) - 1)

\* A tick is in one array at most: the one between whose start and end it is.
InTheirArrays(arrays, a_to_b) ==
    \A u \in Int : \A j \in DOMAIN arrays :
        LocalArrayIndex(arrays, u, a_to_b) = j
            <=> arrays[j] <= u /\ u < arrays[j] + ticks_in_array

\* The place of a tick in it, also of one that it does not hold.
LEMMA Place ==
  ASSUME NEW arrays, NEW a_to_b \in BOOLEAN, Neighbours(arrays, a_to_b)
  PROVE  /\ \A u \in Int : LocalArrayIndex(arrays, u, a_to_b) \in Int
         /\ InTheirArrays(arrays, a_to_b)
         /\ \A u, v \in Int : u <= v =>
               IF a_to_b
               THEN LocalArrayIndex(arrays, v, a_to_b) <= LocalArrayIndex(arrays, u, a_to_b)
               ELSE LocalArrayIndex(arrays, u, a_to_b) <= LocalArrayIndex(arrays, v, a_to_b)
         /\ \A u \in Int : LocalArrayIndex(arrays, u + ticks_in_array, a_to_b)
               = LocalArrayIndex(arrays, u, a_to_b) + IF a_to_b THEN -1 ELSE 1
         /\ DOMAIN arrays = 1 .. Len(arrays) /\ Len(arrays) \in Nat \ {0}
         /\ \A j \in DOMAIN arrays : arrays[j] \in Int /\ arrays[j] \in StartTicks
<1> DEFINE w == ticks_in_array
           L(u) == LocalArrayIndex(arrays, u, a_to_b)
<1>1. PICK m \in Int : \A j \in DOMAIN arrays :
         arrays[j] = w * (IF a_to_b THEN (m + 1) - j ELSE (m + j) - 1)
  BY DEF Neighbours
<1>2. /\ DOMAIN arrays = 1 .. Len(arrays) /\ Len(arrays) \in Nat \ {0}
      /\ \A j \in DOMAIN arrays : arrays[j] \in StartTicks
  BY DEF Neighbours
<1>3. \A j \in DOMAIN arrays : arrays[j] \in Int
  BY <1>2, StartIs
<1>4. w \in Nat \ {0}
  BY TickTypes
<1>5. arrays[1] = w * m
  <2>1. 1 \in DOMAIN arrays
    BY <1>2
  <2>2. (m + 1) - 1 = m
    OBVIOUS
  <2> QED
    BY <1>1, <2>1, <2>2
<1>6. ASSUME NEW u \in Int
      PROVE  /\ u \div w \in Int
             /\ L(u) = IF a_to_b THEN (m + 1) - (u \div w) ELSE (1 + (u \div w)) - m
  <2>1. arrays[1] \div w = m
    <3>1. w * m \in Int /\ w * m <= w * m /\ w * m < w * m + w
      BY <1>4
    <3> HIDE DEF w
    <3> QED
      BY <1>4, <1>5, <3>1, QuotientIs
  <2>2. /\ fromTickIndex(u).arrayIndex = u \div w
        /\ fromTickIndex(arrays[1]).arrayIndex = m
    <3>1. arrays[1] \in Int
      BY <1>2, <1>3
    <3> QED
      BY <2>1, <3>1, PlaceInArray
  <2>3. u \div w \in Int
    BY <1>4, FloorRemainder
  <2>4. L(u) = 1 + IF a_to_b THEN -((u \div w) - m) ELSE (u \div w) - m
    BY <2>2 DEF LocalArrayIndex
  <2> DEFINE q == u \div w
  <2> HIDE DEF w, L, q
  <2>5. L(u) = IF a_to_b THEN (m + 1) - q ELSE (1 + q) - m
    BY <2>3, <2>4 DEF q
  <2> QED
    BY <2>3, <2>5 DEF q
<1>7. ASSUME NEW u \in Int, NEW x \in Int
      PROVE  u \div w = x <=> w * x <= u /\ u < w * x + w
  <2> DEFINE q == u \div w
  <2>1. u = w * q + (u % w) /\ q \in Int /\ u % w \in 0 .. w - 1
    BY <1>4, FloorRemainder
  <2>2. w * x <= u /\ u < w * x + w => q = x
    BY <1>4, QuotientIs
  <2>3. w * q \in Int
    BY <1>4, <2>1
  <2> HIDE DEF w, q
  <2>4. q = x => w * x <= u /\ u < w * x + w
    BY <1>4, <2>1, <2>3
  <2> QED
    BY <2>2, <2>4 DEF q
<1> HIDE DEF w, L
<1>8. ASSUME NEW u \in Int, NEW j \in DOMAIN arrays
      PROVE  L(u) = j <=> arrays[j] <= u /\ u < arrays[j] + w
  <2> DEFINE x == IF a_to_b THEN (m + 1) - j ELSE (m + j) - 1
             q == u \div w
  <2>1. x \in Int /\ arrays[j] = w * x /\ j \in Int
    BY <1>1, <1>2
  <2>2. q = x <=> w * x <= u /\ u < w * x + w
    BY <1>7, <2>1
  <2>3. q \in Int /\ L(u) = IF a_to_b THEN (m + 1) - q ELSE (1 + q) - m
    BY <1>6
  <2> HIDE DEF q
  <2>4. L(u) = j <=> q = x
    BY <2>1, <2>3
  <2> QED
    BY <2>1, <2>2, <2>4
<1>9. ASSUME NEW u \in Int, NEW v \in Int, u <= v PROVE u \div w <= v \div w
  <2> DEFINE q == u \div w
             p == v \div w
  <2>1. w * q <= u /\ v < w * p + w /\ q \in Int /\ p \in Int
    BY <1>6, <1>7
  <2> HIDE DEF q, p
  <2>2. ~(p + 1 <= q)
    <3>1. p + 1 <= q => w * (p + 1) <= w * q
      BY <1>4, <2>1, Cancel
    <3>2. w * (p + 1) = w * p + w /\ w * p \in Int /\ w * q \in Int
      BY <1>4, <2>1
    <3> QED
      BY <1>4, <1>9, <2>1, <3>1, <3>2
  <2> QED
    BY <2>1, <2>2 DEF q, p
<1>10. ASSUME NEW u \in Int, NEW v \in Int, u <= v
       PROVE  IF a_to_b THEN L(v) <= L(u) ELSE L(u) <= L(v)
  <2> DEFINE q == u \div w
             p == v \div w
  <2>1. /\ q \in Int /\ p \in Int /\ q <= p
        /\ L(u) = IF a_to_b THEN (m + 1) - q ELSE (1 + q) - m
        /\ L(v) = IF a_to_b THEN (m + 1) - p ELSE (1 + p) - m
    BY <1>6, <1>9, <1>10
  <2> HIDE DEF q, p
  <2> QED
    BY <2>1
<1>11. ASSUME NEW u \in Int
       PROVE  L(u + w) = L(u) + IF a_to_b THEN -1 ELSE 1
  <2> DEFINE q == u \div w
             p == (u + w) \div w
  <2>1. q \in Int /\ w * q <= u /\ u < w * q + w
    BY <1>6, <1>7
  <2>2. u + w \in Int
    BY <1>4
  <2> HIDE DEF q
  <2>3. p = q + 1
    <3>1. w * (q + 1) = w * q + w /\ w * q \in Int /\ q + 1 \in Int
      BY <1>4, <2>1
    <3>2. w * (q + 1) <= u + w /\ u + w < w * (q + 1) + w
      BY <1>4, <2>1, <3>1
    <3> QED
      BY <1>7, <2>2, <3>1, <3>2
  <2>4. L(u + w) = IF a_to_b THEN (m + 1) - p ELSE (1 + p) - m
    BY <1>6, <2>2
  <2>5. L(u) = IF a_to_b THEN (m + 1) - q ELSE (1 + q) - m
    BY <1>6 DEF q
  <2> HIDE DEF p
  <2> QED
    BY <2>1, <2>3, <2>4, <2>5
<1>12. \A u \in Int : L(u) \in Int
  <2> SUFFICES ASSUME NEW u \in Int PROVE L(u) \in Int
    OBVIOUS
  <2> DEFINE q == u \div w
  <2>1. q \in Int /\ L(u) = IF a_to_b THEN (m + 1) - q ELSE (1 + q) - m
    BY <1>6
  <2> HIDE DEF q
  <2> QED
    BY <2>1
<1>13. InTheirArrays(arrays, a_to_b)
  BY <1>8 DEF w, L, InTheirArrays
<1> QED
  BY <1>2, <1>3, <1>10, <1>11, <1>12, <1>13 DEF w, L

LEMMA PlaceIn ==
  ASSUME NEW arrays, NEW a_to_b \in BOOLEAN, Neighbours(arrays, a_to_b)
  PROVE  \A u \in Int : \A j \in DOMAIN arrays :
            LocalArrayIndex(arrays, u, a_to_b) = j
               <=> arrays[j] <= u /\ u < arrays[j] + ticks_in_array
<1>1. InTheirArrays(arrays, a_to_b)
  BY Place, Zenon
<1> QED
  BY <1>1, Zenon DEF InTheirArrays

\* From where the array is chosen in which a search begins.
From(t, a_to_b) == IF a_to_b THEN t ELSE t + tick_spacing

\* What a search from t can find.
Ahead(u, t, a_to_b) == IF a_to_b THEN u <= t ELSE t < u

\* Slots are in the order of their ticks.
LEMMA SlotOrder ==
  ASSUME NEW u \in UsableTicks, NEW t \in Int
  PROVE  /\ u \in Int /\ u \div tick_spacing \in Int /\ t \div tick_spacing \in Int
         /\ u = tick_spacing * (u \div tick_spacing)
         /\ u \div tick_spacing <= t \div tick_spacing <=> u <= t
         /\ u <= tick_spacing * (t \div tick_spacing) <=> u <= t
<1> DEFINE S == tick_spacing
           b == u \div S
           q == t \div S
           r == t % S
<1>1. S \in Nat \ {0} /\ u \in Int /\ u % S = 0
  BY TickTypes DEF UsableTicks, check_is_usable_tick, TickIndex
<1> HIDE DEF S
<1>2. u = S * b /\ b \in Int
  <2>1. u = S * b + (u % S) /\ b \in Int
    BY <1>1, FloorRemainder
  <2>2. S * b \in Int
    BY <1>1, <2>1
  <2> HIDE DEF b
  <2> QED
    BY <1>1, <2>1, <2>2
<1>3. t = S * q + r /\ q \in Int /\ r \in 0 .. S - 1
  BY <1>1, FloorRemainder
<1> HIDE DEF b, q, r
<1>4. S * q \in Int /\ S * b \in Int /\ S * (q + 1) = S * q + S
  BY <1>1, <1>2, <1>3
<1>5. b <= q <=> S * b <= S * q
  BY <1>1, <1>2, <1>3, Cancel
<1>6. q + 1 <= b <=> S * (q + 1) <= S * b
  BY <1>1, <1>2, <1>3, Cancel
<1>7. b <= q <=> u <= t
  BY <1>1, <1>2, <1>3, <1>4, <1>5, <1>6
<1>8. u <= S * q <=> u <= t
  BY <1>2, <1>5, <1>7
<1> QED
  BY <1>1, <1>2, <1>3, <1>7, <1>8 DEF S, b, q

\* The offsets that the program compares are those of whole slots.
LEMMA OffsetAhead ==
  ASSUME NEW x \in Int, NEW u \in UsableTicks, NEW t \in Int
  PROVE  LET s == ticks_in_array * x
         IN  /\ tick_offset(s, u) <= tick_offset(s, t) <=> u <= t
             /\ tick_offset(s, u) > tick_offset(s, t) <=> t < u
<1> DEFINE S == tick_spacing
           s == ticks_in_array * x
           y == TICK_ARRAY_SIZE * x
<1>1. S \in Nat \ {0} /\ TICK_ARRAY_SIZE \in Nat \ {0} /\ ticks_in_array = TICK_ARRAY_SIZE * S
  BY TickTypes DEF ticks_in_array
<1>2. s = S * y /\ y \in Int /\ s \in Int
  BY <1>1
<1> HIDE DEF s, y, S
<1>3. ASSUME NEW v \in Int PROVE tick_offset(s, v) = (v \div S) - y /\ v \div S \in Int
  <2> DEFINE q == v \div S
             r == v % S
  <2>1. v = S * q + r /\ q \in Int /\ r \in 0 .. S - 1
    BY <1>1, FloorRemainder
  <2> HIDE DEF q, r
  <2>2. S * (q - y) = S * q - s /\ S * q \in Int
    BY <1>1, <1>2, <2>1
  <2>3. S * (q - y) <= v - s /\ v - s < S * (q - y) + S /\ q - y \in Int /\ v - s \in Int
    BY <1>1, <1>2, <2>1, <2>2
  <2>4. (v - s) \div S = q - y
    BY <1>1, <2>3, QuotientIs
  <2> QED
    BY <2>1, <2>4 DEF tick_offset, q, S
<1>4. u \in Int /\ (u \div S <= t \div S <=> u <= t)
  BY SlotOrder DEF S
<1> DEFINE b == u \div S
           q == t \div S
<1>5. tick_offset(s, u) = b - y /\ b \in Int /\ tick_offset(s, t) = q - y /\ q \in Int
  BY <1>3, <1>4
<1> HIDE DEF b, q
<1>6. b <= q <=> u <= t
  BY <1>4 DEF b, q
<1> QED
  BY <1>2, <1>4, <1>5, <1>6 DEF s

\* The slot from which the quote searches, and the tick from which the program does.
LEMMA SlotAhead ==
  ASSUME NEW t \in Int, NEW a_to_b \in BOOLEAN, NEW u \in UsableTicks
  PROVE  (IF a_to_b THEN u <= SearchSlot(t, a_to_b) ELSE u >= SearchSlot(t, a_to_b))
            <=> Ahead(u, t, a_to_b)
<1> DEFINE S == tick_spacing
           f == From(t, a_to_b)
           b == u \div S
           q == t \div S
<1>1. S \in Nat \ {0} /\ f \in Int
  BY TickTypes DEF From
<1>2. SearchSlot(t, a_to_b) = S * (f \div S)
  BY <1>1, PlaceInArray DEF SearchSlot, From
<1>3. /\ u \in Int /\ b \in Int /\ q \in Int /\ u = S * b
      /\ b <= q <=> u <= t
      /\ u <= S * q <=> u <= t
  BY SlotOrder
<1>4. CASE a_to_b
  BY <1>2, <1>3, <1>4 DEF Ahead, From
<1>5. CASE ~a_to_b
  <2>1. (t + S) \div S = q + 1
    <3>1. S * q <= t /\ t < S * q + S /\ S * q \in Int
      <4>1. t = S * q + (t % S) /\ t % S \in 0 .. S - 1
        BY <1>1, FloorRemainder
      <4>2. S * q \in Int
        BY <1>1, <1>3
      <4> HIDE DEF S, q
      <4> QED
        BY <1>1, <4>1, <4>2
    <3> HIDE DEF S, q
    <3>2. S * (q + 1) = S * q + S /\ q + 1 \in Int /\ t + S \in Int
      BY <1>1, <1>3
    <3>3. S * (q + 1) <= t + S /\ t + S < S * (q + 1) + S
      BY <1>1, <3>1, <3>2
    <3> QED
      BY <1>1, <3>2, <3>3, QuotientIs
  <2>2. SearchSlot(t, a_to_b) = S * (q + 1)
    BY <1>2, <1>5, <2>1 DEF From
  <2> HIDE DEF S, q, b
  <2>3. S * (q + 1) <= u <=> q + 1 <= b
    BY <1>1, <1>3, Cancel
  <2> QED
    BY <1>1, <1>3, <1>5, <2>2, <2>3 DEF Ahead
<1> QED
  BY <1>4, <1>5

\* A search begins in the array of the tick it begins from.
LEMMA SlotPlace ==
  ASSUME NEW arrays, NEW t \in Int, NEW a_to_b \in BOOLEAN
  PROVE  /\ SearchSlot(t, a_to_b) \in Int /\ From(t, a_to_b) \in Int
         /\ LocalArrayIndex(arrays, SearchSlot(t, a_to_b), a_to_b)
              = LocalArrayIndex(arrays, From(t, a_to_b), a_to_b)
<1> DEFINE S == tick_spacing
           w == ticks_in_array
           f == From(t, a_to_b)
           slot == SearchSlot(t, a_to_b)
<1>1. S \in Nat \ {0} /\ w \in Nat \ {0} /\ f \in Int /\ TICK_ARRAY_SIZE \in Nat \ {0}
      /\ w = TICK_ARRAY_SIZE * S
  BY TickTypes DEF From, ticks_in_array
<1>2. slot = S * (f \div S)
  BY <1>1, PlaceInArray DEF SearchSlot, From
<1>3. PICK p \in Int, s \in 0 .. TICK_ARRAY_SIZE - 1, r \in 0 .. S - 1 :
         /\ f = w * p + S * s + r
         /\ f \div S = TICK_ARRAY_SIZE * p + s
         /\ f \div w = p
         /\ f % w = S * s + r
  <2>1. f \in Int
    BY <1>1
  <2> HIDE DEF f, S, w
  <2>2. PICK p \in Int, s \in 0 .. TICK_ARRAY_SIZE - 1, r \in 0 .. tick_spacing - 1 :
           /\ f = ticks_in_array * p + tick_spacing * s + r
           /\ f \div tick_spacing = TICK_ARRAY_SIZE * p + s
           /\ p = (f \div tick_spacing) \div TICK_ARRAY_SIZE
           /\ f \div ticks_in_array = p
           /\ f % ticks_in_array = tick_spacing * s + r
    BY <2>1, TickIs
  <2> QED
    BY <2>2, Zenon DEF S, w
<1> HIDE DEF f, slot, S, w
<1>4. slot = w * p + S * s /\ s \in Int /\ S * s \in Int /\ w * p \in Int
  <2>1. S * (TICK_ARRAY_SIZE * p + s) = (TICK_ARRAY_SIZE * S) * p + S * s
    BY <1>1
  <2> QED
    BY <1>1, <1>2, <1>3, <2>1
<1>5. 0 <= S * s /\ S * s < w
  <2>1. f % w \in 0 .. w - 1
    BY <1>1, FloorRemainder
  <2>2. 0 <= S * s
    BY <1>1
  <2>3. r \in Int /\ 0 <= r
    BY <1>1
  <2> QED
    BY <1>1, <1>3, <1>4, <2>1, <2>2, <2>3
<1>6. slot \div w = p
  <2>1. slot \in Int /\ w * p <= slot /\ slot < w * p + w
    BY <1>1, <1>4, <1>5
  <2> QED
    BY <1>1, <2>1, QuotientIs
<1>7. slot \in Int
  BY <1>4
<1>8. fromTickIndex(slot).arrayIndex = fromTickIndex(f).arrayIndex
  BY <1>1, <1>3, <1>6, <1>7, PlaceInArray DEF w
<1> QED
  BY <1>1, <1>7, <1>8 DEF LocalArrayIndex, slot, f

LEMMA NextArray ==
  ASSUME NEW arrays, NEW a_to_b \in BOOLEAN, Neighbours(arrays, a_to_b),
         NEW j \in DOMAIN arrays, j + 1 \in DOMAIN arrays
  PROVE  arrays[j + 1] = IF a_to_b THEN arrays[j] - ticks_in_array
                                   ELSE arrays[j] + ticks_in_array
<1> DEFINE w == ticks_in_array
<1>1. w \in Nat \ {0} /\ DOMAIN arrays = 1 .. Len(arrays)
  BY TickTypes DEF Neighbours
<1>2. PICK m \in Int : \A i \in DOMAIN arrays :
         arrays[i] = w * (IF a_to_b THEN (m + 1) - i ELSE (m + i) - 1)
  BY DEF Neighbours
<1>3. j \in Int
  BY <1>1 DEF Neighbours
<1> HIDE DEF w
<1>4. CASE a_to_b
  <2>1. arrays[j] = w * ((m + 1) - j) /\ arrays[j + 1] = w * ((m + 1) - (j + 1))
    BY <1>2, <1>4
  <2>2. w * ((m + 1) - (j + 1)) = w * ((m + 1) - j) - w
    BY <1>1, <1>3
  <2> QED
    BY <1>4, <2>1, <2>2 DEF w
<1>5. CASE ~a_to_b
  <2>1. arrays[j] = w * ((m + j) - 1) /\ arrays[j + 1] = w * ((m + (j + 1)) - 1)
    BY <1>2, <1>5
  <2>2. w * ((m + (j + 1)) - 1) = w * ((m + j) - 1) + w
    BY <1>1, <1>3
  <2> QED
    BY <1>5, <2>1, <2>2 DEF w
<1> QED
  BY <1>4, <1>5

\* The hits in one array, by place and direction.
LEMMA HitsAre ==
  ASSUME NEW arrays, NEW a_to_b \in BOOLEAN, Neighbours(arrays, a_to_b),
         NEW initialized \in SUBSET UsableTicks, NEW t \in Int, NEW j \in DOMAIN arrays,
         NEW u
  PROVE  u \in SearchHits(arrays[j], t, a_to_b, initialized) <=>
            /\ u \in initialized
            /\ LocalArrayIndex(arrays, u, a_to_b) = j
            /\ Ahead(u, t, a_to_b)
<1> SUFFICES ASSUME u \in initialized
             PROVE  /\ check_in_array_bounds(arrays[j], u)
                         <=> LocalArrayIndex(arrays, u, a_to_b) = j
                    /\ (IF a_to_b THEN tick_offset(arrays[j], u) <= tick_offset(arrays[j], t)
                                  ELSE tick_offset(arrays[j], u) > tick_offset(arrays[j], t))
                         <=> Ahead(u, t, a_to_b)
  BY Zenon DEF SearchHits
<1>1. u \in UsableTicks /\ u \in Int
  BY SlotOrder
<1>2. LocalArrayIndex(arrays, u, a_to_b) = j
        <=> arrays[j] <= u /\ u < arrays[j] + ticks_in_array
  BY <1>1, PlaceIn, Zenon
<1>3. arrays[j] \in Int /\ ticks_in_array \in Nat
  <2>1. arrays[j] \in Int
    BY Place, Zenon
  <2> QED
    BY <2>1, TickTypes
<1>4. check_in_array_bounds(arrays[j], u)
        <=> arrays[j] <= u /\ u < arrays[j] + ticks_in_array
  BY <1>1, <1>3 DEF check_in_array_bounds, in_search_range
<1>5. PICK x \in Int : arrays[j] = ticks_in_array * x
  <2>1. PICK m \in Int : \A i \in DOMAIN arrays :
           arrays[i] = ticks_in_array * (IF a_to_b THEN (m + 1) - i ELSE (m + i) - 1)
    BY DEF Neighbours
  <2>2. j \in Int
    BY Place
  <2>3. (m + 1) - j \in Int /\ (m + j) - 1 \in Int
    BY <2>2
  <2> QED
    BY <2>1, <2>3
<1>6. /\ tick_offset(arrays[j], u) <= tick_offset(arrays[j], t) <=> u <= t
      /\ tick_offset(arrays[j], u) > tick_offset(arrays[j], t) <=> t < u
  BY <1>1, <1>5, OffsetAhead
<1> QED
  BY <1>2, <1>4, <1>6 DEF Ahead

\* The slots that the quote can find.
LEMMA SlotsAre ==
  ASSUME NEW arrays, NEW a_to_b \in BOOLEAN,
         NEW initialized \in SUBSET UsableTicks, NEW t \in Int, NEW u
  PROVE  u \in SlotsWithTick(arrays, t, a_to_b, initialized) <=>
            /\ u \in initialized
            /\ LocalArrayIndex(arrays, u, a_to_b) \in DOMAIN arrays
            /\ Ahead(u, t, a_to_b)
<1>1. u \in initialized =>
        ((IF a_to_b THEN u <= SearchSlot(t, a_to_b) ELSE u >= SearchSlot(t, a_to_b))
            <=> Ahead(u, t, a_to_b))
  BY SlotAhead
<1> QED
  BY <1>1, Zenon DEF SlotsWithTick, isArrayIndexInBounds

\* What is ahead is in the array in which the search begins or in a later one,
\* and all of a later one is ahead.
LEMMA PlaceAhead ==
  ASSUME NEW arrays, NEW a_to_b \in BOOLEAN, Neighbours(arrays, a_to_b),
         NEW t \in Int, NEW u \in UsableTicks
  PROVE  LET i == LocalArrayIndex(arrays, From(t, a_to_b), a_to_b)
             k == LocalArrayIndex(arrays, u, a_to_b)
         IN  /\ i \in Int /\ k \in Int
             /\ Ahead(u, t, a_to_b) => i <= k
             /\ i < k => Ahead(u, t, a_to_b)
<1> DEFINE f == From(t, a_to_b)
           slot == SearchSlot(t, a_to_b)
           L(v) == LocalArrayIndex(arrays, v, a_to_b)
<1>1. f \in Int /\ slot \in Int /\ u \in Int /\ L(slot) = L(f)
  BY SlotPlace, SlotOrder
<1>2. L(f) \in Int /\ L(u) \in Int
  BY <1>1, Place
<1>3. ASSUME NEW v \in Int, NEW x \in Int, v <= x
      PROVE  IF a_to_b THEN L(x) <= L(v) ELSE L(v) <= L(x)
  BY <1>3, Place
<1>4. (IF a_to_b THEN u <= slot ELSE u >= slot) <=> Ahead(u, t, a_to_b)
  BY SlotAhead
<1>5. tick_spacing \in Nat
  BY TickTypes
<1> HIDE DEF L, slot
<1>6. Ahead(u, t, a_to_b) => L(f) <= L(u)
  BY <1>1, <1>2, <1>3, <1>4
<1>7. ASSUME ~Ahead(u, t, a_to_b) PROVE L(u) <= L(f)
  <2>1. CASE a_to_b
    <3>1. f = t /\ f <= u
      BY <1>1, <1>7, <2>1 DEF From, Ahead
    <3> QED
      BY <1>1, <1>3, <2>1, <3>1
  <2>2. CASE ~a_to_b
    <3>1. u <= f
      BY <1>1, <1>5, <1>7, <2>2 DEF From, Ahead
    <3> QED
      BY <1>1, <1>3, <2>2, <3>1
  <2> QED
    BY <2>1, <2>2
<1> QED
  BY <1>2, <1>6, <1>7 DEF L, f

\* The program's search goes from array to array without a gap, and only in the
\* last one of the sequence can it reach the end of the prices.
LEMMA SearchGoesOn ==
  ASSUME NEW arrays, NEW a_to_b \in BOOLEAN, Neighbours(arrays, a_to_b),
         NEW t \in Int, NEW j \in DOMAIN arrays,
         LocalArrayIndex(arrays, From(t, a_to_b), a_to_b) \in DOMAIN arrays,
         LocalArrayIndex(arrays, From(t, a_to_b), a_to_b) <= j
  PROVE  LET i == LocalArrayIndex(arrays, From(t, a_to_b), a_to_b)
             from == SearchIndex(arrays, i, t, a_to_b, j)
         IN  /\ from \in Int
             /\ in_search_range(arrays[j], from, ~a_to_b)
             /\ \A u \in UsableTicks : LocalArrayIndex(arrays, u, a_to_b) = j =>
                   (Ahead(u, from, a_to_b) <=> Ahead(u, t, a_to_b))
             /\ j + 1 \in DOMAIN arrays => ~AtEdge(arrays[j], a_to_b)
<1> DEFINE i == LocalArrayIndex(arrays, From(t, a_to_b), a_to_b)
           w == ticks_in_array
           from == SearchIndex(arrays, i, t, a_to_b, j)
<1>1. /\ DOMAIN arrays = 1 .. Len(arrays) /\ Len(arrays) \in Nat
      /\ \A k \in DOMAIN arrays : arrays[k] \in Int /\ arrays[k] \in StartTicks
      /\ j \in Int /\ i \in Int /\ i \in DOMAIN arrays /\ i <= j
  <2>1. /\ DOMAIN arrays = 1 .. Len(arrays) /\ Len(arrays) \in Nat \ {0}
        /\ \A k \in DOMAIN arrays : arrays[k] \in Int /\ arrays[k] \in StartTicks
    BY Place, Zenon
  <2>2. i \in DOMAIN arrays /\ i <= j
    OBVIOUS
  <2> HIDE DEF i
  <2> QED
    BY <2>1, <2>2
<1>2. /\ MIN_TICK_INDEX \in Int /\ MAX_TICK_INDEX \in Int
      /\ w \in Nat \ {0} /\ tick_spacing \in Nat \ {0} /\ tick_spacing <= w
  BY TickTypes
<1>3. From(t, a_to_b) \in Int
  BY SlotPlace
<1>10. \A u \in Int, k \in DOMAIN arrays :
         LocalArrayIndex(arrays, u, a_to_b) = k
            <=> arrays[k] <= u /\ u < arrays[k] + ticks_in_array
  BY PlaceIn, Zenon
<1>4. arrays[i] <= From(t, a_to_b) /\ From(t, a_to_b) < arrays[i] + w
  BY <1>1, <1>3, <1>10, Zenon
<1>5. ASSUME NEW u \in UsableTicks, LocalArrayIndex(arrays, u, a_to_b) = j
      PROVE  u \in Int /\ arrays[j] <= u /\ u < arrays[j] + w
  <2>1. u \in Int
    BY SlotOrder
  <2> QED
    BY <1>5, <1>10, <2>1, Zenon
<1>6. ASSUME j + 1 \in DOMAIN arrays PROVE ~AtEdge(arrays[j], a_to_b)
  <2>1. /\ arrays[j + 1] = IF a_to_b THEN arrays[j] - w ELSE arrays[j] + w
        /\ arrays[j + 1] \in StartTicks /\ arrays[j] \in StartTicks
    BY <1>1, <1>6, NextArray
  <2>2. /\ arrays[j + 1] <= MAX_TICK_INDEX
        /\ arrays[j] <= MIN_TICK_INDEX => arrays[j] - w \notin StartTicks
    BY <2>1, StartIs
  <2> QED
    BY <1>1, <1>2, <2>1, <2>2 DEF AtEdge, is_min_tick_array, is_max_tick_array
<1>7. CASE j = i
  <2>1. from = t
    BY <1>7 DEF SearchIndex
  <2>2. in_search_range(arrays[j], t, ~a_to_b)
    BY <1>1, <1>2, <1>4, <1>7 DEF in_search_range, From
  <2>3. \A u \in UsableTicks : LocalArrayIndex(arrays, u, a_to_b) = j =>
           (Ahead(u, from, a_to_b) <=> Ahead(u, t, a_to_b))
    BY <2>1, Zenon
  <2> QED
    BY <1>6, <2>1, <2>2, <2>3, Zenon
<1>8. CASE i < j
  <2>1. j - 1 \in DOMAIN arrays /\ (j - 1) + 1 = j /\ j # i
    BY <1>1, <1>8
  <2>2. arrays[j] = IF a_to_b THEN arrays[j - 1] - w ELSE arrays[j - 1] + w
    BY <2>1, NextArray
  <2>3. from = IF a_to_b THEN arrays[j - 1] - 1 ELSE (arrays[j - 1] + w) - 1
    <3> DEFINE x == arrays[j - 1]
    <3>1. from = IF a_to_b THEN x - 1 ELSE x + ticks_in_array - 1
      BY <2>1, Zenon DEF SearchIndex
    <3>2. x \in Int /\ w \in Int
      BY <1>1, <1>2, <2>1
    <3> HIDE DEF from, x
    <3>3. x + ticks_in_array - 1 = (x + w) - 1
      BY <3>2
    <3> QED
      BY <3>1, <3>3 DEF x
  <2>4. arrays[j - 1] \in Int /\ arrays[j] \in Int
    BY <1>1, <2>1
  <2> HIDE DEF from, w, i
  <2>5. from \in Int /\ from = IF a_to_b THEN (arrays[j] + w) - 1 ELSE arrays[j] - 1
    BY <1>2, <2>2, <2>3, <2>4
  <2>6. in_search_range(arrays[j], from, ~a_to_b)
    BY <1>2, <2>4, <2>5 DEF in_search_range, w
  <2>7. ASSUME NEW u \in UsableTicks, LocalArrayIndex(arrays, u, a_to_b) = j
        PROVE  Ahead(u, from, a_to_b) /\ Ahead(u, t, a_to_b)
    <3>1. Ahead(u, from, a_to_b)
      BY <1>2, <1>5, <2>4, <2>5, <2>7 DEF Ahead
    <3>2. Ahead(u, t, a_to_b)
      BY <1>8, <2>7, PlaceAhead DEF i
    <3> QED
      BY <3>1, <3>2
  <2>8. \A u \in UsableTicks : LocalArrayIndex(arrays, u, a_to_b) = j =>
           (Ahead(u, from, a_to_b) <=> Ahead(u, t, a_to_b))
    BY <2>7, Zenon
  <2> QED
    BY <1>6, <2>5, <2>6, <2>8, Zenon DEF from, i
<1> QED
  BY <1>1, <1>7, <1>8, <1>6 DEF from, i

\* Where the searches end that find nothing.
LEMMA SameEnd ==
  ASSUME NEW arrays, NEW a_to_b \in BOOLEAN, Neighbours(arrays, a_to_b)
  PROVE  FallbackTick(arrays[Len(arrays)], a_to_b) = lastIndexInArray(arrays, a_to_b)
<1> DEFINE s == arrays[Len(arrays)]
<1>1. s \in StartTicks
  BY Place
<1>2. /\ s \in Int /\ s # MIN_TICK_INDEX /\ s <= MAX_TICK_INDEX
      /\ MIN_TICK_INDEX < s + ticks_in_array
  BY <1>1, StartIs
<1> HIDE DEF s
<1>3. /\ MIN_TICK_INDEX \in Int /\ MAX_TICK_INDEX \in Int /\ ticks_in_array \in Nat \ {0}
      /\ MIN_TICK_INDEX < MAX_TICK_INDEX
  BY TickTypes, TickAssumption
<1> QED
  BY <1>2, <1>3
  DEF FallbackTick, lastIndexInArray, is_min_tick_array, is_max_tick_array, s

LEMMA LeastElement ==
  ASSUME NEW T \in SUBSET Nat, T # {}
  PROVE  \E x \in T : \A y \in T : x <= y
<1> DEFINE R == {ss \in Nat \X Nat : ss[1] < ss[2]}
<1>1. R = OpToRel(<, Nat)
  BY DEF OpToRel
<1>2. IsWellFoundedOn(R, Nat)
  BY <1>1, NatLessThanWellFounded, Zenon
<1>3. \A x, y \in Nat : <<y, x>> \in R <=> y < x
  OBVIOUS
<1> HIDE DEF R
<1>4. PICK x \in T : \A y \in T : ~ (<<y, x>> \in R)
  BY <1>2, WFMin
<1>5. ASSUME NEW y \in T PROVE x <= y
  <2>1. x \in Nat /\ y \in Nat
    OBVIOUS
  <2>2. ~ (y < x)
    BY <1>3, <1>4, <2>1, Zenon
  <2> QED
    BY <2>1, <2>2
<1> QED
  BY <1>5

\* Among ticks there is a nearest one in each direction, and only one.
LEMMA Nearest ==
  ASSUME NEW X \in SUBSET TickIndex, X # {}, NEW a_to_b \in BOOLEAN
  PROVE  \E u \in X : \A v \in X : IF a_to_b THEN v <= u ELSE u <= v
<1>1. MIN_TICK_INDEX \in Int /\ MAX_TICK_INDEX \in Int
  BY TickTypes
<1>2. \A u \in X : u \in Int /\ MIN_TICK_INDEX <= u /\ u <= MAX_TICK_INDEX
  BY <1>1 DEF TickIndex
<1>3. CASE a_to_b
  <2> DEFINE T == {n \in Nat : \E u \in X : n = MAX_TICK_INDEX - u}
  <2>1. T # {} /\ T \in SUBSET Nat
    <3>1. PICK u \in X : TRUE
      OBVIOUS
    <3>2. MAX_TICK_INDEX - u \in T
      BY <1>1, <1>2, <3>1
    <3> QED
      BY <3>2
  <2>2. PICK n \in T : \A m \in T : n <= m
    BY <2>1, LeastElement
  <2>3. PICK u \in X : n = MAX_TICK_INDEX - u
    BY <2>2
  <2>4. ASSUME NEW v \in X PROVE v <= u
    <3>1. MAX_TICK_INDEX - v \in T
      BY <1>1, <1>2
    <3>2. n <= MAX_TICK_INDEX - v
      BY <2>2, <3>1
    <3> QED
      BY <1>1, <1>2, <2>3, <3>2
  <2> QED
    BY <1>3, <2>4
<1>4. CASE ~a_to_b
  <2> DEFINE T == {n \in Nat : \E u \in X : n = u - MIN_TICK_INDEX}
  <2>1. T # {} /\ T \in SUBSET Nat
    <3>1. PICK u \in X : TRUE
      OBVIOUS
    <3>2. u - MIN_TICK_INDEX \in T
      BY <1>1, <1>2, <3>1
    <3> QED
      BY <3>2
  <2>2. PICK n \in T : \A m \in T : n <= m
    BY <2>1, LeastElement
  <2>3. PICK u \in X : n = u - MIN_TICK_INDEX
    BY <2>2
  <2>4. ASSUME NEW v \in X PROVE u <= v
    <3>1. v - MIN_TICK_INDEX \in T
      BY <1>1, <1>2
    <3>2. n <= v - MIN_TICK_INDEX
      BY <2>2, <3>1
    <3> QED
      BY <1>1, <1>2, <2>3, <3>2
  <2> QED
    BY <1>4, <2>4
<1> QED
  BY <1>3, <1>4

\* Nothing is found before array k, and next is what is found in it.
NothingBefore(arrays, t, a_to_b, initialized, k) ==
    \A u \in initialized : Ahead(u, t, a_to_b) =>
        ~(LocalArrayIndex(arrays, u, a_to_b) < k)

FoundIn(arrays, t, a_to_b, initialized, k, next) ==
    \/ /\ next \in initialized
       /\ Ahead(next, t, a_to_b)
       /\ LocalArrayIndex(arrays, next, a_to_b) = k
       /\ \A u \in initialized :
             Ahead(u, t, a_to_b) /\ LocalArrayIndex(arrays, u, a_to_b) = k =>
                IF a_to_b THEN u <= next ELSE next <= u
    \/ /\ k = Len(arrays)
       /\ \A u \in initialized :
             Ahead(u, t, a_to_b) => LocalArrayIndex(arrays, u, a_to_b) # k
       /\ next = lastIndexInArray(arrays, a_to_b)

\* The search of the program in a sequence cut short, of which k is an array.
LEMMA SearchOf ==
  ASSUME NEW arrays, NEW a_to_b \in BOOLEAN, Neighbours(arrays, a_to_b),
         NEW initialized \in SUBSET UsableTicks, NEW t \in Int,
         LocalArrayIndex(arrays, From(t, a_to_b), a_to_b) \in DOMAIN arrays,
         NEW n \in DOMAIN arrays, NEW k \in 1 .. n, NEW next,
         LocalArrayIndex(arrays, From(t, a_to_b), a_to_b) <= k,
         NothingBefore(arrays, t, a_to_b, initialized, k),
         FoundIn(arrays, t, a_to_b, initialized, k, next)
  PROVE  get_next_initialized_tick_index(SubSeq(arrays, 1, n),
            LocalArrayIndex(arrays, From(t, a_to_b), a_to_b), t, a_to_b,
            initialized, k, next)
<1> DEFINE i == LocalArrayIndex(arrays, From(t, a_to_b), a_to_b)
           short == SubSeq(arrays, 1, n)
           I(j) == SearchIndex(arrays, i, t, a_to_b, j)
<1>1. /\ DOMAIN arrays = 1 .. Len(arrays) /\ Len(arrays) \in Nat \ {0}
      /\ \A j \in DOMAIN arrays : arrays[j] \in Int /\ arrays[j] \in StartTicks
  BY Place, Zenon
<1>2. n \in 1 .. Len(arrays)
  BY <1>1
<1>3. /\ DOMAIN short = 1 .. n
      /\ \A j \in 1 .. n : short[j] = arrays[j]
  <2>1. arrays \in Seq(StartTicks)
    BY DEF Neighbours
  <2> QED
    BY <1>2, <2>1
<1>4. i \in 1 .. Len(arrays) /\ i <= k /\ k \in Int /\ i \in Int
  <2>1. i \in 1 .. Len(arrays) /\ i <= k
    BY <1>1, Zenon
  <2> HIDE DEF i
  <2>2. k \in 1 .. n
    OBVIOUS
  <2> QED
    BY <1>1, <1>2, <2>1, <2>2
<1>5. ASSUME NEW j \in i .. k
      PROVE  /\ j \in DOMAIN arrays /\ j \in 1 .. n /\ i <= j
             /\ short[j] = arrays[j] /\ SearchIndex(short, i, t, a_to_b, j) = I(j)
  <2>1. j \in DOMAIN arrays /\ j \in 1 .. n /\ i <= j
    <3> HIDE DEF i
    <3>1. k \in 1 .. n /\ j \in i .. k
      OBVIOUS
    <3>2. j \in 1 .. n /\ j \in 1 .. Len(arrays) /\ i <= j
      BY <1>1, <1>2, <1>4, <3>1
    <3> QED
      BY <1>1, <3>2
  <2>2. j # i => j - 1 \in 1 .. n
    BY <1>2, <1>4, <2>1
  <2>3. j # i => short[j - 1] = arrays[j - 1]
    BY <1>3, <2>2
  <2>4. SearchIndex(short, i, t, a_to_b, j) = I(j)
    BY <2>3, Zenon DEF SearchIndex
  <2> QED
    BY <1>3, <2>1, <2>4
<1> HIDE DEF i, short
<1>6. ASSUME NEW j \in i .. k
      PROVE  /\ I(j) \in Int
             /\ in_search_range(arrays[j], I(j), ~a_to_b)
             /\ \A u \in UsableTicks : LocalArrayIndex(arrays, u, a_to_b) = j =>
                   (Ahead(u, I(j), a_to_b) <=> Ahead(u, t, a_to_b))
             /\ j + 1 \in DOMAIN arrays => ~AtEdge(arrays[j], a_to_b)
  BY <1>5, SearchGoesOn, Zenon DEF i
<1>7. ASSUME NEW j \in i .. k, NEW u
      PROVE  u \in SearchHits(arrays[j], I(j), a_to_b, initialized) <=>
                /\ u \in initialized
                /\ LocalArrayIndex(arrays, u, a_to_b) = j
                /\ Ahead(u, t, a_to_b)
  <2>1. u \in SearchHits(arrays[j], I(j), a_to_b, initialized) <=>
           /\ u \in initialized
           /\ LocalArrayIndex(arrays, u, a_to_b) = j
           /\ Ahead(u, I(j), a_to_b)
    BY <1>5, <1>6, HitsAre
  <2> QED
    BY <1>6, <2>1, Zenon
<1> HIDE DEF I
<1>8. ASSUME NEW j \in i .. k
      PROVE  in_search_range(short[j], SearchIndex(short, i, t, a_to_b, j), ~a_to_b)
  BY <1>5, <1>6, Zenon
<1>9. ASSUME NEW j \in i .. k - 1
      PROVE  /\ SearchHits(short[j], SearchIndex(short, i, t, a_to_b, j),
                           a_to_b, initialized) = {}
             /\ ~AtEdge(short[j], a_to_b)
  <2>1. j \in i .. k /\ j < k
    BY <1>4
  <2>2. j + 1 \in DOMAIN arrays
    <3>1. j \in Int /\ i <= j
      BY <1>4
    <3>2. k \in 1 .. n /\ j + 1 <= k
      BY <1>4, <2>1, <3>1
    <3>3. j + 1 \in 1 .. Len(arrays)
      BY <1>1, <1>2, <1>4, <3>1, <3>2
    <3> QED
      BY <1>1, <3>3
  <2>3. \A u : u \notin SearchHits(arrays[j], I(j), a_to_b, initialized)
    <3> SUFFICES ASSUME NEW u, u \in SearchHits(arrays[j], I(j), a_to_b, initialized)
                 PROVE  FALSE
      OBVIOUS
    <3>1. /\ u \in initialized /\ Ahead(u, t, a_to_b)
          /\ LocalArrayIndex(arrays, u, a_to_b) = j
      BY <1>7, <2>1, Zenon
    <3>2. ~(LocalArrayIndex(arrays, u, a_to_b) < k)
      BY <3>1, Zenon DEF NothingBefore
    <3> QED
      BY <2>1, <3>1, <3>2, Zenon
  <2> QED
    BY <1>5, <1>6, <2>1, <2>2, <2>3, Zenon
<1>10. k \in i .. k /\ k \in DOMAIN short /\ k >= i
  BY <1>3, <1>4
<1>11. \/ NextInitTick(short[k], SearchIndex(short, i, t, a_to_b, k), a_to_b,
                       initialized, next)
       \/ /\ SearchHits(short[k], SearchIndex(short, i, t, a_to_b, k),
                        a_to_b, initialized) = {}
          /\ AtEdge(short[k], a_to_b) \/ k + 1 \notin DOMAIN short
          /\ next = FallbackTick(short[k], a_to_b)
  <2>1. CASE /\ next \in initialized
             /\ Ahead(next, t, a_to_b)
             /\ LocalArrayIndex(arrays, next, a_to_b) = k
             /\ \A u \in initialized :
                   Ahead(u, t, a_to_b) /\ LocalArrayIndex(arrays, u, a_to_b) = k =>
                      IF a_to_b THEN u <= next ELSE next <= u
    <3>1. /\ next \in SearchHits(arrays[k], I(k), a_to_b, initialized)
          /\ \A u \in SearchHits(arrays[k], I(k), a_to_b, initialized) :
                IF a_to_b THEN u <= next ELSE next <= u
      BY <1>7, <1>10, <2>1, Zenon
    <3>2. NextInitTick(arrays[k], I(k), a_to_b, initialized, next)
      BY <3>1, Zenon DEF NextInitTick
    <3> QED
      BY <1>5, <1>10, <3>2, Zenon
  <2>2. CASE /\ k = Len(arrays)
             /\ \A u \in initialized :
                   Ahead(u, t, a_to_b) => LocalArrayIndex(arrays, u, a_to_b) # k
             /\ next = lastIndexInArray(arrays, a_to_b)
    <3>1. \A u : u \notin SearchHits(arrays[k], I(k), a_to_b, initialized)
      BY <1>7, <1>10, <2>2, Zenon
    <3>2. k + 1 \notin DOMAIN short
      BY <1>1, <1>2, <1>3, <2>2
    <3>3. next = FallbackTick(arrays[k], a_to_b)
      BY <2>2, SameEnd
    <3> QED
      BY <1>5, <1>10, <3>1, <3>2, <3>3, Zenon
  <2> QED
    BY <2>1, <2>2, Zenon DEF FoundIn
<1> QED
  BY <1>8, <1>9, <1>10, <1>11, Zenon DEF get_next_initialized_tick_index, i, short

\* The arrays that the quote has touched suffice for the program's search.
LEMMA QuotedSearch ==
  ASSUME NEW arrays, NEW a_to_b \in BOOLEAN, Neighbours(arrays, a_to_b),
         NEW initialized \in SUBSET UsableTicks, NEW t \in Int,
         SearchInBounds(arrays, t, a_to_b),
         NEW n \in TouchedArrays(arrays, t, a_to_b, initialized) .. Len(arrays)
  PROVE  \E k \in 1 .. n :
            get_next_initialized_tick_index(SubSeq(arrays, 1, n),
               LocalArrayIndex(arrays, From(t, a_to_b), a_to_b), t, a_to_b, initialized,
               k, findNextInitializedTickIndex(arrays, t, a_to_b, initialized))
<1> DEFINE i == LocalArrayIndex(arrays, From(t, a_to_b), a_to_b)
           L(u) == LocalArrayIndex(arrays, u, a_to_b)
           X == SlotsWithTick(arrays, t, a_to_b, initialized)
           next == findNextInitializedTickIndex(arrays, t, a_to_b, initialized)
<1>1. DOMAIN arrays = 1 .. Len(arrays) /\ Len(arrays) \in Nat \ {0}
  BY Place, Zenon
<1>2. i \in DOMAIN arrays
  BY SlotPlace DEF SearchInBounds, isArrayIndexInBounds
<1>3. \A u : u \in X <=> /\ u \in initialized
                         /\ L(u) \in DOMAIN arrays
                         /\ Ahead(u, t, a_to_b)
  <2> SUFFICES ASSUME NEW u
               PROVE  u \in X <=> /\ u \in initialized
                                  /\ L(u) \in DOMAIN arrays
                                  /\ Ahead(u, t, a_to_b)
    OBVIOUS
  <2> QED
    BY SlotsAre
<1>4. \A u \in initialized : /\ L(u) \in Int /\ i \in Int
                             /\ Ahead(u, t, a_to_b) => i <= L(u)
  BY PlaceAhead
<1>5. CASE X = {}
  <2> DEFINE k == Len(arrays)
  <2>1. TouchedArrays(arrays, t, a_to_b, initialized) = Len(arrays)
        /\ next = lastIndexInArray(arrays, a_to_b)
    BY <1>5, Zenon DEF TouchedArrays, findNextInitializedTickIndex
  <2>2. n = k /\ k \in 1 .. n /\ n \in DOMAIN arrays
    BY <1>1, <2>1
  <2>3. i <= k
    BY <1>1, <1>2
  <2>4. \A u \in initialized : Ahead(u, t, a_to_b) => L(u) \notin 1 .. k
    BY <1>1, <1>3, <1>5, Zenon
  <2>5. \A u \in initialized : Ahead(u, t, a_to_b) => ~(L(u) < k) /\ L(u) # k
    <3> SUFFICES ASSUME NEW u \in initialized, Ahead(u, t, a_to_b)
                 PROVE  ~(L(u) < k) /\ L(u) # k
      OBVIOUS
    <3>1. L(u) \in Int /\ i \in Int /\ i <= L(u) /\ L(u) \notin 1 .. k
      BY <1>4, <2>4
    <3>2. 1 <= i
      BY <1>1, <1>2
    <3> HIDE DEF L, i
    <3> QED
      BY <1>1, <3>1, <3>2
  <2> HIDE DEF next
  <2>6. NothingBefore(arrays, t, a_to_b, initialized, k)
    BY <2>5, Zenon DEF NothingBefore
  <2>7. FoundIn(arrays, t, a_to_b, initialized, k, next)
    BY <2>1, <2>5, Zenon DEF FoundIn
  <2>8. get_next_initialized_tick_index(SubSeq(arrays, 1, n), i, t, a_to_b,
           initialized, k, next)
    BY <1>2, <2>1, <2>2, <2>3, <2>6, <2>7, SearchOf, Zenon
  <2> QED
    BY <2>2, <2>8, Zenon DEF next
<1>6. CASE X # {}
  <2> DEFINE k == L(next)
  <2>1. X \in SUBSET TickIndex /\ initialized \subseteq TickIndex
    BY <1>3, Zenon DEF UsableTicks
  <2>2. \E u \in X : \A v \in X : IF a_to_b THEN v <= u ELSE u <= v
    BY <1>6, <2>1, Nearest
  <2>3. next \in X /\ \A v \in X : IF a_to_b THEN v <= next ELSE next <= v
    BY <1>6, <2>2, Zenon DEF findNextInitializedTickIndex
  <2>4. TouchedArrays(arrays, t, a_to_b, initialized) = k
    BY <1>6, Zenon DEF TouchedArrays
  <2>5. /\ next \in initialized /\ k \in 1 .. Len(arrays) /\ Ahead(next, t, a_to_b)
        /\ i <= k /\ i \in Int /\ k \in Int
    BY <1>1, <1>3, <1>4, <2>3, Zenon
  <2>6. n \in DOMAIN arrays /\ k \in 1 .. n
    BY <1>1, <2>4, <2>5
  <2>7. ASSUME NEW u \in initialized, Ahead(u, t, a_to_b)
        PROVE  ~(L(u) < k)
    <3>1. L(u) \in Int /\ i <= L(u)
      BY <1>4, <2>7
    <3>2. L(u) \in 1 .. Len(arrays) => IF a_to_b THEN u <= next ELSE next <= u
      BY <1>1, <1>3, <2>3, <2>7, Zenon
    <3>3. u \in Int /\ next \in Int
      <4>1. \A v \in TickIndex : v \in Int
        BY TickTypes DEF TickIndex
      <4> QED
        BY <2>1, <2>5, <4>1, Zenon
    <3>4. (IF a_to_b THEN u <= next ELSE next <= u) => k <= L(u)
      <4>1. \A v, x \in Int : v <= x =>
               IF a_to_b
               THEN LocalArrayIndex(arrays, x, a_to_b) <= LocalArrayIndex(arrays, v, a_to_b)
               ELSE LocalArrayIndex(arrays, v, a_to_b) <= LocalArrayIndex(arrays, x, a_to_b)
        BY Place
      <4> QED
        BY <3>3, <4>1, Zenon
    <3>5. 1 <= i
      BY <1>1, <1>2
    <3> HIDE DEF L, i, next
    <3>6. L(u) < k => L(u) \in 1 .. Len(arrays)
      BY <1>1, <2>5, <3>1, <3>5 DEF L
    <3> QED
      BY <2>5, <3>1, <3>2, <3>4, <3>6
  <2>8. \A u \in initialized : Ahead(u, t, a_to_b) /\ L(u) = k =>
           IF a_to_b THEN u <= next ELSE next <= u
    BY <1>1, <1>3, <2>3, <2>5, Zenon
  <2> HIDE DEF next
  <2>9. NothingBefore(arrays, t, a_to_b, initialized, k)
    BY <2>7, Zenon DEF NothingBefore
  <2>10. FoundIn(arrays, t, a_to_b, initialized, k, next)
    BY <2>5, <2>8, Zenon DEF FoundIn
  <2>11. get_next_initialized_tick_index(SubSeq(arrays, 1, n), i, t, a_to_b,
           initialized, k, next)
    BY <1>2, <2>5, <2>6, <2>9, <2>10, SearchOf, Zenon
  <2> QED
    BY <2>6, <2>11, Zenon DEF next
<1> QED
  BY <1>5, <1>6

\* Of the numbers up to N, those before the first that is missing.
LEMMA LongestPrefix ==
  ASSUME NEW N \in Nat, NEW G
  PROVE  \E n \in 0 .. N : /\ \A i \in 1 .. n : i \in G
                           /\ n < N => n + 1 \notin G
<1> DEFINE T == {m \in 0 .. N : m = N \/ m + 1 \notin G}
<1>1. T \in SUBSET Nat /\ N \in T
  OBVIOUS
<1>2. PICK n \in T : \A m \in T : n <= m
  BY <1>1, LeastElement
<1>3. ASSUME NEW i \in 1 .. n PROVE i \in G
  <2>1. i - 1 \in 0 .. N /\ i - 1 < n /\ (i - 1) + 1 = i
    BY <1>2
  <2>2. i - 1 \notin T
    BY <1>2, <2>1
  <2> QED
    BY <2>1, <2>2
<1> QED
  BY <1>2, <1>3

\* The arrays of a quote are neighbours, in the direction of the swap.
LEMMA QuoteHasNeighbours ==
  ASSUME NEW t \in Int, NEW a_to_b \in BOOLEAN, NEW existing \in SUBSET StartTicks,
         TickArraySequence(getTickArrayPublicKeys(t, a_to_b), existing) # <<>>
  PROVE  Neighbours(TickArraySequence(getTickArrayPublicKeys(t, a_to_b), existing), a_to_b)
<1> DEFINE w == ticks_in_array
           M == MAX_SWAP_TICK_ARRAYS
           from == IF a_to_b THEN t ELSE t + tick_spacing
           m == from \div w
           start == [i \in 1 .. M |->
                        getStartTickIndex(from, IF a_to_b THEN 1 - i ELSE i - 1)]
           keys == getTickArrayPublicKeys(t, a_to_b)
           arrays == TickArraySequence(keys, existing)
           P(n) == /\ \A i \in 1 .. n : IsStart(start[i])
                   /\ n < M => ~IsStart(start[n + 1])
           Q(n) == /\ \A i \in 1 .. n : keys[i] \in existing
                   /\ n < Len(keys) => keys[n + 1] \notin existing
           n0 == CHOOSE n \in 0 .. M : P(n)
           n1 == CHOOSE n \in 0 .. Len(keys) : Q(n)
<1>1. /\ w \in Nat \ {0} /\ M \in Nat /\ from \in Int /\ m \in Int
  <2>1. w \in Nat \ {0} /\ M \in Nat /\ from \in Int
    BY TickTypes, QuoteArraysAssumption
  <2> QED
    BY <2>1, FloorRemainder
<1>2. \A i \in 1 .. M :
         start[i] = w * (IF a_to_b THEN (m + 1) - i ELSE (m + i) - 1)
  <2> SUFFICES ASSUME NEW i \in 1 .. M
               PROVE  start[i] = w * (IF a_to_b THEN (m + 1) - i ELSE (m + i) - 1)
    OBVIOUS
  <2>1. start[i] = (m + (IF a_to_b THEN 1 - i ELSE i - 1)) * w
    BY DEF getStartTickIndex
  <2>2. i \in Int
    OBVIOUS
  <2> HIDE DEF w, m, start
  <2> QED
    BY <1>1, <2>1, <2>2
<1>3. start \in Seq(Int) /\ Len(start) = M
  <2>1. \A i \in 1 .. M : start[i] \in Int
    <3> HIDE DEF start, m, w
    <3> QED
      BY <1>1, <1>2
  <2>2. start = [i \in 1 .. M |-> start[i]]
    OBVIOUS
  <2>3. start \in [1 .. M -> Int]
    <3> HIDE DEF start
    <3> QED
      BY <2>1, <2>2, Zenon
  <2> HIDE DEF start
  <2> QED
    BY <1>1, <2>3
<1>4. n0 \in 0 .. M
  <2> DEFINE G == {i \in 1 .. M : IsStart(start[i])}
  <2>1. PICK n \in 0 .. M : /\ \A i \in 1 .. n : i \in G
                            /\ n < M => n + 1 \notin G
    BY <1>1, LongestPrefix
  <2>2. n < M => n + 1 \in 1 .. M
    BY <1>1, <2>1
  <2> HIDE DEF start
  <2>3. P(n)
    BY <2>1, <2>2, Zenon
  <2> HIDE DEF P
  <2> QED
    BY <2>1, <2>3, Zenon
<1>5. keys = SubSeq(start, 1, n0)
  BY Zenon DEF getTickArrayPublicKeys
<1> HIDE DEF start, keys, n0, w, m
<1>6. keys \in Seq(Int) /\ Len(keys) = n0 /\ \A i \in 1 .. n0 : keys[i] = start[i]
  BY <1>1, <1>3, <1>4, <1>5
<1>7. n1 \in 0 .. Len(keys) /\ \A i \in 1 .. n1 : keys[i] \in existing
  <2> DEFINE G == {i \in 1 .. Len(keys) : keys[i] \in existing}
             L == Len(keys)
  <2>1. L \in Nat
    BY <1>4, <1>6
  <2>2. PICK n \in 0 .. L : /\ \A i \in 1 .. n : i \in G
                            /\ n < L => n + 1 \notin G
    BY <2>1, LongestPrefix
  <2>3. n < L => n + 1 \in 1 .. L
    BY <2>1, <2>2
  <2>4. Q(n)
    BY <2>2, <2>3, Zenon
  <2>5. Q(n1) /\ n1 \in 0 .. L
    <3> HIDE DEF Q
    <3> QED
      BY <2>2, <2>4, Zenon
  <2> QED
    BY <2>5, Zenon
<1>8. arrays = SubSeq(keys, 1, n1)
  BY Zenon DEF TickArraySequence
<1> HIDE DEF arrays, n1
<1>9. /\ arrays \in Seq(Int) /\ Len(arrays) = n1
      /\ \A i \in 1 .. n1 : arrays[i] = keys[i]
  BY <1>6, <1>7, <1>8
<1>10. DOMAIN arrays = 1 .. n1 /\ \A i \in DOMAIN arrays : i \in 1 .. n0 /\ i \in 1 .. M
  BY <1>1, <1>4, <1>6, <1>7, <1>9
<1>11. \A i \in DOMAIN arrays :
         /\ arrays[i] \in StartTicks
         /\ arrays[i] = w * (IF a_to_b THEN (m + 1) - i ELSE (m + i) - 1)
  BY <1>2, <1>6, <1>7, <1>9, <1>10, Zenon
<1>12. arrays \in Seq(StartTicks)
  <2>1. \A i \in 1 .. n1 : arrays[i] \in StartTicks
    BY <1>10, <1>11
  <2> QED
    BY <1>9, <2>1
<1>13. arrays # <<>>
  BY DEF arrays, keys
<1> QED
  BY <1>1, <1>11, <1>12, <1>13, Zenon DEF Neighbours, arrays, keys, w

\* The tick that a search finds is in array k; going down, it is the array's
\* first tick if it is in its first slot.
LEMMA FoundIs ==
  ASSUME NEW arrays, NEW a_to_b \in BOOLEAN, Neighbours(arrays, a_to_b),
         NEW initialized \in SUBSET UsableTicks, NEW t, NEW i,
         NEW k \in DOMAIN arrays, NEW next \in TickIndex \ {MIN_TICK_INDEX, MAX_TICK_INDEX},
         get_next_initialized_tick_index(arrays, i, t, a_to_b, initialized, k, next)
  PROVE  /\ next \in Int /\ arrays[k] <= next /\ next < arrays[k] + ticks_in_array
         /\ a_to_b /\ tick_offset(arrays[k], next) = 0 => next = arrays[k]
<1> DEFINE s == arrays[k]
           w == ticks_in_array
           S == tick_spacing
           from == SearchIndex(arrays, i, t, a_to_b, k)
<1>1. /\ w \in Nat \ {0} /\ S \in Nat \ {0} /\ w = TICK_ARRAY_SIZE * S
      /\ TICK_ARRAY_SIZE \in Nat \ {0} /\ next \in Int /\ s \in Int
  <2>1. next \in Int
    BY TickTypes DEF TickIndex
  <2> QED
    BY <2>1, TickTypes, Place DEF ticks_in_array
<1>2. CASE NextInitTick(s, from, a_to_b, initialized, next)
  <2>1. next \in UsableTicks /\ check_in_array_bounds(s, next)
    BY <1>2, Zenon DEF NextInitTick, SearchHits
  <2>2. s <= next /\ next < s + w
    BY <1>1, <2>1 DEF check_in_array_bounds, in_search_range
  <2>3. ASSUME tick_offset(s, next) = 0 PROVE next = s
    <3> DEFINE b == next \div S
    <3>1. next = S * b /\ b \in Int
      BY <2>1, SlotOrder
    <3>2. PICK x \in Int : s = w * x
      <4>1. PICK m \in Int : \A j \in DOMAIN arrays :
               arrays[j] = w * (IF a_to_b THEN (m + 1) - j ELSE (m + j) - 1)
        BY DEF Neighbours
      <4>2. k \in Int
        BY Place
      <4>3. (m + 1) - k \in Int /\ (m + k) - 1 \in Int
        BY <4>2
      <4> QED
        BY <4>1, <4>3
    <3> DEFINE y == TICK_ARRAY_SIZE * x
               d == next - s
    <3>3. s = S * y /\ y \in Int
      BY <1>1, <3>2
    <3>4. d = S * (d \div S) + (d % S) /\ d % S \in 0 .. S - 1 /\ d \div S = 0
      <4>1. d \in Int
        BY <1>1
      <4>2. d \div S = 0
        BY <2>3 DEF tick_offset
      <4> HIDE DEF d
      <4> QED
        BY <1>1, <4>1, <4>2, FloorRemainder
    <3> HIDE DEF b, y, w, S, s
    <3>5. d \in Int /\ 0 <= d /\ d < S
      <4> DEFINE r == d % S
      <4>1. d = S * 0 + r /\ r \in 0 .. S - 1
        BY <3>4
      <4> HIDE DEF r, d
      <4> QED
        BY <1>1, <4>1
    <3>6. S * (b - y) = d /\ b - y \in Int /\ S * 1 = S /\ S * 0 = 0
      BY <1>1, <3>1, <3>3
    <3>7. 1 <= b - y <=> S * 1 <= S * (b - y)
      BY <1>1, <3>6, Cancel
    <3>8. 0 <= b - y <=> S * 0 <= S * (b - y)
      BY <1>1, <3>6, Cancel
    <3> QED
      BY <1>1, <3>1, <3>3, <3>5, <3>6, <3>7, <3>8
  <2> QED
    BY <1>1, <2>2, <2>3
<1>3. CASE next = FallbackTick(s, a_to_b)
  <2>1. next = IF a_to_b THEN s ELSE s + ticks_in_array - 1
    BY <1>3, Zenon DEF FallbackTick
  <2> HIDE DEF s, S
  <2> QED
    BY <1>1, <2>1 DEF s
<1> QED
  BY <1>2, <1>3, Zenon DEF get_next_initialized_tick_index

\* The program's index of the current array follows the swap.
LEMMA NextPlace ==
  ASSUME NEW arrays, NEW a_to_b \in BOOLEAN, Neighbours(arrays, a_to_b),
         NEW k \in DOMAIN arrays, NEW next \in Int,
         arrays[k] <= next, next < arrays[k] + ticks_in_array,
         a_to_b /\ tick_offset(arrays[k], next) = 0 => next = arrays[k]
  PROVE  LocalArrayIndex(arrays, From(IF a_to_b THEN next - 1 ELSE next, a_to_b), a_to_b)
            = NextArrayIndex(arrays, k, next, a_to_b)
<1> DEFINE s == arrays[k]
           w == ticks_in_array
           S == tick_spacing
           A == TICK_ARRAY_SIZE
           L(u) == LocalArrayIndex(arrays, u, a_to_b)
           d == next - s
           o == tick_offset(s, next)
           f == From(IF a_to_b THEN next - 1 ELSE next, a_to_b)
<1>1. /\ w \in Nat \ {0} /\ S \in Nat \ {0} /\ w = A * S /\ S <= w
      /\ A \in Nat \ {0} /\ s \in Int /\ k \in Int
  BY TickTypes, Place DEF ticks_in_array
<1>2. f = IF a_to_b THEN next - 1 ELSE next + S
  BY Zenon DEF From
<1>3. NextArrayIndex(arrays, k, next, a_to_b)
        = IF (a_to_b /\ o = 0) \/ (~a_to_b /\ o = A - 1) THEN k + 1 ELSE k
  BY Zenon DEF NextArrayIndex
<1>4. s <= next /\ next < s + w /\ (a_to_b /\ o = 0 => next = s)
  OBVIOUS
<1>5. \A u \in Int : L(u) = k <=> s <= u /\ u < s + w
  BY PlaceIn, Zenon
<1>6. \A u \in Int : L(u + w) = L(u) + IF a_to_b THEN -1 ELSE 1
  BY Place
<1>7. d = S * o + (d % S) /\ o \in Int /\ d % S \in 0 .. S - 1
  <2>1. d \in Int /\ o = d \div S
    BY <1>1 DEF tick_offset
  <2> HIDE DEF d, S, o
  <2> QED
    BY <1>1, <2>1, FloorRemainder
<1> DEFINE r == d % S
<1>8. d = S * o + r /\ r \in 0 .. S - 1
  BY <1>7
<1> HIDE DEF s, w, S, A, L, r, o, f
<1>9. CASE a_to_b
  <2>1. CASE o = 0
    <3>1. next - 1 \in Int /\ (next - 1) + w \in Int
      BY <1>1
    <3>2. L((next - 1) + w) = k
      BY <1>1, <1>4, <1>5, <1>9, <2>1, <3>1
    <3>3. L((next - 1) + w) = L(next - 1) - 1 /\ L(next - 1) \in Int
      <4>1. L(next - 1) \in Int
        BY <3>1, Place DEF L
      <4>2. L((next - 1) + w) = L(next - 1) + IF a_to_b THEN -1 ELSE 1
        BY <1>6, <3>1
      <4> QED
        BY <1>9, <4>1, <4>2
    <3>4. L(next - 1) = k + 1
      BY <1>1, <3>2, <3>3
    <3> QED
      BY <1>2, <1>3, <1>9, <2>1, <3>4 DEF L, f
  <2>2. CASE o # 0
    <3>1. s <= next - 1
      <4>1. d # 0
        <5>1. 0 \div S = 0
          BY <1>1
        <5> QED
          BY <2>2, <5>1 DEF o, S, s, tick_offset
      <4> QED
        BY <1>1, <1>4, <4>1
    <3>2. L(next - 1) = k
      BY <1>1, <1>4, <1>5, <3>1
    <3> QED
      BY <1>2, <1>3, <1>9, <2>2, <3>2 DEF L, f
  <2> QED
    BY <2>1, <2>2
<1>10. CASE ~a_to_b
  <2>1. /\ S * (A - 1) = w - S /\ S * A = w /\ S * o \in Int
        /\ S * (o + 1) = S * o + S
    BY <1>1, <1>7
  <2>2. CASE o = A - 1
    <3>1. w - S <= d
      BY <1>1, <1>7, <1>8, <2>1, <2>2
    <3>2. L((next + S) - w) = k /\ (next + S) - w \in Int
      BY <1>1, <1>4, <1>5, <3>1
    <3>3. L(((next + S) - w) + w) = L((next + S) - w) + 1
      BY <1>6, <1>10, <3>2
    <3>4. ((next + S) - w) + w = next + S
      BY <1>1
    <3>5. L(next + S) = k + 1
      BY <3>2, <3>3, <3>4
    <3> QED
      BY <1>2, <1>3, <1>10, <2>2, <3>5 DEF L, f
  <2>3. CASE o # A - 1
    <3>1. S * o < S * A /\ d < S * (o + 1)
      BY <1>1, <1>4, <1>7, <1>8, <2>1
    <3>2. A <= o <=> S * A <= S * o
      BY <1>1, <1>7, Cancel
    <3>3. o + 1 <= A - 1
      <4>1. o < A
        BY <1>1, <1>7, <2>1, <3>1, <3>2
      <4> QED
        BY <1>1, <1>7, <2>3, <4>1
    <3>4. S * (o + 1) <= S * (A - 1)
      BY <1>1, <1>7, <3>3, Cancel
    <3>5. d < w - S
      BY <1>1, <2>1, <3>1, <3>4
    <3>6. L(next + S) = k
      BY <1>1, <1>4, <1>5, <3>5
    <3> QED
      BY <1>2, <1>3, <1>10, <2>3, <3>6 DEF L, f
  <2> QED
    BY <2>2, <2>3
<1> QED
  BY <1>9, <1>10

LEMMA TouchedIs ==
  ASSUME NEW arrays, NEW a_to_b \in BOOLEAN, Neighbours(arrays, a_to_b),
         NEW initialized \in SUBSET UsableTicks, NEW t \in Int
  PROVE  TouchedArrays(arrays, t, a_to_b, initialized) \in 1 .. Len(arrays)
<1> DEFINE X == SlotsWithTick(arrays, t, a_to_b, initialized)
           next == findNextInitializedTickIndex(arrays, t, a_to_b, initialized)
<1>1. DOMAIN arrays = 1 .. Len(arrays) /\ Len(arrays) \in Nat \ {0}
  BY Place, Zenon
<1>2. \A u : u \in X => /\ u \in initialized
                        /\ LocalArrayIndex(arrays, u, a_to_b) \in DOMAIN arrays
  BY SlotsAre, Zenon
<1>3. CASE X = {}
  <2>1. TouchedArrays(arrays, t, a_to_b, initialized) = Len(arrays)
    BY <1>3, Zenon DEF TouchedArrays
  <2> QED
    BY <1>1, <2>1
<1>4. CASE X # {}
  <2>1. X \in SUBSET TickIndex
    BY <1>2, Zenon DEF UsableTicks
  <2>2. \E u \in X : \A v \in X : IF a_to_b THEN v <= u ELSE u <= v
    BY <1>4, <2>1, Nearest
  <2>3. next \in X
    BY <1>4, <2>2, Zenon DEF findNextInitializedTickIndex
  <2>4. TouchedArrays(arrays, t, a_to_b, initialized)
          = LocalArrayIndex(arrays, next, a_to_b)
    BY <1>4, Zenon DEF TouchedArrays
  <2> QED
    BY <1>1, <1>2, <2>3, <2>4, Zenon
<1> QED
  BY <1>3, <1>4

\* The quote's sequence and the program's place in it, all along a walk.
WalkInv ==
    /\ walk \in [arrays: Seq(StartTicks), initialized: SUBSET UsableTicks,
                 a_to_b: BOOLEAN, tick: Int, array_index: Nat \ {0}, touched: Nat]
    /\ Neighbours(walk.arrays, walk.a_to_b)
    /\ walk.array_index = LocalArrayIndex(walk.arrays, From(walk.tick, walk.a_to_b),
                                          walk.a_to_b)

LEMMA WalkStarts == WalkInit => WalkInv
<1> SUFFICES ASSUME WalkInit PROVE WalkInv
  OBVIOUS
<1>1. PICK accounts \in Accounts, t \in MIN_TICK_INDEX - 1 .. MAX_TICK_INDEX,
           a_to_b \in BOOLEAN :
         LET arrays == TickArraySequence(getTickArrayPublicKeys(t, a_to_b), accounts[1])
         IN  /\ arrays # <<>>
             /\ isValidTickArray0(arrays, t, a_to_b)
             /\ walk = [arrays |-> arrays, initialized |-> accounts[2],
                        a_to_b |-> a_to_b, tick |-> t, array_index |-> 1, touched |-> 0]
  BY Zenon DEF WalkInit
<1> DEFINE arrays == TickArraySequence(getTickArrayPublicKeys(t, a_to_b), accounts[1])
<1>2. t \in Int
  BY TickTypes
<1>3. accounts[1] \in SUBSET StartTicks /\ accounts[2] \in SUBSET UsableTicks
  <2>1. PICK existing \in SUBSET StartTicks :
           accounts \in {<<existing, ticks>> : ticks \in
               SUBSET {u \in UsableTicks :
                          \E s \in existing : check_in_array_bounds(s, u)}}
    BY DEF Accounts
  <2>2. PICK ticks \in SUBSET {u \in UsableTicks :
                          \E s \in existing : check_in_array_bounds(s, u)} :
           accounts = <<existing, ticks>>
    BY <2>1
  <2>3. ticks \in SUBSET UsableTicks
    BY <2>2
  <2> QED
    BY <2>2, <2>3
<1>4. Neighbours(arrays, a_to_b)
  BY <1>1, <1>2, <1>3, QuoteHasNeighbours
<1>5. arrays \in Seq(StartTicks) /\ 1 \in DOMAIN arrays
  <2>1. DOMAIN arrays = 1 .. Len(arrays) /\ Len(arrays) \in Nat \ {0}
    BY <1>4, Place, Zenon
  <2>2. 1 \in DOMAIN arrays
    <3> HIDE DEF arrays
    <3> QED
      BY <2>1
  <2> QED
    BY <1>4, <2>2, Zenon DEF Neighbours
<1> DEFINE f == From(t, a_to_b)
<1>6. LocalArrayIndex(arrays, f, a_to_b) = 1
  <2>1. f \in Int
    BY <1>2, SlotPlace
  <2>2. check_in_array_bounds(arrays[1], f)
    BY <1>1, Zenon DEF isValidTickArray0, From
  <2>3. arrays[1] \in Int
    BY <1>4, <1>5, Place
  <2>4. arrays[1] <= f /\ f < arrays[1] + ticks_in_array
    <3> HIDE DEF arrays, f
    <3>1. ticks_in_array \in Nat
      BY TickTypes
    <3> QED
      BY <2>1, <2>2, <2>3, <3>1 DEF check_in_array_bounds, in_search_range
  <2>5. a_to_b \in BOOLEAN
    BY <1>4
  <2> HIDE DEF arrays, f
  <2> QED
    BY <1>4, <1>5, <2>1, <2>4, <2>5, PlaceIn, Zenon
<1>7. walk = [arrays |-> arrays, initialized |-> accounts[2],
              a_to_b |-> a_to_b, tick |-> t, array_index |-> 1, touched |-> 0]
  BY <1>1
<1> HIDE DEF arrays
<1>8. /\ walk.arrays = arrays /\ walk.a_to_b = a_to_b /\ walk.tick = t
      /\ walk.array_index = 1
  BY <1>7
<1>9. walk \in [arrays: Seq(StartTicks), initialized: SUBSET UsableTicks,
                a_to_b: BOOLEAN, tick: Int, array_index: Nat \ {0}, touched: Nat]
  BY <1>2, <1>3, <1>5, <1>7
<1> QED
  BY <1>4, <1>6, <1>8, <1>9, Zenon DEF WalkInv

LEMMA WalkGoesOn == WalkInv /\ [WalkStep]_walk => WalkInv'
<1> SUFFICES ASSUME WalkInv, [WalkStep]_walk PROVE WalkInv'
  OBVIOUS
<1>1. CASE UNCHANGED walk
  BY <1>1 DEF WalkInv
<1>2. CASE WalkStep
  <2> DEFINE arrays == walk.arrays
             a_to_b == walk.a_to_b
             initialized == walk.initialized
             t == walk.tick
  <2>1. PICK k \in DOMAIN arrays,
             next \in TickIndex \ {MIN_TICK_INDEX, MAX_TICK_INDEX} :
           /\ ProgramFinds(Len(arrays), k, next)
           /\ walk' = [walk EXCEPT
                 !.tick = IF a_to_b THEN next - 1 ELSE next,
                 !.array_index = NextArrayIndex(arrays, k, next, a_to_b),
                 !.touched = Touched]
    BY <1>2, Zenon DEF WalkStep
  <2>2. /\ walk \in [arrays: Seq(StartTicks), initialized: SUBSET UsableTicks,
                     a_to_b: BOOLEAN, tick: Int, array_index: Nat \ {0}, touched: Nat]
        /\ Neighbours(arrays, a_to_b)
    BY DEF WalkInv
  <2>3. /\ arrays \in Seq(StartTicks) /\ a_to_b \in BOOLEAN /\ t \in Int
        /\ initialized \in SUBSET UsableTicks /\ walk.touched \in Nat
    BY <2>2
  <2> DEFINE u == IF a_to_b THEN next - 1 ELSE next
             x == NextArrayIndex(arrays, k, next, a_to_b)
  <2>4. /\ walk'.arrays = arrays /\ walk'.a_to_b = a_to_b
        /\ walk'.initialized = initialized
        /\ walk'.tick = u /\ walk'.array_index = x /\ walk'.touched = Touched
    BY <2>1, <2>2
  <2>5. get_next_initialized_tick_index(arrays, walk.array_index, t, a_to_b,
           initialized, k, next)
    <3>1. SubSeq(arrays, 1, Len(arrays)) = arrays
      BY <2>3
    <3> QED
      BY <2>1, <3>1, Zenon DEF ProgramFinds
  <2> HIDE DEF arrays, a_to_b, initialized, t
  <2>6. /\ next \in Int /\ arrays[k] <= next /\ next < arrays[k] + ticks_in_array
        /\ a_to_b /\ tick_offset(arrays[k], next) = 0 => next = arrays[k]
    BY <2>1, <2>2, <2>3, <2>5, FoundIs
  <2>7. LocalArrayIndex(arrays, From(u, a_to_b), a_to_b) = x
    BY <2>1, <2>2, <2>3, <2>6, NextPlace
  <2>8. x \in Nat \ {0}
    <3>1. DOMAIN arrays = 1 .. Len(arrays) /\ Len(arrays) \in Nat
      BY <2>3
    <3>2. k \in Nat \ {0}
      BY <2>1, <3>1
    <3>3. x \in {k, k + 1}
      BY Zenon DEF NextArrayIndex
    <3> HIDE DEF x
    <3> QED
      BY <3>2, <3>3
  <2>9. Touched \in Nat
    <3> DEFINE now == TouchedArrays(arrays, t, a_to_b, initialized)
    <3>1. now \in 1 .. Len(arrays) /\ Len(arrays) \in Nat
      BY <2>2, <2>3, TouchedIs
    <3>2. Touched = IF now > walk.touched THEN now ELSE walk.touched
      BY Zenon DEF Touched, arrays, t, a_to_b, initialized
    <3> HIDE DEF now
    <3> QED
      BY <2>3, <3>1, <3>2
  <2>10. u \in Int
    BY <2>6
  <2> HIDE DEF u, x
  <2>11. walk' \in [arrays: Seq(StartTicks), initialized: SUBSET UsableTicks,
                    a_to_b: BOOLEAN, tick: Int, array_index: Nat \ {0}, touched: Nat]
    <3>1. walk' = [walk EXCEPT !.tick = u, !.array_index = x, !.touched = Touched]
      BY <2>1 DEF u, x, arrays, a_to_b
    <3> QED
      BY <2>2, <2>8, <2>9, <2>10, <3>1
  <2>12. Neighbours(walk'.arrays, walk'.a_to_b)
    BY <2>2, <2>4, Zenon
  <2>13. walk'.array_index = LocalArrayIndex(walk'.arrays,
            From(walk'.tick, walk'.a_to_b), walk'.a_to_b)
    BY <2>4, <2>7, Zenon
  <2> QED
    BY <2>11, <2>12, <2>13 DEF WalkInv
<1> QED
  BY <1>1, <1>2

LEMMA WalkFindsAlike == WalkInv => QuotedArraysSuffice
<1> SUFFICES ASSUME WalkInv PROVE QuotedArraysSuffice
  OBVIOUS
<1> DEFINE arrays == walk.arrays
           a_to_b == walk.a_to_b
           initialized == walk.initialized
           t == walk.tick
           i == walk.array_index
           next == findNextInitializedTickIndex(arrays, t, a_to_b, initialized)
           now == TouchedArrays(arrays, t, a_to_b, initialized)
<1>1. /\ arrays \in Seq(StartTicks) /\ a_to_b \in BOOLEAN /\ t \in Int
      /\ initialized \in SUBSET UsableTicks /\ walk.touched \in Nat
      /\ i \in Nat \ {0}
  BY DEF WalkInv
<1>2. /\ Neighbours(arrays, a_to_b)
      /\ i = LocalArrayIndex(arrays, From(t, a_to_b), a_to_b)
  BY DEF WalkInv
<1>3. Touched = IF now > walk.touched THEN now ELSE walk.touched
  BY Zenon DEF Touched
<1>4. now \in 1 .. Len(arrays) /\ Len(arrays) \in Nat
  BY <1>1, <1>2, TouchedIs
<1> HIDE DEF now
<1>5. ASSUME SearchInBounds(arrays, t, a_to_b), NEW n \in Touched .. Len(arrays)
      PROVE  \E k \in 1 .. n : ProgramFinds(n, k, next)
  <2>1. n \in now .. Len(arrays)
    BY <1>1, <1>3, <1>4, <1>5
  <2>2. \E k \in 1 .. n :
           get_next_initialized_tick_index(SubSeq(arrays, 1, n),
              LocalArrayIndex(arrays, From(t, a_to_b), a_to_b), t, a_to_b,
              initialized, k, next)
    <3> HIDE DEF arrays, a_to_b, initialized, t
    <3> QED
      BY <1>1, <1>2, <1>5, <2>1, QuotedSearch DEF now
  <2> QED
    BY <1>2, <2>2, Zenon DEF ProgramFinds
<1>6. ASSUME ~SearchInBounds(arrays, t, a_to_b), NEW n \in DOMAIN arrays,
             NEW k \in DOMAIN arrays, NEW u \in TickIndex, ProgramFinds(n, k, u)
      PROVE  FALSE
  <2>1. k \in DOMAIN SubSeq(arrays, 1, n) /\ k >= i
    BY <1>6, Zenon DEF ProgramFinds, get_next_initialized_tick_index
  <2>2. i \notin DOMAIN arrays
    <3>1. LocalArrayIndex(arrays, SearchSlot(t, a_to_b), a_to_b) = i
      <4>1. t \in Int /\ a_to_b \in BOOLEAN
        BY <1>1
      <4>2. i = LocalArrayIndex(arrays, From(t, a_to_b), a_to_b)
        BY <1>2
      <4> HIDE DEF i, arrays, a_to_b, t
      <4>3. LocalArrayIndex(arrays, SearchSlot(t, a_to_b), a_to_b)
              = LocalArrayIndex(arrays, From(t, a_to_b), a_to_b)
        BY ONLY <4>1, SlotPlace
      <4> QED
        BY <4>2, <4>3, Zenon
    <3> HIDE DEF i
    <3> QED
      BY <1>6, <3>1, Zenon DEF SearchInBounds, isArrayIndexInBounds
  <2>3. DOMAIN arrays = 1 .. Len(arrays)
    BY <1>1
  <2> HIDE DEF arrays, i
  <2> QED
    BY <1>1, <1>4, <1>6, <2>1, <2>2, <2>3
<1> HIDE DEF next
<1> QED
  BY <1>5, <1>6, Zenon DEF QuotedArraysSuffice, next

(* Along every swap, over whatever arrays exist and whichever of their ticks   *)
(* are initialized, the quote and the program find the same ticks, and the     *)
(* arrays the quote has touched are all that the program needs.                *)
THEOREM QuotedArraysSufficeHolds == WalkSpec => []QuotedArraysSuffice
<1>1. WalkInit => WalkInv
  BY WalkStarts
<1>2. WalkInv /\ [WalkStep]_walk => WalkInv'
  BY WalkGoesOn
<1>3. WalkInv => QuotedArraysSuffice
  BY WalkFindsAlike
<1> QED
  BY <1>1, <1>2, <1>3, PTL DEF WalkSpec
=============================================================================
