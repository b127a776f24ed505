-------------------------- MODULE PoolTokensProofs --------------------------
(***************************************************************************)
(* The vaults of a pool cover its positions, for every number of them,     *)
(* every amount, fee and price function, and whatever the fixed point.     *)
(*                                                                         *)
(* What positions are worth is a fraction, and each has a denominator of   *)
(* its own.  The lemmas count in units that all of them are multiples of;  *)
(* then nothing is rounded but what the code pays and takes.               *)
(***************************************************************************)
EXTENDS PoolTokens, LiquidityProofs

\* The lemmas about one step of a swap.  The inputs that a run of that module
\* enumerates, its variables and the ticks of quotes play no part in them.
Math == INSTANCE ArithmeticProofs
            WITH Amounts <- {}, FeeRates <- {}, Liquidities <- {}, None <- 0,
                 MIN_TICK_INDEX <- -1, MAX_TICK_INDEX <- 1, TICK_ARRAY_SIZE <- 2,
                 tick_spacing <- 1, MAX_SWAP_TICK_ARRAYS <- 3,
                 input <- trade, step <- vault, walk <- vault

-----------------------------------------------------------------------------
\* The arithmetic of SwapMath.

LEMMA PriceBounds ==
  /\ MIN_SQRT_PRICE \in Nat \ {0} /\ MAX_SQRT_PRICE \in Nat
  /\ MAX_SQRT_PRICE <= MAX_U128
  /\ MAX_SQRT_PRICE * MAX_SQRT_PRICE <= Q64 * Q64 * Q64
  /\ \A p \in SqrtPrice : p \in Nat \ {0} /\ p <= MAX_SQRT_PRICE
  /\ \A t \in TickIndex : sqrt_price_from_tick_index[t] \in SqrtPrice
<1> DEFINE m == MAX_SQRT_PRICE
           c == Q64 * Q64
<1>1. MIN_SQRT_PRICE \in Nat /\ m \in Nat
  BY PriceMonotone, TickInts DEF MIN_SQRT_PRICE, MAX_SQRT_PRICE
<1>2. Q64 \in Nat /\ Q64 >= 2 /\ MAX_U128 = c - 1 /\ m * m <= c * Q64 /\ MIN_SQRT_PRICE > 0
  BY TokensAssumption
<1>3. c \in Nat /\ Q64 < c
  <2>1. Q64 * 2 <= Q64 * Q64
    BY <1>2
  <2> QED
    BY <1>2, <2>1
<1> HIDE DEF m, c
<1>4. m <= c - 1
  <2> SUFFICES ASSUME c <= m PROVE FALSE
    BY <1>1, <1>3
  <2>1. c * Q64 < c * c
    <3>1. c * (Q64 + 1) <= c * c
      BY <1>2, <1>3
    <3>2. c * (Q64 + 1) = c * Q64 + c
      BY <1>2, <1>3
    <3> QED
      BY <1>2, <1>3, <3>1, <3>2
  <2>2. c * c <= c * m
    BY <1>1, <1>3
  <2>3. c * m <= m * m
    BY <1>1, <1>3
  <2>4. c * c \in Int /\ c * Q64 \in Int /\ c * m \in Int /\ m * m \in Int
    BY <1>1, <1>2, <1>3
  <2> QED
    BY <1>2, <2>1, <2>2, <2>3, <2>4
<1>5. \A p \in SqrtPrice : p \in Nat \ {0} /\ p <= MAX_SQRT_PRICE
  BY <1>1, <1>2 DEF SqrtPrice, m
<1>6. ASSUME NEW t \in TickIndex PROVE sqrt_price_from_tick_index[t] \in SqrtPrice
  <2>1. /\ MIN_SQRT_PRICE <= sqrt_price_from_tick_index[t]
        /\ sqrt_price_from_tick_index[t] <= MAX_SQRT_PRICE
        /\ sqrt_price_from_tick_index[t] \in Nat
    BY PriceMonotone, TickInts, TickAssumption
    DEF MIN_SQRT_PRICE, MAX_SQRT_PRICE, TickIndex
  <2> QED
    BY <1>1, <2>1 DEF SqrtPrice, m
<1> QED
  BY <1>1, <1>2, <1>4, <1>5, <1>6, TokensAssumption DEF m

LEMMA MathAssumptions ==
  /\ Math!SwapMathAssumption /\ Math!QuoteAssumption /\ Math!InputsAssumption
  /\ Math!TickAssumption /\ Math!QuoteArraysAssumption
<1>1. Math!SwapMathAssumption
  BY PriceBounds, TokensAssumption DEF Math!SwapMathAssumption
<1>2. Math!QuoteAssumption
  BY PriceBounds, TokensAssumption DEF Math!QuoteAssumption
<1>3. Math!InputsAssumption
  BY DEF Math!InputsAssumption
<1>4. Math!TickAssumption
  BY DEF Math!TickAssumption
<1>5. Math!QuoteArraysAssumption
  BY DEF Math!QuoteArraysAssumption
<1> QED
  BY <1>1, <1>2, <1>3, <1>4, <1>5

\* The operators of that module are those of PoolTokens, one by one ...
LEMMA SameQuotients ==
  /\ Math!Err = Err
  /\ \A x, y : Math!Checked(x, y) = Checked(x, y)
  /\ \A n, d, up : Math!DivRound(n, d, up) = DivRound(n, d, up)
  /\ \A p, q : Math!Distance(p, q) = Distance(p, q)
BY DEF Math!Err, Err, Math!Checked, Checked, Math!DivRound, DivRound,
       Math!Distance, Distance

LEMMA SameDeltas ==
  /\ \A p, q, l, up : Math!get_amount_delta_a(p, q, l, up) = get_amount_delta_a(p, q, l, up)
  /\ \A p, q, l, up : Math!get_amount_delta_b(p, q, l, up) = get_amount_delta_b(p, q, l, up)
BY SameQuotients, Zenon
DEF Math!get_amount_delta_a, get_amount_delta_a, Math!get_amount_delta_b,
    get_amount_delta_b

LEMMA SamePriceFromA ==
  ASSUME NEW p, NEW l, NEW a, NEW i
  PROVE  Math!get_next_sqrt_price_from_a_round_up(p, l, a, i)
           = get_next_sqrt_price_from_a_round_up(p, l, a, i)
BY SameQuotients, Zenon
DEF Math!get_next_sqrt_price_from_a_round_up, get_next_sqrt_price_from_a_round_up

LEMMA SamePriceFromB ==
  ASSUME NEW p, NEW l, NEW a, NEW i
  PROVE  Math!get_next_sqrt_price_from_b_round_down(p, l, a, i)
           = get_next_sqrt_price_from_b_round_down(p, l, a, i)
BY SameQuotients, Zenon
DEF Math!get_next_sqrt_price_from_b_round_down, get_next_sqrt_price_from_b_round_down

LEMMA SameParts ==
  /\ \A p, l, a, i, d : Math!get_next_sqrt_price(p, l, a, i, d)
                          = get_next_sqrt_price(p, l, a, i, d)
  /\ \A p, q, l, i, d : Math!get_amount_fixed_delta(p, q, l, i, d)
                          = get_amount_fixed_delta(p, q, l, i, d)
  /\ \A p, q, l, i, d : Math!get_amount_unfixed_delta(p, q, l, i, d)
                          = get_amount_unfixed_delta(p, q, l, i, d)
  /\ \A a, r : Math!LessFee(a, r) = LessFee(a, r)
  /\ \A a, r : Math!FeeOf(a, r) = FeeOf(a, r)
  /\ \A o, a, i : Math!CapOutput(o, a, i) = CapOutput(o, a, i)
BY SameDeltas, SamePriceFromA, SamePriceFromB, SameQuotients, Zenon
DEF Math!get_next_sqrt_price, get_next_sqrt_price, Math!get_amount_fixed_delta,
    get_amount_fixed_delta, Math!get_amount_unfixed_delta, get_amount_unfixed_delta,
    Math!LessFee, LessFee, Math!FeeOf, FeeOf, Math!CapOutput, CapOutput

\* ... and so is a step.
LEMMA SameSwap ==
  ASSUME NEW a, NEW r, NEW l, NEW p, NEW t, NEW k, NEW d
  PROVE  Math!compute_swap(a, r, l, p, t, k, d) = compute_swap(a, r, l, p, t, k, d)
BY SameParts, SameQuotients, Zenon DEF Math!compute_swap, compute_swap

LEMMA SameStep ==
  ASSUME NEW i
  PROVE  /\ Math!StepOf(i)
              = compute_swap(i.amount, i.fee_rate, i.liquidity, i.price, i.target,
                             i.is_input, i.a_to_b)
         /\ \A s : Math!IsOk(s) = IsOk(s)
<1>1. Math!StepOf(i)
        = Math!compute_swap(i.amount, i.fee_rate, i.liquidity, i.price, i.target,
                            i.is_input, i.a_to_b)
  BY DEF Math!StepOf
<1>2. \A s : Math!IsOk(s) = IsOk(s)
  BY SameQuotients, Zenon DEF Math!IsOk, IsOk
<1> QED
  BY <1>1, <1>2, SameSwap, Zenon

-----------------------------------------------------------------------------
\* The units: one of them is a common multiple of all prices.

\* share[n] is the n-th part of unit.
Divides(unit, share, n) ==
    /\ unit \in Nat \ {0}
    /\ share \in [1 .. n -> Nat]
    /\ \A i \in 1 .. n : i * share[i] = unit

LEMMA CommonMultiple ==
  ASSUME NEW n \in Nat
  PROVE  \E unit, share : Divides(unit, share, n)
<1> DEFINE T == {m \in Nat : ~ \E unit, share : Divides(unit, share, m)}
<1> SUFFICES ASSUME T # {} PROVE FALSE
  OBVIOUS
<1>1. PICK m \in T : \A i \in T : m <= i
  BY LeastElement
<1>2. m # 0
  <2> DEFINE none == [i \in 1 .. 0 |-> 0]
  <2>1. Divides(1, none, 0)
    BY DEF Divides
  <2> QED
    BY <2>1
<1>3. m - 1 \in Nat /\ m - 1 \notin T
  BY <1>1, <1>2
<1>4. PICK unit, share : Divides(unit, share, m - 1)
  BY <1>3
<1> DEFINE longer == [i \in 1 .. m |-> IF i = m THEN unit ELSE share[i] * m]
<1>5. ASSUME NEW i \in 1 .. m PROVE longer[i] \in Nat /\ i * longer[i] = unit * m
  <2>1. CASE i = m
    BY <1>1, <1>4, <2>1 DEF Divides
  <2>2. CASE i # m
    <3>1. i \in 1 .. m - 1 /\ i \in Nat /\ m \in Nat
      BY <1>1, <2>2
    <3>2. share[i] \in Nat /\ i * share[i] = unit
      BY <1>4, <3>1 DEF Divides
    <3>3. longer[i] = share[i] * m
      BY <2>2
    <3>4. i * (share[i] * m) = (i * share[i]) * m
      BY <3>1, <3>2
    <3> QED
      BY <3>1, <3>2, <3>3, <3>4
  <2> QED
    BY <2>1, <2>2
<1>6. unit * m \in Nat \ {0}
  BY <1>1, <1>2, <1>4 DEF Divides
<1>7. Divides(unit * m, longer, m)
  BY <1>5, <1>6 DEF Divides
<1> QED
  BY <1>1, <1>7

Shares == CHOOSE share : \E unit : Divides(unit, share, MAX_SQRT_PRICE)
Unit == CHOOSE unit : Divides(unit, Shares, MAX_SQRT_PRICE)

\* The reciprocals of prices, without fractions.
LEMMA ShareFacts ==
  /\ Unit \in Nat \ {0}
  /\ \A p \in SqrtPrice :
        p \in Nat \ {0} /\ Shares[p] \in Nat /\ p * Shares[p] = Unit
<1>1. MAX_SQRT_PRICE \in Nat
  BY PriceBounds
<1>2. \E share : \E unit : Divides(unit, share, MAX_SQRT_PRICE)
  BY <1>1, CommonMultiple
<1>3. \E unit : Divides(unit, Shares, MAX_SQRT_PRICE)
  BY <1>2, Zenon DEF Shares
<1>4. Divides(Unit, Shares, MAX_SQRT_PRICE)
  BY <1>3, Zenon DEF Unit
<1>5. ASSUME NEW p \in SqrtPrice PROVE p \in 1 .. MAX_SQRT_PRICE
  BY <1>1, PriceBounds
<1> QED
  BY <1>4, <1>5, PriceBounds DEF Divides

\* The distance of two prices, as a difference of shares.
LEMMA ShareDistance ==
  ASSUME NEW p \in SqrtPrice, NEW q \in SqrtPrice
  PROVE  Unit * (q - p) = p * q * (Shares[p] - Shares[q])
<1> DEFINE f == Shares[p]
           g == Shares[q]
<1>1. /\ p \in Nat \ {0} /\ q \in Nat \ {0} /\ f \in Nat /\ g \in Nat
      /\ Unit \in Nat /\ p * f = Unit /\ q * g = Unit
  BY ShareFacts
<1> HIDE DEF f, g
<1>2. Unit * (q - p) = q * (p * f) - p * (q * g)
  <2>1. Unit * (q - p) = q * Unit - p * Unit
    BY <1>1
  <2> QED
    BY <1>1, <2>1
<1>3. q * (p * f) - p * (q * g) = p * q * (f - g)
  BY <1>1
<1> QED
  BY <1>2, <1>3 DEF f, g

\* A higher price has a smaller share.
LEMMA SharesFall ==
  ASSUME NEW p \in SqrtPrice, NEW q \in SqrtPrice, p <= q
  PROVE  Shares[q] <= Shares[p]
<1> DEFINE f == Shares[p]
           g == Shares[q]
<1>1. /\ p \in Nat \ {0} /\ q \in Nat \ {0} /\ f \in Nat /\ g \in Nat
      /\ p * f = Unit /\ q * g = Unit
  BY ShareFacts
<1> HIDE DEF f, g
<1>2. p * g <= q * g
  BY <1>1
<1>3. p * g <= p * f
  BY <1>1, <1>2
<1>4. g <= f
  BY <1>1, <1>3, Cancel
<1> QED
  BY <1>4 DEF f, g

\* What an amount of token A is worth between two prices, in units.
LEMMA AmountInUnits ==
  ASSUME NEW p \in SqrtPrice, NEW q \in SqrtPrice, NEW l \in Nat, NEW x \in Int
  PROVE  LET worth == l * (Shares[p] - Shares[q])
         IN  /\ worth \in Int
             /\ x * (p * q) <= l * (q - p) * Q64 <=> Unit * x <= Q64 * worth
             /\ x * (p * q) >= l * (q - p) * Q64 <=> Unit * x >= Q64 * worth
<1> DEFINE e == Shares[p] - Shares[q]
           d == q - p
           c == p * q
<1>1. /\ Unit \in Nat \ {0} /\ e \in Int /\ d \in Int /\ c \in Nat \ {0}
      /\ Q64 \in Nat /\ Unit * d = c * e
  <2>1. p \in Nat \ {0} /\ q \in Nat \ {0}
    BY ShareFacts
  <2>2. c \in Nat \ {0}
    BY <2>1
  <2> QED
    BY <2>1, <2>2, ShareFacts, ShareDistance, TokensAssumption
<1> HIDE DEF e, d, c
<1> DEFINE u == x * c
           v == l * d * Q64
           w == Unit * x
           z == Q64 * (l * e)
<1>2. u \in Int /\ v \in Int /\ w \in Int /\ z \in Int
  BY <1>1
<1>3. Unit * u = c * w
  BY <1>1
<1>4. Unit * v = c * z
  <2>1. Unit * v = (l * Q64) * (Unit * d)
    BY <1>1
  <2>2. c * z = (l * Q64) * (c * e)
    BY <1>1
  <2> QED
    BY <1>1, <2>1, <2>2
<1> HIDE DEF u, v, w, z
<1>5. u <= v <=> w <= z
  <2>1. u <= v => Unit * u <= Unit * v
    BY <1>1, <1>2
  <2>2. c * w <= c * z => w <= z
    BY <1>1, <1>2, Cancel
  <2>3. w <= z => c * w <= c * z
    BY <1>1, <1>2
  <2>4. Unit * u <= Unit * v => u <= v
    BY <1>1, <1>2, Cancel
  <2> QED
    BY <1>3, <1>4, <2>1, <2>2, <2>3, <2>4
<1>6. v <= u <=> z <= w
  <2>1. v <= u => Unit * v <= Unit * u
    BY <1>1, <1>2
  <2>2. c * z <= c * w => z <= w
    BY <1>1, <1>2, Cancel
  <2>3. z <= w => c * z <= c * w
    BY <1>1, <1>2
  <2>4. Unit * v <= Unit * u => v <= u
    BY <1>1, <1>2, Cancel
  <2> QED
    BY <1>3, <1>4, <2>1, <2>2, <2>3, <2>4
<1>7. l * e \in Int
  BY <1>1
<1> QED
  BY <1>2, <1>5, <1>6, <1>7 DEF e, d, c, u, v, w, z

-----------------------------------------------------------------------------
\* The amounts of tokens between two prices, against what they are worth.

LEMMA Quotient ==
  ASSUME NEW n \in Nat, NEW d \in Nat \ {0}
  PROVE  LET up == DivRound(n, d, TRUE)
             down == DivRound(n, d, FALSE)
         IN  /\ up \in Nat /\ up * d >= n
             /\ down \in Nat /\ down * d <= n
             /\ \A m \in Nat : n <= m * d => down <= m
<1> DEFINE up == DivRound(n, d, TRUE)
           down == DivRound(n, d, FALSE)
           q == n \div d
           r == n % d
<1>1. n = d * q + r /\ q \in Nat /\ r \in 0 .. d - 1
  <2>1. n \in Int
    OBVIOUS
  <2>2. n = d * q + r /\ r \in 0 .. d - 1
    BY <2>1, DivMod
  <2>3. q \in Nat
    BY RoundsDown
  <2> QED
    BY <2>2, <2>3
<1>2. down = q /\ up = IF r > 0 THEN q + 1 ELSE q
  BY DEF DivRound
<1> HIDE DEF q, r, up, down
<1>3. q * d <= n
  BY <1>1
<1>4. (q + 1) * d >= n
  <2>1. (q + 1) * d = d * q + d
    BY <1>1
  <2> QED
    BY <1>1, <2>1
<1>5. r = 0 => q * d >= n
  BY <1>1
<1>6. ASSUME NEW m \in Nat, n <= m * d PROVE q <= m
  <2>1. d * q <= d * m
    BY <1>1, <1>3, <1>6
  <2> QED
    BY <1>1, <2>1, Cancel
<1>7. up \in Nat /\ up * d >= n
  BY <1>1, <1>2, <1>4, <1>5
<1> QED
  BY <1>1, <1>2, <1>3, <1>6, <1>7 DEF up, down

LEMMA Bounded ==
  ASSUME NEW x \in Nat
  PROVE  /\ Checked(x, MAX_U64) # Err =>
               Checked(x, MAX_U64) = x /\ x \in 0 .. MAX_U64
         /\ x <= MAX_U64 => Checked(x, MAX_U64) # Err
BY TokensAssumption DEF Checked, Err

LEMMA AmountOfA ==
  ASSUME NEW p \in SqrtPrice, NEW q \in SqrtPrice, p <= q, NEW l \in Nat
  PROVE  LET worth == l * (Shares[p] - Shares[q])
             up == get_amount_delta_a(p, q, l, TRUE)
             down == get_amount_delta_a(p, q, l, FALSE)
         IN  /\ up # Err => up \in 0 .. MAX_U64 /\ Unit * up >= Q64 * worth
             /\ down # Err => down \in 0 .. MAX_U64 /\ Unit * down <= Q64 * worth
             /\ Q64 * worth <= Unit * MAX_U64 => down # Err
<1> DEFINE worth == l * (Shares[p] - Shares[q])
           n == l * (q - p) * Q64
           d == p * q
           c == Q64 * Q64 * Q64
           fits == ~ (l * (q - p) >= c)
           high == DivRound(n, d, TRUE)
           low == DivRound(n, d, FALSE)
<1>1. p \in Nat \ {0} /\ q \in Nat \ {0} /\ Q64 \in Nat /\ MAX_U64 \in Nat
      /\ Q64 = MAX_U64 + 1
  BY PriceBounds, TokensAssumption
<1>2. l * (q - p) \in Nat
  BY <1>1
<1>3. n \in Nat
  BY <1>1, <1>2
<1>4. d \in Nat \ {0}
  BY <1>1
<1>5. Distance(p, q) = q - p
  BY <1>1 DEF Distance
<1>6. /\ get_amount_delta_a(p, q, l, TRUE)
            = IF fits THEN Checked(high, MAX_U64) ELSE Err
      /\ get_amount_delta_a(p, q, l, FALSE)
            = IF fits THEN Checked(low, MAX_U64) ELSE Err
  BY <1>5, Zenon DEF get_amount_delta_a
<1>7. /\ high \in Nat /\ high * d >= n /\ low \in Nat /\ low * d <= n
      /\ \A m \in Nat : n <= m * d => low <= m
  BY <1>3, <1>4, Quotient
<1>8. \A x \in Int : /\ x * d <= n <=> Unit * x <= Q64 * worth
                     /\ x * d >= n <=> Unit * x >= Q64 * worth
  BY AmountInUnits
<1>9. ASSUME Q64 * worth <= Unit * MAX_U64 PROVE fits /\ low <= MAX_U64
  <2>1. n <= MAX_U64 * d
    BY <1>1, <1>8, <1>9
  <2>2. low <= MAX_U64
    BY <1>1, <1>7, <2>1
  <2>3. d <= c
    <3> DEFINE m == MAX_SQRT_PRICE
    <3>1. p <= m /\ q <= m /\ m \in Nat /\ m * m <= c
      BY PriceBounds
    <3> HIDE DEF m
    <3>2. p * q <= m * q
      BY <1>1, <3>1
    <3>3. m * q <= m * m
      BY <1>1, <3>1
    <3>4. c \in Nat
      BY <1>1
    <3> QED
      BY <1>1, <3>1, <3>2, <3>3, <3>4
  <2>4. fits
    <3> DEFINE v == l * (q - p)
    <3> SUFFICES ASSUME v >= c PROVE FALSE
      OBVIOUS
    <3>1. n = v * Q64 /\ v \in Nat /\ c \in Nat
      BY <1>1, <1>2
    <3> HIDE DEF n, v, c, d
    <3>2. v * Q64 <= MAX_U64 * c
      <4>1. MAX_U64 * d <= MAX_U64 * c
        BY <1>1, <1>4, <2>3, <3>1
      <4>2. MAX_U64 * d \in Int /\ MAX_U64 * c \in Int /\ v * Q64 \in Int
        BY <1>1, <1>4, <3>1
      <4> QED
        BY <2>1, <3>1, <4>1, <4>2
    <3>3. MAX_U64 * c <= MAX_U64 * v
      BY <1>1, <3>1
    <3>4. v * Q64 = MAX_U64 * v + v
      BY <1>1, <3>1
    <3>5. v <= 0
      BY <1>1, <3>1, <3>2, <3>3, <3>4
    <3>6. c # 0
      <4>1. Q64 * Q64 \in Nat \ {0}
        BY <1>1
      <4> QED
        BY <1>1, <4>1 DEF c
    <3> QED
      BY <3>1, <3>5, <3>6
  <2> QED
    BY <2>2, <2>4
<1> HIDE DEF worth, n, d, fits, high, low
<1>10. /\ Checked(high, MAX_U64) # Err =>
             Checked(high, MAX_U64) = high /\ high \in 0 .. MAX_U64
       /\ Checked(low, MAX_U64) # Err =>
             Checked(low, MAX_U64) = low /\ low \in 0 .. MAX_U64
       /\ low <= MAX_U64 => Checked(low, MAX_U64) # Err
  BY <1>7, Bounded
<1>11. Unit * high >= Q64 * worth /\ Unit * low <= Q64 * worth
  BY <1>7, <1>8
<1>12. get_amount_delta_a(p, q, l, TRUE) # Err =>
          /\ get_amount_delta_a(p, q, l, TRUE) \in 0 .. MAX_U64
          /\ Unit * get_amount_delta_a(p, q, l, TRUE) >= Q64 * worth
  BY <1>6, <1>10, <1>11
<1>13. get_amount_delta_a(p, q, l, FALSE) # Err =>
          /\ get_amount_delta_a(p, q, l, FALSE) \in 0 .. MAX_U64
          /\ Unit * get_amount_delta_a(p, q, l, FALSE) <= Q64 * worth
  BY <1>6, <1>10, <1>11
<1>14. Q64 * worth <= Unit * MAX_U64 => get_amount_delta_a(p, q, l, FALSE) # Err
  BY <1>6, <1>9, <1>10, Zenon
<1> QED
  BY <1>12, <1>13, <1>14 DEF worth

LEMMA AmountOfB ==
  ASSUME NEW p \in SqrtPrice, NEW q \in SqrtPrice, p <= q, NEW l \in Nat
  PROVE  LET worth == l * (q - p)
             up == get_amount_delta_b(p, q, l, TRUE)
             down == get_amount_delta_b(p, q, l, FALSE)
         IN  /\ up # Err => up \in 0 .. MAX_U64 /\ Q64 * up >= worth
             /\ down # Err => down \in 0 .. MAX_U64 /\ Q64 * down <= worth
             /\ worth <= Q64 * MAX_U64 => down # Err
<1> DEFINE worth == l * (q - p)
           fits == ~ (worth > MAX_U128)
           high == DivRound(worth, Q64, TRUE)
           low == DivRound(worth, Q64, FALSE)
<1>1. p \in Nat \ {0} /\ q \in Nat \ {0} /\ Q64 \in Nat \ {0} /\ MAX_U64 \in Nat
      /\ Q64 = MAX_U64 + 1 /\ MAX_U128 = Q64 * Q64 - 1
  BY PriceBounds, TokensAssumption
<1>2. worth \in Nat
  BY <1>1
<1>3. Distance(p, q) = q - p
  BY <1>1 DEF Distance
<1>4. /\ get_amount_delta_b(p, q, l, TRUE)
            = IF fits THEN Checked(high, MAX_U64) ELSE Err
      /\ get_amount_delta_b(p, q, l, FALSE)
            = IF fits THEN Checked(low, MAX_U64) ELSE Err
  BY <1>3, Zenon DEF get_amount_delta_b
<1> HIDE DEF worth
<1>5. /\ high \in Nat /\ high * Q64 >= worth /\ low \in Nat /\ low * Q64 <= worth
      /\ \A m \in Nat : worth <= m * Q64 => low <= m
  BY <1>1, <1>2, Quotient
<1>6. ASSUME worth <= Q64 * MAX_U64 PROVE fits /\ low <= MAX_U64
  <2>1. Q64 * MAX_U64 = Q64 * Q64 - Q64 /\ Q64 * Q64 \in Nat
    BY <1>1
  <2>2. fits
    BY <1>1, <1>2, <1>6, <2>1
  <2>3. worth <= MAX_U64 * Q64
    BY <1>1, <1>6
  <2> QED
    BY <1>1, <1>5, <2>2, <2>3
<1> HIDE DEF fits, high, low
<1>7. /\ Checked(high, MAX_U64) # Err =>
             Checked(high, MAX_U64) = high /\ high \in 0 .. MAX_U64
      /\ Checked(low, MAX_U64) # Err =>
             Checked(low, MAX_U64) = low /\ low \in 0 .. MAX_U64
      /\ low <= MAX_U64 => Checked(low, MAX_U64) # Err
  BY <1>5, Bounded
<1>8. Q64 * high >= worth /\ Q64 * low <= worth
  BY <1>1, <1>5
<1>9. get_amount_delta_b(p, q, l, TRUE) # Err =>
         /\ get_amount_delta_b(p, q, l, TRUE) \in 0 .. MAX_U64
         /\ Q64 * get_amount_delta_b(p, q, l, TRUE) >= worth
  BY <1>4, <1>7, <1>8
<1>10. get_amount_delta_b(p, q, l, FALSE) # Err =>
          /\ get_amount_delta_b(p, q, l, FALSE) \in 0 .. MAX_U64
          /\ Q64 * get_amount_delta_b(p, q, l, FALSE) <= worth
  BY <1>4, <1>7, <1>8
<1>11. worth <= Q64 * MAX_U64 => get_amount_delta_b(p, q, l, FALSE) # Err
  BY <1>4, <1>6, <1>7, Zenon
<1> QED
  BY <1>9, <1>10, <1>11 DEF worth

-----------------------------------------------------------------------------
\* What positions are worth at a price: liquidity times how far the price,
\* held within the range, is from one of its ends.

Lower(position) == sqrt_price_from_tick_index[position.tick_lower_index]
Upper(position) == sqrt_price_from_tick_index[position.tick_upper_index]
Within(x, position) ==
    IF x < Lower(position) THEN Lower(position)
    ELSE IF x > Upper(position) THEN Upper(position) ELSE x

\* Distances are counted in shares for token A, and in prices for token B.
Owed(accounts, level, base, x) ==
    [p \in PositionId |->
        accounts[p].liquidity * (level[Within(x, accounts[p])] - base[p])]
Prices == [x \in SqrtPrice |-> x]
OwedA(accounts, x) ==
    Owed(accounts, Shares, [p \in PositionId |-> Shares[Upper(accounts[p])]], x)
OwedB(accounts, x) ==
    Owed(accounts, Prices, [p \in PositionId |-> Lower(accounts[p])], x)

\* The tokens held cover what the accounts are worth at price x.
Backed(accounts, held, x) ==
    /\ Q64 * Total(OwedA(accounts, x)) <= Unit * held.a
    /\ Total(OwedB(accounts, x)) <= Q64 * held.b

LEMMA Ranges ==
  ASSUME NEW a \in Accounts, NEW p \in PositionId, NEW x \in SqrtPrice
  PROVE  /\ Lower(a[p]) \in SqrtPrice /\ Upper(a[p]) \in SqrtPrice
         /\ Within(x, a[p]) \in SqrtPrice
         /\ Lower(a[p]) <= Within(x, a[p]) /\ Within(x, a[p]) <= Upper(a[p])
         /\ a[p].liquidity \in Nat
<1>1. a \in [PositionId -> Position]
      /\ a[p].tick_lower_index <= a[p].tick_upper_index
  BY DEF Accounts
<1>2. /\ a[p].tick_lower_index \in TickIndex /\ a[p].tick_upper_index \in TickIndex
      /\ a[p].liquidity \in Nat
  BY <1>1, PositionTypes
<1>3. Lower(a[p]) \in SqrtPrice /\ Upper(a[p]) \in SqrtPrice
  BY <1>2, PriceBounds DEF Lower, Upper
<1>4. Lower(a[p]) <= Upper(a[p])
  BY <1>1, <1>2, PriceMonotone DEF Lower, Upper
<1>5. x \in Nat /\ Lower(a[p]) \in Nat /\ Upper(a[p]) \in Nat
  BY <1>3, PriceBounds
<1> QED
  BY <1>2, <1>3, <1>4, <1>5 DEF Within

LEMMA OwedTypes ==
  ASSUME NEW a \in Accounts, NEW x \in SqrtPrice
  PROVE  /\ OwedA(a, x) \in [1 .. N -> Nat] /\ OwedB(a, x) \in [1 .. N -> Nat]
         /\ OwedA(a, x) \in [1 .. N -> Int] /\ OwedB(a, x) \in [1 .. N -> Int]
         /\ \A p \in PositionId :
               /\ OwedA(a, x)[p] = a[p].liquidity
                                     * (Shares[Within(x, a[p])] - Shares[Upper(a[p])])
               /\ OwedB(a, x)[p] = a[p].liquidity * (Within(x, a[p]) - Lower(a[p]))
<1> DEFINE A(p) == a[p].liquidity * (Shares[Within(x, a[p])] - Shares[Upper(a[p])])
           B(p) == a[p].liquidity * (Within(x, a[p]) - Lower(a[p]))
<1>1. OwedA(a, x) = [p \in PositionId |-> A(p)]
  BY DEF OwedA, Owed
<1>2. OwedB(a, x) = [p \in PositionId |-> B(p)]
  BY Ranges DEF OwedB, Owed, Prices
<1>3. ASSUME NEW p \in PositionId PROVE A(p) \in Nat /\ B(p) \in Nat
  <2> DEFINE w == Within(x, a[p])
             l == Lower(a[p])
             u == Upper(a[p])
  <2>1. /\ w \in SqrtPrice /\ l \in SqrtPrice /\ u \in SqrtPrice
        /\ l <= w /\ w <= u /\ a[p].liquidity \in Nat
    BY Ranges
  <2> HIDE DEF w, l, u
  <2>2. /\ w \in Nat /\ l \in Nat /\ Shares[w] \in Nat /\ Shares[u] \in Nat
        /\ Shares[u] <= Shares[w]
    BY <2>1, ShareFacts, SharesFall
  <2>3. w - l \in Nat /\ Shares[w] - Shares[u] \in Nat
    BY <2>1, <2>2
  <2> QED
    BY <2>1, <2>3 DEF w, l, u
<1> HIDE DEF A, B
<1> QED
  BY <1>1, <1>2, <1>3 DEF PositionId, A, B

LEMMA TotalsOwed ==
  ASSUME NEW a \in Accounts, NEW x \in SqrtPrice
  PROVE  Total(OwedA(a, x)) \in Nat /\ Total(OwedB(a, x)) \in Nat
BY OwedTypes, TotalNat

\* A position without liquidity is worth nothing, wherever its ticks are.
LEMMA OwedSame ==
  ASSUME NEW a \in Accounts, NEW b \in Accounts, NEW p \in PositionId,
         a[p].liquidity = 0, b[p].liquidity = 0,
         \A q \in PositionId \ {p} : b[q] = a[q], NEW x \in SqrtPrice
  PROVE  OwedA(b, x) = OwedA(a, x) /\ OwedB(b, x) = OwedB(a, x)
<1>1. ASSUME NEW c \in Accounts, c[p].liquidity = 0
      PROVE  OwedA(c, x)[p] = 0 /\ OwedB(c, x)[p] = 0
  <2>1. /\ Within(x, c[p]) \in Nat /\ Lower(c[p]) \in Nat
        /\ Shares[Within(x, c[p])] \in Nat /\ Shares[Upper(c[p])] \in Nat
    BY Ranges, ShareFacts
  <2> QED
    BY <1>1, <2>1, OwedTypes
<1>2. OwedA(b, x)[p] = OwedA(a, x)[p] /\ OwedB(b, x)[p] = OwedB(a, x)[p]
  BY <1>1
<1>3. ASSUME NEW q \in PositionId \ {p}
      PROVE  OwedA(b, x)[q] = OwedA(a, x)[q] /\ OwedB(b, x)[q] = OwedB(a, x)[q]
  BY OwedTypes
<1>4. /\ OwedA(a, x) \in [1 .. N -> Nat] /\ OwedB(a, x) \in [1 .. N -> Nat]
      /\ OwedA(b, x) \in [1 .. N -> Nat] /\ OwedB(b, x) \in [1 .. N -> Nat]
  BY OwedTypes
<1>5. \A q \in 1 .. N : OwedA(b, x)[q] = OwedA(a, x)[q] /\ OwedB(b, x)[q] = OwedB(a, x)[q]
  BY <1>2, <1>3 DEF PositionId
<1>6. ASSUME NEW f \in [1 .. N -> Nat], NEW g \in [1 .. N -> Nat],
             \A q \in 1 .. N : g[q] = f[q]
      PROVE  g = f
  <2>1. f = [q \in 1 .. N |-> f[q]] /\ g = [q \in 1 .. N |-> g[q]]
    BY Zenon
  <2>2. [q \in 1 .. N |-> f[q]] = [q \in 1 .. N |-> g[q]]
    BY <1>6, Zenon
  <2> QED
    BY <2>1, <2>2, Zenon
<1> QED
  BY <1>4, <1>5, <1>6, Zenon

\* Liquidity added to a position, or taken from it.
LEMMA OwedChanges ==
  ASSUME NEW a \in Accounts, NEW b \in Accounts, NEW p, NEW delta,
         Modifies(a, b, p, delta), NEW x \in SqrtPrice
  PROVE  /\ Total(OwedA(b, x)) = Total(OwedA(a, x))
               + delta * (Shares[Within(x, a[p])] - Shares[Upper(a[p])])
         /\ Total(OwedB(b, x)) = Total(OwedB(a, x))
               + delta * (Within(x, a[p]) - Lower(a[p]))
<1> DEFINE d == Shares[Within(x, a[p])] - Shares[Upper(a[p])]
           e == Within(x, a[p]) - Lower(a[p])
           l == a[p].liquidity
<1>1. p \in PositionId /\ delta \in Int
      /\ b = [a EXCEPT ![p].liquidity = @ + delta] /\ a \in [PositionId -> Position]
  BY DEF Modifies
<1>2. d \in Int /\ e \in Int /\ l \in Int
  BY <1>1, Ranges, ShareFacts
<1>3. /\ b[p].liquidity = l + delta
      /\ b[p].tick_lower_index = a[p].tick_lower_index
      /\ b[p].tick_upper_index = a[p].tick_upper_index
      /\ \A q \in PositionId \ {p} : b[q] = a[q]
  BY <1>1 DEF Position
<1>4. Within(x, b[p]) = Within(x, a[p]) /\ Upper(b[p]) = Upper(a[p])
      /\ Lower(b[p]) = Lower(a[p])
  BY <1>3, Zenon DEF Within, Upper, Lower
<1>5. /\ OwedA(a, x)[p] = l * d /\ OwedB(a, x)[p] = l * e
      /\ OwedA(b, x)[p] = (l + delta) * d /\ OwedB(b, x)[p] = (l + delta) * e
  <2>1. /\ OwedA(a, x)[p] = l * d /\ OwedB(a, x)[p] = l * e
    BY <1>1, OwedTypes
  <2>2. /\ OwedA(b, x)[p] = b[p].liquidity
                              * (Shares[Within(x, b[p])] - Shares[Upper(b[p])])
        /\ OwedB(b, x)[p] = b[p].liquidity * (Within(x, b[p]) - Lower(b[p]))
    BY <1>1, OwedTypes
  <2> QED
    BY <1>3, <1>4, <2>1, <2>2, Zenon
<1> HIDE DEF d, e, l
<1>6. (l + delta) * d = l * d + delta * d /\ (l + delta) * e = l * e + delta * e
  BY <1>1, <1>2
<1>7. delta * d \in Int /\ delta * e \in Int
  BY <1>1, <1>2
<1>8. \A q \in (1 .. N) \ {p} : OwedA(b, x)[q] = OwedA(a, x)[q]
                                  /\ OwedB(b, x)[q] = OwedB(a, x)[q]
  BY <1>3, OwedTypes DEF PositionId
<1>9. /\ OwedA(a, x) \in [1 .. N -> Int] /\ OwedA(b, x) \in [1 .. N -> Int]
      /\ OwedB(a, x) \in [1 .. N -> Int] /\ OwedB(b, x) \in [1 .. N -> Int]
  BY OwedTypes
<1>10. Updates(OwedA(a, x), OwedA(b, x), p, delta * d)
  BY <1>1, <1>5, <1>6, <1>7, <1>8, <1>9 DEF Updates, PositionId
<1>11. Updates(OwedB(a, x), OwedB(b, x), p, delta * e)
  BY <1>1, <1>5, <1>6, <1>7, <1>8, <1>9 DEF Updates, PositionId
<1> QED
  BY <1>10, <1>11, TotalUpdate DEF d, e

\* The price moves from x to y, within the ranges of the positions active at t.
Moves(accounts, t, x, y) ==
    \A p \in PositionId : accounts[p].liquidity > 0 =>
        IF /\ accounts[p].tick_lower_index <= t
           /\ t < accounts[p].tick_upper_index
        THEN Within(x, accounts[p]) = x /\ Within(y, accounts[p]) = y
        ELSE Within(y, accounts[p]) = Within(x, accounts[p])

\* Then only what these are worth changes, and by their liquidity times the move.
LEMMA OwedMoves ==
  ASSUME NEW a \in Accounts, NEW t \in Int, NEW x \in SqrtPrice, NEW y \in SqrtPrice,
         Moves(a, t, x, y)
  PROVE  LET active == Total(ActiveAt(a, t))
         IN  /\ active \in Nat
             /\ Total(OwedA(a, y)) = Total(OwedA(a, x)) + active * (Shares[y] - Shares[x])
             /\ Total(OwedB(a, y)) = Total(OwedB(a, x)) + active * (y - x)
<1> DEFINE f == ActiveAt(a, t)
           d == Shares[y] - Shares[x]
           e == y - x
           g == [p \in 1 .. N |-> d * f[p]]
           h == [p \in 1 .. N |-> e * f[p]]
<1>1. a \in [PositionId -> Position]
  BY DEF Accounts
<1>2. f \in [1 .. N -> Int] /\ Total(f) \in Nat
  BY <1>1, ContributionInts
<1>3. d \in Int /\ e \in Int /\ x \in Int /\ y \in Int
  BY ShareFacts
<1>4. ASSUME NEW p \in 1 .. N
      PROVE  /\ OwedA(a, y)[p] = OwedA(a, x)[p] + g[p]
             /\ OwedB(a, y)[p] = OwedB(a, x)[p] + h[p]
  <2> DEFINE l == a[p].liquidity
             v == Within(x, a[p])
             w == Within(y, a[p])
             low == Lower(a[p])
             high == Upper(a[p])
             active == a[p].tick_lower_index <= t /\ t < a[p].tick_upper_index
  <2>1. p \in PositionId
    BY DEF PositionId
  <2>2. l \in Nat /\ v \in Nat /\ w \in Nat /\ low \in Nat /\ Shares[v] \in Nat
        /\ Shares[w] \in Nat /\ Shares[high] \in Nat
    BY <2>1, Ranges, ShareFacts
  <2>3. /\ OwedA(a, x)[p] = l * (Shares[v] - Shares[high])
        /\ OwedA(a, y)[p] = l * (Shares[w] - Shares[high])
        /\ OwedB(a, x)[p] = l * (v - low)
        /\ OwedB(a, y)[p] = l * (w - low)
    BY <2>1, OwedTypes
  <2>4. f[p] = IF active THEN l ELSE 0
    BY <2>1 DEF ActiveAt
  <2>5. l > 0 => IF active THEN v = x /\ w = y ELSE w = v
    BY <2>1 DEF Moves
  <2>6. g[p] = d * f[p] /\ h[p] = e * f[p]
    OBVIOUS
  <2> HIDE DEF f, g, h, l, v, w, low, high, active
  <2>7. CASE l = 0
    BY <1>3, <2>2, <2>3, <2>4, <2>6, <2>7
  <2>8. CASE l > 0 /\ active
    <3>1. f[p] = l /\ v = x /\ w = y
      BY <2>4, <2>5, <2>8
    <3>2. l * (Shares[y] - Shares[high]) = l * (Shares[x] - Shares[high]) + d * l
      BY <2>2, <3>1
    <3>3. l * (y - low) = l * (x - low) + e * l
      BY <1>3, <2>2
    <3> QED
      BY <2>3, <2>6, <3>1, <3>2, <3>3
  <2>9. CASE l > 0 /\ ~active
    <3>1. f[p] = 0 /\ w = v
      BY <2>4, <2>5, <2>9
    <3>2. g[p] = 0 /\ h[p] = 0
      BY <1>3, <2>6, <3>1
    <3> QED
      BY <2>2, <2>3, <3>1, <3>2
  <2> QED
    BY <2>2, <2>7, <2>8, <2>9
<1>5. g \in [1 .. N -> Int] /\ h \in [1 .. N -> Int]
  <2>1. \A p \in 1 .. N : d * f[p] \in Int /\ e * f[p] \in Int
    BY <1>2, <1>3
  <2> QED
    BY <2>1
<1>6. \A p \in 1 .. N : g[p] = d * f[p] /\ h[p] = e * f[p]
  OBVIOUS
<1>7. /\ OwedA(a, x) \in [1 .. N -> Int] /\ OwedA(a, y) \in [1 .. N -> Int]
      /\ OwedB(a, x) \in [1 .. N -> Int] /\ OwedB(a, y) \in [1 .. N -> Int]
  BY OwedTypes
<1> HIDE DEF f, d, e, g, h
<1>8. Total(g) = d * Total(f) /\ Total(h) = e * Total(f)
  BY <1>2, <1>3, <1>5, <1>6, TotalScale
<1>9. /\ Total(OwedA(a, y)) = Total(OwedA(a, x)) + Total(g)
      /\ Total(OwedB(a, y)) = Total(OwedB(a, x)) + Total(h)
  <2>1. /\ \A p \in 1 .. N : OwedA(a, y)[p] = OwedA(a, x)[p] + g[p]
        /\ \A p \in 1 .. N : OwedB(a, y)[p] = OwedB(a, x)[p] + h[p]
    BY <1>4
  <2> QED
    BY <2>1, <1>5, <1>7, TotalPlus, Zenon
<1>10. d * Total(f) = Total(f) * d /\ e * Total(f) = Total(f) * e
  BY <1>2, <1>3
<1> QED
  BY <1>2, <1>8, <1>9, <1>10 DEF f, d, e

-----------------------------------------------------------------------------
\* The positions of the pool, at its price and at that of a swap.

\* calculate_liquidity_token_deltas compares ticks where Within compares prices.
LEMMA DeltasByTick ==
  ASSUME IInv, NEW p \in PositionId, NEW l, NEW round_up
  PROVE  TokenDeltas(positions[p], l, round_up)
            = [a |-> get_amount_delta_a(Within(pool.sqrt_price, positions[p]),
                                        Upper(positions[p]), l, round_up),
               b |-> get_amount_delta_b(Lower(positions[p]),
                                        Within(pool.sqrt_price, positions[p]),
                                        l, round_up)]
<1> DEFINE x == pool.sqrt_price
           t == pool.tick_current_index
           low == positions[p].tick_lower_index
           high == positions[p].tick_upper_index
           price(v) == sqrt_price_from_tick_index[v]
           from == IF t < low THEN price(low)
                   ELSE IF t < high THEN x ELSE price(high)
<1>1. positions \in Accounts /\ positions \in [PositionId -> Position]
  BY PositionsAreAccounts
<1>2. low \in TickIndex /\ high \in TickIndex /\ low <= high
  BY <1>1, PositionTypes DEF Accounts
<1>3. pool \in Pool
  BY DEF IInv, TypeOK
<1>4. x \in SqrtPrice /\ t \in CurrentTick
  BY <1>3 DEF Pool
<1>5. PriceAtTick(x, t)
  BY DEF IInv, PriceMatchesTick
<1>6. /\ MIN_TICK_INDEX \in Int /\ MAX_TICK_INDEX \in Int
      /\ TickIndex = MIN_TICK_INDEX .. MAX_TICK_INDEX
  BY TickAssumption DEF TickIndex
<1>7. t \in Int /\ low \in Int /\ high \in Int /\ x \in Nat
  BY <1>2, <1>4, TickInts, PriceMonotone
<1>8. /\ \A v \in TickIndex : price(v) \in Nat
      /\ \A v, w \in TickIndex : v <= w => price(v) <= price(w)
  BY PriceMonotone
<1>9. /\ t >= MIN_TICK_INDEX => price(t) <= x
      /\ t < MAX_TICK_INDEX => x <= price(t + 1)
  BY <1>5 DEF PriceAtTick
<1>10. Within(x, positions[p])
          = IF x < price(low) THEN price(low)
            ELSE IF x > price(high) THEN price(high) ELSE x
  BY Zenon DEF Within, Lower, Upper
<1>11. t \in MIN_TICK_INDEX - 1 .. MAX_TICK_INDEX
  BY <1>4 DEF CurrentTick
<1> HIDE DEF x, t, low, high, price
<1>12. from = Within(x, positions[p])
  <2>1. CASE t < low
    <3>1. t + 1 \in TickIndex /\ t + 1 <= low /\ t < MAX_TICK_INDEX
      BY <1>2, <1>6, <1>7, <1>11, <2>1
    <3>2. x <= price(low)
      BY <1>2, <1>7, <1>8, <1>9, <3>1
    <3>3. price(low) <= price(high) /\ price(low) \in Nat /\ price(high) \in Nat
      BY <1>2, <1>8
    <3> QED
      BY <1>7, <1>10, <2>1, <3>2, <3>3
  <2>2. CASE low <= t /\ t < high
    <3>1. t \in TickIndex /\ t + 1 \in TickIndex /\ t + 1 <= high
          /\ t < MAX_TICK_INDEX /\ t >= MIN_TICK_INDEX
      BY <1>2, <1>6, <1>7, <2>2
    <3>2. price(low) <= x /\ x <= price(high)
      <4>1. price(low) <= price(t) /\ price(t + 1) <= price(high)
        BY <1>2, <1>8, <2>2, <3>1
      <4>2. price(t) <= x /\ x <= price(t + 1)
        BY <1>9, <3>1
      <4>3. price(low) \in Nat /\ price(high) \in Nat /\ price(t) \in Nat
            /\ price(t + 1) \in Nat
        BY <1>2, <1>8, <3>1
      <4> QED
        BY <1>7, <4>1, <4>2, <4>3
    <3>3. price(low) \in Nat /\ price(high) \in Nat
      BY <1>2, <1>8
    <3> QED
      BY <1>7, <1>10, <2>2, <3>2, <3>3
  <2>3. CASE high <= t
    <3>1. t \in TickIndex /\ t >= MIN_TICK_INDEX
      BY <1>2, <1>6, <1>7, <1>11, <2>3
    <3>2. price(high) <= x
      <4>1. price(high) <= price(t) /\ price(t) <= x
        BY <1>2, <1>8, <1>9, <2>3, <3>1
      <4>2. price(high) \in Nat /\ price(t) \in Nat
        BY <1>2, <1>8, <3>1
      <4> QED
        BY <1>7, <4>1, <4>2
    <3>3. price(low) <= price(high) /\ price(low) \in Nat /\ price(high) \in Nat
      BY <1>2, <1>8
    <3> QED
      BY <1>2, <1>7, <1>10, <2>3, <3>2, <3>3
  <2> QED
    BY <1>7, <2>1, <2>2, <2>3
<1>13. TokenDeltas(positions[p], l, round_up)
          = [a |-> get_amount_delta_a(from, price(high), l, round_up),
             b |-> get_amount_delta_b(price(low), from, l, round_up)]
  BY Zenon DEF TokenDeltas, x, t, low, high, price
<1>14. Upper(positions[p]) = price(high) /\ Lower(positions[p]) = price(low)
  BY Zenon DEF Upper, Lower, price, low, high
<1> HIDE DEF from
<1> QED
  BY <1>12, <1>13, <1>14, Zenon DEF x

\* The target of a step lies ahead, and not beyond the tick that was found.
LEMMA TargetAhead ==
  ASSUME IInv, SwapContinues, NEW k, NEW next \in TickIndex, NextTickFound(k, next)
  PROVE  LET target == SqrtPriceTarget(next)
             tick_price == sqrt_price_from_tick_index[next]
         IN  /\ target \in SqrtPrice
             /\ IF swap.a_to_b
                THEN target <= swap.sqrt_price /\ tick_price <= target
                ELSE swap.sqrt_price <= target /\ target <= tick_price
<1> DEFINE x == swap.sqrt_price
           t == swap.tick_index
           price(v) == sqrt_price_from_tick_index[v]
<1>1. /\ swap.in_progress
      /\ swap.a_to_b => swap.limit < x /\ t >= MIN_TICK_INDEX
      /\ ~swap.a_to_b => x < swap.limit /\ t < MAX_TICK_INDEX
  BY SwapHasRoom
<1>2. /\ swap.a_to_b \in BOOLEAN /\ swap.limit \in SqrtPrice
      /\ x \in SqrtPrice /\ t \in CurrentTick
  BY <1>1, SwapType
<1>3. /\ swap.a_to_b => next <= t
      /\ ~swap.a_to_b => t < next
  BY <1>2, FoundTick
<1>4. PriceAtTick(x, t)
  BY <1>1 DEF IInv, PriceMatchesTick
<1>5. t \in Int /\ next \in Int /\ x \in Nat /\ swap.limit \in Nat
      /\ price(next) \in Nat /\ price(next) \in SqrtPrice
  BY <1>2, TickInts, PriceMonotone, PriceBounds
<1>6. /\ MIN_TICK_INDEX \in Int /\ MAX_TICK_INDEX \in Int
      /\ TickIndex = MIN_TICK_INDEX .. MAX_TICK_INDEX
      /\ t \in MIN_TICK_INDEX - 1 .. MAX_TICK_INDEX
  BY <1>2, TickAssumption DEF TickIndex, CurrentTick
<1>7. /\ \A v \in TickIndex : price(v) \in Nat
      /\ \A v, w \in TickIndex : v <= w => price(v) <= price(w)
  BY PriceMonotone
<1>8. /\ t >= MIN_TICK_INDEX => price(t) <= x
      /\ t < MAX_TICK_INDEX => x <= price(t + 1)
  BY <1>4 DEF PriceAtTick
<1>9. SqrtPriceTarget(next)
         = IF (IF swap.a_to_b THEN price(next) < swap.limit
                              ELSE price(next) > swap.limit)
           THEN swap.limit ELSE price(next)
  BY Zenon DEF SqrtPriceTarget
<1> HIDE DEF x, t, price
<1>10. CASE swap.a_to_b
  <2>1. t \in TickIndex /\ t >= MIN_TICK_INDEX /\ next <= t
    BY <1>1, <1>3, <1>5, <1>6, <1>10
  <2>2. price(next) <= price(t) /\ price(t) <= x /\ price(t) \in Nat
    BY <1>7, <1>8, <2>1
  <2> QED
    BY <1>1, <1>2, <1>5, <1>9, <1>10, <2>2 DEF x, price
<1>11. CASE ~swap.a_to_b
  <2>1. t + 1 \in TickIndex /\ t < MAX_TICK_INDEX /\ t + 1 <= next
    BY <1>1, <1>3, <1>5, <1>6, <1>11
  <2>2. x <= price(t + 1) /\ price(t + 1) <= price(next) /\ price(t + 1) \in Nat
    BY <1>7, <1>8, <2>1
  <2> QED
    BY <1>1, <1>2, <1>5, <1>9, <1>11, <2>2 DEF x, price
<1> QED
  BY <1>10, <1>11

\* Up to that tick the price stays within the range of every active position,
\* and outside of the range of every other one.
LEMMA StepMoves ==
  ASSUME IInv, SwapContinues, NEW k, NEW next \in TickIndex, NextTickFound(k, next),
         NEW y \in SqrtPrice,
         IF swap.a_to_b
         THEN sqrt_price_from_tick_index[next] <= y /\ y <= swap.sqrt_price
         ELSE swap.sqrt_price <= y /\ y <= sqrt_price_from_tick_index[next]
  PROVE  Moves(positions, swap.tick_index, swap.sqrt_price, y)
<1> DEFINE x == swap.sqrt_price
           t == swap.tick_index
           price(v) == sqrt_price_from_tick_index[v]
<1>1. /\ swap.in_progress
      /\ swap.a_to_b => t >= MIN_TICK_INDEX
      /\ ~swap.a_to_b => t < MAX_TICK_INDEX
  BY SwapHasRoom
<1>2. swap.a_to_b \in BOOLEAN /\ x \in SqrtPrice /\ t \in CurrentTick
  BY <1>1, SwapType
<1>3. /\ swap.a_to_b => /\ next <= t
                        /\ \A v \in InitializedTicks : ~(next < v /\ v <= t)
      /\ ~swap.a_to_b => /\ t < next
                         /\ \A v \in InitializedTicks : ~(t < v /\ v < next)
  BY <1>2, FoundTick
<1>4. PriceAtTick(x, t)
  BY <1>1 DEF IInv, PriceMatchesTick
<1>5. /\ t \in Int /\ next \in Int /\ x \in Nat /\ y \in Nat /\ price(next) \in Nat
      /\ swap.a_to_b => price(next) <= y /\ y <= x
      /\ ~swap.a_to_b => x <= y /\ y <= price(next)
  BY <1>2, TickInts, PriceMonotone, PriceBounds
<1>6. /\ MIN_TICK_INDEX \in Int /\ MAX_TICK_INDEX \in Int
      /\ TickIndex = MIN_TICK_INDEX .. MAX_TICK_INDEX
      /\ t \in MIN_TICK_INDEX - 1 .. MAX_TICK_INDEX
  BY <1>2, TickAssumption DEF TickIndex, CurrentTick
<1>7. /\ \A v \in TickIndex : price(v) \in Nat
      /\ \A v, w \in TickIndex : v <= w => price(v) <= price(w)
  BY PriceMonotone
<1>8. /\ t >= MIN_TICK_INDEX => price(t) <= x
      /\ t < MAX_TICK_INDEX => x <= price(t + 1)
  BY <1>4 DEF PriceAtTick
<1> HIDE DEF x, t, price
<1>9. ASSUME NEW p \in PositionId, positions[p].liquidity > 0
      PROVE  IF /\ positions[p].tick_lower_index <= t
                /\ t < positions[p].tick_upper_index
             THEN Within(x, positions[p]) = x /\ Within(y, positions[p]) = y
             ELSE Within(y, positions[p]) = Within(x, positions[p])
  <2> DEFINE low == positions[p].tick_lower_index
             high == positions[p].tick_upper_index
             from == price(low)
             to == price(high)
  <2>1. positions \in Accounts /\ positions \in [PositionId -> Position]
    BY PositionsAreAccounts
  <2>2. low \in TickIndex /\ high \in TickIndex /\ low <= high
    BY <2>1, PositionTypes DEF Accounts
  <2>3. low \in InitializedTicks /\ high \in InitializedTicks
    BY <1>9, LiveTicks
  <2>4. low \in Int /\ high \in Int
    BY <2>2, TickInts
  <2>5. /\ from \in Nat /\ to \in Nat /\ from <= to
        /\ next <= low => price(next) <= from
        /\ next <= high => price(next) <= to
        /\ low <= next => from <= price(next)
        /\ high <= next => to <= price(next)
    BY <1>7, <2>2
  <2>6. t < low => x <= from
    <3>1. ASSUME t < low
          PROVE  t + 1 \in TickIndex /\ t + 1 <= low /\ t < MAX_TICK_INDEX
      BY <1>5, <1>6, <2>2, <2>4, <3>1
    <3>2. ASSUME t < low PROVE x <= price(t + 1) /\ price(t + 1) <= from
                               /\ price(t + 1) \in Nat
      BY <1>7, <1>8, <2>2, <3>1, <3>2
    <3> QED
      BY <1>5, <2>5, <3>2
  <2>7. low <= t => from <= x
    <3>1. ASSUME low <= t PROVE t \in TickIndex /\ t >= MIN_TICK_INDEX
      BY <1>5, <1>6, <2>2, <2>4, <3>1
    <3>2. ASSUME low <= t PROVE from <= price(t) /\ price(t) <= x /\ price(t) \in Nat
      BY <1>7, <1>8, <2>2, <3>1, <3>2
    <3> QED
      BY <1>5, <2>5, <3>2
  <2>8. t < high => x <= to
    <3>1. ASSUME t < high
          PROVE  t + 1 \in TickIndex /\ t + 1 <= high /\ t < MAX_TICK_INDEX
      BY <1>5, <1>6, <2>2, <2>4, <3>1
    <3>2. ASSUME t < high PROVE x <= price(t + 1) /\ price(t + 1) <= to
                                /\ price(t + 1) \in Nat
      BY <1>7, <1>8, <2>2, <3>1, <3>2
    <3> QED
      BY <1>5, <2>5, <3>2
  <2>9. high <= t => to <= x
    <3>1. ASSUME high <= t PROVE t \in TickIndex /\ t >= MIN_TICK_INDEX
      BY <1>5, <1>6, <2>2, <2>4, <3>1
    <3>2. ASSUME high <= t PROVE to <= price(t) /\ price(t) <= x /\ price(t) \in Nat
      BY <1>7, <1>8, <2>2, <3>1, <3>2
    <3> QED
      BY <1>5, <2>5, <3>2
  <2>10. \A z : Within(z, positions[p])
                   = IF z < from THEN from ELSE IF z > to THEN to ELSE z
    BY Zenon DEF Within, Lower, Upper, price
  <2> HIDE DEF low, high, from, to
  <2>11. CASE swap.a_to_b
    <3>1. /\ low <= t => low <= next
          /\ high <= t => high <= next
      BY <1>3, <1>5, <2>3, <2>4, <2>11
    <3> QED
      BY <1>5, <2>2, <2>4, <2>5, <2>6, <2>7, <2>8, <2>9, <2>10, <2>11, <3>1
      DEF low, high
  <2>12. CASE ~swap.a_to_b
    <3>1. /\ t < low => next <= low
          /\ t < high => next <= high
      BY <1>3, <1>5, <2>3, <2>4, <2>12
    <3> QED
      BY <1>5, <2>2, <2>4, <2>5, <2>6, <2>7, <2>8, <2>9, <2>10, <2>12, <3>1
      DEF low, high
  <2> QED
    BY <2>11, <2>12
<1> QED
  BY <1>9 DEF Moves, x, t

-----------------------------------------------------------------------------
\* The liquidity that the tokens in the vaults can buy.

\* SupplyAssumption, in units.
LEMMA UnitCost ==
  ASSUME NEW a \in Accounts, NEW p \in PositionId, NEW x \in SqrtPrice,
         a[p].liquidity > 0 => /\ a[p].tick_lower_index \in UsableTicks
                               /\ a[p].tick_upper_index \in UsableTicks
                               /\ a[p].tick_lower_index < a[p].tick_upper_index
  PROVE  (2 * MAX_U64 * Q64 * Unit) * a[p].liquidity
            <= (LiquiditySupply * Unit) * OwedB(a, x)[p]
                  + (LiquiditySupply * Q64 * Q64) * OwedA(a, x)[p]
<1> DEFINE l == a[p].liquidity
           w == Within(x, a[p])
           low == Lower(a[p])
           high == Upper(a[p])
           e == w - low
           d == Shares[w] - Shares[high]
           s == LiquiditySupply
           cost == 2 * MAX_U64 * Q64
           c == w * high
           q == Q64 * Q64
<1>1. /\ w \in SqrtPrice /\ low \in SqrtPrice /\ high \in SqrtPrice
      /\ low <= w /\ w <= high /\ l \in Nat
  BY Ranges
<1>2. /\ w \in Nat \ {0} /\ low \in Nat /\ high \in Nat \ {0}
      /\ Shares[w] \in Nat /\ Shares[high] \in Nat /\ Unit \in Nat
  BY <1>1, ShareFacts
<1>3. s \in Nat /\ MAX_U64 \in Nat /\ Q64 \in Nat
  BY LiquidityAssumption, TokensAssumption
<1>4. e \in Int /\ d \in Int /\ cost \in Int /\ c \in Nat \ {0} /\ q \in Nat
      /\ high - w \in Int
  BY <1>2, <1>3
<1>5. OwedA(a, x)[p] = l * d /\ OwedB(a, x)[p] = l * e
  BY OwedTypes
<1>6. ASSUME l > 0 PROVE cost * Unit <= s * (e * Unit + d * q)
  <2>1. s * (e * w * high + (high - w) * Q64 * Q64) >= 2 * MAX_U64 * Q64 * w * high
    <3>1. /\ a[p].tick_lower_index \in UsableTicks /\ a[p].tick_upper_index \in UsableTicks
          /\ a[p].tick_lower_index < a[p].tick_upper_index
      BY <1>6
    <3>2. w \in low .. high
      BY <1>1, <1>2
    <3> HIDE DEF w
    <3> QED
      BY <3>1, <3>2, SupplyAssumption DEF Lower, Upper
  <2>2. cost * c <= s * (e * c + (high - w) * q)
    <3>1. e * w * high = e * c /\ (high - w) * Q64 * Q64 = (high - w) * q
          /\ 2 * MAX_U64 * Q64 * w * high = cost * c
      BY <1>2, <1>3, <1>4
    <3> QED
      BY <1>2, <1>3, <1>4, <2>1, <3>1
  <2>3. Unit * (high - w) = c * d
    BY <1>1, ShareDistance
  <2> DEFINE m == cost * Unit
             n == s * (e * Unit + d * q)
             r == high - w
  <2> HIDE DEF e, d, c, cost, q, s, r
  <2>4. m \in Int /\ n \in Int /\ r \in Int
    BY <1>2, <1>3, <1>4 DEF r
  <2>5. c * m = Unit * (cost * c)
    BY <1>2, <1>4
  <2>6. c * n = Unit * (s * (e * c + r * q))
    <3>1. c * n = s * ((e * Unit) * c + (c * d) * q)
      BY <1>2, <1>3, <1>4
    <3>2. Unit * (s * (e * c + r * q)) = s * ((e * Unit) * c + (Unit * r) * q)
      BY <1>2, <1>3, <1>4, <2>4
    <3> QED
      BY <2>3, <3>1, <3>2 DEF r
  <2>7. Unit * (cost * c) <= Unit * (s * (e * c + r * q))
    <3>1. cost * c \in Int /\ s * (e * c + r * q) \in Int
      BY <1>2, <1>3, <1>4, <2>4
    <3>2. cost * c <= s * (e * c + r * q)
      BY <2>2 DEF r
    <3> HIDE DEF m, n
    <3> QED
      BY <1>2, <3>1, <3>2
  <2> HIDE DEF m, n
  <2>8. m <= n
    BY <1>4, <2>4, <2>5, <2>6, <2>7, Cancel
  <2> QED
    BY <2>8 DEF m, n
<1> HIDE DEF l, e, d, s, cost, c, q
<1>7. (cost * Unit) * l <= (s * Unit) * (l * e) + (s * q) * (l * d)
  <2> DEFINE m == cost * Unit
             n == s * (e * Unit + d * q)
  <2>1. m \in Int /\ n \in Int
    BY <1>2, <1>3, <1>4
  <2>2. n * l = (s * Unit) * (l * e) + (s * q) * (l * d)
    BY <1>1, <1>2, <1>3, <1>4
  <2>3. l > 0 => m <= n
    BY <1>6
  <2> HIDE DEF m, n
  <2>4. CASE l = 0
    <3>1. m * l = 0 /\ n * l = 0
      BY <2>1, <2>4
    <3> QED
      BY <2>2, <3>1 DEF m
  <2>5. CASE l > 0
    <3>1. m * l <= n * l
      BY <1>1, <2>1, <2>3, <2>5
    <3> QED
      BY <2>2, <3>1 DEF m
  <2> QED
    BY <1>1, <2>4, <2>5
<1>8. s * q = LiquiditySupply * Q64 * Q64 /\ cost * Unit = 2 * MAX_U64 * Q64 * Unit
  BY <1>2, <1>3 DEF s, q, cost
<1> QED
  BY <1>5, <1>7, <1>8 DEF s, l

LEMMA SupplyBought ==
  ASSUME NEW a \in Accounts, NEW x \in SqrtPrice, NEW held, Backed(a, held, x),
         held.a \in 0 .. MAX_U64, held.b \in 0 .. MAX_U64,
         \A p \in PositionId :
            a[p].liquidity > 0 => /\ a[p].tick_lower_index \in UsableTicks
                                  /\ a[p].tick_upper_index \in UsableTicks
                                  /\ a[p].tick_lower_index < a[p].tick_upper_index
  PROVE  Total(LiquidityOf(a)) <= LiquiditySupply
<1> DEFINE s == LiquiditySupply
           cost == 2 * MAX_U64 * Q64 * Unit
           ca == s * Q64 * Q64
           cb == s * Unit
           f == LiquidityOf(a)
           oa == OwedA(a, x)
           ob == OwedB(a, x)
           g == [p \in 1 .. N |-> cost * f[p]]
           ga == [p \in 1 .. N |-> ca * oa[p]]
           gb == [p \in 1 .. N |-> cb * ob[p]]
           h == [p \in 1 .. N |-> gb[p] + ga[p]]
<1>1. /\ s \in Nat /\ MAX_U64 \in Nat \ {0} /\ Q64 \in Nat \ {0}
      /\ Unit \in Nat \ {0}
  BY LiquidityAssumption, TokensAssumption, ShareFacts
<1>2. ca \in Int /\ cb \in Int
  BY <1>1
<1>3. cost \in Nat \ {0}
  <2>1. MAX_U64 * Q64 \in Nat \ {0}
    BY <1>1
  <2>2. MAX_U64 * Q64 * Unit \in Nat \ {0}
    BY <1>1, <2>1
  <2>3. cost = 2 * (MAX_U64 * Q64 * Unit)
    BY <1>1
  <2> QED
    BY <2>2, <2>3
<1>4. f \in [1 .. N -> Int] /\ Total(f) \in Nat
  BY ContributionInts DEF Accounts
<1>5. /\ oa \in [1 .. N -> Int] /\ ob \in [1 .. N -> Int]
      /\ Total(oa) \in Nat /\ Total(ob) \in Nat
  BY OwedTypes, TotalsOwed
<1>6. ASSUME NEW p \in 1 .. N PROVE cost * f[p] <= cb * ob[p] + ca * oa[p]
  <2>1. p \in PositionId /\ f[p] = a[p].liquidity
    BY DEF PositionId, LiquidityOf
  <2> QED
    BY <2>1, UnitCost
<1> HIDE DEF cost, ca, cb, f, oa, ob
<1>7. /\ g \in [1 .. N -> Int] /\ ga \in [1 .. N -> Int] /\ gb \in [1 .. N -> Int]
      /\ h \in [1 .. N -> Int]
  <2>1. \A p \in 1 .. N : cost * f[p] \in Int /\ ca * oa[p] \in Int /\ cb * ob[p] \in Int
    BY <1>2, <1>3, <1>4, <1>5
  <2> QED
    BY <2>1
<1>8. /\ \A p \in 1 .. N : g[p] = cost * f[p]
      /\ \A p \in 1 .. N : ga[p] = ca * oa[p]
      /\ \A p \in 1 .. N : gb[p] = cb * ob[p]
      /\ \A p \in 1 .. N : h[p] = gb[p] + ga[p]
      /\ \A p \in 1 .. N : g[p] <= h[p]
  BY <1>6
<1> HIDE DEF g, ga, gb, h
<1>9. Total(g) = cost * Total(f)
  <2>1. cost \in Int
    BY <1>3
  <2> QED
    BY <2>1, <1>4, <1>7, <1>8, TotalScale, Zenon
<1>10. Total(ga) = ca * Total(oa)
  BY <1>2, <1>5, <1>7, <1>8, TotalScale
<1>11. Total(gb) = cb * Total(ob)
  BY <1>2, <1>5, <1>7, <1>8, TotalScale
<1>12. Total(h) = Total(gb) + Total(ga)
  BY <1>7, <1>8, TotalPlus
<1>13. Total(g) <= Total(h)
  BY <1>7, <1>8, TotalMonotone
<1>14. cost * Total(f) <= cb * Total(ob) + ca * Total(oa)
  BY <1>9, <1>10, <1>11, <1>12, <1>13
<1>15. cb * Total(ob) + ca * Total(oa) <= cost * s
  <2> DEFINE m == MAX_U64 * Q64 * Unit
             ta == Total(oa)
             tb == Total(ob)
  <2>1. Q64 * ta <= Unit * MAX_U64
    <3>1. Unit * held.a <= Unit * MAX_U64
      BY <1>1
    <3>2. Q64 * ta <= Unit * held.a /\ Unit * held.a \in Int
          /\ Unit * MAX_U64 \in Int /\ Q64 * ta \in Int
      BY <1>1, <1>5 DEF Backed, oa
    <3> QED
      BY <3>1, <3>2
  <2>2. tb <= Q64 * MAX_U64
    <3>1. Q64 * held.b <= Q64 * MAX_U64
      BY <1>1
    <3>2. tb <= Q64 * held.b /\ Q64 * held.b \in Int
          /\ Q64 * MAX_U64 \in Int /\ tb \in Int
      BY <1>1, <1>5 DEF Backed, ob
    <3> QED
      BY <3>1, <3>2
  <2>3. ta \in Nat /\ tb \in Nat
    BY <1>5
  <2> HIDE DEF ta, tb
  <2>4. ca * ta <= s * m
    <3>1. (s * Q64) * (Q64 * ta) <= (s * Q64) * (Unit * MAX_U64)
      <4>1. s * Q64 \in Nat /\ Q64 * ta \in Int /\ Unit * MAX_U64 \in Int
        BY <1>1, <2>3
      <4> QED
        BY <2>1, <4>1
    <3>2. ca * ta = (s * Q64) * (Q64 * ta)
      BY <1>1, <2>3 DEF ca
    <3>3. s * m = (s * Q64) * (Unit * MAX_U64)
      BY <1>1
    <3> QED
      BY <3>1, <3>2, <3>3
  <2>5. cb * tb <= s * m
    <3>1. cb * tb <= cb * (Q64 * MAX_U64)
      <4>1. cb \in Nat /\ Q64 * MAX_U64 \in Int
        BY <1>1 DEF cb
      <4> QED
        BY <2>2, <2>3, <4>1
    <3>2. s * m = cb * (Q64 * MAX_U64)
      BY <1>1 DEF cb
    <3> QED
      BY <3>1, <3>2
  <2>6. cost * s = s * m + s * m
    BY <1>1 DEF cost
  <2>7. ca * ta \in Int /\ cb * tb \in Int /\ s * m \in Int
    BY <1>1, <1>2, <2>3
  <2> HIDE DEF m
  <2> QED
    BY <2>4, <2>5, <2>6, <2>7 DEF ta, tb
<1>16. cost * Total(f) <= cost * s
  <2>1. cost * Total(f) \in Int /\ cb * Total(ob) + ca * Total(oa) \in Int
        /\ cost * s \in Int
    BY <1>1, <1>2, <1>3, <1>4, <1>5
  <2> QED
    BY <1>14, <1>15, <2>1
<1>17. Total(f) <= s
  BY <1>1, <1>3, <1>4, <1>16, Cancel
<1> QED
  BY <1>17 DEF f

-----------------------------------------------------------------------------
\* One step of a swap.

\* What StepDoes says of the step to next, with the worth of the move in units.
LEMMA StepWorth ==
  ASSUME IInv, TokensTypeOK, SwapContinues, NEW k, NEW next \in TickIndex,
         NextTickFound(k, next), IsOk(StepTo(next))
  PROVE  LET step == StepTo(next)
             target == SqrtPriceTarget(next)
             x == swap.sqrt_price
             y == step.next_price
             l == swap.liquidity
             paid == step.amount_in + step.fee_amount
         IN  /\ y \in SqrtPrice
             /\ y \in IF swap.a_to_b THEN target .. x ELSE x .. target
             /\ step.amount_in \in Nat /\ step.amount_out \in Nat
             /\ step.fee_amount \in Nat
             /\ trade.is_input =>
                   /\ paid <= trade.amount_remaining
                   /\ y # target => paid = trade.amount_remaining
             /\ ~trade.is_input =>
                   /\ step.amount_out <= trade.amount_remaining
                   /\ y # target => step.amount_out = trade.amount_remaining
             /\ y # target => l > 0
             /\ l = 0 \/ x = target =>
                   step.amount_in = 0 /\ step.amount_out = 0 /\ step.fee_amount = 0
             /\ IF swap.a_to_b
                THEN /\ Q64 * (l * (Shares[y] - Shares[x])) <= Unit * step.amount_in
                     /\ Q64 * step.amount_out <= l * (x - y)
                ELSE /\ l * (y - x) <= Q64 * step.amount_in
                     /\ Unit * step.amount_out <= Q64 * (l * (Shares[x] - Shares[y]))
<1> DEFINE i == [amount |-> trade.amount_remaining, fee_rate |-> fee_rate,
                 liquidity |-> swap.liquidity, price |-> swap.sqrt_price,
                 target |-> SqrtPriceTarget(next), is_input |-> trade.is_input,
                 a_to_b |-> swap.a_to_b]
           step == StepTo(next)
           target == SqrtPriceTarget(next)
           x == swap.sqrt_price
           y == step.next_price
           l == swap.liquidity
<1>1. swap.in_progress
  BY DEF SwapContinues
<1>2. swap.a_to_b \in BOOLEAN /\ x \in SqrtPrice /\ l \in U128
  BY <1>1, SwapType
<1>3. /\ target \in SqrtPrice
      /\ IF swap.a_to_b THEN target <= x ELSE x <= target
  BY <1>2, TargetAhead, Zenon
<1>4. trade.amount_remaining \in 0 .. MAX_U64 /\ trade.is_input \in BOOLEAN
  BY DEF TokensTypeOK
<1>5. Math!SqrtPrices = SqrtPrice
  BY DEF Math!SqrtPrices, SqrtPrice
<1>6. Math!Legal(i)
  <2>1. i \in Math!Inputs
    BY <1>2, <1>3, <1>4, <1>5, TokensAssumption DEF Math!Inputs, U128
  <2>2. i.target \in Math!Targets(i.price, i.a_to_b)
    BY <1>2, <1>3, <1>5 DEF Math!Targets
  <2> QED
    BY <2>1, <2>2 DEF Math!Legal
<1>7. Math!StepOf(i) = step
  BY SameStep DEF StepTo
<1>8. Math!IsOk(Math!StepOf(i))
  <2>1. \A s : Math!IsOk(s) = IsOk(s)
    BY SameStep
  <2> QED
    BY <1>7, <2>1, Zenon
<1>9. /\ i.amount = trade.amount_remaining /\ i.liquidity = l /\ i.price = x
      /\ i.target = target /\ i.is_input = trade.is_input /\ i.a_to_b = swap.a_to_b
  OBVIOUS
<1> HIDE DEF i
<1>10. LET s == Math!StepOf(i)
           p == i.price
           q == s.next_price
           m == i.liquidity
       IN  /\ q \in Math!SqrtPrices
           /\ q \in IF i.a_to_b THEN i.target .. p ELSE p .. i.target
           /\ s.amount_in \in Nat /\ s.amount_out \in Nat /\ s.fee_amount \in Nat
           /\ i.is_input =>
                 /\ s.amount_in + s.fee_amount <= i.amount
                 /\ q # i.target => s.amount_in + s.fee_amount = i.amount
           /\ ~i.is_input =>
                 /\ s.amount_out <= i.amount
                 /\ q # i.target => s.amount_out = i.amount
           /\ q # i.target => m > 0
           /\ m = 0 \/ p = i.target =>
                 s.amount_in = 0 /\ s.amount_out = 0 /\ s.fee_amount = 0
           /\ IF i.a_to_b
              THEN /\ s.amount_in * p * q >= m * Math!Distance(p, q) * Q64
                   /\ s.amount_out * Q64 <= m * Math!Distance(p, q)
              ELSE /\ s.amount_in * Q64 >= m * Math!Distance(p, q)
                   /\ s.amount_out * p * q <= m * Math!Distance(p, q) * Q64
  BY <1>6, <1>8, MathAssumptions, Math!StepDoes, Zenon
<1> HIDE DEF step, target, x, l
<1>11. /\ y \in SqrtPrice
       /\ y \in IF swap.a_to_b THEN target .. x ELSE x .. target
       /\ step.amount_in \in Nat /\ step.amount_out \in Nat /\ step.fee_amount \in Nat
       /\ trade.is_input =>
             /\ step.amount_in + step.fee_amount <= trade.amount_remaining
             /\ y # target =>
                   step.amount_in + step.fee_amount = trade.amount_remaining
       /\ ~trade.is_input =>
             /\ step.amount_out <= trade.amount_remaining
             /\ y # target => step.amount_out = trade.amount_remaining
       /\ y # target => l > 0
       /\ l = 0 \/ x = target =>
             step.amount_in = 0 /\ step.amount_out = 0 /\ step.fee_amount = 0
       /\ IF swap.a_to_b
          THEN /\ step.amount_in * x * y >= l * Math!Distance(x, y) * Q64
               /\ step.amount_out * Q64 <= l * Math!Distance(x, y)
          ELSE /\ step.amount_in * Q64 >= l * Math!Distance(x, y)
               /\ step.amount_out * x * y <= l * Math!Distance(x, y) * Q64
  BY <1>5, <1>7, <1>9, <1>10, Zenon
<1> DEFINE in == step.amount_in
           out == step.amount_out
<1>12. /\ x \in Nat /\ y \in Nat /\ l \in Nat /\ in \in Nat /\ out \in Nat
       /\ Q64 \in Nat
  BY <1>2, <1>11, PriceBounds, U128Nat, TokensAssumption
<1>13. Math!Distance(x, y) = IF x > y THEN x - y ELSE y - x
  BY DEF Math!Distance
<1> HIDE DEF y, in, out
<1>14. IF swap.a_to_b
       THEN /\ Q64 * (l * (Shares[y] - Shares[x])) <= Unit * in
            /\ Q64 * out <= l * (x - y)
       ELSE /\ l * (y - x) <= Q64 * in
            /\ Unit * out <= Q64 * (l * (Shares[x] - Shares[y]))
  <2>1. CASE swap.a_to_b
    <3>1. Math!Distance(x, y) = x - y
      <4>1. y <= x
        BY <1>3, <1>11, <1>12, <2>1, PriceBounds
      <4> QED
        BY <1>12, <1>13, <4>1
    <3>2. in * x * y >= l * (x - y) * Q64 /\ out * Q64 <= l * (x - y)
      BY <1>11, <2>1, <3>1, Zenon DEF in, out
    <3>3. in * (y * x) >= l * (x - y) * Q64
      BY <1>12, <3>2
    <3>4. Unit * in >= Q64 * (l * (Shares[y] - Shares[x]))
      BY <1>2, <1>11, <1>12, <3>3, AmountInUnits
    <3>5. Q64 * out <= l * (x - y)
      BY <1>12, <3>2
    <3> QED
      BY <2>1, <3>4, <3>5
  <2>2. CASE ~swap.a_to_b
    <3>1. Math!Distance(x, y) = y - x
      <4>1. x <= y
        BY <1>3, <1>11, <1>12, <2>2, PriceBounds
      <4> QED
        BY <1>12, <1>13, <4>1
    <3>2. in * Q64 >= l * (y - x) /\ out * x * y <= l * (y - x) * Q64
      BY <1>11, <2>2, <3>1, Zenon DEF in, out
    <3>3. out * (x * y) <= l * (y - x) * Q64
      BY <1>12, <3>2
    <3>4. Unit * out <= Q64 * (l * (Shares[x] - Shares[y]))
      BY <1>2, <1>11, <1>12, <3>3, AmountInUnits
    <3>5. l * (y - x) <= Q64 * in
      BY <1>12, <3>2
    <3> QED
      BY <2>2, <3>4, <3>5
  <2> QED
    BY <2>1, <2>2
<1> QED
  BY <1>11, <1>14, Zenon DEF step, target, x, y, l, in, out

-----------------------------------------------------------------------------
\* The inductive invariant.

\* What the pool has taken in a swap, its fee included, and what it has given.
Taken(deal) == IF deal.is_input THEN deal.amount - deal.amount_remaining
                                ELSE deal.amount_calculated
Given(deal) == IF deal.is_input THEN deal.amount_calculated
                                ELSE deal.amount - deal.amount_remaining

\* The vaults if the swap ended here.
Settled(held, a_to_b, deal) ==
    IF a_to_b
    THEN [a |-> held.a + (Taken(deal) - deal.fees), b |-> held.b - Given(deal)]
    ELSE [a |-> held.a - Given(deal), b |-> held.b + (Taken(deal) - deal.fees)]

\* The tokens of a swap in progress are owed at the price it has reached.
SwapBacked ==
    swap.in_progress =>
        /\ Backed(positions, Settled(vault, swap.a_to_b, trade), swap.sqrt_price)
        /\ swap.amount_remains <=> trade.amount_remaining > 0
        /\ trade.amount_remaining <= trade.amount
        /\ trade.fees <= Taken(trade)

TokensInv ==
    /\ IInv
    /\ TokensTypeOK
    /\ Backed(positions, vault, pool.sqrt_price)
    /\ SwapBacked

\* The fields of the records.
LEMMA TokenTypes ==
  ASSUME TokensTypeOK
  PROVE  /\ vault.a \in 0 .. MAX_U64 /\ vault.b \in 0 .. MAX_U64
         /\ vault.a \in Nat /\ vault.b \in Nat
         /\ vault = [a |-> vault.a, b |-> vault.b]
         /\ trade.is_input \in BOOLEAN /\ trade.amount \in Nat
         /\ trade.amount <= MAX_U64
         /\ trade.amount_remaining \in Nat /\ trade.amount_calculated \in Nat
         /\ trade.fees \in Nat /\ trade.amount_calculated <= MAX_U64
         /\ MAX_U64 \in Nat /\ Q64 \in Nat
<1>1. vault \in [a: 0 .. MAX_U64, b: 0 .. MAX_U64]
  BY DEF TokensTypeOK
<1>2. trade \in [is_input: BOOLEAN, amount: 0 .. MAX_U64,
                 amount_remaining: 0 .. MAX_U64,
                 amount_calculated: 0 .. MAX_U64, fees: 0 .. MAX_U64]
  BY DEF TokensTypeOK
<1>3. MAX_U64 \in Nat /\ Q64 \in Nat
  BY TokensAssumption
<1> QED
  BY <1>1, <1>2, <1>3

LEMMA PoolPrice ==
  ASSUME IInv
  PROVE  pool.sqrt_price \in SqrtPrice /\ pool \in Pool
BY DEF IInv, TypeOK, Pool

\* At first nothing is owed.
LEMMA TokensInitInv == TokensInit => TokensInv
<1> SUFFICES ASSUME TokensInit PROVE TokensInv
  OBVIOUS
<1>1. Init /\ vault = [a |-> 0, b |-> 0] /\ trade = NoTrade
  BY DEF TokensInit
<1>2. IInv
  BY <1>1, InitInv
<1>3. TokensTypeOK
  BY <1>1, TokensAssumption DEF TokensTypeOK, NoTrade
<1> DEFINE x == pool.sqrt_price
<1>4. x \in SqrtPrice
  BY <1>2, PoolPrice
<1>5. positions \in Accounts
  BY <1>2, PositionsAreAccounts
<1>6. \A p \in PositionId : positions[p].liquidity = 0
  BY <1>1 DEF Init, ClosedPosition
<1> HIDE DEF x
<1>7. ASSUME NEW p \in 1 .. N
      PROVE  /\ OwedA(positions, x)[p] = 0 * OwedA(positions, x)[p]
             /\ OwedB(positions, x)[p] = 0 * OwedB(positions, x)[p]
  <2>1. p \in PositionId /\ positions[p].liquidity = 0
    BY <1>6 DEF PositionId
  <2>2. /\ Within(x, positions[p]) \in Nat /\ Lower(positions[p]) \in Nat
        /\ Shares[Within(x, positions[p])] \in Nat
        /\ Shares[Upper(positions[p])] \in Nat
    BY <1>4, <1>5, <2>1, Ranges, ShareFacts
  <2>3. OwedA(positions, x)[p] = 0 /\ OwedB(positions, x)[p] = 0
    BY <1>4, <1>5, <2>1, <2>2, OwedTypes
  <2> QED
    BY <2>3
<1>8. /\ OwedA(positions, x) \in [1 .. N -> Int]
      /\ OwedB(positions, x) \in [1 .. N -> Int] /\ 0 \in Int
  BY <1>4, <1>5, OwedTypes
<1>9. /\ Total(OwedA(positions, x)) = 0 * Total(OwedA(positions, x))
      /\ Total(OwedB(positions, x)) = 0 * Total(OwedB(positions, x))
  <2>1. /\ \A p \in 1 .. N : OwedA(positions, x)[p] = 0 * OwedA(positions, x)[p]
        /\ \A p \in 1 .. N : OwedB(positions, x)[p] = 0 * OwedB(positions, x)[p]
    BY <1>7
  <2> QED
    BY <1>8, <2>1, TotalScale, Zenon
<1>10. Total(OwedA(positions, x)) = 0 /\ Total(OwedB(positions, x)) = 0
  BY <1>4, <1>5, <1>9, TotalsOwed
<1>11. Backed(positions, vault, x)
  BY <1>1, <1>10, ShareFacts, TokensAssumption DEF Backed
<1>12. SwapBacked
  BY <1>1 DEF SwapBacked, Init, NoSwap
<1> QED
  BY <1>2, <1>3, <1>11, <1>12 DEF TokensInv, x

\* Only empty positions come and go while the tokens rest.
LEMMA RestInv ==
  ASSUME TokensInv, IInv', UNCHANGED tokenVars, pool' = pool, swap' = swap,
         NEW p \in PositionId, positions[p].liquidity = 0, positions'[p].liquidity = 0,
         \A q \in PositionId \ {p} : positions'[q] = positions[q],
         ~swap.in_progress
  PROVE  TokensInv'
<1> DEFINE x == pool.sqrt_price
<1>1. positions \in Accounts
  BY PositionsAreAccounts DEF TokensInv
<1>2. positions' \in Accounts
  BY DEF IInv, TypeOK, PositionsOK, WellFormed, Accounts
<1>3. x \in SqrtPrice
  BY PoolPrice DEF TokensInv
<1>4. OwedA(positions', x) = OwedA(positions, x) /\ OwedB(positions', x) = OwedB(positions, x)
  BY <1>1, <1>2, <1>3, OwedSame
<1>5. Backed(positions', vault, x)
  BY <1>4 DEF TokensInv, Backed
<1>6. Backed(positions, vault, pool.sqrt_price)'
  BY <1>5 DEF tokenVars
<1>7. TokensTypeOK'
  BY DEF TokensInv, TokensTypeOK, tokenVars
<1>8. SwapBacked'
  BY DEF SwapBacked
<1> QED
  BY <1>6, <1>7, <1>8 DEF TokensInv

\* Liquidity that comes or goes: the positions afterwards.
LEMMA PositionsModified ==
  ASSUME IInv, NEW p \in PositionId, NEW delta \in Int, ModifyLiquidity(p, delta)
  PROVE  /\ positions \in Accounts /\ positions' \in Accounts
         /\ Modifies(positions, positions', p, delta)
         /\ pool'.sqrt_price = pool.sqrt_price /\ swap' = swap /\ ~swap.in_progress
         /\ \A q \in PositionId : positions'[q].liquidity > 0 =>
               /\ positions'[q].tick_lower_index \in UsableTicks
               /\ positions'[q].tick_upper_index \in UsableTicks
               /\ positions'[q].tick_lower_index < positions'[q].tick_upper_index
<1>1. positions \in Accounts /\ positions \in [PositionId -> Position]
  BY PositionsAreAccounts
<1>2. /\ positions' = [positions EXCEPT ![p].liquidity = @ + delta]
      /\ positions[p].open /\ CanAdd(positions[p].liquidity, delta)
      /\ pool' = IF InRange(positions[p])
                 THEN [pool EXCEPT !.liquidity = @ + delta] ELSE pool
      /\ swap' = swap /\ ~swap.in_progress
  BY Zenon DEF ModifyLiquidity, CanModify
<1>3. positions' \in [PositionId -> Position]
  BY <1>1, <1>2 DEF CanAdd, Position
<1>4. pool'.sqrt_price = pool.sqrt_price
  BY <1>2, PoolPrice DEF Pool
<1>5. ASSUME NEW q \in PositionId
      PROVE  /\ positions'[q].tick_lower_index = positions[q].tick_lower_index
             /\ positions'[q].tick_upper_index = positions[q].tick_upper_index
             /\ positions'[q].liquidity > 0 => positions[q].open
  <2>1. CASE q = p
    BY <1>1, <1>2, <2>1 DEF Position
  <2>2. CASE q # p
    <3>1. positions'[q] = positions[q]
      BY <1>1, <1>2, <2>2
    <3>2. ~positions[q].open => positions[q].liquidity = 0
      BY DEF IInv, PositionsOK, WellFormed
    <3>3. positions[q].open \in BOOLEAN
      BY <1>1 DEF Position
    <3> QED
      BY <3>1, <3>2, <3>3
  <2> QED
    BY <2>1, <2>2
<1>6. \A q \in PositionId :
         /\ positions[q].tick_lower_index <= positions[q].tick_upper_index
         /\ positions[q].open =>
               /\ positions[q].tick_lower_index \in UsableTicks
               /\ positions[q].tick_upper_index \in UsableTicks
               /\ positions[q].tick_lower_index < positions[q].tick_upper_index
  BY DEF IInv, PositionsOK, WellFormed
<1>7. positions' \in Accounts
  BY <1>3, <1>5, <1>6 DEF Accounts
<1>8. Modifies(positions, positions', p, delta)
  BY <1>1, <1>2, <1>3 DEF Modifies
<1> QED
  BY <1>1, <1>2, <1>4, <1>5, <1>6, <1>7, <1>8, Zenon

\* A deposit pays at least what it adds to the positions, so that the liquidity
\* it buys is bounded by the tokens there are.
LEMMA DepositInv ==
  ASSUME TokensInv, NEW p \in PositionId, NEW amount \in LiquidityAmounts,
         TokensIncreaseLiquidity(p, amount)
  PROVE  IncreaseLiquidity(p, amount) /\ TokensInv'
<1> DEFINE x == pool.sqrt_price
           w == Within(x, positions[p])
           low == Lower(positions[p])
           high == Upper(positions[p])
           a == get_amount_delta_a(w, high, amount, TRUE)
           b == get_amount_delta_b(low, w, amount, TRUE)
           d == Shares[w] - Shares[high]
           e == w - low
<1>1. IInv /\ TokensTypeOK /\ Backed(positions, vault, x)
  BY DEF TokensInv
<1>2. amount \in Nat /\ amount \in Int
  BY LiquidityAssumption
<1>3. /\ amount \in 1 .. MAX_I128 /\ ModifyLiquidity(p, amount)
      /\ AreOk(Deposit(positions[p], amount))
      /\ vault' = transfer_from_owner_to_vault(vault, Deposit(positions[p], amount))
      /\ Held(vault'.a) /\ Held(vault'.b) /\ UNCHANGED trade
  BY Zenon DEF TokensIncreaseLiquidity
<1>4. /\ positions \in Accounts /\ positions' \in Accounts
      /\ Modifies(positions, positions', p, amount)
      /\ pool'.sqrt_price = x /\ swap' = swap /\ ~swap.in_progress
      /\ \A q \in PositionId : positions'[q].liquidity > 0 =>
            /\ positions'[q].tick_lower_index \in UsableTicks
            /\ positions'[q].tick_upper_index \in UsableTicks
            /\ positions'[q].tick_lower_index < positions'[q].tick_upper_index
  BY <1>1, <1>2, <1>3, PositionsModified
<1>5. x \in SqrtPrice
  BY <1>1, PoolPrice
<1>6. /\ w \in SqrtPrice /\ low \in SqrtPrice /\ high \in SqrtPrice
      /\ low <= w /\ w <= high
  BY <1>4, <1>5, Ranges
<1>7. Deposit(positions[p], amount) = [a |-> a, b |-> b]
  BY <1>1, DeltasByTick, Zenon DEF Deposit
<1>8. a # Err /\ b # Err
  <2>1. AreOk([a |-> a, b |-> b])
    BY <1>3, <1>7
  <2> HIDE DEF a, b
  <2> QED
    BY <2>1 DEF AreOk
<1>9. vault' = [a |-> vault.a + a, b |-> vault.b + b]
  BY <1>3, <1>7 DEF transfer_from_owner_to_vault
<1>10. a \in 0 .. MAX_U64 /\ Unit * a >= Q64 * (amount * d)
  BY <1>2, <1>6, <1>8, AmountOfA
<1>11. b \in 0 .. MAX_U64 /\ Q64 * b >= amount * e
  BY <1>2, <1>6, <1>8, AmountOfB
<1>12. /\ Total(OwedA(positions', x)) = Total(OwedA(positions, x)) + amount * d
       /\ Total(OwedB(positions', x)) = Total(OwedB(positions, x)) + amount * e
  BY <1>4, <1>5, OwedChanges
<1>13. Total(OwedA(positions, x)) \in Nat /\ Total(OwedB(positions, x)) \in Nat
  BY <1>4, <1>5, TotalsOwed
<1>14. d \in Int /\ e \in Int /\ Unit \in Nat
  BY <1>6, ShareFacts
<1>15. vault.a \in Nat /\ vault.b \in Nat /\ MAX_U64 \in Nat /\ Q64 \in Nat
  BY <1>1, TokenTypes
<1> HIDE DEF x, w, low, high, a, b, d, e
<1>16. Backed(positions', vault', x)
  <2> DEFINE ta == Total(OwedA(positions, x))
             tb == Total(OwedB(positions, x))
  <2>1. Q64 * ta <= Unit * vault.a /\ tb <= Q64 * vault.b
    BY <1>1 DEF Backed
  <2>2. ta \in Nat /\ tb \in Nat
    BY <1>13
  <2> HIDE DEF ta, tb
  <2>3. Q64 * (ta + amount * d) <= Unit * (vault.a + a)
    <3>1. Q64 * (ta + amount * d) = Q64 * ta + Q64 * (amount * d)
      BY <1>2, <1>14, <1>15, <2>2
    <3>2. Unit * (vault.a + a) = Unit * vault.a + Unit * a
      BY <1>10, <1>14, <1>15
    <3>3. /\ Q64 * ta \in Int /\ Q64 * (amount * d) \in Int
          /\ Unit * vault.a \in Int /\ Unit * a \in Int
      BY <1>2, <1>10, <1>14, <1>15, <2>2
    <3> QED
      BY <1>10, <2>1, <3>1, <3>2, <3>3
  <2>4. tb + amount * e <= Q64 * (vault.b + b)
    <3>1. Q64 * (vault.b + b) = Q64 * vault.b + Q64 * b
      BY <1>11, <1>15
    <3>2. /\ amount * e \in Int /\ Q64 * vault.b \in Int /\ Q64 * b \in Int
      BY <1>2, <1>11, <1>14, <1>15
    <3> QED
      BY <1>11, <2>1, <2>2, <3>1, <3>2
  <2>5. vault'.a = vault.a + a /\ vault'.b = vault.b + b
    BY <1>9
  <2> QED
    BY <1>12, <2>3, <2>4, <2>5 DEF Backed, ta, tb
<1>17. vault'.a \in 0 .. MAX_U64 /\ vault'.b \in 0 .. MAX_U64
       /\ vault' \in [a: 0 .. MAX_U64, b: 0 .. MAX_U64]
  <2>1. vault'.a = vault.a + a /\ vault'.b = vault.b + b
    BY <1>9
  <2>2. vault'.a <= MAX_U64 /\ vault'.b <= MAX_U64
    BY <1>3 DEF Held
  <2>3. vault.a + a \in 0 .. MAX_U64 /\ vault.b + b \in 0 .. MAX_U64
    BY <1>10, <1>11, <1>15, <2>1, <2>2
  <2> QED
    BY <1>9, <2>1, <2>3
<1>18. Total(LiquidityOf(positions')) <= LiquiditySupply
  BY <1>4, <1>5, <1>16, <1>17, SupplyBought
<1>19. Total(LiquidityOf(positions')) = Total(LiquidityOf(positions)) + amount
  <2> DEFINE after == positions'
  <2>1. Modifies(positions, after, p, amount)
    BY <1>4
  <2> HIDE DEF after
  <2>2. ASSUME NEW t \in Int
        PROVE  /\ Total(LiquidityOf(after)) = Total(LiquidityOf(positions)) + amount
               /\ Total(Entering(after, t)) = Total(Entering(positions, t))
                     + IF positions[p].tick_lower_index = t THEN amount ELSE 0
               /\ Total(Leaving(after, t)) = Total(Leaving(positions, t))
                     + IF positions[p].tick_upper_index = t THEN amount ELSE 0
               /\ Total(ActiveAt(after, t)) = Total(ActiveAt(positions, t))
                     + IF /\ positions[p].tick_lower_index <= t
                          /\ t < positions[p].tick_upper_index
                       THEN amount ELSE 0
    BY <2>1, ContributionUpdate
  <2> QED
    BY <2>2, 0 \in Int DEF after
<1>20. IncreaseLiquidity(p, amount)
  BY <1>3, <1>18, <1>19 DEF IncreaseLiquidity
<1>21. IInv'
  BY <1>1, <1>20, IncreaseLiquidityInv
<1>22. TokensTypeOK'
  BY <1>1, <1>3, <1>17 DEF TokensTypeOK
<1>23. SwapBacked'
  BY <1>4 DEF SwapBacked
<1>24. Backed(positions, vault, pool.sqrt_price)'
  BY <1>4, <1>16
<1> QED
  BY <1>20, <1>21, <1>22, <1>23, <1>24 DEF TokensInv

\* A withdrawal pays no more than it takes from the positions.
LEMMA WithdrawalInv ==
  ASSUME TokensInv, NEW p \in PositionId, NEW amount \in LiquidityAmounts,
         TokensDecreaseLiquidity(p, amount)
  PROVE  DecreaseLiquidity(p, amount) /\ TokensInv'
<1> DEFINE x == pool.sqrt_price
           w == Within(x, positions[p])
           low == Lower(positions[p])
           high == Upper(positions[p])
           a == get_amount_delta_a(w, high, amount, FALSE)
           b == get_amount_delta_b(low, w, amount, FALSE)
           d == Shares[w] - Shares[high]
           e == w - low
<1>1. IInv /\ TokensTypeOK /\ Backed(positions, vault, x)
  BY DEF TokensInv
<1>2. amount \in Nat /\ -amount \in Int
  BY LiquidityAssumption
<1>3. /\ DecreaseLiquidity(p, amount)
      /\ AreOk(Withdrawal(positions[p], amount))
      /\ vault' = transfer_from_vault_to_owner(vault, Withdrawal(positions[p], amount))
      /\ UNCHANGED trade
  BY Zenon DEF TokensDecreaseLiquidity
<1>4. /\ positions \in Accounts /\ positions' \in Accounts
      /\ Modifies(positions, positions', p, -amount)
      /\ pool'.sqrt_price = x /\ swap' = swap /\ ~swap.in_progress
  BY <1>1, <1>2, <1>3, PositionsModified DEF DecreaseLiquidity
<1>5. x \in SqrtPrice
  BY <1>1, PoolPrice
<1>6. /\ w \in SqrtPrice /\ low \in SqrtPrice /\ high \in SqrtPrice
      /\ low <= w /\ w <= high
  BY <1>4, <1>5, Ranges
<1>7. Withdrawal(positions[p], amount) = [a |-> a, b |-> b]
  BY <1>1, DeltasByTick, Zenon DEF Withdrawal
<1>8. a # Err /\ b # Err
  <2>1. AreOk([a |-> a, b |-> b])
    BY <1>3, <1>7
  <2> HIDE DEF a, b
  <2> QED
    BY <2>1 DEF AreOk
<1>9. vault' = [a |-> vault.a - a, b |-> vault.b - b]
  BY <1>3, <1>7 DEF transfer_from_vault_to_owner
<1>10. a \in 0 .. MAX_U64 /\ Unit * a <= Q64 * (amount * d)
  BY <1>2, <1>6, <1>8, AmountOfA
<1>11. b \in 0 .. MAX_U64 /\ Q64 * b <= amount * e
  BY <1>2, <1>6, <1>8, AmountOfB
<1>12. /\ Total(OwedA(positions', x)) = Total(OwedA(positions, x)) + (-amount) * d
       /\ Total(OwedB(positions', x)) = Total(OwedB(positions, x)) + (-amount) * e
  BY <1>4, <1>5, OwedChanges
<1>13. /\ Total(OwedA(positions, x)) \in Nat /\ Total(OwedB(positions, x)) \in Nat
       /\ Total(OwedA(positions', x)) \in Nat /\ Total(OwedB(positions', x)) \in Nat
  BY <1>4, <1>5, TotalsOwed
<1>14. d \in Int /\ e \in Int /\ Unit \in Nat \ {0} /\ Q64 \in Nat \ {0}
  BY <1>6, ShareFacts, TokensAssumption
<1>15. /\ vault.a \in 0 .. MAX_U64 /\ vault.b \in 0 .. MAX_U64 /\ MAX_U64 \in Nat
  BY <1>1, TokenTypes
<1> HIDE DEF x, w, low, high, a, b, d, e
<1> DEFINE ta == Total(OwedA(positions, x))
           tb == Total(OwedB(positions, x))
           va == Total(OwedA(positions', x))
           vb == Total(OwedB(positions', x))
<1>16. /\ ta \in Nat /\ tb \in Nat /\ va \in Nat /\ vb \in Nat
       /\ va = ta + (-amount) * d /\ vb = tb + (-amount) * e
       /\ Q64 * ta <= Unit * vault.a /\ tb <= Q64 * vault.b
  BY <1>1, <1>12, <1>13 DEF Backed
<1> HIDE DEF ta, tb, va, vb
<1>17. Q64 * va <= Unit * (vault.a - a)
  <2>1. Q64 * va = Q64 * ta - Q64 * (amount * d)
    BY <1>2, <1>14, <1>16
  <2>2. Unit * (vault.a - a) = Unit * vault.a - Unit * a
    BY <1>10, <1>14, <1>15
  <2>3. /\ Q64 * ta \in Int /\ Q64 * (amount * d) \in Int
        /\ Unit * vault.a \in Int /\ Unit * a \in Int
    BY <1>2, <1>10, <1>14, <1>15, <1>16
  <2> QED
    BY <1>10, <1>16, <2>1, <2>2, <2>3
<1>18. vb <= Q64 * (vault.b - b)
  <2>1. Q64 * (vault.b - b) = Q64 * vault.b - Q64 * b
    BY <1>11, <1>14, <1>15
  <2>2. vb = tb - amount * e
    BY <1>2, <1>14, <1>16
  <2>3. /\ amount * e \in Int /\ Q64 * vault.b \in Int /\ Q64 * b \in Int
    BY <1>2, <1>11, <1>14, <1>15
  <2> QED
    BY <1>11, <1>16, <2>1, <2>2, <2>3
<1>19. vault.a - a \in 0 .. MAX_U64 /\ vault.b - b \in 0 .. MAX_U64
  <2>1. Q64 * va >= 0 /\ vb >= 0
    BY <1>14, <1>16
  <2>2. vault.a - a \in Int /\ vault.b - b \in Int
    BY <1>10, <1>11, <1>15
  <2>3. Unit * 0 <= Unit * (vault.a - a) /\ Q64 * 0 <= Q64 * (vault.b - b)
    BY <1>14, <1>16, <1>17, <1>18, <2>1, <2>2
  <2>4. 0 <= vault.a - a /\ 0 <= vault.b - b
    BY <1>14, <2>2, <2>3, Cancel
  <2> QED
    BY <1>10, <1>11, <1>15, <2>4
<1>20. vault'.a = vault.a - a /\ vault'.b = vault.b - b
       /\ vault' \in [a: 0 .. MAX_U64, b: 0 .. MAX_U64]
  BY <1>9, <1>19
<1>21. Backed(positions', vault', x)
  BY <1>17, <1>18, <1>20 DEF Backed, va, vb
<1>22. IInv'
  BY <1>1, <1>3, DecreaseLiquidityInv
<1>23. TokensTypeOK'
  BY <1>1, <1>3, <1>20 DEF TokensTypeOK
<1>24. SwapBacked'
  BY <1>4 DEF SwapBacked
<1>25. Backed(positions, vault, pool.sqrt_price)'
  BY <1>4, <1>21
<1> QED
  BY <1>3, <1>22, <1>23, <1>24, <1>25 DEF TokensInv

\* A swap starts with nothing traded.
LEMMA StartInv ==
  ASSUME TokensInv, NEW a_to_b \in BOOLEAN, NEW is_input \in BOOLEAN,
         NEW limit \in SqrtPriceLimits, NEW arrays \in SwapTickSequence(tick_arrays),
         NEW amount \in SwapAmounts,
         TokensSwapStart(a_to_b, limit, arrays, amount, is_input)
  PROVE  SwapStart(a_to_b, limit, arrays) /\ TokensInv'
<1>1. IInv /\ TokensTypeOK /\ Backed(positions, vault, pool.sqrt_price)
  BY DEF TokensInv
<1>2. /\ SwapStart(a_to_b, limit, arrays)
      /\ trade' = [is_input |-> is_input, amount |-> amount,
                   amount_remaining |-> amount, amount_calculated |-> 0, fees |-> 0]
      /\ vault' = vault
  BY Zenon DEF TokensSwapStart
<1>3. IInv'
  BY <1>1, <1>2, SwapStartInv
<1>4. /\ pool' = pool /\ positions' = positions
      /\ swap'.in_progress /\ swap'.a_to_b = a_to_b
      /\ swap'.amount_remains = TRUE /\ swap'.sqrt_price = pool.sqrt_price
  BY <1>2 DEF SwapStart
<1>5. amount \in Nat /\ amount > 0 /\ amount <= MAX_U64 /\ MAX_U64 \in Nat
  BY TokensAssumption
<1>6. TokensTypeOK'
  BY <1>1, <1>2, <1>5 DEF TokensTypeOK
<1>7. Taken(trade') = 0 /\ Given(trade') = 0 /\ trade'.fees = 0
      /\ trade'.amount_remaining = amount /\ trade'.amount = amount
  BY <1>2, <1>5 DEF Taken, Given
<1>8. Settled(vault', a_to_b, trade') = vault
  <2>1. vault.a \in Nat /\ vault.b \in Nat /\ vault = [a |-> vault.a, b |-> vault.b]
    BY <1>1, TokenTypes
  <2>2. /\ vault.a + (0 - 0) = vault.a /\ vault.a - 0 = vault.a
        /\ vault.b + (0 - 0) = vault.b /\ vault.b - 0 = vault.b
    BY <2>1
  <2> QED
    BY <1>2, <1>7, <2>1, <2>2, Zenon DEF Settled
<1>9. SwapBacked'
  BY <1>1, <1>4, <1>5, <1>7, <1>8 DEF SwapBacked
<1>10. Backed(positions, vault, pool.sqrt_price)'
  BY <1>1, <1>2, <1>4
<1> QED
  BY <1>2, <1>3, <1>6, <1>9, <1>10 DEF TokensInv

\* What a step adds to what the pool has taken and given.
LEMMA TradedAdds ==
  ASSUME TokensTypeOK, NEW step, step.amount_in \in Nat, step.amount_out \in Nat,
         step.fee_amount \in Nat
  PROVE  LET deal == Traded(step)
         IN  /\ deal.is_input = trade.is_input /\ deal.amount = trade.amount
             /\ Taken(deal) = Taken(trade) + step.amount_in + step.fee_amount
             /\ Given(deal) = Given(trade) + step.amount_out
             /\ deal.fees = trade.fees + step.fee_amount
             /\ deal.amount_remaining = trade.amount_remaining
                   - (IF trade.is_input THEN step.amount_in + step.fee_amount
                                        ELSE step.amount_out)
             /\ deal.amount_calculated = trade.amount_calculated
                   + (IF trade.is_input THEN step.amount_out
                                        ELSE step.amount_in + step.fee_amount)
             /\ deal = [is_input |-> deal.is_input, amount |-> deal.amount,
                        amount_remaining |-> deal.amount_remaining,
                        amount_calculated |-> deal.amount_calculated,
                        fees |-> deal.fees]
<1> DEFINE deal == Traded(step)
<1>1. trade \in [is_input: BOOLEAN, amount: 0 .. MAX_U64,
                 amount_remaining: 0 .. MAX_U64,
                 amount_calculated: 0 .. MAX_U64, fees: 0 .. MAX_U64]
  BY DEF TokensTypeOK
<1>2. /\ deal.is_input = trade.is_input /\ deal.amount = trade.amount
      /\ deal.fees = trade.fees + step.fee_amount
      /\ deal.amount_remaining = trade.amount_remaining
            - (IF trade.is_input THEN step.amount_in + step.fee_amount
                                 ELSE step.amount_out)
      /\ deal.amount_calculated = trade.amount_calculated
            + (IF trade.is_input THEN step.amount_out
                                 ELSE step.amount_in + step.fee_amount)
      /\ deal = [is_input |-> deal.is_input, amount |-> deal.amount,
                 amount_remaining |-> deal.amount_remaining,
                 amount_calculated |-> deal.amount_calculated, fees |-> deal.fees]
  <2> DEFINE r == IF trade.is_input THEN step.amount_in + step.fee_amount
                                    ELSE step.amount_out
             c == IF trade.is_input THEN step.amount_out
                                    ELSE step.amount_in + step.fee_amount
             f == step.fee_amount
  <2>1. deal = [trade EXCEPT !.amount_remaining = @ - r,
                             !.amount_calculated = @ + c, !.fees = @ + f]
    BY Zenon DEF Traded
  <2> HIDE DEF r, c, f, deal
  <2>2. /\ deal.is_input = trade.is_input /\ deal.amount = trade.amount
        /\ deal.fees = trade.fees + f
        /\ deal.amount_remaining = trade.amount_remaining - r
        /\ deal.amount_calculated = trade.amount_calculated + c
    BY <1>1, <2>1
  <2>3. deal = [is_input |-> deal.is_input, amount |-> deal.amount,
                amount_remaining |-> deal.amount_remaining,
                amount_calculated |-> deal.amount_calculated, fees |-> deal.fees]
    BY <1>1, <2>1
  <2> QED
    BY <2>2, <2>3, Zenon DEF r, c, f
<1>3. /\ trade.amount \in Nat /\ trade.amount_remaining \in Nat
      /\ trade.amount_calculated \in Nat /\ trade.is_input \in BOOLEAN
  BY TokenTypes
<1> HIDE DEF deal
<1>4. /\ Taken(deal) = Taken(trade) + step.amount_in + step.fee_amount
      /\ Given(deal) = Given(trade) + step.amount_out
  <2>1. CASE trade.is_input
    BY <1>2, <1>3, <2>1 DEF Taken, Given
  <2>2. CASE ~trade.is_input
    BY <1>2, <1>3, <2>2 DEF Taken, Given
  <2> QED
    BY <2>1, <2>2
<1> QED
  BY <1>2, <1>4, Zenon DEF deal

\* A step takes at least what the move of the price adds to the positions in one
\* token, and gives at most what it takes from them in the other.
LEMMA StepBacked ==
  ASSUME TokensInv, SwapContinues, NEW k, NEW next \in TickIndex,
         NextTickFound(k, next), IsOk(StepTo(next))
  PROVE  Backed(positions, Settled(vault, swap.a_to_b, Traded(StepTo(next))),
                StepTo(next).next_price)
<1> DEFINE step == StepTo(next)
           x == swap.sqrt_price
           y == step.next_price
           l == swap.liquidity
           in == step.amount_in
           out == step.amount_out
           fee == step.fee_amount
           old == Settled(vault, swap.a_to_b, trade)
           new == Settled(vault, swap.a_to_b, Traded(step))
           target == SqrtPriceTarget(next)
<1>1. IInv /\ TokensTypeOK /\ swap.in_progress
  BY DEF TokensInv, SwapContinues
<1>2. Backed(positions, old, x) /\ trade.fees <= Taken(trade)
  BY <1>1 DEF TokensInv, SwapBacked
<1>3. swap.a_to_b \in BOOLEAN /\ x \in SqrtPrice /\ l \in U128
  BY <1>1, SwapType
<1>4. /\ y \in SqrtPrice
      /\ y \in IF swap.a_to_b THEN target .. x ELSE x .. target
      /\ in \in Nat /\ out \in Nat /\ fee \in Nat
      /\ IF swap.a_to_b
         THEN /\ Q64 * (l * (Shares[y] - Shares[x])) <= Unit * in
              /\ Q64 * out <= l * (x - y)
         ELSE /\ l * (y - x) <= Q64 * in
              /\ Unit * out <= Q64 * (l * (Shares[x] - Shares[y]))
  BY <1>1, StepWorth, Zenon
<1>5. /\ target \in SqrtPrice
      /\ IF swap.a_to_b
         THEN target <= x /\ sqrt_price_from_tick_index[next] <= target
         ELSE x <= target /\ target <= sqrt_price_from_tick_index[next]
  BY <1>1, TargetAhead, Zenon
<1>6. Moves(positions, swap.tick_index, x, y)
  <2>1. sqrt_price_from_tick_index[next] \in Nat /\ x \in Nat /\ y \in Nat /\ target \in Nat
    BY <1>3, <1>4, <1>5, PriceBounds
  <2> HIDE DEF x, y, target
  <2>2. IF swap.a_to_b
        THEN sqrt_price_from_tick_index[next] <= y /\ y <= x
        ELSE x <= y /\ y <= sqrt_price_from_tick_index[next]
    BY <1>3, <1>4, <1>5, <2>1
  <2> QED
    BY <1>1, <1>4, <2>2, StepMoves DEF x
<1>7. positions \in Accounts
  BY <1>1, PositionsAreAccounts
<1>8. swap.tick_index \in Int
  BY <1>1, SwapType, TickInts
<1>9. l = Total(ActiveAt(positions, swap.tick_index))
  BY <1>1 DEF IInv, SwapActiveLiquidity
<1>10. /\ l \in Nat
       /\ Total(OwedA(positions, y))
             = Total(OwedA(positions, x)) + l * (Shares[y] - Shares[x])
       /\ Total(OwedB(positions, y)) = Total(OwedB(positions, x)) + l * (y - x)
  <2> HIDE DEF x, y, l
  <2> QED
    BY <1>3, <1>4, <1>6, <1>7, <1>8, <1>9, OwedMoves
<1>11. /\ Total(OwedA(positions, x)) \in Nat /\ Total(OwedB(positions, x)) \in Nat
  BY <1>3, <1>7, TotalsOwed
<1>12. /\ vault.a \in Nat /\ vault.b \in Nat /\ Q64 \in Nat
       /\ Taken(trade) \in Int /\ Given(trade) \in Int /\ trade.fees \in Nat
  BY <1>1, TokenTypes DEF Taken, Given
<1>13. /\ Taken(Traded(step)) = Taken(trade) + in + fee
       /\ Given(Traded(step)) = Given(trade) + out
       /\ Traded(step).fees = trade.fees + fee
  BY <1>1, <1>4, TradedAdds, Zenon
<1>14. /\ x \in Nat /\ y \in Nat /\ Shares[x] \in Nat /\ Shares[y] \in Nat
       /\ Unit \in Nat
  BY <1>3, <1>4, ShareFacts
<1> DEFINE ta == Total(OwedA(positions, x))
           tb == Total(OwedB(positions, x))
           va == Total(OwedA(positions, y))
           vb == Total(OwedB(positions, y))
           d == Shares[y] - Shares[x]
           e == y - x
           deal == Traded(step)
<1>15. /\ Q64 * ta <= Unit * old.a /\ tb <= Q64 * old.b
       /\ ta \in Nat /\ tb \in Nat /\ d \in Int /\ e \in Int
       /\ va = ta + l * d /\ vb = tb + l * e
  BY <1>2, <1>10, <1>11, <1>14 DEF Backed
<1>16. IF swap.a_to_b
       THEN /\ old = [a |-> vault.a + (Taken(trade) - trade.fees),
                      b |-> vault.b - Given(trade)]
            /\ new = [a |-> vault.a + (Taken(deal) - deal.fees),
                      b |-> vault.b - Given(deal)]
       ELSE /\ old = [a |-> vault.a - Given(trade),
                      b |-> vault.b + (Taken(trade) - trade.fees)]
            /\ new = [a |-> vault.a - Given(deal),
                      b |-> vault.b + (Taken(deal) - deal.fees)]
  BY <1>3 DEF Settled
<1>17. /\ Taken(deal) = Taken(trade) + in + fee
       /\ Given(deal) = Given(trade) + out
       /\ deal.fees = trade.fees + fee
  BY <1>13
<1> HIDE DEF step, x, y, l, in, out, fee, old, new, ta, tb, va, vb, d, e, deal
<1>18. Q64 * va <= Unit * new.a /\ vb <= Q64 * new.b
  <2>1. Q64 * va = Q64 * ta + Q64 * (l * d)
    BY <1>10, <1>12, <1>15
  <2>2. /\ Q64 * ta \in Int /\ Q64 * (l * d) \in Int /\ l * e \in Int
    BY <1>10, <1>12, <1>15
  <2>3. CASE swap.a_to_b
    <3>1. old.a \in Int /\ old.b \in Int /\ new.a = old.a + in /\ new.b = old.b - out
      BY <1>4, <1>12, <1>16, <1>17, <2>3
    <3>2. Q64 * (l * d) <= Unit * in /\ Q64 * out <= - (l * e)
      <4>1. l * (x - y) = - (l * e)
        BY <1>10, <1>14 DEF e
      <4> QED
        BY <1>4, <2>3, <4>1 DEF d
    <3>3. Unit * new.a = Unit * old.a + Unit * in /\ Q64 * new.b = Q64 * old.b - Q64 * out
      BY <1>4, <1>12, <1>14, <3>1
    <3>4. /\ Unit * old.a \in Int /\ Unit * in \in Int /\ Q64 * old.b \in Int
          /\ Q64 * out \in Int
      BY <1>4, <1>12, <1>14, <3>1
    <3> QED
      BY <1>15, <2>1, <2>2, <3>2, <3>3, <3>4
  <2>4. CASE ~swap.a_to_b
    <3>1. old.a \in Int /\ old.b \in Int /\ new.a = old.a - out /\ new.b = old.b + in
      BY <1>4, <1>12, <1>16, <1>17, <2>4
    <3>2. l * e <= Q64 * in /\ Unit * out <= - (Q64 * (l * d))
      <4>1. Q64 * (l * (Shares[x] - Shares[y])) = - (Q64 * (l * d))
        BY <1>10, <1>12, <1>14 DEF d
      <4> QED
        BY <1>4, <2>4, <4>1 DEF e
    <3>3. Unit * new.a = Unit * old.a - Unit * out /\ Q64 * new.b = Q64 * old.b + Q64 * in
      BY <1>4, <1>12, <1>14, <3>1
    <3>4. /\ Unit * old.a \in Int /\ Unit * out \in Int /\ Q64 * old.b \in Int
          /\ Q64 * in \in Int
      BY <1>4, <1>12, <1>14, <3>1
    <3> QED
      BY <1>15, <2>1, <2>2, <3>2, <3>3, <3>4
  <2> QED
    BY <2>3, <2>4
<1> QED
  BY <1>18 DEF Backed, va, vb, new, y, step

\* A step with its amounts is one that Liquidity allows.
LEMMA StepInv ==
  ASSUME TokensInv, TokensSwapStep
  PROVE  SwapStep /\ TokensInv'
<1>1. SwapContinues /\ UNCHANGED <<pool, tick_arrays, ticks, positions, vault>>
  BY DEF TokensSwapStep
<1>2. PICK k \in DOMAIN swap.arrays, next \in TickIndex :
         /\ NextTickFound(k, next)
         /\ IsOk(StepTo(next))
         /\ trade' = Traded(StepTo(next))
         /\ trade'.amount_remaining >= 0
         /\ trade'.amount_calculated <= MAX_U64
         /\ Advance(k, next, StepTo(next).next_price, trade'.amount_remaining > 0)
  BY Zenon DEF TokensSwapStep
<1> DEFINE step == StepTo(next)
           target == SqrtPriceTarget(next)
           x == swap.sqrt_price
           y == step.next_price
           l == swap.liquidity
           remains == trade'.amount_remaining > 0
           paid == step.amount_in + step.fee_amount
<1>3. IInv /\ TokensTypeOK /\ Backed(positions, vault, pool.sqrt_price)
      /\ swap.in_progress
  BY <1>1 DEF TokensInv, SwapContinues
<1>4. /\ swap.amount_remains <=> trade.amount_remaining > 0
      /\ trade.amount_remaining <= trade.amount
      /\ trade.fees <= Taken(trade)
      /\ swap.amount_remains
  BY <1>1, <1>3 DEF TokensInv, SwapBacked, SwapContinues
<1>5. /\ y \in SqrtPrice
      /\ y \in IF swap.a_to_b THEN target .. x ELSE x .. target
      /\ step.amount_in \in Nat /\ step.amount_out \in Nat
      /\ step.fee_amount \in Nat
      /\ trade.is_input =>
            /\ paid <= trade.amount_remaining
            /\ y # target => paid = trade.amount_remaining
      /\ ~trade.is_input =>
            /\ step.amount_out <= trade.amount_remaining
            /\ y # target => step.amount_out = trade.amount_remaining
      /\ y # target => l > 0
      /\ (l = 0 \/ x = target =>
            step.amount_in = 0 /\ step.amount_out = 0 /\ step.fee_amount = 0)
  BY <1>1, <1>2, <1>3, StepWorth, Zenon
<1>6. /\ trade'.is_input = trade.is_input /\ trade'.amount = trade.amount
      /\ Taken(trade') = Taken(trade) + step.amount_in + step.fee_amount
      /\ trade'.fees = trade.fees + step.fee_amount
      /\ trade'.amount_remaining = trade.amount_remaining
            - (IF trade.is_input THEN paid ELSE step.amount_out)
      /\ trade'.amount_calculated = trade.amount_calculated
            + (IF trade.is_input THEN step.amount_out ELSE paid)
      /\ trade' = [is_input |-> trade'.is_input, amount |-> trade'.amount,
                   amount_remaining |-> trade'.amount_remaining,
                   amount_calculated |-> trade'.amount_calculated,
                   fees |-> trade'.fees]
  <2>1. trade' = Traded(step)
    BY <1>2
  <2> HIDE DEF step
  <2>2. step.amount_in \in Nat /\ step.amount_out \in Nat /\ step.fee_amount \in Nat
    BY <1>5
  <2> QED
    BY <1>3, <2>1, <2>2, TradedAdds, Zenon
<1>7. /\ trade.is_input \in BOOLEAN /\ trade.amount \in Nat /\ trade.amount <= MAX_U64
      /\ trade.amount_remaining \in Nat /\ trade.amount_calculated \in Nat
      /\ trade.fees \in Nat /\ MAX_U64 \in Nat
  BY <1>3, TokenTypes
<1>8. paid \in Nat
  BY <1>5
<1>9. Backed(positions, Settled(vault, swap.a_to_b, trade'), y)
  <2>1. Backed(positions, Settled(vault, swap.a_to_b, Traded(step)), y)
    BY <1>1, <1>2, StepBacked
  <2> QED
    BY <1>2, <2>1
<1> HIDE DEF step, target, x, y, l, paid
<1>10. /\ trade'.amount_remaining \in Nat
       /\ trade'.amount_remaining <= trade.amount_remaining
       /\ trade'.amount_calculated \in 0 .. MAX_U64
       /\ trade'.fees \in Nat /\ trade'.fees <= Taken(trade')
       /\ Taken(trade') <= MAX_U64
  <2>1. CASE trade.is_input
    <3>1. /\ trade'.amount_remaining = trade.amount_remaining - paid
          /\ trade'.amount_calculated = trade.amount_calculated + step.amount_out
      BY <1>6, <2>1
    <3>2. Taken(trade) = trade.amount - trade.amount_remaining
          /\ Taken(trade') = trade'.amount - trade'.amount_remaining
      BY <1>6, <2>1 DEF Taken
    <3> QED
      BY <1>2, <1>4, <1>5, <1>6, <1>7, <1>8, <2>1, <3>1, <3>2 DEF step
  <2>2. CASE ~trade.is_input
    <3>1. /\ trade'.amount_remaining = trade.amount_remaining - step.amount_out
          /\ trade'.amount_calculated = trade.amount_calculated + paid
      BY <1>6, <2>2
    <3>2. Taken(trade) = trade.amount_calculated
          /\ Taken(trade') = trade'.amount_calculated
      BY <1>6, <2>2 DEF Taken
    <3> QED
      BY <1>2, <1>4, <1>5, <1>6, <1>7, <1>8, <2>2, <3>1, <3>2 DEF step
  <2> QED
    BY <2>1, <2>2
<1>11. ComputeSwap(target, y, remains)
  <2>1. IF swap.a_to_b THEN y \in target .. x ELSE y \in x .. target
    BY <1>5
  <2>2. y # target => l > 0 /\ ~remains
    <3>1. CASE trade.is_input
      BY <1>5, <1>6, <1>7, <1>8, <3>1
    <3>2. CASE ~trade.is_input
      BY <1>5, <1>6, <1>7, <1>8, <3>2
    <3> QED
      BY <3>1, <3>2
  <2>3. l = 0 \/ x = target => remains
    <3> SUFFICES ASSUME l = 0 \/ x = target PROVE remains
      OBVIOUS
    <3>1. step.amount_in = 0 /\ step.amount_out = 0 /\ step.fee_amount = 0
      BY <1>5
    <3>2. paid = 0
      BY <3>1 DEF paid
    <3>3. trade'.amount_remaining = trade.amount_remaining
      BY <1>6, <1>7, <3>1, <3>2
    <3> QED
      BY <1>4, <3>3
  <2> HIDE DEF remains
  <2> QED
    BY <2>1, <2>2, <2>3 DEF ComputeSwap, x, l
<1>12. Advance(k, next, y, remains)
  BY <1>2 DEF y, step
<1>13. SwapIteration(k, next, y, remains)
  BY <1>1, <1>11, <1>12 DEF SwapIteration, target
<1>14. y \in SqrtPrice /\ remains \in BOOLEAN
  BY <1>5
<1>15. SwapStep
  <2> HIDE DEF remains
  <2> QED
    BY <1>1, <1>2, <1>13, <1>14, Zenon DEF SwapStep
<1>16. IInv'
  BY <1>3, <1>15, SwapStepInv
<1>17. /\ swap'.in_progress /\ swap'.a_to_b = swap.a_to_b
       /\ swap'.sqrt_price = y /\ swap'.amount_remains = remains
  <2>1. swap \in Swap
    BY <1>3, SwapType
  <2>2. \E index, current, liquidity :
           swap' = [swap EXCEPT !.amount_remains = remains, !.sqrt_price = y,
                                !.tick_index = index, !.liquidity = liquidity,
                                !.array_index = current]
    <3> HIDE DEF remains
    <3> QED
      BY <1>12, Zenon DEF Advance
  <2> HIDE DEF remains
  <2> QED
    BY <1>3, <2>1, <2>2 DEF Swap
<1>18. TokensTypeOK'
  <2>1. /\ trade'.is_input \in BOOLEAN /\ trade'.amount \in 0 .. MAX_U64
        /\ trade'.amount_remaining \in 0 .. MAX_U64
        /\ trade'.amount_calculated \in 0 .. MAX_U64
        /\ trade'.fees \in 0 .. MAX_U64
    <3>1. Taken(trade') \in Int
      BY <1>6, <1>7, <1>10 DEF Taken
    <3> QED
      BY <1>4, <1>6, <1>7, <1>10, <3>1
  <2>2. trade' \in [is_input: BOOLEAN, amount: 0 .. MAX_U64,
                    amount_remaining: 0 .. MAX_U64,
                    amount_calculated: 0 .. MAX_U64, fees: 0 .. MAX_U64]
    BY <1>6, <2>1
  <2> QED
    BY <1>1, <1>3, <2>2 DEF TokensTypeOK
<1>19. SwapBacked'
  <2>1. trade'.amount_remaining <= trade'.amount
    BY <1>4, <1>6, <1>7, <1>10
  <2> QED
    BY <1>1, <1>9, <1>10, <1>17, <2>1 DEF SwapBacked
<1>20. Backed(positions, vault, pool.sqrt_price)'
  BY <1>1, <1>3
<1> QED
  BY <1>15, <1>16, <1>18, <1>19, <1>20 DEF TokensInv

\* What the pool takes and gives.
LEMMA Transfers ==
  ASSUME NEW ta, NEW tb, NEW ga, NEW gb
  PROVE  transfer_from_vault_to_owner(
            transfer_from_owner_to_vault(vault, [a |-> ta, b |-> tb]),
            [a |-> ga, b |-> gb])
            = [a |-> (vault.a + ta) - ga, b |-> (vault.b + tb) - gb]
<1> DEFINE x == vault.a + ta
           y == vault.b + tb
<1>1. transfer_from_owner_to_vault(vault, [a |-> ta, b |-> tb]) = [a |-> x, b |-> y]
  BY DEF transfer_from_owner_to_vault
<1> HIDE DEF x, y
<1>2. transfer_from_vault_to_owner([a |-> x, b |-> y], [a |-> ga, b |-> gb])
         = [a |-> x - ga, b |-> y - gb]
  BY DEF transfer_from_vault_to_owner
<1> QED
  BY <1>1, <1>2, Zenon DEF x, y

\* The transfers of a swap are those that its steps added up to.
LEMMA EndInv ==
  ASSUME TokensInv, TokensSwapEnd
  PROVE  SwapEnd /\ TokensInv'
<1> DEFINE specified == trade.amount - trade.amount_remaining
           amount_a == IF swap.a_to_b = trade.is_input
                       THEN specified ELSE trade.amount_calculated
           amount_b == IF swap.a_to_b = trade.is_input
                       THEN trade.amount_calculated ELSE specified
           settled == Settled(vault, swap.a_to_b, trade)
<1>1. /\ SwapEnd /\ vault' = perform_swap(amount_a, amount_b)
      /\ Held(vault'.a) /\ Held(vault'.b) /\ trade' = NoTrade
  BY Zenon DEF TokensSwapEnd
<1>2. swap.in_progress /\ IInv /\ TokensTypeOK
  BY <1>1 DEF SwapEnd, TokensInv
<1>3. /\ pool' = [pool EXCEPT !.liquidity = swap.liquidity,
                              !.sqrt_price = swap.sqrt_price,
                              !.tick_current_index = swap.tick_index]
      /\ swap' = NoSwap /\ positions' = positions
  BY <1>1 DEF SwapEnd
<1>4. pool'.sqrt_price = swap.sqrt_price
  BY <1>2, <1>3, PoolPrice DEF Pool
<1>5. IInv'
  BY <1>1, <1>2, SwapEndInv
<1>6. /\ vault.a \in Nat /\ vault.b \in Nat
      /\ trade.is_input \in BOOLEAN /\ trade.amount \in Nat
      /\ trade.amount_remaining \in Nat /\ trade.amount_calculated \in Nat
      /\ trade.fees \in Nat /\ MAX_U64 \in Nat
  BY <1>2, TokenTypes
<1>7. swap.a_to_b \in BOOLEAN /\ swap.sqrt_price \in SqrtPrice
  BY <1>2, SwapType
<1>8. vault' = settled
  <2>1. specified \in Int
    BY <1>6
  <2>2. CASE swap.a_to_b
    <3>1. amount_a = Taken(trade) /\ amount_b = Given(trade)
      <4>1. CASE trade.is_input
        BY <2>2, <4>1 DEF Taken, Given
      <4>2. CASE ~trade.is_input
        BY <2>2, <4>2 DEF Taken, Given
      <4> QED
        BY <4>1, <4>2
    <3>2. Taken(trade) \in Int /\ Given(trade) \in Int
      BY <1>6 DEF Taken, Given
    <3> HIDE DEF amount_a, amount_b
    <3>3. vault' = [a |-> (vault.a + (amount_a - trade.fees)) - 0,
                    b |-> (vault.b + 0) - amount_b]
      <4>1. vault' = transfer_from_vault_to_owner(
                        transfer_from_owner_to_vault(vault,
                            [a |-> amount_a - trade.fees, b |-> 0]),
                        [a |-> 0, b |-> amount_b])
        BY <1>1, <2>2, Zenon DEF perform_swap
      <4> QED
        BY <4>1, Transfers, Zenon
    <3> QED
      BY <1>6, <2>2, <3>1, <3>2, <3>3 DEF Settled
  <2>3. CASE ~swap.a_to_b
    <3>1. amount_b = Taken(trade) /\ amount_a = Given(trade)
      <4>1. CASE trade.is_input
        BY <1>7, <2>3, <4>1 DEF Taken, Given
      <4>2. CASE ~trade.is_input
        BY <1>6, <1>7, <2>3, <4>2 DEF Taken, Given
      <4> QED
        BY <4>1, <4>2
    <3>2. Taken(trade) \in Int /\ Given(trade) \in Int
      BY <1>6 DEF Taken, Given
    <3> HIDE DEF amount_a, amount_b
    <3>3. vault' = [a |-> (vault.a + 0) - amount_a,
                    b |-> (vault.b + (amount_b - trade.fees)) - 0]
      <4>1. vault' = transfer_from_vault_to_owner(
                        transfer_from_owner_to_vault(vault,
                            [a |-> 0, b |-> amount_b - trade.fees]),
                        [a |-> amount_a, b |-> 0])
        BY <1>1, <2>3, Zenon DEF perform_swap
      <4> QED
        BY <4>1, Transfers, Zenon
    <3> QED
      BY <1>6, <2>3, <3>1, <3>2, <3>3 DEF Settled
  <2> QED
    BY <2>2, <2>3
<1>9. Backed(positions, settled, swap.sqrt_price)
  BY <1>2 DEF TokensInv, SwapBacked
<1>10. settled.a \in Int /\ settled.b \in Int
       /\ settled = [a |-> settled.a, b |-> settled.b]
  BY <1>6, <1>7 DEF Settled, Taken, Given
<1> HIDE DEF settled
<1>11. vault' \in [a: 0 .. MAX_U64, b: 0 .. MAX_U64]
  <2>1. /\ Total(OwedA(positions, swap.sqrt_price)) \in Nat
        /\ Total(OwedB(positions, swap.sqrt_price)) \in Nat
    BY <1>2, <1>7, PositionsAreAccounts, TotalsOwed
  <2>2. Unit \in Nat \ {0} /\ Q64 \in Nat \ {0}
    BY ShareFacts, TokensAssumption
  <2>3. /\ Q64 * Total(OwedA(positions, swap.sqrt_price)) >= 0
        /\ Unit * settled.a \in Int /\ Q64 * settled.b \in Int
    BY <1>10, <2>1, <2>2
  <2>4. Unit * 0 <= Unit * settled.a /\ Q64 * 0 <= Q64 * settled.b
    BY <1>9, <2>1, <2>2, <2>3 DEF Backed
  <2>5. 0 <= settled.a /\ 0 <= settled.b
    BY <1>10, <2>2, <2>4, Cancel
  <2>6. settled.a <= MAX_U64 /\ settled.b <= MAX_U64
    BY <1>1, <1>8 DEF Held
  <2>7. settled.a \in 0 .. MAX_U64 /\ settled.b \in 0 .. MAX_U64
    BY <1>6, <1>10, <2>5, <2>6
  <2> QED
    BY <1>8, <1>10, <2>7
<1>12. TokensTypeOK'
  BY <1>1, <1>6, <1>11 DEF TokensTypeOK, NoTrade
<1>13. Backed(positions, vault, pool.sqrt_price)'
  BY <1>3, <1>4, <1>8, <1>9
<1>14. SwapBacked'
  BY <1>3 DEF SwapBacked, NoSwap
<1> QED
  BY <1>1, <1>5, <1>12, <1>13, <1>14 DEF TokensInv

\* A swap that fails leaves the tokens where they were.
LEMMA AbortInv ==
  ASSUME TokensInv, TokensSwapAbort
  PROVE  (SwapFail \/ SwapReject) /\ TokensInv'
<1>1. (SwapFail \/ SwapReject) /\ trade' = NoTrade /\ vault' = vault
  BY DEF TokensSwapAbort
<1>2. swap' = NoSwap /\ UNCHANGED <<pool, tick_arrays, ticks, positions>>
  BY <1>1 DEF SwapFail, SwapReject
<1>3. IInv'
  BY <1>2, SwapAbortInv DEF TokensInv
<1>4. TokensTypeOK'
  BY <1>1, TokensAssumption DEF TokensInv, TokensTypeOK, NoTrade
<1>5. SwapBacked'
  BY <1>2 DEF SwapBacked, NoSwap
<1>6. Backed(positions, vault, pool.sqrt_price)'
  BY <1>1, <1>2 DEF TokensInv
<1> QED
  BY <1>1, <1>3, <1>4, <1>5, <1>6 DEF TokensInv

\* A position opens or closes while the tokens rest.
LEMMA OpenInv ==
  ASSUME TokensInv, UNCHANGED tokenVars, NEW p \in PositionId,
         NEW lower \in UsableTicks, NEW upper \in UsableTicks,
         OpenPosition(p, lower, upper)
  PROVE  TokensInv'
<1>1. IInv /\ IInv'
  BY OpenPositionInv DEF TokensInv
<1>2. positions \in [PositionId -> Position]
  BY <1>1, PositionsAreAccounts
<1>3. /\ pool' = pool /\ swap' = swap /\ ~swap.in_progress /\ ~positions[p].open
      /\ positions' = [positions EXCEPT ![p] =
            [open |-> TRUE, tick_lower_index |-> lower,
             tick_upper_index |-> upper, liquidity |-> 0]]
  BY DEF OpenPosition
<1>4. positions[p].liquidity = 0
  BY <1>1, <1>3 DEF IInv, PositionsOK, WellFormed
<1>5. positions'[p].liquidity = 0 /\ \A q \in PositionId \ {p} : positions'[q] = positions[q]
  BY <1>2, <1>3
<1> QED
  BY <1>1, <1>3, <1>4, <1>5, RestInv

LEMMA CloseInv ==
  ASSUME TokensInv, UNCHANGED tokenVars, NEW p \in PositionId, ClosePosition(p)
  PROVE  TokensInv'
<1>1. IInv /\ IInv'
  BY ClosePositionInv DEF TokensInv
<1>2. positions \in [PositionId -> Position]
  BY <1>1, PositionsAreAccounts
<1>3. /\ pool' = pool /\ swap' = swap /\ ~swap.in_progress
      /\ positions[p].liquidity = 0
      /\ positions' = [positions EXCEPT ![p] = ClosedPosition]
  BY DEF ClosePosition
<1>4. positions'[p].liquidity = 0 /\ \A q \in PositionId \ {p} : positions'[q] = positions[q]
  BY <1>2, <1>3 DEF ClosedPosition
<1> QED
  BY <1>1, <1>3, <1>4, RestInv

\* Nothing that the invariant speaks of changes.
LEMMA StillInv ==
  ASSUME TokensInv, IInv', UNCHANGED <<pool, positions, swap, vault, trade>>
  PROVE  TokensInv'
<1>1. TokensTypeOK'
  BY DEF TokensInv, TokensTypeOK
<1>2. SwapBacked'
  BY DEF TokensInv, SwapBacked
<1>3. Backed(positions, vault, pool.sqrt_price)'
  BY DEF TokensInv
<1> QED
  BY <1>1, <1>2, <1>3 DEF TokensInv

\* Every step preserves the invariant, and is one of Liquidity.
LEMMA TokensNextInv ==
  TokensInv /\ [TokensNext]_<<vars, tokenVars>> => TokensInv' /\ [Next]_vars
<1> SUFFICES ASSUME TokensInv, [TokensNext]_<<vars, tokenVars>>
             PROVE  TokensInv' /\ [Next]_vars
  OBVIOUS
<1>1. IInv
  BY DEF TokensInv
<1>2. ASSUME NEW start \in StartTicks, InitializeTickArray(start), UNCHANGED tokenVars
      PROVE  TokensInv' /\ Next
  <2>1. IInv'
    BY <1>1, <1>2, InitializeTickArrayInv
  <2>2. UNCHANGED <<pool, positions, swap, vault, trade>>
    BY <1>2 DEF InitializeTickArray, tokenVars
  <2> QED
    BY <1>2, <2>1, <2>2, StillInv DEF Next
<1>3. ASSUME NEW p \in PositionId, NEW lower \in UsableTicks, NEW upper \in UsableTicks,
             OpenPosition(p, lower, upper), UNCHANGED tokenVars
      PROVE  TokensInv' /\ Next
  BY <1>3, OpenInv DEF Next
<1>4. ASSUME NEW p \in PositionId, ClosePosition(p), UNCHANGED tokenVars
      PROVE  TokensInv' /\ Next
  BY <1>4, CloseInv DEF Next
<1>5. ASSUME NEW p \in PositionId, NEW amount \in LiquidityAmounts,
             TokensIncreaseLiquidity(p, amount)
      PROVE  TokensInv' /\ Next
  BY <1>5, DepositInv DEF Next
<1>6. ASSUME NEW p \in PositionId, NEW amount \in LiquidityAmounts,
             TokensDecreaseLiquidity(p, amount)
      PROVE  TokensInv' /\ Next
  BY <1>6, WithdrawalInv DEF Next
<1>7. ASSUME NEW a_to_b \in BOOLEAN, NEW is_input \in BOOLEAN,
             NEW limit \in SqrtPriceLimits,
             NEW arrays \in SwapTickSequence(tick_arrays), NEW amount \in SwapAmounts,
             TokensSwapStart(a_to_b, limit, arrays, amount, is_input)
      PROVE  TokensInv' /\ Next
  <2>1. SwapStart(a_to_b, limit, arrays) /\ TokensInv'
    BY <1>7, StartInv
  <2> QED
    BY <2>1 DEF Next
<1>8. CASE TokensSwapStep
  BY <1>8, StepInv DEF Next
<1>9. CASE TokensSwapEnd
  BY <1>9, EndInv DEF Next
<1>10. CASE TokensSwapAbort
  BY <1>10, AbortInv DEF Next
<1>11. CASE UNCHANGED <<vars, tokenVars>>
  <2>1. UNCHANGED vars /\ UNCHANGED <<pool, positions, swap, vault, trade>>
    BY <1>11 DEF vars, tokenVars
  <2>2. IInv'
    BY <1>1, <2>1, NextInv
  <2> QED
    BY <2>1, <2>2, StillInv
<1> QED
  BY <1>2, <1>3, <1>4, <1>5, <1>6, <1>7, <1>8, <1>9, <1>10, <1>11 DEF TokensNext

THEOREM TokensInvariance == TokensSpec => []TokensInv
BY TokensInitInv, TokensNextInv, PTL DEF TokensSpec

-----------------------------------------------------------------------------
\* The theorems.

\* The vaults hold a u64 of each token, and so do a swap's running amounts: none
\* of the sums that the swap loop keeps goes below zero or overflows.
THEOREM TokensTypeHolds == TokensSpec => []TokensTypeOK
<1>1. TokensInv => TokensTypeOK
  BY DEF TokensInv
<1> QED
  BY <1>1, TokensInvariance, PTL

\* Every step of the program with its amounts is one that Liquidity allows: what
\* that module assumes of compute_swap, and of what tokens can buy, is true.
THEOREM TokensImplementLiquidity == TokensSpec => ImplementsLiquidity
<1>1. TokensInit => Init
  BY DEF TokensInit
<1>2. TokensInv /\ [TokensNext]_<<vars, tokenVars>> => [Next]_vars
  BY TokensNextInv
<1> QED
  BY <1>1, <1>2, TokensInvariance, PTL DEF TokensSpec, ImplementsLiquidity, Spec

\* What backs the positions covers the amounts they can withdraw.
LEMMA BackedCovers ==
  ASSUME TokensInv
  PROVE  VaultsCoverPositions
<1> DEFINE x == pool.sqrt_price
           due == [p \in PositionId |-> Withdrawal(positions[p], positions[p].liquidity)]
           A(p) == get_amount_delta_a(Within(x, positions[p]), Upper(positions[p]),
                                      positions[p].liquidity, FALSE)
           B(p) == get_amount_delta_b(Lower(positions[p]), Within(x, positions[p]),
                                      positions[p].liquidity, FALSE)
           oa == OwedA(positions, x)
           ob == OwedB(positions, x)
           fa == [p \in PositionId |-> due[p].a]
           fb == [p \in PositionId |-> due[p].b]
<1>1. IInv /\ TokensTypeOK /\ Backed(positions, vault, x)
  BY DEF TokensInv
<1>2. x \in SqrtPrice /\ positions \in Accounts
  BY <1>1, PoolPrice, PositionsAreAccounts
<1>3. /\ vault.a \in Nat /\ vault.b \in Nat /\ vault.a <= MAX_U64 /\ vault.b <= MAX_U64
      /\ MAX_U64 \in Nat /\ Unit \in Nat \ {0} /\ Q64 \in Nat \ {0}
  BY <1>1, TokenTypes, ShareFacts, TokensAssumption
<1>4. /\ oa \in [1 .. N -> Nat] /\ ob \in [1 .. N -> Nat]
      /\ oa \in [1 .. N -> Int] /\ ob \in [1 .. N -> Int]
      /\ Total(oa) \in Nat /\ Total(ob) \in Nat
  BY <1>2, OwedTypes, TotalsOwed
<1>5. Q64 * Total(oa) <= Unit * vault.a /\ Total(ob) <= Q64 * vault.b
  BY <1>1 DEF Backed
<1>6. /\ \A p \in 1 .. N : oa[p] \in Nat /\ oa[p] <= Total(oa)
      /\ \A p \in 1 .. N : ob[p] \in Nat /\ ob[p] <= Total(ob)
  BY <1>4, TotalMember
<1>7. ASSUME NEW p \in PositionId
      PROVE  /\ due[p].a = A(p) /\ due[p].b = B(p)
             /\ A(p) # Err /\ B(p) # Err
             /\ A(p) \in Nat /\ B(p) \in Nat
             /\ Unit * A(p) <= Q64 * oa[p] /\ Q64 * B(p) <= ob[p]
  <2> DEFINE w == Within(x, positions[p])
             low == Lower(positions[p])
             high == Upper(positions[p])
             l == positions[p].liquidity
  <2>1. due[p] = [a |-> A(p), b |-> B(p)]
    BY <1>1, DeltasByTick, Zenon DEF Withdrawal
  <2>2. /\ w \in SqrtPrice /\ low \in SqrtPrice /\ high \in SqrtPrice
        /\ low <= w /\ w <= high /\ l \in Nat
    BY <1>2, Ranges
  <2>3. oa[p] = l * (Shares[w] - Shares[high]) /\ ob[p] = l * (w - low)
    BY <1>2, OwedTypes
  <2>4. /\ oa[p] \in Nat /\ oa[p] <= Total(oa) /\ ob[p] \in Nat /\ ob[p] <= Total(ob)
    BY <1>6 DEF PositionId
  <2>5. A(p) # Err => A(p) \in 0 .. MAX_U64 /\ Unit * A(p) <= Q64 * oa[p]
    BY <2>2, <2>3, AmountOfA, Zenon
  <2>6. B(p) # Err => B(p) \in 0 .. MAX_U64 /\ Q64 * B(p) <= ob[p]
    BY <2>2, <2>3, AmountOfB, Zenon
  <2>7. Q64 * oa[p] <= Unit * MAX_U64 => A(p) # Err
    BY <2>2, <2>3, AmountOfA, Zenon
  <2>8. ob[p] <= Q64 * MAX_U64 => B(p) # Err
    BY <2>2, <2>3, AmountOfB, Zenon
  <2> DEFINE u == oa[p]
             v == ob[p]
             ta == Total(oa)
             tb == Total(ob)
  <2>9. u \in Nat /\ v \in Nat /\ u <= ta /\ v <= tb /\ ta \in Nat /\ tb \in Nat
        /\ Q64 * ta <= Unit * vault.a /\ tb <= Q64 * vault.b
    BY <1>4, <1>5, <2>4
  <2> HIDE DEF u, v, ta, tb, A, B
  <2>10. Q64 * u <= Unit * MAX_U64
    <3>1. Q64 * u <= Q64 * ta
      BY <1>3, <2>9
    <3>2. Unit * vault.a <= Unit * MAX_U64
      BY <1>3
    <3>3. Q64 * u \in Int /\ Q64 * ta \in Int /\ Unit * vault.a \in Int
          /\ Unit * MAX_U64 \in Int
      BY <1>3, <2>9
    <3> QED
      BY <2>9, <3>1, <3>2, <3>3
  <2>11. v <= Q64 * MAX_U64
    <3>1. Q64 * vault.b <= Q64 * MAX_U64
      BY <1>3
    <3>2. Q64 * vault.b \in Int /\ Q64 * MAX_U64 \in Int
      BY <1>3
    <3> QED
      BY <2>9, <3>1, <3>2
  <2>12. A(p) # Err /\ B(p) # Err
    BY <2>7, <2>8, <2>10, <2>11 DEF u, v
  <2>13. A(p) \in Nat /\ B(p) \in Nat /\ Unit * A(p) <= Q64 * oa[p]
         /\ Q64 * B(p) <= ob[p]
    BY <1>3, <2>5, <2>6, <2>12
  <2> HIDE DEF due
  <2>14. due[p].a = A(p) /\ due[p].b = B(p)
    BY <2>1
  <2> QED
    BY <2>12, <2>13, <2>14
<1> HIDE DEF due, A, B, oa, ob
<1>8. ASSUME NEW p \in 1 .. N
      PROVE  /\ fa[p] = due[p].a /\ fb[p] = due[p].b
             /\ due[p].a \in Nat /\ due[p].b \in Nat
             /\ due[p].a # Err /\ due[p].b # Err
             /\ Unit * due[p].a <= Q64 * oa[p] /\ Q64 * due[p].b <= ob[p]
  <2>1. p \in PositionId
    BY DEF PositionId
  <2>2. /\ due[p].a = A(p) /\ due[p].b = B(p)
        /\ A(p) # Err /\ B(p) # Err
        /\ A(p) \in Nat /\ B(p) \in Nat
        /\ Unit * A(p) <= Q64 * oa[p] /\ Q64 * B(p) <= ob[p]
    BY <1>7, <2>1
  <2>3. fa[p] = due[p].a /\ fb[p] = due[p].b
    BY <2>1, Zenon
  <2> QED
    BY <2>2, <2>3, Zenon
<1>9. \A p \in PositionId : AreOk(due[p])
  BY <1>8 DEF AreOk, PositionId
<1>10. /\ fa \in [1 .. N -> Int] /\ fb \in [1 .. N -> Int]
       /\ fa \in [1 .. N -> Nat] /\ fb \in [1 .. N -> Nat]
       /\ \A p \in 1 .. N : /\ fa[p] \in Nat /\ fb[p] \in Nat
                            /\ Unit * fa[p] <= Q64 * oa[p] /\ Q64 * fb[p] <= ob[p]
  <2>1. /\ fa = [p \in 1 .. N |-> fa[p]] /\ fb = [p \in 1 .. N |-> fb[p]]
    BY Zenon DEF PositionId
  <2> HIDE DEF fa, fb
  <2>2. \A p \in 1 .. N : /\ fa[p] \in Nat /\ fb[p] \in Nat
                          /\ Unit * fa[p] <= Q64 * oa[p] /\ Q64 * fb[p] <= ob[p]
    BY <1>8, Zenon
  <2>3. /\ [p \in 1 .. N |-> fa[p]] \in [1 .. N -> Nat]
        /\ [p \in 1 .. N |-> fb[p]] \in [1 .. N -> Nat]
    BY <2>2
  <2>4. \A p \in 1 .. N : fa[p] \in Int /\ fb[p] \in Int
    BY <2>2
  <2>5. /\ [p \in 1 .. N |-> fa[p]] \in [1 .. N -> Int]
        /\ [p \in 1 .. N |-> fb[p]] \in [1 .. N -> Int]
    BY <2>4
  <2> QED
    BY <2>1, <2>2, <2>3, <2>5, Zenon
<1> HIDE DEF fa, fb
<1>11. Unit * Total(fa) <= Q64 * Total(oa) /\ Total(fa) \in Nat
  <2> DEFINE g == [p \in 1 .. N |-> Unit * fa[p]]
             h == [p \in 1 .. N |-> Q64 * oa[p]]
  <2>1. g \in [1 .. N -> Int] /\ h \in [1 .. N -> Int]
    <3>1. \A p \in 1 .. N : Unit * fa[p] \in Int /\ Q64 * oa[p] \in Int
      <4> SUFFICES ASSUME NEW p \in 1 .. N
                   PROVE  Unit * fa[p] \in Int /\ Q64 * oa[p] \in Int
        OBVIOUS
      <4>1. fa[p] \in Int /\ oa[p] \in Int
        BY <1>3, <1>4, <1>10
      <4>2. Unit \in Int /\ Q64 \in Int
        BY <1>3, <1>4
      <4> QED
        BY <4>1, <4>2
    <3> QED
      BY <3>1
  <2>2. /\ \A p \in 1 .. N : g[p] = Unit * fa[p]
        /\ \A p \in 1 .. N : h[p] = Q64 * oa[p]
        /\ \A p \in 1 .. N : g[p] <= h[p]
    BY <1>10
  <2> HIDE DEF g, h
  <2>3. Unit \in Int /\ Q64 \in Int
    BY <1>3
  <2>4. Total(g) = Unit * Total(fa) /\ Total(h) = Q64 * Total(oa)
    BY <1>4, <1>10, <2>1, <2>2, <2>3, TotalScale, Zenon
  <2>5. Total(g) <= Total(h)
    BY <2>1, <2>2, TotalMonotone
  <2> QED
    BY <1>10, <2>4, <2>5, TotalNat
<1>12. Q64 * Total(fb) <= Total(ob) /\ Total(fb) \in Nat
  <2> DEFINE g == [p \in 1 .. N |-> Q64 * fb[p]]
  <2>1. g \in [1 .. N -> Int]
    <3>1. \A p \in 1 .. N : Q64 * fb[p] \in Int
      BY <1>3, <1>10
    <3> QED
      BY <3>1
  <2>2. /\ \A p \in 1 .. N : g[p] = Q64 * fb[p]
        /\ \A p \in 1 .. N : g[p] <= ob[p]
    BY <1>10
  <2> HIDE DEF g
  <2>3. Q64 \in Int
    BY <1>3
  <2>4. Total(g) = Q64 * Total(fb)
    BY <1>10, <2>1, <2>2, <2>3, TotalScale, Zenon
  <2>5. Total(g) <= Total(ob)
    BY <1>4, <2>1, <2>2, TotalMonotone
  <2> QED
    BY <1>10, <2>4, <2>5, TotalNat
<1>13. Total(fa) <= vault.a
  <2>1. /\ Unit * Total(fa) \in Int /\ Q64 * Total(oa) \in Int
        /\ Unit * vault.a \in Int
    BY <1>3, <1>4, <1>11
  <2>2. Unit * Total(fa) <= Unit * vault.a
    BY <1>5, <1>11, <2>1
  <2> QED
    BY <1>3, <1>11, <2>2, Cancel
<1>14. Total(fb) <= vault.b
  <2>1. /\ Q64 * Total(fb) \in Int /\ Q64 * vault.b \in Int
    BY <1>3, <1>12
  <2>2. Q64 * Total(fb) <= Q64 * vault.b
    BY <1>4, <1>5, <1>12, <2>1
  <2> QED
    BY <1>3, <1>12, <2>2, Cancel
<1> QED
  BY <1>9, <1>13, <1>14, Zenon DEF VaultsCoverPositions, due, fa, fb

\* At every moment all positions could be withdrawn, whatever was deposited,
\* traded and withdrawn before: rounding never leaves a provider unpaid.
THEOREM VaultsCoverPositionsHolds == TokensSpec => []VaultsCoverPositions
<1>1. TokensInv => VaultsCoverPositions
  BY BackedCovers
<1> QED
  BY <1>1, TokensInvariance, PTL
=============================================================================
