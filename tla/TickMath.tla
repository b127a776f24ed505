------------------------------ MODULE TickMath ------------------------------
(* The square root price of a tick, and the tick of a square root price        *)
(* (math/tick_math.rs).  A price is a fixed point number with BITS bits after  *)
(* the point, 64 in the code, of a type twice as wide.  The constants of the   *)
(* code are tables here, so that the algorithm can be run at other widths.     *)
EXTENDS Integers, Sequences

CONSTANTS
    BITS,
    POSITIVE,       \* POSITIVE[k + 1] is sqrt(b)^(2^k), with 3/2 BITS bits
    NEGATIVE,       \* NEGATIVE[k + 1] is 1/sqrt(b)^(2^k), with BITS bits
    LOG_B_2,        \* log(2) / log(sqrt(b)), with BITS/2 bits
    BIT_PRECISION,  \* how many bits of the logarithm are computed
    LOG_B_P_ERR_MARGIN_LOWER, LOG_B_P_ERR_MARGIN_UPPER      \* with BITS bits

ASSUME TablesAssumption ==
    /\ BITS \in Nat /\ BITS > 0 /\ BITS % 2 = 0
    /\ POSITIVE \in Seq(Nat) /\ NEGATIVE \in Seq(Nat)
    /\ Len(NEGATIVE) = Len(POSITIVE)
    /\ BIT_PRECISION \in 0 .. BITS \div 2

Wide == INSTANCE U256Muldiv WITH U64_RESOLUTION <- BITS

One == 2 ^ BITS
HalfOne == 2 ^ (BITS \div 2)

IsSet(n, k) == (n \div 2 ^ k) % 2 = 1

\* The product over the bits that are set in n, in their order.
Product(n, table, one, Times(_, _)) ==
    LET Upto[k \in 0 .. Len(table)] ==
            IF k = 0 THEN one
            ELSE IF ~IsSet(n, k - 1) THEN Upto[k - 1]
            ELSE IF k = 1 THEN table[1]
            ELSE Times(Upto[k - 1], table[k])
    IN  Upto[Len(table)]

mul_shift_96(n0, n1) ==
    Wide!try_into_u128(Wide!shift_right(Wide!mul_u256(n0, n1), BITS + BITS \div 2))

\* A product of 128 bits is enough for numbers below 1.
mul_shift_64(n0, n1) == (n0 * n1) \div One

get_sqrt_price_positive_tick(tick) ==
    Product(tick, POSITIVE, One * HalfOne, mul_shift_96) \div HalfOne

get_sqrt_price_negative_tick(tick) == Product(-tick, NEGATIVE, One, mul_shift_64)

sqrt_price_from_tick_index(tick) ==
    IF tick >= 0 THEN get_sqrt_price_positive_tick(tick)
                 ELSE get_sqrt_price_negative_tick(tick)

-----------------------------------------------------------------------------
\* The highest bit that is set: 128 - leading_zeros - 1.
Msb(p) == CHOOSE k \in 0 .. 2 * BITS : 2 ^ k <= p /\ p < 2 ^ (k + 1)

\* The price scaled to 1 <= r < 2, with BITS - 1 bits after the point.
Scaled(p) ==
    IF Msb(p) >= BITS THEN p \div 2 ^ (Msb(p) - (BITS - 1))
                      ELSE p * 2 ^ (BITS - 1 - Msb(p))

\* The fraction of log2(r): squaring r doubles it, and the next bit of it is
\* whether that exceeds 1.
Log2Fraction(r0) ==
    LET Loop[i \in 0 .. BIT_PRECISION] ==
            IF i = 0 THEN [r |-> r0, log |-> 0]
            ELSE LET prev == Loop[i - 1]
                     square == prev.r * prev.r
                     more == square \div 2 ^ (2 * BITS - 1)
                 IN  [r |-> square \div 2 ^ (BITS - 1 + more),
                      log |-> prev.log + more * 2 ^ (BITS - i)]
    IN  Loop[BIT_PRECISION].log

\* log(p) to the base sqrt(b), with BITS bits.
LogOfPrice(p) ==
    ((Msb(p) - BITS) * HalfOne + Log2Fraction(Scaled(p)) \div HalfOne) * LOG_B_2

\* Slip: a price equal to that of the upper tick is taken for the lower one.
ChooseBelow(tick_low, tick_high, p) ==
    IF tick_low = tick_high \/ sqrt_price_from_tick_index(tick_high) >= p
    THEN tick_low ELSE tick_high

\* The two estimates differ by one at most; the upper one is right if its price
\* has been reached.
ChooseTick(tick_low, tick_high, p) ==
    IF tick_low = tick_high \/ sqrt_price_from_tick_index(tick_high) <= p
    THEN tick_high ELSE tick_low

tick_index_from_sqrt_price(p) ==
    ChooseTick((LogOfPrice(p) - LOG_B_P_ERR_MARGIN_LOWER) \div One,
               (LogOfPrice(p) + LOG_B_P_ERR_MARGIN_UPPER) \div One, p)
=============================================================================
