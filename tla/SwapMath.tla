------------------------------ MODULE SwapMath ------------------------------
(***************************************************************************)
(* The arithmetic of one step of a swap: the tokens a price move is worth, *)
(* the price a token amount leads to, and the step that goes no further    *)
(* than its target (math/{swap,token,bit}_math.rs, math/u256_math.rs).     *)
(*                                                                         *)
(* A square root price is a fixed point number, Q64 standing for 1.  An    *)
(* overflow, a division by zero or a value out of bounds is Err.           *)
(***************************************************************************)
EXTENDS Integers

CONSTANTS
    Q64,                            \* 2^64 in the code
    MAX_U64, MAX_U128,
    MIN_SQRT_PRICE, MAX_SQRT_PRICE, \* the prices of the outermost ticks
    FEE_RATE_MUL_VALUE              \* 1 000 000 in the code

ASSUME SwapMathAssumption ==
    /\ Q64 \in Nat \ {0} /\ MAX_U64 \in Nat /\ MAX_U128 \in Nat
    /\ MIN_SQRT_PRICE \in Nat \ {0} /\ MAX_SQRT_PRICE \in Nat
    /\ FEE_RATE_MUL_VALUE \in Nat

Err == -1

Checked(value, bound) == IF value \in 0 .. bound THEN value ELSE Err

DivRound(n, d, round_up) ==
    IF round_up /\ n % d > 0 THEN n \div d + 1 ELSE n \div d

Distance(p, q) == IF p > q THEN p - q ELSE q - p

-----------------------------------------------------------------------------
\* Slip: the amount of token A is always rounded down.
DeltaAFloor(p, q, liquidity, round_up) ==
    IF liquidity * Distance(p, q) >= Q64 * Q64 * Q64 THEN Err
    ELSE Checked((liquidity * Distance(p, q) * Q64) \div (p * q), MAX_U64)

\* liquidity * (1 / p - 1 / q), in a 256-bit number.
get_amount_delta_a(p, q, liquidity, round_up) ==
    IF liquidity * Distance(p, q) >= Q64 * Q64 * Q64 THEN Err
    ELSE Checked(DivRound(liquidity * Distance(p, q) * Q64, p * q, round_up),
                 MAX_U64)

\* liquidity * (q - p), in a 128-bit number.
get_amount_delta_b(p, q, liquidity, round_up) ==
    IF liquidity * Distance(p, q) > MAX_U128 THEN Err
    ELSE Checked(DivRound(liquidity * Distance(p, q), Q64, round_up), MAX_U64)

\* Slip: rounded down, so that more tokens A fit than were given.
NextPriceFromAFloor(p, liquidity, amount, is_input) ==
    LET product == p * amount
        denominator == IF is_input THEN liquidity * Q64 + product
                                   ELSE liquidity * Q64 - product
        price == (liquidity * p * Q64) \div denominator
    IN  IF amount = 0 THEN p
        ELSE IF \/ liquidity * p >= Q64 * Q64 * Q64
                \/ denominator <= 0
                \/ price \notin MIN_SQRT_PRICE .. MAX_SQRT_PRICE
        THEN Err ELSE price

get_next_sqrt_price_from_a_round_up(p, liquidity, amount, is_input) ==
    LET product == p * amount
        denominator == IF is_input THEN liquidity * Q64 + product
                                   ELSE liquidity * Q64 - product
        price == DivRound(liquidity * p * Q64, denominator, TRUE)
    IN  IF amount = 0 THEN p
        ELSE IF \/ liquidity * p >= Q64 * Q64 * Q64
                \/ denominator <= 0
                \/ price \notin MIN_SQRT_PRICE .. MAX_SQRT_PRICE
        THEN Err ELSE price

\* Slip: rounded down although the output is the fixed amount.
NextPriceFromBFloor(p, liquidity, amount, is_input) ==
    LET delta == (amount * Q64) \div liquidity
    IN  IF liquidity = 0 THEN Err
        ELSE Checked(IF is_input THEN p + delta ELSE p - delta, MAX_U128)

get_next_sqrt_price_from_b_round_down(p, liquidity, amount, is_input) ==
    LET delta == DivRound(amount * Q64, liquidity, ~is_input)
    IN  IF liquidity = 0 THEN Err
        ELSE Checked(IF is_input THEN p + delta ELSE p - delta, MAX_U128)

get_next_sqrt_price(p, liquidity, amount, is_input, a_to_b) ==
    IF is_input = a_to_b
    THEN get_next_sqrt_price_from_a_round_up(p, liquidity, amount, is_input)
    ELSE get_next_sqrt_price_from_b_round_down(p, liquidity, amount, is_input)

-----------------------------------------------------------------------------
\* The amount of the token whose amount the caller fixed ...
get_amount_fixed_delta(p, q, liquidity, is_input, a_to_b) ==
    IF a_to_b = is_input THEN get_amount_delta_a(p, q, liquidity, is_input)
                         ELSE get_amount_delta_b(p, q, liquidity, is_input)

\* ... and of the other one.
get_amount_unfixed_delta(p, q, liquidity, is_input, a_to_b) ==
    IF a_to_b = is_input THEN get_amount_delta_b(p, q, liquidity, ~is_input)
                         ELSE get_amount_delta_a(p, q, liquidity, ~is_input)

\* What of an amount of input is traded when the rest is its fee.
LessFee(amount, fee_rate) ==
    (amount * (FEE_RATE_MUL_VALUE - fee_rate)) \div FEE_RATE_MUL_VALUE

\* Slip: the fee is a share of the amount without the fee.
FeeShareOfInput(amount_in, fee_rate) ==
    DivRound(amount_in * fee_rate, FEE_RATE_MUL_VALUE, TRUE)

FeeOf(amount_in, fee_rate) ==
    DivRound(amount_in * fee_rate, FEE_RATE_MUL_VALUE - fee_rate, TRUE)

\* Slip: the output is not capped.
CapOutputNever(amount_out, amount, is_input) == amount_out

\* The price is rounded away from the caller: the output may come to more.
CapOutput(amount_out, amount, is_input) ==
    IF ~is_input /\ amount_out > amount THEN amount ELSE amount_out

\* A record of the step's amounts, any of which may be Err: then so is the step.
compute_swap(amount, fee_rate, liquidity, price, target, is_input, a_to_b) ==
    LET full == get_amount_fixed_delta(price, target, liquidity, is_input, a_to_b)
        amount_calc == IF is_input THEN LessFee(amount, fee_rate) ELSE amount
        next_price ==
            IF amount_calc >= full THEN target
            ELSE get_next_sqrt_price(price, liquidity, amount_calc, is_input, a_to_b)
        is_max_swap == next_price = target
        fixed == IF is_max_swap THEN full
                 ELSE get_amount_fixed_delta(price, next_price, liquidity,
                                             is_input, a_to_b)
        unfixed == get_amount_unfixed_delta(price, next_price, liquidity,
                                            is_input, a_to_b)
        amount_in == IF is_input THEN fixed ELSE unfixed
        amount_out == IF is_input THEN unfixed ELSE fixed
    IN  IF Err \in {full, next_price} \/ Err \in {fixed, unfixed}
        THEN [amount_in |-> Err, amount_out |-> Err, next_price |-> Err,
              fee_amount |-> Err]
        ELSE [amount_in |-> amount_in,
              amount_out |-> CapOutput(amount_out, amount, is_input),
              next_price |-> next_price,
              fee_amount |-> IF is_input /\ ~is_max_swap
                             THEN amount - amount_in
                             ELSE Checked(FeeOf(amount_in, fee_rate), MAX_U64)]

IsOk(step) == Err \notin {step.next_price, step.fee_amount}
=============================================================================
