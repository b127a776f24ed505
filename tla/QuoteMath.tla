----------------------------- MODULE QuoteMath -----------------------------
(* The SDK's own arithmetic of a swap step, with which it predicts what the    *)
(* program will do (sdk/src/utils/math).  Its numbers are unbounded, except    *)
(* where a function checks them.  Operators of the program that the SDK        *)
(* repeats line by line are those of SwapMath.                                 *)
EXTENDS SwapMath

(* Numbers of 64 and 128 bits, and prices of 96, as MAX_SQRT_PRICE_X64 is.     *)
ASSUME QuoteAssumption ==
    /\ MAX_U64 = Q64 - 1
    /\ MAX_U128 = Q64 * Q64 - 1
    /\ MAX_SQRT_PRICE <= MAX_U128
    /\ MAX_SQRT_PRICE * MAX_SQRT_PRICE <= Q64 * Q64 * Q64

\* The fraction that is lost is not looked at: the result is rounded up when
\* its own low 64 bits are not zero.
checked_mul_shift_right_round_up_if(n0, n1, round_up) ==
    LET result == (n0 * n1) \div Q64
        should_round == round_up /\ result % (MAX_U64 + 1) > 0
    IN  IF n0 * n1 > MAX_U128 \/ (should_round /\ result = MAX_U64) THEN Err
        ELSE IF should_round THEN result + 1
        ELSE result

\* The numerator may exceed 256 bits.
getAmountDeltaA(p, q, liquidity, round_up) ==
    Checked(DivRound(liquidity * Distance(p, q) * Q64, p * q, round_up), MAX_U64)

getAmountDeltaB(p, q, liquidity, round_up) ==
    checked_mul_shift_right_round_up_if(liquidity, Distance(p, q), round_up)

\* The price is not compared with any bound.
getNextSqrtPriceFromBRoundDown(p, liquidity, amount, is_input) ==
    LET delta == DivRound(amount * Q64, liquidity, ~is_input)
    IN  IF liquidity = 0 THEN Err ELSE IF is_input THEN p + delta ELSE p - delta

getNextSqrtPrice(p, liquidity, amount, is_input, a_to_b) ==
    IF is_input = a_to_b
    THEN get_next_sqrt_price_from_a_round_up(p, liquidity, amount, is_input)
    ELSE getNextSqrtPriceFromBRoundDown(p, liquidity, amount, is_input)

getAmountFixedDelta(p, q, liquidity, is_input, a_to_b) ==
    IF a_to_b = is_input THEN getAmountDeltaA(p, q, liquidity, is_input)
                         ELSE getAmountDeltaB(p, q, liquidity, is_input)

\* Slip: rounded the way of the fixed amount.
UnfixedRoundedAsFixed(p, q, liquidity, is_input, a_to_b) ==
    IF a_to_b = is_input THEN getAmountDeltaB(p, q, liquidity, is_input)
                         ELSE getAmountDeltaA(p, q, liquidity, is_input)

getAmountUnfixedDelta(p, q, liquidity, is_input, a_to_b) ==
    IF a_to_b = is_input THEN getAmountDeltaB(p, q, liquidity, ~is_input)
                         ELSE getAmountDeltaA(p, q, liquidity, ~is_input)

computeSwapStep(amount, fee_rate, liquidity, price, target, is_input, a_to_b) ==
    LET full == getAmountFixedDelta(price, target, liquidity, is_input, a_to_b)
        amountCalc == IF is_input THEN LessFee(amount, fee_rate) ELSE amount
        nextPrice ==
            IF amountCalc >= full THEN target
            ELSE getNextSqrtPrice(price, liquidity, amountCalc, is_input, a_to_b)
        isMaxSwap == nextPrice = target
        fixed == IF isMaxSwap THEN full
                 ELSE getAmountFixedDelta(price, nextPrice, liquidity, is_input, a_to_b)
        unfixed == getAmountUnfixedDelta(price, nextPrice, liquidity, is_input, a_to_b)
        amountIn == IF is_input THEN fixed ELSE unfixed
        amountOut == IF is_input THEN unfixed ELSE fixed
    IN  IF Err \in {full, nextPrice} \/ Err \in {fixed, unfixed}
        THEN [amount_in |-> Err, amount_out |-> Err, next_price |-> Err,
              fee_amount |-> Err]
        ELSE [amount_in |-> amountIn,
              amount_out |-> CapOutput(amountOut, amount, is_input),
              next_price |-> nextPrice,
              fee_amount |-> IF is_input /\ ~isMaxSwap THEN amount - amountIn
                             ELSE FeeOf(amountIn, fee_rate)]
=============================================================================
