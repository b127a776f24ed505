----------------------------- MODULE MCSwapMath -----------------------------
(***************************************************************************)
(* compute_swap on every input within bounds, one state for each, and what *)
(* the loop of a swap makes of the amount that is left at a target; the    *)
(* SDK's computeSwapStep on the same inputs.                               *)
(***************************************************************************)
EXTENDS QuoteMath

CONSTANTS
    Amounts, FeeRates, Liquidities,     \* bounds: the inputs tried
    None                                \* no input: nothing is asked of a step

\* MAX_FEE_RATE is 3 percent: a fee is never more than what it is paid for.
ASSUME InputsAssumption ==
    /\ Amounts \subseteq 0 .. MAX_U64
    /\ FeeRates \subseteq 0 .. FEE_RATE_MUL_VALUE - 1
    /\ \A rate \in FeeRates : 2 * rate <= FEE_RATE_MUL_VALUE
    /\ Liquidities \subseteq 0 .. MAX_U128

VARIABLES
    input,  \* the arguments of a step
    step    \* what compute_swap makes of them

SqrtPrices == MIN_SQRT_PRICE .. MAX_SQRT_PRICE

\* A target lies in the direction of the swap.
Targets(price, a_to_b) ==
    {q \in SqrtPrices : IF a_to_b THEN q <= price ELSE q >= price}

StepOf(i) ==
    compute_swap(i.amount, i.fee_rate, i.liquidity, i.price, i.target,
                 i.is_input, i.a_to_b)

\* What is left of the amount the caller fixed.
Left ==
    IF input.is_input THEN input.amount - step.amount_in - step.fee_amount
                      ELSE input.amount - step.amount_out

SwapInit ==
    /\ \E price \in SqrtPrices, a_to_b \in BOOLEAN :
          \E target \in Targets(price, a_to_b) :
             input \in [amount: Amounts, fee_rate: FeeRates,
                        liquidity: Liquidities, price: {price},
                        target: {target}, is_input: BOOLEAN, a_to_b: {a_to_b}]
    /\ step = StepOf(input)

\* The next iteration of the loop: another target, perhaps another liquidity.
Continue ==
    /\ IsOk(step)
    /\ Left > 0
    /\ \E target \in Targets(step.next_price, input.a_to_b),
          liquidity \in Liquidities :
             input' = [input EXCEPT !.amount = Left, !.price = step.next_price,
                                    !.target = target, !.liquidity = liquidity]
    /\ step' = StepOf(input')

\* Swaps step by step, apart from what else a run enumerates.
StepsSpec == SwapInit /\ [][Continue]_<<input, step>>

-----------------------------------------------------------------------------
\* The amount of the fixed token that a move to q would take.
FixedTo(q) ==
    get_amount_fixed_delta(input.price, q, input.liquidity, input.is_input,
                           input.a_to_b)

\* The prices past p and up to q.
Past(p, q) == IF input.a_to_b THEN q .. p - 1 ELSE p + 1 .. q

(***************************************************************************)
(* A step given an input goes exactly as far as the input less its fee can *)
(* pay for: the closed formulas and their rounding agree with the search   *)
(* for the furthest affordable price.                                      *)
(***************************************************************************)
FurthestForInput ==
    LET budget == LessFee(input.amount, input.fee_rate)
    IN  IsOk(step) /\ input.is_input =>
            /\ FixedTo(step.next_price) \in 0 .. budget
            /\ \A q \in Past(step.next_price, input.target) : FixedTo(q) > budget

(***************************************************************************)
(* A step asked for an output stops at the first price that yields it.     *)
(* One that reaches its target may have passed prices that yield the same, *)
(* but none that yields more than was asked for.                           *)
(***************************************************************************)
NearestForOutput ==
    LET before == Past(input.price, step.next_price) \ {step.next_price}
    IN  IsOk(step) /\ ~input.is_input =>
            /\ \A q \in before : FixedTo(q) <= input.amount
            /\ step.next_price # input.target =>
                  /\ FixedTo(step.next_price) >= input.amount
                  /\ \A q \in before : FixedTo(q) < input.amount

(***************************************************************************)
(* The loop's checked_sub of what a step used never fails, and a step that *)
(* falls short of its target uses up the amount: otherwise the loop would  *)
(* search from a tick the price has not reached.                           *)
(***************************************************************************)
AmountSuffices ==
    IsOk(step) =>
        /\ Left >= 0
        /\ step.next_price # input.target => Left = 0

(***************************************************************************)
(* Rounding never favours the caller: the input is at least, and the       *)
(* output at most, what the move of the price is worth, and the fee is at  *)
(* least its share of what the caller pays.                                *)
(***************************************************************************)
PoolKeepsRounding ==
    LET p == input.price
        q == step.next_price
        worth_a == input.liquidity * Distance(p, q) * Q64   \* times p * q
        worth_b == input.liquidity * Distance(p, q)         \* times Q64
    IN  IsOk(step) =>
            /\ IF input.a_to_b
               THEN /\ step.amount_in * p * q >= worth_a
                    /\ step.amount_out * Q64 <= worth_b
               ELSE /\ step.amount_in * Q64 >= worth_b
                    /\ step.amount_out * p * q <= worth_a
            /\ step.fee_amount * FEE_RATE_MUL_VALUE
                  >= (step.amount_in + step.fee_amount) * input.fee_rate

Quote ==
    computeSwapStep(input.amount, input.fee_rate, input.liquidity, input.price,
                    input.target, input.is_input, input.a_to_b)

(***************************************************************************)
(* When token A is paid in, the SDK predicts the program's step exactly,   *)
(* although it is written a second time with numbers that never overflow:  *)
(* a step that either of them completes, the other completes alike.  (It   *)
(* does not when token B is paid in: see checked_mul_shift_right_round_up_if.) *)
(***************************************************************************)
QuoteExactForA ==
    input # None /\ input.a_to_b /\ (IsOk(step) \/ IsOk(Quote)) => Quote = step

(***************************************************************************)
(* assertQuoteAndResults (sdk/tests/utils/assert.ts:119-125): the amounts  *)
(* and the price that a quote predicts are those of the swap.              *)
(***************************************************************************)
QuoteExact == IsOk(step) => Quote = step
=============================================================================
