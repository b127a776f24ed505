---------------------------- MODULE MCArithmetic ----------------------------
(* The pure arithmetic of the program on every input of a small instance: one  *)
(* state for each step of a swap, each pair of wide integers, each price, and  *)
(* each place at which a swap may search the tick arrays of its quote.         *)
EXTENDS MCWords, TickMath

VARIABLE sqrt_price   \* a price, or None

\* Powers of sqrt(b) for b = 1.5625, so that few ticks span the prices.
MCPositive == <<5120, 6400, 10000, 24414>>
MCNegative == <<205, 164, 105, 43>>

MCMinTick == -12

PriceOf(tick) == sqrt_price_from_tick_index(tick)

NoStep == input = None /\ step = [next_price |-> Err, fee_amount |-> Err]

Init ==
    \/ SwapInit /\ words = None /\ sqrt_price = None /\ walk = None
    \/ NoStep /\ WordsInit /\ sqrt_price = None /\ walk = None
    \/ /\ NoStep /\ words = None /\ walk = None
       /\ sqrt_price \in PriceOf(-MAX_TICK_INDEX) .. PriceOf(MAX_TICK_INDEX)
    \/ NoStep /\ words = None /\ sqrt_price = None /\ WalkInit

Next ==
    \/ Continue /\ UNCHANGED <<words, sqrt_price, walk>>
    \/ WalkStep /\ UNCHANGED <<input, step, words, sqrt_price>>

Spec == Init /\ [][Next]_<<input, step, words, sqrt_price, walk>>

-----------------------------------------------------------------------------
(* The approximate logarithm and the comparison of two candidates find the     *)
(* tick whose price is the last that has been reached, and exactly the tick    *)
(* when the price is a tick's own (tick_index_from_sqrt_price).                *)
TickOfPrice ==
    sqrt_price # None =>
        LET t == tick_index_from_sqrt_price(sqrt_price)
        IN  \A u \in -MAX_TICK_INDEX .. MAX_TICK_INDEX :
                /\ u <= t <=> PriceOf(u) <= sqrt_price
                /\ sqrt_price = PriceOf(u) => t = u
=============================================================================
