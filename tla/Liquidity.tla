------------------------------ MODULE Liquidity ------------------------------
(***************************************************************************)
(* Concentrated liquidity of one pool: which liquidity is active at the    *)
(* current price, and what a tick records so that a swap can keep it       *)
(* active as the price moves (instructions/{open,close}_position,          *)
(* {increase,decrease}_liquidity, initialize_tick_array and swap, with     *)
(* the managers they call).                                                *)
(*                                                                         *)
(* Token amounts, fees and rewards are abstracted: a swap step moves the   *)
(* price as far as the liquidity and the remaining amount may allow.       *)
(*                                                                         *)
(* An instruction is atomic, because its transaction locks the pool, and   *)
(* a failed one is rolled back.  The loop of a swap is nevertheless shown  *)
(* one iteration at a time, in the variable swap; nothing else of the pool *)
(* may run until it ends.                                                  *)
(***************************************************************************)
EXTENDS TickArrays, Sums, FiniteSets

CONSTANTS
    sqrt_price_from_tick_index, \* function: the price at which a tick begins
    MAX_U128,          \* 2^128 - 1 in the code
    MAX_I128,          \* 2^127 - 1 in the code
    LiquiditySupply,   \* the liquidity that u64 token amounts can buy
    LiquidityAmounts,  \* bound: the liquidity_amount arguments of callers
    SqrtPriceLimits    \* bound: the sqrt_price_limit arguments of callers

PositionId == 1 .. N

(***************************************************************************)
(* Prices grow with ticks.  A token's supply is a u64; over the narrowest  *)
(* range, at either end of the prices, 2^64 tokens buy less than 2^111 of  *)
(* liquidity, so that all positions together stay far below an i128.       *)
(***************************************************************************)
ASSUME LiquidityAssumption ==
    /\ sqrt_price_from_tick_index \in [TickIndex -> Nat]
    /\ \A t, u \in TickIndex :
          t < u => sqrt_price_from_tick_index[t] < sqrt_price_from_tick_index[u]
    /\ MAX_I128 \in Nat
    /\ MAX_U128 = 2 * MAX_I128 + 1
    /\ LiquiditySupply \in 0 .. MAX_I128
    /\ LiquidityAmounts \subseteq Nat
    /\ SqrtPriceLimits \subseteq Nat

VARIABLES
    pool,         \* [liquidity, sqrt_price, tick_current_index]
    tick_arrays,  \* start indexes of the tick array accounts that exist
    ticks,        \* the Tick stored for each usable index
    positions,    \* the position accounts
    swap          \* the loop variables of the swap in progress, or NoSwap

vars == <<pool, tick_arrays, ticks, positions, swap>>

MIN_SQRT_PRICE == sqrt_price_from_tick_index[MIN_TICK_INDEX]
MAX_SQRT_PRICE == sqrt_price_from_tick_index[MAX_TICK_INDEX]
SqrtPrice == MIN_SQRT_PRICE .. MAX_SQRT_PRICE

\* One below the lowest tick is where a swap down to the lowest price ends.
CurrentTick == (MIN_TICK_INDEX - 1) .. MAX_TICK_INDEX

U128 == 0 .. MAX_U128
I128 == (-MAX_I128 - 1) .. MAX_I128

\* The tick whose range [price of t, price of t + 1) holds the price.
tick_index_from_sqrt_price(p) ==
    CHOOSE t \in TickIndex :
        /\ sqrt_price_from_tick_index[t] <= p
        /\ t < MAX_TICK_INDEX => p < sqrt_price_from_tick_index[t + 1]

Tick == [initialized: BOOLEAN, liquidity_net: I128, liquidity_gross: U128]
DefaultTick ==
    [initialized |-> FALSE, liquidity_net |-> 0, liquidity_gross |-> 0]

Position == [open: BOOLEAN, tick_lower_index: TickIndex,
             tick_upper_index: TickIndex, liquidity: U128]
ClosedPosition ==
    [open |-> FALSE, tick_lower_index |-> MIN_TICK_INDEX,
     tick_upper_index |-> MIN_TICK_INDEX, liquidity |-> 0]

Pool == [liquidity: U128, sqrt_price: SqrtPrice,
         tick_current_index: CurrentTick]

\* The one to three distinct tick arrays of a swap.  An account passed twice
\* can be borrowed only once: load_mut().ok() drops it the second time.
SwapTickSequence(starts) ==
    {arrays \in UNION {[1 .. n -> starts] : n \in 1 .. 3} :
        \A i, j \in DOMAIN arrays : arrays[i] = arrays[j] => i = j}

NoSwap == [in_progress |-> FALSE]
Swap == [in_progress: {TRUE}, a_to_b: BOOLEAN, limit: SqrtPrice,
         arrays: SwapTickSequence(StartTicks), array_index: 1 .. 4,
         amount_remains: BOOLEAN, sqrt_price: SqrtPrice,
         tick_index: CurrentTick, liquidity: U128]

InitializedTicks == {t \in UsableTicks : ticks[t].initialized}

-----------------------------------------------------------------------------
\* initialize_pool
Init ==
    /\ pool \in {[liquidity |-> 0, sqrt_price |-> p,
                  tick_current_index |-> tick_index_from_sqrt_price(p)] :
                    p \in SqrtPrice}
    /\ tick_arrays = {}
    /\ ticks = [t \in UsableTicks |-> DefaultTick]
    /\ positions = [p \in PositionId |-> ClosedPosition]
    /\ swap = NoSwap

InitializeTickArray(start) ==
    /\ ~swap.in_progress
    /\ check_is_valid_start_tick(start)
    /\ start \notin tick_arrays
    /\ tick_arrays' = tick_arrays \union {start}
    /\ UNCHANGED <<pool, ticks, positions, swap>>

OpenPosition(p, lower, upper) ==
    /\ ~swap.in_progress
    /\ ~positions[p].open
    /\ check_is_usable_tick(lower) /\ check_is_usable_tick(upper)
    /\ lower < upper
    /\ positions' = [positions EXCEPT ![p] =
            [open |-> TRUE, tick_lower_index |-> lower,
             tick_upper_index |-> upper, liquidity |-> 0]]
    /\ UNCHANGED <<pool, tick_arrays, ticks, swap>>

\* is_position_empty also asks that no fee or reward is owed.
ClosePosition(p) ==
    /\ ~swap.in_progress
    /\ positions[p].open
    /\ positions[p].liquidity = 0
    /\ positions' = [positions EXCEPT ![p] = ClosedPosition]
    /\ UNCHANGED <<pool, tick_arrays, ticks, swap>>

-----------------------------------------------------------------------------
\* Slip: subtraction is not checked.
CanAddUnchecked(liquidity, delta) == liquidity + delta <= MAX_U128

\* add_liquidity_delta returns Ok.
CanAdd(liquidity, delta) == liquidity + delta \in U128

SignedNet(tick, delta, is_upper_tick) ==
    IF is_upper_tick THEN tick.liquidity_net - delta
                     ELSE tick.liquidity_net + delta

\* next_tick_modify_liquidity_update returns Ok ...
CanUpdateTick(tick, delta, is_upper_tick) ==
    /\ CanAdd(tick.liquidity_gross, delta)
    /\ tick.liquidity_gross + delta # 0 =>
          SignedNet(tick, delta, is_upper_tick) \in I128

\* Slip: a tick left without liquidity keeps the rest of its record.
NextTickKept(tick, delta, is_upper_tick) ==
    [initialized |-> TRUE,
     liquidity_net |-> SignedNet(tick, delta, is_upper_tick),
     liquidity_gross |-> tick.liquidity_gross + delta]

\* ... and what it returns: a tick nobody references any more is reset.
NextTick(tick, delta, is_upper_tick) ==
    IF tick.liquidity_gross + delta = 0
    THEN DefaultTick
    ELSE [initialized |-> TRUE,
          liquidity_net |-> SignedNet(tick, delta, is_upper_tick),
          liquidity_gross |-> tick.liquidity_gross + delta]

\* The caller must pass the arrays that store the two ticks.
HasTick(t) == \E s \in tick_arrays : check_in_array_bounds(s, t)

\* Slip: the lower tick excluded.
InRangeAboveLower(position) ==
    /\ pool.tick_current_index < position.tick_upper_index
    /\ pool.tick_current_index > position.tick_lower_index

InRange(position) ==
    /\ pool.tick_current_index < position.tick_upper_index
    /\ pool.tick_current_index >= position.tick_lower_index

\* calculate_modify_liquidity returns Ok.
CanModify(position, delta) ==
    /\ HasTick(position.tick_lower_index)
    /\ HasTick(position.tick_upper_index)
    /\ InRange(position) => CanAdd(pool.liquidity, delta)
    /\ CanUpdateTick(ticks[position.tick_lower_index], delta, FALSE)
    /\ CanUpdateTick(ticks[position.tick_upper_index], delta, TRUE)
    /\ CanAdd(position.liquidity, delta)

\* sync_modify_liquidity_values
ModifyLiquidity(p, delta) ==
    LET position == positions[p]
        lower == position.tick_lower_index
        upper == position.tick_upper_index
    IN  /\ ~swap.in_progress
        /\ position.open
        /\ CanModify(position, delta)
        /\ positions' = [positions EXCEPT ![p].liquidity = @ + delta]
        /\ ticks' = [ticks EXCEPT ![lower] = NextTick(@, delta, FALSE),
                                  ![upper] = NextTick(@, delta, TRUE)]
        /\ pool' = IF InRange(position)
                   THEN [pool EXCEPT !.liquidity = @ + delta]
                   ELSE pool
        /\ UNCHANGED <<tick_arrays, swap>>

LiquidityOf(accounts) == [p \in PositionId |-> accounts[p].liquidity]

\* The tokens deposited fit a u64.
IncreaseLiquidity(p, liquidity_amount) ==
    /\ liquidity_amount \in 1 .. MAX_I128
    /\ Total(LiquidityOf(positions)) + liquidity_amount <= LiquiditySupply
    /\ ModifyLiquidity(p, liquidity_amount)

DecreaseLiquidity(p, liquidity_amount) ==
    /\ liquidity_amount \in 1 .. MAX_I128
    /\ ModifyLiquidity(p, -liquidity_amount)

-----------------------------------------------------------------------------
SwapStart(a_to_b, limit, arrays) ==
    /\ ~swap.in_progress
    /\ limit \in SqrtPrice
    /\ IF a_to_b THEN limit <= pool.sqrt_price ELSE limit >= pool.sqrt_price
    /\ swap' = [in_progress |-> TRUE, a_to_b |-> a_to_b, limit |-> limit,
                arrays |-> arrays, array_index |-> 1, amount_remains |-> TRUE,
                sqrt_price |-> pool.sqrt_price,
                tick_index |-> pool.tick_current_index,
                liquidity |-> pool.liquidity]
    /\ UNCHANGED <<pool, tick_arrays, ticks, positions>>

\* The condition of the loop.
SwapContinues ==
    /\ swap.in_progress
    /\ swap.amount_remains
    /\ swap.limit # swap.sqrt_price

\* The search of the loop returns Ok((k, next)).
NextTickFound(k, next) ==
    get_next_initialized_tick_index(swap.arrays, swap.array_index,
        swap.tick_index, swap.a_to_b, InitializedTicks, k, next)

\* get_next_sqrt_prices
SqrtPriceTarget(next) ==
    LET next_tick_price == sqrt_price_from_tick_index[next]
        beyond == IF swap.a_to_b THEN next_tick_price < swap.limit
                                 ELSE next_tick_price > swap.limit
    IN  IF beyond THEN swap.limit ELSE next_tick_price

\* compute_swap, of which only this is kept: the price moves towards the
\* target, short of it only when liquidity took all that was left to trade,
\* and trading nothing leaves the amount as it was.
ComputeSwap(target, next_price, amount_remains) ==
    /\ IF swap.a_to_b THEN next_price \in target .. swap.sqrt_price
                      ELSE next_price \in swap.sqrt_price .. target
    /\ next_price # target => swap.liquidity > 0 /\ ~amount_remains
    /\ swap.liquidity = 0 \/ swap.sqrt_price = target => amount_remains

\* get_tick returns an initialized tick: false when next is no usable tick.
Crosses(k, next) ==
    /\ check_in_array_bounds(swap.arrays[k], next)
    /\ next \in InitializedTicks

\* Slip: the net is not negated when the price moves left.
LiquidityAcrossUnsigned(next) == swap.liquidity + ticks[next].liquidity_net

\* calculate_update
LiquidityAcross(next) ==
    IF swap.a_to_b THEN swap.liquidity - ticks[next].liquidity_net
                   ELSE swap.liquidity + ticks[next].liquidity_net

\* Slip: a swap down does not step below the tick it reached, so that the
\* next search finds it again.
TickIndexUnshifted(next, next_price) ==
    IF next_price = sqrt_price_from_tick_index[next] THEN next
    ELSE IF next_price # swap.sqrt_price
    THEN tick_index_from_sqrt_price(next_price)
    ELSE swap.tick_index

\* Slip: the tick is updated only when the swap reaches the next one.
TickIndexStale(next, next_price) ==
    IF next_price = sqrt_price_from_tick_index[next]
    THEN IF swap.a_to_b THEN next - 1 ELSE next
    ELSE swap.tick_index

\* The current tick once the price has moved to next_price.  The search down
\* includes the current tick, which a tick just reached must therefore not be.
TickIndexAfter(next, next_price) ==
    IF next_price = sqrt_price_from_tick_index[next]
    THEN IF swap.a_to_b THEN next - 1 ELSE next
    ELSE IF next_price # swap.sqrt_price
    THEN tick_index_from_sqrt_price(next_price)
    ELSE swap.tick_index

\* What an iteration makes of the loop variables.
Advance(k, next, next_price, amount_remains) ==
    LET reached == next_price = sqrt_price_from_tick_index[next]
        crosses == reached /\ Crosses(k, next)
    IN  /\ crosses => LiquidityAcross(next) \in U128
        /\ swap' = [swap EXCEPT
            !.amount_remains = amount_remains,
            !.sqrt_price = next_price,
            !.tick_index = TickIndexAfter(next, next_price),
            !.liquidity = IF crosses THEN LiquidityAcross(next) ELSE @,
            !.array_index =
                IF reached THEN NextArrayIndex(swap.arrays, k, next, swap.a_to_b)
                ELSE @]

\* One iteration of the loop, once the search has found next in array k.
SwapIteration(k, next, next_price, amount_remains) ==
    /\ ComputeSwap(SqrtPriceTarget(next), next_price, amount_remains)
    /\ Advance(k, next, next_price, amount_remains)
    /\ UNCHANGED <<pool, tick_arrays, ticks, positions>>

SwapStep ==
    /\ SwapContinues
    /\ \E k \in DOMAIN swap.arrays, next \in TickIndex :
          /\ NextTickFound(k, next)
          /\ \E next_price \in SqrtPrice, amount_remains \in BOOLEAN :
                SwapIteration(k, next, next_price, amount_remains)

\* The loop has ended: update_after_swap.
SwapEnd ==
    /\ swap.in_progress
    /\ ~SwapContinues
    /\ pool' = [pool EXCEPT !.liquidity = swap.liquidity,
                            !.sqrt_price = swap.sqrt_price,
                            !.tick_current_index = swap.tick_index]
    /\ swap' = NoSwap
    /\ UNCHANGED <<tick_arrays, ticks, positions>>

\* The arrays run out or are not neighbours: the instruction fails.
SwapFail ==
    /\ SwapContinues
    /\ \A k \in DOMAIN swap.arrays, next \in TickIndex : ~NextTickFound(k, next)
    /\ swap' = NoSwap
    /\ UNCHANGED <<pool, tick_arrays, ticks, positions>>

\* An amount overflows, the caller's threshold is missed, a transfer fails.
SwapReject ==
    /\ swap.in_progress
    /\ swap' = NoSwap
    /\ UNCHANGED <<pool, tick_arrays, ticks, positions>>

-----------------------------------------------------------------------------
Next ==
    \/ \E start \in StartTicks : InitializeTickArray(start)
    \/ \E p \in PositionId, lower, upper \in UsableTicks :
          OpenPosition(p, lower, upper)
    \/ \E p \in PositionId : ClosePosition(p)
    \/ \E p \in PositionId, amount \in LiquidityAmounts :
          \/ IncreaseLiquidity(p, amount)
          \/ DecreaseLiquidity(p, amount)
    \/ \E a_to_b \in BOOLEAN, limit \in SqrtPriceLimits,
          arrays \in SwapTickSequence(tick_arrays) :
             SwapStart(a_to_b, limit, arrays)
    \/ SwapStep
    \/ SwapEnd
    \/ SwapFail
    \/ SwapReject

Spec == Init /\ [][Next]_vars

\* A started instruction runs on, and so does the loop of a swap; that a swap
\* is rejected is never certain.
FairSpec == Spec /\ WF_vars(SwapStep \/ SwapEnd \/ SwapFail)

-----------------------------------------------------------------------------
TypeOK ==
    /\ pool \in Pool
    /\ tick_arrays \subseteq StartTicks
    /\ ticks \in [UsableTicks -> Tick]
    /\ positions \in [PositionId -> Position]
    /\ swap \in {NoSwap} \union Swap

(***************************************************************************)
(* What each position contributes at a tick: the liquidity that enters     *)
(* there, that leaves there, and that is active while the tick is current. *)
(***************************************************************************)
Entering(accounts, t) ==
    [p \in PositionId |->
        IF accounts[p].tick_lower_index = t THEN accounts[p].liquidity ELSE 0]
Leaving(accounts, t) ==
    [p \in PositionId |->
        IF accounts[p].tick_upper_index = t THEN accounts[p].liquidity ELSE 0]
ActiveAt(accounts, t) ==
    [p \in PositionId |->
        IF /\ accounts[p].tick_lower_index <= t
           /\ t < accounts[p].tick_upper_index
        THEN accounts[p].liquidity ELSE 0]

(***************************************************************************)
(* The pool's liquidity is the liquidity of the positions whose range      *)
(* holds the current tick.  The code keeps it by adding and subtracting    *)
(* deltas at the instructions and nets at the crossings, never by summing. *)
(***************************************************************************)
ActiveLiquidity ==
    pool.liquidity = Total(ActiveAt(positions, pool.tick_current_index))

(***************************************************************************)
(* The same holds of the loop of a swap at each iteration: no crossing is  *)
(* missed, repeated or taken in the wrong direction, whatever arrays the   *)
(* caller chose.                                                           *)
(***************************************************************************)
SwapActiveLiquidity ==
    swap.in_progress =>
        swap.liquidity = Total(ActiveAt(positions, swap.tick_index))

(***************************************************************************)
(* A tick's net and gross liquidity are those of the positions that begin  *)
(* or end there, and it is initialized exactly when there are any: an      *)
(* update that empties a tick resets the whole of it.                      *)
(***************************************************************************)
TickLiquidity ==
    \A t \in UsableTicks :
        LET entering == Total(Entering(positions, t))
            leaving == Total(Leaving(positions, t))
        IN  /\ ticks[t].liquidity_net = entering - leaving
            /\ ticks[t].liquidity_gross = entering + leaving
            /\ ticks[t].initialized <=> ticks[t].liquidity_gross > 0

\* The price lies in the range of the tick, the upper end included: a swap
\* down that stops on a tick leaves the tick below it as the current one.
PriceAtTick(price, t) ==
    /\ t >= MIN_TICK_INDEX => sqrt_price_from_tick_index[t] <= price
    /\ t < MAX_TICK_INDEX => price <= sqrt_price_from_tick_index[t + 1]

(***************************************************************************)
(* tick_current_index and sqrt_price, which the swap loop updates apart,   *)
(* always agree, in the pool and in the loop.                              *)
(***************************************************************************)
PriceMatchesTick ==
    /\ PriceAtTick(pool.sqrt_price, pool.tick_current_index)
    /\ swap.in_progress => PriceAtTick(swap.sqrt_price, swap.tick_index)

(***************************************************************************)
(* A position can always be emptied: no later deposit, withdrawal or swap  *)
(* leaves a tick or the pool with too little, or too narrow an integer, to *)
(* take back what the position put there.                                  *)
(***************************************************************************)
Withdrawable ==
    \A p \in PositionId :
        /\ ~swap.in_progress
        /\ positions[p].liquidity > 0
        => CanModify(positions[p], -positions[p].liquidity)

(***************************************************************************)
(* A swap never fails with LiquidityOverflow or LiquidityUnderflow at a    *)
(* tick it crosses: whatever tick the search returns can be crossed.       *)
(***************************************************************************)
CrossingSucceeds ==
    SwapContinues =>
        \A k \in DOMAIN swap.arrays, next \in TickIndex :
            NextTickFound(k, next) /\ Crosses(k, next)
                => LiquidityAcross(next) \in U128

(***************************************************************************)
(* An iteration after which the loop goes on has moved the tick strictly   *)
(* in the swap's direction, even if it traded nothing, found a tick that   *)
(* is not initialized or changed array: so many ticks as the pool has      *)
(* bound the iterations of a swap.                                         *)
(***************************************************************************)
IterationsAdvance ==
    SwapContinues =>
        \A k \in DOMAIN swap.arrays, next \in TickIndex :
            NextTickFound(k, next) =>
                \A next_price \in SqrtPrice \ {swap.limit} :
                    ComputeSwap(SqrtPriceTarget(next), next_price, TRUE) =>
                        IF swap.a_to_b
                        THEN TickIndexAfter(next, next_price) < swap.tick_index
                        ELSE swap.tick_index < TickIndexAfter(next, next_price)

(***************************************************************************)
(* The loop of every swap ends: each iteration moves the price, the tick   *)
(* or the array, although an iteration may trade nothing.                  *)
(***************************************************************************)
SwapTerminates == swap.in_progress ~> ~swap.in_progress
=============================================================================
