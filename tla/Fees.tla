-------------------------------- MODULE Fees --------------------------------
(***************************************************************************)
(* The fees of a pool, in token A: what a swap takes, how it is shared     *)
(* among the positions in range, and what a position or the protocol may   *)
(* collect (the fee side of managers swap, tick and position, and the      *)
(* instructions collect_fees, collect_protocol_fees and                    *)
(* update_fees_and_rewards).  Token B is the mirror image: it is the input *)
(* of the swaps in the other direction.                                    *)
(*                                                                         *)
(* Nobody's share is stored.  The pool counts the growth of fees per unit  *)
(* of liquidity, and a tick remembers how much of it accrued on the other  *)
(* side of the tick; every counter wraps.  The actions are those of        *)
(* Liquidity, each with what it does to the fees.                          *)
(***************************************************************************)
EXTENDS Liquidity

CONSTANTS
    Q64,          \* 2^64 in the code
    MAX_U64,      \* 2^64 - 1 in the code
    protocol_fee_rate, PROTOCOL_FEE_RATE_MUL_VALUE,
    FeeAmounts    \* bound: the fees a step of a swap takes

ASSUME FeesAssumption ==
    /\ Q64 \in Nat \ {0} /\ MAX_U64 \in Nat
    /\ PROTOCOL_FEE_RATE_MUL_VALUE \in Nat \ {0}
    /\ protocol_fee_rate \in 0 .. PROTOCOL_FEE_RATE_MUL_VALUE
    /\ FeeAmounts \subseteq Nat

VARIABLES
    ledger,  \* the fee fields of the pool and its ticks, and the fees it holds
    loop,    \* the same in the swap in progress; rolled back when it fails
    fee_growth_checkpoint_a, fee_owed_a  \* fields of the positions

feeVars == <<ledger, loop, fee_growth_checkpoint_a, fee_owed_a>>

U64 == 0 .. MAX_U64
Modulus == MAX_U128 + 1

\* Slip: the growth runs past 128 bits.
adding(a, b) == a + b

wrapping_add(a, b) == (a + b) % Modulus
wrapping_sub(a, b) == (a - b) % Modulus

\* vault_a is what the token vault holds beyond the positions' own tokens.
Ledger == [fee_growth_global_a: U128, fee_growth_outside_a: [UsableTicks -> U128],
           protocol_fee_owed_a: U64, vault_a: U64]

NewLedger == [fee_growth_global_a |-> 0,
              fee_growth_outside_a |-> [t \in UsableTicks |-> 0],
              protocol_fee_owed_a |-> 0, vault_a |-> 0]

-----------------------------------------------------------------------------
\* next_fee_growths_inside, of books that are a ledger.

GrowthBelow(books, t, current) ==
    IF ~ticks[t].initialized THEN books.fee_growth_global_a
    ELSE IF current < t
    THEN wrapping_sub(books.fee_growth_global_a, books.fee_growth_outside_a[t])
    ELSE books.fee_growth_outside_a[t]

GrowthAbove(books, t, current) ==
    IF ~ticks[t].initialized THEN 0
    ELSE IF current < t
    THEN books.fee_growth_outside_a[t]
    ELSE wrapping_sub(books.fee_growth_global_a, books.fee_growth_outside_a[t])

GrowthInside(books, position, current) ==
    wrapping_sub(
        wrapping_sub(books.fee_growth_global_a,
                     GrowthBelow(books, position.tick_lower_index, current)),
        GrowthAbove(books, position.tick_upper_index, current))

\* checked_mul_shift_right(liquidity, growth).unwrap_or(0)
FeeDelta(liquidity, growth) ==
    IF liquidity * growth > MAX_U128 THEN 0 ELSE (liquidity * growth) \div Q64

\* Slip: the checkpoint is left behind, so that fees are owed twice.
UpdateFeesOnly(p) ==
    LET inside == GrowthInside(ledger, positions[p], pool.tick_current_index)
        delta == wrapping_sub(inside, fee_growth_checkpoint_a[p])
    IN  /\ fee_owed_a' = [fee_owed_a EXCEPT ![p] =
              (@ + FeeDelta(positions[p].liquidity, delta)) % (MAX_U64 + 1)]
        /\ UNCHANGED fee_growth_checkpoint_a

\* next_position_modify_liquidity_update
UpdateFees(p) ==
    LET inside == GrowthInside(ledger, positions[p], pool.tick_current_index)
        delta == wrapping_sub(inside, fee_growth_checkpoint_a[p])
    IN  /\ fee_owed_a' = [fee_owed_a EXCEPT ![p] =
              (@ + FeeDelta(positions[p].liquidity, delta)) % (MAX_U64 + 1)]
        /\ fee_growth_checkpoint_a' = [fee_growth_checkpoint_a EXCEPT ![p] = inside]

\* Slip: a new tick counts the growth so far as below it wherever it lies.
NextOutsideGlobal(t, delta) ==
    LET gross == ticks[t].liquidity_gross
    IN  IF gross + delta = 0 THEN 0
        ELSE IF gross = 0 THEN ledger.fee_growth_global_a
        ELSE ledger.fee_growth_outside_a[t]

\* next_tick_modify_liquidity_update: by convention the growth until a tick is
\* initialized accrued below it.
NextOutside(t, delta) ==
    LET gross == ticks[t].liquidity_gross
    IN  IF gross + delta = 0 THEN 0
        ELSE IF gross = 0
        THEN IF pool.tick_current_index >= t THEN ledger.fee_growth_global_a ELSE 0
        ELSE ledger.fee_growth_outside_a[t]

-----------------------------------------------------------------------------
\* Positions.

FeesOpenPosition(p, lower, upper) ==
    /\ OpenPosition(p, lower, upper)
    /\ UNCHANGED feeVars

\* The account is gone: its fields are zero when it is next used.
FeesClosePosition(p) ==
    /\ ClosePosition(p)
    /\ fee_owed_a[p] = 0
    /\ fee_growth_checkpoint_a' = [fee_growth_checkpoint_a EXCEPT ![p] = 0]
    /\ UNCHANGED <<ledger, loop, fee_owed_a>>

FeesModifyLiquidity(p, delta) ==
    LET lower == positions[p].tick_lower_index
        upper == positions[p].tick_upper_index
    IN  /\ UpdateFees(p)
        /\ ledger' = [ledger EXCEPT
              !.fee_growth_outside_a[lower] = NextOutside(lower, delta),
              !.fee_growth_outside_a[upper] = NextOutside(upper, delta)]
        /\ loop' = ledger'

FeesIncreaseLiquidity(p, liquidity_amount) ==
    /\ IncreaseLiquidity(p, liquidity_amount)
    /\ FeesModifyLiquidity(p, liquidity_amount)

FeesDecreaseLiquidity(p, liquidity_amount) ==
    /\ DecreaseLiquidity(p, liquidity_amount)
    /\ FeesModifyLiquidity(p, -liquidity_amount)

UpdateFeesAndRewards(p) ==
    /\ ~swap.in_progress
    /\ positions[p].open
    /\ positions[p].liquidity # 0
    /\ HasTick(positions[p].tick_lower_index)
    /\ HasTick(positions[p].tick_upper_index)
    /\ UpdateFees(p)
    /\ UNCHANGED <<vars, ledger, loop>>

CollectFees(p) ==
    /\ ~swap.in_progress
    /\ positions[p].open
    /\ ledger' = [ledger EXCEPT !.vault_a = @ - fee_owed_a[p]]
    /\ loop' = ledger'
    /\ fee_owed_a' = [fee_owed_a EXCEPT ![p] = 0]
    /\ UNCHANGED <<vars, fee_growth_checkpoint_a>>

CollectProtocolFees ==
    /\ ~swap.in_progress
    /\ ledger' = [ledger EXCEPT !.vault_a = @ - ledger.protocol_fee_owed_a,
                                !.protocol_fee_owed_a = 0]
    /\ loop' = ledger'
    /\ UNCHANGED <<vars, fee_growth_checkpoint_a, fee_owed_a>>

-----------------------------------------------------------------------------
\* Swaps.

calculate_protocol_fee(fee) ==
    (fee * protocol_fee_rate) \div PROTOCOL_FEE_RATE_MUL_VALUE

\* calculate_fees: the growth after a step that took a fee.
GrowthAfter(fee) ==
    IF swap.liquidity = 0 THEN loop.fee_growth_global_a
    ELSE wrapping_add(loop.fee_growth_global_a,
              ((fee - calculate_protocol_fee(fee)) * Q64) \div swap.liquidity)

\* Slip: a crossed tick is given the growth from before the step.
CrossOutsideStale(next, growth) ==
    wrapping_sub(loop.fee_growth_global_a, loop.fee_growth_outside_a[next])

\* next_tick_cross_update
CrossOutside(next, growth) ==
    wrapping_sub(growth, loop.fee_growth_outside_a[next])

\* The loop's copy of the ledger after an iteration that took a fee.
LoopAfter(k, next, next_price, fee) ==
    LET growth == GrowthAfter(fee)
        crosses == /\ next_price = sqrt_price_from_tick_index[next]
                   /\ Crosses(k, next)
    IN  [fee_growth_global_a |-> growth,
         fee_growth_outside_a |->
            IF crosses
            THEN [loop.fee_growth_outside_a EXCEPT ![next] = CrossOutside(next, growth)]
            ELSE loop.fee_growth_outside_a,
         protocol_fee_owed_a |->
            (loop.protocol_fee_owed_a + calculate_protocol_fee(fee)) % (MAX_U64 + 1),
         vault_a |-> loop.vault_a + fee]

\* A step that trades nothing takes no fee, and only the input token pays one.
FeesSwapStep ==
    /\ SwapContinues
    /\ \E k \in DOMAIN swap.arrays, next \in TickIndex :
          /\ NextTickFound(k, next)
          /\ \E next_price \in SqrtPrice, amount_remains \in BOOLEAN,
                fee \in FeeAmounts \union {0} :
                /\ SwapIteration(k, next, next_price, amount_remains)
                /\ fee > 0 => /\ swap.a_to_b
                              /\ swap.liquidity > 0
                              /\ swap.sqrt_price # SqrtPriceTarget(next)
                /\ loop.vault_a + fee <= MAX_U64
                /\ loop' = LoopAfter(k, next, next_price, fee)
    /\ UNCHANGED <<ledger, fee_growth_checkpoint_a, fee_owed_a>>

FeesSwapEnd ==
    /\ SwapEnd
    /\ ledger' = loop
    /\ UNCHANGED <<loop, fee_growth_checkpoint_a, fee_owed_a>>

FeesSwapAbort ==
    /\ SwapFail \/ SwapReject
    /\ loop' = ledger
    /\ UNCHANGED <<ledger, fee_growth_checkpoint_a, fee_owed_a>>

-----------------------------------------------------------------------------
FeesInit ==
    /\ Init
    /\ ledger = NewLedger
    /\ loop = NewLedger
    /\ fee_growth_checkpoint_a = [p \in PositionId |-> 0]
    /\ fee_owed_a = [p \in PositionId |-> 0]

FeesNext ==
    \/ \E start \in StartTicks : InitializeTickArray(start) /\ UNCHANGED feeVars
    \/ \E p \in PositionId, lower, upper \in UsableTicks :
          FeesOpenPosition(p, lower, upper)
    \/ \E p \in PositionId :
          \/ FeesClosePosition(p)
          \/ UpdateFeesAndRewards(p)
          \/ CollectFees(p)
    \/ \E p \in PositionId, amount \in LiquidityAmounts :
          \/ FeesIncreaseLiquidity(p, amount)
          \/ FeesDecreaseLiquidity(p, amount)
    \/ CollectProtocolFees
    \/ \E a_to_b \in BOOLEAN, limit \in SqrtPriceLimits,
          arrays \in SwapTickSequence(tick_arrays) :
             SwapStart(a_to_b, limit, arrays) /\ UNCHANGED feeVars
    \/ FeesSwapStep
    \/ FeesSwapEnd
    \/ FeesSwapAbort

FeesSpec == FeesInit /\ [][FeesNext]_<<vars, feeVars>>

-----------------------------------------------------------------------------
FeesTypeOK ==
    /\ ledger \in Ledger
    /\ loop \in Ledger
    /\ fee_growth_checkpoint_a \in [PositionId -> U128]
    /\ fee_owed_a \in [PositionId -> U64]

\* The growth a position has not been credited with yet.
Unclaimed(books, current) ==
    [p \in PositionId |->
        IF positions[p].liquidity = 0 THEN 0
        ELSE wrapping_sub(GrowthInside(books, positions[p], current),
                          fee_growth_checkpoint_a[p])]

LoopTick == IF swap.in_progress THEN swap.tick_index ELSE pool.tick_current_index

(***************************************************************************)
(* Outside, below, above and checkpoints add up to FeeShares: fee growth   *)
(* reaches the positions in range when it accrues, whatever wraps, however *)
(* ticks are crossed, emptied and used again, and wherever the price is    *)
(* when that happens.                                                      *)
(***************************************************************************)
Shares == INSTANCE FeeShares WITH
    Holders <- PositionId,
    Ticks <- CurrentTick,
    holdings <- [p \in PositionId |->
                    [live |-> positions[p].liquidity > 0,
                     lower |-> positions[p].tick_lower_index,
                     upper |-> positions[p].tick_upper_index]],
    book <- [tick |-> LoopTick, unclaimed |-> Unclaimed(loop, LoopTick)],
    saved <- [tick |-> pool.tick_current_index,
              unclaimed |-> Unclaimed(ledger, pool.tick_current_index)],
    trading <- swap.in_progress

FeesAreShared == Shares!Spec

(***************************************************************************)
(* The vault can pay everybody: what the protocol and the positions are    *)
(* owed, and what the positions would be owed if all of them were brought  *)
(* up to date.  Rounding is in favour of the pool.                         *)
(***************************************************************************)
FeesCovered ==
    ledger.protocol_fee_owed_a
        + Total([p \in PositionId |->
              fee_owed_a[p]
                + FeeDelta(positions[p].liquidity,
                           Unclaimed(ledger, pool.tick_current_index)[p])])
      <= ledger.vault_a

(***************************************************************************)
(* What a position is owed shrinks only by being paid: the addition that   *)
(* may wrap, as its comment says, never does while a vault holds a u64.    *)
(***************************************************************************)
OwedOnlyPaid ==
    [][\A p \in PositionId :
          fee_owed_a'[p] < fee_owed_a[p] =>
              ledger'.vault_a = ledger.vault_a - fee_owed_a[p]]_<<vars, feeVars>>
=============================================================================
