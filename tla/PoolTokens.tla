----------------------------- MODULE PoolTokens -----------------------------
(***************************************************************************)
(* The tokens of one pool: what a deposit costs, what a withdrawal pays,   *)
(* and what a swap moves, step by step, with the program's own arithmetic. *)
(* The actions are those of Liquidity with the amounts filled in; that     *)
(* they still are those of Liquidity is the property ImplementsLiquidity.  *)
(*                                                                         *)
(* The vaults are counted without the fees of swaps, whose sharing is the  *)
(* subject of Fees.                                                        *)
(***************************************************************************)
EXTENDS Liquidity

CONSTANTS
    Q64, MAX_U64,
    FEE_RATE_MUL_VALUE, fee_rate,
    SwapAmounts   \* bound: the amount arguments of callers

INSTANCE SwapMath

(* Tokens of 64 bits, prices of 96 bits and positive.                          *)
ASSUME TokensAssumption ==
    /\ Q64 \in Nat \ {0, 1} /\ MAX_U64 = Q64 - 1 /\ MAX_U128 = Q64 * Q64 - 1
    /\ FEE_RATE_MUL_VALUE \in Nat
    /\ fee_rate \in 0 .. FEE_RATE_MUL_VALUE - 1
    /\ SwapAmounts \subseteq 1 .. MAX_U64
    /\ MIN_SQRT_PRICE > 0
    /\ MAX_SQRT_PRICE * MAX_SQRT_PRICE <= Q64 * Q64 * Q64

(***************************************************************************)
(* A unit of liquidity costs at least 2 * MAX_U64 / LiquiditySupply tokens *)
(* at any price within its range: (p - lower) / Q64 of token B and         *)
(* Q64 * (upper - p) / (p * upper) of token A.  In the code that is more   *)
(* than 2^-47, so that LiquiditySupply may be anything from 2^112 on.      *)
(***************************************************************************)
ASSUME SupplyAssumption ==
    \A t, u \in UsableTicks :
        LET lower == sqrt_price_from_tick_index[t]
            upper == sqrt_price_from_tick_index[u]
        IN  t < u => \A p \in lower .. upper :
               LiquiditySupply * ((p - lower) * p * upper + (upper - p) * Q64 * Q64)
                   >= 2 * MAX_U64 * Q64 * p * upper

VARIABLES
    vault,  \* the tokens [a, b] the pool holds, its fees not counted
    trade   \* what the swap in progress has traded so far, or NoTrade

tokenVars == <<vault, trade>>

NoTrade == [is_input |-> TRUE, amount |-> 0, amount_remaining |-> 0,
            amount_calculated |-> 0, fees |-> 0]

-----------------------------------------------------------------------------
\* Slip: which tokens a position holds is read off the prices.
DeltasByPrice(position, liquidity, round_up) ==
    LET lower_price == sqrt_price_from_tick_index[position.tick_lower_index]
        upper_price == sqrt_price_from_tick_index[position.tick_upper_index]
        price == pool.sqrt_price
    IN  IF price <= lower_price
        THEN [a |-> get_amount_delta_a(lower_price, upper_price, liquidity, round_up),
              b |-> 0]
        ELSE [a |-> 0,
              b |-> get_amount_delta_b(lower_price, upper_price, liquidity, round_up)]

\* calculate_liquidity_token_deltas
TokenDeltas(position, liquidity, round_up) ==
    LET lower_price == sqrt_price_from_tick_index[position.tick_lower_index]
        upper_price == sqrt_price_from_tick_index[position.tick_upper_index]
        from == IF pool.tick_current_index < position.tick_lower_index
                THEN lower_price
                ELSE IF pool.tick_current_index < position.tick_upper_index
                THEN pool.sqrt_price ELSE upper_price
    IN  [a |-> get_amount_delta_a(from, upper_price, liquidity, round_up),
         b |-> get_amount_delta_b(lower_price, from, liquidity, round_up)]

AreOk(deltas) == Err \notin {deltas.a, deltas.b}

\* Slip: a deposit is rounded down like a withdrawal.
DepositFloor(position, liquidity) == TokenDeltas(position, liquidity, FALSE)

Deposit(position, liquidity) == TokenDeltas(position, liquidity, TRUE)
Withdrawal(position, liquidity) == TokenDeltas(position, liquidity, FALSE)

\* No vault can hold more than a token's supply.
Held(amount) == amount <= MAX_U64

transfer_from_owner_to_vault(held, deltas) ==
    [a |-> held.a + deltas.a, b |-> held.b + deltas.b]

\* That the vault holds enough is not a guard here but a property.
transfer_from_vault_to_owner(held, deltas) ==
    [a |-> held.a - deltas.a, b |-> held.b - deltas.b]

TokensIncreaseLiquidity(p, liquidity_amount) ==
    LET deltas == Deposit(positions[p], liquidity_amount)
    IN  /\ liquidity_amount \in 1 .. MAX_I128
        /\ ModifyLiquidity(p, liquidity_amount)
        /\ AreOk(deltas)
        /\ vault' = transfer_from_owner_to_vault(vault, deltas)
        /\ Held(vault'.a) /\ Held(vault'.b)
        /\ UNCHANGED trade

TokensDecreaseLiquidity(p, liquidity_amount) ==
    LET deltas == Withdrawal(positions[p], liquidity_amount)
    IN  /\ DecreaseLiquidity(p, liquidity_amount)
        /\ AreOk(deltas)
        /\ vault' = transfer_from_vault_to_owner(vault, deltas)
        /\ UNCHANGED trade

-----------------------------------------------------------------------------
TokensSwapStart(a_to_b, limit, arrays, amount, is_input) ==
    /\ SwapStart(a_to_b, limit, arrays)
    /\ trade' = [is_input |-> is_input, amount |-> amount,
                 amount_remaining |-> amount, amount_calculated |-> 0, fees |-> 0]
    /\ UNCHANGED vault

StepTo(next) ==
    compute_swap(trade.amount_remaining, fee_rate, swap.liquidity, swap.sqrt_price,
                 SqrtPriceTarget(next), trade.is_input, swap.a_to_b)

\* What a step leaves of the amount, and adds to the other one.
Traded(step) ==
    LET paid == step.amount_in + step.fee_amount
    IN  [trade EXCEPT
            !.amount_remaining =
                @ - (IF trade.is_input THEN paid ELSE step.amount_out),
            !.amount_calculated =
                @ + (IF trade.is_input THEN step.amount_out ELSE paid),
            !.fees = @ + step.fee_amount]

TokensSwapStep ==
    /\ SwapContinues
    /\ \E k \in DOMAIN swap.arrays, next \in TickIndex :
          LET step == StepTo(next)
          IN  /\ NextTickFound(k, next)
              /\ IsOk(step)
              /\ trade' = Traded(step)
              /\ trade'.amount_remaining >= 0
              /\ trade'.amount_calculated <= MAX_U64
              /\ Advance(k, next, step.next_price, trade'.amount_remaining > 0)
    /\ UNCHANGED <<pool, tick_arrays, ticks, positions, vault>>

\* The transfers of a swap; its fees leave the amounts counted here.
perform_swap(amount_a, amount_b) ==
    LET taken == IF swap.a_to_b THEN [a |-> amount_a - trade.fees, b |-> 0]
                                ELSE [a |-> 0, b |-> amount_b - trade.fees]
        given == IF swap.a_to_b THEN [a |-> 0, b |-> amount_b]
                                ELSE [a |-> amount_a, b |-> 0]
    IN  transfer_from_vault_to_owner(transfer_from_owner_to_vault(vault, taken), given)

\* amount_a and amount_b of the swap.
TokensSwapEnd ==
    LET specified == trade.amount - trade.amount_remaining
        amount_a == IF swap.a_to_b = trade.is_input
                    THEN specified ELSE trade.amount_calculated
        amount_b == IF swap.a_to_b = trade.is_input
                    THEN trade.amount_calculated ELSE specified
    IN  /\ SwapEnd
        /\ vault' = perform_swap(amount_a, amount_b)
        /\ Held(vault'.a) /\ Held(vault'.b)
        /\ trade' = NoTrade

TokensSwapAbort ==
    /\ SwapFail \/ SwapReject
    /\ trade' = NoTrade
    /\ UNCHANGED vault

-----------------------------------------------------------------------------
TokensInit ==
    /\ Init
    /\ vault = [a |-> 0, b |-> 0]
    /\ trade = NoTrade

TokensNext ==
    \/ \E start \in StartTicks : InitializeTickArray(start) /\ UNCHANGED tokenVars
    \/ \E p \in PositionId, lower, upper \in UsableTicks :
          OpenPosition(p, lower, upper) /\ UNCHANGED tokenVars
    \/ \E p \in PositionId : ClosePosition(p) /\ UNCHANGED tokenVars
    \/ \E p \in PositionId, amount \in LiquidityAmounts :
          \/ TokensIncreaseLiquidity(p, amount)
          \/ TokensDecreaseLiquidity(p, amount)
    \/ \E a_to_b, is_input \in BOOLEAN, limit \in SqrtPriceLimits,
          arrays \in SwapTickSequence(tick_arrays), amount \in SwapAmounts :
             TokensSwapStart(a_to_b, limit, arrays, amount, is_input)
    \/ TokensSwapStep
    \/ TokensSwapEnd
    \/ TokensSwapAbort

TokensSpec == TokensInit /\ [][TokensNext]_<<vars, tokenVars>>

-----------------------------------------------------------------------------
TokensTypeOK ==
    /\ vault \in [a: 0 .. MAX_U64, b: 0 .. MAX_U64]
    /\ trade \in [is_input: BOOLEAN, amount: 0 .. MAX_U64,
                  amount_remaining: 0 .. MAX_U64,
                  amount_calculated: 0 .. MAX_U64, fees: 0 .. MAX_U64]

(***************************************************************************)
(* Every step of the program with its amounts is one that Liquidity        *)
(* allows: what that module assumes of compute_swap is true, and so is the *)
(* bound it puts on the liquidity that tokens can buy.                     *)
(***************************************************************************)
ImplementsLiquidity == Spec

(***************************************************************************)
(* The vaults hold what all positions together could withdraw: whatever    *)
(* is deposited, traded back and forth and withdrawn in between, at        *)
(* whatever prices, rounding never leaves a provider unpaid, and no caller *)
(* gains tokens by a sequence of operations.                               *)
(***************************************************************************)
VaultsCoverPositions ==
    LET due == [p \in PositionId |->
                    Withdrawal(positions[p], positions[p].liquidity)]
    IN  /\ \A p \in PositionId : AreOk(due[p])
        /\ Total([p \in PositionId |-> due[p].a]) <= vault.a
        /\ Total([p \in PositionId |-> due[p].b]) <= vault.b
=============================================================================
