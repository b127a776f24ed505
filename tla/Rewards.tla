------------------------------- MODULE Rewards -------------------------------
(***************************************************************************)
(* The rewards of a pool: tokens emitted by the clock and shared among the *)
(* positions in range (pool_manager::next_pool_reward_infos, the reward    *)
(* side of the tick, position and swap managers, and the instructions      *)
(* initialize_reward, set_reward_emissions, collect_reward and             *)
(* update_fees_and_rewards).                                               *)
(*                                                                         *)
(* The pool's growth is brought up to date only when an instruction needs  *)
(* it, for all rewards at once, from one timestamp.  The actions are those *)
(* of Liquidity, each with what it does to the rewards.  Who may set the   *)
(* emissions is left out.                                                  *)
(***************************************************************************)
EXTENDS Liquidity

CONSTANTS
    Q64,            \* 2^64 in the code
    MAX_U64,        \* 2^64 - 1 in the code
    NUM_REWARDS,    \* 3 in the code
    DAY_IN_SECONDS, \* 86 400 in the code
    MAX_TIME,       \* bound: the clock stops there
    Emissions,      \* bound: the emissions_per_second_x64 arguments of callers
    Deposits,       \* bound: the tokens sent to a reward vault at a time
    WatchedReward   \* any one reward, for RewardsAreShared

RewardIndex == 0 .. NUM_REWARDS - 1

ASSUME RewardsAssumption ==
    /\ Q64 \in Nat \ {0} /\ MAX_U64 \in Nat
    /\ NUM_REWARDS \in Nat /\ DAY_IN_SECONDS \in Nat /\ MAX_TIME \in Nat \ {0}
    /\ Emissions \subseteq 0 .. MAX_U128
    /\ Deposits \subseteq Nat
    /\ WatchedReward \in RewardIndex

VARIABLES
    unix_timestamp,       \* the clock
    rewards,              \* the reward fields of the pool and its ticks
    loop,                 \* the same in the swap in progress
    position_rewards,     \* reward_infos of the positions
    vaults                \* the tokens in each reward vault

rewardVars == <<unix_timestamp, rewards, loop, position_rewards, vaults>>

U64 == 0 .. MAX_U64
Modulus == MAX_U128 + 1

\* Slip: the growth runs past 128 bits.
adding(a, b) == a + b

wrapping_add(a, b) == (a + b) % Modulus
wrapping_sub(a, b) == (a - b) % Modulus

RewardInfo == [initialized: BOOLEAN, emissions_per_second_x64: U128,
               growth_global_x64: U128]
NewRewardInfo ==
    [initialized |-> FALSE, emissions_per_second_x64 |-> 0, growth_global_x64 |-> 0]

PositionRewardInfo == [growth_inside_checkpoint: U128, amount_owed: U64]
NewPositionReward == [growth_inside_checkpoint |-> 0, amount_owed |-> 0]

Rewards == [infos: [RewardIndex -> RewardInfo], updated: 0 .. MAX_TIME,
            outside: [UsableTicks -> [RewardIndex -> U128]]]

NoGrowth == [i \in RewardIndex |-> 0]

-----------------------------------------------------------------------------
\* checked_mul_div(..).unwrap_or(0)
GrowthOver(seconds, emissions, liquidity) ==
    IF seconds * emissions > MAX_U128 THEN 0
    ELSE (seconds * emissions) \div liquidity

\* next_pool_reward_infos, at the time that the clock shows.
NextInfos(books, liquidity) ==
    IF liquidity = 0 THEN books.infos
    ELSE [i \in RewardIndex |->
            IF ~books.infos[i].initialized THEN books.infos[i]
            ELSE [books.infos[i] EXCEPT !.growth_global_x64 =
                    wrapping_add(@, GrowthOver(unix_timestamp - books.updated,
                                        books.infos[i].emissions_per_second_x64,
                                        liquidity))]]

\* next_reward_growths_inside, for one reward that has grown to growth.
GrowthBelow(outside, growth, t, current) ==
    IF ~ticks[t].initialized THEN growth
    ELSE IF current < t THEN wrapping_sub(growth, outside[t]) ELSE outside[t]

GrowthAbove(outside, growth, t, current) ==
    IF ~ticks[t].initialized THEN 0
    ELSE IF current < t THEN outside[t] ELSE wrapping_sub(growth, outside[t])

GrowthInside(books, infos, i, position, current) ==
    LET growth == infos[i].growth_global_x64
        outside == [t \in UsableTicks |-> books.outside[t][i]]
    IN  IF ~infos[i].initialized THEN 0
        ELSE wrapping_sub(
                wrapping_sub(growth,
                    GrowthBelow(outside, growth, position.tick_lower_index, current)),
                GrowthAbove(outside, growth, position.tick_upper_index, current))

\* checked_mul_shift_right(liquidity, growth).unwrap_or(0)
RewardDelta(liquidity, growth) ==
    IF liquidity * growth > MAX_U128 THEN 0 ELSE (liquidity * growth) \div Q64

\* next_position_modify_liquidity_update, given the next infos of the pool.
UpdatePositionRewards(p, infos) ==
    position_rewards' = [position_rewards EXCEPT ![p] =
        [i \in RewardIndex |->
            LET inside == GrowthInside(rewards, infos, i, positions[p],
                                       pool.tick_current_index)
                growth == wrapping_sub(inside, @[i].growth_inside_checkpoint)
            IN  [growth_inside_checkpoint |-> inside,
                 amount_owed |->
                    (@[i].amount_owed + RewardDelta(positions[p].liquidity, growth))
                        % (MAX_U64 + 1)]]]

\* next_tick_modify_liquidity_update: growth until a tick is initialized
\* accrued below it, by convention.
NextOutside(t, delta, infos) ==
    LET gross == ticks[t].liquidity_gross
    IN  IF gross + delta = 0 THEN NoGrowth
        ELSE IF gross > 0 THEN rewards.outside[t]
        ELSE IF pool.tick_current_index >= t
        THEN [i \in RewardIndex |-> infos[i].growth_global_x64]
        ELSE NoGrowth

-----------------------------------------------------------------------------
\* Positions.

RewardsOpenPosition(p, lower, upper) ==
    /\ OpenPosition(p, lower, upper)
    /\ UNCHANGED rewardVars

RewardsClosePosition(p) ==
    /\ ClosePosition(p)
    /\ \A i \in RewardIndex : position_rewards[p][i].amount_owed = 0
    /\ position_rewards' =
          [position_rewards EXCEPT ![p] = [i \in RewardIndex |-> NewPositionReward]]
    /\ UNCHANGED <<unix_timestamp, rewards, loop, vaults>>

\* Slip: the timestamp is left behind.
SyncUntimed(infos, outside) ==
    rewards' = [rewards EXCEPT !.infos = infos, !.outside = outside]

\* update_rewards, and update_tick for the ticks that changed.
Sync(infos, outside) ==
    rewards' = [infos |-> infos, updated |-> unix_timestamp, outside |-> outside]

RewardsModifyLiquidity(p, delta) ==
    LET lower == positions[p].tick_lower_index
        upper == positions[p].tick_upper_index
        infos == NextInfos(rewards, pool.liquidity)
    IN  /\ UpdatePositionRewards(p, infos)
        /\ Sync(infos, [rewards.outside EXCEPT
                            ![lower] = NextOutside(lower, delta, infos),
                            ![upper] = NextOutside(upper, delta, infos)])
        /\ loop' = rewards'
        /\ UNCHANGED <<unix_timestamp, vaults>>

RewardsIncreaseLiquidity(p, liquidity_amount) ==
    /\ IncreaseLiquidity(p, liquidity_amount)
    /\ RewardsModifyLiquidity(p, liquidity_amount)

RewardsDecreaseLiquidity(p, liquidity_amount) ==
    /\ DecreaseLiquidity(p, liquidity_amount)
    /\ RewardsModifyLiquidity(p, -liquidity_amount)

UpdateFeesAndRewards(p) ==
    LET infos == NextInfos(rewards, pool.liquidity)
    IN  /\ ~swap.in_progress
        /\ positions[p].open
        /\ positions[p].liquidity # 0
        /\ HasTick(positions[p].tick_lower_index)
        /\ HasTick(positions[p].tick_upper_index)
        /\ UpdatePositionRewards(p, infos)
        /\ Sync(infos, rewards.outside)
        /\ loop' = rewards'
        /\ UNCHANGED <<vars, unix_timestamp, vaults>>

\* Slip: what the vault could not pay is forgotten.
OwedForgotten(amount_owed, vault_amount) == 0

\* calculate_collect_reward
OwedAfter(amount_owed, vault_amount) ==
    IF amount_owed > vault_amount THEN amount_owed - vault_amount ELSE 0

CollectReward(p, i) ==
    LET owed == position_rewards[p][i].amount_owed
        paid == IF owed > vaults[i] THEN vaults[i] ELSE owed
    IN  /\ ~swap.in_progress
        /\ positions[p].open
        /\ rewards.infos[i].initialized
        /\ position_rewards' = [position_rewards EXCEPT
              ![p][i].amount_owed = OwedAfter(owed, vaults[i])]
        /\ vaults' = [vaults EXCEPT ![i] = @ - paid]
        /\ UNCHANGED <<vars, unix_timestamp, rewards, loop>>

-----------------------------------------------------------------------------
\* Rewards.

\* Only the first reward that is not initialized yet can be.
InitializeReward(i) ==
    /\ ~swap.in_progress
    /\ ~rewards.infos[i].initialized
    /\ \A j \in RewardIndex : j < i => rewards.infos[j].initialized
    /\ rewards' = [rewards EXCEPT !.infos[i].initialized = TRUE]
    /\ loop' = rewards'
    /\ UNCHANGED <<vars, unix_timestamp, position_rewards, vaults>>

\* Anybody may send tokens to a vault.
FundReward(i, amount) ==
    /\ ~swap.in_progress
    /\ rewards.infos[i].initialized
    /\ vaults[i] + amount <= MAX_U64
    /\ vaults' = [vaults EXCEPT ![i] = @ + amount]
    /\ UNCHANGED <<vars, unix_timestamp, rewards, loop, position_rewards>>

\* Slip: the new rate is in force since the last update.
EmissionsBackdated(i, emissions) ==
    NextInfos([rewards EXCEPT !.infos[i].emissions_per_second_x64 = emissions],
              pool.liquidity)

\* Slip: the other rewards are not brought up to date, although the timestamp
\* that they share is.
EmissionsAlone(i, emissions) ==
    [rewards.infos EXCEPT
        ![i] = [NextInfos(rewards, pool.liquidity)[i] EXCEPT
                    !.emissions_per_second_x64 = emissions]]

\* update_emissions: the growth so far is that of the old rate.
InfosWithEmissions(i, emissions) ==
    [NextInfos(rewards, pool.liquidity) EXCEPT
        ![i].emissions_per_second_x64 = emissions]

\* An uninitialized reward has no vault to pass.
SetRewardEmissions(i, emissions) ==
    /\ ~swap.in_progress
    /\ rewards.infos[i].initialized
    /\ DAY_IN_SECONDS * emissions <= MAX_U128
    /\ (DAY_IN_SECONDS * emissions) \div Q64 <= vaults[i]
    /\ Sync(InfosWithEmissions(i, emissions), rewards.outside)
    /\ loop' = rewards'
    /\ UNCHANGED <<vars, unix_timestamp, position_rewards, vaults>>

-----------------------------------------------------------------------------
\* Swaps: the rewards are brought up to date at the start.

RewardsSwapStart(a_to_b, limit, arrays) ==
    /\ SwapStart(a_to_b, limit, arrays)
    /\ loop' = [infos |-> NextInfos(rewards, pool.liquidity),
                updated |-> unix_timestamp, outside |-> rewards.outside]
    /\ UNCHANGED <<unix_timestamp, rewards, position_rewards, vaults>>

\* next_tick_cross_update
CrossOutside(t) ==
    [i \in RewardIndex |->
        IF loop.infos[i].initialized
        THEN wrapping_sub(loop.infos[i].growth_global_x64, loop.outside[t][i])
        ELSE loop.outside[t][i]]

RewardsSwapStep ==
    /\ SwapContinues
    /\ \E k \in DOMAIN swap.arrays, next \in TickIndex :
          /\ NextTickFound(k, next)
          /\ \E next_price \in SqrtPrice, amount_remains \in BOOLEAN :
                /\ SwapIteration(k, next, next_price, amount_remains)
                /\ loop' = IF /\ next_price = sqrt_price_from_tick_index[next]
                              /\ Crosses(k, next)
                           THEN [loop EXCEPT !.outside[next] = CrossOutside(next)]
                           ELSE loop
    /\ UNCHANGED <<unix_timestamp, rewards, position_rewards, vaults>>

RewardsSwapEnd ==
    /\ SwapEnd
    /\ rewards' = loop
    /\ UNCHANGED <<unix_timestamp, loop, position_rewards, vaults>>

RewardsSwapAbort ==
    /\ SwapFail \/ SwapReject
    /\ loop' = rewards
    /\ UNCHANGED <<unix_timestamp, rewards, position_rewards, vaults>>

\* Time passes between transactions.
Elapse ==
    /\ ~swap.in_progress
    /\ unix_timestamp < MAX_TIME
    /\ unix_timestamp' = unix_timestamp + 1
    /\ UNCHANGED <<vars, rewards, loop, position_rewards, vaults>>

-----------------------------------------------------------------------------
RewardsInit ==
    /\ Init
    /\ unix_timestamp = 1   \* a new pool's own timestamp is long past
    /\ rewards = [infos |-> [i \in RewardIndex |-> NewRewardInfo], updated |-> 0,
                  outside |-> [t \in UsableTicks |-> NoGrowth]]
    /\ loop = rewards
    /\ position_rewards =
          [p \in PositionId |-> [i \in RewardIndex |-> NewPositionReward]]
    /\ vaults = [i \in RewardIndex |-> 0]

RewardsNext ==
    \/ \E start \in StartTicks : InitializeTickArray(start) /\ UNCHANGED rewardVars
    \/ \E p \in PositionId, lower, upper \in UsableTicks :
          RewardsOpenPosition(p, lower, upper)
    \/ \E p \in PositionId :
          \/ RewardsClosePosition(p)
          \/ UpdateFeesAndRewards(p)
          \/ \E i \in RewardIndex : CollectReward(p, i)
    \/ \E p \in PositionId, amount \in LiquidityAmounts :
          \/ RewardsIncreaseLiquidity(p, amount)
          \/ RewardsDecreaseLiquidity(p, amount)
    \/ \E i \in RewardIndex :
          \/ InitializeReward(i)
          \/ \E amount \in Deposits : FundReward(i, amount)
          \/ \E emissions \in Emissions : SetRewardEmissions(i, emissions)
    \/ \E a_to_b \in BOOLEAN, limit \in SqrtPriceLimits,
          arrays \in SwapTickSequence(tick_arrays) :
             RewardsSwapStart(a_to_b, limit, arrays)
    \/ Elapse
    \/ RewardsSwapStep
    \/ RewardsSwapEnd
    \/ RewardsSwapAbort

RewardsSpec == RewardsInit /\ [][RewardsNext]_<<vars, rewardVars>>

-----------------------------------------------------------------------------
RewardsTypeOK ==
    /\ unix_timestamp \in 0 .. MAX_TIME
    /\ rewards \in Rewards
    /\ loop \in Rewards
    /\ position_rewards \in [PositionId -> [RewardIndex -> PositionRewardInfo]]
    /\ vaults \in [RewardIndex -> U64]

\* The growth of reward i that a position would be credited with now.
Unclaimed(books, i, current) ==
    LET infos == NextInfos(books, pool.liquidity)
    IN  [p \in PositionId |->
            IF positions[p].liquidity = 0 THEN 0
            ELSE wrapping_sub(GrowthInside(books, infos, i, positions[p], current),
                              position_rewards[p][i].growth_inside_checkpoint)]

LoopTick == IF swap.in_progress THEN swap.tick_index ELSE pool.tick_current_index

(***************************************************************************)
(* The lazy bookkeeping adds up to RewardShares: a reward accrues with the *)
(* clock and to the positions in range at the time, however late and by    *)
(* whichever instruction the pool is brought up to date, whatever happened *)
(* to the price, the ticks, the liquidity, other rewards and the rate in   *)
(* between.                                                                *)
(***************************************************************************)
Shares == INSTANCE RewardShares WITH
    Holders <- PositionId,
    Ticks <- CurrentTick,
    now <- unix_timestamp,
    holdings <- [p \in PositionId |->
                    [live |-> positions[p].liquidity > 0,
                     lower |-> positions[p].tick_lower_index,
                     upper |-> positions[p].tick_upper_index]],
    book <- [tick |-> LoopTick, unclaimed |-> Unclaimed(loop, WatchedReward, LoopTick)],
    saved <- [tick |-> pool.tick_current_index,
              unclaimed |-> Unclaimed(rewards, WatchedReward, pool.tick_current_index)],
    trading <- swap.in_progress

RewardsAreShared == Shares!RewardsSpec

(***************************************************************************)
(* What a position is owed shrinks only by what its vault paid, in part or *)
(* in full, unless it wraps, which next_position_modify_liquidity_update   *)
(* allows.                                                                 *)
(***************************************************************************)
ShortPaymentRemembered ==
    [][\A p \in PositionId, i \in RewardIndex :
          LET before == position_rewards[p][i].amount_owed
              after == position_rewards'[p][i].amount_owed
          IN  after < before =>
                \/ vaults'[i] = vaults[i] - (before - after)
                \/ before + RewardDelta(positions[p].liquidity,
                       Unclaimed(rewards, i, pool.tick_current_index)[p]) > MAX_U64
      ]_<<vars, rewardVars>>
=============================================================================
