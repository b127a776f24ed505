---------------------------- MODULE RewardsProofs ----------------------------
(***************************************************************************)
(* The rewards of a pool are shared as promised and stay within what was   *)
(* emitted, for every number of positions and rewards, tick spacing and    *)
(* price function, whatever the width of the counters and of the fixed     *)
(* point, and whatever the rates.                                          *)
(*                                                                         *)
(* The lemmas on growth in LiquidityProofs carry the bookkeeping; here are *)
(* the clock, the rates and the rewards' counters.                         *)
(***************************************************************************)
EXTENDS RewardsBudget, LiquidityProofs

-----------------------------------------------------------------------------
\* The counters of a reward.

\* Reward i of some books, when it has grown by g since they were updated.
RewardGrowth(books, i, g) ==
    [growth |-> Wrap(books.infos[i].growth_global_x64 + g),
     outside |-> [t \in UsableTicks |-> books.outside[t][i]]]

\* Nothing has happened yet to a reward that is not initialized.
Unstarted(books) ==
    \A i \in RewardIndex : ~books.infos[i].initialized =>
        /\ books.infos[i].emissions_per_second_x64 = 0
        /\ books.infos[i].growth_global_x64 = 0
        /\ \A t \in UsableTicks : books.outside[t][i] = 0

Checkpoints(i) == [p \in PositionId |-> position_rewards[p][i].growth_inside_checkpoint]
Debts(i) == [p \in PositionId |-> position_rewards[p][i].amount_owed]

\* The seconds that some books are behind, and the growth of reward i in them.
Behind(books) == unix_timestamp - books.updated

Pending(books, i) ==
    IF pool.liquidity = 0 \/ ~books.infos[i].initialized THEN 0
    ELSE GrowthOver(Behind(books), books.infos[i].emissions_per_second_x64,
                    pool.liquidity)

\* The types of one reward.
LEMMA BookTypes ==
  ASSUME NEW books \in Rewards, NEW i \in RewardIndex
  PROVE  /\ books.infos[i].growth_global_x64 \in U128
         /\ books.infos[i].growth_global_x64 \in Int
         /\ books.infos[i].emissions_per_second_x64 \in Nat
         /\ books.infos[i].emissions_per_second_x64 \in U128
         /\ books.infos[i].initialized \in BOOLEAN
         /\ books.updated \in Nat
         /\ \A t \in UsableTicks : books.outside[t][i] \in U128
<1>1. books.infos \in [RewardIndex -> RewardInfo] /\ books.updated \in 0 .. MAX_TIME
  BY DEF Rewards
<1>2. books.outside \in [UsableTicks -> [RewardIndex -> U128]]
  BY DEF Rewards
<1>3. /\ books.infos[i].growth_global_x64 \in U128
      /\ books.infos[i].emissions_per_second_x64 \in U128
      /\ books.infos[i].initialized \in BOOLEAN
  BY <1>1 DEF RewardInfo
<1> QED
  BY <1>1, <1>2, <1>3, U128Number, RewardsAssumption

\* They are counters.
LEMMA RewardGrowthCounts ==
  ASSUME NEW books \in Rewards, NEW i \in RewardIndex, NEW g \in Int
  PROVE  Counts(RewardGrowth(books, i, g))
<1>1. Wrap(books.infos[i].growth_global_x64 + g) \in U128
  BY BookTypes, WrapType
<1> QED
  BY <1>1, BookTypes DEF RewardGrowth, Counts

\* Growth rounds down, and is given up when it does not fit.
LEMMA GrowthOverRounds ==
  ASSUME NEW seconds \in Nat, NEW emissions \in Nat, NEW liquidity \in Nat \ {0}
  PROVE  /\ GrowthOver(seconds, emissions, liquidity) \in Nat
         /\ liquidity * GrowthOver(seconds, emissions, liquidity) <= seconds * emissions
<1> DEFINE product == seconds * emissions
<1>1. product \in Nat
  OBVIOUS
<1>2. product \div liquidity \in Nat /\ liquidity * (product \div liquidity) <= product
  BY <1>1, RoundsDown
<1>3. GrowthOver(seconds, emissions, liquidity)
        = IF product > MAX_U128 THEN 0 ELSE product \div liquidity
  BY DEF GrowthOver
<1> HIDE DEF product
<1> QED
  BY <1>1, <1>2, <1>3 DEF product

\* What a position is credited with rounds down, too.
LEMMA RewardDeltaRounds ==
  ASSUME NEW liquidity \in Nat, NEW growth \in Nat
  PROVE  /\ RewardDelta(liquidity, growth) \in Nat
         /\ Q64 * RewardDelta(liquidity, growth) <= liquidity * growth
<1> DEFINE product == liquidity * growth
<1>1. product \in Nat /\ Q64 \in Nat \ {0} /\ Q64 * 0 = 0
  BY RewardsAssumption
<1>2. product \div Q64 \in Nat /\ Q64 * (product \div Q64) <= product
  BY <1>1, RoundsDown
<1>3. RewardDelta(liquidity, growth)
        = IF product > MAX_U128 THEN 0 ELSE product \div Q64
  BY DEF RewardDelta
<1> HIDE DEF product
<1> QED
  BY <1>1, <1>2, <1>3 DEF product

\* What next_pool_reward_infos makes of some books.
LEMMA NextInfosOf ==
  ASSUME IInv, NEW books \in Rewards, NEW i \in RewardIndex, Behind(books) \in Nat
  PROVE  /\ Pending(books, i) \in Nat
         /\ pool.liquidity * Pending(books, i)
               <= Behind(books) * books.infos[i].emissions_per_second_x64
         /\ NextInfos(books, pool.liquidity)[i]
               = [books.infos[i] EXCEPT !.growth_global_x64 =
                     Wrap(@ + Pending(books, i))]
<1> DEFINE L == pool.liquidity
           e == books.infos[i].emissions_per_second_x64
           g == GrowthOver(Behind(books), e, L)
           f == books.infos[i].growth_global_x64
<1>1. L \in Nat /\ e \in Nat /\ f \in U128 /\ books.infos[i] \in RewardInfo
  <2>1. L \in U128
    BY DEF IInv, TypeOK, Pool
  <2>2. books.infos[i] \in RewardInfo
    BY DEF Rewards
  <2> QED
    BY <2>1, <2>2, BookTypes, U128Number
<1>2. Wrap(f + 0) = f
  BY <1>1, U128Number, WrapFits
<1>3. Behind(books) * e \in Nat
  BY <1>1
<1>4. [books.infos[i] EXCEPT !.growth_global_x64 = f] = books.infos[i]
  BY <1>1 DEF RewardInfo
<1>5. CASE L = 0 \/ ~books.infos[i].initialized
  <2>1. Pending(books, i) = 0 /\ L * 0 = 0
    BY <1>1, <1>5 DEF Pending
  <2>2. NextInfos(books, L)[i] = books.infos[i]
    BY <1>5 DEF NextInfos
  <2> QED
    BY <1>2, <1>3, <1>4, <2>1, <2>2
<1>6. CASE L # 0 /\ books.infos[i].initialized
  <2>1. Pending(books, i) = g
    BY <1>6 DEF Pending
  <2>2. g \in Nat /\ L * g <= Behind(books) * e
    BY <1>1, <1>6, GrowthOverRounds
  <2>3. NextInfos(books, L)[i]
          = [books.infos[i] EXCEPT !.growth_global_x64 = Wrap(f + g)]
    BY <1>6 DEF NextInfos, wrapping_add, Modulus, Wrap, CounterSize, Behind
  <2> QED
    BY <2>1, <2>2, <2>3
<1> QED
  BY <1>5, <1>6

\* Books that are not behind have nothing pending.
LEMMA NothingPending ==
  ASSUME IInv, NEW books \in Rewards, NEW i \in RewardIndex, books.updated = unix_timestamp
  PROVE  /\ Pending(books, i) = 0
         /\ Behind(books) = 0
<1> DEFINE L == pool.liquidity
           e == books.infos[i].emissions_per_second_x64
<1>1. e \in Nat /\ Behind(books) = 0 /\ MAX_U128 \in Nat
  BY BookTypes, U128Nat DEF Behind
<1>2. CASE L = 0 \/ ~books.infos[i].initialized
  BY <1>1, <1>2 DEF Pending
<1>3. CASE L # 0 /\ books.infos[i].initialized
  <2>1. L \in U128
    BY DEF IInv, TypeOK, Pool
  <2>2. L \in Nat \ {0}
    BY <1>3, <2>1, U128Number
  <2>3. 0 * e = 0 /\ 0 \div L = 0
    BY <1>1, <2>2
  <2> QED
    BY <1>1, <1>3, <2>3 DEF Pending, GrowthOver
<1> QED
  BY <1>1, <1>2, <1>3

-----------------------------------------------------------------------------
\* The invariant.

\* Outside a swap there is one set of books; a swap brings its own up to date.
OneBook ==
    IF swap.in_progress THEN loop.updated = unix_timestamp ELSE loop = rewards

RInv ==
    /\ IInv
    /\ RewardsTypeOK
    /\ Unstarted(rewards) /\ Unstarted(loop)
    /\ rewards.updated <= unix_timestamp
    /\ OneBook

\* The unclaimed growth as the pool has it, and as the loop of a swap has it,
Saved(i) == Unclaimed(rewards, i, pool.tick_current_index)
Running(i) == Unclaimed(loop, i, LoopTick)

\* and the counters behind it.
SavedGrowth(i) == RewardGrowth(rewards, i, Pending(rewards, i))
RunningGrowth(i) == RewardGrowth(loop, i, Pending(loop, i))

\* LoopTick is what the growth lemmas call the running tick.
LEMMA LoopTickIs == LoopTick = RunningTick
BY DEF LoopTick, RunningTick

\* No books are ahead of the clock.
LEMMA BehindTypes ==
  ASSUME RInv
  PROVE  /\ rewards \in Rewards /\ loop \in Rewards
         /\ Behind(rewards) \in Nat /\ Behind(loop) \in Nat
         /\ swap.in_progress => loop.updated = unix_timestamp
<1>1. /\ rewards \in Rewards /\ loop \in Rewards
      /\ unix_timestamp \in Nat /\ rewards.updated \in Nat /\ loop.updated \in Nat
      /\ rewards.updated <= unix_timestamp
  <2>1. rewards \in Rewards /\ loop \in Rewards /\ unix_timestamp \in 0 .. MAX_TIME
    BY DEF RInv, RewardsTypeOK
  <2>2. rewards.updated \in 0 .. MAX_TIME /\ loop.updated \in 0 .. MAX_TIME
    BY <2>1 DEF Rewards
  <2> QED
    BY <2>1, <2>2, RewardsAssumption DEF RInv
<1>2. swap.in_progress => loop.updated = unix_timestamp
  BY DEF RInv, OneBook
<1>3. loop.updated <= unix_timestamp
  BY <1>1, <1>2 DEF RInv, OneBook
<1> QED
  BY <1>1, <1>2, <1>3 DEF Behind

\* A swap brings its books up to date before it starts.
LEMMA RunningUpToDate ==
  ASSUME RInv, NEW i \in RewardIndex
  PROVE  /\ swap.in_progress => Pending(loop, i) = 0 /\ Behind(loop) = 0
         /\ ~swap.in_progress => loop = rewards
<1>1. ASSUME swap.in_progress PROVE Pending(loop, i) = 0 /\ Behind(loop) = 0
  <2>1. loop \in Rewards /\ loop.updated = unix_timestamp /\ IInv
    BY <1>1, BehindTypes DEF RInv
  <2> QED
    BY <2>1, NothingPending
<1> QED
  BY <1>1 DEF RInv, OneBook

\* The growth inside a range, in any books: what the code computes when a reward
\* is not initialized agrees with the general case.
LEMMA InsideOf ==
  ASSUME IInv, NEW books \in Rewards, NEW i \in RewardIndex, NEW current \in Int,
         Behind(books) \in Nat, Unstarted(books), NEW position,
         position.tick_lower_index \in UsableTicks,
         position.tick_upper_index \in UsableTicks
  PROVE  LET growth == RewardGrowth(books, i, Pending(books, i))
         IN  /\ Counts(growth)
             /\ GrowthInside(books, NextInfos(books, pool.liquidity), i, position, current)
                   = InsideIn(ticks, growth, position, current)
<1> DEFINE growth == RewardGrowth(books, i, Pending(books, i))
           infos == NextInfos(books, pool.liquidity)
<1>1. /\ Counts(growth)
      /\ infos[i].growth_global_x64 = growth.growth
      /\ infos[i].initialized = books.infos[i].initialized
  <2>1. /\ Pending(books, i) \in Nat
        /\ infos[i] = [books.infos[i] EXCEPT !.growth_global_x64 =
                          Wrap(@ + Pending(books, i))]
    BY NextInfosOf
  <2>2. books.infos[i] \in RewardInfo
    BY DEF Rewards
  <2> QED
    BY <2>1, <2>2, RewardGrowthCounts DEF RewardGrowth, RewardInfo
<1> DEFINE coded == GrowthInside(books, infos, i, position, current)
           inside == InsideIn(ticks, growth, position, current)
<1>2. CASE books.infos[i].initialized
  <2>1. GrowthInside(books, infos, i, position, current)
          = CodedInside(ticks, growth, position, current)
    BY <1>1, <1>2
    DEF GrowthInside, GrowthBelow, GrowthAbove, CodedInside, BelowIn, AboveIn, RewardGrowth,
        wrapping_sub, Modulus, Wrap, CounterSize
  <2>2. coded = inside
    <3> HIDE DEF growth
    <3> QED
      BY <1>1, <2>1, InsideIsDifference
  <2> QED
    BY <1>1, <2>2
<1>3. CASE ~books.infos[i].initialized
  <2>1. /\ growth.growth = 0 /\ \A t \in UsableTicks : growth.outside[t] = 0
        /\ 0 \in U128
    <3>1. books.infos[i].growth_global_x64 = 0 /\ Pending(books, i) = 0
      BY <1>3 DEF Unstarted, Pending
    <3>2. 0 \in U128
      BY U128Nat DEF U128
    <3> QED
      BY <1>3, <3>1, <3>2, WrapFits DEF Unstarted, RewardGrowth
  <2>2. Wrap(0 - 0) = 0
    BY <2>1, WrapFits
  <2>3. GrowthInside(books, infos, i, position, current) = 0
    BY <1>1, <1>3 DEF GrowthInside
  <2>4. coded = inside
    <3> HIDE DEF growth
    <3>1. \A t \in UsableTicks : BelowIn(ticks, growth, t, current) = 0
      BY <2>1, <2>2 DEF BelowIn
    <3> QED
      BY <2>2, <2>3, <3>1 DEF InsideIn
  <2> QED
    BY <1>1, <2>4
<1> QED
  BY <1>2, <1>3

\* So the growth that a position would be credited with is what came since its
\* checkpoint.
LEMMA UnclaimedOf ==
  ASSUME IInv, NEW books \in Rewards, NEW i \in RewardIndex, NEW current \in Int,
         Behind(books) \in Nat, Unstarted(books),
         Checkpoints(i) \in [PositionId -> U128]
  PROVE  LET growth == RewardGrowth(books, i, Pending(books, i))
         IN  /\ Counts(growth)
             /\ Unclaimed(books, i, current)
                   = Dues(ticks, growth, positions, Checkpoints(i), current)
             /\ Unclaimed(books, i, current) \in [PositionId -> U128]
<1> DEFINE growth == RewardGrowth(books, i, Pending(books, i))
           inside(p) == GrowthInside(books, NextInfos(books, pool.liquidity), i,
                                     positions[p], current)
<1>1. Placed(positions) /\ Counts(growth)
  <2>1. Pending(books, i) \in Nat
    BY NextInfosOf, Zenon
  <2> QED
    BY <2>1, PositionsPlaced, RewardGrowthCounts DEF AllPlaced
<1>2. ASSUME NEW p \in PositionId, positions[p].liquidity # 0
      PROVE  inside(p) = InsideIn(ticks, growth, positions[p], current)
  <2>1. positions[p].liquidity > 0
    BY <1>1, <1>2, PositionTypes DEF Placed
  <2>2. /\ positions[p].tick_lower_index \in UsableTicks
        /\ positions[p].tick_upper_index \in UsableTicks
    BY <1>1, <2>1 DEF Placed
  <2> QED
    BY <2>2, InsideOf
<1>3. Dues(ticks, growth, positions, Checkpoints(i), current) \in [PositionId -> U128]
  BY <1>1, DuesOf
<1>4. ASSUME NEW p \in PositionId
      PROVE  Due(ticks, growth, positions[p], Checkpoints(i)[p], current)
               = IF positions[p].liquidity = 0 THEN 0
                 ELSE wrapping_sub(inside(p),
                                   position_rewards[p][i].growth_inside_checkpoint)
  <2> HIDE DEF growth, inside
  <2> QED
    BY <1>2 DEF Due, Checkpoints, wrapping_sub, Modulus, Wrap, CounterSize
<1>5. Unclaimed(books, i, current)
        = Dues(ticks, growth, positions, Checkpoints(i), current)
  <2> HIDE DEF growth
  <2> QED
    BY <1>4 DEF Unclaimed, Dues
<1> QED
  BY <1>1, <1>3, <1>5

\* What the invariant says of the unclaimed growth.
Known ==
    /\ pool.tick_current_index \in Int /\ LoopTick \in Int
    /\ pool.tick_current_index \in CurrentTick /\ LoopTick \in CurrentTick
    /\ positions \in [PositionId -> Position]
    /\ \A i \in RewardIndex :
          /\ Counts(SavedGrowth(i)) /\ Counts(RunningGrowth(i))
          /\ Checkpoints(i) \in [PositionId -> U128]
          /\ Saved(i) = Dues(ticks, SavedGrowth(i), positions, Checkpoints(i),
                             pool.tick_current_index)
          /\ Running(i) = Dues(ticks, RunningGrowth(i), positions, Checkpoints(i), LoopTick)
          /\ Saved(i) \in [PositionId -> U128] /\ Running(i) \in [PositionId -> U128]

\* The checkpoints and the debts of positions are numbers.
LEMMA PositionRewardTypes ==
  ASSUME RewardsTypeOK, NEW i \in RewardIndex
  PROVE  /\ Checkpoints(i) \in [PositionId -> U128]
         /\ \A p \in PositionId :
               /\ position_rewards[p][i] \in PositionRewardInfo
               /\ position_rewards[p][i].growth_inside_checkpoint \in U128
               /\ position_rewards[p][i].amount_owed \in U64
               /\ position_rewards[p][i].amount_owed \in Nat
<1>1. ASSUME NEW p \in PositionId
      PROVE  /\ position_rewards[p][i] \in PositionRewardInfo
             /\ position_rewards[p][i].growth_inside_checkpoint \in U128
             /\ position_rewards[p][i].amount_owed \in U64
  <2>1. position_rewards[p][i] \in PositionRewardInfo
    BY DEF RewardsTypeOK
  <2> QED
    BY <2>1 DEF PositionRewardInfo
<1> QED
  BY <1>1, RewardsAssumption DEF Checkpoints, U64

LEMMA UnclaimedNow == RInv => Known
<1> SUFFICES ASSUME RInv PROVE Known
  OBVIOUS
<1>1. /\ pool.tick_current_index \in Int /\ LoopTick \in Int
      /\ pool.tick_current_index \in CurrentTick /\ LoopTick \in CurrentTick
      /\ positions \in [PositionId -> Position]
  BY PositionsPlaced, PositionsAreAccounts, LoopTickIs DEF RInv, AllPlaced
<1>2. ASSUME NEW i \in RewardIndex
      PROVE  /\ Counts(SavedGrowth(i)) /\ Counts(RunningGrowth(i))
             /\ Checkpoints(i) \in [PositionId -> U128]
             /\ Saved(i) = Dues(ticks, SavedGrowth(i), positions, Checkpoints(i),
                                pool.tick_current_index)
             /\ Running(i) = Dues(ticks, RunningGrowth(i), positions, Checkpoints(i), LoopTick)
             /\ Saved(i) \in [PositionId -> U128] /\ Running(i) \in [PositionId -> U128]
  <2>1. Checkpoints(i) \in [PositionId -> U128]
    BY PositionRewardTypes DEF RInv
  <2>2. IInv /\ Unstarted(rewards) /\ Unstarted(loop)
    BY DEF RInv
  <2>3. /\ Counts(SavedGrowth(i))
        /\ Saved(i) = Dues(ticks, SavedGrowth(i), positions, Checkpoints(i),
                           pool.tick_current_index)
        /\ Saved(i) \in [PositionId -> U128]
    BY <1>1, <2>1, <2>2, BehindTypes, UnclaimedOf DEF Saved, SavedGrowth
  <2>4. /\ Counts(RunningGrowth(i))
        /\ Running(i) = Dues(ticks, RunningGrowth(i), positions, Checkpoints(i), LoopTick)
        /\ Running(i) \in [PositionId -> U128]
    BY <1>1, <2>1, <2>2, BehindTypes, UnclaimedOf DEF Running, RunningGrowth
  <2> QED
    BY <2>1, <2>3, <2>4
<1> QED
  BY <1>1, <1>2 DEF Known

LEMMA UnclaimedNext == RInv' => Known'
BY UnclaimedNow, PTL

\* The books that are up to date.
UpToDate ==
    \A i \in RewardIndex :
       /\ rewards.updated = unix_timestamp => SavedGrowth(i) = RewardGrowth(rewards, i, 0)
       /\ swap.in_progress => RunningGrowth(i) = RewardGrowth(loop, i, 0)
       /\ ~swap.in_progress => RunningGrowth(i) = SavedGrowth(i)

LEMMA UpToDateNow == RInv => UpToDate
<1> SUFFICES ASSUME RInv, NEW i \in RewardIndex
             PROVE  /\ rewards.updated = unix_timestamp =>
                          SavedGrowth(i) = RewardGrowth(rewards, i, 0)
                    /\ swap.in_progress => RunningGrowth(i) = RewardGrowth(loop, i, 0)
                    /\ ~swap.in_progress => RunningGrowth(i) = SavedGrowth(i)
  BY DEF UpToDate
<1>1. IInv /\ rewards \in Rewards
  BY BehindTypes DEF RInv
<1>2. rewards.updated = unix_timestamp => Pending(rewards, i) = 0
  BY <1>1, NothingPending
<1> QED
  BY <1>2, RunningUpToDate DEF SavedGrowth, RunningGrowth

\* It is the same in the next state.
LEMMA UpToDateNext == RInv' => UpToDate'
BY UpToDateNow, PTL

-----------------------------------------------------------------------------
\* What the actions make of the unclaimed growth of one reward.

\* An action that touches neither ticks, growth nor price, and no position that
\* has or gets liquidity, leaves the claims to growth as they were.
LEMMA GrowthKept ==
  ASSUME RInv, RInv', NEW i \in RewardIndex, UNCHANGED ticks,
         SavedGrowth(i)' = SavedGrowth(i), RunningGrowth(i)' = RunningGrowth(i),
         pool'.tick_current_index = pool.tick_current_index, LoopTick' = LoopTick,
         \A p \in PositionId :
            \/ positions[p].liquidity = 0 /\ positions'[p].liquidity = 0
            \/ positions'[p] = positions[p] /\ Checkpoints(i)'[p] = Checkpoints(i)[p]
  PROVE  Saved(i)' = Saved(i) /\ Running(i)' = Running(i)
<1> DEFINE J == Checkpoints(i)
           K == Checkpoints(i)'
<1>1. /\ Saved(i) = Dues(ticks, SavedGrowth(i), positions, J, pool.tick_current_index)
      /\ Running(i) = Dues(ticks, RunningGrowth(i), positions, J, LoopTick)
  BY UnclaimedNow DEF Known
<1>2. /\ Saved(i)' = Dues(ticks, SavedGrowth(i), positions', K, pool.tick_current_index)
      /\ Running(i)' = Dues(ticks, RunningGrowth(i), positions', K, LoopTick)
  BY UnclaimedNext DEF Known
<1> HIDE DEF J, K
<1>3. \A p \in PositionId :
         \/ positions[p].liquidity = 0 /\ positions'[p].liquidity = 0
         \/ positions'[p] = positions[p] /\ K[p] = J[p]
  BY DEF J, K
<1> QED
  BY <1>1, <1>2, <1>3, DuesSame

\* An update settles the growth of one position, up to now, and of no other.
LEMMA GrowthSettled ==
  ASSUME RInv, RInv', NEW i \in RewardIndex, NEW p \in PositionId,
         positions[p].open, ~swap.in_progress, UNCHANGED swap,
         Checkpoints(i)'[p]
            = InsideIn(ticks, SavedGrowth(i), positions[p], pool.tick_current_index),
         \A q \in PositionId \ {p} : Checkpoints(i)'[q] = Checkpoints(i)[q],
         pool'.tick_current_index = pool.tick_current_index,
         \A t \in UsableTicks : ticks'[t].initialized =>
            BelowIn(ticks', SavedGrowth(i)', t, pool.tick_current_index)
               = BelowIn(ticks, SavedGrowth(i), t, pool.tick_current_index),
         positions'[p].tick_lower_index = positions[p].tick_lower_index,
         positions'[p].tick_upper_index = positions[p].tick_upper_index,
         \A q \in PositionId \ {p} : positions'[q] = positions[q]
  PROVE  Saved(i)' = [Saved(i) EXCEPT ![p] = 0] /\ Running(i)' = Saved(i)'
<1> DEFINE c == pool.tick_current_index
           old == SavedGrowth(i)
           new == SavedGrowth(i)'
           J == Checkpoints(i)
           K == Checkpoints(i)'
<1>1. /\ IInv /\ IInv'
      /\ Counts(old) /\ Counts(new) /\ J \in [PositionId -> U128]
      /\ Saved(i) = Dues(ticks, old, positions, J, c)
      /\ Saved(i)' = Dues(ticks', new, positions', K, c)
      /\ Running(i)' = Dues(ticks', RunningGrowth(i)', positions', K, LoopTick')
  BY UnclaimedNow, UnclaimedNext DEF Known, RInv
<1>2. LoopTick' = c /\ RunningGrowth(i)' = new
  BY UpToDateNext DEF LoopTick, UpToDate
<1>3. /\ \A t \in UsableTicks : ticks'[t].initialized =>
            BelowIn(ticks', new, t, c) = BelowIn(ticks, old, t, c)
      /\ K[p] = InsideIn(ticks, old, positions[p], c)
      /\ \A q \in PositionId \ {p} : K[q] = J[q]
  OBVIOUS
<1> HIDE DEF old, new, J, K
<1>4. /\ Dues(ticks', new, positions', K, c)[p] = 0
      /\ \A q \in PositionId \ {p} :
            Dues(ticks', new, positions', K, c)[q] = Dues(ticks, old, positions, J, c)[q]
  BY <1>1, <1>3, DuesSettled
<1>5. Dues(ticks', new, positions', K, c) = [Dues(ticks, old, positions, J, c) EXCEPT ![p] = 0]
  BY <1>4 DEF Dues
<1> QED
  BY <1>1, <1>2, <1>5

\* next_position_modify_liquidity_update: the checkpoint moves up to now, and what
\* was unclaimed is added to the debt.
LEMMA UpdateSettles ==
  ASSUME RInv, NEW p \in PositionId, positions[p].open,
         UpdatePositionRewards(p, NextInfos(rewards, pool.liquidity))
  PROVE  /\ \A i \in RewardIndex :
               /\ Checkpoints(i)'[p]
                     = InsideIn(ticks, SavedGrowth(i), positions[p], pool.tick_current_index)
               /\ position_rewards'[p][i].amount_owed
                     = (position_rewards[p][i].amount_owed
                          + RewardDelta(positions[p].liquidity, Saved(i)[p])) % (MAX_U64 + 1)
         /\ \A i \in RewardIndex, q \in PositionId \ {p} :
               /\ Checkpoints(i)'[q] = Checkpoints(i)[q]
               /\ position_rewards'[q][i] = position_rewards[q][i]
         /\ position_rewards' \in [PositionId -> [RewardIndex -> PositionRewardInfo]]
<1> DEFINE c == pool.tick_current_index
           l == positions[p].liquidity
           inside(i) == GrowthInside(rewards, NextInfos(rewards, pool.liquidity), i,
                                     positions[p], c)
           growth(i) == wrapping_sub(inside(i),
                                     position_rewards[p][i].growth_inside_checkpoint)
           owed(i) == (position_rewards[p][i].amount_owed + RewardDelta(l, growth(i)))
                         % (MAX_U64 + 1)
<1>1. /\ position_rewards \in [PositionId -> [RewardIndex -> PositionRewardInfo]]
      /\ IInv /\ RewardsTypeOK /\ Unstarted(rewards)
      /\ rewards \in Rewards /\ Behind(rewards) \in Nat
  BY BehindTypes DEF RInv, RewardsTypeOK
<1>2. position_rewards' = [position_rewards EXCEPT ![p] =
         [i \in RewardIndex |-> [growth_inside_checkpoint |-> inside(i),
                                 amount_owed |-> owed(i)]]]
  BY DEF UpdatePositionRewards
<1>3. ASSUME NEW i \in RewardIndex
      PROVE  /\ inside(i) = InsideIn(ticks, SavedGrowth(i), positions[p], c)
             /\ inside(i) \in U128
             /\ growth(i) \in U128
             /\ Saved(i)[p] = IF l = 0 THEN 0 ELSE growth(i)
  <2>1. c \in Int /\ Counts(SavedGrowth(i))
    BY UnclaimedNow DEF Known
  <2>2. /\ InsideIn(ticks, SavedGrowth(i), positions[p], c) \in U128
        /\ positions[p].tick_lower_index \in UsableTicks
        /\ positions[p].tick_upper_index \in UsableTicks
    BY <1>1, <2>1, OpenInside
  <2>3. inside(i) = InsideIn(ticks, SavedGrowth(i), positions[p], c)
    BY <1>1, <2>1, <2>2, InsideOf DEF SavedGrowth
  <2>4. position_rewards[p][i].growth_inside_checkpoint \in U128
    BY <1>1, PositionRewardTypes
  <2>5. growth(i) \in U128
    <3>1. inside(i) \in U128
      BY <2>2, <2>3
    <3> HIDE DEF inside
    <3>2. inside(i) - position_rewards[p][i].growth_inside_checkpoint \in Int
      BY <2>4, <3>1, U128Number
    <3> QED
      BY <3>2, WrapType DEF wrapping_sub, Modulus, Wrap, CounterSize
  <2>6. Saved(i)[p] = IF l = 0 THEN 0 ELSE growth(i)
    BY DEF Saved, Unclaimed
  <2> QED
    BY <2>2, <2>3, <2>5, <2>6
<1>4. ASSUME NEW i \in RewardIndex
      PROVE  /\ RewardDelta(l, growth(i)) = RewardDelta(l, Saved(i)[p])
             /\ owed(i) \in U64
  <2>1. l \in Nat /\ growth(i) \in Nat
    <3>1. l \in Nat
      BY <1>1, PositionTypes, PositionsAreAccounts
    <3> QED
      BY <1>3, <3>1, U128Number
  <2>2. RewardDelta(l, growth(i)) = RewardDelta(l, Saved(i)[p])
    <3>1. CASE l = 0
      <4>1. l * growth(i) = 0 /\ l * Saved(i)[p] = 0
        BY <1>3, <2>1, <3>1
      <4> QED
        BY <4>1 DEF RewardDelta
    <3>2. CASE l # 0
      BY <1>3, <3>2
    <3> QED
      BY <3>1, <3>2
  <2>3. RewardDelta(l, growth(i)) \in Nat
    BY <2>1, RewardDeltaRounds
  <2>4. position_rewards[p][i].amount_owed \in Nat
    BY <1>1, PositionRewardTypes
  <2> HIDE DEF growth
  <2>5. position_rewards[p][i].amount_owed + RewardDelta(l, growth(i)) \in Nat
    BY <2>3, <2>4
  <2>6. owed(i) \in U64
    BY <2>5, WidthShrinks, RewardsAssumption DEF U64
  <2> QED
    BY <2>2, <2>6
<1> HIDE DEF inside, growth, owed
<1>5. position_rewards' \in [PositionId -> [RewardIndex -> PositionRewardInfo]]
  BY <1>1, <1>2, <1>3, <1>4 DEF PositionRewardInfo
<1>6. ASSUME NEW i \in RewardIndex
      PROVE  /\ position_rewards'[p][i].growth_inside_checkpoint = inside(i)
             /\ position_rewards'[p][i].amount_owed = owed(i)
  BY <1>1, <1>2
<1>7. ASSUME NEW i \in RewardIndex, NEW q \in PositionId \ {p}
      PROVE  position_rewards'[q][i] = position_rewards[q][i]
  BY <1>1, <1>2
<1> QED
  BY <1>3, <1>4, <1>5, <1>6, <1>7 DEF Checkpoints, owed

\* next_pool_reward_infos keeps the types, and skips what is not initialized.
LEMMA NextInfosTypes ==
  ASSUME RInv, NEW i \in RewardIndex
  PROVE  LET infos == NextInfos(rewards, pool.liquidity)
         IN  /\ infos \in [RewardIndex -> RewardInfo]
             /\ infos[i].initialized = rewards.infos[i].initialized
             /\ infos[i].emissions_per_second_x64 = rewards.infos[i].emissions_per_second_x64
             /\ ~rewards.infos[i].initialized => infos[i] = rewards.infos[i]
<1> DEFINE infos == NextInfos(rewards, pool.liquidity)
<1>1. rewards \in Rewards /\ Behind(rewards) \in Nat /\ IInv
  BY BehindTypes DEF RInv
<1>2. ASSUME NEW j \in RewardIndex
      PROVE  /\ infos[j] \in RewardInfo
             /\ infos[j].initialized = rewards.infos[j].initialized
             /\ infos[j].emissions_per_second_x64 = rewards.infos[j].emissions_per_second_x64
  <2>1. infos[j] = [rewards.infos[j] EXCEPT !.growth_global_x64 = Wrap(@ + Pending(rewards, j))]
    BY <1>1, NextInfosOf
  <2>2. rewards.infos[j] \in RewardInfo
    BY <1>1 DEF Rewards
  <2>3. Wrap(rewards.infos[j].growth_global_x64 + Pending(rewards, j)) \in U128
    <3>1. Pending(rewards, j) \in Nat
      BY <1>1, NextInfosOf, Zenon
    <3>2. rewards.infos[j].growth_global_x64 \in Int
      BY <1>1, BookTypes
    <3> QED
      BY <3>1, <3>2, WrapType
  <2> QED
    BY <2>1, <2>2, <2>3 DEF RewardInfo
<1>3. ~rewards.infos[i].initialized => infos[i] = rewards.infos[i]
  BY DEF NextInfos
<1>4. infos = [j \in RewardIndex |-> infos[j]]
  <2>1. rewards.infos \in [RewardIndex -> RewardInfo]
    BY <1>1 DEF Rewards
  <2> QED
    BY <2>1 DEF NextInfos
<1>5. infos \in [RewardIndex -> RewardInfo]
  <2> HIDE DEF infos
  <2> QED
    BY <1>2, <1>4
<1> QED
  BY <1>2, <1>3, <1>5

\* Books that are brought up to date have the growth that was pending.
LEMMA SyncedGrowth ==
  ASSUME RInv, NEW i \in RewardIndex, NEW new,
         new.infos[i].growth_global_x64
            = NextInfos(rewards, pool.liquidity)[i].growth_global_x64
  PROVE  /\ RewardGrowth(new, i, 0).growth = SavedGrowth(i).growth
         /\ (\A t \in UsableTicks : new.outside[t][i] = rewards.outside[t][i])
               => RewardGrowth(new, i, 0) = SavedGrowth(i)
<1> DEFINE x == rewards.infos[i].growth_global_x64 + Pending(rewards, i)
<1>1. rewards \in Rewards /\ Behind(rewards) \in Nat /\ IInv
  BY BehindTypes DEF RInv
<1>2. x \in Int
  <2>1. Pending(rewards, i) \in Nat
    BY <1>1, NextInfosOf, Zenon
  <2>2. rewards.infos[i].growth_global_x64 \in Int
    BY <1>1, BookTypes
  <2> QED
    BY <2>1, <2>2
<1>3. new.infos[i].growth_global_x64 = Wrap(x)
  <2>1. rewards.infos[i] \in RewardInfo
    BY <1>1 DEF Rewards
  <2>2. NextInfos(rewards, pool.liquidity)[i]
          = [rewards.infos[i] EXCEPT !.growth_global_x64 = Wrap(@ + Pending(rewards, i))]
    BY <1>1, NextInfosOf
  <2> QED
    BY <2>1, <2>2 DEF RewardInfo
<1> HIDE DEF x
<1>4. Wrap(Wrap(x) + 0) = Wrap(x)
  <2>1. Wrap(x) \in U128 /\ Wrap(x) + 0 = Wrap(x)
    BY <1>2, WrapType
  <2> QED
    BY <2>1, WrapFits
<1>5. RewardGrowth(new, i, 0).growth = SavedGrowth(i).growth
  BY <1>3, <1>4 DEF RewardGrowth, SavedGrowth, x
<1> QED
  BY <1>3, <1>4 DEF RewardGrowth, SavedGrowth, x

-----------------------------------------------------------------------------
\* The actions, one by one.

\* An action that leaves the clock and the books alone, and no position that has
\* or gets liquidity another checkpoint.
LEMMA BooksKept ==
  ASSUME RInv, IInv', RewardsTypeOK',
         UNCHANGED <<unix_timestamp, rewards, loop, ticks, pool, swap>>,
         \A p \in PositionId :
            \/ positions[p].liquidity = 0 /\ positions'[p].liquidity = 0
            \/ /\ positions'[p] = positions[p]
               /\ \A i \in RewardIndex : Checkpoints(i)'[p] = Checkpoints(i)[p]
  PROVE  /\ RInv'
         /\ \A i \in RewardIndex : Saved(i)' = Saved(i) /\ Running(i)' = Running(i)
<1>1. RInv'
  BY DEF RInv, Unstarted, OneBook
<1>2. ASSUME NEW i \in RewardIndex
      PROVE  /\ SavedGrowth(i)' = SavedGrowth(i) /\ RunningGrowth(i)' = RunningGrowth(i)
             /\ LoopTick' = LoopTick
  BY DEF SavedGrowth, RunningGrowth, RewardGrowth, Pending, Behind, GrowthOver, LoopTick
<1> QED
  BY <1>1, <1>2, GrowthKept

\* initialize_tick_array
LEMMA TickArrayKeepsRewards ==
  ASSUME RInv, IInv',
         \/ \E start \in StartTicks : InitializeTickArray(start) /\ UNCHANGED rewardVars
         \/ UNCHANGED <<vars, rewardVars>>
  PROVE  /\ RInv'
         /\ \A i \in RewardIndex : Saved(i)' = Saved(i) /\ Running(i)' = Running(i)
<1>1. UNCHANGED rewardVars /\ UNCHANGED <<pool, ticks, positions, swap>>
  BY DEF InitializeTickArray, vars
<1>2. RewardsTypeOK'
  BY <1>1 DEF RInv, RewardsTypeOK, rewardVars
<1>3. \A i \in RewardIndex : Checkpoints(i)' = Checkpoints(i)
  BY <1>1 DEF Checkpoints, rewardVars
<1> QED
  BY <1>1, <1>2, <1>3, BooksKept DEF rewardVars

\* open_position and close_position.
LEMMA EmptyPositionKeepsRewards ==
  ASSUME RInv, IInv', NEW p \in PositionId,
         RewardsClosePosition(p)
           \/ \E lower, upper \in UsableTicks : RewardsOpenPosition(p, lower, upper)
  PROVE  /\ RInv'
         /\ \A i \in RewardIndex : Saved(i)' = Saved(i) /\ Running(i)' = Running(i)
<1>1. /\ IInv /\ RewardsTypeOK
      /\ positions \in [PositionId -> Position]
      /\ position_rewards \in [PositionId -> [RewardIndex -> PositionRewardInfo]]
  BY PositionsAreAccounts DEF RInv, RewardsTypeOK
<1>2. /\ UNCHANGED <<unix_timestamp, rewards, loop, ticks, pool, swap, vaults>>
      /\ positions[p].liquidity = 0 /\ positions'[p].liquidity = 0
      /\ \A q \in PositionId \ {p} :
            positions'[q] = positions[q] /\ position_rewards'[q] = position_rewards[q]
      /\ position_rewards' \in [PositionId -> [RewardIndex -> PositionRewardInfo]]
  <2>1. CASE RewardsClosePosition(p)
    <3>1. [i \in RewardIndex |-> NewPositionReward] \in [RewardIndex -> PositionRewardInfo]
      <4>1. NewPositionReward \in PositionRewardInfo
        BY U128Nat, RewardsAssumption DEF NewPositionReward, PositionRewardInfo, U128, U64
      <4> QED
        BY <4>1
    <3> QED
      BY <1>1, <2>1, <3>1 DEF RewardsClosePosition, ClosePosition, ClosedPosition
  <2>2. CASE \E lower, upper \in UsableTicks : RewardsOpenPosition(p, lower, upper)
    <3>1. positions[p].liquidity = 0
      BY <1>1, <2>2
      DEF RewardsOpenPosition, OpenPosition, IInv, PositionsOK, WellFormed
    <3> QED
      BY <1>1, <2>2, <3>1 DEF RewardsOpenPosition, OpenPosition, rewardVars
  <2> QED
    BY <2>1, <2>2
<1>3. RewardsTypeOK'
  BY <1>1, <1>2 DEF RewardsTypeOK
<1>4. ASSUME NEW q \in PositionId \ {p}, NEW i \in RewardIndex
      PROVE  Checkpoints(i)'[q] = Checkpoints(i)[q]
  BY <1>2 DEF Checkpoints
<1> QED
  BY <1>2, <1>3, <1>4, BooksKept

\* collect_reward, and a transfer to a vault.
LEMMA PaymentKeepsRewards ==
  ASSUME RInv, IInv', NEW i \in RewardIndex,
         \/ \E p \in PositionId : CollectReward(p, i)
         \/ \E amount \in Deposits : FundReward(i, amount)
  PROVE  /\ RInv'
         /\ \A j \in RewardIndex : Saved(j)' = Saved(j) /\ Running(j)' = Running(j)
<1>1. /\ RewardsTypeOK
      /\ position_rewards \in [PositionId -> [RewardIndex -> PositionRewardInfo]]
      /\ vaults \in [RewardIndex -> U64] /\ vaults[i] \in Nat /\ vaults[i] <= MAX_U64
  BY RewardsAssumption DEF RInv, RewardsTypeOK, U64
<1>2. /\ UNCHANGED <<unix_timestamp, rewards, loop>> /\ UNCHANGED vars
      /\ vaults' \in [RewardIndex -> U64]
      /\ position_rewards' \in [PositionId -> [RewardIndex -> PositionRewardInfo]]
      /\ \A p \in PositionId, j \in RewardIndex :
            position_rewards'[p][j].growth_inside_checkpoint
               = position_rewards[p][j].growth_inside_checkpoint
  <2>1. ASSUME NEW p \in PositionId, CollectReward(p, i)
        PROVE  /\ vaults' \in [RewardIndex -> U64]
               /\ position_rewards' \in [PositionId -> [RewardIndex -> PositionRewardInfo]]
               /\ \A q \in PositionId, j \in RewardIndex :
                     position_rewards'[q][j].growth_inside_checkpoint
                        = position_rewards[q][j].growth_inside_checkpoint
    <3> DEFINE owed == position_rewards[p][i].amount_owed
               paid_now == IF owed > vaults[i] THEN vaults[i] ELSE owed
    <3>1. owed \in U64 /\ owed \in Nat /\ position_rewards[p][i] \in PositionRewardInfo
      BY <1>1, PositionRewardTypes
    <3>2. vaults[i] - paid_now \in U64 /\ OwedAfter(owed, vaults[i]) \in U64
      BY <1>1, <3>1, RewardsAssumption DEF OwedAfter, U64
    <3> HIDE DEF owed, paid_now
    <3>3. /\ vaults' = [vaults EXCEPT ![i] = @ - paid_now]
          /\ position_rewards' = [position_rewards EXCEPT
                ![p][i].amount_owed = OwedAfter(owed, vaults[i])]
      BY <2>1 DEF CollectReward, owed, paid_now
    <3> QED
      BY <1>1, <3>1, <3>2, <3>3 DEF PositionRewardInfo
  <2>2. ASSUME NEW amount \in Deposits, FundReward(i, amount)
        PROVE  vaults' \in [RewardIndex -> U64] /\ UNCHANGED position_rewards
    <3>1. vaults[i] + amount \in U64
      BY <1>1, <2>2, RewardsAssumption DEF FundReward, U64
    <3> QED
      BY <1>1, <2>2, <3>1 DEF FundReward
  <2>3. UNCHANGED <<unix_timestamp, rewards, loop>> /\ UNCHANGED vars
    BY DEF CollectReward, FundReward
  <2> QED
    BY <1>1, <2>1, <2>2, <2>3
<1>3. RewardsTypeOK'
  BY <1>1, <1>2 DEF RewardsTypeOK
<1>4. \A j \in RewardIndex : Checkpoints(j)' = Checkpoints(j)
  BY <1>2 DEF Checkpoints
<1> QED
  BY <1>2, <1>3, <1>4, BooksKept DEF vars

-----------------------------------------------------------------------------
\* The actions that bring the pool up to date.

\* update_rewards keeps the invariant, and leaves nothing pending.
LEMMA SyncKeepsInv ==
  ASSUME RInv, IInv', NEW infos \in [RewardIndex -> RewardInfo],
         NEW outside \in [UsableTicks -> [RewardIndex -> U128]],
         Sync(infos, outside), loop' = rewards',
         UNCHANGED <<unix_timestamp, vaults, swap>>, ~swap.in_progress,
         position_rewards' \in [PositionId -> [RewardIndex -> PositionRewardInfo]],
         \A i \in RewardIndex : ~infos[i].initialized =>
            /\ infos[i].emissions_per_second_x64 = 0
            /\ infos[i].growth_global_x64 = 0
            /\ \A t \in UsableTicks : outside[t][i] = 0
  PROVE  /\ RInv'
         /\ \A i \in RewardIndex :
               SavedGrowth(i)' = RewardGrowth([infos |-> infos, updated |-> unix_timestamp,
                                               outside |-> outside], i, 0)
<1> DEFINE new == [infos |-> infos, updated |-> unix_timestamp, outside |-> outside]
<1>1. unix_timestamp \in 0 .. MAX_TIME /\ unix_timestamp \in Nat
  BY RewardsAssumption DEF RInv, RewardsTypeOK
<1>2. rewards' = new /\ loop' = new
  BY DEF Sync
<1>3. new \in Rewards
  BY <1>1 DEF Rewards
<1>4. RewardsTypeOK'
  BY <1>2, <1>3 DEF RInv, RewardsTypeOK
<1>5. Unstarted(new)
  BY DEF Unstarted
<1>6. Unstarted(rewards)' /\ Unstarted(loop)'
  BY <1>2, <1>5 DEF Unstarted
<1>7. RInv'
  BY <1>1, <1>2, <1>4, <1>6 DEF RInv, OneBook
<1>8. ASSUME NEW i \in RewardIndex
      PROVE  SavedGrowth(i)' = RewardGrowth(new, i, 0)
  <2>1. UpToDate'
    BY <1>7, UpToDateNext
  <2>2. SavedGrowth(i)' = RewardGrowth(rewards, i, 0)'
    BY <1>2, <2>1 DEF UpToDate
  <2>3. RewardGrowth(rewards, i, 0)' = RewardGrowth(rewards', i, 0)
    BY DEF RewardGrowth
  <2> QED
    BY <1>2, <2>2, <2>3
<1> QED
  BY <1>7, <1>8

\* An update that settles a position, and may change its ticks.
LEMMA UpdateSettlesRewards ==
  ASSUME RInv, IInv', NEW p \in PositionId, positions[p].open, ~swap.in_progress,
         UNCHANGED <<unix_timestamp, vaults, swap>>,
         UpdatePositionRewards(p, NextInfos(rewards, pool.liquidity)),
         NEW outside \in [UsableTicks -> [RewardIndex -> U128]],
         Sync(NextInfos(rewards, pool.liquidity), outside), loop' = rewards',
         \A i \in RewardIndex, t \in UsableTicks :
            ~rewards.infos[i].initialized => outside[t][i] = 0,
         \A i \in RewardIndex, t \in UsableTicks : ticks'[t].initialized =>
            BelowIn(ticks', [growth |-> SavedGrowth(i).growth,
                             outside |-> [v \in UsableTicks |-> outside[v][i]]],
                    t, pool.tick_current_index)
               = BelowIn(ticks, SavedGrowth(i), t, pool.tick_current_index),
         pool'.tick_current_index = pool.tick_current_index,
         positions'[p].tick_lower_index = positions[p].tick_lower_index,
         positions'[p].tick_upper_index = positions[p].tick_upper_index,
         \A q \in PositionId \ {p} : positions'[q] = positions[q]
  PROVE  /\ RInv'
         /\ \A i \in RewardIndex :
               Saved(i)' = [Saved(i) EXCEPT ![p] = 0] /\ Running(i)' = Saved(i)'
<1> DEFINE infos == NextInfos(rewards, pool.liquidity)
           new == [infos |-> infos, updated |-> unix_timestamp, outside |-> outside]
           c == pool.tick_current_index
<1>1. /\ \A i \in RewardIndex :
            Checkpoints(i)'[p] = InsideIn(ticks, SavedGrowth(i), positions[p], c)
      /\ \A i \in RewardIndex, q \in PositionId \ {p} :
            Checkpoints(i)'[q] = Checkpoints(i)[q]
      /\ position_rewards' \in [PositionId -> [RewardIndex -> PositionRewardInfo]]
  BY UpdateSettles
<1>2. /\ infos \in [RewardIndex -> RewardInfo]
      /\ \A i \in RewardIndex :
            /\ infos[i].initialized = rewards.infos[i].initialized
            /\ ~rewards.infos[i].initialized => infos[i] = rewards.infos[i]
  <2>1. \A i \in RewardIndex :
          /\ infos \in [RewardIndex -> RewardInfo]
          /\ infos[i].initialized = rewards.infos[i].initialized
          /\ ~rewards.infos[i].initialized => infos[i] = rewards.infos[i]
    BY NextInfosTypes
  <2>2. RewardIndex # {}
    BY RewardsAssumption
  <2> QED
    BY <2>1, <2>2
<1> HIDE DEF infos
<1>3. \A i \in RewardIndex : ~infos[i].initialized =>
         /\ infos[i].emissions_per_second_x64 = 0
         /\ infos[i].growth_global_x64 = 0
         /\ \A t \in UsableTicks : outside[t][i] = 0
  BY <1>2 DEF RInv, Unstarted
<1>4. Sync(infos, outside)
  BY DEF infos
<1>5. /\ RInv'
      /\ \A i \in RewardIndex : SavedGrowth(i)' = RewardGrowth(new, i, 0)
  BY <1>1, <1>2, <1>3, <1>4, SyncKeepsInv
<1>6. ASSUME NEW i \in RewardIndex
      PROVE  Saved(i)' = [Saved(i) EXCEPT ![p] = 0] /\ Running(i)' = Saved(i)'
  <2>1. RewardGrowth(new, i, 0).growth = SavedGrowth(i).growth
    <3>1. new.infos[i].growth_global_x64 = infos[i].growth_global_x64
      OBVIOUS
    <3> HIDE DEF new
    <3> QED
      BY <3>1, SyncedGrowth DEF infos
  <2>2. RewardGrowth(new, i, 0)
          = [growth |-> SavedGrowth(i).growth,
             outside |-> [v \in UsableTicks |-> outside[v][i]]]
    BY <2>1 DEF RewardGrowth
  <2>3. SavedGrowth(i)'
          = [growth |-> SavedGrowth(i).growth,
             outside |-> [v \in UsableTicks |-> outside[v][i]]]
    BY <1>5, <2>2
  <2>4. \A t \in UsableTicks : ticks'[t].initialized =>
           BelowIn(ticks', SavedGrowth(i)', t, c) = BelowIn(ticks, SavedGrowth(i), t, c)
    BY <2>3
  <2> QED
    BY <1>1, <1>5, <2>4, GrowthSettled
<1> QED
  BY <1>5, <1>6

\* update_fees_and_rewards.
LEMMA UpdateKeepsRewards ==
  ASSUME RInv, IInv', NEW p \in PositionId, UpdateFeesAndRewards(p)
  PROVE  /\ RInv' /\ positions[p].open /\ positions[p].liquidity # 0
         /\ \A i \in RewardIndex :
               Saved(i)' = [Saved(i) EXCEPT ![p] = 0] /\ Running(i)' = Saved(i)'
<1>1. /\ ~swap.in_progress /\ positions[p].open /\ positions[p].liquidity # 0
      /\ UpdatePositionRewards(p, NextInfos(rewards, pool.liquidity))
      /\ Sync(NextInfos(rewards, pool.liquidity), rewards.outside)
      /\ loop' = rewards'
      /\ UNCHANGED <<vars, unix_timestamp, vaults>>
  BY DEF UpdateFeesAndRewards
<1>2. /\ rewards.outside \in [UsableTicks -> [RewardIndex -> U128]]
      /\ \A i \in RewardIndex, t \in UsableTicks :
            ~rewards.infos[i].initialized => rewards.outside[t][i] = 0
  BY BehindTypes DEF RInv, Unstarted, Rewards
<1>3. UNCHANGED <<ticks, pool, positions, swap>>
  BY <1>1 DEF vars
<1>4. ASSUME NEW i \in RewardIndex
      PROVE  [growth |-> SavedGrowth(i).growth,
              outside |-> [v \in UsableTicks |-> rewards.outside[v][i]]] = SavedGrowth(i)
  BY DEF SavedGrowth, RewardGrowth
<1> QED
  BY <1>1, <1>2, <1>3, <1>4, UpdateSettlesRewards

\* increase_liquidity and decrease_liquidity.
LEMMA ModifyKeepsRewards ==
  ASSUME RInv, IInv', NEW p \in PositionId, NEW delta \in Int,
         ModifyLiquidity(p, delta), RewardsModifyLiquidity(p, delta)
  PROVE  /\ RInv' /\ positions[p].open
         /\ \A i \in RewardIndex :
               Saved(i)' = [Saved(i) EXCEPT ![p] = 0] /\ Running(i)' = Saved(i)'
<1> DEFINE infos == NextInfos(rewards, pool.liquidity)
           l == positions[p].tick_lower_index
           u == positions[p].tick_upper_index
           c == pool.tick_current_index
           outside == [rewards.outside EXCEPT ![l] = NextOutside(l, delta, infos),
                                              ![u] = NextOutside(u, delta, infos)]
<1>1. /\ ~swap.in_progress /\ positions[p].open
      /\ UpdatePositionRewards(p, infos)
      /\ Sync(infos, outside)
      /\ loop' = rewards'
      /\ UNCHANGED <<unix_timestamp, vaults, swap>>
  BY DEF ModifyLiquidity, RewardsModifyLiquidity
<1>2. /\ positions \in [PositionId -> Position] /\ pool \in Pool /\ IInv
      /\ rewards \in Rewards /\ RewardsTypeOK
      /\ rewards.outside \in [UsableTicks -> [RewardIndex -> U128]]
  <2>1. rewards \in Rewards
    BY BehindTypes
  <2>2. rewards.outside \in [UsableTicks -> [RewardIndex -> U128]]
    BY <2>1 DEF Rewards
  <2> QED
    BY <2>1, <2>2, PositionsAreAccounts DEF RInv, IInv, TypeOK
<1>3. /\ pool'.tick_current_index = c
      /\ positions'[p].tick_lower_index = l /\ positions'[p].tick_upper_index = u
      /\ \A q \in PositionId \ {p} : positions'[q] = positions[q]
  BY <1>2 DEF ModifyLiquidity, Pool, Position
<1>4. l \in UsableTicks /\ u \in UsableTicks /\ l # u
  <2>1. positions[p].open /\ IInv
    BY <1>1, <1>2
  <2>2. l \in UsableTicks /\ u \in UsableTicks /\ l < u
    BY <2>1 DEF IInv, PositionsOK, WellFormed
  <2>3. l \in Int /\ u \in Int
    BY <2>2, TickInts
  <2> HIDE DEF l, u
  <2> QED
    BY <2>2, <2>3
<1>5. ASSUME NEW i \in RewardIndex
      PROVE  /\ Counts(SavedGrowth(i))
             /\ infos[i].growth_global_x64 = SavedGrowth(i).growth
             /\ ~rewards.infos[i].initialized =>
                   infos[i].growth_global_x64 = 0
             /\ \A t \in UsableTicks : SavedGrowth(i).outside[t] = rewards.outside[t][i]
  <2>1. Counts(SavedGrowth(i))
    BY UnclaimedNow DEF Known
  <2>2. infos[i].growth_global_x64 = SavedGrowth(i).growth
    <3>1. infos[i] = [rewards.infos[i] EXCEPT !.growth_global_x64 =
                         Wrap(@ + Pending(rewards, i))]
      BY <1>2, BehindTypes, NextInfosOf
    <3>2. rewards.infos[i] \in RewardInfo
      BY <1>2 DEF Rewards
    <3> QED
      BY <3>1, <3>2 DEF SavedGrowth, RewardGrowth, RewardInfo
  <2>3. ~rewards.infos[i].initialized => infos[i].growth_global_x64 = 0
    BY NextInfosTypes DEF RInv, Unstarted
  <2> QED
    BY <2>1, <2>2, <2>3 DEF SavedGrowth, RewardGrowth
<1>6. ASSUME NEW t \in UsableTicks
      PROVE  NextOutside(t, delta, infos)
               = [i \in RewardIndex |-> OutsideAfter(SavedGrowth(i), t, delta)]
  <2> HIDE DEF infos
  <2>1. ticks[t].liquidity_gross \in Nat
    <3>1. ticks[t] \in Tick
      BY <1>2 DEF IInv, TypeOK
    <3> QED
      BY <3>1, U128Number DEF Tick
  <2>2. rewards.outside[t] = [i \in RewardIndex |-> rewards.outside[t][i]]
    BY <1>2
  <2> DEFINE gross == ticks[t].liquidity_gross
  <2>3. CASE gross + delta = 0
    BY <2>3 DEF NextOutside, OutsideAfter, NoGrowth
  <2>4. CASE gross + delta # 0 /\ gross > 0
    <3>1. NextOutside(t, delta, infos) = rewards.outside[t]
      BY <2>4 DEF NextOutside
    <3>2. \A i \in RewardIndex :
             OutsideAfter(SavedGrowth(i), t, delta) = rewards.outside[t][i]
      BY <1>5, <2>4 DEF OutsideAfter
    <3> QED
      BY <2>2, <3>1, <3>2
  <2>5. CASE gross + delta # 0 /\ gross = 0
    BY <1>5, <2>5 DEF NextOutside, OutsideAfter, NoGrowth
  <2> QED
    BY <2>1, <2>3, <2>4, <2>5
<1>7. ASSUME NEW t \in UsableTicks, NEW i \in RewardIndex
      PROVE  /\ OutsideAfter(SavedGrowth(i), t, delta) \in U128
             /\ ~rewards.infos[i].initialized => OutsideAfter(SavedGrowth(i), t, delta) = 0
  <2>1. /\ SavedGrowth(i).growth \in U128 /\ SavedGrowth(i).outside[t] \in U128 /\ 0 \in U128
    BY <1>5, U128Nat DEF Counts, U128
  <2>2. ~rewards.infos[i].initialized =>
           SavedGrowth(i).growth = 0 /\ SavedGrowth(i).outside[t] = 0
    BY <1>5 DEF RInv, Unstarted
  <2> QED
    BY <2>1, <2>2 DEF OutsideAfter
<1>8. /\ outside \in [UsableTicks -> [RewardIndex -> U128]]
      /\ \A t \in UsableTicks, i \in RewardIndex :
            outside[t][i] = IF t = l \/ t = u THEN OutsideAfter(SavedGrowth(i), t, delta)
                            ELSE SavedGrowth(i).outside[t]
  <2> HIDE DEF infos
  <2>1. \A t \in UsableTicks : NextOutside(t, delta, infos) \in [RewardIndex -> U128]
    BY <1>6, <1>7
  <2>2. \A t \in UsableTicks :
           outside[t] = IF t = l \/ t = u THEN NextOutside(t, delta, infos)
                        ELSE rewards.outside[t]
    BY <1>2, <1>4
  <2>3. outside \in [UsableTicks -> [RewardIndex -> U128]]
    BY <1>2, <1>4, <2>1
  <2> HIDE DEF outside
  <2> QED
    BY <1>5, <1>6, <2>2, <2>3
<1> HIDE DEF outside
<1>9. \A i \in RewardIndex, t \in UsableTicks :
         ~rewards.infos[i].initialized => outside[t][i] = 0
  BY <1>5, <1>7, <1>8 DEF RInv, Unstarted
<1>10. ASSUME NEW i \in RewardIndex, NEW t \in UsableTicks, ticks'[t].initialized
       PROVE  BelowIn(ticks', [growth |-> SavedGrowth(i).growth,
                               outside |-> [v \in UsableTicks |-> outside[v][i]]], t, c)
                = BelowIn(ticks, SavedGrowth(i), t, c)
  <2> DEFINE new == [growth |-> SavedGrowth(i).growth,
                     outside |-> [v \in UsableTicks |-> outside[v][i]]]
  <2>1. /\ new.growth = SavedGrowth(i).growth
        /\ new.outside[t] = IF t = l \/ t = u THEN OutsideAfter(SavedGrowth(i), t, delta)
                            ELSE SavedGrowth(i).outside[t]
    BY <1>8
  <2>2. Counts(SavedGrowth(i)) /\ IInv
    BY <1>2, <1>5
  <2> HIDE DEF new
  <2>3. BelowIn(ticks', new, t, c) = BelowIn(ticks, SavedGrowth(i), t, c)
    BY <1>10, <2>1, <2>2, TickKept
  <2> QED
    BY <2>3 DEF new
<1> QED
  BY <1>1, <1>3, <1>8, <1>9, <1>10, UpdateSettlesRewards

\* set_reward_emissions.
LEMMA EmissionsKeepRewards ==
  ASSUME RInv, IInv', NEW i \in RewardIndex, NEW emissions \in Emissions,
         SetRewardEmissions(i, emissions)
  PROVE  /\ RInv'
         /\ \A j \in RewardIndex : Saved(j)' = Saved(j) /\ Running(j)' = Running(j)
<1> DEFINE next == NextInfos(rewards, pool.liquidity)
           infos == InfosWithEmissions(i, emissions)
           new == [infos |-> infos, updated |-> unix_timestamp, outside |-> rewards.outside]
<1>1. /\ ~swap.in_progress /\ rewards.infos[i].initialized
      /\ Sync(infos, rewards.outside)
      /\ loop' = rewards'
      /\ UNCHANGED <<vars, unix_timestamp, position_rewards, vaults>>
  BY DEF SetRewardEmissions
<1>2. UNCHANGED <<pool, ticks, positions, swap>>
  BY <1>1 DEF vars
<1>3. /\ rewards.outside \in [UsableTicks -> [RewardIndex -> U128]]
      /\ position_rewards' \in [PositionId -> [RewardIndex -> PositionRewardInfo]]
      /\ emissions \in U128
  BY <1>1, BehindTypes, RewardsAssumption DEF RInv, RewardsTypeOK, Rewards, U128
<1>4. /\ next \in [RewardIndex -> RewardInfo]
      /\ \A j \in RewardIndex :
            /\ next[j].initialized = rewards.infos[j].initialized
            /\ ~rewards.infos[j].initialized => next[j] = rewards.infos[j]
  BY NextInfosTypes
<1>5. infos = [next EXCEPT ![i].emissions_per_second_x64 = emissions]
  BY DEF InfosWithEmissions
<1> HIDE DEF next, infos
<1>6. /\ infos \in [RewardIndex -> RewardInfo]
      /\ \A j \in RewardIndex :
            /\ infos[j].initialized = next[j].initialized
            /\ infos[j].growth_global_x64 = next[j].growth_global_x64
            /\ j # i => infos[j] = next[j]
  BY <1>3, <1>4, <1>5 DEF RewardInfo
<1>7. \A j \in RewardIndex : ~infos[j].initialized =>
         /\ infos[j].emissions_per_second_x64 = 0
         /\ infos[j].growth_global_x64 = 0
         /\ \A t \in UsableTicks : rewards.outside[t][j] = 0
  BY <1>1, <1>4, <1>6 DEF RInv, Unstarted
<1>8. /\ RInv'
      /\ \A j \in RewardIndex : SavedGrowth(j)' = RewardGrowth(new, j, 0)
  <2>1. Sync(infos, rewards.outside)
    BY <1>1
  <2> QED
    BY <1>1, <1>2, <1>3, <1>6, <1>7, <2>1, SyncKeepsInv
<1>9. ASSUME NEW j \in RewardIndex
      PROVE  Saved(j)' = Saved(j) /\ Running(j)' = Running(j)
  <2>1. RewardGrowth(new, j, 0) = SavedGrowth(j)
    <3>1. /\ new.infos[j].growth_global_x64 = next[j].growth_global_x64
          /\ \A t \in UsableTicks : new.outside[t][j] = rewards.outside[t][j]
      BY <1>6
    <3> HIDE DEF new
    <3> QED
      BY <3>1, SyncedGrowth DEF next
  <2>2. SavedGrowth(j)' = SavedGrowth(j)
    BY <1>8, <2>1
  <2>3. RunningGrowth(j)' = RunningGrowth(j) /\ LoopTick' = LoopTick
    BY <1>1, <1>2, <1>8, <2>2, UpToDateNow, UpToDateNext DEF UpToDate, LoopTick
  <2>4. \A p \in PositionId :
           positions'[p] = positions[p] /\ Checkpoints(j)'[p] = Checkpoints(j)[p]
    BY <1>1, <1>2 DEF Checkpoints
  <2> QED
    BY <1>2, <1>8, <2>2, <2>3, <2>4, GrowthKept
<1> QED
  BY <1>8, <1>9

\* initialize_reward: the reward has no emissions yet.
LEMMA NewRewardKeepsRewards ==
  ASSUME RInv, IInv', NEW i \in RewardIndex, InitializeReward(i)
  PROVE  /\ RInv'
         /\ \A j \in RewardIndex : Saved(j)' = Saved(j) /\ Running(j)' = Running(j)
<1>1. /\ ~swap.in_progress /\ ~rewards.infos[i].initialized
      /\ rewards' = [rewards EXCEPT !.infos[i].initialized = TRUE]
      /\ loop' = rewards'
      /\ UNCHANGED <<vars, unix_timestamp, position_rewards, vaults>>
  BY DEF InitializeReward
<1>2. UNCHANGED <<pool, ticks, positions, swap>>
  BY <1>1 DEF vars
<1>3. /\ rewards \in Rewards /\ rewards.infos \in [RewardIndex -> RewardInfo]
      /\ rewards.updated \in Nat /\ unix_timestamp \in Nat
      /\ Behind(rewards) \in Nat /\ pool \in Pool
  <2>1. rewards \in Rewards /\ Behind(rewards) \in Nat
    BY BehindTypes
  <2>2. rewards.updated \in 0 .. MAX_TIME /\ rewards.infos \in [RewardIndex -> RewardInfo]
    BY <2>1 DEF Rewards
  <2> QED
    BY <2>1, <2>2, RewardsAssumption DEF RInv, RewardsTypeOK, IInv, TypeOK
<1>4. /\ rewards' \in Rewards
      /\ rewards'.updated = rewards.updated /\ rewards'.outside = rewards.outside
      /\ \A j \in RewardIndex :
            /\ rewards'.infos[j].growth_global_x64 = rewards.infos[j].growth_global_x64
            /\ rewards'.infos[j].emissions_per_second_x64
                  = rewards.infos[j].emissions_per_second_x64
            /\ rewards'.infos[j].initialized = (rewards.infos[j].initialized \/ j = i)
  BY <1>1, <1>3 DEF Rewards, RewardInfo
<1>5. RInv'
  <2>1. RewardsTypeOK'
    BY <1>1, <1>4 DEF RInv, RewardsTypeOK
  <2>2. Unstarted(rewards)' /\ Unstarted(loop)'
    BY <1>1, <1>4 DEF RInv, Unstarted
  <2> QED
    BY <1>1, <1>2, <1>4, <2>1, <2>2 DEF RInv, OneBook
<1>6. ASSUME NEW j \in RewardIndex
      PROVE  Pending(rewards, j)' = Pending(rewards, j)
  <2>1. Behind(rewards)' = Behind(rewards)
    BY <1>1, <1>4 DEF Behind
  <2>2. CASE j # i
    BY <1>2, <1>4, <2>1, <2>2 DEF Pending, GrowthOver, Behind
  <2>3. CASE j = i
    <3>1. Pending(rewards, i) = 0
      BY <1>1 DEF Pending
    <3>2. rewards'.infos[i].emissions_per_second_x64 = 0
      BY <1>1, <1>4 DEF RInv, Unstarted
    <3>3. Pending(rewards, i)' = 0
      <4>1. CASE pool.liquidity = 0
        BY <1>2, <4>1 DEF Pending
      <4>2. CASE pool.liquidity # 0
        <5>1. pool.liquidity \in Nat \ {0} /\ MAX_U128 \in Nat
          BY <1>3, <4>2, U128Number, U128Nat DEF Pool
        <5>2. Behind(rewards)' * 0 = 0 /\ 0 \div pool.liquidity = 0
          BY <1>3, <2>1, <5>1
        <5> QED
          BY <1>2, <3>2, <5>1, <5>2 DEF Pending, GrowthOver
      <4> QED
        BY <4>1, <4>2
    <3> QED
      BY <2>3, <3>1, <3>3
  <2> QED
    BY <2>2, <2>3
<1>7. ASSUME NEW j \in RewardIndex
      PROVE  Saved(j)' = Saved(j) /\ Running(j)' = Running(j)
  <2>1. SavedGrowth(j)' = SavedGrowth(j)
    BY <1>4, <1>6 DEF SavedGrowth, RewardGrowth
  <2>2. RunningGrowth(j)' = RunningGrowth(j) /\ LoopTick' = LoopTick
    BY <1>1, <1>2, <1>5, <2>1, UpToDateNow, UpToDateNext DEF UpToDate, LoopTick
  <2>3. \A p \in PositionId :
           positions'[p] = positions[p] /\ Checkpoints(j)'[p] = Checkpoints(j)[p]
    BY <1>1, <1>2 DEF Checkpoints
  <2> QED
    BY <1>2, <1>5, <2>1, <2>2, <2>3, GrowthKept
<1> QED
  BY <1>5, <1>7

-----------------------------------------------------------------------------
\* Swaps and the clock.

\* Outside a swap there is one book.
LEMMA IdleBook ==
  ASSUME RInv, ~swap.in_progress, NEW i \in RewardIndex
  PROVE  /\ Running(i) = Saved(i)
         /\ LoopTick = pool.tick_current_index
BY DEF RInv, OneBook, Running, Saved, LoopTick

LEMMA IdleBookNext ==
  ASSUME RInv', swap'.in_progress = FALSE, NEW i \in RewardIndex
  PROVE  /\ Running(i)' = Saved(i)'
         /\ LoopTick' = pool'.tick_current_index
BY DEF RInv, OneBook, Running, Saved, LoopTick

\* The start of a swap brings the rewards of the loop up to date.
LEMMA SwapStartKeepsRewards ==
  ASSUME RInv, IInv', NEW a_to_b, NEW limit, NEW arrays,
         RewardsSwapStart(a_to_b, limit, arrays)
  PROVE  /\ RInv'
         /\ \A i \in RewardIndex : Saved(i)' = Saved(i) /\ Running(i)' = Running(i)
<1> DEFINE infos == NextInfos(rewards, pool.liquidity)
<1>1. /\ ~swap.in_progress /\ swap'.in_progress = TRUE
      /\ swap'.tick_index = pool.tick_current_index
      /\ UNCHANGED <<pool, ticks, positions>>
      /\ UNCHANGED <<unix_timestamp, rewards, position_rewards, vaults>>
      /\ loop'.infos = infos /\ loop'.updated = unix_timestamp
      /\ loop'.outside = rewards.outside
      /\ loop' = [infos |-> infos, updated |-> unix_timestamp,
                  outside |-> rewards.outside]
  BY DEF RewardsSwapStart, SwapStart
<1>2. /\ infos \in [RewardIndex -> RewardInfo]
      /\ \A i \in RewardIndex :
            /\ infos[i].initialized = rewards.infos[i].initialized
            /\ ~rewards.infos[i].initialized => infos[i] = rewards.infos[i]
  BY NextInfosTypes, RewardsAssumption
<1> HIDE DEF infos
<1>3. RInv'
  <2>1. loop' \in Rewards /\ RewardsTypeOK'
    <3>1. rewards.outside \in [UsableTicks -> [RewardIndex -> U128]]
      BY BehindTypes DEF Rewards
    <3>2. unix_timestamp \in 0 .. MAX_TIME /\ RewardsTypeOK
      BY DEF RInv, RewardsTypeOK
    <3>3. loop' \in Rewards
      BY <1>1, <1>2, <3>1, <3>2 DEF Rewards
    <3> QED
      BY <1>1, <3>2, <3>3 DEF RewardsTypeOK
  <2>2. Unstarted(loop)'
    BY <1>1, <1>2 DEF RInv, Unstarted
  <2>3. Unstarted(rewards)' /\ rewards'.updated <= unix_timestamp'
    BY <1>1 DEF RInv, Unstarted
  <2>4. OneBook'
    BY <1>1 DEF OneBook
  <2> QED
    BY <2>1, <2>2, <2>3, <2>4 DEF RInv
<1>4. ASSUME NEW i \in RewardIndex
      PROVE  Saved(i)' = Saved(i) /\ Running(i)' = Running(i)
  <2>1. SavedGrowth(i)' = SavedGrowth(i)
    BY <1>1 DEF SavedGrowth, RewardGrowth, Pending, Behind, GrowthOver
  <2>2. RunningGrowth(i)' = RewardGrowth(loop', i, 0)
    BY <1>1, <1>3, UpToDateNext DEF UpToDate, RewardGrowth
  <2>3. RewardGrowth(loop', i, 0) = SavedGrowth(i)
    BY <1>1, SyncedGrowth DEF infos
  <2>4. RunningGrowth(i)' = RunningGrowth(i)
    BY <1>1, <2>2, <2>3, UpToDateNow DEF UpToDate
  <2>5. LoopTick' = LoopTick
    BY <1>1 DEF LoopTick
  <2>6. \A p \in PositionId :
           positions'[p] = positions[p] /\ Checkpoints(i)'[p] = Checkpoints(i)[p]
    BY <1>1 DEF Checkpoints
  <2> QED
    BY <1>1, <1>3, <2>1, <2>4, <2>5, <2>6, GrowthKept
<1> QED
  BY <1>3, <1>4

\* What an iteration of the loop makes of the rewards.
CrossesRewards(k, next, next_price, amount_remains) ==
    /\ Iterates(k, next, next_price, amount_remains)
    /\ SwapIteration(k, next, next_price, amount_remains)
    /\ loop' = IF next_price = sqrt_price_from_tick_index[next] /\ Crosses(k, next)
               THEN [loop EXCEPT !.outside[next] = CrossOutside(next)]
               ELSE loop
    /\ UNCHANGED <<unix_timestamp, rewards, position_rewards, vaults>>

LEMMA RewardsSwapStepCrosses ==
  ASSUME RewardsSwapStep
  PROVE  /\ SwapStep
         /\ \E k \in DOMAIN swap.arrays, next \in TickIndex, next_price \in SqrtPrice,
               amount_remains \in BOOLEAN :
                  CrossesRewards(k, next, next_price, amount_remains)
<1>1. /\ SwapContinues
      /\ UNCHANGED <<unix_timestamp, rewards, position_rewards, vaults>>
  BY DEF RewardsSwapStep
<1>2. PICK k \in DOMAIN swap.arrays, next \in TickIndex :
         /\ NextTickFound(k, next)
         /\ \E next_price \in SqrtPrice, amount_remains \in BOOLEAN :
               /\ SwapIteration(k, next, next_price, amount_remains)
               /\ loop' = IF /\ next_price = sqrt_price_from_tick_index[next]
                             /\ Crosses(k, next)
                          THEN [loop EXCEPT !.outside[next] = CrossOutside(next)]
                          ELSE loop
  BY DEF RewardsSwapStep
<1>3. PICK next_price \in SqrtPrice, amount_remains \in BOOLEAN :
         /\ SwapIteration(k, next, next_price, amount_remains)
         /\ loop' = IF /\ next_price = sqrt_price_from_tick_index[next]
                       /\ Crosses(k, next)
                    THEN [loop EXCEPT !.outside[next] = CrossOutside(next)]
                    ELSE loop
  BY <1>2
<1>4. CrossesRewards(k, next, next_price, amount_remains)
  BY <1>1, <1>2, <1>3 DEF CrossesRewards, Iterates, SwapIteration
<1>5. SwapStep
  BY <1>1, <1>2, <1>3 DEF SwapStep
<1> QED
  BY <1>4, <1>5

\* The counters of a swap, after an iteration.
Crossed(k, next, next_price) ==
    /\ swap.in_progress /\ swap'.in_progress = TRUE
    /\ swap'.tick_index = TickIndexAfter(next, next_price)
    /\ UNCHANGED <<pool, ticks, positions>>
    /\ \A i \in RewardIndex :
          /\ loop'.infos[i] = loop.infos[i]
          /\ \A t \in UsableTicks :
                loop'.outside[t][i] =
                   IF /\ next_price = sqrt_price_from_tick_index[next]
                      /\ Crosses(k, next) /\ t = next
                   THEN Wrap(loop.infos[i].growth_global_x64 - loop.outside[t][i])
                   ELSE loop.outside[t][i]

LEMMA CrossingKeepsInv ==
  ASSUME RInv, IInv', NEW k, NEW next, NEW next_price, NEW amount_remains,
         CrossesRewards(k, next, next_price, amount_remains)
  PROVE  RInv' /\ Crossed(k, next, next_price)
<1> DEFINE crosses == next_price = sqrt_price_from_tick_index[next] /\ Crosses(k, next)
<1>1. /\ swap.in_progress /\ swap'.in_progress = TRUE
      /\ swap'.tick_index = TickIndexAfter(next, next_price)
      /\ UNCHANGED <<pool, ticks, positions>>
      /\ UNCHANGED <<unix_timestamp, rewards, position_rewards, vaults>>
  <2>1. swap.in_progress
    BY DEF CrossesRewards, Iterates, SwapContinues
  <2>2. swap \in Swap
    BY <2>1, SwapType DEF RInv
  <2> QED
    BY <2>1, <2>2 DEF CrossesRewards, SwapIteration, Advance, Swap
<1>2. /\ loop \in Rewards /\ loop.infos \in [RewardIndex -> RewardInfo]
      /\ loop.outside \in [UsableTicks -> [RewardIndex -> U128]]
      /\ loop.updated \in 0 .. MAX_TIME /\ loop.updated = unix_timestamp
      /\ Unstarted(loop)
  BY <1>1, BehindTypes DEF RInv, Rewards
<1>3. crosses => next \in UsableTicks
  BY DEF Crosses, InitializedTicks
<1>4. ASSUME NEW t \in UsableTicks
      PROVE  /\ CrossOutside(t) \in [RewardIndex -> U128]
             /\ \A i \in RewardIndex :
                   CrossOutside(t)[i]
                      = Wrap(loop.infos[i].growth_global_x64 - loop.outside[t][i])
  <2>1. ASSUME NEW i \in RewardIndex
        PROVE  /\ Wrap(loop.infos[i].growth_global_x64 - loop.outside[t][i]) \in U128
               /\ CrossOutside(t)[i]
                     = Wrap(loop.infos[i].growth_global_x64 - loop.outside[t][i])
    <3>1. /\ loop.infos[i].growth_global_x64 \in Int /\ loop.outside[t][i] \in U128
      BY <1>2, BookTypes
    <3>2. loop.infos[i].growth_global_x64 - loop.outside[t][i] \in Int
      BY <3>1, U128Number
    <3>3. Wrap(loop.infos[i].growth_global_x64 - loop.outside[t][i]) \in U128
      BY <3>2, WrapType
    <3>4. CASE loop.infos[i].initialized
      BY <3>3, <3>4 DEF CrossOutside, wrapping_sub, Modulus, Wrap, CounterSize
    <3>5. CASE ~loop.infos[i].initialized
      <4>1. /\ loop.infos[i].growth_global_x64 = 0 /\ loop.outside[t][i] = 0
        BY <1>2, <3>5 DEF Unstarted
      <4>2. 0 - 0 = 0 /\ 0 \in U128 /\ 0 \in Int
        BY U128Nat DEF U128
      <4>3. Wrap(0) = 0
        BY <4>2, WrapFits
      <4> QED
        BY <3>3, <3>5, <4>1, <4>2, <4>3 DEF CrossOutside
    <3> QED
      BY <3>4, <3>5
  <2>2. CrossOutside(t) = [i \in RewardIndex |-> CrossOutside(t)[i]]
    BY DEF CrossOutside
  <2> QED
    BY <2>1, <2>2
<1>5. /\ loop' \in Rewards /\ loop'.updated = loop.updated
      /\ loop'.infos = loop.infos
      /\ \A t \in UsableTicks :
            loop'.outside[t] = IF crosses /\ t = next THEN CrossOutside(t)
                               ELSE loop.outside[t]
  <2>1. CASE crosses
    <3>1. loop' = [loop EXCEPT !.outside[next] = CrossOutside(next)]
      BY <2>1 DEF CrossesRewards
    <3>2. next \in UsableTicks /\ CrossOutside(next) \in [RewardIndex -> U128]
      BY <1>3, <1>4, <2>1
    <3> QED
      BY <1>2, <2>1, <3>1, <3>2 DEF Rewards
  <2>2. CASE ~crosses
    BY <1>2, <2>2 DEF CrossesRewards
  <2> QED
    BY <2>1, <2>2
<1>6. \A i \in RewardIndex :
         /\ loop'.infos[i] = loop.infos[i]
         /\ \A t \in UsableTicks :
               loop'.outside[t][i] =
                  IF crosses /\ t = next
                  THEN Wrap(loop.infos[i].growth_global_x64 - loop.outside[t][i])
                  ELSE loop.outside[t][i]
  BY <1>4, <1>5
<1>7. RInv'
  <2>1. RewardsTypeOK'
    BY <1>1, <1>5 DEF RInv, RewardsTypeOK
  <2>2. Unstarted(loop)'
    <3> SUFFICES ASSUME NEW i \in RewardIndex, ~loop'.infos[i].initialized
                 PROVE  /\ loop'.infos[i].emissions_per_second_x64 = 0
                        /\ loop'.infos[i].growth_global_x64 = 0
                        /\ \A t \in UsableTicks : loop'.outside[t][i] = 0
      BY DEF Unstarted
    <3>1. /\ loop.infos[i].emissions_per_second_x64 = 0
          /\ loop.infos[i].growth_global_x64 = 0
          /\ \A t \in UsableTicks : loop.outside[t][i] = 0
      BY <1>2, <1>6 DEF Unstarted
    <3>2. 0 - 0 = 0 /\ Wrap(0) = 0
      <4>1. 0 \in U128 /\ 0 \in Int
        BY U128Nat DEF U128
      <4> QED
        BY <4>1, WrapFits
    <3> QED
      BY <1>6, <3>1, <3>2
  <2>3. Unstarted(rewards)' /\ rewards'.updated <= unix_timestamp'
    BY <1>1 DEF RInv, Unstarted
  <2>4. OneBook'
    BY <1>1, <1>2, <1>5 DEF OneBook
  <2> QED
    BY <2>1, <2>2, <2>3, <2>4 DEF RInv
<1> QED
  BY <1>1, <1>6, <1>7 DEF Crossed

\* An iteration moves the price, and no growth.
LEMMA CrossingKeepsRewards ==
  ASSUME RInv, IInv', NEW k, NEW next, NEW next_price, NEW amount_remains,
         CrossesRewards(k, next, next_price, amount_remains)
  PROVE  \A i \in RewardIndex : Saved(i)' = Saved(i) /\ Running(i)' = Running(i)
<1> SUFFICES ASSUME NEW i \in RewardIndex
             PROVE  Saved(i)' = Saved(i) /\ Running(i)' = Running(i)
  OBVIOUS
<1> DEFINE c == swap.tick_index
           d == TickIndexAfter(next, next_price)
           J == Checkpoints(i)
           old == RewardGrowth(loop, i, 0)
           new == RewardGrowth(loop', i, 0)
<1>0. RInv' /\ Crossed(k, next, next_price)
  BY CrossingKeepsInv
<1>1. /\ RInv' /\ swap.in_progress /\ swap'.in_progress
      /\ swap'.tick_index = TickIndexAfter(next, next_price)
      /\ UNCHANGED <<pool, ticks, positions>>
      /\ loop'.infos[i] = loop.infos[i]
      /\ \A t \in UsableTicks :
            loop'.outside[t][i] =
               IF /\ next_price = sqrt_price_from_tick_index[next]
                  /\ Crosses(k, next) /\ t = next
               THEN Wrap(loop.infos[i].growth_global_x64 - loop.outside[t][i])
               ELSE loop.outside[t][i]
  BY <1>0 DEF Crossed
<1>2. UNCHANGED <<unix_timestamp, rewards, position_rewards, vaults>>
  BY DEF CrossesRewards
<1>3. Known /\ Known' /\ LoopTick = c /\ LoopTick' = d
  BY <1>1, UnclaimedNow, UnclaimedNext DEF LoopTick
<1>4. Checkpoints(i)' = J
  BY <1>2 DEF Checkpoints
<1>5. RunningGrowth(i) = old /\ RunningGrowth(i)' = new
  BY <1>1, UpToDateNow, UpToDateNext DEF UpToDate, RewardGrowth
<1>6. Saved(i)' = Saved(i)
  <2>1. SavedGrowth(i)' = SavedGrowth(i)
    BY <1>1, <1>2 DEF SavedGrowth, RewardGrowth, Pending, Behind, GrowthOver
  <2> QED
    BY <1>1, <1>3, <1>4, <2>1 DEF Known
<1>7. /\ Counts(old) /\ Counts(new) /\ c \in Int /\ d \in Int /\ J \in [PositionId -> U128]
      /\ Running(i) = Dues(ticks, old, positions, J, c)
      /\ Running(i)' = Dues(ticks, new, positions, J, d)
      /\ Running(i) \in [PositionId -> U128]
  BY <1>1, <1>3, <1>4, <1>5 DEF Known
<1>8. /\ new.growth = loop.infos[i].growth_global_x64
      /\ old.growth = loop.infos[i].growth_global_x64
      /\ new.growth = Wrap(old.growth + 0)
  <2> DEFINE G == loop.infos[i].growth_global_x64
  <2>1. G \in U128 /\ G \in Int /\ G + 0 = G
    BY BehindTypes, BookTypes
  <2> HIDE DEF G
  <2>2. Wrap(G + 0) = G
    BY <2>1, WrapFits
  <2>3. new.growth = Wrap(G + 0) /\ old.growth = Wrap(G + 0)
    BY <1>1 DEF RewardGrowth, G
  <2> QED
    BY <2>2, <2>3 DEF G
<1>9. ASSUME NEW v \in UsableTicks, ticks[v].initialized
      PROVE  TradesSides(old, new, v, c, d)
  <2>1. new.outside[v] = IF /\ next_price = sqrt_price_from_tick_index[next]
                            /\ Crosses(k, next) /\ v = next
                         THEN Wrap(new.growth - old.outside[v]) ELSE old.outside[v]
    <3>1. new.outside[v] = loop'.outside[v][i] /\ old.outside[v] = loop.outside[v][i]
      BY DEF RewardGrowth
    <3> HIDE DEF old, new
    <3> QED
      BY <1>1, <1>8, <3>1
  <2> HIDE DEF old, new
  <2>2. Iterates(k, next, next_price, amount_remains) /\ IInv
    BY DEF CrossesRewards, RInv
  <2> QED
    BY <1>9, <2>1, <2>2, SidesTraded
<1> HIDE DEF c, d, old, new, J
<1>10. Accrues(ticks, old, new, c, d, 0)
  BY <1>7, <1>8, <1>9 DEF Accrues
<1>11. IInv
  BY DEF RInv
<1>12. Running(i)' = [p \in PositionId |->
                        IF EarningAt(positions[p], c) THEN Wrap(Running(i)[p] + 0)
                        ELSE Running(i)[p]]
  BY <1>7, <1>10, <1>11, DuesAccrue
<1>13. \A p \in PositionId : Wrap(Running(i)[p] + 0) = Running(i)[p]
  <2> SUFFICES ASSUME NEW p \in PositionId PROVE Wrap(Running(i)[p] + 0) = Running(i)[p]
    OBVIOUS
  <2>1. Running(i)[p] \in U128
    BY <1>7
  <2>2. Running(i)[p] + 0 = Running(i)[p]
    BY <2>1, U128Number
  <2> QED
    BY <2>1, <2>2, WrapFits
<1>14. Running(i)' = Running(i)
  BY <1>7, <1>12, <1>13
<1> QED
  BY <1>6, <1>14

\* The end of a swap: its rewards become the pool's.
LEMMA SwapEndKeepsRewards ==
  ASSUME RInv, IInv', RewardsSwapEnd
  PROVE  /\ RInv' /\ swap'.in_progress = FALSE
         /\ \A i \in RewardIndex : Saved(i)' = Running(i) /\ Running(i)' = Running(i)
<1>1. /\ swap.in_progress /\ swap' = NoSwap
      /\ UNCHANGED <<ticks, positions>>
      /\ UNCHANGED <<unix_timestamp, loop, position_rewards, vaults>>
      /\ rewards' = loop
  BY DEF RewardsSwapEnd, SwapEnd
<1>2. swap'.in_progress = FALSE
  BY <1>1 DEF NoSwap
<1>3. pool'.tick_current_index = LoopTick
  <2>1. pool \in Pool
    BY DEF RInv, IInv, TypeOK
  <2> QED
    BY <1>1, <2>1 DEF RewardsSwapEnd, SwapEnd, Pool, LoopTick
<1>4. RInv'
  <2>1. loop \in Rewards /\ loop.updated = unix_timestamp /\ unix_timestamp \in Nat
    BY <1>1, BehindTypes, RewardsAssumption DEF RInv, RewardsTypeOK
  <2>2. RewardsTypeOK'
    BY <1>1, <2>1 DEF RInv, RewardsTypeOK
  <2>3. Unstarted(rewards)' /\ Unstarted(loop)'
    BY <1>1 DEF RInv, Unstarted
  <2>4. rewards'.updated <= unix_timestamp' /\ OneBook'
    BY <1>1, <1>2, <2>1 DEF OneBook
  <2> QED
    BY <2>2, <2>3, <2>4 DEF RInv
<1>5. ASSUME NEW i \in RewardIndex
      PROVE  Saved(i)' = Running(i) /\ Running(i)' = Running(i)
  <2>1. SavedGrowth(i)' = RunningGrowth(i)
    <3>1. rewards'.updated = unix_timestamp'
      BY <1>1, BehindTypes
    <3>2. SavedGrowth(i)' = RewardGrowth(rewards, i, 0)'
      BY <1>4, <3>1, UpToDateNext DEF UpToDate
    <3>3. RewardGrowth(rewards, i, 0)' = RewardGrowth(loop, i, 0)
      BY <1>1 DEF RewardGrowth
    <3> QED
      BY <1>1, <3>2, <3>3, UpToDateNow DEF UpToDate
  <2>2. Checkpoints(i)' = Checkpoints(i)
    BY <1>1 DEF Checkpoints
  <2>3. Known /\ Known'
    BY <1>4, UnclaimedNow, UnclaimedNext
  <2>4. Saved(i)' = Running(i)
    BY <1>1, <1>3, <2>1, <2>2, <2>3 DEF Known
  <2> QED
    BY <1>2, <1>4, <2>4, IdleBookNext
<1> QED
  BY <1>2, <1>4, <1>5

\* A swap that fails: nothing of it is left.
LEMMA SwapAbortKeepsRewards ==
  ASSUME RInv, IInv', RewardsSwapAbort
  PROVE  /\ RInv' /\ swap'.in_progress = FALSE
         /\ \A i \in RewardIndex : Saved(i)' = Saved(i) /\ Running(i)' = Saved(i)
<1>1. /\ swap.in_progress /\ swap' = NoSwap
      /\ UNCHANGED <<pool, ticks, positions>>
      /\ UNCHANGED <<unix_timestamp, rewards, position_rewards, vaults>>
      /\ loop' = rewards
  BY DEF RewardsSwapAbort, SwapFail, SwapReject, SwapContinues
<1>2. swap'.in_progress = FALSE
  BY <1>1 DEF NoSwap
<1>3. RInv'
  <2>1. RewardsTypeOK'
    BY <1>1 DEF RInv, RewardsTypeOK
  <2>2. Unstarted(rewards)' /\ Unstarted(loop)'
    BY <1>1 DEF RInv, Unstarted
  <2>3. rewards'.updated <= unix_timestamp' /\ OneBook'
    BY <1>1, <1>2 DEF RInv, OneBook
  <2> QED
    BY <2>1, <2>2, <2>3 DEF RInv
<1>4. ASSUME NEW i \in RewardIndex
      PROVE  Saved(i)' = Saved(i) /\ Running(i)' = Saved(i)
  <2>1. SavedGrowth(i)' = SavedGrowth(i)
    BY <1>1 DEF SavedGrowth, RewardGrowth, Pending, Behind, GrowthOver
  <2>2. Checkpoints(i)' = Checkpoints(i)
    BY <1>1 DEF Checkpoints
  <2>3. Known /\ Known'
    BY <1>3, UnclaimedNow, UnclaimedNext
  <2>4. Saved(i)' = Saved(i)
    BY <1>1, <2>1, <2>2, <2>3 DEF Known
  <2> QED
    BY <1>2, <1>3, <2>4, IdleBookNext
<1> QED
  BY <1>2, <1>3, <1>4

\* Growth that is pending is a number, and stays one.
NumbersPending == \A i \in RewardIndex : Pending(rewards, i) \in Nat

LEMMA PendingNow == RInv => NumbersPending
<1> SUFFICES ASSUME RInv, NEW i \in RewardIndex PROVE Pending(rewards, i) \in Nat
  BY DEF NumbersPending
<1>1. IInv /\ rewards \in Rewards /\ Behind(rewards) \in Nat
  BY BehindTypes DEF RInv
<1> QED
  BY <1>1, NextInfosOf, Zenon

LEMMA PendingNext == RInv' => NumbersPending'
BY PendingNow, PTL

\* What a second adds to the growth of a reward.
Emitted(i) == Wrap(Pending(rewards, i)' - Pending(rewards, i))

\* It goes to the positions in range, and to nobody else.
LEMMA ElapseAccrues ==
  ASSUME RInv, IInv', Elapse
  PROVE  /\ RInv' /\ ~swap.in_progress
         /\ \A i \in RewardIndex :
               /\ Emitted(i) \in U128
               /\ Saved(i)' = [p \in PositionId |->
                     IF EarningAt(positions[p], pool.tick_current_index)
                     THEN Wrap(Saved(i)[p] + Emitted(i)) ELSE Saved(i)[p]]
               /\ Running(i)' = Saved(i)'
<1>1. /\ ~swap.in_progress /\ unix_timestamp < MAX_TIME
      /\ unix_timestamp' = unix_timestamp + 1
      /\ UNCHANGED <<pool, ticks, positions, swap, rewards, loop, position_rewards, vaults>>
  BY DEF Elapse, vars
<1>2. RInv'
  <2>1. unix_timestamp \in Nat /\ rewards.updated \in Nat /\ rewards.updated <= unix_timestamp
    <3>1. rewards.updated \in 0 .. MAX_TIME /\ unix_timestamp \in 0 .. MAX_TIME
      BY BehindTypes DEF RInv, RewardsTypeOK, Rewards
    <3> QED
      BY <3>1, RewardsAssumption DEF RInv
  <2>2. unix_timestamp' \in 0 .. MAX_TIME
    BY <1>1, <2>1, RewardsAssumption
  <2>3. RewardsTypeOK'
    BY <1>1, <2>2 DEF RInv, RewardsTypeOK
  <2>4. Unstarted(rewards)' /\ Unstarted(loop)'
    BY <1>1 DEF RInv, Unstarted
  <2>5. rewards'.updated <= unix_timestamp' /\ OneBook'
    BY <1>1, <2>1 DEF RInv, OneBook
  <2> QED
    BY <2>3, <2>4, <2>5 DEF RInv
<1>3. ASSUME NEW i \in RewardIndex
      PROVE  /\ Emitted(i) \in U128
             /\ Saved(i)' = [p \in PositionId |->
                   IF EarningAt(positions[p], pool.tick_current_index)
                   THEN Wrap(Saved(i)[p] + Emitted(i)) ELSE Saved(i)[p]]
             /\ Running(i)' = Saved(i)'
  <2> DEFINE c == pool.tick_current_index
             J == Checkpoints(i)
             old == SavedGrowth(i)
             new == SavedGrowth(i)'
             G == rewards.infos[i].growth_global_x64
             P == Pending(rewards, i)
             Q == Pending(rewards, i)'
             g == Emitted(i)
  <2>1. Known /\ Known' /\ IInv
    BY <1>2, UnclaimedNow, UnclaimedNext DEF RInv
  <2>2. Checkpoints(i)' = J
    BY <1>1 DEF Checkpoints
  <2>3. /\ Counts(old) /\ Counts(new) /\ c \in Int /\ J \in [PositionId -> U128]
        /\ Saved(i) = Dues(ticks, old, positions, J, c)
        /\ Saved(i)' = Dues(ticks, new, positions, J, c)
    BY <1>1, <2>1, <2>2 DEF Known
  <2>4. G \in Int /\ P \in Int /\ Q \in Int
    <3>1. P \in Nat /\ Q \in Nat
      BY <1>2, PendingNow, PendingNext DEF NumbersPending
    <3>2. G \in Int
      BY BehindTypes, BookTypes
    <3> QED
      BY <3>1, <3>2
  <2>5. /\ old.growth = Wrap(G + P) /\ new.growth = Wrap(G + Q)
        /\ \A t \in UsableTicks : new.outside[t] = old.outside[t]
        /\ g = Wrap(Q - P)
    BY <1>1 DEF SavedGrowth, RewardGrowth, Emitted
  <2> HIDE DEF G, P, Q, old, new, g, c, J
  <2>6. g \in U128 /\ g \in Int /\ new.growth = Wrap(old.growth + g)
    <3>1. Q - P \in Int /\ G + P \in Int /\ (Q - P) + (G + P) = G + Q
      BY <2>4
    <3>2. g \in U128 /\ g \in Int
      BY <2>5, <3>1, WrapType
    <3>3. Wrap(Wrap(G + P) + g) = Wrap((G + P) + g)
      BY <3>1, <3>2, WrapOnce
    <3>4. (G + P) + g = g + (G + P)
      BY <3>1, <3>2
    <3>5. Wrap(Wrap(Q - P) + (G + P)) = Wrap((Q - P) + (G + P))
      BY <3>1, WrapOnce
    <3> QED
      BY <2>5, <3>1, <3>2, <3>3, <3>4, <3>5
  <2>7. Accrues(ticks, old, new, c, c, g)
    BY <2>3, <2>5, <2>6 DEF Accrues, TradesSides
  <2>8. Dues(ticks, new, positions, J, c)
          = [p \in PositionId |->
                IF EarningAt(positions[p], c)
                THEN Wrap(Dues(ticks, old, positions, J, c)[p] + g)
                ELSE Dues(ticks, old, positions, J, c)[p]]
    BY <2>1, <2>3, <2>7, DuesAccrue
  <2>9. Running(i)' = Saved(i)'
    <3>1. swap'.in_progress = FALSE
      <4>1. swap = NoSwap
        <5>1. swap \in {NoSwap} \union Swap
          BY <2>1 DEF IInv, TypeOK
        <5>2. \A s \in Swap : s.in_progress
          BY DEF Swap
        <5> QED
          BY <1>1, <5>1, <5>2
      <4> QED
        BY <1>1, <4>1 DEF NoSwap
    <3> QED
      BY <1>2, <3>1, IdleBookNext
  <2> QED
    BY <2>3, <2>6, <2>8, <2>9 DEF c, g
<1> QED
  BY <1>1, <1>2, <1>3

-----------------------------------------------------------------------------
\* Every step.

\* The rewards ride on the steps of the pool: none is added, none is changed.
LEMMA RewardsStepIsPoolStep == [RewardsNext]_<<vars, rewardVars>> => [Next]_vars
<1> SUFFICES ASSUME RewardsNext, vars' # vars
             PROVE  Next
  BY DEF vars
<1>1. ASSUME NEW p \in PositionId,
             UpdateFeesAndRewards(p) \/ \E i \in RewardIndex : CollectReward(p, i)
      PROVE  FALSE
  BY <1>1 DEF UpdateFeesAndRewards, CollectReward
<1>2. ASSUME NEW i \in RewardIndex,
             \/ InitializeReward(i)
             \/ \E amount \in Deposits : FundReward(i, amount)
             \/ \E emissions \in Emissions : SetRewardEmissions(i, emissions)
      PROVE  FALSE
  BY <1>2 DEF InitializeReward, FundReward, SetRewardEmissions
<1>3. CASE Elapse
  BY <1>3 DEF Elapse
<1>4. CASE RewardsSwapStep
  BY <1>4, RewardsSwapStepCrosses DEF Next
<1>5. CASE RewardsSwapEnd \/ RewardsSwapAbort
  BY <1>5 DEF RewardsSwapEnd, RewardsSwapAbort, Next
<1>6. ASSUME NEW p \in PositionId, NEW amount \in LiquidityAmounts,
             RewardsIncreaseLiquidity(p, amount) \/ RewardsDecreaseLiquidity(p, amount)
      PROVE  Next
  BY <1>6 DEF RewardsIncreaseLiquidity, RewardsDecreaseLiquidity, Next
<1>7. ASSUME NEW p \in PositionId, RewardsClosePosition(p)
      PROVE  Next
  BY <1>7 DEF RewardsClosePosition, Next
<1>8. ASSUME NEW p \in PositionId, NEW lower \in UsableTicks, NEW upper \in UsableTicks,
             RewardsOpenPosition(p, lower, upper)
      PROVE  Next
  BY <1>8 DEF RewardsOpenPosition, Next
<1>9. ASSUME NEW start \in StartTicks, InitializeTickArray(start)
      PROVE  Next
  BY <1>9 DEF Next
<1>10. ASSUME NEW a_to_b \in BOOLEAN, NEW limit \in SqrtPriceLimits,
              NEW arrays \in SwapTickSequence(tick_arrays),
              RewardsSwapStart(a_to_b, limit, arrays)
       PROVE  Next
  BY <1>10 DEF RewardsSwapStart, Next
<1> QED
  BY <1>1, <1>2, <1>3, <1>4, <1>5, <1>6, <1>7, <1>8, <1>9, <1>10 DEF RewardsNext

\* The steps, sorted by what they make of the unclaimed growth: they leave it, ...
KeepsGrowth ==
    \/ \E start \in StartTicks : InitializeTickArray(start) /\ UNCHANGED rewardVars
    \/ UNCHANGED <<vars, rewardVars>>
    \/ \E i \in RewardIndex :
          \/ \E p \in PositionId : CollectReward(p, i)
          \/ \E amount \in Deposits : FundReward(i, amount)
          \/ InitializeReward(i)
          \/ \E emissions \in Emissions : SetRewardEmissions(i, emissions)

\* ... leave it while an empty position comes or goes, ...
MovesEmpty(p) ==
    \/ RewardsClosePosition(p)
    \/ \E lower, upper \in UsableTicks : RewardsOpenPosition(p, lower, upper)

\* ... or settle that of one position.
Settles(p) ==
    \/ UpdateFeesAndRewards(p)
    \/ \E amount \in LiquidityAmounts :
          RewardsIncreaseLiquidity(p, amount) \/ RewardsDecreaseLiquidity(p, amount)

StartsSwap ==
    \E a_to_b \in BOOLEAN, limit \in SqrtPriceLimits,
       arrays \in SwapTickSequence(tick_arrays) : RewardsSwapStart(a_to_b, limit, arrays)

LEMMA RewardsSteps ==
  ASSUME [RewardsNext]_<<vars, rewardVars>>
  PROVE  \/ KeepsGrowth
         \/ \E p \in PositionId : MovesEmpty(p) \/ Settles(p)
         \/ StartsSwap \/ RewardsSwapStep \/ RewardsSwapEnd \/ RewardsSwapAbort
         \/ Elapse
BY Zenon DEF RewardsNext, KeepsGrowth, MovesEmpty, Settles, StartsSwap

\* A change of liquidity, as a deposit or a withdrawal makes it.
LEMMA DepositOrWithdrawal ==
  ASSUME NEW p \in PositionId, NEW amount \in LiquidityAmounts,
         RewardsIncreaseLiquidity(p, amount) \/ RewardsDecreaseLiquidity(p, amount)
  PROVE  \E delta \in Int : ModifyLiquidity(p, delta) /\ RewardsModifyLiquidity(p, delta)
<1>1. amount \in Int /\ -amount \in Int
  BY LiquidityAssumption
<1> QED
  BY <1>1 DEF RewardsIncreaseLiquidity, RewardsDecreaseLiquidity,
              IncreaseLiquidity, DecreaseLiquidity

\* The pool's own invariant.
LEMMA PoolInvNext ==
  ASSUME RInv, [RewardsNext]_<<vars, rewardVars>>
  PROVE  IInv /\ IInv'
BY RewardsStepIsPoolStep, NextInv DEF RInv

LEMMA KeepsGrowthInv ==
  ASSUME RInv, IInv', KeepsGrowth
  PROVE  /\ RInv'
         /\ \A i \in RewardIndex : Saved(i)' = Saved(i) /\ Running(i)' = Running(i)
         /\ UNCHANGED <<pool, positions, swap, unix_timestamp>>
<1>1. UNCHANGED <<pool, positions, swap, unix_timestamp>>
  BY DEF KeepsGrowth, InitializeTickArray, CollectReward, FundReward, InitializeReward,
         SetRewardEmissions, vars, rewardVars
<1>2. ASSUME \/ \E start \in StartTicks :
                   InitializeTickArray(start) /\ UNCHANGED rewardVars
             \/ UNCHANGED <<vars, rewardVars>>
      PROVE  /\ RInv'
             /\ \A i \in RewardIndex : Saved(i)' = Saved(i) /\ Running(i)' = Running(i)
  BY <1>2, TickArrayKeepsRewards
<1>3. ASSUME NEW j \in RewardIndex,
             \/ \E p \in PositionId : CollectReward(p, j)
             \/ \E amount \in Deposits : FundReward(j, amount)
      PROVE  /\ RInv'
             /\ \A i \in RewardIndex : Saved(i)' = Saved(i) /\ Running(i)' = Running(i)
  BY <1>3, PaymentKeepsRewards
<1>4. ASSUME NEW j \in RewardIndex, InitializeReward(j)
      PROVE  /\ RInv'
             /\ \A i \in RewardIndex : Saved(i)' = Saved(i) /\ Running(i)' = Running(i)
  BY <1>4, NewRewardKeepsRewards
<1>5. ASSUME NEW j \in RewardIndex, NEW emissions \in Emissions,
             SetRewardEmissions(j, emissions)
      PROVE  /\ RInv'
             /\ \A i \in RewardIndex : Saved(i)' = Saved(i) /\ Running(i)' = Running(i)
  BY <1>5, EmissionsKeepRewards
<1> QED
  BY <1>1, <1>2, <1>3, <1>4, <1>5 DEF KeepsGrowth

LEMMA SettlesInv ==
  ASSUME RInv, IInv', NEW p \in PositionId, Settles(p)
  PROVE  /\ RInv' /\ positions[p].open
         /\ \A i \in RewardIndex :
               Saved(i)' = [Saved(i) EXCEPT ![p] = 0] /\ Running(i)' = Saved(i)'
         /\ ~swap.in_progress
         /\ UNCHANGED <<swap, unix_timestamp>>
         /\ pool'.tick_current_index = pool.tick_current_index
         /\ \A q \in PositionId \ {p} : positions'[q] = positions[q]
<1>1. CASE UpdateFeesAndRewards(p)
  <2>1. /\ RInv' /\ positions[p].open
        /\ \A i \in RewardIndex :
              Saved(i)' = [Saved(i) EXCEPT ![p] = 0] /\ Running(i)' = Saved(i)'
    BY <1>1, UpdateKeepsRewards
  <2> QED
    BY <1>1, <2>1 DEF UpdateFeesAndRewards, vars
<1>2. ASSUME NEW amount \in LiquidityAmounts,
             RewardsIncreaseLiquidity(p, amount) \/ RewardsDecreaseLiquidity(p, amount)
      PROVE  /\ RInv' /\ positions[p].open
             /\ \A i \in RewardIndex :
                   Saved(i)' = [Saved(i) EXCEPT ![p] = 0] /\ Running(i)' = Saved(i)'
             /\ ~swap.in_progress
             /\ UNCHANGED <<swap, unix_timestamp>>
             /\ pool'.tick_current_index = pool.tick_current_index
             /\ \A q \in PositionId \ {p} : positions'[q] = positions[q]
  <2>1. PICK delta \in Int : ModifyLiquidity(p, delta) /\ RewardsModifyLiquidity(p, delta)
    BY <1>2, DepositOrWithdrawal
  <2>2. /\ RInv' /\ positions[p].open
        /\ \A i \in RewardIndex :
              Saved(i)' = [Saved(i) EXCEPT ![p] = 0] /\ Running(i)' = Saved(i)'
    BY <2>1, ModifyKeepsRewards
  <2>3. /\ ~swap.in_progress
        /\ UNCHANGED <<swap, unix_timestamp>>
        /\ pool'.tick_current_index = pool.tick_current_index
        /\ \A q \in PositionId \ {p} : positions'[q] = positions[q]
    BY <2>1 DEF ModifyLiquidity, RewardsModifyLiquidity, RInv, IInv, TypeOK, Pool
  <2> QED
    BY <2>2, <2>3
<1> QED
  BY <1>1, <1>2 DEF Settles

LEMMA CrossingInv ==
  ASSUME RInv, IInv', RewardsSwapStep
  PROVE  /\ RInv'
         /\ \A i \in RewardIndex : Saved(i)' = Saved(i) /\ Running(i)' = Running(i)
         /\ swap.in_progress /\ swap'.in_progress = TRUE
         /\ UNCHANGED <<pool, positions, unix_timestamp>>
<1>1. PICK k \in DOMAIN swap.arrays, next \in TickIndex, next_price \in SqrtPrice,
           amount_remains \in BOOLEAN : CrossesRewards(k, next, next_price, amount_remains)
  BY RewardsSwapStepCrosses
<1>2. RInv' /\ Crossed(k, next, next_price)
  BY <1>1, CrossingKeepsInv
<1>3. \A i \in RewardIndex : Saved(i)' = Saved(i) /\ Running(i)' = Running(i)
  BY <1>1, CrossingKeepsRewards
<1> QED
  BY <1>1, <1>2, <1>3 DEF Crossed, CrossesRewards

\* A pool without rewards.
LEMMA RewardsInitInv == RewardsInit => RInv
<1> SUFFICES ASSUME RewardsInit PROVE RInv
  OBVIOUS
<1>1. IInv
  BY InitInv DEF RewardsInit
<1>2. 0 \in U128 /\ 0 \in U64
  BY U128Nat, RewardsAssumption DEF U128, U64
<1>3. /\ NewRewardInfo \in RewardInfo
      /\ NewPositionReward \in PositionRewardInfo
      /\ NoGrowth \in [RewardIndex -> U128]
  BY <1>2 DEF NewRewardInfo, RewardInfo, NewPositionReward, PositionRewardInfo, NoGrowth
<1>4. rewards \in Rewards /\ loop = rewards /\ unix_timestamp = 1 /\ rewards.updated = 0
  BY <1>3, RewardsAssumption DEF RewardsInit, Rewards
<1>5. RewardsTypeOK
  BY <1>2, <1>3, <1>4, RewardsAssumption DEF RewardsTypeOK, RewardsInit
<1>6. Unstarted(rewards)
  BY DEF RewardsInit, Unstarted, NewRewardInfo, NoGrowth
<1>7. ~swap.in_progress
  BY DEF RewardsInit, Init, NoSwap
<1> QED
  BY <1>1, <1>4, <1>5, <1>6, <1>7 DEF RInv, OneBook

\* Every step preserves the invariant.
LEMMA RewardsNextInv == RInv /\ [RewardsNext]_<<vars, rewardVars>> => RInv'
<1> SUFFICES ASSUME RInv, [RewardsNext]_<<vars, rewardVars>> PROVE RInv'
  OBVIOUS
<1>1. IInv'
  BY PoolInvNext
<1>2. CASE KeepsGrowth
  BY <1>1, <1>2, KeepsGrowthInv
<1>3. ASSUME NEW p \in PositionId, MovesEmpty(p) PROVE RInv'
  BY <1>1, <1>3, EmptyPositionKeepsRewards DEF MovesEmpty
<1>4. ASSUME NEW p \in PositionId, Settles(p) PROVE RInv'
  BY <1>1, <1>4, SettlesInv
<1>5. CASE StartsSwap
  BY <1>1, <1>5, SwapStartKeepsRewards DEF StartsSwap
<1>6. CASE RewardsSwapStep
  BY <1>1, <1>6, CrossingInv
<1>7. CASE RewardsSwapEnd
  BY <1>1, <1>7, SwapEndKeepsRewards
<1>8. CASE RewardsSwapAbort
  BY <1>1, <1>8, SwapAbortKeepsRewards
<1>9. CASE Elapse
  BY <1>1, <1>9, ElapseAccrues
<1> QED
  BY <1>2, <1>3, <1>4, <1>5, <1>6, <1>7, <1>8, <1>9, RewardsSteps

-----------------------------------------------------------------------------
\* RewardShares, step by step.

\* The positions and the watched reward as RewardShares has them.
Held == [p \in PositionId |-> [live |-> positions[p].liquidity > 0,
                               lower |-> positions[p].tick_lower_index,
                               upper |-> positions[p].tick_upper_index]]
Book == [tick |-> LoopTick, unclaimed |-> Running(WatchedReward)]
SavedBook == [tick |-> pool.tick_current_index, unclaimed |-> Saved(WatchedReward)]

\* Nothing the abstract specification speaks of has changed.
LEMMA SharesStutter ==
  ASSUME RInv, IInv', KeepsGrowth
  PROVE  UNCHANGED <<Shares!vars, unix_timestamp>>
<1>1. /\ \A i \in RewardIndex : Saved(i)' = Saved(i) /\ Running(i)' = Running(i)
      /\ UNCHANGED <<pool, positions, swap, unix_timestamp>>
  BY KeepsGrowthInv
<1>2. Held' = Held /\ swap'.in_progress = swap.in_progress
  BY <1>1 DEF Held
<1>3. Book' = Book /\ SavedBook' = SavedBook
  BY <1>1, RewardsAssumption DEF Book, SavedBook, LoopTick
<1> QED
  BY <1>1, <1>2, <1>3, Zenon DEF Shares!vars, Held, Book, SavedBook, Saved, Running

\* A change of one position, outside a swap, that leaves it nothing to claim.
LEMMA SharesClaim ==
  ASSUME RInv, RInv', NEW p \in PositionId,
         ~swap.in_progress, UNCHANGED swap,
         pool'.tick_current_index = pool.tick_current_index,
         \A q \in PositionId \ {p} : positions'[q] = positions[q],
         Saved(WatchedReward)' = [Saved(WatchedReward) EXCEPT ![p] = 0],
         Running(WatchedReward)' = Saved(WatchedReward)'
  PROVE  Shares!Claim(p)
<1>1. /\ Running(WatchedReward) = Saved(WatchedReward)
      /\ LoopTick = pool.tick_current_index
  BY IdleBook, RewardsAssumption
<1>2. LoopTick' = LoopTick
  BY DEF LoopTick
<1>3. /\ Book' = [Book EXCEPT !.unclaimed[p] = 0]
      /\ SavedBook' = Book'
  BY <1>1, <1>2 DEF Book, SavedBook
<1>4. Held'[p] \in [live: BOOLEAN, lower: CurrentTick, upper: CurrentTick]
  <2>1. positions'[p] \in Position
    BY DEF RInv, IInv, TypeOK
  <2>2. TickIndex \subseteq CurrentTick
    BY TickAssumption DEF TickIndex, CurrentTick
  <2>3. /\ positions'[p].tick_lower_index \in CurrentTick
        /\ positions'[p].tick_upper_index \in CurrentTick
    BY <2>1, <2>2 DEF Position
  <2>4. (positions'[p].liquidity > 0) \in BOOLEAN
    BY <2>1, PositionTypes
  <2> QED
    BY <2>3, <2>4 DEF Held
<1>5. Held' = [Held EXCEPT ![p] = Held'[p]]
  BY DEF Held
<1>6. /\ ~swap.in_progress /\ swap'.in_progress = swap.in_progress
      /\ \E holding \in {Held'[p]} \intersect [live: BOOLEAN, lower: CurrentTick,
                                                 upper: CurrentTick] :
            Held' = [Held EXCEPT ![p] = holding]
  BY <1>4, <1>5
<1> QED
  BY <1>3, <1>6, Zenon
  DEF Shares!Claim, Shares!Holding, Held, Book, SavedBook, Saved, Running

\* open_position and close_position have nothing to settle.
LEMMA SharesEmpty ==
  ASSUME RInv, RInv', NEW p \in PositionId, MovesEmpty(p)
  PROVE  Shares!Claim(p) /\ UNCHANGED unix_timestamp
<1> DEFINE S == Saved(WatchedReward)
<1>1. /\ Saved(WatchedReward)' = S
      /\ Running(WatchedReward)' = Running(WatchedReward)
  BY EmptyPositionKeepsRewards, RewardsAssumption DEF MovesEmpty, RInv
<1>2. positions \in [PositionId -> Position] /\ IInv
  BY PositionsAreAccounts DEF RInv
<1>3. /\ ~swap.in_progress /\ UNCHANGED <<swap, pool, unix_timestamp>>
      /\ \A q \in PositionId \ {p} : positions'[q] = positions[q]
  BY <1>2 DEF MovesEmpty, RewardsClosePosition, ClosePosition, RewardsOpenPosition,
              OpenPosition, rewardVars
<1>4. positions[p].liquidity = 0
  <2>1. ~positions[p].open => positions[p].liquidity = 0
    BY <1>2 DEF IInv, PositionsOK, WellFormed
  <2> QED
    BY <2>1 DEF MovesEmpty, RewardsClosePosition, ClosePosition, RewardsOpenPosition,
                OpenPosition
<1>5. S = [S EXCEPT ![p] = 0]
  <2>1. S[p] = 0 /\ S = [q \in PositionId |-> S[q]]
    BY <1>4 DEF Saved, Unclaimed
  <2> HIDE DEF S
  <2> QED
    BY <2>1
<1>6. Running(WatchedReward) = S
  BY <1>3, IdleBook, RewardsAssumption
<1> QED
  BY <1>1, <1>3, <1>5, <1>6, SharesClaim

\* The start, the iterations and the end of a swap.
LEMMA SharesSwap ==
  ASSUME RInv, IInv', RInv'
  PROVE  /\ StartsSwap => Shares!Begin /\ UNCHANGED unix_timestamp
         /\ RewardsSwapStep => Shares!Trade(0) /\ UNCHANGED unix_timestamp
         /\ RewardsSwapEnd => Shares!Commit /\ UNCHANGED unix_timestamp
         /\ RewardsSwapAbort => Shares!Abort /\ UNCHANGED unix_timestamp
<1> DEFINE i == WatchedReward
<1>0. i \in RewardIndex
  BY RewardsAssumption
<1>1. ASSUME StartsSwap
      PROVE  Shares!Begin /\ UNCHANGED unix_timestamp
  <2>1. PICK a_to_b \in BOOLEAN, limit \in SqrtPriceLimits,
             arrays \in SwapTickSequence(tick_arrays) :
                RewardsSwapStart(a_to_b, limit, arrays)
    BY <1>1 DEF StartsSwap
  <2>2. Saved(i)' = Saved(i) /\ Running(i)' = Running(i)
    BY <1>0, <2>1, SwapStartKeepsRewards
  <2>3. /\ ~swap.in_progress /\ swap'.in_progress = TRUE
        /\ swap'.tick_index = pool.tick_current_index
        /\ UNCHANGED <<pool, positions, unix_timestamp>>
    BY <2>1 DEF RewardsSwapStart, SwapStart
  <2>4. Held' = Held /\ Book' = Book /\ SavedBook' = SavedBook
    BY <2>2, <2>3 DEF Held, Book, SavedBook, LoopTick
  <2> QED
    BY <2>3, <2>4, Zenon DEF Shares!Begin, Held, Book, SavedBook, Saved, Running
<1>2. ASSUME RewardsSwapStep
      PROVE  Shares!Trade(0) /\ UNCHANGED unix_timestamp
  <2>1. /\ Saved(i)' = Saved(i) /\ Running(i)' = Running(i)
        /\ swap.in_progress /\ swap'.in_progress = TRUE
        /\ UNCHANGED <<pool, positions, unix_timestamp>>
    BY <1>0, <1>2, CrossingInv
  <2>2. Known /\ Known' /\ swap.in_progress = TRUE
    <3>1. swap \in Swap
      BY <2>1, SwapType DEF RInv
    <3> QED
      BY <3>1, UnclaimedNow, UnclaimedNext DEF Swap
  <2>3. LoopTick' \in CurrentTick /\ Running(i) \in [PositionId -> U128]
    BY <1>0, <2>2 DEF Known
  <2>4. Book' \in [tick: CurrentTick,
                   unclaimed: {[p \in PositionId |->
                       IF /\ Held[p].live /\ Held[p].lower <= Book.tick
                          /\ Book.tick < Held[p].upper
                       THEN (Book.unclaimed[p] + 0) % Modulus ELSE Book.unclaimed[p]]}]
    <3>1. ASSUME NEW p \in PositionId
          PROVE  (Running(i)[p] + 0) % Modulus = Running(i)[p]
      <4>1. Running(i)[p] \in U128
        BY <2>3
      <4>2. Wrap(Running(i)[p]) = Running(i)[p] /\ Running(i)[p] + 0 = Running(i)[p]
        BY <4>1, WrapFits, U128Number
      <4> QED
        BY <4>2 DEF Wrap, CounterSize, Modulus
    <3>2. Running(i) = [p \in PositionId |->
                       IF /\ Held[p].live /\ Held[p].lower <= Book.tick
                          /\ Book.tick < Held[p].upper
                       THEN (Running(i)[p] + 0) % Modulus ELSE Running(i)[p]]
      BY <2>3, <3>1
    <3> QED
      BY <2>1, <2>3, <3>2 DEF Book
  <2>5. Held' = Held /\ SavedBook' = SavedBook /\ swap'.in_progress = swap.in_progress
    BY <2>1, <2>2 DEF Held, SavedBook
  <2> QED
    BY <2>1, <2>4, <2>5, Zenon
    DEF Shares!Trade, Shares!Earns, Held, Book, SavedBook, Saved, Running
<1>3. ASSUME RewardsSwapEnd
      PROVE  Shares!Commit /\ UNCHANGED unix_timestamp
  <2>1. /\ Saved(i)' = Running(i) /\ Running(i)' = Running(i)
        /\ swap'.in_progress = FALSE
    BY <1>0, <1>3, SwapEndKeepsRewards
  <2>2. /\ swap.in_progress /\ UNCHANGED <<positions, unix_timestamp>>
        /\ pool'.tick_current_index = swap.tick_index
    <3>1. pool \in Pool
      BY DEF RInv, IInv, TypeOK
    <3> QED
      BY <1>3, <3>1 DEF RewardsSwapEnd, SwapEnd, Pool
  <2>3. SavedBook' = Book /\ Held' = Held /\ Book' = Book
    BY <2>1, <2>2 DEF SavedBook, Book, Held, LoopTick
  <2> QED
    BY <2>1, <2>2, <2>3, Zenon DEF Shares!Commit, Held, Book, SavedBook, Saved, Running
<1>4. ASSUME RewardsSwapAbort
      PROVE  Shares!Abort /\ UNCHANGED unix_timestamp
  <2>1. /\ Saved(i)' = Saved(i) /\ Running(i)' = Saved(i)
        /\ swap'.in_progress = FALSE
    BY <1>0, <1>4, SwapAbortKeepsRewards
  <2>2. swap.in_progress /\ UNCHANGED <<pool, positions, unix_timestamp>>
    BY <1>4 DEF RewardsSwapAbort, SwapFail, SwapReject, SwapContinues
  <2>3. Book' = SavedBook /\ Held' = Held /\ SavedBook' = SavedBook
    BY <2>1, <2>2 DEF SavedBook, Book, Held, LoopTick
  <2> QED
    BY <2>1, <2>2, <2>3, Zenon DEF Shares!Abort, Held, Book, SavedBook, Saved, Running
<1> QED
  BY <1>1, <1>2, <1>3, <1>4

\* The clock: growth reaches exactly those in range.
LEMMA SharesElapse ==
  ASSUME RInv, IInv', Elapse
  PROVE  \E g \in Shares!Growth : Shares!Elapse(g)
<1> DEFINE i == WatchedReward
           g == Emitted(i)
           c == pool.tick_current_index
<1>0. i \in RewardIndex
  BY RewardsAssumption
<1>1. /\ RInv' /\ ~swap.in_progress
      /\ g \in U128
      /\ Saved(i)' = [p \in PositionId |->
            IF EarningAt(positions[p], c) THEN Wrap(Saved(i)[p] + g) ELSE Saved(i)[p]]
      /\ Running(i)' = Saved(i)'
  BY <1>0, ElapseAccrues
<1>2. /\ unix_timestamp' = unix_timestamp + 1
      /\ UNCHANGED <<pool, positions, swap>> /\ swap'.in_progress = swap.in_progress
  BY DEF Elapse, vars
<1>3. Running(i) = Saved(i) /\ LoopTick = c /\ LoopTick' = c
  BY <1>0, <1>1, <1>2, IdleBook DEF LoopTick
<1>4. g \in Shares!Growth
  <2>1. U128 = 0 .. Modulus - 1
    BY U128Nat DEF U128, Modulus
  <2> HIDE DEF g
  <2> QED
    BY <1>1, <2>1 DEF Shares!Growth
<1> HIDE DEF g, c, i
<1>5. Held' = Held
  BY <1>2 DEF Held
<1>6. Book' = [Book EXCEPT !.unclaimed =
         [p \in PositionId |->
             IF Held[p].live /\ Held[p].lower <= Book.tick /\ Book.tick < Held[p].upper
             THEN (@[p] + g) % Modulus ELSE @[p]]]
  <2>1. Book = [tick |-> c, unclaimed |-> Saved(i)]
    BY <1>3 DEF Book, i
  <2>2. Book' = [tick |-> c, unclaimed |-> Saved(i)']
    BY <1>1, <1>3 DEF Book, i
  <2>3. Saved(i)' = [p \in PositionId |->
             IF Held[p].live /\ Held[p].lower <= c /\ c < Held[p].upper
             THEN (Saved(i)[p] + g) % Modulus ELSE Saved(i)[p]]
    BY <1>1 DEF Held, EarningAt, Wrap, CounterSize, Modulus
  <2> QED
    BY <2>1, <2>2, <2>3
<1>7. SavedBook' = Book'
  BY <1>1, <1>2, <1>3 DEF SavedBook, Book, i, c
<1>8. Shares!Elapse(g)
  BY <1>1, <1>2, <1>5, <1>6, <1>7, Zenon
  DEF Shares!Elapse, Shares!Earns, Held, Book, SavedBook, Saved, Running
<1> QED
  BY <1>4, <1>8

\* A new pool has nobody earning.
LEMMA SharesInit == RewardsInit => Shares!Init /\ unix_timestamp \in Nat
<1> SUFFICES ASSUME RewardsInit PROVE Shares!Init /\ unix_timestamp \in Nat
  OBVIOUS
<1>1. /\ IInv /\ swap = NoSwap /\ loop = rewards /\ unix_timestamp = 1
      /\ positions = [p \in PositionId |-> ClosedPosition]
  BY InitInv DEF RewardsInit, Init
<1>2. /\ pool.tick_current_index \in CurrentTick
      /\ LoopTick = pool.tick_current_index
      /\ swap.in_progress = FALSE
  BY <1>1, PositionsPlaced DEF AllPlaced, LoopTick, NoSwap
<1>3. /\ Saved(WatchedReward) = [p \in PositionId |-> 0]
      /\ Running(WatchedReward) = Saved(WatchedReward)
  BY <1>1, <1>2 DEF Saved, Running, Unclaimed, ClosedPosition
<1>4. /\ Book \in [tick: CurrentTick, unclaimed: {[p \in PositionId |-> 0]}]
      /\ SavedBook = Book
  BY <1>2, <1>3 DEF Book, SavedBook
<1>5. Held \in [PositionId -> [live: {FALSE}, lower: CurrentTick, upper: CurrentTick]]
  <2>1. MIN_TICK_INDEX \in CurrentTick
    BY TickAssumption DEF CurrentTick
  <2>2. \A p \in PositionId :
          Held[p] = [live |-> FALSE, lower |-> MIN_TICK_INDEX, upper |-> MIN_TICK_INDEX]
    <3>1. ASSUME NEW p \in PositionId
          PROVE  /\ (positions[p].liquidity > 0) = FALSE
                 /\ positions[p].tick_lower_index = MIN_TICK_INDEX
                 /\ positions[p].tick_upper_index = MIN_TICK_INDEX
      BY <1>1 DEF ClosedPosition
    <3> QED
      BY <3>1, Zenon DEF Held
  <2> QED
    BY <2>1, <2>2 DEF Held
<1>6. Shares!Init
  BY <1>2, <1>4, <1>5, Zenon DEF Shares!Init, Held, Book, SavedBook, Saved, Running
<1> QED
  BY <1>1, <1>6

\* Every step is a step of RewardShares or leaves what it speaks of alone.
LEMMA SharesStep ==
  RInv /\ [RewardsNext]_<<vars, rewardVars>>
     => [Shares!RewardsNext]_<<Shares!vars, unix_timestamp>>
<1> SUFFICES ASSUME RInv, [RewardsNext]_<<vars, rewardVars>>
             PROVE  Shares!RewardsNext \/ UNCHANGED <<Shares!vars, unix_timestamp>>
  BY Zenon
<1>1. IInv' /\ RInv'
  BY PoolInvNext, RewardsNextInv
<1>2. CASE KeepsGrowth
  BY <1>1, <1>2, SharesStutter
<1>3. ASSUME NEW p \in PositionId, MovesEmpty(p)
      PROVE  Shares!RewardsNext
  BY <1>1, <1>3, SharesEmpty, Zenon DEF Shares!RewardsNext
<1>4. ASSUME NEW p \in PositionId, Settles(p)
      PROVE  Shares!RewardsNext
  <2>1. /\ \A i \in RewardIndex :
              Saved(i)' = [Saved(i) EXCEPT ![p] = 0] /\ Running(i)' = Saved(i)'
        /\ ~swap.in_progress
        /\ UNCHANGED <<swap, unix_timestamp>>
        /\ pool'.tick_current_index = pool.tick_current_index
        /\ \A q \in PositionId \ {p} : positions'[q] = positions[q]
    BY <1>1, <1>4, SettlesInv
  <2>2. /\ Saved(WatchedReward)' = [Saved(WatchedReward) EXCEPT ![p] = 0]
        /\ Running(WatchedReward)' = Saved(WatchedReward)'
    BY <2>1, RewardsAssumption
  <2>3. Shares!Claim(p)
    BY <1>1, <2>1, <2>2, SharesClaim
  <2>4. UNCHANGED unix_timestamp
    BY <2>1
  <2> QED
    BY <2>3, <2>4, Zenon DEF Shares!RewardsNext
<1>5. CASE StartsSwap \/ RewardsSwapStep \/ RewardsSwapEnd \/ RewardsSwapAbort
  BY <1>1, <1>5, SharesSwap, Zenon DEF Shares!RewardsNext
<1>6. CASE Elapse
  BY <1>1, <1>6, SharesElapse, Zenon DEF Shares!RewardsNext
<1> QED
  BY <1>2, <1>3, <1>4, <1>5, <1>6, RewardsSteps

-----------------------------------------------------------------------------
\* The invariant behind the theorems below: the pool's own, one set of books
\* outside a swap, books of a swap that are up to date, none ahead of the clock,
\* and nothing booked for a reward that is not initialized.
THEOREM RewardsInvariance == RewardsSpec => []RInv
<1>1. RewardsInit => RInv
  BY RewardsInitInv
<1>2. RInv /\ [RewardsNext]_<<vars, rewardVars>> => RInv'
  BY RewardsNextInv
<1> QED
  BY <1>1, <1>2, PTL DEF RewardsSpec

\* Rewards never change what the pool does: every behaviour of the pool with its
\* rewards is one of the pool without them.
THEOREM RewardsRefineLiquidity == RewardsSpec => Spec
<1>1. RewardsInit => Init
  BY DEF RewardsInit
<1>2. [RewardsNext]_<<vars, rewardVars>> => [Next]_vars
  BY RewardsStepIsPoolStep
<1> QED
  BY <1>1, <1>2, PTL DEF RewardsSpec, Spec

\* Every reward field keeps its width: in particular a vault is never asked for
\* more than it holds (calculate_collect_reward).
THEOREM RewardsTypeCorrect == RewardsSpec => []RewardsTypeOK
<1>1. RInv => RewardsTypeOK
  BY DEF RInv
<1> QED
  BY RewardsInvariance, <1>1, PTL

\* next_pool_reward_infos, next_reward_growths_inside and next_tick_cross_update
\* implement RewardShares: a reward accrues with the clock, to the positions in
\* range at the time, however late and by whichever instruction the pool is
\* brought up to date.
THEOREM RewardsAreSharedHolds == RewardsSpec => RewardsAreShared
<1>1. RewardsInit => Shares!Init /\ unix_timestamp \in Nat
  BY SharesInit
<1>2. RInv /\ [RewardsNext]_<<vars, rewardVars>>
        => [Shares!RewardsNext]_<<Shares!vars, unix_timestamp>>
  BY SharesStep
<1> QED
  BY RewardsInvariance, <1>1, <1>2, PTL DEF RewardsSpec, RewardsAreShared, Shares!RewardsSpec

\* What an update credits a position with, of each reward.
Credit(p, i) == RewardDelta(positions[p].liquidity, Saved(i)[p])

\* An update adds it to what the position is owed, and touches nobody else.
LEMMA SettlesOwed ==
  ASSUME RInv, NEW p \in PositionId, Settles(p)
  PROVE  /\ UNCHANGED vaults
         /\ \A i \in RewardIndex :
               /\ Credit(p, i) \in Nat
               /\ position_rewards'[p][i].amount_owed
                     = (position_rewards[p][i].amount_owed + Credit(p, i)) % (MAX_U64 + 1)
               /\ \A q \in PositionId \ {p} :
                     position_rewards'[q][i] = position_rewards[q][i]
<1>1. /\ positions[p].open /\ UNCHANGED vaults
      /\ UpdatePositionRewards(p, NextInfos(rewards, pool.liquidity))
  BY DEF Settles, UpdateFeesAndRewards, RewardsIncreaseLiquidity, RewardsDecreaseLiquidity,
         IncreaseLiquidity, DecreaseLiquidity, ModifyLiquidity, RewardsModifyLiquidity
<1>2. ASSUME NEW i \in RewardIndex PROVE Credit(p, i) \in Nat
  <2>1. positions[p].liquidity \in Nat
    BY PositionTypes, PositionsAreAccounts DEF RInv
  <2>2. Saved(i)[p] \in U128
    BY UnclaimedNow DEF Known
  <2> QED
    BY <2>1, <2>2, U128Number, RewardDeltaRounds DEF Credit
<1> QED
  BY <1>1, <1>2, UpdateSettles DEF Credit

\* next_position_modify_liquidity_update and calculate_collect_reward: what a
\* vault could not pay stays owed, and nothing else makes a debt smaller, except a
\* sum that wraps.
THEOREM ShortPaymentRememberedHolds == RewardsSpec => ShortPaymentRemembered
<1> DEFINE Remembered ==
      \A p \in PositionId, i \in RewardIndex :
          LET before == position_rewards[p][i].amount_owed
              after == position_rewards'[p][i].amount_owed
          IN  after < before =>
                \/ vaults'[i] = vaults[i] - (before - after)
                \/ before + RewardDelta(positions[p].liquidity,
                       Unclaimed(rewards, i, pool.tick_current_index)[p]) > MAX_U64
<1>1. RInv /\ [RewardsNext]_<<vars, rewardVars>>
        => [Remembered]_<<vars, rewardVars>>
  <2> SUFFICES ASSUME RInv, [RewardsNext]_<<vars, rewardVars>>,
                      NEW p \in PositionId, NEW i \in RewardIndex,
                      position_rewards'[p][i].amount_owed
                         < position_rewards[p][i].amount_owed
               PROVE  \/ vaults'[i] = vaults[i] - (position_rewards[p][i].amount_owed
                                           - position_rewards'[p][i].amount_owed)
                      \/ position_rewards[p][i].amount_owed + Credit(p, i) > MAX_U64
    BY DEF Credit, Saved
  <2> DEFINE before == position_rewards[p][i].amount_owed
             after == position_rewards'[p][i].amount_owed
  <2>1. /\ before \in Nat /\ vaults[i] \in Nat /\ MAX_U64 \in Nat
        /\ position_rewards \in [PositionId -> [RewardIndex -> PositionRewardInfo]]
        /\ vaults \in [RewardIndex -> U64]
    <3>1. vaults \in [RewardIndex -> U64] /\ RewardsTypeOK
      BY DEF RInv, RewardsTypeOK
    <3> QED
      BY <3>1, PositionRewardTypes, RewardsAssumption DEF RewardsTypeOK, U64
  <2>2. position_rewards' # position_rewards
    BY <2>1
  <2>3. ASSUME NEW q \in PositionId, NEW j \in RewardIndex, CollectReward(q, j)
        PROVE  vaults'[i] = vaults[i] - (before - after)
    <3> DEFINE owed == position_rewards[q][j].amount_owed
               paid_now == IF owed > vaults[j] THEN vaults[j] ELSE owed
    <3>1. /\ position_rewards' = [position_rewards EXCEPT
                 ![q][j].amount_owed = OwedAfter(owed, vaults[j])]
          /\ vaults' = [vaults EXCEPT ![j] = @ - paid_now]
      BY <2>3 DEF CollectReward
    <3>2. q = p /\ j = i
      BY <2>1, <3>1 DEF PositionRewardInfo
    <3>3. after = OwedAfter(before, vaults[i])
      BY <2>1, <3>1, <3>2 DEF PositionRewardInfo
    <3>4. vaults'[i] = vaults[i] - (IF before > vaults[i] THEN vaults[i] ELSE before)
      BY <2>1, <3>1, <3>2
    <3> HIDE DEF before, after
    <3> QED
      BY <2>1, <3>3, <3>4 DEF OwedAfter
  <2>4. ASSUME NEW q \in PositionId, MovesEmpty(q)
        PROVE  FALSE
    <3>1. \/ UNCHANGED position_rewards
          \/ /\ position_rewards[q][i].amount_owed = 0
             /\ position_rewards' = [position_rewards EXCEPT
                   ![q] = [j \in RewardIndex |-> NewPositionReward]]
      BY <2>4 DEF MovesEmpty, RewardsClosePosition, RewardsOpenPosition, rewardVars
    <3>2. after \in {before, 0} /\ (p = q => before = 0) /\ (p # q => after = before)
      BY <2>1, <2>2, <3>1 DEF NewPositionReward
    <3> QED
      BY <2>1, <3>2
  <2>5. ASSUME NEW q \in PositionId, Settles(q)
        PROVE  before + Credit(p, i) > MAX_U64
    <3>1. /\ Credit(q, i) \in Nat
          /\ position_rewards'[q][i].amount_owed
                = (position_rewards[q][i].amount_owed + Credit(q, i)) % (MAX_U64 + 1)
          /\ q # p => after = before
      BY <2>5, SettlesOwed
    <3>2. q = p
      BY <2>1, <3>1
    <3>3. Credit(p, i) \in Nat /\ after = (before + Credit(p, i)) % (MAX_U64 + 1)
      BY <3>1, <3>2
    <3> DEFINE sum == before + Credit(p, i)
    <3>4. sum \in Nat /\ sum >= before
      BY <2>1, <3>3
    <3>5. ASSUME sum <= MAX_U64 PROVE sum % (MAX_U64 + 1) = sum
      BY <2>1, <3>4, <3>5, ModSmall
    <3>6. after < before
      OBVIOUS
    <3> HIDE DEF before, after
    <3> QED
      BY <2>1, <3>3, <3>4, <3>5, <3>6
  <2>6. CASE KeepsGrowth
    <3>1. \/ UNCHANGED position_rewards
          \/ \E q \in PositionId, j \in RewardIndex : CollectReward(q, j)
      BY <2>6 DEF KeepsGrowth, rewardVars, FundReward, InitializeReward, SetRewardEmissions
    <3> QED
      BY <2>2, <2>3, <3>1
  <2>7. ASSUME StartsSwap \/ RewardsSwapStep \/ RewardsSwapEnd \/ RewardsSwapAbort \/ Elapse
        PROVE  FALSE
    BY <2>2, <2>7 DEF StartsSwap, RewardsSwapStart, RewardsSwapStep, RewardsSwapEnd,
                      RewardsSwapAbort, Elapse
  <2> QED
    BY <2>4, <2>5, <2>6, <2>7, RewardsSteps
<1>2. RewardsSpec => [][RewardsNext]_<<vars, rewardVars>>
  BY DEF RewardsSpec
<1>3. RewardsSpec => [][Remembered]_<<vars, rewardVars>>
  BY RewardsInvariance, <1>1, <1>2, PTL
<1> QED
  BY <1>3 DEF ShortPaymentRemembered

-----------------------------------------------------------------------------
\* Emissions are enough.

\* The growth a position could claim if no growth were pending, and what all
\* positions are worth with it, and with what is pending.
Booked(i) ==
    Dues(ticks, RewardGrowth(rewards, i, 0), positions, Checkpoints(i),
         pool.tick_current_index)

BookedWorth(i) == Total(Worth(Q64, Debts(i), positions, Booked(i)))
SavedWorth(i) == Total(Worth(Q64, Debts(i), positions, Saved(i)))

Rate(i) == rewards.infos[i].emissions_per_second_x64

\* What was paid and what is booked, and the emissions that are not booked yet.
InBudget(i) ==
    Q64 * paid[i] + BookedWorth(i) + Behind(rewards) * Rate(i) <= emitted[i]

BInv ==
    /\ RInv
    /\ emitted \in [RewardIndex -> Nat]
    /\ paid \in [RewardIndex -> Nat]
    /\ \A i \in RewardIndex : Running(i) = Saved(i) /\ InBudget(i)

\* All of these are numbers, and books that are up to date book everything.
Priced ==
    \A i \in RewardIndex :
       /\ WorthTypes(Q64, Debts(i), positions, Booked(i))
       /\ WorthTypes(Q64, Debts(i), positions, Saved(i))
       /\ BookedWorth(i) \in Nat /\ SavedWorth(i) \in Nat
       /\ Rate(i) \in Nat /\ Behind(rewards) \in Nat
       /\ \A p \in PositionId : Debts(i)[p] \in Nat
       /\ rewards.updated = unix_timestamp =>
             BookedWorth(i) = SavedWorth(i) /\ Behind(rewards) = 0

LEMMA PricedNow == RInv => Priced
<1> SUFFICES ASSUME RInv, NEW i \in RewardIndex
             PROVE  /\ WorthTypes(Q64, Debts(i), positions, Booked(i))
                    /\ WorthTypes(Q64, Debts(i), positions, Saved(i))
                    /\ BookedWorth(i) \in Nat /\ SavedWorth(i) \in Nat
                    /\ Rate(i) \in Nat /\ Behind(rewards) \in Nat
                    /\ \A p \in PositionId : Debts(i)[p] \in Nat
                    /\ rewards.updated = unix_timestamp =>
                          BookedWorth(i) = SavedWorth(i) /\ Behind(rewards) = 0
  BY DEF Priced
<1>1. Known /\ UpToDate /\ IInv
  BY UnclaimedNow, UpToDateNow DEF RInv
<1>2. /\ rewards \in Rewards /\ Rate(i) \in Nat /\ Behind(rewards) \in Nat
      /\ Counts(RewardGrowth(rewards, i, 0))
  BY BehindTypes, BookTypes, RewardGrowthCounts DEF Rate
<1>3. \A p \in PositionId : Debts(i)[p] \in Nat
  BY PositionRewardTypes DEF RInv, Debts
<1>4. Booked(i) \in [PositionId -> U128]
  <2>1. Placed(positions) /\ pool.tick_current_index \in Int
    BY <1>1, PositionsPlaced DEF AllPlaced
  <2>2. Checkpoints(i) \in [PositionId -> U128]
    BY <1>1 DEF Known
  <2> QED
    BY <1>2, <2>1, <2>2, DuesOf DEF Booked
<1>5. /\ WorthTypes(Q64, Debts(i), positions, Booked(i))
      /\ WorthTypes(Q64, Debts(i), positions, Saved(i))
  BY <1>1, <1>3, <1>4, RewardsAssumption DEF WorthTypes, Known
<1>6. BookedWorth(i) \in Nat /\ SavedWorth(i) \in Nat
  BY <1>5, WorthType DEF BookedWorth, SavedWorth
<1>7. ASSUME rewards.updated = unix_timestamp
      PROVE  BookedWorth(i) = SavedWorth(i) /\ Behind(rewards) = 0
  <2>1. Booked(i) = Saved(i)
    BY <1>1, <1>7 DEF Known, UpToDate, Booked
  <2>2. Behind(rewards) = 0
    BY <1>1, <1>2, <1>7, NothingPending
  <2> QED
    BY <2>1, <2>2 DEF BookedWorth, SavedWorth
<1> QED
  BY <1>2, <1>3, <1>5, <1>6, <1>7

LEMMA PricedNext == RInv' => Priced'
BY PricedNow, PTL

\* What is pending is worth no more than what was emitted since: growth rounds
\* down, and reaches the liquidity in range, which is the pool's.
LEMMA ClaimsInBudget ==
  ASSUME BInv, NEW i \in RewardIndex
  PROVE  Q64 * paid[i] + SavedWorth(i) <= emitted[i]
<1> DEFINE c == pool.tick_current_index
           J == Checkpoints(i)
           old == RewardGrowth(rewards, i, 0)
           new == SavedGrowth(i)
           P == Pending(rewards, i)
           G == rewards.infos[i].growth_global_x64
<1>1. Known /\ Priced /\ IInv /\ RInv
  BY UnclaimedNow, PricedNow DEF BInv, RInv
<1>2. /\ rewards \in Rewards /\ Behind(rewards) \in Nat /\ Rate(i) \in Nat
      /\ G \in U128 /\ G \in Int
      /\ Counts(old) /\ Counts(new) /\ c \in Int /\ J \in [PositionId -> U128]
  BY <1>1, BehindTypes, BookTypes, RewardGrowthCounts DEF Known, Rate
<1>3. P \in Nat /\ pool.liquidity * P <= Behind(rewards) * Rate(i)
  BY <1>1, <1>2, NextInfosOf, Zenon DEF Rate
<1>4. new.growth = Wrap(old.growth + P)
  <2>1. new.growth = Wrap(G + P) /\ old.growth = Wrap(G + 0)
    BY DEF SavedGrowth, RewardGrowth
  <2> HIDE DEF G
  <2>2. G + 0 = G /\ Wrap(G) = G
    BY <1>2, WrapFits
  <2> QED
    BY <2>1, <2>2
<1>5. Accrues(ticks, old, new, c, c, P)
  <2>1. \A v \in UsableTicks : new.outside[v] = old.outside[v]
    BY DEF SavedGrowth, RewardGrowth
  <2> HIDE DEF old, new, P, c
  <2> QED
    BY <1>2, <1>3, <1>4, <2>1 DEF Accrues, TradesSides
<1> HIDE DEF old, new, P, J, c
<1>6. Saved(i) = [p \in PositionId |->
                    IF EarningAt(positions[p], c) THEN Wrap(Booked(i)[p] + P)
                    ELSE Booked(i)[p]]
  <2>1. /\ Saved(i) = Dues(ticks, new, positions, J, c)
        /\ Booked(i) = Dues(ticks, old, positions, J, c)
    BY <1>1 DEF Known, Booked, old, new, J, c
  <2> QED
    BY <1>1, <1>2, <1>5, <2>1, DuesAccrue
<1>7. SavedWorth(i) <= BookedWorth(i) + P * Total(ActiveAt(positions, c))
  BY <1>1, <1>2, <1>3, <1>6, WorthAccrues DEF Priced, SavedWorth, BookedWorth
<1>8. P * Total(ActiveAt(positions, c)) <= Behind(rewards) * Rate(i)
  <2>1. pool.liquidity = Total(ActiveAt(positions, c)) /\ pool.liquidity \in Nat
    <3>1. pool.liquidity \in U128
      BY <1>1 DEF IInv, TypeOK, Pool
    <3> QED
      BY <1>1, <3>1, U128Number DEF IInv, ActiveLiquidity, c
  <2>2. P * pool.liquidity = pool.liquidity * P
    BY <1>3, <2>1
  <2> QED
    BY <1>3, <2>1, <2>2
<1> DEFINE A == P * Total(ActiveAt(positions, c))
           E == Behind(rewards) * Rate(i)
           B == BookedWorth(i)
           S == SavedWorth(i)
           Q == Q64 * paid[i]
<1>9. /\ A \in Int /\ E \in Nat /\ B \in Nat /\ S \in Nat /\ Q \in Nat /\ emitted[i] \in Nat
      /\ Q + B + E <= emitted[i] /\ S <= B + A /\ A <= E
  <2>1. A \in Int
    <3>1. pool.liquidity \in U128
      BY <1>1 DEF IInv, TypeOK, Pool
    <3>2. pool.liquidity = Total(ActiveAt(positions, c))
      BY <1>1 DEF IInv, ActiveLiquidity, c
    <3> QED
      BY <1>3, <3>1, <3>2, U128Number
  <2>2. B \in Nat /\ S \in Nat
    BY <1>1 DEF Priced
  <2>3. E \in Nat
    BY <1>2
  <2>4. Q \in Nat /\ emitted[i] \in Nat
    BY RewardsAssumption DEF BInv
  <2>5. Q + B + E <= emitted[i]
    BY DEF BInv, InBudget
  <2> QED
    BY <1>7, <1>8, <2>1, <2>2, <2>3, <2>4, <2>5
<1> HIDE DEF A, E, B, S, Q
<1>10. Q + S <= emitted[i]
  BY <1>9
<1> QED
  BY <1>10 DEF Q, S

\* The clock moves one second at a time.
LEMMA ClockSteps ==
  ASSUME [RewardsNext]_<<vars, rewardVars>>
  PROVE  unix_timestamp' = unix_timestamp \/ unix_timestamp' = unix_timestamp + 1
<1>1. ASSUME KeepsGrowth PROVE UNCHANGED unix_timestamp
  BY <1>1 DEF KeepsGrowth, rewardVars, CollectReward, FundReward, InitializeReward,
              SetRewardEmissions
<1>2. ASSUME NEW p \in PositionId, MovesEmpty(p) PROVE UNCHANGED unix_timestamp
  BY <1>2 DEF MovesEmpty, RewardsClosePosition, RewardsOpenPosition, rewardVars
<1>3. ASSUME NEW p \in PositionId, Settles(p) PROVE UNCHANGED unix_timestamp
  BY <1>3 DEF Settles, UpdateFeesAndRewards, RewardsIncreaseLiquidity,
              RewardsDecreaseLiquidity, RewardsModifyLiquidity
<1>4. ASSUME StartsSwap \/ RewardsSwapStep \/ RewardsSwapEnd \/ RewardsSwapAbort
      PROVE  UNCHANGED unix_timestamp
  BY <1>4 DEF StartsSwap, RewardsSwapStart, RewardsSwapStep, RewardsSwapEnd,
              RewardsSwapAbort
<1>5. Elapse => unix_timestamp' = unix_timestamp + 1
  BY DEF Elapse
<1> QED
  BY <1>1, <1>2, <1>3, <1>4, <1>5, RewardsSteps

\* How the two records grow with a step.
Tallied ==
    /\ emitted' \in [RewardIndex -> Nat]
    /\ paid' \in [RewardIndex -> Nat]
    /\ \A i \in RewardIndex :
          /\ unix_timestamp' = unix_timestamp => emitted'[i] = emitted[i]
          /\ unix_timestamp' = unix_timestamp + 1 => emitted'[i] = emitted[i] + Rate(i)
          /\ paid'[i] = IF vaults'[i] < vaults[i] THEN paid[i] + (vaults[i] - vaults'[i])
                        ELSE paid[i]

LEMMA TalliedNext ==
  ASSUME BInv, RInv', BudgetNext
  PROVE  Tallied
<1>1. /\ emitted' = [i \in RewardIndex |->
            emitted[i] + (unix_timestamp' - unix_timestamp) * Rate(i)]
      /\ paid' = [i \in RewardIndex |->
            IF vaults'[i] < vaults[i] THEN paid[i] + vaults[i] - vaults'[i] ELSE paid[i]]
  BY DEF BudgetNext, Rate
<1>2. unix_timestamp' = unix_timestamp \/ unix_timestamp' = unix_timestamp + 1
  BY ClockSteps DEF BudgetNext
<1>3. unix_timestamp \in Nat
  BY RewardsAssumption DEF BInv, RInv, RewardsTypeOK
<1>4. ASSUME NEW i \in RewardIndex
      PROVE  /\ emitted[i] \in Nat /\ paid[i] \in Nat /\ Rate(i) \in Nat
             /\ vaults[i] \in Nat /\ vaults'[i] \in Nat
  <2>1. emitted[i] \in Nat /\ paid[i] \in Nat /\ Rate(i) \in Nat
    BY PricedNow DEF BInv, Priced
  <2>2. vaults[i] \in U64 /\ vaults'[i] \in U64
    BY DEF BInv, RInv, RewardsTypeOK
  <2> QED
    BY <2>1, <2>2, RewardsAssumption DEF U64
<1>5. ASSUME NEW i \in RewardIndex
      PROVE  /\ emitted'[i] \in Nat
             /\ unix_timestamp' = unix_timestamp => emitted'[i] = emitted[i]
             /\ unix_timestamp' = unix_timestamp + 1 => emitted'[i] = emitted[i] + Rate(i)
  <2>1. emitted'[i] = emitted[i] + (unix_timestamp' - unix_timestamp) * Rate(i)
    BY <1>1
  <2>2. CASE unix_timestamp' = unix_timestamp
    <3>1. unix_timestamp' - unix_timestamp = 0 /\ unix_timestamp' # unix_timestamp + 1
      BY <1>3, <2>2
    <3>2. 0 * Rate(i) = 0
      BY <1>4
    <3> QED
      BY <1>4, <2>1, <2>2, <3>1, <3>2
  <2>3. CASE unix_timestamp' = unix_timestamp + 1
    <3>1. unix_timestamp' - unix_timestamp = 1 /\ unix_timestamp' # unix_timestamp
      BY <1>3, <2>3
    <3>2. 1 * Rate(i) = Rate(i)
      BY <1>4
    <3> QED
      BY <1>4, <2>1, <2>3, <3>1, <3>2
  <2> QED
    BY <1>2, <2>2, <2>3
<1>6. ASSUME NEW i \in RewardIndex
      PROVE  /\ paid'[i] \in Nat
             /\ paid'[i] = IF vaults'[i] < vaults[i] THEN paid[i] + (vaults[i] - vaults'[i])
                           ELSE paid[i]
  BY <1>1, <1>4
<1>7. emitted' \in [RewardIndex -> Nat] /\ paid' \in [RewardIndex -> Nat]
  <2>1. /\ emitted' = [i \in RewardIndex |-> emitted'[i]]
        /\ paid' = [i \in RewardIndex |-> paid'[i]]
    BY <1>1
  <2> QED
    BY <1>5, <1>6, <2>1
<1> QED
  BY <1>5, <1>6, <1>7 DEF Tallied

\* A step that brings the pool up to date, and lets nobody gain.
LEMMA BudgetSynced ==
  ASSUME BInv, RInv', Tallied, NEW i \in RewardIndex, UNCHANGED unix_timestamp,
         vaults'[i] = vaults[i], rewards'.updated = unix_timestamp',
         SavedWorth(i)' <= SavedWorth(i)
  PROVE  InBudget(i)'
<1>1. Priced /\ Priced'
  BY PricedNow, PricedNext DEF BInv
<1>2. /\ BookedWorth(i)' = SavedWorth(i)' /\ Behind(rewards)' = 0
      /\ Rate(i)' \in Nat /\ SavedWorth(i) \in Nat /\ SavedWorth(i)' \in Nat
  BY <1>1 DEF Priced
<1>3. paid'[i] = paid[i] /\ emitted'[i] = emitted[i]
  <2>1. vaults[i] \in Nat
    <3>1. vaults[i] \in U64
      BY DEF BInv, RInv, RewardsTypeOK
    <3> QED
      BY <3>1, RewardsAssumption DEF U64
  <2> QED
    BY <2>1 DEF Tallied
<1>4. Q64 * paid[i] + SavedWorth(i) <= emitted[i]
  BY ClaimsInBudget
<1>5. Q64 * paid[i] \in Nat /\ emitted[i] \in Nat
  BY RewardsAssumption DEF BInv
<1> DEFINE Q == Q64 * paid[i]
           S == SavedWorth(i)
           T == SavedWorth(i)'
           E == Behind(rewards)' * Rate(i)'
<1>6. E = 0
  BY <1>2
<1>7. Q + S <= emitted[i] /\ T <= S /\ Q \in Nat /\ S \in Nat /\ T \in Nat
  BY <1>2, <1>4, <1>5
<1> HIDE DEF Q, S, T, E
<1>8. Q + T + E <= emitted[i]
  BY <1>5, <1>6, <1>7
<1> QED
  BY <1>2, <1>3, <1>8 DEF InBudget, Q, T, E

\* A step that leaves the pool as far behind as it was, and lets nobody gain.
LEMMA BudgetKept ==
  ASSUME BInv, RInv', Tallied, NEW i \in RewardIndex, UNCHANGED unix_timestamp,
         rewards'.updated = rewards.updated, Rate(i)' = Rate(i),
         Q64 * paid'[i] + BookedWorth(i)' <= Q64 * paid[i] + BookedWorth(i)
  PROVE  InBudget(i)'
<1>1. Priced /\ Priced'
  BY PricedNow, PricedNext DEF BInv
<1>2. emitted'[i] = emitted[i] /\ Behind(rewards)' = Behind(rewards)
  BY DEF Tallied, Behind
<1> DEFINE Q == Q64 * paid[i]
           R == Q64 * paid'[i]
           S == BookedWorth(i)
           T == BookedWorth(i)'
           E == Behind(rewards) * Rate(i)
<1>3. /\ Q \in Nat /\ R \in Nat /\ S \in Nat /\ T \in Nat /\ E \in Nat /\ emitted[i] \in Nat
      /\ R + T <= Q + S /\ Q + S + E <= emitted[i]
  <2>1. S \in Nat /\ T \in Nat /\ E \in Nat
    BY <1>1 DEF Priced
  <2>2. Q \in Nat /\ R \in Nat /\ emitted[i] \in Nat
    BY RewardsAssumption DEF BInv, Tallied
  <2>3. Q + S + E <= emitted[i]
    BY DEF BInv, InBudget
  <2> QED
    BY <2>1, <2>2, <2>3
<1>4. E = Behind(rewards)' * Rate(i)'
  BY <1>2
<1> HIDE DEF Q, R, S, T, E
<1>5. R + T + E <= emitted[i]
  BY <1>3
<1> QED
  BY <1>2, <1>4, <1>5 DEF InBudget, R, T, E

\* The same, of a step that pays nobody and touches no position with liquidity.
LEMMA BudgetUntouched ==
  ASSUME BInv, RInv', Tallied, NEW i \in RewardIndex, UNCHANGED <<unix_timestamp, ticks>>,
         pool'.tick_current_index = pool.tick_current_index,
         rewards'.updated = rewards.updated, Rate(i)' = Rate(i),
         rewards'.infos[i].growth_global_x64 = rewards.infos[i].growth_global_x64,
         \A t \in UsableTicks : rewards'.outside[t][i] = rewards.outside[t][i],
         ~(vaults'[i] < vaults[i]),
         \A p \in PositionId :
            \/ /\ positions[p].liquidity = 0 /\ positions'[p].liquidity = 0
               /\ Debts(i)'[p] <= Debts(i)[p]
            \/ /\ positions'[p] = positions[p] /\ Checkpoints(i)'[p] = Checkpoints(i)[p]
               /\ Debts(i)'[p] = Debts(i)[p]
  PROVE  InBudget(i)'
<1>1. Priced /\ Priced'
  BY PricedNow, PricedNext DEF BInv
<1>2. Booked(i)' = Booked(i)
  <2>1. RewardGrowth(rewards, i, 0)' = RewardGrowth(rewards, i, 0)
    BY DEF RewardGrowth
  <2> DEFINE J == Checkpoints(i)
             K == Checkpoints(i)'
             g == RewardGrowth(rewards, i, 0)
             c == pool.tick_current_index
  <2>2. /\ Booked(i) = Dues(ticks, g, positions, J, c)
        /\ Booked(i)' = Dues(ticks, g, positions', K, c)
    BY <2>1 DEF Booked
  <2>3. \A p \in PositionId :
           \/ positions[p].liquidity = 0 /\ positions'[p].liquidity = 0
           \/ positions'[p] = positions[p] /\ K[p] = J[p]
    OBVIOUS
  <2> HIDE DEF J, K, g, c
  <2> QED
    BY <2>2, <2>3, DuesSame
<1>3. BookedWorth(i)' <= BookedWorth(i)
  <2> DEFINE o == Debts(i)
             q == Debts(i)'
             u == Booked(i)
  <2>1. /\ WorthTypes(Q64, o, positions, u)
        /\ WorthTypes(Q64, q, positions', u)
    BY <1>1, <1>2 DEF Priced
  <2>2. /\ BookedWorth(i) = Total(Worth(Q64, o, positions, u))
        /\ BookedWorth(i)' = Total(Worth(Q64, q, positions', u))
    BY <1>2 DEF BookedWorth
  <2>3. \A p \in PositionId :
           \/ positions[p].liquidity = 0 /\ positions'[p].liquidity = 0 /\ q[p] <= o[p]
           \/ positions'[p] = positions[p] /\ q[p] = o[p]
    OBVIOUS
  <2> HIDE DEF o, q, u
  <2>4. ASSUME NEW p \in PositionId
        PROVE  Q64 * q[p] + positions'[p].liquidity * u[p]
                 <= Q64 * o[p] + positions[p].liquidity * u[p]
    <3>1. /\ o[p] \in Nat /\ q[p] \in Nat /\ u[p] \in Nat
          /\ positions[p].liquidity \in Nat /\ Q64 \in Nat
      BY <2>1, WorthType DEF WorthTypes
    <3>2. q[p] <= o[p] /\ positions'[p].liquidity = positions[p].liquidity
      BY <2>3, <3>1
    <3>3. Q64 * q[p] <= Q64 * o[p] /\ Q64 * q[p] \in Nat /\ Q64 * o[p] \in Nat
      BY <3>1, <3>2
    <3>4. positions[p].liquidity * u[p] \in Nat
      BY <3>1
    <3> QED
      BY <3>2, <3>3, <3>4
  <2>5. Total(Worth(Q64, q, positions', u)) <= Total(Worth(Q64, o, positions, u))
    BY <2>1, <2>4, WorthFalls
  <2> QED
    BY <2>2, <2>5
<1>4. Q64 * paid'[i] + BookedWorth(i)' <= Q64 * paid[i] + BookedWorth(i)
  <2>1. paid'[i] = paid[i]
    BY DEF Tallied
  <2>2. Q64 * paid[i] \in Nat /\ BookedWorth(i) \in Nat /\ BookedWorth(i)' \in Nat
    BY <1>1, RewardsAssumption DEF BInv, Priced
  <2> QED
    BY <1>3, <2>1, <2>2
<1> QED
  BY <1>4, BudgetKept

\* Nothing but the loop of a swap, or nothing at all.
LEMMA BudgetSame ==
  ASSUME BInv, RInv', Tallied,
         UNCHANGED <<unix_timestamp, ticks, pool, positions, rewards, position_rewards, vaults>>
  PROVE  \A i \in RewardIndex : InBudget(i)'
<1> SUFFICES ASSUME NEW i \in RewardIndex PROVE InBudget(i)'
  OBVIOUS
<1>1. /\ Rate(i)' = Rate(i) /\ Checkpoints(i)' = Checkpoints(i) /\ Debts(i)' = Debts(i)
  BY DEF Rate, Checkpoints, Debts
<1>2. ~(vaults'[i] < vaults[i])
  <2>1. vaults[i] \in U64
    BY DEF BInv, RInv, RewardsTypeOK
  <2> QED
    BY <2>1, RewardsAssumption DEF U64
<1> QED
  BY <1>1, <1>2, BudgetUntouched

\* collect_reward: what leaves the vault leaves the debts.
LEMMA CollectInBudget ==
  ASSUME BInv, RInv', Tallied, NEW p \in PositionId, NEW j \in RewardIndex,
         CollectReward(p, j), NEW i \in RewardIndex
  PROVE  InBudget(i)'
<1> DEFINE owed == position_rewards[p][j].amount_owed
           x == IF owed > vaults[j] THEN vaults[j] ELSE owed
<1>1. /\ UNCHANGED <<unix_timestamp, ticks, pool, positions, rewards>>
      /\ position_rewards' = [position_rewards EXCEPT
            ![p][j].amount_owed = OwedAfter(owed, vaults[j])]
      /\ vaults' = [vaults EXCEPT ![j] = @ - x]
  BY DEF CollectReward, vars
<1>2. /\ position_rewards \in [PositionId -> [RewardIndex -> PositionRewardInfo]]
      /\ vaults \in [RewardIndex -> U64] /\ vaults[i] \in Nat /\ vaults[j] \in Nat
      /\ owed \in Nat
  <2>1. RewardsTypeOK /\ vaults \in [RewardIndex -> U64]
    BY DEF BInv, RInv, RewardsTypeOK
  <2> QED
    BY <2>1, PositionRewardTypes, RewardsAssumption DEF RewardsTypeOK, U64
<1>3. Rate(i)' = Rate(i) /\ Checkpoints(i)' = Checkpoints(i)
  <2>1. \A q \in PositionId : position_rewards'[q][i].growth_inside_checkpoint
                                 = position_rewards[q][i].growth_inside_checkpoint
    BY <1>1, <1>2 DEF PositionRewardInfo
  <2> QED
    BY <1>1, <2>1 DEF Rate, Checkpoints
<1>4. CASE i # j
  <2>1. vaults'[i] = vaults[i]
    BY <1>1, <1>2, <1>4
  <2>2. Debts(i)' = Debts(i)
    <3>1. \A q \in PositionId : position_rewards'[q][i] = position_rewards[q][i]
      BY <1>1, <1>2, <1>4
    <3> QED
      BY <3>1 DEF Debts
  <2> QED
    BY <1>1, <1>2, <1>3, <2>1, <2>2, BudgetUntouched
<1>5. CASE i = j
  <2>1. /\ x \in Nat /\ OwedAfter(owed, vaults[j]) = owed - x
        /\ vaults'[i] = vaults[i] - x
    BY <1>1, <1>2, <1>5 DEF OwedAfter
  <2> HIDE DEF x
  <2>2. /\ Debts(i)'[p] = Debts(i)[p] - x
        /\ \A q \in PositionId \ {p} : Debts(i)'[q] = Debts(i)[q]
    <3>1. /\ position_rewards'[p][i].amount_owed = owed - x
          /\ \A q \in PositionId \ {p} : position_rewards'[q][i] = position_rewards[q][i]
      BY <1>1, <1>2, <1>5, <2>1 DEF PositionRewardInfo
    <3>2. Debts(i)'[p] = owed - x /\ Debts(i)[p] = owed
      BY <1>5, <3>1 DEF Debts
    <3> QED
      BY <3>1, <3>2 DEF Debts
  <2>3. paid'[i] = paid[i] + x
    <3>1. paid[i] \in Nat
      BY DEF BInv
    <3> QED
      BY <1>2, <2>1, <3>1 DEF Tallied
  <2>4. Booked(i)' = Booked(i)
    BY <1>1, <1>3 DEF Booked, RewardGrowth
  <2>5. Priced /\ Priced'
    BY PricedNow, PricedNext DEF BInv
  <2>6. BookedWorth(i)' = BookedWorth(i) - Q64 * x
    <3> DEFINE o == Debts(i)
               q == Debts(i)'
               u == Booked(i)
    <3>1. /\ WorthTypes(Q64, o, positions, u)
          /\ WorthTypes(Q64, q, positions, u)
      BY <1>1, <2>4, <2>5 DEF Priced
    <3>2. /\ BookedWorth(i) = Total(Worth(Q64, o, positions, u))
          /\ BookedWorth(i)' = Total(Worth(Q64, q, positions, u))
      BY <1>1, <2>4 DEF BookedWorth
    <3>3. q[p] = o[p] - x /\ \A r \in PositionId \ {p} : q[r] = o[r]
      BY <2>2
    <3> HIDE DEF o, q, u
    <3> QED
      BY <2>1, <3>1, <3>2, <3>3, WorthPaid
  <2>7. Q64 * paid'[i] + BookedWorth(i)' = Q64 * paid[i] + BookedWorth(i)
    <3>1. paid[i] \in Nat /\ Q64 \in Nat /\ BookedWorth(i) \in Nat
      BY <2>5, RewardsAssumption DEF BInv, Priced
    <3>2. Q64 * (paid[i] + x) = Q64 * paid[i] + Q64 * x
      BY <2>1, <3>1
    <3>3. Q64 * paid[i] \in Nat /\ Q64 * x \in Nat
      BY <2>1, <3>1
    <3> QED
      BY <2>3, <2>6, <3>1, <3>2, <3>3
  <2>8. Q64 * paid'[i] + BookedWorth(i)' <= Q64 * paid[i] + BookedWorth(i)
    <3>1. Q64 * paid[i] + BookedWorth(i) \in Int
      BY <2>5, RewardsAssumption DEF BInv, Priced
    <3> QED
      BY <2>7, <3>1
  <2> QED
    BY <1>1, <1>3, <2>8, BudgetKept
<1> QED
  BY <1>4, <1>5

\* A step that brings the pool up to date, and touches no position.
LEMMA BudgetRestarted ==
  ASSUME BInv, RInv', Tallied,
         UNCHANGED <<unix_timestamp, vaults, positions, position_rewards>>,
         rewards'.updated = unix_timestamp',
         \A i \in RewardIndex : Saved(i)' = Saved(i)
  PROVE  \A i \in RewardIndex : InBudget(i)'
<1> SUFFICES ASSUME NEW i \in RewardIndex PROVE InBudget(i)'
  OBVIOUS
<1>1. Debts(i)' = Debts(i)
  BY DEF Debts
<1>2. SavedWorth(i)' = SavedWorth(i)
  BY <1>1 DEF SavedWorth
<1>3. SavedWorth(i) \in Nat
  BY PricedNow DEF BInv, Priced
<1>4. SavedWorth(i)' <= SavedWorth(i) /\ vaults'[i] = vaults[i]
  BY <1>2, <1>3
<1> QED
  BY <1>4, BudgetSynced

\* initialize_reward, and a transfer to a vault.
LEMMA BudgetOfNewMoney ==
  ASSUME BInv, RInv', Tallied, NEW j \in RewardIndex,
         InitializeReward(j) \/ \E amount \in Deposits : FundReward(j, amount)
  PROVE  \A i \in RewardIndex : InBudget(i)'
<1> SUFFICES ASSUME NEW i \in RewardIndex PROVE InBudget(i)'
  OBVIOUS
<1>1. /\ UNCHANGED <<unix_timestamp, position_rewards>> /\ UNCHANGED vars
  BY DEF InitializeReward, FundReward
<1>2. /\ rewards \in Rewards /\ vaults \in [RewardIndex -> U64] /\ vaults[i] \in Nat
  <2>1. rewards \in Rewards /\ vaults \in [RewardIndex -> U64]
    BY DEF BInv, RInv, RewardsTypeOK
  <2> QED
    BY <2>1, RewardsAssumption DEF U64
<1>3. /\ rewards'.updated = rewards.updated /\ Rate(i)' = Rate(i)
      /\ rewards'.infos[i].growth_global_x64 = rewards.infos[i].growth_global_x64
      /\ \A t \in UsableTicks : rewards'.outside[t][i] = rewards.outside[t][i]
  <2>1. CASE InitializeReward(j)
    <3>1. rewards' = [rewards EXCEPT !.infos[j].initialized = TRUE]
      BY <2>1 DEF InitializeReward
    <3> QED
      BY <1>2, <3>1 DEF Rewards, RewardInfo, Rate
  <2>2. CASE \E amount \in Deposits : FundReward(j, amount)
    BY <2>2 DEF FundReward, Rate
  <2> QED
    BY <2>1, <2>2
<1>4. ~(vaults'[i] < vaults[i])
  <2>1. CASE InitializeReward(j)
    BY <1>2, <2>1 DEF InitializeReward
  <2>2. ASSUME NEW amount \in Deposits, FundReward(j, amount)
        PROVE  ~(vaults'[i] < vaults[i])
    <3>1. vaults' = [vaults EXCEPT ![j] = @ + amount] /\ amount \in Nat
      BY <2>2, RewardsAssumption DEF FundReward
    <3> QED
      BY <1>2, <3>1
  <2> QED
    BY <2>1, <2>2
<1>5. /\ UNCHANGED <<ticks, pool, positions>>
      /\ Checkpoints(i)' = Checkpoints(i) /\ Debts(i)' = Debts(i)
  BY <1>1 DEF vars, Checkpoints, Debts
<1> QED
  BY <1>1, <1>3, <1>4, <1>5, BudgetUntouched

LEMMA BudgetOfKept ==
  ASSUME BInv, RInv', IInv', Tallied, KeepsGrowth
  PROVE  \A i \in RewardIndex : InBudget(i)'
<1>1. CASE \/ \E start \in StartTicks : InitializeTickArray(start) /\ UNCHANGED rewardVars
           \/ UNCHANGED <<vars, rewardVars>>
  <2>1. UNCHANGED <<unix_timestamp, ticks, pool, positions, rewards, position_rewards, vaults>>
    BY <1>1 DEF InitializeTickArray, vars, rewardVars
  <2> QED
    BY <2>1, BudgetSame
<1>2. ASSUME NEW p \in PositionId, NEW j \in RewardIndex, CollectReward(p, j)
      PROVE  \A i \in RewardIndex : InBudget(i)'
  BY <1>2, CollectInBudget
<1>3. ASSUME NEW j \in RewardIndex,
             InitializeReward(j) \/ \E amount \in Deposits : FundReward(j, amount)
      PROVE  \A i \in RewardIndex : InBudget(i)'
  BY <1>3, BudgetOfNewMoney
<1>4. ASSUME NEW j \in RewardIndex, NEW emissions \in Emissions,
             SetRewardEmissions(j, emissions)
      PROVE  \A i \in RewardIndex : InBudget(i)'
  <2>1. /\ UNCHANGED <<unix_timestamp, vaults, positions, position_rewards>>
        /\ rewards'.updated = unix_timestamp'
    BY <1>4 DEF SetRewardEmissions, Sync, vars
  <2>2. \A i \in RewardIndex : Saved(i)' = Saved(i)
    BY KeepsGrowthInv DEF BInv
  <2> QED
    BY <2>1, <2>2, BudgetRestarted
<1> QED
  BY <1>1, <1>2, <1>3, <1>4 DEF KeepsGrowth

\* open_position and close_position: the account is empty, before and after.
LEMMA BudgetOfEmpty ==
  ASSUME BInv, RInv', Tallied, NEW p \in PositionId, MovesEmpty(p)
  PROVE  \A i \in RewardIndex : InBudget(i)'
<1> SUFFICES ASSUME NEW i \in RewardIndex PROVE InBudget(i)'
  OBVIOUS
<1>1. /\ IInv /\ positions \in [PositionId -> Position]
      /\ position_rewards \in [PositionId -> [RewardIndex -> PositionRewardInfo]]
      /\ vaults[i] \in U64 /\ vaults[i] \in Nat
  BY PositionsAreAccounts, RewardsAssumption DEF BInv, RInv, RewardsTypeOK, U64
<1>2. /\ UNCHANGED <<unix_timestamp, rewards, ticks, pool, vaults>>
      /\ positions[p].liquidity = 0 /\ positions'[p].liquidity = 0
      /\ \A q \in PositionId \ {p} :
            positions'[q] = positions[q] /\ position_rewards'[q] = position_rewards[q]
      /\ Debts(i)'[p] <= Debts(i)[p]
  <2>1. Debts(i)[p] \in Nat
    BY PositionRewardTypes DEF BInv, RInv, Debts
  <2>2. CASE RewardsClosePosition(p)
    <3>1. position_rewards'[p][i] = NewPositionReward
      BY <1>1, <2>2 DEF RewardsClosePosition
    <3>2. Debts(i)'[p] = 0
      BY <3>1 DEF Debts, NewPositionReward
    <3>3. Debts(i)'[p] <= Debts(i)[p]
      BY <2>1, <3>2
    <3> QED
      BY <1>1, <2>2, <3>3 DEF RewardsClosePosition, ClosePosition, ClosedPosition
  <2>3. CASE \E lower, upper \in UsableTicks : RewardsOpenPosition(p, lower, upper)
    <3>1. positions[p].liquidity = 0
      BY <1>1, <2>3
      DEF RewardsOpenPosition, OpenPosition, IInv, PositionsOK, WellFormed
    <3>2. UNCHANGED position_rewards
      BY <2>3 DEF RewardsOpenPosition, rewardVars
    <3>3. Debts(i)' = Debts(i)
      BY <3>2 DEF Debts
    <3>4. Debts(i)'[p] <= Debts(i)[p]
      BY <2>1, <3>3
    <3> QED
      BY <1>1, <2>3, <3>1, <3>2, <3>4 DEF RewardsOpenPosition, OpenPosition, rewardVars
  <2> QED
    BY <2>2, <2>3 DEF MovesEmpty
<1>3. /\ ~(vaults'[i] < vaults[i]) /\ Rate(i)' = Rate(i)
  BY <1>1, <1>2 DEF Rate
<1>4. \A q \in PositionId \ {p} :
         Checkpoints(i)'[q] = Checkpoints(i)[q] /\ Debts(i)'[q] = Debts(i)[q]
  BY <1>2 DEF Checkpoints, Debts
<1> QED
  BY <1>2, <1>3, <1>4, BudgetUntouched

\* An update pays no more than what the growth it settles was worth.
LEMMA BudgetOfSettled ==
  ASSUME BInv, RInv', IInv', Tallied, NEW p \in PositionId, Settles(p)
  PROVE  \A i \in RewardIndex : InBudget(i)'
<1> SUFFICES ASSUME NEW i \in RewardIndex PROVE InBudget(i)'
  OBVIOUS
<1>1. RInv /\ Priced /\ Priced'
  BY PricedNow, PricedNext DEF BInv
<1>2. /\ Saved(i)' = [Saved(i) EXCEPT ![p] = 0]
      /\ UNCHANGED unix_timestamp
      /\ \A r \in PositionId \ {p} : positions'[r] = positions[r]
  BY <1>1, SettlesInv
<1>3. /\ UNCHANGED vaults /\ Credit(p, i) \in Nat
      /\ position_rewards'[p][i].amount_owed
            = (position_rewards[p][i].amount_owed + Credit(p, i)) % (MAX_U64 + 1)
      /\ \A r \in PositionId \ {p} : position_rewards'[r][i] = position_rewards[r][i]
  BY <1>1, SettlesOwed
<1>4. rewards'.updated = unix_timestamp'
  BY <1>2 DEF Settles, UpdateFeesAndRewards, RewardsIncreaseLiquidity,
         RewardsDecreaseLiquidity, RewardsModifyLiquidity, Sync
<1> DEFINE o == Debts(i)
           q == Debts(i)'
           u == Saved(i)
           v == Saved(i)'
           d == Credit(p, i)
           l == positions[p].liquidity
<1>5. /\ WorthTypes(Q64, o, positions, u) /\ WorthTypes(Q64, q, positions', v)
      /\ SavedWorth(i) = Total(Worth(Q64, o, positions, u))
      /\ SavedWorth(i)' = Total(Worth(Q64, q, positions', v))
  BY <1>1 DEF Priced, SavedWorth
<1>6. /\ q[p] = (o[p] + d) % (MAX_U64 + 1)
      /\ \A r \in PositionId \ {p} : q[r] = o[r]
  BY <1>3 DEF Debts
<1>7. v[p] = 0 /\ \A r \in PositionId \ {p} : v[r] = u[r]
  <2>1. Saved(i) \in [PositionId -> U128]
    BY <1>1, UnclaimedNow DEF Known
  <2> QED
    BY <1>2, <2>1
<1>8. Q64 * d <= l * u[p] /\ d \in Nat
  <2>1. l \in Nat /\ u[p] \in Nat
    BY <1>5, WorthType
  <2> QED
    BY <1>3, <2>1, RewardDeltaRounds DEF Credit
<1> HIDE DEF o, q, u, v, d
<1>9. Q64 * q[p] <= Q64 * o[p] + l * u[p]
  <2>1. /\ o[p] \in Nat /\ q[p] \in Nat /\ Q64 \in Nat /\ MAX_U64 \in Nat
        /\ l * u[p] \in Nat
    BY <1>5, WorthType, RewardsAssumption DEF WorthTypes
  <2>2. o[p] + d \in Nat
    BY <1>8, <2>1
  <2>3. q[p] <= o[p] + d
    BY <1>6, <2>1, <2>2, WidthShrinks
  <2>4. Q64 * q[p] <= Q64 * (o[p] + d)
    BY <1>8, <2>1, <2>3
  <2>5. Q64 * (o[p] + d) = Q64 * o[p] + Q64 * d
    BY <1>8, <2>1
  <2>6. Q64 * q[p] \in Nat /\ Q64 * o[p] \in Nat /\ Q64 * d \in Nat
    BY <1>8, <2>1
  <2> HIDE DEF l
  <2> QED
    BY <1>8, <2>1, <2>4, <2>5, <2>6
<1>10. Total(Worth(Q64, q, positions', v)) <= Total(Worth(Q64, o, positions, u))
  BY <1>2, <1>5, <1>6, <1>7, <1>9, WorthSettled
<1>11. SavedWorth(i)' <= SavedWorth(i)
  BY <1>5, <1>10
<1> QED
  BY <1>2, <1>3, <1>4, <1>11, BudgetSynced

\* A swap moves the pool's growth about, and ends with the books up to date.
LEMMA BudgetOfSwap ==
  ASSUME BInv, RInv', IInv', Tallied,
         StartsSwap \/ RewardsSwapStep \/ RewardsSwapEnd \/ RewardsSwapAbort
  PROVE  \A i \in RewardIndex : InBudget(i)'
<1>1. CASE StartsSwap
  <2>1. UNCHANGED <<unix_timestamp, ticks, pool, positions, rewards, position_rewards, vaults>>
    BY <1>1 DEF StartsSwap, RewardsSwapStart, SwapStart
  <2> QED
    BY <2>1, BudgetSame
<1>2. CASE RewardsSwapStep
  <2>1. PICK k \in DOMAIN swap.arrays, next \in TickIndex, next_price \in SqrtPrice,
             amount_remains \in BOOLEAN : CrossesRewards(k, next, next_price, amount_remains)
    BY <1>2, RewardsSwapStepCrosses
  <2>2. UNCHANGED <<ticks, pool, positions>>
    BY <2>1, CrossingKeepsInv DEF BInv, Crossed
  <2>3. UNCHANGED <<unix_timestamp, rewards, position_rewards, vaults>>
    BY <2>1 DEF CrossesRewards
  <2> QED
    BY <2>2, <2>3, BudgetSame
<1>3. CASE RewardsSwapEnd
  <2>1. /\ UNCHANGED <<unix_timestamp, vaults, positions, position_rewards>>
        /\ rewards' = loop /\ swap.in_progress
    BY <1>3 DEF RewardsSwapEnd, SwapEnd
  <2>2. rewards'.updated = unix_timestamp'
    BY <2>1 DEF BInv, RInv, OneBook
  <2>3. \A i \in RewardIndex : Saved(i)' = Saved(i)
    BY <1>3, SwapEndKeepsRewards DEF BInv
  <2> QED
    BY <2>1, <2>2, <2>3, BudgetRestarted
<1>4. CASE RewardsSwapAbort
  <2>1. UNCHANGED <<unix_timestamp, ticks, pool, positions, rewards, position_rewards, vaults>>
    BY <1>4 DEF RewardsSwapAbort, SwapFail, SwapReject, SwapContinues
  <2> QED
    BY <2>1, BudgetSame
<1> QED
  BY <1>1, <1>2, <1>3, <1>4

\* A second emits at the rate that the pool has.
LEMMA BudgetOfSecond ==
  ASSUME BInv, RInv', Tallied, Elapse
  PROVE  \A i \in RewardIndex : InBudget(i)'
<1> SUFFICES ASSUME NEW i \in RewardIndex PROVE InBudget(i)'
  OBVIOUS
<1>1. /\ unix_timestamp' = unix_timestamp + 1
      /\ UNCHANGED <<ticks, pool, positions, rewards, position_rewards, vaults>>
  BY DEF Elapse, vars
<1>2. Priced
  BY PricedNow DEF BInv
<1>3. /\ paid'[i] = paid[i] /\ emitted'[i] = emitted[i] + Rate(i)
  <2>1. vaults[i] \in Nat
    <3>1. vaults[i] \in U64
      BY DEF BInv, RInv, RewardsTypeOK
    <3> QED
      BY <3>1, RewardsAssumption DEF U64
  <2> QED
    BY <1>1, <2>1 DEF Tallied
<1>4. /\ BookedWorth(i)' = BookedWorth(i) /\ Rate(i)' = Rate(i)
  BY <1>1 DEF BookedWorth, Booked, RewardGrowth, Checkpoints, Debts, Rate
<1>5. Behind(rewards)' = Behind(rewards) + 1
  <2>1. unix_timestamp \in Nat /\ rewards.updated \in Nat
    <3>1. unix_timestamp \in 0 .. MAX_TIME /\ rewards.updated \in 0 .. MAX_TIME
      BY DEF BInv, RInv, RewardsTypeOK, Rewards
    <3> QED
      BY <3>1, RewardsAssumption
  <2> QED
    BY <1>1, <2>1 DEF Behind
<1> DEFINE Q == Q64 * paid[i]
           S == BookedWorth(i)
           b == Behind(rewards)
           r == Rate(i)
<1>6. /\ Q \in Nat /\ S \in Nat /\ b \in Nat /\ r \in Nat /\ emitted[i] \in Nat
      /\ Q + S + b * r <= emitted[i]
  <2>1. S \in Nat /\ b \in Nat /\ r \in Nat
    BY <1>2 DEF Priced
  <2>2. Q \in Nat /\ emitted[i] \in Nat
    BY RewardsAssumption DEF BInv
  <2> QED
    BY <2>1, <2>2 DEF BInv, InBudget
<1>7. InBudget(i)' <=> Q + S + (b + 1) * r <= emitted[i] + r
  BY <1>3, <1>4, <1>5 DEF InBudget
<1> HIDE DEF Q, S, b, r
<1>8. (b + 1) * r = b * r + r /\ b * r \in Nat
  BY <1>6
<1>9. Q + S + (b + 1) * r <= emitted[i] + r
  BY <1>6, <1>8
<1> QED
  BY <1>7, <1>9

\* A swap that is running has the pool's growth, and so has the pool after it.
LEMMA BooksAgree ==
  ASSUME BInv, RInv', IInv', [RewardsNext]_<<vars, rewardVars>>
  PROVE  \A i \in RewardIndex : Running(i)' = Saved(i)'
<1>1. RInv /\ \A i \in RewardIndex : Running(i) = Saved(i)
  BY DEF BInv
<1>2. CASE KeepsGrowth
  BY <1>1, <1>2, KeepsGrowthInv
<1>3. ASSUME NEW p \in PositionId, MovesEmpty(p)
      PROVE  \A i \in RewardIndex : Running(i)' = Saved(i)'
  <2>1. \A i \in RewardIndex : Saved(i)' = Saved(i) /\ Running(i)' = Running(i)
    BY <1>1, <1>3, EmptyPositionKeepsRewards DEF MovesEmpty
  <2> QED
    BY <1>1, <2>1
<1>4. ASSUME NEW p \in PositionId, Settles(p)
      PROVE  \A i \in RewardIndex : Running(i)' = Saved(i)'
  BY <1>1, <1>4, SettlesInv
<1>5. CASE StartsSwap
  <2>1. \A i \in RewardIndex : Saved(i)' = Saved(i) /\ Running(i)' = Running(i)
    BY <1>1, <1>5, SwapStartKeepsRewards DEF StartsSwap
  <2> QED
    BY <1>1, <2>1
<1>6. CASE RewardsSwapStep
  BY <1>1, <1>6, CrossingInv
<1>7. CASE RewardsSwapEnd
  BY <1>1, <1>7, SwapEndKeepsRewards
<1>8. CASE RewardsSwapAbort
  BY <1>1, <1>8, SwapAbortKeepsRewards
<1>9. CASE Elapse
  BY <1>1, <1>9, ElapseAccrues
<1> QED
  BY <1>2, <1>3, <1>4, <1>5, <1>6, <1>7, <1>8, <1>9, RewardsSteps

\* A pool without rewards has emitted nothing, and owes nothing.
LEMMA BudgetInitInv == BudgetInit => BInv
<1> SUFFICES ASSUME BudgetInit PROVE BInv
  OBVIOUS
<1>1. RInv /\ RewardsInit /\ ~swap.in_progress
  BY RewardsInitInv DEF BudgetInit, RewardsInit, Init, NoSwap
<1>2. /\ emitted \in [RewardIndex -> Nat] /\ paid \in [RewardIndex -> Nat]
      /\ \A i \in RewardIndex : emitted[i] = 0 /\ paid[i] = 0
  BY DEF BudgetInit, NoGrowth
<1>3. ASSUME NEW i \in RewardIndex PROVE Running(i) = Saved(i)
  BY <1>1, IdleBook
<1>4. ASSUME NEW i \in RewardIndex PROVE InBudget(i)
  <2>1. Priced
    BY <1>1, PricedNow
  <2>2. Rate(i) = 0 /\ Behind(rewards) * 0 = 0
    <3>1. Behind(rewards) \in Nat
      BY <2>1 DEF Priced
    <3> QED
      BY <1>1, <3>1 DEF RewardsInit, Rate, NewRewardInfo
  <2>3. BookedWorth(i) = 0
    <3> DEFINE w == Worth(Q64, Debts(i), positions, Booked(i))
    <3>1. ASSUME NEW p \in PositionId
          PROVE  w[p] = 0
      <4>1. Debts(i)[p] = 0
        BY <1>1 DEF RewardsInit, Debts, NewPositionReward
      <4>2. positions[p].liquidity = 0
        BY <1>1 DEF RewardsInit, Init, ClosedPosition
      <4>3. Q64 * 0 = 0 /\ 0 * Booked(i)[p] = 0
        <5>1. Booked(i)[p] \in Nat
          BY <2>1, WorthType DEF Priced
        <5> QED
          BY <5>1, RewardsAssumption
      <4> QED
        BY <4>1, <4>2, <4>3 DEF Worth
    <3>2. w \in [1 .. N -> Int]
      BY <2>1, WorthType DEF Priced
    <3> HIDE DEF w
    <3>3. Total(w) = 0
      BY <3>1, <3>2, TotalZero DEF PositionId
    <3> QED
      BY <3>3 DEF BookedWorth, w
  <2>4. Q64 * paid[i] = 0
    BY <1>2, RewardsAssumption
  <2> QED
    BY <1>2, <2>2, <2>3, <2>4 DEF InBudget
<1> QED
  BY <1>1, <1>2, <1>3, <1>4 DEF BInv

LEMMA BudgetNextInv ==
  BInv /\ [BudgetNext]_<<vars, rewardVars, emitted, paid>> => BInv'
<1> SUFFICES ASSUME BInv, [BudgetNext]_<<vars, rewardVars, emitted, paid>>
             PROVE  BInv'
  OBVIOUS
<1>1. CASE UNCHANGED <<vars, rewardVars, emitted, paid>>
  <2>1. RInv' /\ IInv'
    BY <1>1, RewardsNextInv, PoolInvNext DEF BInv
  <2>2. \A i \in RewardIndex : Running(i)' = Saved(i)'
    BY <1>1, <2>1, BooksAgree
  <2>3. \A i \in RewardIndex : InBudget(i)'
    BY <1>1 DEF BInv, InBudget, BookedWorth, Booked, RewardGrowth, Checkpoints, Debts, Rate,
                Behind, vars, rewardVars
  <2> QED
    BY <1>1, <2>1, <2>2, <2>3 DEF BInv
<1>2. CASE BudgetNext
  <2>1. RewardsNext /\ RInv
    BY <1>2 DEF BudgetNext, BInv
  <2>2. RInv' /\ IInv'
    BY <2>1, RewardsNextInv, PoolInvNext
  <2>3. Tallied
    BY <1>2, <2>2, TalliedNext
  <2>4. \A i \in RewardIndex : Running(i)' = Saved(i)'
    BY <2>1, <2>2, BooksAgree
  <2>5. \A i \in RewardIndex : InBudget(i)'
    <3>1. CASE KeepsGrowth
      BY <2>2, <2>3, <3>1, BudgetOfKept
    <3>2. ASSUME NEW p \in PositionId, MovesEmpty(p)
          PROVE  \A i \in RewardIndex : InBudget(i)'
      BY <2>2, <2>3, <3>2, BudgetOfEmpty
    <3>3. ASSUME NEW p \in PositionId, Settles(p)
          PROVE  \A i \in RewardIndex : InBudget(i)'
      BY <2>2, <2>3, <3>3, BudgetOfSettled
    <3>4. CASE StartsSwap \/ RewardsSwapStep \/ RewardsSwapEnd \/ RewardsSwapAbort
      BY <2>2, <2>3, <3>4, BudgetOfSwap
    <3>5. CASE Elapse
      BY <2>2, <2>3, <3>5, BudgetOfSecond
    <3> QED
      BY <2>1, <3>1, <3>2, <3>3, <3>4, <3>5, RewardsSteps
  <2> QED
    BY <2>2, <2>3, <2>4, <2>5 DEF BInv, Tallied
<1> QED
  BY <1>1, <1>2

\* What is booked, with the seconds that are not, never exceeds the emissions.
THEOREM BudgetInvariance == BudgetSpec => []BInv
<1>1. BudgetInit => BInv
  BY BudgetInitInv
<1>2. BInv /\ [BudgetNext]_<<vars, rewardVars, emitted, paid>> => BInv'
  BY BudgetNextInv
<1> QED
  BY <1>1, <1>2, PTL DEF BudgetSpec

\* next_pool_reward_infos, next_position_modify_liquidity_update and
\* calculate_collect_reward: no order of updates, deposits, withdrawals, swaps
\* and claims pays more than the rate emitted.
THEOREM WithinEmissionsHolds == BudgetSpec => []WithinEmissions
<1>1. BInv => WithinEmissions
  <2> SUFFICES ASSUME BInv, NEW i \in RewardIndex
               PROVE  Q64 * (paid[i] + Total([p \in PositionId |->
                         position_rewards[p][i].amount_owed
                            + RewardDelta(positions[p].liquidity,
                                 Unclaimed(rewards, i, pool.tick_current_index)[p])]))
                        <= emitted[i]
    BY DEF WithinEmissions
  <2> DEFINE o == Debts(i)
             u == Saved(i)
             claims == [p \in PositionId |-> position_rewards[p][i].amount_owed + Credit(p, i)]
  <2>1. Priced /\ RInv /\ Q64 \in Nat /\ paid[i] \in Nat /\ emitted[i] \in Nat
    BY PricedNow, RewardsAssumption DEF BInv
  <2>2. /\ WorthTypes(Q64, o, positions, u)
        /\ SavedWorth(i) = Total(Worth(Q64, o, positions, u))
    BY <2>1 DEF Priced, SavedWorth
  <2>3. ASSUME NEW p \in PositionId
        PROVE  /\ Credit(p, i) \in Nat
               /\ claims[p] = o[p] + Credit(p, i)
               /\ claims[p] \in Nat
               /\ Q64 * Credit(p, i) <= positions[p].liquidity * u[p]
    <3>1. positions[p].liquidity \in Nat /\ u[p] \in Nat /\ o[p] \in Nat
      BY <2>2, WorthType DEF WorthTypes
    <3>2. Credit(p, i) \in Nat /\ Q64 * Credit(p, i) <= positions[p].liquidity * u[p]
      BY <3>1, RewardDeltaRounds DEF Credit
    <3>3. claims[p] = o[p] + Credit(p, i)
      BY DEF Debts
    <3> HIDE DEF claims, o
    <3> QED
      BY <3>1, <3>2, <3>3
  <2>4. claims \in [1 .. N -> Nat]
    BY <2>3 DEF PositionId
  <2> HIDE DEF o, u, claims
  <2>5. Q64 * Total(claims) <= SavedWorth(i) /\ Total(claims) \in Nat
    BY <2>2, <2>3, <2>4, WorthRounded
  <2>6. Q64 * paid[i] + SavedWorth(i) <= emitted[i] /\ SavedWorth(i) \in Nat
    BY <2>1, ClaimsInBudget DEF Priced
  <2>7. Q64 * (paid[i] + Total(claims)) <= emitted[i]
    <3>1. Q64 * (paid[i] + Total(claims)) = Q64 * paid[i] + Q64 * Total(claims)
      BY <2>1, <2>5
    <3>2. Q64 * paid[i] \in Nat /\ Q64 * Total(claims) \in Nat
      BY <2>1, <2>5
    <3> QED
      BY <2>1, <2>5, <2>6, <3>1, <3>2
  <2> QED
    BY <2>7 DEF claims, Credit, Saved
<1> QED
  BY BudgetInvariance, <1>1, PTL

\* The record of what was emitted and paid does not restrict the rewards.
THEOREM BudgetRefinesRewards == BudgetSpec => RewardsSpec
<1>1. BudgetInit => RewardsInit
  BY DEF BudgetInit
<1>2. [BudgetNext]_<<vars, rewardVars, emitted, paid>>
        => [RewardsNext]_<<vars, rewardVars>>
  BY DEF BudgetNext
<1> QED
  BY <1>1, <1>2, PTL DEF BudgetSpec, RewardsSpec
=============================================================================
