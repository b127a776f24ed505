------------------------------ MODULE MCRewards ------------------------------
\* Rewards on three ticks, one price each.
EXTENDS Rewards

MCMinTick == -3
MCMaxTick == -1

MCPrice == [t \in TickIndex |-> t - MIN_TICK_INDEX + 1]

\* States that behave alike: the two positions are interchangeable, and the
\* checkpoint of an empty position is overwritten before it is read.
Infos(p) ==
    [i \in RewardIndex |->
        IF positions[p].liquidity = 0
        THEN [position_rewards[p][i] EXCEPT !.growth_inside_checkpoint = 0]
        ELSE position_rewards[p][i]]

MCView ==
    <<pool, tick_arrays, ticks, swap, unix_timestamp, rewards, loop, vaults,
      {<<positions[p], Infos(p)>> : p \in PositionId}>>
=============================================================================
