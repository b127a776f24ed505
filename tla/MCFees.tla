-------------------------------- MODULE MCFees --------------------------------
\* Fees on three ticks, one price each.
EXTENDS Fees

MCMinTick == -3
MCMaxTick == -1

MCPrice == [t \in TickIndex |-> t - MIN_TICK_INDEX + 1]

\* States that behave alike: the two positions are interchangeable, and the
\* checkpoint of an empty position is overwritten before it is read.
Checkpoint(p) ==
    IF positions[p].liquidity = 0 THEN 0 ELSE fee_growth_checkpoint_a[p]

MCView ==
    <<pool, tick_arrays, ticks, swap, ledger, loop,
      {<<positions[p], Checkpoint(p), fee_owed_a[p]>> : p \in PositionId}>>
=============================================================================
