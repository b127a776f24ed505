----------------------------- MODULE MCLiquidity -----------------------------
\* Liquidity on a few ticks.  Prices are small numbers, one of which lies
\* between the prices of any two neighbouring ticks.
EXTENDS Liquidity

MCMinTick == -3

\* A tick begins at every second price.
MCSqrtPrice == [t \in TickIndex |-> 2 * (t - MIN_TICK_INDEX) + 1]
=============================================================================
