---------------------------- MODULE MCPoolTokens ----------------------------
\* Tokens on three ticks of one array, the prices 1/2, 1 and 2.
EXTENDS PoolTokens

MCMinTick == -3
MCMaxTick == -1

MCPrice == [t \in TickIndex |->
                IF t = MCMinTick THEN 4 ELSE IF t = MCMaxTick THEN 16 ELSE 8]

\* States that behave alike: the two positions are interchangeable.
MCView ==
    <<pool, tick_arrays, ticks, swap, vault, trade,
      {positions[p] : p \in PositionId}>>
=============================================================================
