------------------------------ MODULE FeesProofs ------------------------------
(***************************************************************************)
(* The fees of a pool are shared as promised and can be paid, for every    *)
(* number of positions, tick spacing and price function, whatever the      *)
(* width of the counters and of the fixed point, and whatever fee each     *)
(* step of a swap takes.                                                   *)
(*                                                                         *)
(* The lemmas on growth in LiquidityProofs carry the bookkeeping; here are *)
(* the money and the fee counters.                                         *)
(***************************************************************************)
EXTENDS Fees, LiquidityProofs

-----------------------------------------------------------------------------
\* The counters of the fees, and the amounts.

FeeGrowth(books) ==
    [growth |-> books.fee_growth_global_a, outside |-> books.fee_growth_outside_a]

FeeCounts(books) ==
    /\ books.fee_growth_global_a \in U128
    /\ books.fee_growth_outside_a \in [UsableTicks -> U128]

LEMMA FeeGrowthCounts ==
  ASSUME NEW books, FeeCounts(books)
  PROVE  Counts(FeeGrowth(books))
BY DEF FeeCounts, FeeGrowth, Counts

\* An amount that wraps fits 64 bits and has not grown.
LEMMA AmountShrinks ==
  ASSUME NEW x \in Nat
  PROVE  x % (MAX_U64 + 1) \in U64 /\ x % (MAX_U64 + 1) <= x
BY WidthShrinks, FeesAssumption DEF U64

-----------------------------------------------------------------------------
\* What a swap step takes and gives.

\* The protocol's share of a fee is not more than the fee.
LEMMA ProtocolShare ==
  ASSUME NEW fee \in Nat
  PROVE  calculate_protocol_fee(fee) \in 0 .. fee
<1> DEFINE m == PROTOCOL_FEE_RATE_MUL_VALUE
           share == (fee * protocol_fee_rate) \div m
<1>1. m \in Nat \ {0} /\ protocol_fee_rate \in 0 .. m
  BY FeesAssumption
<1> HIDE DEF m
<1>2. fee * protocol_fee_rate \in Nat /\ fee * protocol_fee_rate <= m * fee
  BY <1>1
<1>3. share \in Nat /\ m * share <= fee * protocol_fee_rate
  BY <1>1, <1>2, RoundsDown
<1> HIDE DEF share
<1>4. m * share <= m * fee
  BY <1>1, <1>2, <1>3
<1>5. share <= fee
  BY <1>1, <1>3, <1>4, Cancel
<1> QED
  BY <1>3, <1>5 DEF share, m, calculate_protocol_fee

\* The growth that a fee adds, before it wraps.
GrowthOf(fee) ==
    IF swap.liquidity = 0 THEN 0
    ELSE ((fee - calculate_protocol_fee(fee)) * Q64) \div swap.liquidity

\* What all liquidity in range is credited with is not more than the fee that
\* is left when the protocol has its share.
LEMMA GrowthCovered ==
  ASSUME NEW fee \in Nat, swap.liquidity \in Nat, loop.fee_growth_global_a \in U128
  PROVE  /\ GrowthOf(fee) \in Nat
         /\ GrowthAfter(fee) = Wrap(loop.fee_growth_global_a + GrowthOf(fee))
         /\ swap.liquidity * GrowthOf(fee) <= (fee - calculate_protocol_fee(fee)) * Q64
<1> DEFINE L == swap.liquidity
           rest == (fee - calculate_protocol_fee(fee)) * Q64
<1>1. fee - calculate_protocol_fee(fee) \in Nat /\ Q64 \in Nat \ {0}
  BY ProtocolShare, FeesAssumption
<1>2. rest \in Nat
  BY <1>1
<1>3. loop.fee_growth_global_a \in Int
  BY U128Number
<1>4. CASE L = 0
  <2>1. Wrap(loop.fee_growth_global_a + 0) = loop.fee_growth_global_a
    BY <1>3, WrapFits
  <2> QED
    BY <1>2, <1>4, <2>1 DEF GrowthOf, GrowthAfter
<1>5. CASE L # 0
  <2>1. L \in Nat \ {0}
    BY <1>5
  <2>2. GrowthOf(fee) = rest \div L
    BY <1>5 DEF GrowthOf
  <2>3. rest \div L \in Nat /\ L * (rest \div L) <= rest
    BY <1>2, <2>1, RoundsDown
  <2>4. GrowthAfter(fee) = Wrap(loop.fee_growth_global_a + GrowthOf(fee))
    BY <1>5 DEF GrowthAfter, GrowthOf, wrapping_add, Modulus, Wrap, CounterSize
  <2> QED
    BY <2>2, <2>3, <2>4
<1> QED
  BY <1>4, <1>5

-----------------------------------------------------------------------------
\* The invariant.

\* The unclaimed growth as the pool has it, and as the loop of a swap has it.
Saved == Unclaimed(ledger, pool.tick_current_index)
Running == Unclaimed(loop, LoopTick)

GrowthOK ==
    /\ FeeCounts(ledger) /\ FeeCounts(loop)
    /\ fee_growth_checkpoint_a \in [PositionId -> U128]

\* Outside a swap there is one ledger.
OneLedger == ~swap.in_progress => loop = ledger

\* The claims of the positions, in units of 1 / Q64 and not rounded.
Claims(owed, accounts, unclaimed) == Worth(Q64, owed, accounts, unclaimed)

\* The vault has all of it.  FeesCovered, which rounds, is not kept by a swap by
\* itself, since fractions of several swaps may add up.
Backed(books, owed, accounts, unclaimed) ==
    Q64 * books.protocol_fee_owed_a + Total(Claims(owed, accounts, unclaimed))
        <= Q64 * books.vault_a

FInv ==
    /\ IInv
    /\ FeesTypeOK
    /\ OneLedger
    /\ Backed(ledger, fee_owed_a, positions, Saved)
    /\ Backed(loop, fee_owed_a, positions, Running)

\* The types of what the growth lemmas speak of.
LEMMA GrowthTypes ==
  ASSUME FeesTypeOK
  PROVE  GrowthOK
BY DEF FeesTypeOK, GrowthOK, FeeCounts, Ledger

\* LoopTick is what the growth lemmas call the running tick.
LEMMA LoopTickIs == LoopTick = RunningTick
BY DEF LoopTick, RunningTick

\* Unclaimed growth, in this state
LEMMA UnclaimedNow ==
  ASSUME IInv, GrowthOK
  PROVE  /\ Saved = Dues(ticks, FeeGrowth(ledger), positions, fee_growth_checkpoint_a,
                         pool.tick_current_index)
         /\ Running = Dues(ticks, FeeGrowth(loop), positions, fee_growth_checkpoint_a,
                           LoopTick)
         /\ Saved \in [PositionId -> U128] /\ Running \in [PositionId -> U128]
<1>1. /\ Placed(positions) /\ pool.tick_current_index \in Int /\ LoopTick \in Int
      /\ Counts(FeeGrowth(ledger)) /\ Counts(FeeGrowth(loop))
  BY PositionsPlaced, LoopTickIs, FeeGrowthCounts DEF AllPlaced, GrowthOK
<1>2. Saved = UnclaimedIn(ticks, FeeGrowth(ledger), positions, fee_growth_checkpoint_a,
                          pool.tick_current_index)
  BY DEF Saved, Unclaimed, UnclaimedIn, GrowthInside, GrowthBelow, GrowthAbove,
         CodedInside, BelowIn, AboveIn, FeeGrowth, wrapping_sub, Modulus, Wrap, CounterSize
<1>3. Running = UnclaimedIn(ticks, FeeGrowth(loop), positions, fee_growth_checkpoint_a,
                            LoopTick)
  BY DEF Running, Unclaimed, UnclaimedIn, GrowthInside, GrowthBelow, GrowthAbove,
         CodedInside, BelowIn, AboveIn, FeeGrowth, wrapping_sub, Modulus, Wrap, CounterSize
<1> QED
  BY <1>1, <1>2, <1>3, DuesOf DEF GrowthOK

\* and in the next one.
LEMMA UnclaimedNext ==
  ASSUME IInv', GrowthOK'
  PROVE  /\ Saved' = Dues(ticks', FeeGrowth(ledger'), positions',
                          fee_growth_checkpoint_a', pool'.tick_current_index)
         /\ Running' = Dues(ticks', FeeGrowth(loop'), positions',
                            fee_growth_checkpoint_a', LoopTick')
         /\ Saved' \in [PositionId -> U128] /\ Running' \in [PositionId -> U128]
<1>1. /\ Placed(positions') /\ pool'.tick_current_index \in Int /\ LoopTick' \in Int
      /\ Counts(FeeGrowth(ledger')) /\ Counts(FeeGrowth(loop'))
  BY PlacedNext, LoopTickIs, FeeGrowthCounts DEF GrowthOK, LoopTick, RunningTick
<1>2. Saved' = UnclaimedIn(ticks', FeeGrowth(ledger'), positions',
                           fee_growth_checkpoint_a', pool'.tick_current_index)
  BY DEF Saved, Unclaimed, UnclaimedIn, GrowthInside, GrowthBelow, GrowthAbove,
         CodedInside, BelowIn, AboveIn, FeeGrowth, wrapping_sub, Modulus, Wrap, CounterSize
<1>3. Running' = UnclaimedIn(ticks', FeeGrowth(loop'), positions',
                             fee_growth_checkpoint_a', LoopTick')
  BY DEF Running, Unclaimed, UnclaimedIn, GrowthInside, GrowthBelow, GrowthAbove,
         CodedInside, BelowIn, AboveIn, FeeGrowth, wrapping_sub, Modulus, Wrap, CounterSize
<1> QED
  BY <1>1, <1>2, <1>3, DuesOf DEF GrowthOK

-----------------------------------------------------------------------------
\* What the actions make of the unclaimed growth.

SameGrowth(old, new) ==
    /\ new.fee_growth_global_a = old.fee_growth_global_a
    /\ new.fee_growth_outside_a = old.fee_growth_outside_a

\* An action that touches neither ticks, growth nor price, and no position that
\* has or gets liquidity, leaves the claims to growth as they were.
LEMMA GrowthKept ==
  ASSUME IInv, IInv', GrowthOK, GrowthOK',
         UNCHANGED ticks, SameGrowth(ledger, ledger'), SameGrowth(loop, loop'),
         pool'.tick_current_index = pool.tick_current_index,
         LoopTick' = LoopTick,
         \A p \in PositionId :
            \/ positions[p].liquidity = 0 /\ positions'[p].liquidity = 0
            \/ /\ positions'[p] = positions[p]
               /\ fee_growth_checkpoint_a'[p] = fee_growth_checkpoint_a[p]
  PROVE  Saved' = Saved /\ Running' = Running
<1>1. FeeGrowth(ledger') = FeeGrowth(ledger) /\ FeeGrowth(loop') = FeeGrowth(loop)
  BY DEF SameGrowth, FeeGrowth
<1>2. Saved' = Dues(ticks, FeeGrowth(ledger), positions', fee_growth_checkpoint_a',
                    pool.tick_current_index)
  BY <1>1, UnclaimedNext
<1>3. Running' = Dues(ticks, FeeGrowth(loop), positions', fee_growth_checkpoint_a', LoopTick)
  BY <1>1, UnclaimedNext
<1>4. Saved' = Dues(ticks, FeeGrowth(ledger), positions, fee_growth_checkpoint_a,
                    pool.tick_current_index)
  BY <1>2, DuesSame
<1>5. Running' = Dues(ticks, FeeGrowth(loop), positions, fee_growth_checkpoint_a, LoopTick)
  BY <1>3, DuesSame
<1> QED
  BY <1>4, <1>5, UnclaimedNow

\* The growth inside a position that is open, which the code makes its checkpoint.
LEMMA InsidePosition ==
  ASSUME IInv, GrowthOK, NEW p \in PositionId, positions[p].open
  PROVE  /\ GrowthInside(ledger, positions[p], pool.tick_current_index)
              = InsideIn(ticks, FeeGrowth(ledger), positions[p], pool.tick_current_index)
         /\ GrowthInside(ledger, positions[p], pool.tick_current_index) \in U128
         /\ positions[p].tick_lower_index \in UsableTicks
         /\ positions[p].tick_upper_index \in UsableTicks
         /\ positions[p].tick_lower_index # positions[p].tick_upper_index
<1>1. Counts(FeeGrowth(ledger))
  BY FeeGrowthCounts DEF GrowthOK
<1>2. GrowthInside(ledger, positions[p], pool.tick_current_index)
        = CodedInside(ticks, FeeGrowth(ledger), positions[p], pool.tick_current_index)
  BY DEF GrowthInside, GrowthBelow, GrowthAbove, CodedInside, BelowIn, AboveIn, FeeGrowth,
         wrapping_sub, Modulus, Wrap, CounterSize
<1> QED
  BY <1>1, <1>2, OpenInside

\* What is unclaimed is what came since the checkpoint, and nothing without
\* liquidity: the delta that update computes for a position is its entry.
LEMMA DeltaIsUnclaimed ==
  ASSUME IInv, GrowthOK, NEW p \in PositionId, positions[p].open
  PROVE  /\ wrapping_sub(GrowthInside(ledger, positions[p], pool.tick_current_index),
                         fee_growth_checkpoint_a[p]) \in U128
         /\ Saved[p] =
              IF positions[p].liquidity = 0 THEN 0
              ELSE wrapping_sub(GrowthInside(ledger, positions[p], pool.tick_current_index),
                                fee_growth_checkpoint_a[p])
<1> DEFINE inside == GrowthInside(ledger, positions[p], pool.tick_current_index)
<1>1. inside \in U128
  BY InsidePosition
<1>2. fee_growth_checkpoint_a[p] \in U128
  BY DEF GrowthOK
<1> HIDE DEF inside
<1>3. inside - fee_growth_checkpoint_a[p] \in Int
  BY <1>1, <1>2, U128Number
<1>4. wrapping_sub(inside, fee_growth_checkpoint_a[p]) \in U128
  BY <1>3, WrapType DEF wrapping_sub, Modulus, Wrap, CounterSize
<1> QED
  BY <1>4 DEF inside, Saved, Unclaimed

\* A deposit or a withdrawal leaves the growth below the ticks in use alone.
LEMMA FeesTickKept ==
  ASSUME IInv, GrowthOK, NEW p \in PositionId, NEW delta \in Int,
         ModifyLiquidity(p, delta), FeesModifyLiquidity(p, delta),
         NEW t \in UsableTicks, ticks'[t].initialized
  PROVE  BelowIn(ticks', FeeGrowth(ledger'), t, pool.tick_current_index)
            = BelowIn(ticks, FeeGrowth(ledger), t, pool.tick_current_index)
<1> DEFINE l == positions[p].tick_lower_index
           u == positions[p].tick_upper_index
           old == FeeGrowth(ledger)
           new == FeeGrowth(ledger')
<1>1. l \in UsableTicks /\ u \in UsableTicks /\ l # u
  BY InsidePosition DEF ModifyLiquidity
<1>2. Counts(old) /\ new.growth = old.growth
  BY FeeGrowthCounts DEF GrowthOK, FeesModifyLiquidity, FeeGrowth
<1>3. NextOutside(t, delta) = OutsideAfter(old, t, delta)
  BY DEF NextOutside, OutsideAfter, FeeGrowth
<1>4. new.outside[t] = IF t = l \/ t = u THEN OutsideAfter(old, t, delta) ELSE old.outside[t]
  BY <1>1, <1>3 DEF FeesModifyLiquidity, GrowthOK, FeeCounts, FeeGrowth
<1> HIDE DEF old, new
<1> QED
  BY <1>2, <1>4, TickKept DEF old, new

\* An update settles the growth of one position, up to now, and of no other.
LEMMA GrowthSettled ==
  ASSUME IInv, IInv', GrowthOK, GrowthOK', NEW p \in PositionId,
         positions[p].open, UpdateFees(p), ~swap.in_progress, UNCHANGED swap,
         loop' = ledger',
         pool'.tick_current_index = pool.tick_current_index,
         \A t \in UsableTicks : ticks'[t].initialized =>
            BelowIn(ticks', FeeGrowth(ledger'), t, pool.tick_current_index)
               = BelowIn(ticks, FeeGrowth(ledger), t, pool.tick_current_index),
         positions'[p].tick_lower_index = positions[p].tick_lower_index,
         positions'[p].tick_upper_index = positions[p].tick_upper_index,
         \A q \in PositionId \ {p} : positions'[q] = positions[q]
  PROVE  Saved' = [Saved EXCEPT ![p] = 0] /\ Running' = [Saved EXCEPT ![p] = 0]
<1> DEFINE c == pool.tick_current_index
           old == FeeGrowth(ledger)
           new == FeeGrowth(ledger')
           j == fee_growth_checkpoint_a
           k == fee_growth_checkpoint_a'
<1>1. k = [j EXCEPT ![p] = InsideIn(ticks, old, positions[p], c)]
  BY InsidePosition DEF UpdateFees
<1>2. Saved' = Dues(ticks', new, positions', k, c) /\ Running' = Saved'
  <2>1. LoopTick' = c
    BY DEF LoopTick
  <2> QED
    BY <2>1, UnclaimedNext
<1>3. Counts(old) /\ Counts(new) /\ j \in [PositionId -> U128]
  BY FeeGrowthCounts DEF GrowthOK
<1>4. Saved = Dues(ticks, old, positions, j, c)
  BY UnclaimedNow
<1>5. \A t \in UsableTicks : ticks'[t].initialized =>
         BelowIn(ticks', new, t, c) = BelowIn(ticks, old, t, c)
  OBVIOUS
<1> HIDE DEF old, new, j, k
<1>6. /\ Dues(ticks', new, positions', k, c)[p] = 0
      /\ \A q \in PositionId \ {p} :
            Dues(ticks', new, positions', k, c)[q] = Dues(ticks, old, positions, j, c)[q]
  <2>1. k[p] = InsideIn(ticks, old, positions[p], c)
    BY <1>1, <1>3
  <2>2. \A q \in PositionId \ {p} : k[q] = j[q]
    BY <1>1, <1>3
  <2> QED
    BY <1>3, <1>5, <2>1, <2>2, DuesSettled
<1>7. Dues(ticks', new, positions', k, c) = [Dues(ticks, old, positions, j, c) EXCEPT ![p] = 0]
  BY <1>6 DEF Dues
<1> QED
  BY <1>2, <1>4, <1>7

\* The counters of the new ledger are of their type.
LEMMA ModifyTypes ==
  ASSUME IInv, GrowthOK, NEW p \in PositionId, NEW delta \in Int,
         ModifyLiquidity(p, delta), FeesModifyLiquidity(p, delta)
  PROVE  GrowthOK'
<1> DEFINE l == positions[p].tick_lower_index
           u == positions[p].tick_upper_index
           O == ledger.fee_growth_outside_a
<1>1. \A t \in UsableTicks : NextOutside(t, delta) \in U128
  BY U128Nat DEF GrowthOK, FeeCounts, NextOutside, U128
<1>2. /\ l \in UsableTicks /\ u \in UsableTicks
      /\ GrowthInside(ledger, positions[p], pool.tick_current_index) \in U128
  BY InsidePosition DEF ModifyLiquidity
<1>3. ledger'.fee_growth_outside_a
         = [O EXCEPT ![l] = NextOutside(l, delta), ![u] = NextOutside(u, delta)]
      /\ ledger'.fee_growth_global_a = ledger.fee_growth_global_a
      /\ loop' = ledger'
  BY DEF FeesModifyLiquidity
<1>4. FeeCounts(ledger') /\ FeeCounts(loop')
  BY <1>1, <1>2, <1>3 DEF GrowthOK, FeeCounts
<1>5. fee_growth_checkpoint_a' \in [PositionId -> U128]
  BY <1>2 DEF FeesModifyLiquidity, UpdateFees, GrowthOK
<1> QED
  BY <1>4, <1>5 DEF GrowthOK, FeeCounts

\* In range, as the loop sees it.
Earning(p) == EarningAt(positions[p], swap.tick_index)

\* The state after an iteration that took a fee.
TakesFee(k, next, next_price, amount_remains, fee) ==
    /\ Iterates(k, next, next_price, amount_remains)
    /\ SwapIteration(k, next, next_price, amount_remains)
    /\ loop.vault_a + fee <= MAX_U64
    /\ loop' = LoopAfter(k, next, next_price, fee)
    /\ UNCHANGED <<ledger, fee_growth_checkpoint_a, fee_owed_a>>

\* The counters of the loop are of their type, wherever it is.
LEMMA StepTypes ==
  ASSUME IInv, FeesTypeOK, NEW k, NEW next, NEW next_price, NEW amount_remains,
         NEW fee \in Nat, TakesFee(k, next, next_price, amount_remains, fee)
  PROVE  FeesTypeOK' /\ GrowthOK'
<1> DEFINE O == loop.fee_growth_outside_a
           growth == GrowthAfter(fee)
           share == calculate_protocol_fee(fee)
<1>1. /\ loop.fee_growth_global_a \in U128 /\ O \in [UsableTicks -> U128]
      /\ loop.protocol_fee_owed_a \in U64 /\ loop.vault_a \in U64
  BY DEF FeesTypeOK, Ledger
<1>2. swap.liquidity \in Nat
  BY SwapType, U128Number DEF TakesFee, Iterates, SwapContinues
<1>3. growth \in U128
  <2>1. growth = Wrap(loop.fee_growth_global_a + GrowthOf(fee)) /\ GrowthOf(fee) \in Nat
    BY <1>1, <1>2, GrowthCovered
  <2>2. loop.fee_growth_global_a \in Int
    BY <1>1, U128Number
  <2> QED
    BY <2>1, <2>2, WrapType
<1>4. CrossOutside(next, growth) \in U128 \/ next \notin UsableTicks
  <2> SUFFICES ASSUME next \in UsableTicks PROVE CrossOutside(next, growth) \in U128
    OBVIOUS
  <2>1. growth \in Int /\ O[next] \in Int
    BY <1>1, <1>3, U128Number
  <2> QED
    BY <2>1, WrapType DEF CrossOutside, wrapping_sub, Modulus, Wrap, CounterSize
<1>5. (loop.protocol_fee_owed_a + share) % (MAX_U64 + 1) \in U64
  <2>1. loop.protocol_fee_owed_a + share \in Nat
    BY <1>1, ProtocolShare, FeesAssumption DEF U64
  <2> QED
    BY <2>1, AmountShrinks
<1>6. loop.vault_a + fee \in U64
  BY <1>1, FeesAssumption DEF U64, TakesFee
<1> HIDE DEF growth, share, O
<1>7. [O EXCEPT ![next] = CrossOutside(next, growth)] \in [UsableTicks -> U128]
  BY <1>1, <1>4 DEF O
<1>8. loop' \in Ledger
  BY <1>1, <1>3, <1>5, <1>6, <1>7 DEF TakesFee, LoopAfter, Ledger, growth, share, O
<1>9. FeesTypeOK'
  BY <1>8 DEF FeesTypeOK, TakesFee
<1>10. GrowthOK'
  BY <1>9 DEF FeesTypeOK, GrowthOK, FeeCounts, Ledger
<1> QED
  BY <1>9, <1>10

\* A step of a swap credits the positions in range with the same growth, and
\* nobody else, and does not touch what is saved.
LEMMA GrowthAccrues ==
  ASSUME IInv, IInv', FeesTypeOK, FeesTypeOK',
         NEW k, NEW next, NEW next_price, NEW amount_remains,
         NEW fee \in Nat, TakesFee(k, next, next_price, amount_remains, fee)
  PROVE  /\ Saved' = Saved
         /\ Running' = [p \in PositionId |->
               IF Earning(p) THEN Wrap(Running[p] + GrowthOf(fee)) ELSE Running[p]]
<1> DEFINE c == swap.tick_index
           d == TickIndexAfter(next, next_price)
           K == fee_growth_checkpoint_a
           g == GrowthOf(fee)
           old == FeeGrowth(loop)
           new == FeeGrowth(loop')
<1>1. /\ swap.in_progress /\ swap'.in_progress
      /\ LoopTick = c /\ LoopTick' = d /\ c \in Int /\ d \in Int
  <2>1. swap.in_progress /\ swap \in Swap
    BY SwapType DEF TakesFee, Iterates, SwapContinues
  <2>2. swap'.in_progress /\ swap'.tick_index = d
    BY <2>1 DEF TakesFee, SwapIteration, Advance, Swap
  <2>3. LoopTick = c /\ LoopTick' = d /\ RunningTick = c /\ RunningTick' = d
    BY <2>1, <2>2 DEF LoopTick, RunningTick
  <2> QED
    BY <2>1, <2>2, <2>3, PositionsPlaced, PlacedNext DEF AllPlaced
<1>2. UNCHANGED <<pool, ticks, positions, ledger, K>> /\ GrowthOK /\ GrowthOK'
  <2>1. GrowthOK
    BY GrowthTypes
  <2>2. GrowthOK'
    BY DEF FeesTypeOK, GrowthOK, FeeCounts, Ledger
  <2> QED
    BY <2>1, <2>2 DEF TakesFee, SwapIteration
<1>3. Saved' = Saved
  BY <1>2, UnclaimedNow, UnclaimedNext
<1>4. Running = Dues(ticks, old, positions, K, c)
  BY <1>1, <1>2, UnclaimedNow
<1>5. Running' = Dues(ticks, new, positions, K, d)
  BY <1>1, <1>2, UnclaimedNext
<1>6. g \in Int /\ new.growth = Wrap(old.growth + g)
  <2>1. swap.liquidity \in Nat /\ loop.fee_growth_global_a \in U128
    BY <1>1, SwapType, U128Number DEF FeesTypeOK, Ledger
  <2> QED
    BY <2>1, GrowthCovered DEF TakesFee, LoopAfter, FeeGrowth
<1>7. Counts(old) /\ Counts(new)
  BY <1>2, FeeGrowthCounts DEF GrowthOK
<1>8. ASSUME NEW v \in UsableTicks, ticks[v].initialized
      PROVE  TradesSides(old, new, v, c, d)
  <2>1. new.outside[v] = IF /\ next_price = sqrt_price_from_tick_index[next]
                            /\ Crosses(k, next) /\ v = next
                         THEN Wrap(new.growth - old.outside[v]) ELSE old.outside[v]
    BY <1>2 DEF TakesFee, LoopAfter, CrossOutside, FeeGrowth, GrowthOK, FeeCounts,
                wrapping_sub, Modulus, Wrap, CounterSize
  <2> HIDE DEF old, new
  <2> QED
    BY <1>8, <2>1, SidesTraded DEF TakesFee
<1> HIDE DEF c, d, g, old, new
<1>9. Accrues(ticks, old, new, c, d, g)
  BY <1>1, <1>6, <1>7, <1>8 DEF Accrues
<1>10. Dues(ticks, new, positions, K, d)
         = [p \in PositionId |->
               IF EarningAt(positions[p], c)
               THEN Wrap(Dues(ticks, old, positions, K, c)[p] + g)
               ELSE Dues(ticks, old, positions, K, c)[p]]
  <2>1. K \in [PositionId -> U128]
    BY <1>2 DEF GrowthOK
  <2> QED
    BY <1>9, <2>1, DuesAccrue
<1> QED
  BY <1>3, <1>4, <1>5, <1>10 DEF Earning, c, g

-----------------------------------------------------------------------------
\* What the actions make of the claims.

ClaimTypes(owed, accounts, unclaimed) ==
    /\ owed \in [PositionId -> U64]
    /\ accounts \in [PositionId -> Position]
    /\ unclaimed \in [PositionId -> U128]

\* Claims are numbers.
LEMMA ClaimsType ==
  ASSUME NEW owed, NEW accounts, NEW unclaimed, ClaimTypes(owed, accounts, unclaimed)
  PROVE  /\ WorthTypes(Q64, owed, accounts, unclaimed)
         /\ Claims(owed, accounts, unclaimed) \in [1 .. N -> Nat]
         /\ Total(Claims(owed, accounts, unclaimed)) \in Nat
<1>1. WorthTypes(Q64, owed, accounts, unclaimed)
  BY FeesAssumption DEF ClaimTypes, WorthTypes, U64
<1> QED
  BY <1>1, WorthType DEF Claims

\* The money of a ledger is of its type.
Moneys(books) == books.protocol_fee_owed_a \in U64 /\ books.vault_a \in U64

\* Claims that do not grow stay backed.
LEMMA BackedKept ==
  ASSUME NEW old, NEW new, NEW o, NEW a, NEW u, NEW q, NEW b, NEW v,
         ClaimTypes(o, a, u), ClaimTypes(q, b, v), Moneys(old),
         Backed(old, o, a, u),
         new.protocol_fee_owed_a = old.protocol_fee_owed_a,
         new.vault_a = old.vault_a,
         Total(Claims(q, b, v)) <= Total(Claims(o, a, u))
  PROVE  Backed(new, q, b, v)
<1>1. Total(Claims(q, b, v)) \in Nat /\ Total(Claims(o, a, u)) \in Nat
  BY ClaimsType
<1>2. Q64 * old.protocol_fee_owed_a \in Int /\ Q64 * old.vault_a \in Int
  BY FeesAssumption DEF Moneys, U64
<1> QED
  BY <1>1, <1>2 DEF Backed

\* An update rounds down, and gives up what does not fit.
LEMMA DeltaRoundsDown ==
  ASSUME NEW liquidity \in Nat, NEW growth \in Nat
  PROVE  /\ FeeDelta(liquidity, growth) \in Nat
         /\ Q64 * FeeDelta(liquidity, growth) <= liquidity * growth
<1> DEFINE product == liquidity * growth
<1>1. product \in Nat /\ Q64 \in Nat \ {0}
  BY FeesAssumption
<1>2. product \div Q64 \in Nat /\ Q64 * (product \div Q64) <= product
  BY <1>1, RoundsDown
<1>3. FeeDelta(liquidity, growth) = IF product > MAX_U128 THEN 0 ELSE product \div Q64
  BY DEF FeeDelta
<1> HIDE DEF product
<1> QED
  BY <1>1, <1>2, <1>3 DEF product

\* So what an update adds to the debt is covered by the growth it settles.
LEMMA UpdateCovered ==
  ASSUME IInv, FeesTypeOK, NEW p \in PositionId, positions[p].open, UpdateFees(p)
  PROVE  /\ fee_owed_a' \in [PositionId -> U64]
         /\ \A q \in PositionId \ {p} : fee_owed_a'[q] = fee_owed_a[q]
         /\ Q64 * fee_owed_a'[p]
              <= Q64 * fee_owed_a[p] + positions[p].liquidity * Saved[p]
<1> DEFINE l == positions[p].liquidity
           delta == wrapping_sub(GrowthInside(ledger, positions[p], pool.tick_current_index),
                                 fee_growth_checkpoint_a[p])
           owed == fee_owed_a[p]
           new == (owed + FeeDelta(l, delta)) % (MAX_U64 + 1)
<1>1. delta \in U128 /\ Saved[p] = IF l = 0 THEN 0 ELSE delta
  BY GrowthTypes, DeltaIsUnclaimed
<1>2. fee_owed_a' = [fee_owed_a EXCEPT ![p] = new] /\ fee_owed_a \in [PositionId -> U64]
  BY DEF UpdateFees, FeesTypeOK
<1>3. owed \in Nat /\ l \in Nat /\ Q64 \in Nat \ {0}
  <2>1. owed \in U64 /\ Q64 \in Nat \ {0}
    BY <1>2, FeesAssumption
  <2>2. l \in Nat
    BY PositionTypes, PositionsAreAccounts
  <2> QED
    BY <2>1, <2>2 DEF U64
<1> HIDE DEF delta, l, owed
<1>4. delta \in Nat
  BY <1>1, U128Number
<1>5. FeeDelta(l, delta) \in Nat /\ Q64 * FeeDelta(l, delta) <= l * delta
  BY <1>3, <1>4, DeltaRoundsDown
<1>6. new \in U64 /\ new <= owed + FeeDelta(l, delta)
  <2>1. owed + FeeDelta(l, delta) \in Nat
    BY <1>3, <1>5
  <2> QED
    BY <2>1, AmountShrinks
<1> DEFINE d == FeeDelta(l, delta)
<1> HIDE DEF new, d
<1>7. l * delta = l * Saved[p]
  BY <1>1, <1>3, <1>4
<1>8. Q64 * new <= Q64 * (owed + d)
  BY <1>3, <1>5, <1>6 DEF U64, d
<1>9. Q64 * (owed + d) = Q64 * owed + Q64 * d
  BY <1>3, <1>5 DEF d
<1>10. Q64 * new <= Q64 * owed + l * Saved[p]
  <2>1. new \in Int /\ d \in Int /\ l * delta \in Int /\ Q64 * d <= l * delta
    BY <1>3, <1>4, <1>5, <1>6, FeesAssumption DEF U64, d
  <2> QED
    BY <1>3, <1>7, <1>8, <1>9, <2>1
<1> QED
  BY <1>2, <1>6, <1>10 DEF l, owed

-----------------------------------------------------------------------------
\* The actions, one by one.

\* What the invariant says, in the terms of the lemmas.
LEMMA FInvTypes ==
  ASSUME FInv
  PROVE  /\ IInv /\ FeesTypeOK /\ GrowthOK /\ OneLedger
         /\ Moneys(ledger) /\ Moneys(loop)
         /\ ClaimTypes(fee_owed_a, positions, Saved)
         /\ ClaimTypes(fee_owed_a, positions, Running)
<1>1. IInv /\ FeesTypeOK /\ GrowthOK /\ OneLedger
  BY GrowthTypes DEF FInv
<1>2. Moneys(ledger) /\ Moneys(loop)
  BY <1>1 DEF FeesTypeOK, Ledger, Moneys
<1> QED
  BY <1>1, <1>2, UnclaimedNow, PositionsAreAccounts DEF ClaimTypes, FeesTypeOK

\* The same of the next state.
LEMMA ClaimTypesNext ==
  ASSUME IInv', FeesTypeOK'
  PROVE  /\ GrowthOK'
         /\ ClaimTypes(fee_owed_a', positions', Saved')
         /\ ClaimTypes(fee_owed_a', positions', Running')
<1>1. GrowthOK'
  BY DEF FeesTypeOK, GrowthOK, FeeCounts, Ledger
<1> QED
  BY <1>1, UnclaimedNext, PlacedNext DEF ClaimTypes, FeesTypeOK, Placed

SameMoney(old, new) ==
    /\ new.protocol_fee_owed_a = old.protocol_fee_owed_a
    /\ new.vault_a = old.vault_a

\* An action that changes neither what is owed, nor what is unclaimed, nor the
\* liquidity it is multiplied with.
LEMMA ClaimsKept ==
  ASSUME FInv, IInv', FeesTypeOK', OneLedger',
         Saved' = Saved, Running' = Running, UNCHANGED fee_owed_a,
         SameMoney(ledger, ledger'), SameMoney(loop, loop'),
         \A p \in PositionId : positions'[p].liquidity = positions[p].liquidity
  PROVE  FInv'
<1>1. \A u \in {Saved, Running} : \A p \in PositionId :
         Q64 * fee_owed_a'[p] + positions'[p].liquidity * u[p]
           = Q64 * fee_owed_a[p] + positions[p].liquidity * u[p]
  OBVIOUS
<1>2. \A u \in {Saved, Running} :
         Claims(fee_owed_a', positions', u) = Claims(fee_owed_a, positions, u)
  BY <1>1 DEF Claims, Worth
<1>3. Backed(ledger', fee_owed_a', positions', Saved')
  BY <1>2 DEF FInv, Backed, SameMoney
<1>4. Backed(loop', fee_owed_a', positions', Running')
  BY <1>2 DEF FInv, Backed, SameMoney
<1> QED
  BY <1>3, <1>4 DEF FInv

\* initialize_pool
LEMMA FeesInitInv == FeesInit => FInv
<1> SUFFICES ASSUME FeesInit PROVE FInv
  OBVIOUS
<1>1. IInv
  BY InitInv DEF FeesInit
<1>2. FeesTypeOK
  BY FeesAssumption, U128Nat DEF FeesInit, FeesTypeOK, NewLedger, Ledger, U128, U64
<1>3. GrowthOK /\ OneLedger
  BY <1>2, GrowthTypes DEF FeesInit, OneLedger
<1>4. \A p \in PositionId : positions[p].liquidity = 0
  BY DEF FeesInit, Init, ClosedPosition
<1>5. \A p \in PositionId : Saved[p] = 0 /\ Running[p] = 0 /\ fee_owed_a[p] = 0
  BY <1>4 DEF Saved, Running, Unclaimed, FeesInit
<1>6. /\ Claims(fee_owed_a, positions, Saved) = [p \in 1 .. N |-> 0]
      /\ Claims(fee_owed_a, positions, Running) = [p \in 1 .. N |-> 0]
  BY <1>4, <1>5, FeesAssumption DEF Claims, Worth, PositionId
<1>7. /\ Backed(ledger, fee_owed_a, positions, Saved)
      /\ Backed(loop, fee_owed_a, positions, Running)
  BY <1>6, TotalZero, FeesAssumption DEF Backed, FeesInit, NewLedger
<1> QED
  BY <1>1, <1>2, <1>3, <1>7 DEF FInv

\* initialize_tick_array, and the begin of a swap.
LEMMA FeesUntouched ==
  ASSUME FInv, IInv', UNCHANGED feeVars, UNCHANGED <<pool, ticks, positions>>,
         swap'.in_progress => swap.in_progress \/ swap'.tick_index = pool.tick_current_index,
         swap.in_progress => UNCHANGED swap
  PROVE  FInv' /\ Saved' = Saved /\ Running' = Running
<1>1. IInv /\ FeesTypeOK /\ GrowthOK /\ OneLedger
  BY FInvTypes
<1>2. FeesTypeOK' /\ GrowthOK' /\ OneLedger'
  BY <1>1 DEF FeesTypeOK, GrowthOK, FeeCounts, OneLedger, feeVars
<1>3. LoopTick' = LoopTick
  BY DEF LoopTick
<1>4. SameGrowth(ledger, ledger') /\ SameGrowth(loop, loop')
  BY DEF SameGrowth, feeVars
<1>5. Saved' = Saved /\ Running' = Running
  BY <1>1, <1>2, <1>3, <1>4, GrowthKept DEF feeVars
<1> QED
  BY <1>2, <1>5, ClaimsKept DEF feeVars, SameMoney

\* open_position and close_position.
LEMMA EmptyPositionKeeps ==
  ASSUME FInv, IInv', NEW p \in PositionId,
         FeesClosePosition(p)
           \/ \E lower, upper \in UsableTicks : FeesOpenPosition(p, lower, upper)
  PROVE  FInv' /\ Saved' = Saved /\ Running' = Running
<1>1. IInv /\ FeesTypeOK /\ GrowthOK /\ OneLedger
  BY FInvTypes
<1>2. /\ UNCHANGED <<pool, ticks, swap, ledger, loop, fee_owed_a>>
      /\ positions[p].liquidity = 0 /\ positions'[p].liquidity = 0
      /\ \A q \in PositionId \ {p} :
            /\ positions'[q] = positions[q]
            /\ fee_growth_checkpoint_a'[q] = fee_growth_checkpoint_a[q]
      /\ fee_growth_checkpoint_a' \in [PositionId -> U128]
  <2>1. /\ positions \in [PositionId -> Position]
        /\ fee_growth_checkpoint_a \in [PositionId -> U128]
        /\ 0 \in U128
    BY <1>1, PositionsAreAccounts, U128Nat DEF FeesTypeOK, U128
  <2>2. CASE FeesClosePosition(p)
    BY <2>1, <2>2 DEF FeesClosePosition, ClosePosition, ClosedPosition
  <2>3. CASE \E lower, upper \in UsableTicks : FeesOpenPosition(p, lower, upper)
    <3>1. positions[p].liquidity = 0
      BY <1>1, <2>3
      DEF FeesOpenPosition, OpenPosition, IInv, PositionsOK, WellFormed
    <3> QED
      BY <2>1, <2>3, <3>1 DEF FeesOpenPosition, OpenPosition, feeVars
  <2> QED
    BY <2>2, <2>3
<1>3. FeesTypeOK' /\ GrowthOK' /\ OneLedger'
  BY <1>1, <1>2 DEF FeesTypeOK, GrowthOK, FeeCounts, OneLedger
<1>4. LoopTick' = LoopTick /\ SameGrowth(ledger, ledger') /\ SameGrowth(loop, loop')
  BY <1>2 DEF LoopTick, SameGrowth
<1>5. Saved' = Saved /\ Running' = Running
  BY <1>1, <1>2, <1>3, <1>4, GrowthKept
<1> QED
  BY <1>2, <1>3, <1>5, ClaimsKept DEF SameMoney

\* What an update settles becomes a debt, less what is rounded away.
LEMMA ClaimSettled ==
  ASSUME FInv, IInv', FeesTypeOK', OneLedger', NEW p \in PositionId,
         positions[p].open, UpdateFees(p),
         SameMoney(ledger, ledger'), SameMoney(ledger, loop'),
         \A q \in PositionId \ {p} : positions'[q] = positions[q],
         Saved' = [Saved EXCEPT ![p] = 0], Running' = [Saved EXCEPT ![p] = 0]
  PROVE  FInv'
<1>1. /\ IInv /\ FeesTypeOK /\ Moneys(ledger)
      /\ ClaimTypes(fee_owed_a, positions, Saved)
  BY FInvTypes
<1>2. /\ ClaimTypes(fee_owed_a', positions', Saved')
      /\ ClaimTypes(fee_owed_a', positions', Running')
  BY ClaimTypesNext
<1>3. Running' = Saved' /\ Saved'[p] = 0 /\ \A q \in PositionId \ {p} : Saved'[q] = Saved[q]
  BY <1>1 DEF ClaimTypes
<1>4. Total(Claims(fee_owed_a', positions', Saved'))
        <= Total(Claims(fee_owed_a, positions, Saved))
  <2> DEFINE owed == fee_owed_a
             unclaimed == Saved
             left == fee_owed_a'
             accounts == positions'
             nothing == Saved'
  <2>1. /\ Q64 * left[p] <= Q64 * owed[p] + positions[p].liquidity * unclaimed[p]
        /\ \A q \in PositionId \ {p} : left[q] = owed[q]
    BY <1>1, UpdateCovered
  <2>2. WorthTypes(Q64, owed, positions, unclaimed)
    BY <1>1, ClaimsType, Zenon
  <2>3. WorthTypes(Q64, left, accounts, nothing)
    BY <1>2, ClaimsType, Zenon
  <2>4. /\ nothing[p] = 0
        /\ \A q \in PositionId \ {p} :
              left[q] = owed[q] /\ accounts[q] = positions[q] /\ nothing[q] = unclaimed[q]
    BY <1>3, <2>1, Zenon
  <2> HIDE DEF owed, unclaimed, left, accounts, nothing
  <2>5. Total(Worth(Q64, left, accounts, nothing)) <= Total(Worth(Q64, owed, positions, unclaimed))
    BY <2>1, <2>2, <2>3, <2>4, WorthSettled
  <2> QED
    BY <2>5, Zenon DEF Claims, owed, unclaimed, left, accounts, nothing
<1>5. Backed(ledger, fee_owed_a, positions, Saved)
  BY DEF FInv
<1>6. Backed(ledger', fee_owed_a', positions', Saved')
  BY <1>1, <1>2, <1>4, <1>5, BackedKept DEF SameMoney
<1>7. Backed(loop', fee_owed_a', positions', Running')
  BY <1>1, <1>2, <1>3, <1>4, <1>5, BackedKept DEF SameMoney
<1> QED
  BY <1>6, <1>7 DEF FInv

\* increase_liquidity and decrease_liquidity.
LEMMA FeesModifyKeeps ==
  ASSUME FInv, IInv', NEW p \in PositionId, NEW delta \in Int,
         ModifyLiquidity(p, delta), FeesModifyLiquidity(p, delta)
  PROVE  /\ FInv'
         /\ Saved' = [Saved EXCEPT ![p] = 0] /\ Running' = [Saved EXCEPT ![p] = 0]
<1>1. IInv /\ FeesTypeOK /\ GrowthOK /\ OneLedger
  BY FInvTypes
<1>2. GrowthOK'
  BY <1>1, ModifyTypes
<1>3. /\ positions[p].open /\ UpdateFees(p) /\ ~swap.in_progress /\ UNCHANGED swap
      /\ loop' = ledger'
      /\ pool'.tick_current_index = pool.tick_current_index
  <2>1. pool \in Pool
    BY <1>1 DEF IInv, TypeOK
  <2> QED
    BY <2>1 DEF ModifyLiquidity, FeesModifyLiquidity, Pool
<1>4. /\ positions'[p].tick_lower_index = positions[p].tick_lower_index
      /\ positions'[p].tick_upper_index = positions[p].tick_upper_index
      /\ \A q \in PositionId \ {p} : positions'[q] = positions[q]
  BY <1>1, PositionsAreAccounts DEF ModifyLiquidity, Position
<1>5. Saved' = [Saved EXCEPT ![p] = 0] /\ Running' = [Saved EXCEPT ![p] = 0]
  BY <1>1, <1>2, <1>3, <1>4, FeesTickKept, GrowthSettled
<1>6. SameMoney(ledger, ledger') /\ SameMoney(ledger, loop')
  BY DEF FeesModifyLiquidity, SameMoney
<1>7. ledger' \in Ledger
  <2>1. ledger \in Ledger /\ ledger'.fee_growth_outside_a \in [UsableTicks -> U128]
    BY <1>1, <1>2 DEF FeesTypeOK, GrowthOK, FeeCounts
  <2> QED
    BY <2>1 DEF FeesModifyLiquidity, Ledger
<1>8. FeesTypeOK' /\ OneLedger'
  BY <1>1, <1>2, <1>3, <1>7, UpdateCovered DEF FeesTypeOK, GrowthOK, OneLedger
<1> QED
  BY <1>3, <1>4, <1>5, <1>6, <1>8, ClaimSettled

\* update_fees_and_rewards
LEMMA UpdateFeesAndRewardsKeeps ==
  ASSUME FInv, IInv', NEW p \in PositionId, UpdateFeesAndRewards(p)
  PROVE  /\ FInv'
         /\ Saved' = [Saved EXCEPT ![p] = 0] /\ Running' = [Saved EXCEPT ![p] = 0]
<1>1. IInv /\ FeesTypeOK /\ GrowthOK /\ OneLedger
  BY FInvTypes
<1>2. /\ positions[p].open /\ UpdateFees(p) /\ ~swap.in_progress
      /\ UNCHANGED vars /\ UNCHANGED <<ledger, loop>> /\ loop' = ledger'
  BY <1>1 DEF UpdateFeesAndRewards, OneLedger
<1>3. fee_growth_checkpoint_a' \in [PositionId -> U128]
  BY <1>1, <1>2, InsidePosition DEF UpdateFees, GrowthOK
<1>4. FeesTypeOK' /\ GrowthOK' /\ OneLedger'
  BY <1>1, <1>2, <1>3, UpdateCovered DEF FeesTypeOK, GrowthOK, OneLedger, FeeCounts, vars
<1>5. Saved' = [Saved EXCEPT ![p] = 0] /\ Running' = [Saved EXCEPT ![p] = 0]
  BY <1>1, <1>2, <1>4, GrowthSettled DEF vars
<1>6. SameMoney(ledger, ledger') /\ SameMoney(ledger, loop')
  BY <1>1, <1>2 DEF OneLedger, SameMoney
<1> QED
  BY <1>2, <1>4, <1>5, <1>6, ClaimSettled DEF vars

\* A debt is part of the claims, and so the vault has it.
LEMMA DebtsBacked ==
  ASSUME FInv
  PROVE  /\ ledger.protocol_fee_owed_a <= ledger.vault_a
         /\ \A p \in PositionId : fee_owed_a[p] <= ledger.vault_a
<1>1. /\ IInv /\ Moneys(ledger) /\ ClaimTypes(fee_owed_a, positions, Saved)
      /\ Backed(ledger, fee_owed_a, positions, Saved)
  BY FInvTypes DEF FInv
<1> DEFINE claims == Claims(fee_owed_a, positions, Saved)
           pf == ledger.protocol_fee_owed_a
           vault == ledger.vault_a
<1>2. claims \in [1 .. N -> Nat] /\ Total(claims) \in Nat
  BY <1>1, ClaimsType
<1>3. pf \in Nat /\ vault \in Nat /\ Q64 \in Nat \ {0}
  BY <1>1, FeesAssumption DEF Moneys, U64
<1>4. Q64 * pf + Total(claims) <= Q64 * vault
  BY <1>1 DEF Backed
<1>5. \A p \in PositionId : Q64 * fee_owed_a[p] <= claims[p] /\ fee_owed_a[p] \in Nat
  <2> TAKE p \in PositionId
  <2>1. fee_owed_a[p] \in Nat /\ Saved[p] \in U128
    BY <1>1, FeesAssumption DEF ClaimTypes, U64
  <2>2. positions[p].liquidity \in Nat /\ Saved[p] \in Nat
    BY <1>1, <2>1, PositionTypes, U128Number DEF ClaimTypes
  <2>3. positions[p].liquidity * Saved[p] \in Nat /\ Q64 * fee_owed_a[p] \in Nat
    BY <1>3, <2>1, <2>2
  <2>4. claims[p] = Q64 * fee_owed_a[p] + positions[p].liquidity * Saved[p]
    BY DEF Claims, Worth
  <2> QED
    BY <2>1, <2>3, <2>4
<1> HIDE DEF claims, pf, vault
<1>6. pf <= vault
  <2>1. Q64 * pf \in Nat /\ Q64 * vault \in Nat
    BY <1>3
  <2>2. Q64 * pf <= Q64 * vault
    BY <1>2, <1>4, <2>1
  <2> QED
    BY <1>3, <2>2, Cancel
<1>7. ASSUME NEW p \in PositionId PROVE fee_owed_a[p] <= vault
  <2>1. claims[p] <= Total(claims)
    BY <1>2, TotalMember DEF PositionId
  <2>2. claims[p] \in Nat
    BY <1>2 DEF PositionId
  <2>3. /\ Q64 * pf \in Nat /\ Q64 * vault \in Nat
        /\ Q64 * fee_owed_a[p] \in Nat /\ Q64 * fee_owed_a[p] <= claims[p]
    BY <1>3, <1>5
  <2>4. Q64 * fee_owed_a[p] <= Q64 * vault
    BY <1>2, <1>4, <2>1, <2>2, <2>3
  <2> QED
    BY <1>3, <1>5, <2>4, Cancel
<1> QED
  BY <1>6, <1>7 DEF pf, vault

\* collect_fees: a debt is paid.
LEMMA CollectFeesKeeps ==
  ASSUME FInv, IInv', NEW p \in PositionId, CollectFees(p)
  PROVE  FInv' /\ Saved' = Saved /\ Running' = Running
<1>1. /\ IInv /\ FeesTypeOK /\ GrowthOK /\ OneLedger /\ Moneys(ledger)
      /\ ClaimTypes(fee_owed_a, positions, Saved)
      /\ Backed(ledger, fee_owed_a, positions, Saved)
  BY FInvTypes DEF FInv
<1> DEFINE owed == fee_owed_a[p]
           vault == ledger.vault_a
<1>2. /\ owed \in Nat /\ vault \in U64 /\ vault \in Nat /\ owed <= vault
      /\ Q64 \in Nat /\ 0 \in U64 /\ vault - owed \in U64
  BY <1>1, DebtsBacked, FeesAssumption DEF FeesTypeOK, Moneys, U64
<1>3. /\ ledger' = [ledger EXCEPT !.vault_a = vault - owed]
      /\ loop' = ledger' /\ loop = ledger
      /\ fee_owed_a' = [fee_owed_a EXCEPT ![p] = 0]
      /\ UNCHANGED vars /\ UNCHANGED fee_growth_checkpoint_a
  BY <1>1 DEF CollectFees, OneLedger
<1>4. FeesTypeOK' /\ OneLedger'
  BY <1>1, <1>2, <1>3 DEF FeesTypeOK, Ledger, OneLedger
<1>5. Saved' = Saved /\ Running' = Running
  <2>1. GrowthOK'
    BY <1>4, ClaimTypesNext
  <2>2. SameGrowth(ledger, ledger') /\ SameGrowth(loop, loop') /\ LoopTick' = LoopTick
    BY <1>3 DEF SameGrowth, LoopTick, vars
  <2> QED
    BY <1>1, <1>3, <2>1, <2>2, GrowthKept DEF vars
<1>6. Running = Saved
  BY <1>1, <1>3 DEF Running, Saved, LoopTick, CollectFees
<1> DEFINE claims == Claims(fee_owed_a, positions, Saved)
           rest == Claims(fee_owed_a', positions', Saved')
<1>7. Total(rest) = Total(claims) - Q64 * owed
  <2>1. ClaimTypes(fee_owed_a', positions', Saved')
    BY <1>4, ClaimTypesNext
  <2>2. /\ fee_owed_a'[p] = fee_owed_a[p] - owed
        /\ \A q \in PositionId \ {p} : fee_owed_a'[q] = fee_owed_a[q]
    BY <1>1, <1>2, <1>3 DEF ClaimTypes
  <2>3. WorthTypes(Q64, fee_owed_a', positions, Saved)
    BY <1>3, <1>5, <2>1, ClaimsType DEF vars
  <2>4. WorthTypes(Q64, fee_owed_a, positions, Saved)
    BY <1>1, ClaimsType
  <2>5. rest = Claims(fee_owed_a', positions, Saved)
    BY <1>3, <1>5 DEF vars
  <2> HIDE DEF rest, owed
  <2> QED
    BY <1>2, <2>2, <2>3, <2>4, <2>5, WorthPaid DEF Claims
<1>8. Backed(ledger', fee_owed_a', positions', Saved')
  <2>1. Total(claims) \in Nat /\ Q64 * owed \in Int /\ Q64 * vault \in Int
    BY <1>1, <1>2, ClaimsType
  <2>2. /\ ledger'.protocol_fee_owed_a = ledger.protocol_fee_owed_a
        /\ ledger'.vault_a = vault - owed
    BY <1>1, <1>3 DEF FeesTypeOK, Ledger
  <2>3. Q64 * (vault - owed) = Q64 * vault - Q64 * owed
    BY <1>2
  <2>4. Q64 * ledger.protocol_fee_owed_a + Total(claims) <= Q64 * vault
    BY <1>1 DEF Backed
  <2>5. Q64 * ledger.protocol_fee_owed_a \in Int
    BY <1>1, <1>2 DEF Moneys, U64
  <2> HIDE DEF claims, rest, vault, owed
  <2>6. Q64 * ledger.protocol_fee_owed_a + Total(rest) <= Q64 * (vault - owed)
    BY <1>7, <2>1, <2>3, <2>4, <2>5
  <2> QED
    BY <2>2, <2>6 DEF Backed, rest
<1>9. Backed(loop', fee_owed_a', positions', Running')
  BY <1>3, <1>5, <1>6, <1>8
<1> QED
  BY <1>4, <1>5, <1>8, <1>9 DEF FInv

\* collect_protocol_fees: so is the debt to the protocol.
LEMMA CollectProtocolFeesKeeps ==
  ASSUME FInv, IInv', CollectProtocolFees
  PROVE  FInv' /\ Saved' = Saved /\ Running' = Running
<1>1. /\ IInv /\ FeesTypeOK /\ GrowthOK /\ OneLedger /\ Moneys(ledger)
      /\ ClaimTypes(fee_owed_a, positions, Saved)
      /\ Backed(ledger, fee_owed_a, positions, Saved)
  BY FInvTypes DEF FInv
<1> DEFINE pf == ledger.protocol_fee_owed_a
           vault == ledger.vault_a
           claims == Claims(fee_owed_a, positions, Saved)
<1>2. /\ pf \in Nat /\ vault \in Nat /\ pf <= vault
      /\ Q64 \in Nat /\ 0 \in U64 /\ vault - pf \in U64
  BY <1>1, DebtsBacked, FeesAssumption DEF Moneys, U64
<1>3. /\ ledger' = [ledger EXCEPT !.vault_a = vault - pf, !.protocol_fee_owed_a = 0]
      /\ loop' = ledger' /\ loop = ledger
      /\ UNCHANGED vars /\ UNCHANGED <<fee_growth_checkpoint_a, fee_owed_a>>
  BY <1>1 DEF CollectProtocolFees, OneLedger
<1>4. FeesTypeOK' /\ OneLedger'
  BY <1>1, <1>2, <1>3 DEF FeesTypeOK, Ledger, OneLedger
<1>5. Saved' = Saved /\ Running' = Running
  <2>1. GrowthOK'
    BY <1>4, ClaimTypesNext
  <2>2. SameGrowth(ledger, ledger') /\ SameGrowth(loop, loop') /\ LoopTick' = LoopTick
    BY <1>3 DEF SameGrowth, LoopTick, vars
  <2> QED
    BY <1>1, <1>3, <2>1, <2>2, GrowthKept DEF vars
<1>6. Running = Saved
  BY <1>1, <1>3 DEF Running, Saved, LoopTick, CollectProtocolFees
<1>7. Backed(ledger', fee_owed_a', positions', Saved')
  <2>1. /\ Total(claims) \in Nat /\ Q64 * pf \in Int /\ Q64 * vault \in Int
        /\ Q64 * (vault - pf) = Q64 * vault - Q64 * pf /\ Q64 * 0 = 0
    BY <1>1, <1>2, ClaimsType
  <2>2. ledger'.protocol_fee_owed_a = 0 /\ ledger'.vault_a = vault - pf
    BY <1>1, <1>3 DEF FeesTypeOK, Ledger
  <2>3. Q64 * pf + Total(claims) <= Q64 * vault
    BY <1>1 DEF Backed
  <2>4. Claims(fee_owed_a', positions', Saved') = claims
    BY <1>3, <1>5 DEF vars
  <2> HIDE DEF claims, vault, pf
  <2>5. Q64 * 0 + Total(claims) <= Q64 * (vault - pf)
    BY <2>1, <2>3
  <2> QED
    BY <2>2, <2>4, <2>5 DEF Backed
<1>8. Backed(loop', fee_owed_a', positions', Running')
  BY <1>3, <1>5, <1>6, <1>7
<1> QED
  BY <1>4, <1>5, <1>7, <1>8 DEF FInv

\* A step of a swap: the claims grow by no more than the fee, less the share of
\* the protocol.
LEMMA ClaimsAccrue ==
  ASSUME FInv, IInv', FeesTypeOK',
         NEW k, NEW next, NEW next_price, NEW amount_remains,
         NEW fee \in Nat, TakesFee(k, next, next_price, amount_remains, fee)
  PROVE  Total(Claims(fee_owed_a', positions', Running'))
            <= Total(Claims(fee_owed_a, positions, Running))
                 + (fee - calculate_protocol_fee(fee)) * Q64
<1>1. /\ IInv /\ FeesTypeOK /\ ClaimTypes(fee_owed_a, positions, Running)
      /\ swap.in_progress /\ swap.liquidity \in Nat /\ swap.tick_index \in Int
  BY FInvTypes, SwapType, U128Number, TickInts DEF TakesFee, Iterates, SwapContinues
<1>2. /\ UNCHANGED <<positions, fee_owed_a>>
      /\ ClaimTypes(fee_owed_a', positions', Running')
  BY ClaimTypesNext DEF TakesFee, SwapIteration
<1> DEFINE g == GrowthOf(fee)
           rest == (fee - calculate_protocol_fee(fee)) * Q64
           old == Total(Claims(fee_owed_a, positions, Running))
           new == Total(Claims(fee_owed_a', positions', Running'))
           active == Total(ActiveAt(positions, swap.tick_index))
<1>3. g \in Nat /\ swap.liquidity * g <= rest /\ rest \in Int
  <2>1. loop.fee_growth_global_a \in U128
    BY <1>1 DEF FeesTypeOK, Ledger
  <2>2. rest \in Int
    BY ProtocolShare, FeesAssumption
  <2> QED
    BY <1>1, <2>1, <2>2, GrowthCovered
<1>4. active = swap.liquidity
  BY <1>1 DEF IInv, SwapActiveLiquidity
<1>5. Running' = [p \in PositionId |->
                    IF Earning(p) THEN Wrap(Running[p] + g) ELSE Running[p]]
  BY <1>1, GrowthAccrues
<1>6. old \in Nat /\ new \in Nat
  BY <1>1, <1>2, ClaimsType
<1>7. new <= old + g * active
  <2>1. WorthTypes(Q64, fee_owed_a, positions, Running)
    BY <1>1, ClaimsType
  <2>2. WorthTypes(Q64, fee_owed_a, positions, Running')
    BY <1>2, ClaimsType
  <2> HIDE DEF g
  <2> QED
    BY <1>1, <1>2, <1>3, <1>5, <2>1, <2>2, WorthAccrues DEF Earning, Claims
<1> HIDE DEF g, rest, old, new, active
<1>8. g * active = swap.liquidity * g /\ swap.liquidity * g \in Int
  BY <1>1, <1>3, <1>4
<1>9. new <= old + rest
  BY <1>3, <1>6, <1>7, <1>8
<1> QED
  BY <1>9 DEF new, old, rest

\* swap: the vault takes the fee and so stays ahead of the claims.
LEMMA TakesFeeKeeps ==
  ASSUME FInv, IInv', NEW k, NEW next, NEW next_price, NEW amount_remains,
         NEW fee \in Nat, TakesFee(k, next, next_price, amount_remains, fee)
  PROVE  FInv'
<1>1. /\ IInv /\ FeesTypeOK /\ Moneys(loop)
      /\ ClaimTypes(fee_owed_a, positions, Running)
      /\ swap.in_progress
  BY FInvTypes DEF TakesFee, Iterates, SwapContinues
<1>2. FeesTypeOK'
  BY <1>1, StepTypes
<1>3. OneLedger'
  <2>1. swap \in Swap
    BY <1>1, SwapType
  <2> QED
    BY <1>1, <2>1 DEF OneLedger, TakesFee, SwapIteration, Advance, Swap
<1>4. Backed(ledger', fee_owed_a', positions', Saved')
  <2>1. Saved' = Saved
    BY <1>1, <1>2, GrowthAccrues
  <2> QED
    BY <2>1 DEF FInv, TakesFee, SwapIteration
<1>5. Backed(loop', fee_owed_a', positions', Running')
  <2> DEFINE share == calculate_protocol_fee(fee)
             pf == loop.protocol_fee_owed_a
             vault == loop.vault_a
             old == Total(Claims(fee_owed_a, positions, Running))
             new == Total(Claims(fee_owed_a', positions', Running'))
  <2>1. /\ loop'.protocol_fee_owed_a = (pf + share) % (MAX_U64 + 1)
        /\ loop'.vault_a = vault + fee
    BY DEF TakesFee, LoopAfter
  <2>2. /\ pf \in Nat /\ vault \in Nat /\ share \in Nat /\ Q64 \in Nat
        /\ pf + share \in Nat
    BY <1>1, ProtocolShare, FeesAssumption DEF Moneys, U64
  <2>3. /\ loop'.protocol_fee_owed_a \in Nat
        /\ loop'.protocol_fee_owed_a <= pf + share
    BY <2>1, <2>2, AmountShrinks DEF U64
  <2>4. old \in Nat /\ new \in Nat
    BY <1>1, <1>2, ClaimTypesNext, ClaimsType
  <2>5. new <= old + (fee - share) * Q64
    BY <1>2, ClaimsAccrue
  <2>6. Q64 * pf + old <= Q64 * vault
    BY DEF FInv, Backed
  <2> HIDE DEF share, pf, vault, old, new
  <2>7. Q64 * loop'.protocol_fee_owed_a <= Q64 * (pf + share)
    BY <2>2, <2>3
  <2>8. /\ Q64 * (pf + share) = Q64 * pf + Q64 * share
        /\ (fee - share) * Q64 = Q64 * fee - Q64 * share
        /\ Q64 * (vault + fee) = Q64 * vault + Q64 * fee
    BY <2>2
  <2>9. /\ Q64 * pf \in Int /\ Q64 * share \in Int /\ Q64 * fee \in Int
        /\ Q64 * vault \in Int /\ Q64 * loop'.protocol_fee_owed_a \in Int
    BY <2>2, <2>3
  <2>10. Q64 * loop'.protocol_fee_owed_a + new <= Q64 * (vault + fee)
    BY <2>4, <2>5, <2>6, <2>7, <2>8, <2>9
  <2> QED
    BY <2>1, <2>10 DEF Backed, new
<1> QED
  BY <1>2, <1>3, <1>4, <1>5 DEF FInv

\* The end of a swap: what the loop has becomes what the pool has.
LEMMA FeesSwapEndKeeps ==
  ASSUME FInv, IInv', FeesSwapEnd
  PROVE  FInv' /\ Saved' = Running /\ Running' = Running
<1>1. /\ IInv /\ FeesTypeOK /\ GrowthOK /\ swap.in_progress
  BY FInvTypes DEF FeesSwapEnd, SwapEnd
<1>2. /\ UNCHANGED <<ticks, positions, loop, fee_growth_checkpoint_a, fee_owed_a>>
      /\ ledger' = loop /\ swap' = NoSwap
      /\ pool'.tick_current_index = swap.tick_index
  <2>1. pool \in Pool
    BY <1>1 DEF IInv, TypeOK
  <2> QED
    BY <2>1 DEF FeesSwapEnd, SwapEnd, Pool
<1>3. FeesTypeOK' /\ OneLedger' /\ GrowthOK'
  BY <1>1, <1>2 DEF FeesTypeOK, OneLedger, GrowthOK, FeeCounts
<1>4. LoopTick = swap.tick_index /\ LoopTick' = swap.tick_index
  BY <1>1, <1>2 DEF LoopTick, NoSwap
<1>5. Saved' = Running /\ Running' = Running
  BY <1>1, <1>2, <1>3, <1>4, UnclaimedNow, UnclaimedNext
<1> QED
  BY <1>2, <1>3, <1>5 DEF FInv

\* A swap that fails: what the pool has becomes what a loop would begin with.
LEMMA FeesSwapAbortKeeps ==
  ASSUME FInv, IInv', FeesSwapAbort
  PROVE  FInv' /\ Saved' = Saved /\ Running' = Saved
<1>1. /\ IInv /\ FeesTypeOK /\ GrowthOK
  BY FInvTypes
<1>2. /\ UNCHANGED <<pool, ticks, positions, ledger, fee_growth_checkpoint_a, fee_owed_a>>
      /\ loop' = ledger /\ swap' = NoSwap
  BY DEF FeesSwapAbort, SwapFail, SwapReject
<1>3. FeesTypeOK' /\ OneLedger' /\ GrowthOK'
  BY <1>1, <1>2 DEF FeesTypeOK, OneLedger, GrowthOK, FeeCounts
<1>4. LoopTick' = pool.tick_current_index
  BY <1>2 DEF LoopTick, NoSwap
<1>5. Saved' = Saved /\ Running' = Saved
  BY <1>1, <1>2, <1>3, <1>4, UnclaimedNow, UnclaimedNext
<1> QED
  BY <1>2, <1>3, <1>5 DEF FInv
-----------------------------------------------------------------------------
\* Every step.

\* An iteration of the loop takes some fee.
LEMMA FeesSwapStepTakes ==
  ASSUME FeesSwapStep
  PROVE  /\ SwapStep
         /\ \E k \in DOMAIN swap.arrays, next \in TickIndex, next_price \in SqrtPrice,
               amount_remains \in BOOLEAN, fee \in Nat :
                  TakesFee(k, next, next_price, amount_remains, fee)
<1>1. /\ SwapContinues
      /\ UNCHANGED <<ledger, fee_growth_checkpoint_a, fee_owed_a>>
  BY DEF FeesSwapStep
<1>2. PICK k \in DOMAIN swap.arrays, next \in TickIndex :
         /\ NextTickFound(k, next)
         /\ \E next_price \in SqrtPrice, amount_remains \in BOOLEAN,
               fee \in FeeAmounts \union {0} :
               /\ SwapIteration(k, next, next_price, amount_remains)
               /\ loop.vault_a + fee <= MAX_U64
               /\ loop' = LoopAfter(k, next, next_price, fee)
  BY DEF FeesSwapStep
<1>3. PICK next_price \in SqrtPrice, amount_remains \in BOOLEAN,
           fee \in FeeAmounts \union {0} :
         /\ SwapIteration(k, next, next_price, amount_remains)
         /\ loop.vault_a + fee <= MAX_U64
         /\ loop' = LoopAfter(k, next, next_price, fee)
  BY <1>2
<1>4. fee \in Nat
  BY FeesAssumption
<1>5. TakesFee(k, next, next_price, amount_remains, fee)
  BY <1>1, <1>2, <1>3 DEF TakesFee, Iterates, SwapIteration
<1>6. SwapStep
  BY <1>1, <1>2, <1>3 DEF SwapStep
<1> QED
  BY <1>4, <1>5, <1>6

\* The fees ride on the steps of the pool: none is added, none is changed.
LEMMA FeesStepIsPoolStep == [FeesNext]_<<vars, feeVars>> => [Next]_vars
<1> SUFFICES ASSUME FeesNext, vars' # vars
             PROVE  Next
  BY DEF vars
<1>1. ASSUME NEW p \in PositionId, UpdateFeesAndRewards(p) \/ CollectFees(p)
      PROVE  FALSE
  BY <1>1 DEF UpdateFeesAndRewards, CollectFees
<1>2. CASE CollectProtocolFees
  BY <1>2 DEF CollectProtocolFees
<1>3. CASE FeesSwapStep
  BY <1>3, FeesSwapStepTakes DEF Next
<1>4. CASE FeesSwapEnd \/ FeesSwapAbort
  BY <1>4 DEF FeesSwapEnd, FeesSwapAbort, Next
<1>5. ASSUME NEW p \in PositionId, NEW amount \in LiquidityAmounts,
             FeesIncreaseLiquidity(p, amount) \/ FeesDecreaseLiquidity(p, amount)
      PROVE  Next
  BY <1>5 DEF FeesIncreaseLiquidity, FeesDecreaseLiquidity, Next
<1>6. ASSUME NEW p \in PositionId, FeesClosePosition(p)
      PROVE  Next
  BY <1>6 DEF FeesClosePosition, Next
<1>7. ASSUME NEW p \in PositionId, NEW lower \in UsableTicks, NEW upper \in UsableTicks,
             FeesOpenPosition(p, lower, upper)
      PROVE  Next
  BY <1>7 DEF FeesOpenPosition, Next
<1>8. ASSUME NEW start \in StartTicks, InitializeTickArray(start)
      PROVE  Next
  BY <1>8 DEF Next
<1>9. ASSUME NEW a_to_b \in BOOLEAN, NEW limit \in SqrtPriceLimits,
             NEW arrays \in SwapTickSequence(tick_arrays),
             SwapStart(a_to_b, limit, arrays)
      PROVE  Next
  BY <1>9 DEF Next
<1> QED
  BY <1>1, <1>2, <1>3, <1>4, <1>5, <1>6, <1>7, <1>8, <1>9 DEF FeesNext

\* A change of liquidity, as a deposit or a withdrawal makes it.
LEMMA DepositOrWithdrawal ==
  ASSUME NEW p \in PositionId, NEW amount \in LiquidityAmounts,
         FeesIncreaseLiquidity(p, amount) \/ FeesDecreaseLiquidity(p, amount)
  PROVE  \E delta \in Int : ModifyLiquidity(p, delta) /\ FeesModifyLiquidity(p, delta)
<1>1. amount \in Int /\ -amount \in Int
  BY LiquidityAssumption
<1> QED
  BY <1>1 DEF FeesIncreaseLiquidity, FeesDecreaseLiquidity,
              IncreaseLiquidity, DecreaseLiquidity

\* A step that leaves the fees, the ticks and the positions alone.
LEMMA FeesUntouchedBy ==
  ASSUME FInv, IInv',
         \/ \E start \in StartTicks : InitializeTickArray(start) /\ UNCHANGED feeVars
         \/ \E a_to_b \in BOOLEAN, limit \in SqrtPriceLimits,
               arrays \in SwapTickSequence(tick_arrays) :
                  SwapStart(a_to_b, limit, arrays) /\ UNCHANGED feeVars
         \/ UNCHANGED <<vars, feeVars>>
  PROVE  FInv' /\ Saved' = Saved /\ Running' = Running
<1>1. /\ UNCHANGED feeVars /\ UNCHANGED <<pool, ticks, positions>>
      /\ swap'.in_progress => swap.in_progress \/ swap'.tick_index = pool.tick_current_index
      /\ swap.in_progress => UNCHANGED swap
  BY DEF InitializeTickArray, SwapStart, vars
<1> QED
  BY <1>1, FeesUntouched

\* Every step preserves the invariant.
LEMMA FeesNextInv == FInv /\ [FeesNext]_<<vars, feeVars>> => FInv'
<1> SUFFICES ASSUME FInv, [FeesNext]_<<vars, feeVars>> PROVE FInv'
  OBVIOUS
<1>1. IInv'
  BY FeesStepIsPoolStep, NextInv DEF FInv
<1>2. ASSUME \/ \E start \in StartTicks : InitializeTickArray(start) /\ UNCHANGED feeVars
             \/ \E a_to_b \in BOOLEAN, limit \in SqrtPriceLimits,
                   arrays \in SwapTickSequence(tick_arrays) :
                      SwapStart(a_to_b, limit, arrays) /\ UNCHANGED feeVars
             \/ UNCHANGED <<vars, feeVars>>
      PROVE  FInv'
  BY <1>1, <1>2, FeesUntouchedBy
<1>3. ASSUME NEW p \in PositionId,
             FeesClosePosition(p)
               \/ \E lower, upper \in UsableTicks : FeesOpenPosition(p, lower, upper)
      PROVE  FInv'
  BY <1>1, <1>3, EmptyPositionKeeps
<1>4. ASSUME NEW p \in PositionId, UpdateFeesAndRewards(p) PROVE FInv'
  BY <1>1, <1>4, UpdateFeesAndRewardsKeeps
<1>5. ASSUME NEW p \in PositionId, CollectFees(p) PROVE FInv'
  BY <1>1, <1>5, CollectFeesKeeps
<1>6. ASSUME NEW p \in PositionId, NEW amount \in LiquidityAmounts,
             FeesIncreaseLiquidity(p, amount) \/ FeesDecreaseLiquidity(p, amount)
      PROVE  FInv'
  BY <1>1, <1>6, DepositOrWithdrawal, FeesModifyKeeps
<1>7. CASE CollectProtocolFees
  BY <1>1, <1>7, CollectProtocolFeesKeeps
<1>8. CASE FeesSwapStep
  BY <1>1, <1>8, FeesSwapStepTakes, TakesFeeKeeps
<1>9. CASE FeesSwapEnd
  BY <1>1, <1>9, FeesSwapEndKeeps
<1>10. CASE FeesSwapAbort
  BY <1>1, <1>10, FeesSwapAbortKeeps
<1>11. CASE FeesNext
  BY <1>2, <1>3, <1>4, <1>5, <1>6, <1>7, <1>8, <1>9, <1>10, <1>11 DEF FeesNext
<1> QED
  BY <1>2, <1>11
-----------------------------------------------------------------------------
\* What the invariant is for.

\* What the positions would be owed if all were brought up to date.
Owed(unclaimed) ==
    [p \in PositionId |-> fee_owed_a[p] + FeeDelta(positions[p].liquidity, unclaimed[p])]

\* Rounding each claim down leaves them backed.
LEMMA OwedBacked ==
  FInv => /\ Owed(Saved) \in [1 .. N -> Nat]
          /\ ledger.protocol_fee_owed_a + Total(Owed(Saved)) <= ledger.vault_a
          /\ FeesCovered
<1> SUFFICES ASSUME FInv
             PROVE  /\ Owed(Saved) \in [1 .. N -> Nat]
                    /\ ledger.protocol_fee_owed_a + Total(Owed(Saved)) <= ledger.vault_a
                    /\ FeesCovered
  OBVIOUS
<1> DEFINE owed == Owed(Saved)
           claims == Claims(fee_owed_a, positions, Saved)
<1>1. ClaimTypes(fee_owed_a, positions, Saved) /\ Moneys(ledger)
  BY FInvTypes
<1>2. ASSUME NEW p \in PositionId
      PROVE  /\ owed[p] \in Nat
             /\ \E d \in Nat : /\ owed[p] = fee_owed_a[p] + d
                             /\ Q64 * d <= positions[p].liquidity * Saved[p]
  <2> DEFINE d == FeeDelta(positions[p].liquidity, Saved[p])
  <2>1. positions[p].liquidity \in Nat /\ Saved[p] \in U128 /\ fee_owed_a[p] \in Nat
    BY <1>1, PositionTypes DEF ClaimTypes, U64
  <2>2. d \in Nat /\ Q64 * d <= positions[p].liquidity * Saved[p]
    BY <2>1, U128Number, DeltaRoundsDown
  <2>3. owed[p] = fee_owed_a[p] + d
    BY DEF Owed
  <2> HIDE DEF d, owed
  <2> QED
    BY <2>1, <2>2, <2>3
<1>3. WorthTypes(Q64, fee_owed_a, positions, Saved) /\ Total(claims) \in Nat
  BY <1>1, ClaimsType
<1>4. owed \in [1 .. N -> Nat]
  BY <1>2 DEF Owed, PositionId
<1>5. Q64 * ledger.protocol_fee_owed_a + Total(claims) <= Q64 * ledger.vault_a
  BY DEF FInv, Backed
<1>6. FeesCovered <=> ledger.protocol_fee_owed_a + Total(owed) <= ledger.vault_a
  BY Zenon DEF FeesCovered, Owed, Saved
<1> HIDE DEF owed
<1>7. Q64 * Total(owed) <= Total(claims) /\ Total(owed) \in Nat
  BY <1>2, <1>3, <1>4, WorthRounded DEF Claims
<1> HIDE DEF claims
<1> DEFINE t == Total(owed)
           pf == ledger.protocol_fee_owed_a
           vault == ledger.vault_a
<1>8. /\ pf \in Nat /\ vault \in Nat /\ t \in Nat /\ Q64 \in Nat \ {0}
  BY <1>1, <1>7, FeesAssumption DEF Moneys, U64
<1>9. Q64 * pf + Q64 * t <= Q64 * vault
  <2>1. Q64 * t <= Total(claims)
    BY <1>7
  <2> HIDE DEF t, pf, vault
  <2>2. Q64 * pf \in Int /\ Q64 * t \in Int /\ Q64 * vault \in Int
    BY <1>8
  <2> QED
    BY <1>3, <1>5, <2>1, <2>2 DEF pf, vault
<1>10. pf + t <= vault
  <2> HIDE DEF t, pf, vault
  <2>1. Q64 * (pf + t) = Q64 * pf + Q64 * t
    BY <1>8
  <2>2. Q64 * (pf + t) <= Q64 * vault
    BY <1>9, <2>1
  <2>3. pf + t \in Int /\ vault \in Int
    BY <1>8
  <2> QED
    BY <1>8, <2>2, <2>3, Cancel
<1> QED
  BY <1>4, <1>6, <1>10 DEF owed

\* So bringing a position up to date adds to what it is owed, and nothing wraps.
LEMMA UpdateAdds ==
  ASSUME FInv, NEW p \in PositionId, positions[p].open, UpdateFees(p)
  PROVE  \A q \in PositionId : fee_owed_a'[q] >= fee_owed_a[q]
<1> DEFINE inside == GrowthInside(ledger, positions[p], pool.tick_current_index)
           delta == wrapping_sub(inside, fee_growth_checkpoint_a[p])
           l == positions[p].liquidity
           d == FeeDelta(l, delta)
<1>1. ClaimTypes(fee_owed_a, positions, Saved) /\ Moneys(ledger) /\ IInv /\ GrowthOK
  BY FInvTypes
<1>2. fee_owed_a' = [fee_owed_a EXCEPT ![p] = (@ + d) % (MAX_U64 + 1)]
  BY DEF UpdateFees
<1>3. /\ delta \in U128
      /\ Saved[p] = IF l = 0 THEN 0 ELSE delta
  BY <1>1, DeltaIsUnclaimed
<1>4. /\ delta \in Nat /\ l \in Nat /\ fee_owed_a[p] \in U64
      /\ \A q \in PositionId : fee_owed_a[q] \in Nat
  BY <1>1, <1>3, U128Number, PositionTypes DEF ClaimTypes, U64
<1>5. d \in Nat
  BY <1>4, DeltaRoundsDown
<1>6. d = FeeDelta(l, Saved[p])
  <2>1. CASE l = 0
    <3>1. l * delta = 0 /\ l * Saved[p] = 0
      BY <1>3, <1>4, <2>1
    <3> QED
      BY <3>1 DEF FeeDelta
  <2>2. CASE l # 0
    BY <1>3, <2>2
  <2> QED
    BY <2>1, <2>2
<1>7. Owed(Saved)[p] = fee_owed_a[p] + d
  BY <1>6 DEF Owed
<1>8. fee_owed_a[p] + d <= MAX_U64
  <2>1. Owed(Saved)[p] <= Total(Owed(Saved)) /\ Total(Owed(Saved)) \in Nat
    BY OwedBacked, TotalMember DEF PositionId
  <2>2. ledger.protocol_fee_owed_a \in 0 .. MAX_U64 /\ ledger.vault_a \in 0 .. MAX_U64
    BY <1>1 DEF Moneys, U64
  <2>3. ledger.protocol_fee_owed_a + Total(Owed(Saved)) <= ledger.vault_a
    BY OwedBacked
  <2> HIDE DEF d
  <2> QED
    BY <1>4, <1>5, <1>7, <2>1, <2>2, <2>3, FeesAssumption
<1> HIDE DEF d
<1>9. (fee_owed_a[p] + d) % (MAX_U64 + 1) = fee_owed_a[p] + d
  <2> DEFINE m == MAX_U64 + 1
             x == fee_owed_a[p] + d
  <2>1. m \in Nat \ {0} /\ x \in 0 .. m - 1
    BY <1>4, <1>5, <1>8, FeesAssumption
  <2> HIDE DEF m, x
  <2>2. x % m = x
    BY <2>1, ModSmall
  <2> QED
    BY <2>2 DEF m, x
<1>10. fee_owed_a'[p] = fee_owed_a[p] + d
  BY <1>1, <1>2, <1>9 DEF ClaimTypes
<1>11. \A q \in PositionId \ {p} : fee_owed_a'[q] = fee_owed_a[q]
  BY <1>1, <1>2 DEF ClaimTypes
<1> QED
  BY <1>4, <1>5, <1>10, <1>11
-----------------------------------------------------------------------------
\* FeeShares, step by step.

\* The positions as FeeShares has them.
Held == [p \in PositionId |-> [live |-> positions[p].liquidity > 0,
                               lower |-> positions[p].tick_lower_index,
                               upper |-> positions[p].tick_upper_index]]
Book == [tick |-> LoopTick, unclaimed |-> Running]
SavedBook == [tick |-> pool.tick_current_index, unclaimed |-> Saved]

\* Nothing the abstract specification speaks of has changed.
LEMMA SharesStutter ==
  ASSUME Saved' = Saved, Running' = Running, LoopTick' = LoopTick,
         pool'.tick_current_index = pool.tick_current_index,
         UNCHANGED positions, swap'.in_progress = swap.in_progress
  PROVE  UNCHANGED Shares!vars
<1>1. Held' = Held
  BY DEF Held
<1>2. Book' = Book /\ SavedBook' = SavedBook
  BY DEF Book, SavedBook
<1> QED
  BY <1>1, <1>2, Zenon DEF Shares!vars, Held, Book, SavedBook, Saved, Running

\* A change of one position, outside a swap, that leaves it nothing to claim.
LEMMA SharesClaim ==
  ASSUME FInv, IInv', NEW p \in PositionId,
         ~swap.in_progress, UNCHANGED swap,
         pool'.tick_current_index = pool.tick_current_index,
         positions' \in [PositionId -> Position],
         \A q \in PositionId \ {p} : positions'[q] = positions[q],
         Saved' = [Saved EXCEPT ![p] = 0], Running' = [Saved EXCEPT ![p] = 0]
  PROVE  Shares!Claim(p)
<1>1. Running = Saved /\ LoopTick = pool.tick_current_index
  BY DEF FInv, OneLedger, Running, Saved, LoopTick
<1>2. LoopTick' = LoopTick
  BY DEF LoopTick
<1>3. /\ Book' = [Book EXCEPT !.unclaimed[p] = 0]
      /\ SavedBook' = Book'
  BY <1>1, <1>2 DEF Book, SavedBook
<1>4. Held'[p] \in [live: BOOLEAN, lower: CurrentTick, upper: CurrentTick]
  <2>1. positions'[p] \in Position
    OBVIOUS
  <2>2. TickIndex \subseteq CurrentTick
    BY TickAssumption DEF TickIndex, CurrentTick
  <2>3. /\ positions'[p].tick_lower_index \in CurrentTick
        /\ positions'[p].tick_upper_index \in CurrentTick
    BY <2>1, <2>2 DEF Position
  <2>4. (positions'[p].liquidity > 0) \in BOOLEAN
    BY <2>1, PositionTypes
  <2> QED
    BY <2>3, <2>4 DEF Held
<1>5. Held' = [Held EXCEPT ![p] = Held'[p]]
  BY DEF Held
<1>6. /\ ~swap.in_progress /\ swap'.in_progress = swap.in_progress
      /\ \E holding \in {Held'[p]} \intersect [live: BOOLEAN, lower: CurrentTick,
                                                 upper: CurrentTick] :
            Held' = [Held EXCEPT ![p] = holding]
  BY <1>4, <1>5
<1> QED
  BY <1>3, <1>6, Zenon
  DEF Shares!Claim, Shares!Holding, Held, Book, SavedBook, Saved, Running
\* The end of a swap, either way.
LEMMA SharesEnd ==
  ASSUME FInv, IInv'
  PROVE  /\ FeesSwapEnd => Shares!Commit
         /\ FeesSwapAbort => Shares!Abort
<1>1. ASSUME FeesSwapEnd
      PROVE  Shares!Commit
  <2>1. /\ swap.in_progress /\ swap' = NoSwap /\ UNCHANGED positions
        /\ pool'.tick_current_index = swap.tick_index
    <3>1. pool \in Pool
      BY DEF FInv, IInv, TypeOK
    <3> QED
      BY <1>1, <3>1 DEF FeesSwapEnd, SwapEnd, Pool
  <2>2. Saved' = Running /\ Running' = Running
    BY <1>1, FeesSwapEndKeeps
  <2>3. LoopTick = swap.tick_index /\ LoopTick' = swap.tick_index
    BY <2>1 DEF LoopTick, NoSwap
  <2>4. /\ swap.in_progress /\ swap'.in_progress = FALSE
        /\ SavedBook' = Book /\ Held' = Held /\ Book' = Book
    BY <2>1, <2>2, <2>3 DEF SavedBook, Book, Held, NoSwap
  <2> QED
    BY <2>4, Zenon DEF Shares!Commit, Held, Book, SavedBook, Saved, Running
<1>2. ASSUME FeesSwapAbort
      PROVE  Shares!Abort
  <2>1. /\ swap.in_progress /\ swap' = NoSwap /\ UNCHANGED <<positions, pool>>
    BY <1>2 DEF FeesSwapAbort, SwapFail, SwapReject, SwapContinues
  <2>2. Saved' = Saved /\ Running' = Saved
    BY <1>2, FeesSwapAbortKeeps
  <2>3. LoopTick' = pool.tick_current_index
    BY <2>1 DEF LoopTick, NoSwap
  <2>4. /\ swap.in_progress /\ swap'.in_progress = FALSE
        /\ Book' = SavedBook /\ Held' = Held /\ SavedBook' = SavedBook
    BY <2>1, <2>2, <2>3 DEF SavedBook, Book, Held, NoSwap
  <2> QED
    BY <2>4, Zenon DEF Shares!Abort, Held, Book, SavedBook, Saved, Running
<1> QED
  BY <1>1, <1>2

\* An iteration of the loop: growth reaches exactly those in range.
LEMMA SharesTrade ==
  ASSUME FInv, IInv', NEW k, NEW next, NEW next_price, NEW amount_remains,
         NEW fee \in Nat, TakesFee(k, next, next_price, amount_remains, fee)
  PROVE  \E g \in Shares!Growth : Shares!Trade(g)
<1> DEFINE g == Wrap(GrowthOf(fee))
           after == [p \in PositionId |->
                       IF Earning(p) THEN wrapping_add(Running[p], g) ELSE Running[p]]
<1>1. /\ IInv /\ FeesTypeOK /\ swap.in_progress
      /\ swap.liquidity \in Nat /\ loop.fee_growth_global_a \in U128
      /\ Running \in [PositionId -> U128]
  BY FInvTypes, SwapType, U128Number
  DEF TakesFee, Iterates, SwapContinues, GrowthOK, FeeCounts, ClaimTypes
<1>2. FeesTypeOK' /\ UNCHANGED <<pool, positions>> /\ swap'.in_progress = TRUE
  <2>1. swap \in Swap
    BY <1>1, SwapType
  <2> QED
    BY <1>1, <2>1, StepTypes DEF TakesFee, SwapIteration, Advance, Swap
<1>3. GrowthOf(fee) \in Int /\ g \in U128
  <2>1. GrowthOf(fee) \in Nat
    BY <1>1, GrowthCovered
  <2> QED
    BY <2>1, WrapType
<1>4. /\ Saved' = Saved
      /\ Running' = [p \in PositionId |->
            IF Earning(p) THEN Wrap(Running[p] + GrowthOf(fee)) ELSE Running[p]]
  BY <1>1, <1>2, GrowthAccrues
<1>5. ASSUME NEW p \in PositionId
      PROVE  Wrap(Running[p] + GrowthOf(fee)) = wrapping_add(Running[p], g)
  <2> DEFINE r == Running[p]
             h == GrowthOf(fee)
  <2>1. r \in Int /\ h \in Int
    BY <1>1, <1>3, U128Number
  <2> HIDE DEF r, h
  <2>2. Wrap(h) \in Int
    BY <2>1, WrapType
  <2>3. Wrap(Wrap(h) + r) = Wrap(h + r)
    BY <2>1, WrapOnce
  <2>4. Wrap(h) + r = r + Wrap(h) /\ h + r = r + h
    BY <2>1, <2>2
  <2>5. Wrap(r + h) = Wrap(r + Wrap(h))
    BY <2>3, <2>4
  <2> QED
    BY <2>5 DEF r, h, wrapping_add, Modulus, Wrap, CounterSize
<1>6. Running' = after
  BY <1>4, <1>5
<1>7. LoopTick' \in CurrentTick
  <2>1. swap'.in_progress
    BY <1>2
  <2>2. swap' \in Swap
    BY <2>1 DEF IInv, TypeOK, NoSwap
  <2> QED
    BY <2>1, <2>2 DEF LoopTick, Swap
<1>8. \A p \in PositionId : Earning(p) <=>
         /\ Held[p].live /\ Held[p].lower <= Book.tick /\ Book.tick < Held[p].upper
  BY <1>1 DEF Earning, EarningAt, Held, Book, LoopTick
<1>9. Book' \in [tick: CurrentTick,
                 unclaimed: {[p \in PositionId |->
                     IF /\ Held[p].live /\ Held[p].lower <= Book.tick
                        /\ Book.tick < Held[p].upper
                     THEN (Book.unclaimed[p] + g) % Modulus ELSE Book.unclaimed[p]]}]
  <2>1. after = [p \in PositionId |->
                     IF /\ Held[p].live /\ Held[p].lower <= Book.tick
                        /\ Book.tick < Held[p].upper
                     THEN (Book.unclaimed[p] + g) % Modulus ELSE Book.unclaimed[p]]
    <3>1. Book.unclaimed = Running
      BY DEF Book
    <3> HIDE DEF g
    <3> QED
      BY <1>8, <3>1 DEF wrapping_add
  <2> HIDE DEF after
  <2> QED
    BY <1>6, <1>7, <2>1 DEF Book
<1>10. Held' = Held /\ SavedBook' = SavedBook
  BY <1>2, <1>4 DEF Held, SavedBook
<1>11. g \in Shares!Growth
  <2>1. U128 = 0 .. Modulus - 1
    BY U128Nat DEF U128, Modulus
  <2> QED
    BY <1>3, <2>1 DEF Shares!Growth
<1> HIDE DEF g
<1>12. Shares!Trade(g)
  BY <1>1, <1>2, <1>9, <1>10, Zenon
  DEF Shares!Trade, Shares!Earns, Held, Book, SavedBook, Saved, Running
<1> QED
  BY <1>11, <1>12
\* A new pool has nobody earning.
LEMMA SharesInit == FeesInit => Shares!Init
<1> SUFFICES ASSUME FeesInit PROVE Shares!Init
  OBVIOUS
<1>1. /\ IInv /\ swap = NoSwap /\ loop = ledger
      /\ positions = [p \in PositionId |-> ClosedPosition]
  BY InitInv DEF FeesInit, Init
<1>2. /\ pool.tick_current_index \in CurrentTick
      /\ LoopTick = pool.tick_current_index
      /\ swap.in_progress = FALSE
  BY <1>1, PositionsPlaced DEF AllPlaced, LoopTick, NoSwap
<1>3. Saved = [p \in PositionId |-> 0] /\ Running = Saved
  BY <1>1, <1>2 DEF Saved, Running, Unclaimed, ClosedPosition
<1>4. /\ Book \in [tick: CurrentTick, unclaimed: {[p \in PositionId |-> 0]}]
      /\ SavedBook = Book
  BY <1>2, <1>3 DEF Book, SavedBook
<1>5. Held \in [PositionId -> [live: {FALSE}, lower: CurrentTick, upper: CurrentTick]]
  <2>1. MIN_TICK_INDEX \in CurrentTick
    BY TickAssumption DEF CurrentTick
  <2>2. \A p \in PositionId :
          Held[p] = [live |-> FALSE, lower |-> MIN_TICK_INDEX, upper |-> MIN_TICK_INDEX]
    <3>1. ASSUME NEW p \in PositionId
          PROVE  /\ (positions[p].liquidity > 0) = FALSE
                 /\ positions[p].tick_lower_index = MIN_TICK_INDEX
                 /\ positions[p].tick_upper_index = MIN_TICK_INDEX
      BY <1>1 DEF ClosedPosition
    <3> QED
      BY <3>1, Zenon DEF Held
  <2> QED
    BY <2>1, <2>2 DEF Held
<1> QED
  BY <1>2, <1>4, <1>5, Zenon DEF Shares!Init, Held, Book, SavedBook, Saved, Running

\* Every step is a step of FeeShares or leaves what it speaks of alone.
LEMMA SharesStep ==
  FInv /\ [FeesNext]_<<vars, feeVars>> => [Shares!Next]_(Shares!vars)
<1> SUFFICES ASSUME FInv, [FeesNext]_<<vars, feeVars>>
             PROVE  Shares!Next \/ UNCHANGED Shares!vars
  BY Zenon
<1>1. IInv' /\ IInv
  BY FeesStepIsPoolStep, NextInv DEF FInv
<1>2. ASSUME \/ \E start \in StartTicks : InitializeTickArray(start) /\ UNCHANGED feeVars
             \/ UNCHANGED <<vars, feeVars>>
      PROVE  UNCHANGED Shares!vars
  <2>1. Saved' = Saved /\ Running' = Running
    BY <1>1, <1>2, FeesUntouchedBy
  <2>2. UNCHANGED <<pool, positions, swap>>
    BY <1>2 DEF InitializeTickArray, vars
  <2> QED
    BY <2>1, <2>2, SharesStutter DEF LoopTick
<1>3. ASSUME NEW a_to_b \in BOOLEAN, NEW limit \in SqrtPriceLimits,
             NEW arrays \in SwapTickSequence(tick_arrays),
             SwapStart(a_to_b, limit, arrays), UNCHANGED feeVars
      PROVE  Shares!Begin
  <2>1. Saved' = Saved /\ Running' = Running
    BY <1>1, <1>3, FeesUntouchedBy
  <2>2. /\ ~swap.in_progress /\ swap'.in_progress = TRUE
        /\ swap'.tick_index = pool.tick_current_index
        /\ UNCHANGED <<pool, positions>>
    BY <1>3 DEF SwapStart
  <2>3. Held' = Held /\ Book' = Book /\ SavedBook' = SavedBook
    BY <2>1, <2>2 DEF Held, Book, SavedBook, LoopTick
  <2> QED
    BY <2>2, <2>3, Zenon DEF Shares!Begin, Held, Book, SavedBook, Saved, Running
<1>4. ASSUME NEW p \in PositionId,
             FeesClosePosition(p)
               \/ \E lower, upper \in UsableTicks : FeesOpenPosition(p, lower, upper)
      PROVE  Shares!Claim(p)
  <2>1. Saved' = Saved /\ Running' = Running
    BY <1>1, <1>4, EmptyPositionKeeps
  <2>2. positions[p].liquidity = 0
    <3>1. ASSUME ~positions[p].open PROVE positions[p].liquidity = 0
      BY <1>1, <3>1 DEF IInv, PositionsOK, WellFormed
    <3> QED
      BY <1>4, <3>1
      DEF FeesClosePosition, ClosePosition, FeesOpenPosition, OpenPosition
  <2>3. /\ ~swap.in_progress /\ UNCHANGED <<swap, pool>>
        /\ \A q \in PositionId \ {p} : positions'[q] = positions[q]
    BY <1>1, <1>4
    DEF FeesClosePosition, ClosePosition, FeesOpenPosition, OpenPosition, IInv, TypeOK
  <2>4. Running = Saved
    BY <2>3 DEF FInv, OneLedger, Running, Saved, LoopTick
  <2>5. Saved = [Saved EXCEPT ![p] = 0]
    <3>1. Saved[p] = 0
      BY <2>2 DEF Saved, Unclaimed
    <3>2. Saved = [q \in PositionId |-> Saved[q]]
      BY DEF Saved, Unclaimed
    <3> QED
      BY <3>1, <3>2
  <2>6. positions' \in [PositionId -> Position]
    BY <1>1 DEF IInv, TypeOK
  <2> QED
    BY <1>1, <2>1, <2>3, <2>4, <2>5, <2>6, SharesClaim
<1>5. ASSUME NEW p \in PositionId, NEW amount \in LiquidityAmounts,
             FeesIncreaseLiquidity(p, amount) \/ FeesDecreaseLiquidity(p, amount)
      PROVE  Shares!Claim(p)
  <2>1. PICK delta \in Int : ModifyLiquidity(p, delta) /\ FeesModifyLiquidity(p, delta)
    BY <1>5, DepositOrWithdrawal
  <2>2. Saved' = [Saved EXCEPT ![p] = 0] /\ Running' = [Saved EXCEPT ![p] = 0]
    BY <1>1, <2>1, FeesModifyKeeps
  <2>3. /\ ~swap.in_progress /\ UNCHANGED swap
        /\ pool'.tick_current_index = pool.tick_current_index
        /\ \A q \in PositionId \ {p} : positions'[q] = positions[q]
    BY <1>1, <2>1 DEF ModifyLiquidity, IInv, TypeOK, Pool
  <2>4. positions' \in [PositionId -> Position]
    BY <1>1 DEF IInv, TypeOK
  <2> QED
    BY <1>1, <2>2, <2>3, <2>4, SharesClaim
<1>6. ASSUME NEW p \in PositionId, UpdateFeesAndRewards(p)
      PROVE  Shares!Claim(p)
  <2>1. Saved' = [Saved EXCEPT ![p] = 0] /\ Running' = [Saved EXCEPT ![p] = 0]
    BY <1>1, <1>6, UpdateFeesAndRewardsKeeps
  <2>2. ~swap.in_progress /\ UNCHANGED <<swap, pool, positions>>
    BY <1>6 DEF UpdateFeesAndRewards, vars
  <2>3. positions' \in [PositionId -> Position]
    BY <1>1 DEF IInv, TypeOK
  <2> QED
    BY <1>1, <2>1, <2>2, <2>3, SharesClaim
<1>7. ASSUME CollectProtocolFees \/ \E p \in PositionId : CollectFees(p)
      PROVE  UNCHANGED Shares!vars
  <2>1. Saved' = Saved /\ Running' = Running
    BY <1>1, <1>7, CollectFeesKeeps, CollectProtocolFeesKeeps
  <2>2. UNCHANGED <<swap, pool, positions>>
    BY <1>7 DEF CollectFees, CollectProtocolFees, vars
  <2> QED
    BY <2>1, <2>2, SharesStutter DEF LoopTick
<1>8. ASSUME FeesSwapStep
      PROVE  \E g \in Shares!Growth : Shares!Trade(g)
  BY <1>1, <1>8, FeesSwapStepTakes, SharesTrade, Zenon
<1>9. CASE FeesSwapEnd \/ FeesSwapAbort
  BY <1>1, <1>9, SharesEnd, Zenon DEF Shares!Next
<1>10. CASE FeesNext
  BY <1>2, <1>3, <1>4, <1>5, <1>6, <1>7, <1>8, <1>9, <1>10, Zenon
  DEF FeesNext, Shares!Next
<1> QED
  BY <1>2, <1>10

-----------------------------------------------------------------------------
\* The invariant behind the theorems below: the pool's own, one ledger outside a
\* swap, and a vault that holds what everybody is owed and may still claim,
\* before it is rounded, both as the pool has it and as a swap's loop has it.
THEOREM FeesInvariance == FeesSpec => []FInv
<1>1. FeesInit => FInv
  BY FeesInitInv
<1>2. FInv /\ [FeesNext]_<<vars, feeVars>> => FInv'
  BY FeesNextInv
<1> QED
  BY <1>1, <1>2, PTL DEF FeesSpec

\* Fees never change what the pool does: every behaviour of the pool with its
\* fees is one of the pool without them, so all that is proved of Liquidity
\* holds of it.
THEOREM FeesRefineLiquidity == FeesSpec => Spec
<1>1. FeesInit => Init
  BY DEF FeesInit
<1>2. [FeesNext]_<<vars, feeVars>> => [Next]_vars
  BY FeesStepIsPoolStep
<1> QED
  BY <1>1, <1>2, PTL DEF FeesSpec, Spec

\* Every fee field keeps its width: in particular a vault is never asked for
\* more than it holds, by collect_fees or collect_protocol_fees.
THEOREM FeesTypeCorrect == FeesSpec => []FeesTypeOK
<1>1. FInv => FeesTypeOK
  BY DEF FInv
<1> QED
  BY FeesInvariance, <1>1, PTL

\* The vault can pay what the protocol and the positions are owed, all of them
\* brought up to date (calculate_fees, next_position_modify_liquidity_update).
THEOREM FeesCoveredHolds == FeesSpec => []FeesCovered
<1>1. FInv => FeesCovered
  BY OwedBacked
<1> QED
  BY FeesInvariance, <1>1, PTL

\* fee_owed_a shrinks only in collect_fees, which pays it: the wrapping_add of
\* next_position_modify_liquidity_update never wraps.
THEOREM OwedOnlyPaidHolds == FeesSpec => OwedOnlyPaid
<1> DEFINE OnlyPaid == \A p \in PositionId :
              fee_owed_a'[p] < fee_owed_a[p] =>
                 ledger'.vault_a = ledger.vault_a - fee_owed_a[p]
<1>1. FInv /\ [FeesNext]_<<vars, feeVars>> => [OnlyPaid]_<<vars, feeVars>>
  <2> SUFFICES ASSUME FInv, FeesNext, NEW p \in PositionId,
                      fee_owed_a'[p] < fee_owed_a[p]
               PROVE  ledger'.vault_a = ledger.vault_a - fee_owed_a[p]
    OBVIOUS
  <2>1. /\ fee_owed_a \in [PositionId -> U64] /\ ledger \in Ledger
        /\ \A q \in PositionId : fee_owed_a[q] \in Nat
    BY DEF FInv, FeesTypeOK, U64
  <2>2. fee_owed_a' # fee_owed_a
    BY <2>1
  <2>3. ASSUME NEW q \in PositionId, positions[q].open, UpdateFees(q)
        PROVE  FALSE
    <3>1. fee_owed_a'[p] >= fee_owed_a[p]
      BY <2>3, UpdateAdds
    <3>2. fee_owed_a'[p] \in Int
      <4>1. fee_owed_a' \in [PositionId -> U64]
        BY <2>3, UpdateCovered DEF FInv
      <4> QED
        BY <4>1 DEF U64
    <3> QED
      BY <2>1, <3>1, <3>2
  <2>4. ASSUME NEW q \in PositionId, CollectFees(q)
        PROVE  ledger'.vault_a = ledger.vault_a - fee_owed_a[p]
    BY <2>1, <2>4 DEF CollectFees, Ledger
  <2>5. ASSUME NEW q \in PositionId, UpdateFeesAndRewards(q)
        PROVE  FALSE
    BY <2>3, <2>5 DEF UpdateFeesAndRewards
  <2>6. ASSUME NEW q \in PositionId, NEW amount \in LiquidityAmounts,
               FeesIncreaseLiquidity(q, amount) \/ FeesDecreaseLiquidity(q, amount)
        PROVE  FALSE
    BY <2>3, <2>6 DEF FeesIncreaseLiquidity, FeesDecreaseLiquidity, IncreaseLiquidity,
       DecreaseLiquidity, ModifyLiquidity, FeesModifyLiquidity
  <2> QED
    BY <2>2, <2>4, <2>5, <2>6 DEF FeesNext, feeVars, FeesOpenPosition, FeesClosePosition,
       CollectProtocolFees, FeesSwapStep, FeesSwapEnd, FeesSwapAbort
<1>2. FeesSpec => [][FeesNext]_<<vars, feeVars>>
  BY DEF FeesSpec
<1>3. FeesSpec => [][OnlyPaid]_<<vars, feeVars>>
  BY FeesInvariance, <1>1, <1>2, PTL
<1> QED
  BY <1>3 DEF OwedOnlyPaid

\* next_fee_growths_inside and next_tick_cross_update implement FeeShares: growth
\* belongs to the positions in range when it accrues, once each, although no
\* position's share is stored, every counter wraps and ticks are reused.
THEOREM FeesAreSharedHolds == FeesSpec => FeesAreShared
<1>1. FeesInit => Shares!Init
  BY SharesInit
<1>2. FInv /\ [FeesNext]_<<vars, feeVars>> => [Shares!Next]_(Shares!vars)
  BY SharesStep
<1> QED
  BY FeesInvariance, <1>1, <1>2, PTL DEF FeesSpec, FeesAreShared, Shares!Spec
=============================================================================
