# Elysium DEX in TLA+

Elysium is a concentrated liquidity exchange on Solana: an on-chain program in
Rust (`programs/elysium`) and a TypeScript SDK (`sdk`). This directory holds TLA+
modules translated from that code, TLC configurations that check them on small
instances, and proofs about them that TLAPS checks for every value of the
constants. `PROJECT.json` lists the runs, the source lines of each definition and
the hazards that the properties are about. Paths below are relative to the
repository; `P/` stands for `programs/elysium/src/`.

## 1. Inventory of the system

An *instruction* is a call of the program. The Solana runtime locks every account
an instruction may write, so instructions on the same pool run one after the
other; a failing instruction is rolled back as a whole. There is no memory
besides the accounts. What is hard is therefore not concurrency but **long
sequences of legal instructions**, by callers who choose their accounts and
arguments at will, over state that is kept incrementally (nothing is ever
summed up again), in integers that wrap by design in some places and must not in
others, with a loop (the swap) in the middle of it.

| component | state it keeps | operations | relies on |
|---|---|---|---|
| tick arrays (`P/state/tick.rs`, `P/util/swap_tick_sequence.rs`) | accounts of 88 ticks each, by start index | `initialize_tick_array`; lookup, update and search of a tick; search along the arrays of a swap | |
| concentrated liquidity (`P/manager/{liquidity,tick,position,pool,swap}_manager.rs` and the instructions above them) | pool: liquidity, price, current tick; ticks: net and gross liquidity; positions: range and liquidity | `initialize_pool`, `open/close_position`, `increase/decrease_liquidity`, `swap` | tick arrays, swap arithmetic |
| swap fees (the same files; `P/instructions/collect_*`) | pool: growth of fees per liquidity, protocol fees owed; ticks: growth outside; positions: checkpoint and fees owed | accrual in each step of a swap, crossing, `update_fees_and_rewards`, `collect_fees`, `collect_protocol_fees` | liquidity |
| rewards (the same files; `P/instructions/*reward*`) | the same for three reward tokens that are emitted over time, plus rate, authority and vault | `initialize_reward`, `set_reward_emissions`, `set_reward_authority*`, `collect_reward`; accrual by the clock in every instruction | liquidity, clock |
| swap arithmetic (`P/math/{swap,token,bit,liquidity}_math.rs`) | none | `compute_swap`, token deltas, next price | 256-bit integers |
| 256-bit integers (`P/math/u256_math.rs`) | none | word-wise shift, add, subtract, multiply, divide | |
| tick and price numerics (`P/math/tick_math.rs`) | none | price of a tick (product of constants), tick of a price (binary logarithm) | |
| custody (`P/state/position_bundle.rs`, `P/util/{util,token}.rs`, position and bundle instructions) | position and bundle accounts, the bundle's bitmap; mints and token accounts of the SPL token program | open, close, transfer, delegate; bundles: initialize, open and close within, delete | token program |
| two-hop swap (`P/instructions/two_hop_swap.rs`) | none of its own | two swaps in one instruction, one feeding the other | swap |
| configuration (`P/state/{config,fee_tier}.rs`, `P/instructions/set_*`, `initialize_*`) | authorities, fee tiers, rates | set a rate or hand over an authority | |
| SDK quotes (`sdk/src/quotes`) | none; snapshots of accounts | simulation of a swap, deposit and withdrawal quotes, fee and reward quotes, slippage | copies of the accounts that may be stale |
| SDK router and pool graph (`sdk/src/router`, `sdk/src/utils/graphs`) | a graph of pools | paths of one or two hops, the best split over paths | quotes |
| SDK prices (`sdk/src/prices`) | a map of known prices | prices from pools around one token | quotes |
| SDK clients (`sdk/src/impl`, `instructions`, `network`) | an account cache | transactions built from several instructions | program |

How they interact: an instruction checks its accounts (constraints and
`verify_position_authority`), calls a *manager* that computes a whole update from
the pool, the two ticks and the position without writing any of them, writes the
update back, and then has the token program transfer. A swap reads the pool once,
loops with its own copies of price, tick, liquidity and growth, writes ticks as it
crosses them, and writes the pool at the end (`update_after_swap`). The SDK reads
the accounts at some time and repeats the computation to predict an outcome.

What makes each component correct:

- *tick arrays*: a search never skips an initialized tick, whatever arrays the
  caller passed; when they do not suffice, the swap fails.
- *liquidity*: the active liquidity is that of the positions in range, and the
  current tick agrees with the price, at every point of every swap; a provider can
  always leave; every swap ends.
- *fees*: each unit of growth reaches exactly the positions that were in range
  when it accrued; the vault covers all that is owed; nothing owed gets lost.
- *arithmetic*: a step goes as far as its amount pays for, never further than the
  target, and rounding never favours the caller.
- *tokens*: the vaults cover all positions, whatever was traded.
- *custody*: whatever exists can be reached by exactly one holder, unless the token was
  burnt outside the program, after which nobody touches it; the bitmap of a bundle
  matches the accounts.
- *rewards*: each second's emission reaches exactly the positions in range during
  it, whenever anybody brings the pool up to date; no more is paid or owed than
  was emitted; what a vault cannot pay stays owed.
- *two-hop swap*: tokens in the middle are neither lost nor stranded.
- *configuration*: whatever accounts are combined, nothing changes in a deployment
  but what its current authorities sign for; every rate is within its bound.
- *256-bit integers, ticks and prices*: the words compute what integers would; the tick
  found for a price is the last one whose price has been reached.
- *SDK*: a quote is what the program will do on the same accounts.

## 2. The modules

| module | models | builds on |
|---|---|---|
| `TickArrays` | the arithmetic of ticks and arrays, the search of the next initialized tick | |
| `Sums` | the sum of a function on `1 .. N` | |
| `Liquidity` | one pool: active liquidity, ticks, positions and the swap loop; amounts abstract | `TickArrays`, `Sums` |
| `FeeShares` | abstract specification: fee growth belongs to the positions in range | |
| `Fees` | growth, checkpoints, amounts owed, protocol fee and vault, joined to the actions of `Liquidity` | `Liquidity`; refines `FeeShares` |
| `SwapMath` | `compute_swap` and all functions under it | |
| `PoolTokens` | the amounts of deposits, withdrawals and swaps, with `SwapMath` | `Liquidity`, `SwapMath`; refines `Liquidity` |
| `RewardShares` | abstract specification: each second's emission belongs to the positions in range | `FeeShares` |
| `Rewards` | the clock, growth, checkpoints and vaults of the rewards, joined to the actions of `Liquidity` | `Liquidity`; refines `RewardShares` |
| `RewardsBudget` | `Rewards` with a record of what was emitted and paid | `Rewards` |
| `TwoHopSwap` | two pools in one instruction and the accounts of the caller; a single swap is a relation | |
| `Custody` | position mints, bundles, bitmaps, metadata, delegation and close authorities | |
| `Config` | deployments, fee tiers, rates, the three roles and the reward authorities | |
| `U256Muldiv` | numbers of four words: shifts, sums, products, comparisons, long division | |
| `MCWords` | pairs of numbers of four words, and the properties of the operations on them | `U256Muldiv` |
| `TickMath` | price of a tick by the bits of its index, tick of a price by its logarithm | |
| `QuoteMath` | the SDK's `computeSwapStep` and what is under it | beside `SwapMath` |
| `QuoteTickArrays` | the SDK's choice of tick arrays for a quote and its search in them | beside the search of `TickArrays` |
| `MC*` | constants for TLC; `MCSwapMath` also the enumeration of steps of a swap, `MCQuoteWalk` of walks along tick arrays, `MCArithmetic` of wide integers (by `MCWords`) and prices | |
| `AuthorityProofs` | theorems about `Config` and `Custody`, which share no state | both |
| `ArithmeticProofs` | theorems about steps of swaps and the SDK's quotes | `MCQuoteWalk` |
| `WordsProofs` | theorems about the wide integers | `MCWords`, `ArithmeticProofs` |
| `*Proofs` | the others: theorems about the module of that name; parts of `LiquidityProofs` (sums, growth) are lemmas for the next | |

**`Liquidity`.** `pool`, `tick_arrays`, `ticks`, `positions` are the accounts, and
`swap` the local variables of the loop in `swap_manager::swap`. Each instruction
is one action with the checks of the code as its guards; a call that the code
answers with an error is a call without a step. `ModifyLiquidity` is all of
`calculate_modify_liquidity` and `sync_modify_liquidity_values`. A swap is split
into its iterations, because what the loop keeps true between them is the point:
`SwapStart` (checks of the limit), `SwapStep` (search, target, step, crossing, new
tick and array), `SwapEnd` (`update_after_swap`), `SwapFail` (the search fails) and
`SwapReject` (a check on amounts fails, or the transfers do). No other action
runs while `swap.in_progress`, as the accounts are locked. How far a step moves the
price is left open within what `compute_swap` can do (`ComputeSwap`);
`PoolTokens` fills in the arithmetic, and its run checks that the choice was
allowed. The tick of a price is the definition, not the algorithm.

**`Fees`** repeats no action: each is one of `Liquidity` conjoined with what happens
to the fees. `loop` is the swap's copy of the growth, the protocol fee and the ticks'
growth; it becomes the `ledger` when the swap ends and is dropped when it fails.
Only token A is modelled: it is the input of swaps in one direction, and the code
treats token B in the other direction line by line the same.

**`Rewards`** has the form of `Fees`, with time instead of trades: `Elapse` moves the
clock and nothing else, and the pool's growth is computed by whichever instruction
comes next (`NextInfos`), for all rewards from the one timestamp they share. The
refinement has to show that this laziness is invisible: the abstract
specification hands out the emission in the second in which it accrues.
TLC cannot check a conjunction of refinements, so `WatchedReward` selects the
reward whose growth is mapped. `emitted` and `paid` in `RewardsBudget` only record.
A new pool has the timestamp 0, long before the first second modelled.

**`TwoHopSwap`** keeps the calculation of the handler (from swap one to swap two
for a fixed input, the other way for a fixed output) apart from the settlement,
which always begins with swap one. A swap may be any relation between
amount, limit and price in which an amount is left over only at the limit
(`SwapResults`), which is how `PoolTokens` sees a swap end. The caller may receive the tokens in
the middle in one account and spend them from another.

**`Custody`** names an account by the seeds its address is derived from. The SPL
token program is external: `Transfer`, `Burn`, `Approve`, `Revoke`, `SetCloseAuthority`
and `CloseAccount` are modelled as the program documents them, since what a
delegate or a close authority may do is where the hazards are. They need the
owner, a delegate or a close authority, at any time, and not this program: `Burn` also takes
the token of a position or bundle that lives, as
`sdk/tests/integration/delete_position_bundle.test.ts:503-533` does with a bundle's. (To
give a token account away as a whole leads nowhere that a transfer, a new close authority
and a revocation do not.) `OnlyBurningStrands` says that this is the only way for
something to lose its holder, and what then remains. The two variants of
opening with metadata also create the metadata account, whose program asks for the
mint authority: they mint, create and only then give the authority up, in that order.

**`Config`** has as variables the accounts: `configs`, `fee_tiers` and `pools`, each named by
its seeds, so that a fee tier belongs to a config and a tick spacing. An
instruction takes *any* accounts and *any* signer; the guards are the `has_one` and
`address` constraints of its account structure, and the parts of an action that set a
field are the methods of the accounts (`UpdateFeeRate` is `ElysiumPool::update_fee_rate`).
Ticks, prices and liquidity are left to the other modules; of a swap only the protocol's
fee remains (`UpdateAfterSwap`), since a role collects it. Mints are numbers because
their order matters. A pool may be created with a fee tier of another tick
spacing than its own, as the code does not compare them.

**`U256Muldiv`** is translated method by method, with `U64_RESOLUTION` bits to the word. The
word beside the dividend that holds what a shift pushes out of it (`dividend_carry_space`)
is `carry` of the state of the division. A call that panics returns `Panic`. **`TickMath`** keeps
the two products of constants (positive ticks with a shift of 96, negative with 64), the
bit-by-bit logarithm and the choice between two candidate ticks; base, bits and error
margins are constants.

Two modules are about the SDK. **`QuoteMath`** has the same functions as `SwapMath`, as
`swap-math.ts` and the files below it have them. **`QuoteTickArrays`** has the arrays a quote
fetches, the slot-by-slot search in them (`tick-array-sequence.ts`) and the arrays it touches,
which are those it names for the instruction. A walk in `MCQuoteWalk` is a swap that
reaches every tick it finds but the lowest and the highest, as a swap ends at their prices (no
limit lies beyond them, and the loop ends at its limit): at each tick the search is compared with
`get_next_initialized_tick_index`, which has an index of the current array and stops at
price edges. A quote pads the arrays it names by repeating the last, which the program
drops, as an account that is already borrowed cannot be loaded (`SwapTickSequence` in `Liquidity`).

Definitions whose comment begins with "Slip:" are not part of any
specification. Each is a plausible mistake in the definition below it, and
`PROJECT.json` pairs it with the property that notices it.

## 3. What TLC checks

| run | question | bounds |
|---|---|---|
| `liquidity` | do active liquidity, ticks, price and tick stay consistent, can positions always leave, can ticks always be crossed, does every swap end | 2 positions, 3 usable ticks in 2 arrays, two prices to a tick, any sequence of arrays, liquidity up to 3 |
| `fees` | does `Fees` implement `FeeShares`; does the vault cover all claims, and is nothing owed lost | 2 positions, 3 ticks, counters modulo 6, a protocol fee of 1/2 and two sizes of fees |
| `arithmetic` | is `compute_swap` what its callers take it for; does the SDK compute the same when A is paid in; are the 256-bit integers integers; is the tick of a price the right one; do the tick arrays a quote names suffice | 13 prices, 7 amounts, 3 fee rates, 8 liquidities; all pairs of numbers of four words of two bits; every price between the outermost ticks; every set of existing tick arrays and initialized ticks among 7 ticks in 4 arrays, from every current tick |
| `pool_tokens` | do the vaults cover the positions; is `Liquidity` a sound abstraction | 2 positions, prices 1/2, 1 and 2, amounts of 1, 2 and 5, a fee of 1/4 |
| `rewards` | does `Rewards` implement `RewardShares` when two rewards share one timestamp | as `fees`, 2 rewards, 3 seconds (`MAX_TIME`), a rate whose product overflows |
| `rewards_budget` | is no more paid and owed than was emitted; does a short payment stay owed | 2 positions, 1 reward, vaults of up to 2 tokens, 3 seconds |
| `two_hop` | what becomes of the token between two swaps | 2 pools, 3 prices, up to 2 tokens a swap, 2 accounts for each mint |
| `custody` | does the bitmap match the accounts; can anything but a burnt token strand what exists | 2 wallets, 1 mint, a bundle of 4 in two bytes, 3 delegated amounts |
| `config` | who can change what; on what terms does a new pool start; are rates bounded and rewards in order | 2 deployments, 2 users, 2 mints, 1 pool (`MAX_POOLS`), 2 rewards |
| `two_hop_doc`, `u256_doc`, `quote_doc` | what a comment or a test says and the code does not do | as `two_hop`, as `arithmetic` |

Why the bounds are enough, and what they are for:

- *ticks*: a range needs a lower and an upper tick and a swap needs one
  inside, one below and one above; there are prices between ticks and
  several arrays, so that the edge of an array, its neighbour, a missing
  one and a repeated one all occur. The lowest tick is negative, since rounding
  towards zero and towards minus infinity differ there. The lowest array overlaps
  the lowest tick, as in the code.
- *two positions* make a tick shared as lower of one and upper of the other, and
  a tick that empties while another position still has it inside its range. The
  proofs of section 4 lift the number.
- *counters*: the wrapping ones (`MAX_U128` = 5 in `fees`) wrap within a few steps,
  which is the case that tests do not reach. Growth is a multiple of
  `Q64 / liquidity`, and the bounds are chosen so that these multiples and the
  products still tell every case apart.
- *arithmetic*: `Q64` = 16 and prices from 0.69 to 1.44 make every rounding,
  overflow and cap happen. Large numbers add no case, only distance. Two bits to a
  word make every carry, borrow, estimate and correction of the division happen, those
  included that a random 64-bit word meets once in 2^64 tries. For prices a base of
  1.5625 (the root is 1.25) instead of 1.0001 lets 25 ticks span what 2^8 steps of the
  table reach; the error margins are scaled with it. Walks need four arrays for a quote to
  have three (`MAX_SWAP_TICK_ARRAYS`) and one beyond them, and limits inside an array, as the
  program's lowest and highest ticks are.
- *configuration*: two deployments are one of the caller's and one of somebody else's,
  and one pool is enough, as no instruction takes two.
- *time*: what counts is how many seconds pass between two updates: none, one, or
  so many that emission times seconds overflows.
- *two hops*: one token less than asked for is enough to tell a partial fill, and one
  token that the caller had before is enough to hide it.
- *custody*: accounts of different mints share nothing, so one mint is enough;
  two bytes of two bits tell the byte from the bit; wallets are interchangeable
  (symmetry).

*Views.* Some runs have TLC take states for one that behave alike and in which every
property says the same (`MCView`; every step from the state that is kept is still checked).
In `fees`, `rewards`, `rewards_budget` and
`pool_tokens` the two positions are interchangeable: no action and no property tells
their numbers apart, so a state counts by the set of the two accounts. (With a third position it
would have to be a bag.) The growth checkpoint that a position without liquidity has is left
out as well: only `next_position_modify_liquidity_update` reads it, multiplies the growth since
by a liquidity of 0, and overwrites it. In `two_hop` the variable `call` is left out, which only
records an instruction for the properties about its step.

`CHECK_DEADLOCK FALSE` is said in `arithmetic`, whose states are inputs that end, and in
`two_hop`, where no swap is left once one pool stands at the end of the prices.

**Fairness.** Only `SwapTerminates` (run `liquidity`) needs any: weak fairness of
`SwapStep \/ SwapEnd \/ SwapFail`. An instruction, once started, is run by the
runtime until it ends, so the loop never stops halfway; that is all that is
assumed. Callers need never call anything, and no rejection is assumed
(`SwapReject` is not among the fair actions), so that termination is shown by the loop itself.
In the code the runtime's compute budget would also stop a loop, at the price
that such a swap could never be executed.

**Where the code differs from its comments and tests.** Three runs expect a violation.

- `two_hop_doc`: "The output of swap 1 is input of swap_calc_two", says
  `P/instructions/two_hop_swap.rs:167`. With a fixed output, the limit of swap one may
  stop it early; nothing compares the two amounts, and the missing tokens are taken
  from those that the caller had. `two_hop` shows what remains true: a fixed input
  never costs tokens in the middle, a fixed output never leaves any.
- `u256_doc`: `div_loop` adds the divisor back when a digit came out one too large. With the
  carry word in use it first reads the word of the dividend at
  `index + num_divisor_words`, which is past the last one (`P/math/u256_math.rs:559`), and panics.
  `test_div` expects a result for every pair of numbers. It takes a dividend of four
  words and a divisor of three or more; `DivExact` shows that in all other cases
  the division returns, and that what it returns is right.
- `quote_doc`: in `sdk/src/utils/math/bit-math.ts:53` the product of liquidity and price
  difference is rounded up if its *integer part* is not zero, where the program looks at
  the fraction. So amounts of token B that are paid in are quoted as one too many when
  they are whole and as none when they are below one. `assertQuoteAndResults`
  (`sdk/tests/utils/assert.ts:119`) expects the quote to be exact. `QuoteExactForA` shows that it
  is when token A is paid in.

Met on the way, without a run of their own: `P/math/u256_math.rs:304` says that a division by
0 returns 0, and it panics (line 313); `P/lib.rs:467-469` asks of
`set_reward_authority_by_super_authority` the lowest uninitialized index, and the code takes
any; `P/state/pool.rs:256` calls `emissions_per_second_x64` what is earned "per unit of
liquidity", where `next_pool_reward_infos` divides it by the pool's liquidity. The
modules take the code's meaning. In the SDK, `swap-manager.ts:82-84` computes the tick anew from the
price also after a step that moved nothing, where the program leaves it
(`P/manager/swap_manager.rs:175`): with the price on a tick that was crossed downwards, the
`estimatedEndTickIndex` of a quote can be one above the tick that the pool will have.
Nothing keeps a holder, or a delegate, from burning the token of a position that still has
liquidity, or of a bundle that still has positions: what is inside is then out of reach for good.

## 4. What is proved

The prover checks these for every number of positions, every spacing and array
size, every strictly increasing price function, and every width of integers.

`LiquidityProofs`: `TypeCorrect`, `ActiveLiquidityHolds`,
`SwapActiveLiquidityHolds`, `TickLiquidityHolds`, `PriceMatchesTickHolds`,
`CrossingSucceedsHolds` and `WithdrawableHolds`, from
`Invariance == Spec => []IInv`. Assumptions: `TickAssumption` (bounds of ticks, size
of arrays), `NAssumption` and `LiquidityAssumption`, which says that
prices increase and that all the liquidity u64 token amounts can buy fits an i128.
The code checks no sum of that kind. It follows from a token's supply being a u64,
and without it a deposit that makes a tick's net overflow is refused while a
crossing is not protected: the proof shows where it is used.

The invariant `IInv` joins the listed safety properties with three facts: positions
have a proper range on usable ticks (`PositionsOK`), their liquidity together is within
the supply (`SupplyOK`), and the loop of a swap has not passed its limit
(`SwapTowardsLimit`). None of the listed properties is inductive by itself: that a
crossing leaves the right liquidity needs the tick's net to be that of its positions,
that no initialized tick lies between the loop's tick and the one found, and that the
price the loop stands at agrees with its tick. The argument for one iteration:

1. `SearchLeft` and `SearchRight`: whatever the search along the arrays
   returns, no initialized tick lies strictly between, whichever arrays were passed.
2. So positions active at the tick before and just short of the one found are the same.
3. At the one found, the sums differ by what enters and leaves there, which is its net
   (a part of the module has the lemmas on sums, for every number of positions).
4. `TickIndexAfter` leaves the loop on the right side of the tick found, also when that is
   only the edge of an array, whose net is zero because no position begins or ends
   there (`TickMoves`).
5. All sums are sums over subsets of the positions, hence within the supply and within
   an i128 (`ContributionBounds`): no crossing and no withdrawal overflows.

The same module proves the part of `SwapTerminates` that needs no fairness.
`IterationsAdvanceHolds` says that an iteration of the loop moves the tick at which the next search
begins past the one it found, or stops at a price at which the loop does not go on. It rests on
`TickIndexAfter` (a step down leaves the loop *below* the tick, which is what makes the next search
find another one) and on the two searches. `LoopVariant` draws the conclusion: the number of ticks still
ahead (`TicksLeft`), a natural number, becomes smaller with every iteration after
which the loop goes on, so no swap has more iterations than the pool has ticks, whatever
arrays are passed. What remains for TLC is that a started loop takes its steps.

`AuthorityProofs` is about who may do what. Of positions it has `CustodyTypeCorrect`,
`BitmapMatchesPositionsHolds`, `OnlyBurningStrandsHolds` and `OneKindHolds`, for any wallets, mints and size
of a bundle, from `CustodyAssumption`. The invariant, `CustodyInv`, adds that a mint that does not exist has no token and
no account (`FreshMints`), that a mint has at most one token (`AtMostOne`), and that
a token speaks for something that exists (`TokensSpeak`). Without them a mint about
to be initialized might have been used, and the token that closing burns might be one of
two. That what exists *has* a holder is no invariant, since the token can be burnt
alone; so each step is shown, besides, to leave alone what has no holder and to give it none
(`Kept`, in `CustodyStep`).
The lemma `DivMod` makes the place of a bit in its byte unique.

Of deployments, `AuthorityProofs` has all four properties of the run `config`, for any deployments, users,
mints, tick spacings, rates and number of rewards. `ConfigTypeOK` and `OrderedAccounts` are inductive only
together with `OwnAccounts`: every fee tier and pool names the config under whose
address it lies. The `has_one` constraints compare with the name that the
account *holds*; that it is the one the address was derived from is what makes them mean
anything. The two action properties take an instruction apart into the one account it writes and
the signer whose role that account asks for.

`TwoHopSwapProofs`: `TypeCorrect`, `ExactInKeepsIntermediateHolds` and
`ExactOutStrandsNothingHolds`, for any pools, mints, prices and amounts, from
`TwoHopAssumption` (a pool's two mints differ). `TypeOK` is inductive. The argument: the
hops share exactly one mint (`HopMints`), so the settlement changes the caller's
tokens of it by what swap one returns less what swap two takes, from whichever accounts
(`Settled`); and the swap calculated second trades at most what it was given
(`NotMoreThanAsked`, `Hopped`).

**Growth, in general.** Fees and rewards use the same counters: a global one that
wraps, one per tick that is flipped at each crossing, and a checkpoint per position.
A part of `LiquidityProofs` is about any such counter. What lies inside a range is a
difference modulo 2^128 (`InsideIn`, `Dues`), and:

1. a crossing flips the tick's counter just when the side it stands for changes, so that the
   growth below each tick stays what it was, and by steps between ticks nothing changes
   (`SidesTraded`, `BelowMoves`);
2. a tick that is new, or goes away, has no position that looks at it (`TickKept`);
3. when the global counter grows by `g`, those in range and only they gain `g`
   (`DuesAccrue`);
4. an update sets one share to zero and leaves the others (`DuesSettled`).

So whether a position is in range never has to be computed from the counters: it follows from
`ActiveLiquidity` and `PriceMatchesTick` of the pool, which is why these proofs need
`IInv`, and why they begin with `FeesRefineLiquidity` and `RewardsRefineLiquidity`: no action
of either module moves the pool in a way of its own.

`FeesProofs`: `FeesTypeCorrect`, `FeesCoveredHolds`, `OwedOnlyPaidHolds` and
`FeesAreSharedHolds` (the refinement of `FeeShares`), for every fee, rate and width, from
`FeesInvariance == FeesSpec => []FInv`. `FeesCovered` is not inductive: it rounds
each claim down, and the fractions of several swaps may add up to one more token. `FInv` has
the claims *before* rounding, in units of 1 / 2^64 (`Backed`), for the ledger and,
while a swap runs, for its loop. A step of a swap adds to them at most what the vault takes:
growth is the fee divided by the liquidity, rounded down, times the liquidity of the
positions in range, which is the divisor (`ClaimsAccrue`). `OwedOnlyPaid` follows, since
what the vault can pay is a u64: the wrapping sum of debts never wraps.

`RewardsProofs`: `RewardsTypeCorrect`, `RewardsAreSharedHolds` (the refinement of
`RewardShares`, for whichever reward is watched) and `ShortPaymentRememberedHolds`, from
`RewardsInvariance == RewardsSpec => []RInv`; and `WithinEmissionsHolds`, from
`BudgetInvariance == BudgetSpec => []BInv`. The shares of `RewardShares` include growth that the
code has not computed yet, so the lemmas above are used with the counter as
`next_pool_reward_infos` would leave it now (`Pending`); `RInv` says that a
reward that was never initialized has counted nothing (`Unstarted`), without which the
code's shortcut for such rewards would differ, and that the loop of a swap was brought up to date
when it started (`OneBook`). `WithinEmissions` is not inductive either, for a reason of its own:
what is pending is rounded down from all the seconds since the last update at once, so one
more second may add more than that second's emission. `BInv` counts differently
(`InBudget`): what is *booked*, unrounded, plus the seconds behind times the rate,
is within what was emitted. A second moves both sides by the rate. An update turns
seconds into growth and can only lose by it (`ClaimsInBudget`). And a payment moves worth from the debts to the
record (`CollectInBudget`). A rate that changes late is covered because
`set_reward_emissions` books the past first; with `EmissionsBackdated` the step fails.

The proof of `RewardsTypeOK` found an assumption that the model had left out: the clock
starts at 1, so `MAX_TIME` may not be 0. `RewardsAssumption` now says so.

`ArithmeticProofs`: `FurthestForInputHolds`, `NearestForOutputHolds`, `AmountSufficesHolds`,
`PoolKeepsRoundingHolds` and `QuoteExactForAHolds`, for every fixed point, amount, fee rate, liquidity
and price, from `StepsInvariance == StepsSpec => []SInv`. `StepsSpec` is the part of the
run `arithmetic` that is about steps of a swap: a first step from any arguments, then
one after the other from what the last one left. `SInv` says that each takes
arguments within bounds. Assumptions: `SwapMathAssumption`, `InputsAssumption` (in particular that a fee is
at most half of what it is paid for; `MAX_FEE_RATE` is 3 percent) and, for the quote,
`QuoteAssumption` (words of 64 and 128 bits, prices of 96, as `MAX_SQRT_PRICE_X64` is). The argument:

1. Each quotient is the solution of an inequality: rounded down it is the largest `x` with
   `d * x <= n`, rounded up the smallest with `d * x >= n` (`FloorIs`, `CeilingIs`). So a product can
   be compared with an amount wherever the code divides.
2. For each token and rounding, the price that the code computes from an amount and the amount that it
   computes from a price solve the same inequality (`InputOfA`, `OutputOfA`, `InputOfB`, `OutputOfB`);
   hence the amount to reach a price is affordable just when that price is not past the one
   computed (`Stops`).
3. The amount grows with the distance (`MoreFurther`), so that what fits 64 bits at the target fits
   at every price before it (`FixedNearer`); the checks for overflow in the code never make a step
   stop at another price than it would without them.
4. The fee of the part that was traded is never more than what the budget set aside for it
   (`FeeFits`), so the loop's subtraction cannot fail.
5. The SDK checks no intermediate result. Where the program's step succeeds, all of them fit, and
   where it fails, the SDK's own check of the final amount fails too (`QuotedAmounts`, `QuotedNext`,
   `QuotedStep`).

The same module proves `QuotedArraysSufficeHolds`, for every tick spacing, array size, number of
arrays, and whatever arrays exist and whichever of their ticks are initialized. `WalkSpec` is the part
of the run `arithmetic` that is about walks. `WalkInv` says that the arrays of a quote are
`Neighbours` and that the program's index of the current array is the place the quote computes
for the tick. The argument:

1. The quote's arithmetic, floor for arrays and JavaScript's truncating remainder for slots, is
   that of a number by quotient and remainder (`PlaceInArray`, `Place`).
2. The quote searches from a slot, the program compares offsets within an array: both look at the
   ticks that are `Ahead` (`SlotsAre`, `HitsAre`), and these are in the array in which the search
   begins or in a later one (`PlaceAhead`).
3. The program goes on from array to array without a gap, and only the last of the arrays can be
   at the end of the prices (`SearchGoesOn`, from where a start tick can be, `StartIs`). So where
   the quote finds nothing, the program ends at the same tick (`SameEnd`).
4. The longest run of arrays that exist and that a quote can name are neighbours
   (`QuoteHasNeighbours`), and the program moves its index on exactly when the swap moves to the
   next array (`FoundIs`, `NextPlace`).

Step 4 fails at the lowest tick if that is in the first slot of its array without being
its start: the program then moves its index on, and the quote does not. No swap searches on
from there, which is why `WalkStep` stops at it. Assumptions: `TickAssumption` and
`QuoteArraysAssumption` (the lowest tick is below zero).

`WordsProofs`: `WordsExactHolds`, for every width of a word and every pair of numbers
(`WordAssumption`: a word has at least one bit). `WordsSpec` is the part of the run `arithmetic` that
is about wide integers. The argument:

1. Powers of two are a function, `Pow2`, on the exponents that occur, so that `PowersMultiply` can be
   proved; a number is its words by Horner's rule (`Value`, `Horner`), and its value is below
   `Modulus` = 2^256 (`ValueType`, `SplitIs`).
2. A loop is a recursive function of the number of words done. That it exists is shown by giving
   its values one by one (there are at most five), and an invariant is carried along by the least
   counterexample (`UpTo`, `LeastElement`), not by an induction over data.
3. Sums and differences: what the words done are worth, with the carry or less the borrow, is the sum or the
   difference so far (`AddPlace`, `SubPlace`); the last carry is a multiple of `Modulus`.
   The code tests each subtraction of a word for itself; at most one of the two borrows (`Borrows`).
4. Comparisons: below the highest word that differs, the words make up less than one unit of it
   (`HighestDecides`).
5. Shifts: first by whole words, then by bits; the bits that leave a word are those that enter the next
   (`BitsUp`, `BitsDown`), and the rest falls off at one end, which is the remainder modulo
   2^256 or the remainder of the division by the power.
6. Products: a row adds `x * y[j]` at its place *modulo 2^256* (`RowSum`, `RowAdds`), as
   words past the last are dropped, and the double word in which it computes never wraps
   (`PlaceFits`). The last carry of a row lands in a word that no earlier row has reached
   (`RowsInv`): were it not zero, the store would overwrite a digit.
7. The product of two double words is four products whose middle sums fit a double word (`MulU256Exact`).

`DivExactHolds` is the same for `div`, for every width and every pair of numbers. Divisions of few
words are short (`DivideBelow`, `DivideShort`), and by one word there is an invariant of the loop
(`DivideOneWord`). The long one is the argument of the schoolbook method:

1. Shifted by `leading_zeros`, the divisor keeps its words and its highest bit is set
   (`DivisorShifted`, `Normal`), and the dividend loses nothing, as what the shift drops is the carry space
   (`DividendShifted`). `Rest` is what the five words of the dividend are worth.
2. Before the digit at place j, `Rest < Base * At(v, j)`, where `At` is the divisor at that place. The
   estimate, lowered until the next word agrees, is the largest digit that the three highest words of
   `Rest` allow for the two highest of the divisor (`EstimateIs`, `GuessIs`, `TopDigit`). So it is below
   `Base` and at most one too large, and never so for a divisor of two words
   (`TopDigitBounds`, `DigitEstimated`).
3. The multiple is taken away word by word with a borrow of at most one word, although the
   double word in which it is computed wraps (`BorrowIs`, `SubGoesOn`). At the head
   the code reports `too_large` exactly when the rest is smaller than the multiple (`Subtracted`).
4. If so, adding the divisor back carries out of the head, and that carry cancels the wrap
   (`Added`). The word at the head is read past the last one only if it is the carry space, which
   takes a dividend of four words; by 2. the divisor has three or more (`DigitIs`).
5. The invariant of the loop (`DigitsInv`): the dividend is the divisor times the digits so far plus
   `Rest`, `Rest < At(v, j)`, and the digits below j are still 0, so that a digit that is stored
   replaces none (`DigitGoesOn`). At j = 0 the rest is the remainder, shifted, and is shifted back
   (`DigitsEnd`).

`PoolTokensProofs`: `TokensTypeHolds`, `TokensImplementLiquidity` (the refinement of
`Liquidity`) and `VaultsCoverPositionsHolds`, from `TokensInvariance == TokensSpec => []TokensInv`.
`VaultsCoverPositions` is not inductive, as it compares rounded amounts. `TokensInv` has the
worth of the positions *before* rounding (`Backed`), at the pool's price, and
during a swap also at the price that its loop has reached, for the vaults as they would be if it ended
there (`SwapBacked`). The argument:

1. A position is worth its liquidity times the distance of the price, held within its range, from
   one end of the range: of prices for token B, of their inverses for token A. To
   add up inverses, they are counted in units that all prices divide (`CommonMultiple`,
   `Shares`); nothing is rounded but what the code rounds (`AmountInUnits`).
2. The code chooses between three formulas by the pool's *tick*, the worth goes by its *price*.
   They agree because tick and price do (`DeltasByTick`), on the tick that a swap has
   just crossed downwards too. There `DeltasByPrice` goes wrong.
3. A deposit rounds up what it adds to the worth, a withdrawal rounds down (`DepositInv`, `WithdrawalInv`).
4. A step of a swap stays within the ranges of the active positions and outside of all the others
   (`StepMoves`, from the search of `LiquidityProofs`), so the worth changes by the pool's liquidity times the
   move of the price, in one token up and in the other down (`OwedMoves`); and by
   `StepDoes` of `ArithmeticProofs` the step takes at least the one and gives at most the other.
5. `Liquidity` assumes that tokens cannot buy more liquidity than `LiquiditySupply`. Here that is
   proved: liquidity has a price (`UnitCost`), the vaults back it, and they hold a
   u64 of each token (`SupplyBought`). So the guard of `Liquidity` that stands for a token's
   supply refuses no deposit that the program accepts.

Assumptions: those of `Liquidity`; `TokensAssumption` (words of 64 and 128 bits, prices that are positive
and have 96 bits, as the program's lowest and highest have); and `SupplyAssumption`, which says of the
price function that no range is so narrow that its liquidity costs next to nothing.
In the code the cheapest ranges are the outermost of one tick. There a unit of liquidity costs more than
2^-47 of a token (5 * 10^-5 times a price root of 2^-32), so 2^64 of each token buy less than
2^112, which is within an i128 by far.

**Only model-checked**: of `SwapTerminates` the part that is liveness (fairness, and that a step
is enabled, are out of the prover's reach; the variant of the loop is proved), and the logarithm
(`TickOfPrice`, which is about particular constants).

## 5. What is not modelled, and the plan

Not modelled, and why:

- error codes, logging, account sizes and rent, names and addresses in metadata,
  generated documentation, IDL, scripts and migrations: no state that a property
  could be about;
- `P/math/bn.rs`, which wraps the `uint` library and is used by tests and one conversion;
- the constants of `P/math/tick_math.rs` themselves: numbers of 96 and 128 bits are beyond
  TLC's integers, so `TickMath` has the algorithm with other constants;
- the SDK besides the arithmetic of a step and its tick arrays. Its loop repeats the
  program's on copies of accounts; the router, prices, clients and cache compute
  suggestions that the program checks again (thresholds, limits, constraints).
  `swap-manager.ts` also tracks protocol fees that nothing reads.

Hazards without a property are in `PROJECT.json` with the reason: overflowing fee
products (documented loss), a logged difference that wraps, the early check of a far
target, and the vault check of a day's emissions. A quote may also be stale: the program
compares its own result with the caller's thresholds, so that it then fails or stays
within its slippage.

What is left of the plan:

- The SDK: slippage and the quotes of deposits; the router's split; the transactions of
  collect-all.

## 6. Running

    tlc -workers 2 -config MCLiquidity.cfg MCLiquidity
    tlapm LiquidityProofs.tla

The runs take from a few seconds to about one and a half minutes on two cores, the proofs of a module
up to about ten minutes from nothing.
