------------------------------ MODULE TwoHopSwap ------------------------------
(***************************************************************************)
(* Two swaps in one instruction, the second of which trades what the first *)
(* one returned (instructions/two_hop_swap.rs, util/swap_utils.rs).        *)
(*                                                                         *)
(* A single swap is abstracted to what PoolTokens shows of it: it stops    *)
(* when the amount is used up or the price limit is reached.  Its other    *)
(* amount may be any; a swap that moves no price trades nothing only at    *)
(* the limit.                                                              *)
(***************************************************************************)
EXTENDS Integers

CONSTANTS
    Pools,
    token_mint_a, token_mint_b,  \* functions: the mints of a pool
    Mints,
    MIN_SQRT_PRICE, MAX_SQRT_PRICE,
    MAX_U64,
    PoolTokens, WalletTokens,     \* bound: the tokens at first, of each mint
    Amounts                       \* bound: the amounts and thresholds of callers

ASSUME TwoHopAssumption ==
    /\ Mints # {}
    /\ token_mint_a \in [Pools -> Mints] /\ token_mint_b \in [Pools -> Mints]
    /\ \A p \in Pools : token_mint_a[p] # token_mint_b[p]
    /\ MIN_SQRT_PRICE \in Nat /\ MAX_SQRT_PRICE \in Nat
    /\ MAX_U64 \in Nat /\ PoolTokens \in Nat /\ WalletTokens \in Nat
    /\ Amounts \subseteq Nat

VARIABLES
    sqrt_price,  \* of each pool
    vaults,      \* the tokens of each pool
    wallets,     \* the caller's token accounts, two for each mint
    call         \* what the last instruction was asked for

vars == <<sqrt_price, vaults, wallets, call>>

SqrtPrice == MIN_SQRT_PRICE .. MAX_SQRT_PRICE
Account == 1 .. 2

OutputMint(p, a_to_b) == IF a_to_b THEN token_mint_b[p] ELSE token_mint_a[p]
InputMint(p, a_to_b) == IF a_to_b THEN token_mint_a[p] ELSE token_mint_b[p]

\* The results of manager::swap::swap: what is paid in, what is taken out, and
\* the price it leads to.
SwapResults(p, amount, limit, is_input, a_to_b) ==
    {r \in [paid: 0 .. MAX_U64, taken: 0 .. MAX_U64, price: SqrtPrice] :
        LET used == IF is_input THEN r.paid ELSE r.taken
        IN  /\ amount > 0
            /\ limit \in SqrtPrice
            /\ IF a_to_b THEN r.price \in limit .. sqrt_price[p]
                         ELSE r.price \in sqrt_price[p] .. limit
            /\ used <= amount
            /\ used < amount => r.price = limit
            /\ limit = sqrt_price[p] => r.paid = 0 /\ r.taken = 0}

\* Slip: the amounts of the first result are mixed up.
OtherAmountSwapped(result, is_input) == IF is_input THEN result.paid ELSE result.taken

\* What the second calculation is given: the output of swap one when the input
\* is the fixed amount, the input of swap two when the output is.
OtherAmount(result, is_input) == IF is_input THEN result.taken ELSE result.paid

\* Slip: one token may be overdrawn.
CoversAllButOne(balance, amount) == amount <= balance + 1

\* The token program refuses to overdraw an account.
Covers(balance, amount) == amount <= balance

\* update_and_swap_pool for both pools: whatever was calculated first, swap one
\* is settled first.  The caller chooses which of his accounts receives the
\* intermediate token, and which one it is taken from.
Settle(hops, r1, r2) ==
    \E to, from \in Account :
        LET in_one == InputMint(hops.one, hops.a_to_b_one)
            out_one == OutputMint(hops.one, hops.a_to_b_one)
            in_two == InputMint(hops.two, hops.a_to_b_two)
            out_two == OutputMint(hops.two, hops.a_to_b_two)
            between == [wallets EXCEPT ![in_one][1] = @ - r1.paid,
                                       ![out_one][to] = @ + r1.taken]
        IN  /\ Covers(wallets[in_one][1], r1.paid)
            /\ Covers(vaults[hops.one][out_one], r1.taken)
            /\ Covers(between[in_two][from], r2.paid)
            /\ Covers(vaults[hops.two][out_two], r2.taken)
            /\ wallets' = [between EXCEPT ![in_two][from] = @ - r2.paid,
                                          ![out_two][1] = @ + r2.taken]
            /\ vaults' = [vaults EXCEPT ![hops.one][in_one] = @ + r1.paid,
                                        ![hops.one][out_one] = @ - r1.taken,
                                        ![hops.two][in_two] = @ + r2.paid,
                                        ![hops.two][out_two] = @ - r2.taken]
            /\ sqrt_price' = [sqrt_price EXCEPT ![hops.one] = r1.price,
                                                ![hops.two] = r2.price]

\* The hops of an instruction, from one mint over another to a third.
Hops == {hops \in [one: Pools, two: Pools, a_to_b_one: BOOLEAN, a_to_b_two: BOOLEAN] :
            /\ hops.one # hops.two
            /\ OutputMint(hops.one, hops.a_to_b_one) = InputMint(hops.two, hops.a_to_b_two)}

\* Calculated from swap one to swap two.
ExactIn(hops, amount, limit_one, limit_two) ==
    \E r1 \in SwapResults(hops.one, amount, limit_one, TRUE, hops.a_to_b_one) :
        \E r2 \in SwapResults(hops.two, OtherAmount(r1, TRUE), limit_two, TRUE,
                              hops.a_to_b_two) :
            /\ \E other_amount_threshold \in Amounts : other_amount_threshold <= r2.taken
            /\ Settle(hops, r1, r2)
            /\ call' = [is_input |-> TRUE,
                        mint |-> InputMint(hops.two, hops.a_to_b_two)]

\* Calculated from swap two to swap one.
ExactOut(hops, amount, limit_one, limit_two) ==
    \E r2 \in SwapResults(hops.two, amount, limit_two, FALSE, hops.a_to_b_two) :
        \E r1 \in SwapResults(hops.one, OtherAmount(r2, FALSE), limit_one, FALSE,
                              hops.a_to_b_one) :
            /\ \E other_amount_threshold \in Amounts : other_amount_threshold >= r1.paid
            /\ Settle(hops, r1, r2)
            /\ call' = [is_input |-> FALSE,
                        mint |-> InputMint(hops.two, hops.a_to_b_two)]

Init ==
    /\ sqrt_price \in [Pools -> SqrtPrice]
    /\ vaults = [p \in Pools |-> [m \in Mints |->
                    IF m \in {token_mint_a[p], token_mint_b[p]} THEN PoolTokens ELSE 0]]
    /\ wallets = [m \in Mints |-> [a \in Account |-> IF a = 1 THEN WalletTokens ELSE 0]]
    /\ call = [is_input |-> TRUE, mint |-> CHOOSE m \in Mints : TRUE]

Next ==
    \E hops \in Hops, amount \in Amounts, limit_one, limit_two \in SqrtPrice :
        \/ ExactIn(hops, amount, limit_one, limit_two)
        \/ ExactOut(hops, amount, limit_one, limit_two)

Spec == Init /\ [][Next]_vars

-----------------------------------------------------------------------------
TypeOK ==
    /\ sqrt_price \in [Pools -> SqrtPrice]
    /\ vaults \in [Pools -> [Mints -> Nat]]
    /\ wallets \in [Mints -> [Account -> Nat]]
    /\ call \in [is_input: BOOLEAN, mint: Mints]

\* What the caller has of the intermediate token.
Intermediate(balances, mint) == balances[mint][1] + balances[mint][2]

(***************************************************************************)
(* An exact input never costs the caller tokens of the intermediate mint,  *)
(* although two price limits may stop the two swaps at amounts that differ *)
(* and the accounts of the two hops need not be the same: swap two takes   *)
(* at most what swap one returned.                                         *)
(***************************************************************************)
ExactInKeepsIntermediate ==
    [][call'.is_input =>
           Intermediate(wallets', call'.mint) >= Intermediate(wallets, call'.mint)]_vars

(***************************************************************************)
(* An exact output never strands tokens in the middle: swap one returns at *)
(* most what swap two takes.                                               *)
(***************************************************************************)
ExactOutStrandsNothing ==
    [][~call'.is_input =>
           Intermediate(wallets', call'.mint) <= Intermediate(wallets, call'.mint)]_vars

(***************************************************************************)
(* The comment in the handler: the output of swap one is the input of swap *)
(* two.                                                                    *)
(***************************************************************************)
IntermediatePassedOn ==
    [][Intermediate(wallets', call'.mint) = Intermediate(wallets, call'.mint)]_vars
=============================================================================
