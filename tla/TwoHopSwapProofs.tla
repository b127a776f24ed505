--------------------------- MODULE TwoHopSwapProofs ---------------------------
(***************************************************************************)
(* What two hops do to the caller's tokens in the middle, for any pools,   *)
(* mints and amounts.                                                      *)
(***************************************************************************)
EXTENDS TwoHopSwap, TLAPS

Result == [paid: 0 .. MAX_U64, taken: 0 .. MAX_U64, price: SqrtPrice]

\* What the two pools of an instruction have in common and what they do not.
LEMMA HopMints ==
  ASSUME NEW hops \in Hops
  PROVE  LET in_one == InputMint(hops.one, hops.a_to_b_one)
             out_one == OutputMint(hops.one, hops.a_to_b_one)
             in_two == InputMint(hops.two, hops.a_to_b_two)
             out_two == OutputMint(hops.two, hops.a_to_b_two)
         IN  /\ hops.one \in Pools /\ hops.two \in Pools /\ hops.one # hops.two
             /\ {in_one, out_one, in_two, out_two} \subseteq Mints
             /\ out_one = in_two
             /\ in_one # out_one
             /\ in_two # out_two
BY TwoHopAssumption DEF TwoHopAssumption, Hops, InputMint, OutputMint

\* The settlement changes the caller's tokens in the middle by what swap one
\* returns and swap two takes, from whichever accounts.
LEMMA Settled ==
  ASSUME TypeOK, NEW hops \in Hops, NEW r1 \in Result, NEW r2 \in Result,
         Settle(hops, r1, r2)
  PROVE  LET mint == InputMint(hops.two, hops.a_to_b_two)
         IN  Intermediate(wallets', mint)
                = Intermediate(wallets, mint) + r1.taken - r2.paid
<1> DEFINE in_one == InputMint(hops.one, hops.a_to_b_one)
           out_one == OutputMint(hops.one, hops.a_to_b_one)
           in_two == InputMint(hops.two, hops.a_to_b_two)
           out_two == OutputMint(hops.two, hops.a_to_b_two)
<1>1. /\ {in_one, out_one, in_two, out_two} \subseteq Mints
      /\ out_one = in_two /\ in_one # out_one /\ in_two # out_two
  BY HopMints
<1>2. r1.paid \in Nat /\ r1.taken \in Nat /\ r2.paid \in Nat /\ r2.taken \in Nat
  BY TwoHopAssumption DEF TwoHopAssumption, Result
<1>3. wallets \in [Mints -> [Account -> Nat]]
  BY DEF TypeOK
<1> HIDE DEF in_one, out_one, in_two, out_two
<1>4. PICK to \in Account, from \in Account :
         LET between == [wallets EXCEPT ![in_one][1] = @ - r1.paid,
                                        ![out_one][to] = @ + r1.taken]
         IN  wallets' = [between EXCEPT ![in_two][from] = @ - r2.paid,
                                        ![out_two][1] = @ + r2.taken]
  BY DEF Settle, in_one, out_one, in_two, out_two
<1>5. /\ wallets'[in_two][1] = wallets[in_two][1]
            + (IF to = 1 THEN r1.taken ELSE 0) - (IF from = 1 THEN r2.paid ELSE 0)
      /\ wallets'[in_two][2] = wallets[in_two][2]
            + (IF to = 2 THEN r1.taken ELSE 0) - (IF from = 2 THEN r2.paid ELSE 0)
  BY <1>1, <1>2, <1>3, <1>4 DEF Account
<1>6. wallets[in_two][1] \in Nat /\ wallets[in_two][2] \in Nat
  BY <1>1, <1>3 DEF Account
<1>7. Intermediate(wallets', in_two) = Intermediate(wallets, in_two) + r1.taken - r2.paid
  <2> DEFINE x == r1.taken
             y == r2.paid
             w1 == wallets[in_two][1]
             w2 == wallets[in_two][2]
             v1 == wallets'[in_two][1]
             v2 == wallets'[in_two][2]
  <2>1. /\ to \in {1, 2} /\ from \in {1, 2}
        /\ x \in Nat /\ y \in Nat /\ w1 \in Nat /\ w2 \in Nat
    BY <1>2, <1>6 DEF Account
  <2>2. /\ v1 = w1 + (IF to = 1 THEN x ELSE 0) - (IF from = 1 THEN y ELSE 0)
        /\ v2 = w2 + (IF to = 2 THEN x ELSE 0) - (IF from = 2 THEN y ELSE 0)
    BY <1>5, Zenon
  <2>3. /\ Intermediate(wallets, in_two) = w1 + w2
        /\ Intermediate(wallets', in_two) = v1 + v2
    BY Zenon DEF Intermediate
  <2> HIDE DEF x, y, w1, w2, v1, v2
  <2>4. v1 + v2 = w1 + w2 + x - y
    BY <2>1, <2>2
  <2>5. Intermediate(wallets', in_two) = Intermediate(wallets, in_two) + x - y
    BY <2>3, <2>4, Zenon
  <2> QED
    BY <2>5, Zenon DEF x, y
<1> QED
  BY <1>7 DEF in_two

\* Tokens that move between two accounts that are not overdrawn.
LEMMA Moved ==
  ASSUME NEW S, NEW f \in [S -> Nat], NEW a \in S, NEW b \in S, a # b,
         NEW x \in Nat, NEW y \in Nat, y <= f[b]
  PROVE  [f EXCEPT ![a] = @ + x, ![b] = @ - y] \in [S -> Nat]
<1> DEFINE g == [f EXCEPT ![a] = @ + x, ![b] = @ - y]
<1>1. \A s \in S : g[s] \in Nat
  <2> TAKE s \in S
  <2>1. f[s] \in Nat
    OBVIOUS
  <2>2. g[s] = IF s = b THEN f[s] - y ELSE IF s = a THEN f[s] + x ELSE f[s]
    OBVIOUS
  <2> QED
    BY <2>1, <2>2
<1> QED
  BY <1>1

\* The settlement leaves no account and no vault overdrawn.
LEMMA SettledType ==
  ASSUME TypeOK, NEW hops \in Hops, NEW r1 \in Result, NEW r2 \in Result,
         Settle(hops, r1, r2)
  PROVE  /\ sqrt_price' \in [Pools -> SqrtPrice]
         /\ vaults' \in [Pools -> [Mints -> Nat]]
         /\ wallets' \in [Mints -> [Account -> Nat]]
<1> DEFINE in_one == InputMint(hops.one, hops.a_to_b_one)
           out_one == OutputMint(hops.one, hops.a_to_b_one)
           in_two == InputMint(hops.two, hops.a_to_b_two)
           out_two == OutputMint(hops.two, hops.a_to_b_two)
<1>1. /\ hops.one \in Pools /\ hops.two \in Pools /\ hops.one # hops.two
      /\ in_one \in Mints /\ out_one \in Mints /\ in_two \in Mints /\ out_two \in Mints
      /\ in_one # out_one /\ in_two # out_two
  BY HopMints
<1>2. /\ r1.paid \in Nat /\ r1.taken \in Nat /\ r2.paid \in Nat /\ r2.taken \in Nat
      /\ r1.price \in SqrtPrice /\ r2.price \in SqrtPrice
  BY TwoHopAssumption DEF TwoHopAssumption, Result
<1>3. /\ sqrt_price \in [Pools -> SqrtPrice]
      /\ vaults \in [Pools -> [Mints -> Nat]]
      /\ wallets \in [Mints -> [Account -> Nat]]
  BY DEF TypeOK
<1> HIDE DEF in_one, out_one, in_two, out_two
<1>4. sqrt_price' \in [Pools -> SqrtPrice]
  BY <1>1, <1>2, <1>3 DEF Settle
<1>5. vaults' \in [Pools -> [Mints -> Nat]]
  <2> DEFINE one == [vaults[hops.one] EXCEPT ![in_one] = @ + r1.paid,
                                             ![out_one] = @ - r1.taken]
             two == [vaults[hops.two] EXCEPT ![in_two] = @ + r2.paid,
                                             ![out_two] = @ - r2.taken]
  <2>1. /\ vaults' = [vaults EXCEPT ![hops.one] = one, ![hops.two] = two]
        /\ r1.taken <= vaults[hops.one][out_one]
        /\ r2.taken <= vaults[hops.two][out_two]
    BY <1>1, <1>3 DEF Settle, Covers, in_one, out_one, in_two, out_two
  <2>2. one \in [Mints -> Nat]
    BY <2>1, <1>1, <1>2, <1>3, Moved
  <2>3. two \in [Mints -> Nat]
    BY <2>1, <1>1, <1>2, <1>3, Moved
  <2> HIDE DEF one, two
  <2> QED
    BY <2>1, <2>2, <2>3, <1>1, <1>3
<1>6. wallets' \in [Mints -> [Account -> Nat]]
  <2>1. PICK to \in Account, from \in Account :
           LET between == [wallets EXCEPT ![in_one][1] = @ - r1.paid,
                                          ![out_one][to] = @ + r1.taken]
           IN  /\ r1.paid <= wallets[in_one][1]
               /\ r2.paid <= between[in_two][from]
               /\ wallets' = [between EXCEPT ![in_two][from] = @ - r2.paid,
                                             ![out_two][1] = @ + r2.taken]
    BY DEF Settle, Covers, in_one, out_one, in_two, out_two
  <2> DEFINE between == [wallets EXCEPT ![in_one][1] = @ - r1.paid,
                                        ![out_one][to] = @ + r1.taken]
  <2>2. between \in [Mints -> [Account -> Nat]]
    <3> DEFINE paid == [wallets EXCEPT ![in_one][1] = @ - r1.paid]
    <3>1. [wallets[in_one] EXCEPT ![1] = @ - r1.paid] \in [Account -> Nat]
      BY <2>1, <1>1, <1>2, <1>3 DEF Account
    <3>2. paid \in [Mints -> [Account -> Nat]]
      BY <3>1, <1>1, <1>3
    <3>3. between = [paid EXCEPT ![out_one][to] = @ + r1.taken]
      BY <1>1, <1>3
    <3> HIDE DEF between, paid
    <3>4. [paid[out_one] EXCEPT ![to] = @ + r1.taken] \in [Account -> Nat]
      BY <3>2, <1>1, <1>2
    <3> QED
      BY <3>2, <3>3, <3>4, <1>1
  <2>3. /\ r2.paid <= between[in_two][from]
        /\ wallets' = [between EXCEPT ![in_two][from] = @ - r2.paid,
                                      ![out_two][1] = @ + r2.taken]
    BY <2>1
  <2> HIDE DEF between
  <2> QED
    BY <2>2, <2>3, <1>1, <1>2 DEF Account
<1> QED
  BY <1>4, <1>5, <1>6

\* A swap trades at most the amount it was given.
LEMMA NotMoreThanAsked ==
  ASSUME NEW p, NEW amount, NEW limit, NEW is_input \in BOOLEAN, NEW a_to_b,
         NEW r \in SwapResults(p, amount, limit, is_input, a_to_b)
  PROVE  /\ r \in Result
         /\ IF is_input THEN r.paid <= amount ELSE r.taken <= amount
BY DEF SwapResults, Result

\* What the two calculations of an instruction have in common: two results that
\* are settled, of which the second calculated was given what the first one left.
LEMMA Hopped ==
  ASSUME TypeOK, Next
  PROVE  \E hops \in Hops, r1 \in Result, r2 \in Result :
            /\ Settle(hops, r1, r2)
            /\ call' \in [is_input: BOOLEAN, mint: Mints]
            /\ call'.mint = InputMint(hops.two, hops.a_to_b_two)
            /\ IF call'.is_input THEN r2.paid <= r1.taken ELSE r1.taken <= r2.paid
<1>1. PICK hops \in Hops, amount \in Amounts, limit_one \in SqrtPrice,
           limit_two \in SqrtPrice :
         \/ ExactIn(hops, amount, limit_one, limit_two)
         \/ ExactOut(hops, amount, limit_one, limit_two)
  BY DEF Next
<1>2. InputMint(hops.two, hops.a_to_b_two) \in Mints
  BY HopMints
<1>3. CASE ExactIn(hops, amount, limit_one, limit_two)
  <2>1. PICK r1 \in SwapResults(hops.one, amount, limit_one, TRUE, hops.a_to_b_one) :
           \E r2 \in SwapResults(hops.two, r1.taken, limit_two, TRUE, hops.a_to_b_two) :
              /\ Settle(hops, r1, r2)
              /\ call' = [is_input |-> TRUE,
                          mint |-> InputMint(hops.two, hops.a_to_b_two)]
    BY <1>3 DEF ExactIn, OtherAmount
  <2>2. PICK r2 \in SwapResults(hops.two, r1.taken, limit_two, TRUE, hops.a_to_b_two) :
           /\ Settle(hops, r1, r2)
           /\ call' = [is_input |-> TRUE, mint |-> InputMint(hops.two, hops.a_to_b_two)]
    BY <2>1
  <2>3. r1 \in Result /\ r2 \in Result /\ r2.paid <= r1.taken
    BY NotMoreThanAsked
  <2> QED
    BY <2>2, <2>3, <1>2
<1>4. CASE ExactOut(hops, amount, limit_one, limit_two)
  <2>1. PICK r2 \in SwapResults(hops.two, amount, limit_two, FALSE, hops.a_to_b_two) :
           \E r1 \in SwapResults(hops.one, r2.paid, limit_one, FALSE, hops.a_to_b_one) :
              /\ Settle(hops, r1, r2)
              /\ call' = [is_input |-> FALSE,
                          mint |-> InputMint(hops.two, hops.a_to_b_two)]
    BY <1>4 DEF ExactOut, OtherAmount
  <2>2. PICK r1 \in SwapResults(hops.one, r2.paid, limit_one, FALSE, hops.a_to_b_one) :
           /\ Settle(hops, r1, r2)
           /\ call' = [is_input |-> FALSE, mint |-> InputMint(hops.two, hops.a_to_b_two)]
    BY <2>1
  <2>3. r1 \in Result /\ r2 \in Result /\ r1.taken <= r2.paid
    BY NotMoreThanAsked
  <2> QED
    BY <2>2, <2>3, <1>2
<1> QED
  BY <1>1, <1>3, <1>4

-----------------------------------------------------------------------------
\* No instruction overdraws an account of the caller or a vault.
THEOREM TypeCorrect == Spec => []TypeOK
<1>1. Init => TypeOK
  BY TwoHopAssumption DEF TwoHopAssumption, Init, TypeOK, Account
<1>2. TypeOK /\ [Next]_vars => TypeOK'
  <2>1. CASE Next
    BY <2>1, Hopped, SettledType DEF TypeOK
  <2>2. CASE UNCHANGED vars
    BY <2>2 DEF vars, TypeOK
  <2> QED
    BY <2>1, <2>2
<1> QED
  BY <1>1, <1>2, PTL DEF Spec

\* One instruction and the caller's tokens in the middle: a fixed input costs
\* none, a fixed output leaves none behind.
LEMMA Middle ==
  ASSUME TypeOK, Next
  PROVE  IF call'.is_input
         THEN Intermediate(wallets', call'.mint) >= Intermediate(wallets, call'.mint)
         ELSE Intermediate(wallets', call'.mint) <= Intermediate(wallets, call'.mint)
<1>1. PICK hops \in Hops, r1 \in Result, r2 \in Result :
         /\ Settle(hops, r1, r2)
         /\ call' \in [is_input: BOOLEAN, mint: Mints]
         /\ call'.mint = InputMint(hops.two, hops.a_to_b_two)
         /\ IF call'.is_input THEN r2.paid <= r1.taken ELSE r1.taken <= r2.paid
  BY Hopped
<1>2. Intermediate(wallets', call'.mint)
         = Intermediate(wallets, call'.mint) + r1.taken - r2.paid
  BY <1>1, Settled
<1>3. Intermediate(wallets, call'.mint) \in Nat
  BY <1>1 DEF Intermediate, TypeOK, Account
<1>4. r1.taken \in Nat /\ r2.paid \in Nat
  BY TwoHopAssumption DEF TwoHopAssumption, Result
<1> QED
  BY <1>1, <1>2, <1>3, <1>4

\* A fixed input never costs the caller tokens of the mint in the middle, for any
\* pools, accounts and price limits (two_hop_swap::handler, exact in).
THEOREM ExactInKeepsIntermediateHolds == Spec => ExactInKeepsIntermediate
<1>1. TypeOK /\ [Next]_vars =>
         [call'.is_input => Intermediate(wallets', call'.mint)
                              >= Intermediate(wallets, call'.mint)]_vars
  BY Middle
<1> QED
  BY <1>1, TypeCorrect, PTL DEF Spec, ExactInKeepsIntermediate

\* A fixed output never strands the caller's tokens in the middle
\* (two_hop_swap::handler, exact out).
THEOREM ExactOutStrandsNothingHolds == Spec => ExactOutStrandsNothing
<1>1. TypeOK /\ [Next]_vars =>
         [~call'.is_input => Intermediate(wallets', call'.mint)
                               <= Intermediate(wallets, call'.mint)]_vars
  BY Middle
<1> QED
  BY <1>1, TypeCorrect, PTL DEF Spec, ExactOutStrandsNothing
=============================================================================
