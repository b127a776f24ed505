---------------------------- MODULE MCTwoHopSwap ----------------------------
\* Two pools with the mint M between X and Y, sorted as X, M, Y.
EXTENDS TwoHopSwap

MCMintA == [p \in Pools |-> IF p = "XM" THEN "X" ELSE "M"]
MCMintB == [p \in Pools |-> IF p = "XM" THEN "M" ELSE "Y"]

\* What an instruction was asked for decides nothing later.
MCView == <<sqrt_price, vaults, wallets>>
=============================================================================
