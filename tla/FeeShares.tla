------------------------------ MODULE FeeShares ------------------------------
(***************************************************************************)
(* What a pool promises its liquidity providers: fee growth accrued while  *)
(* a tick was the current one belongs to the positions whose range held    *)
(* that tick, once each and to nobody else, and a swap that fails leaves   *)
(* no trace.  Nothing is said of how that is kept track of: here each      *)
(* position simply has a counter, which wraps at Modulus.                  *)
(***************************************************************************)
EXTENDS Integers

CONSTANTS
    Holders,  \* the position accounts
    Ticks,    \* what the current tick may be
    Modulus   \* growth is counted modulo this, 2^128 in the code

VARIABLES
    holdings,  \* the range of each position, and whether it has liquidity
    book,      \* the current tick and each position's unclaimed growth
    saved,     \* the book as it was before the swap in progress, if any
    trading    \* a swap is in progress

vars == <<holdings, book, saved, trading>>

Growth == 0 .. Modulus - 1

Holding == [live: BOOLEAN, lower: Ticks, upper: Ticks]

Earns(p) ==
    /\ holdings[p].live
    /\ holdings[p].lower <= book.tick
    /\ book.tick < holdings[p].upper

Init ==
    /\ holdings \in [Holders -> [live: {FALSE}, lower: Ticks, upper: Ticks]]
    /\ book \in [tick: Ticks, unclaimed: {[p \in Holders |-> 0]}]
    /\ saved = book
    /\ trading = FALSE

\* A position is opened, closed, or changes its liquidity, or claims: what it
\* earned so far is settled.
Claim(p) ==
    /\ ~trading
    /\ UNCHANGED trading
    /\ book' = [book EXCEPT !.unclaimed[p] = 0]
    /\ saved' = book'
    /\ \E holding \in {holdings'[p]} \intersect Holding :
          holdings' = [holdings EXCEPT ![p] = holding]

Begin ==
    /\ ~trading
    /\ trading' = TRUE
    /\ UNCHANGED <<holdings, book, saved>>

\* Growth g accrues at the current tick, and then the tick moves.
Trade(g) ==
    /\ trading
    /\ UNCHANGED <<trading, holdings>>
    /\ book' \in [tick: Ticks,
                  unclaimed: {[p \in Holders |->
                      IF Earns(p) THEN (book.unclaimed[p] + g) % Modulus
                                  ELSE book.unclaimed[p]]}]
    /\ UNCHANGED saved

Commit ==
    /\ trading
    /\ trading' = FALSE
    /\ saved' = book
    /\ UNCHANGED <<holdings, book>>

Abort ==
    /\ trading
    /\ trading' = FALSE
    /\ book' = saved
    /\ UNCHANGED <<holdings, saved>>

Next ==
    \/ \E p \in Holders : Claim(p)
    \/ Begin
    \/ \E g \in Growth : Trade(g)
    \/ Commit
    \/ Abort

Spec == Init /\ [][Next]_vars
=============================================================================
