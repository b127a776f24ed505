----------------------------- MODULE RewardShares -----------------------------
(***************************************************************************)
(* What a pool promises of a reward: as FeeShares promises of fees, but    *)
(* growth accrues by the clock, to the positions in range at that time,    *)
(* and nothing anybody does makes growth appear, vanish or change hands.   *)
(***************************************************************************)
EXTENDS FeeShares

VARIABLE now   \* the clock

\* Time passes, which it does only between transactions.
Elapse(g) ==
    /\ ~trading
    /\ now' = now + 1
    /\ book' = [book EXCEPT !.unclaimed =
          [p \in Holders |-> IF Earns(p) THEN (@[p] + g) % Modulus ELSE @[p]]]
    /\ saved' = book'
    /\ UNCHANGED <<holdings, trading>>

RewardsNext ==
    \/ \E g \in Growth : Elapse(g)
    \/ /\ UNCHANGED now
       /\ \/ \E p \in Holders : Claim(p)
          \/ Begin
          \/ Trade(0)
          \/ Commit
          \/ Abort

RewardsSpec == Init /\ now \in Nat /\ [][RewardsNext]_<<vars, now>>
=============================================================================
