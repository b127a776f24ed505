---------------------------- MODULE RewardsBudget ----------------------------
(***************************************************************************)
(* Rewards with a record of what each reward has emitted and paid so far,  *)
(* for the properties that compare the two.                                *)
(***************************************************************************)
EXTENDS Rewards

VARIABLES
    emitted,  \* the tokens that the rate let each reward emit, times Q64
    paid      \* the tokens that left each vault

BudgetInit ==
    /\ RewardsInit
    /\ emitted = NoGrowth
    /\ paid = NoGrowth

BudgetNext ==
    /\ RewardsNext
    /\ emitted' = [i \in RewardIndex |->
            emitted[i] + (unix_timestamp' - unix_timestamp)
                            * rewards.infos[i].emissions_per_second_x64]
    /\ paid' = [i \in RewardIndex |->
            IF vaults'[i] < vaults[i] THEN paid[i] + vaults[i] - vaults'[i]
                                      ELSE paid[i]]

BudgetSpec == BudgetInit /\ [][BudgetNext]_<<vars, rewardVars, emitted, paid>>

(***************************************************************************)
(* What positions were paid, are owed and could still claim is never more  *)
(* than the rate emitted: not by claiming twice, by leaving and coming     *)
(* back, by a deposit just before a claim, or by a rate changed late.      *)
(***************************************************************************)
WithinEmissions ==
    \A i \in RewardIndex :
        Q64 * (paid[i] + Total([p \in PositionId |->
            position_rewards[p][i].amount_owed
                + RewardDelta(positions[p].liquidity,
                     Unclaimed(rewards, i, pool.tick_current_index)[p])]))
          <= emitted[i]
=============================================================================
