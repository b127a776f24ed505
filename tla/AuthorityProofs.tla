--------------------------- MODULE AuthorityProofs ---------------------------
(***************************************************************************)
(* Who may do what, in a deployment and with a position.                   *)
(*                                                                         *)
(* Config, for any users, deployments, mints, tick spacings, rates and     *)
(* numbers of rewards: accounts are well formed and in order, and nothing  *)
(* changes in a deployment but what its authorities sign for.              *)
(*                                                                         *)
(* Custody, for any number of wallets, mints and indexes: the bitmap of a  *)
(* bundle, the one token that speaks for each position until it is burnt,  *)
(* and what stays behind then.                                             *)
(*                                                                         *)
(* The two share no state.  Each has its own specification, assumptions    *)
(* and inductive invariant, and no proof about one cites the other.        *)
(***************************************************************************)
EXTENDS Config, Custody, TLAPS

-----------------------------------------------------------------------------
(* Deployments.                                                              *)

\* Every account names the deployment under whose address it lies.  Without it
\* the has_one constraints would compare the wrong thing.
OwnAccounts ==
    /\ \A c \in Configs, s \in TickSpacings :
          fee_tiers[c][s] # NoAccount => fee_tiers[c][s].pools_config = c
    /\ \A c \in Configs, m \in Markets :
          IsPool(c, m) => pools[c][m].pools_config = c

ConfigInv == ConfigTypeOK /\ OwnAccounts /\ OrderedAccounts

\* A ledger without accounts.
LEMMA ConfigInitHolds == ConfigInit => ConfigInv
BY DEF ConfigInit, ConfigInv, ConfigTypeOK, OwnAccounts, OrderedAccounts, IsPool

-----------------------------------------------------------------------------
(* What an account is, one at a time.                                        *)

\* A pool that exists is a pool.
LEMMA PoolType ==
  ASSUME ConfigInv, NEW c \in Configs, NEW m \in Markets, IsPool(c, m)
  PROVE  pools[c][m] \in Pool
BY DEF ConfigInv, ConfigTypeOK, IsPool

\* So is a config, whose fields are thus users and a rate.
LEMMA ConfigType ==
  ASSUME ConfigInv, NEW c \in Configs, configs[c] # NoAccount
  PROVE  configs[c] \in PoolsConfig
BY DEF ConfigInv, ConfigTypeOK

\* And a fee tier.
LEMMA TierType ==
  ASSUME ConfigInv, NEW t \in Tiers, fee_tiers[t[1]][t[2]] # NoAccount
  PROVE  /\ t[1] \in Configs /\ t[2] \in TickSpacings
         /\ fee_tiers[t[1]][t[2]] \in FeeTier
BY DEF ConfigInv, ConfigTypeOK, Tiers

-----------------------------------------------------------------------------
(* Changes of one account.                                                   *)

\* A config is created or changed.
ConfigWritten(c, new) ==
    /\ configs' = [configs EXCEPT ![c] = new]
    /\ UNCHANGED <<fee_tiers, pools>>

\* The new config is all there is to check.
LEMMA ConfigWrittenInv ==
  ASSUME ConfigInv, NEW c \in Configs, NEW new \in PoolsConfig, ConfigWritten(c, new)
  PROVE  ConfigInv'
<1>1. ConfigTypeOK'
  BY DEF ConfigInv, ConfigTypeOK, ConfigWritten
<1> QED
  BY <1>1 DEF ConfigInv, OwnAccounts, OrderedAccounts, IsPool, ConfigWritten

\* A fee tier is created or changed.
TierWritten(c, s, new) ==
    /\ fee_tiers' = [fee_tiers EXCEPT ![c][s] = new]
    /\ UNCHANGED <<configs, pools>>

\* It must name the deployment whose address it has.
LEMMA TierWrittenInv ==
  ASSUME ConfigInv, NEW c \in Configs, NEW s \in TickSpacings, NEW new \in FeeTier,
         new.pools_config = c, TierWritten(c, s, new)
  PROVE  ConfigInv'
<1>1. fee_tiers \in [Configs -> [TickSpacings -> FeeTier \cup {NoAccount}]]
  BY DEF ConfigInv, ConfigTypeOK
<1>2. /\ fee_tiers' \in [Configs -> [TickSpacings -> FeeTier \cup {NoAccount}]]
      /\ \A d \in Configs, r \in TickSpacings :
            fee_tiers'[d][r] = IF d = c /\ r = s THEN new ELSE fee_tiers[d][r]
  BY <1>1 DEF TierWritten
<1>3. ConfigTypeOK' /\ OwnAccounts'
  BY <1>2 DEF ConfigInv, ConfigTypeOK, OwnAccounts, IsPool, TierWritten
<1> QED
  BY <1>3 DEF ConfigInv, OrderedAccounts, IsPool, TierWritten

\* Rewards are initialized in order.
InOrder(pool) ==
    \A i, j \in RewardIndex :
        j < i /\ Initialized(pool.reward_infos[i]) => Initialized(pool.reward_infos[j])

\* A pool is created or changed.
PoolWritten(a, new) ==
    /\ pools' = [pools EXCEPT ![a[1]][a[2]] = new]
    /\ UNCHANGED <<configs, fee_tiers>>

\* The ledger of pools is that pool, and the others as they were.
LEMMA PoolWrittenAt ==
  ASSUME ConfigInv, NEW a \in Addresses, NEW new, PoolWritten(a, new)
  PROVE  /\ a[1] \in Configs /\ a[2] \in Markets
         /\ pools'[a[1]][a[2]] = new
         /\ \A c \in Configs, m \in Markets :
               <<c, m>> # <<a[1], a[2]>> => pools'[c][m] = pools[c][m]
<1>1. /\ pools \in [Configs -> [Markets -> Pool \cup {NoAccount}]]
      /\ a[1] \in Configs /\ a[2] \in Markets
  BY DEF ConfigInv, ConfigTypeOK, Addresses
<1> QED
  BY <1>1 DEF PoolWritten

\* A pool may be written whose deployment, mints and rewards are right.
LEMMA PoolWrittenInv ==
  ASSUME ConfigInv, NEW a \in Addresses, NEW new \in Pool, PoolWritten(a, new),
         new.pools_config = a[1], MintsInOrder(a[2]), InOrder(new)
  PROVE  ConfigInv'
<1>1. /\ pools \in [Configs -> [Markets -> Pool \cup {NoAccount}]]
      /\ a[1] \in Configs /\ a[2] \in Markets
  BY DEF ConfigInv, ConfigTypeOK, Addresses
<1>2. pools' \in [Configs -> [Markets -> Pool \cup {NoAccount}]]
  BY <1>1 DEF PoolWritten
<1>3. /\ pools'[a[1]][a[2]] = new
      /\ \A c \in Configs, m \in Markets :
            <<c, m>> # <<a[1], a[2]>> => pools'[c][m] = pools[c][m]
  BY PoolWrittenAt
<1>4. ConfigTypeOK'
  BY <1>2 DEF ConfigInv, ConfigTypeOK, PoolWritten
<1>5. OwnAccounts'
  BY <1>1, <1>3 DEF ConfigInv, OwnAccounts, IsPool, PoolWritten
<1>6. OrderedAccounts'
  <2> SUFFICES ASSUME NEW c \in Configs, NEW m \in Markets, IsPool(c, m)'
               PROVE  /\ m.token_mint_a < m.token_mint_b
                      /\ InOrder(pools'[c][m])
    BY DEF OrderedAccounts, InOrder
  <2>1. CASE <<c, m>> = <<a[1], a[2]>>
    BY <2>1, <1>3 DEF MintsInOrder
  <2>2. CASE <<c, m>> # <<a[1], a[2]>>
    <3>1. pools'[c][m] = pools[c][m] /\ IsPool(c, m)
      BY <2>2, <1>3 DEF IsPool
    <3> QED
      BY <3>1 DEF ConfigInv, OrderedAccounts, InOrder
  <2> QED
    BY <2>1, <2>2
<1> QED
  BY <1>4, <1>5, <1>6 DEF ConfigInv

-----------------------------------------------------------------------------
(* What a signer may change of one account.                                  *)

\* Nobody is touched but who agrees.
Signed(u) == \A c \in Configs : SignedFor(u, c)

\* The authorities and the default that a new version of a config replaces.
ConfigRoles(u, old, new) ==
    /\ new.fee_authority = old.fee_authority \/ old.fee_authority = u
    /\ \/ new.default_protocol_fee_rate = old.default_protocol_fee_rate
       \/ old.fee_authority = u
    /\ \/ new.collect_protocol_fees_authority = old.collect_protocol_fees_authority
       \/ old.collect_protocol_fees_authority = u
    /\ \/ new.reward_emissions_super_authority = old.reward_emissions_super_authority
       \/ old.reward_emissions_super_authority = u

\* A config is changed by its roles.
LEMMA ConfigSigned ==
  ASSUME ConfigInv, NEW u \in Users, NEW c \in Configs, NEW new \in PoolsConfig,
         configs[c] # NoAccount, ConfigWritten(c, new), ConfigRoles(u, configs[c], new)
  PROVE  Signed(u)
<1> SUFFICES ASSUME NEW d \in Configs PROVE SignedFor(u, d)
  BY DEF Signed
<1>1. SignedForConfig(u, d)
  <2>1. new # NoAccount
    BY NoAccountAssumption
  <2>2. configs'[d] = IF d = c THEN new ELSE configs[d]
    BY DEF ConfigInv, ConfigTypeOK, ConfigWritten
  <2> QED
    BY <2>1, <2>2 DEF SignedForConfig, ConfigRoles
<1> QED
  BY <1>1
  DEF SignedFor, SignedForTiers, SignedForPool, SignedForReward, SameTerms, IsPool,
      ConfigWritten

\* A fee tier by the fee authority of its deployment.
LEMMA TierSigned ==
  ASSUME ConfigInv, NEW u \in Users, NEW c \in Configs, NEW s \in TickSpacings, NEW new,
         IsFeeAuthority(u, c), TierWritten(c, s, new)
  PROVE  Signed(u)
<1> SUFFICES ASSUME NEW d \in Configs PROVE SignedFor(u, d)
  BY DEF Signed
<1>1. d # c => fee_tiers'[d] = fee_tiers[d]
  BY DEF ConfigInv, ConfigTypeOK, TierWritten
<1> QED
  BY <1>1
  DEF SignedFor, SignedForConfig, SignedForTiers, SignedForPool, SignedForReward,
      SameTerms, IsPool, TierWritten

\* The terms, debts and rewards of a pool that a new version of it replaces.
PoolRoles(u, c, old, new) ==
    /\ SameTerms(old, new) \/ IsFeeAuthority(u, c)
    /\ new.protocol_fee_owed = old.protocol_fee_owed \/ IsCollectAuthority(u, c)
    /\ \A i \in RewardIndex :
          /\ \/ new.reward_infos[i].mint = old.reward_infos[i].mint
             \/ old.reward_infos[i].authority = u
          /\ \/ new.reward_infos[i].authority = old.reward_infos[i].authority
             \/ old.reward_infos[i].authority = u
             \/ IsSuperAuthority(u, c)

\* A pool by the roles of the deployment under whose address it lies.
LEMMA PoolSigned ==
  ASSUME ConfigInv, NEW u \in Users, NEW a \in Addresses, NEW new \in Pool,
         IsPool(a[1], a[2]), PoolWritten(a, new),
         PoolRoles(u, a[1], pools[a[1]][a[2]], new)
  PROVE  Signed(u)
<1> SUFFICES ASSUME NEW d \in Configs PROVE SignedFor(u, d)
  BY DEF Signed
<1>1. SignedForConfig(u, d) /\ SignedForTiers(u, d)
  BY DEF SignedForConfig, SignedForTiers, PoolWritten
<1>2. ASSUME NEW m \in Markets
      PROVE  /\ SignedForPool(u, d, m)
             /\ IsPool(d, m) => \A i \in RewardIndex : SignedForReward(u, d, m, i)
  <2>1. CASE <<d, m>> = <<a[1], a[2]>>
    <3>1. d = a[1] /\ m = a[2] /\ pools'[d][m] = new
      BY <2>1, PoolWrittenAt
    <3>2. new # NoAccount
      BY NoAccountAssumption
    <3> QED
      BY <3>1, <3>2 DEF SignedForPool, SignedForReward, PoolRoles, IsPool
  <2>2. CASE <<d, m>> # <<a[1], a[2]>>
    <3>1. pools'[d][m] = pools[d][m]
      BY <2>2, PoolWrittenAt
    <3> QED
      BY <3>1 DEF SignedForPool, SignedForReward, SameTerms, IsPool
  <2> QED
    BY <2>1, <2>2
<1> QED
  BY <1>1, <1>2 DEF SignedFor

-----------------------------------------------------------------------------
(* What may be done without a signature.                                     *)

\* Nothing is taken from anybody.
Open == \A c \in Configs : NothingTaken(c)

\* A pool may be added on the terms of its deployment, and one that exists may
\* come to owe a fee.
LEMMA PoolOpen ==
  ASSUME ConfigInv, NEW a \in Addresses, NEW new, PoolWritten(a, new),
         IF IsPool(a[1], a[2]) THEN OldPoolKept(pools[a[1]][a[2]], new)
                               ELSE OnOfferedTerms(a[1], new)
  PROVE  Open
<1> SUFFICES ASSUME NEW d \in Configs, NEW m \in Markets
             PROVE  IF IsPool(d, m)
                    THEN OldPoolKept(pools[d][m], pools'[d][m])
                    ELSE pools'[d][m] = NoAccount \/ OnOfferedTerms(d, pools'[d][m])
  BY DEF Open, NothingTaken, PoolWritten
<1>1. CASE <<d, m>> = <<a[1], a[2]>>
  <2>1. d = a[1] /\ m = a[2] /\ pools'[d][m] = new
    BY <1>1, PoolWrittenAt
  <2> QED
    BY <2>1
<1>2. CASE <<d, m>> # <<a[1], a[2]>>
  <2>1. pools'[d][m] = pools[d][m]
    BY <1>2, PoolWrittenAt
  <2> QED
    BY <2>1 DEF OldPoolKept, SameTerms, IsPool
<1> QED
  BY <1>1, <1>2

-----------------------------------------------------------------------------
(* What each instruction writes, and for whom.                               *)

\* A pool that exists stays what it was but for fields other than its rewards.
LEMMA PoolFieldsInv ==
  ASSUME ConfigInv, NEW a \in Addresses, NEW new \in Pool, PoolWritten(a, new),
         IsPool(a[1], a[2]),
         new.pools_config = pools[a[1]][a[2]].pools_config,
         InOrder(new)
  PROVE  ConfigInv'
<1>1. a[1] \in Configs /\ a[2] \in Markets
  BY DEF Addresses
<1>2. new.pools_config = a[1] /\ MintsInOrder(a[2])
  BY <1>1 DEF ConfigInv, OwnAccounts, OrderedAccounts, MintsInOrder
<1> QED
  BY <1>2, PoolWrittenInv

\* The rewards of a pool that exists are in order.
LEMMA PoolInOrder ==
  ASSUME ConfigInv, NEW a \in Addresses, IsPool(a[1], a[2])
  PROVE  /\ pools[a[1]][a[2]] \in Pool
         /\ InOrder(pools[a[1]][a[2]])
<1>1. a[1] \in Configs /\ a[2] \in Markets
  BY DEF Addresses
<1> QED
  BY <1>1, PoolType DEF ConfigInv, OrderedAccounts, InOrder

\* initialize_config
LEMMA InitializeConfigInv ==
  ASSUME ConfigInv, NEW c \in Configs, NEW u \in Users, NEW v \in Users, NEW w \in Users,
         NEW rate \in Rates, InitializeConfig(c, u, v, w, rate)
  PROVE  ConfigInv' /\ Open
<1>1. NewConfig(u, v, w, rate) \in PoolsConfig
  BY RatesAssumption
  DEF InitializeConfig, ValidProtocolFeeRate, NewConfig, PoolsConfig, Rates
<1>2. ConfigWritten(c, NewConfig(u, v, w, rate))
  BY DEF InitializeConfig, ConfigWritten
<1>3. Open
  <2>1. \A d \in Configs : d # c => configs'[d] = configs[d]
    BY <1>2 DEF ConfigInv, ConfigTypeOK, ConfigWritten
  <2> QED
    BY <2>1, <1>2
    DEF InitializeConfig, ConfigWritten, Open, NothingTaken, OldPoolKept, SameTerms, IsPool
<1> QED
  BY <1>1, <1>2, <1>3, ConfigWrittenInv

\* initialize_fee_tier
LEMMA InitializeFeeTierInv ==
  ASSUME ConfigInv, NEW u \in Users, NEW c \in Configs, NEW s \in TickSpacings,
         NEW rate \in Rates, InitializeFeeTier(u, c, s, rate)
  PROVE  ConfigInv' /\ Signed(u)
<1>1. NewFeeTier(c, rate) \in FeeTier /\ NewFeeTier(c, rate).pools_config = c
  BY RatesAssumption
  DEF InitializeFeeTier, ValidFeeRate, NewFeeTier, FeeTier, Rates
<1>2. TierWritten(c, s, NewFeeTier(c, rate))
  BY DEF InitializeFeeTier, TierWritten
<1> QED
  BY <1>1, <1>2, TierWrittenInv, TierSigned DEF InitializeFeeTier

\* set_default_fee_rate
LEMMA SetDefaultFeeRateInv ==
  ASSUME ConfigInv, NEW u \in Users, NEW c \in Configs, NEW t \in Tiers,
         NEW rate \in Rates, SetDefaultFeeRate(u, c, t, rate)
  PROVE  ConfigInv' /\ Signed(u)
<1> DEFINE old == fee_tiers[t[1]][t[2]]
           new == [old EXCEPT !.default_fee_rate = rate]
<1>1. /\ t[1] \in Configs /\ t[2] \in TickSpacings
      /\ old \in FeeTier /\ old.pools_config = t[1]
  BY TierType DEF SetDefaultFeeRate, ConfigInv, OwnAccounts
<1>2. new \in FeeTier /\ new.pools_config = t[1]
  BY <1>1, RatesAssumption DEF SetDefaultFeeRate, ValidFeeRate, FeeTier, Rates
<1>3. TierWritten(t[1], t[2], new)
  BY DEF SetDefaultFeeRate, TierWritten
<1>4. IsFeeAuthority(u, t[1])
  BY <1>1 DEF SetDefaultFeeRate, IsOf
<1> QED
  BY <1>1, <1>2, <1>3, <1>4, TierWrittenInv, TierSigned

\* set_default_protocol_fee_rate and the instructions that hand over a role.
LEMMA ConfigFieldsInv ==
  ASSUME ConfigInv, NEW u \in Users, NEW c \in Configs, NEW heir \in Users,
         NEW rate \in Rates,
         \/ SetDefaultProtocolFeeRate(u, c, rate)
         \/ SetFeeAuthority(u, c, heir)
         \/ SetCollectProtocolFeesAuthority(u, c, heir)
         \/ SetRewardEmissionsSuperAuthority(u, c, heir)
  PROVE  ConfigInv' /\ Signed(u)
<1>1. configs[c] # NoAccount
  BY DEF SetDefaultProtocolFeeRate, SetFeeAuthority, SetCollectProtocolFeesAuthority,
         SetRewardEmissionsSuperAuthority, IsFeeAuthority, IsCollectAuthority,
         IsSuperAuthority
<1>2. configs[c] \in PoolsConfig
  BY <1>1, ConfigType
<1>3. CASE SetDefaultProtocolFeeRate(u, c, rate)
  <2> DEFINE new == [configs[c] EXCEPT !.default_protocol_fee_rate = rate]
  <2>1. new \in PoolsConfig
    BY <1>2, <1>3, RatesAssumption
    DEF SetDefaultProtocolFeeRate, ValidProtocolFeeRate, PoolsConfig, Rates
  <2>2. ConfigWritten(c, new)
    BY <1>3 DEF SetDefaultProtocolFeeRate, ConfigWritten
  <2>3. ConfigRoles(u, configs[c], new)
    BY <1>2, <1>3
    DEF SetDefaultProtocolFeeRate, IsFeeAuthority, PoolsConfig, ConfigRoles
  <2> QED
    BY <1>1, <2>1, <2>2, <2>3, ConfigWrittenInv, ConfigSigned
<1>4. CASE SetFeeAuthority(u, c, heir)
  <2> DEFINE new == [configs[c] EXCEPT !.fee_authority = heir]
  <2>1. new \in PoolsConfig
    BY <1>2 DEF PoolsConfig
  <2>2. ConfigWritten(c, new)
    BY <1>4 DEF SetFeeAuthority, UpdateFeeAuthority, ConfigWritten
  <2>3. ConfigRoles(u, configs[c], new)
    BY <1>2, <1>4
    DEF SetFeeAuthority, IsFeeAuthority, PoolsConfig, ConfigRoles
  <2> QED
    BY <1>1, <2>1, <2>2, <2>3, ConfigWrittenInv, ConfigSigned
<1>5. CASE SetCollectProtocolFeesAuthority(u, c, heir)
  <2> DEFINE new == [configs[c] EXCEPT !.collect_protocol_fees_authority = heir]
  <2>1. new \in PoolsConfig
    BY <1>2 DEF PoolsConfig
  <2>2. ConfigWritten(c, new)
    BY <1>5 DEF SetCollectProtocolFeesAuthority, UpdateCollectProtocolFeesAuthority,
                ConfigWritten
  <2>3. ConfigRoles(u, configs[c], new)
    BY <1>2, <1>5
    DEF SetCollectProtocolFeesAuthority, IsCollectAuthority, PoolsConfig, ConfigRoles
  <2> QED
    BY <1>1, <2>1, <2>2, <2>3, ConfigWrittenInv, ConfigSigned
<1>6. CASE SetRewardEmissionsSuperAuthority(u, c, heir)
  <2> DEFINE new == [configs[c] EXCEPT !.reward_emissions_super_authority = heir]
  <2>1. new \in PoolsConfig
    BY <1>2 DEF PoolsConfig
  <2>2. ConfigWritten(c, new)
    BY <1>6 DEF SetRewardEmissionsSuperAuthority, UpdateRewardEmissionsSuperAuthority,
                ConfigWritten
  <2>3. ConfigRoles(u, configs[c], new)
    BY <1>2, <1>6
    DEF SetRewardEmissionsSuperAuthority, IsSuperAuthority, PoolsConfig, ConfigRoles
  <2> QED
    BY <1>1, <2>1, <2>2, <2>3, ConfigWrittenInv, ConfigSigned
<1> QED
  BY <1>3, <1>4, <1>5, <1>6

\* initialize_pool: what a new pool is, and that its rates are in bounds because
\* those it copies were.
NewPool(c, t) ==
    [pools_config |-> c,
     fee_rate |-> fee_tiers[t[1]][t[2]].default_fee_rate,
     protocol_fee_rate |-> configs[c].default_protocol_fee_rate,
     protocol_fee_owed |-> FALSE,
     reward_infos |-> [i \in RewardIndex |->
         NewRewardInfo(configs[c].reward_emissions_super_authority)]]

\* The invariant holds of the new pool.
LEMMA InitializePoolInv ==
  ASSUME ConfigInv, NEW c \in Configs, NEW m \in Markets, NEW t \in Tiers,
         InitializePool(c, m, t)
  PROVE  ConfigInv' /\ Open
<1>1. /\ configs[c] \in PoolsConfig
      /\ fee_tiers[t[1]][t[2]] \in FeeTier
  BY ConfigType, TierType DEF InitializePool, ValidTier
<1>2. NewPool(c, t) \in Pool
  BY <1>1
  DEF NewPool, Pool, PoolsConfig, FeeTier, RewardInfo, NewRewardInfo
<1>3. NewPool(c, t).pools_config = c /\ InOrder(NewPool(c, t))
  BY DEF NewPool, InOrder, Initialized, NewRewardInfo
<1>4. PoolWritten(<<c, m>>, NewPool(c, t)) /\ MintsInOrder(m)
  BY DEF InitializePool, PoolWritten, NewPool
<1>5. <<c, m>> \in Addresses
  BY DEF Addresses
<1>6. OnOfferedTerms(c, NewPool(c, t))
  <2>1. t[1] = c /\ t[2] \in TickSpacings /\ fee_tiers[c][t[2]] # NoAccount
    BY TierType DEF InitializePool, ValidTier, IsOf, ConfigInv, OwnAccounts
  <2> QED
    BY <2>1 DEF OnOfferedTerms, NewPool, NewRewardInfo
<1>7. Open
  BY <1>4, <1>5, <1>6, PoolOpen DEF InitializePool, IsPool
<1> QED
  BY <1>2, <1>3, <1>4, <1>5, <1>7, PoolWrittenInv

\* set_fee_rate, set_protocol_fee_rate and collect_protocol_fees.
LEMMA PoolRatesInv ==
  ASSUME ConfigInv, NEW u \in Users, NEW c \in Configs, NEW a \in Addresses,
         NEW rate \in Rates,
         \/ SetFeeRate(u, c, a, rate)
         \/ SetProtocolFeeRate(u, c, a, rate)
         \/ CollectProtocolFees(u, c, a)
  PROVE  ConfigInv' /\ Signed(u)
<1> DEFINE old == pools[a[1]][a[2]]
<1>1. /\ IsPool(a[1], a[2])
      /\ old \in Pool /\ InOrder(old)
  BY PoolInOrder
  DEF SetFeeRate, SetProtocolFeeRate, CollectProtocolFees
<1>5. old.pools_config = a[1]
  BY <1>1 DEF ConfigInv, OwnAccounts, Addresses
<1>2. CASE SetFeeRate(u, c, a, rate)
  <2> DEFINE new == [old EXCEPT !.fee_rate = rate]
  <2>1. new \in Pool /\ new.pools_config = old.pools_config /\ InOrder(new)
    BY <1>1, <1>2, RatesAssumption
    DEF SetFeeRate, UpdateFeeRate, ValidFeeRate, Pool, Rates, InOrder
  <2>2. PoolWritten(a, new)
    BY <1>2 DEF SetFeeRate, UpdateFeeRate, PoolWritten
  <2>3. PoolRoles(u, a[1], old, new)
    BY <1>1, <1>5, <1>2 DEF SetFeeRate, IsOf, Pool, PoolRoles, SameTerms
  <2> QED
    BY <1>1, <2>1, <2>2, <2>3, PoolFieldsInv, PoolSigned
<1>3. CASE SetProtocolFeeRate(u, c, a, rate)
  <2> DEFINE new == [old EXCEPT !.protocol_fee_rate = rate]
  <2>1. new \in Pool /\ new.pools_config = old.pools_config /\ InOrder(new)
    BY <1>1, <1>3, RatesAssumption
    DEF SetProtocolFeeRate, UpdateProtocolFeeRate, ValidProtocolFeeRate, Pool, Rates,
        InOrder
  <2>2. PoolWritten(a, new)
    BY <1>3 DEF SetProtocolFeeRate, UpdateProtocolFeeRate, PoolWritten
  <2>3. PoolRoles(u, a[1], old, new)
    BY <1>1, <1>5, <1>3 DEF SetProtocolFeeRate, IsOf, Pool, PoolRoles, SameTerms
  <2> QED
    BY <1>1, <2>1, <2>2, <2>3, PoolFieldsInv, PoolSigned
<1>4. CASE CollectProtocolFees(u, c, a)
  <2> DEFINE new == [old EXCEPT !.protocol_fee_owed = FALSE]
  <2>1. new \in Pool /\ new.pools_config = old.pools_config /\ InOrder(new)
    BY <1>1 DEF Pool, InOrder
  <2>2. PoolWritten(a, new)
    BY <1>4 DEF CollectProtocolFees, ResetProtocolFeesOwed, PoolWritten
  <2>3. PoolRoles(u, a[1], old, new)
    BY <1>1, <1>5, <1>4 DEF CollectProtocolFees, IsOf, Pool, PoolRoles, SameTerms
  <2> QED
    BY <1>1, <2>1, <2>2, <2>3, PoolFieldsInv, PoolSigned
<1> QED
  BY <1>2, <1>3, <1>4

\* initialize_reward: the index is the lowest one without a reward, so that no
\* gap comes about.
LEMMA InitializeRewardInv ==
  ASSUME ConfigInv, NEW u \in Users, NEW a \in Addresses, NEW index \in 0 .. NUM_REWARDS,
         NEW mint \in RewardMints, InitializeReward(u, a, index, mint)
  PROVE  ConfigInv' /\ Signed(u)
<1> DEFINE old == pools[a[1]][a[2]]
           new == [old EXCEPT !.reward_infos[index].mint = mint]
<1>1. /\ IsPool(a[1], a[2])
      /\ old \in Pool /\ InOrder(old)
      /\ index \in RewardIndex
      /\ LowestUninitialized(old, index)
  BY PoolInOrder, RewardsAssumption
  DEF InitializeReward, IsRewardAuthority, RewardIndex
<1>2. new \in Pool /\ new.pools_config = old.pools_config
  <2> DEFINE info == old.reward_infos[index]
             infos == [old.reward_infos EXCEPT ![index].mint = mint]
  <2>1. old.reward_infos \in [RewardIndex -> RewardInfo] /\ info \in RewardInfo
    BY <1>1 DEF Pool
  <2>2. [info EXCEPT !.mint = mint] \in RewardInfo
    BY <2>1 DEF RewardInfo
  <2>3. infos \in [RewardIndex -> RewardInfo]
    <3> HIDE DEF info
    <3> QED
      BY <1>1, <2>1, <2>2 DEF info
  <2>4. new = [old EXCEPT !.reward_infos = infos]
    OBVIOUS
  <2> HIDE DEF infos, info, old, new
  <2> QED
    BY <1>1, <2>3, <2>4 DEF Pool
<1>3. \A i \in RewardIndex :
         new.reward_infos[i].mint = IF i = index THEN mint ELSE old.reward_infos[i].mint
  BY <1>1 DEF Pool, RewardInfo
<1>4. InOrder(new)
  BY <1>1, <1>3, MintsAssumption, RewardsAssumption
  DEF InOrder, LowestUninitialized, Initialized, RewardIndex
<1>5. PoolWritten(a, new)
  BY DEF InitializeReward, PoolWritten
<1>6. PoolRoles(u, a[1], old, new)
  BY <1>1 DEF InitializeReward, IsRewardAuthority, Pool, RewardInfo, PoolRoles, SameTerms
<1> QED
  BY <1>1, <1>2, <1>4, <1>5, <1>6, PoolFieldsInv, PoolSigned

\* set_reward_authority and set_reward_authority_by_super_authority.
LEMMA RewardAuthorityInv ==
  ASSUME ConfigInv, NEW u \in Users, NEW a \in Addresses,
         NEW index \in 0 .. NUM_REWARDS, NEW heir \in Users, IsPool(a[1], a[2]),
         \/ pools[a[1]][a[2]].reward_infos[index].authority = u
         \/ IsSuperAuthority(u, a[1]),
         UpdateRewardAuthority(a, index, heir)
  PROVE  ConfigInv' /\ Signed(u)
<1> DEFINE old == pools[a[1]][a[2]]
           new == [old EXCEPT !.reward_infos[index].authority = heir]
<1>1. /\ old \in Pool /\ InOrder(old)
      /\ index \in RewardIndex
  <2>1. index < NUM_REWARDS
    BY DEF UpdateRewardAuthority
  <2>2. index \in RewardIndex
    BY <2>1, RewardsAssumption DEF RewardIndex
  <2>3. old \in Pool /\ InOrder(old)
    BY PoolInOrder
  <2> QED
    BY <2>2, <2>3
<1>2. new \in Pool /\ new.pools_config = old.pools_config
  <2> DEFINE info == old.reward_infos[index]
             infos == [old.reward_infos EXCEPT ![index].authority = heir]
  <2>1. old.reward_infos \in [RewardIndex -> RewardInfo] /\ info \in RewardInfo
    BY <1>1 DEF Pool
  <2>2. [info EXCEPT !.authority = heir] \in RewardInfo
    BY <2>1 DEF RewardInfo
  <2>3. infos \in [RewardIndex -> RewardInfo]
    <3> HIDE DEF info
    <3> QED
      BY <1>1, <2>1, <2>2 DEF info
  <2>4. new = [old EXCEPT !.reward_infos = infos]
    OBVIOUS
  <2> HIDE DEF infos, info, old, new
  <2> QED
    BY <1>1, <2>3, <2>4 DEF Pool
<1>3. \A i \in RewardIndex : new.reward_infos[i].mint = old.reward_infos[i].mint
  BY <1>1 DEF Pool, RewardInfo
<1>4. InOrder(new)
  BY <1>1, <1>3 DEF InOrder, Initialized
<1>5. PoolWritten(a, new)
  BY DEF UpdateRewardAuthority, PoolWritten
<1>6. PoolRoles(u, a[1], old, new)
  BY <1>1 DEF Pool, RewardInfo, PoolRoles, SameTerms
<1> QED
  BY <1>1, <1>2, <1>4, <1>5, <1>6, PoolFieldsInv, PoolSigned

\* Every signed instruction keeps the invariant, and changes what its signer may.
LEMMA SignedInv ==
  ASSUME ConfigInv, NEW u \in Users, SignedInstruction(u)
  PROVE  ConfigInv' /\ Signed(u)
<1>1. 0 \in Rates
  BY RatesAssumption DEF Rates
<1>2. ASSUME NEW c \in Configs, ConfigInstructions(u, c)
      PROVE  ConfigInv' /\ Signed(u)
  <2>1. CASE \E rate \in Rates :
               \/ \E s \in TickSpacings : InitializeFeeTier(u, c, s, rate)
               \/ \E t \in Tiers : SetDefaultFeeRate(u, c, t, rate)
               \/ SetDefaultProtocolFeeRate(u, c, rate)
    BY <2>1, InitializeFeeTierInv, SetDefaultFeeRateInv, ConfigFieldsInv
  <2>2. CASE \E heir \in Users :
               \/ SetFeeAuthority(u, c, heir)
               \/ SetCollectProtocolFeesAuthority(u, c, heir)
               \/ SetRewardEmissionsSuperAuthority(u, c, heir)
    BY <1>1, <2>2, ConfigFieldsInv
  <2> QED
    BY <1>2, <2>1, <2>2 DEF ConfigInstructions
<1>3. ASSUME NEW a \in LivePools, PoolInstructions(u, a)
      PROVE  ConfigInv' /\ Signed(u)
  <2>1. a \in Addresses
    BY DEF LivePools
  <2>2. CASE \E c \in Configs :
               \/ \E rate \in Rates : SetFeeRate(u, c, a, rate)
               \/ \E rate \in Rates : SetProtocolFeeRate(u, c, a, rate)
               \/ CollectProtocolFees(u, c, a)
    BY <1>1, <2>1, <2>2, PoolRatesInv
  <2>3. ASSUME NEW i \in 0 .. NUM_REWARDS, NEW mint \in RewardMints,
               InitializeReward(u, a, i, mint)
        PROVE  ConfigInv' /\ Signed(u)
    BY <2>1, <2>3, InitializeRewardInv
  <2>4. ASSUME NEW i \in 0 .. NUM_REWARDS, NEW heir \in Users,
               SetRewardAuthority(u, a, i, heir)
        PROVE  ConfigInv' /\ Signed(u)
    BY <2>1, <2>4, RewardAuthorityInv DEF SetRewardAuthority, IsRewardAuthority
  <2>5. ASSUME NEW c \in Configs, NEW i \in 0 .. NUM_REWARDS, NEW heir \in Users,
               SetRewardAuthorityBySuperAuthority(u, c, a, i, heir)
        PROVE  ConfigInv' /\ Signed(u)
    <3>1. /\ a[1] \in Configs /\ a[2] \in Markets
          /\ IsPool(a[1], a[2]) /\ c = pools[a[1]][a[2]].pools_config
      BY <2>1, <2>5 DEF SetRewardAuthorityBySuperAuthority, IsOf, Addresses
    <3>2. c = a[1]
      BY <3>1 DEF ConfigInv, OwnAccounts
    <3> QED
      BY <2>1, <2>5, <3>1, <3>2, RewardAuthorityInv
      DEF SetRewardAuthorityBySuperAuthority
  <2> QED
    BY <1>3, <2>2, <2>3, <2>4, <2>5 DEF PoolInstructions
<1> QED
  BY <1>2, <1>3 DEF SignedInstruction

\* The instructions that need no signature keep the invariant, and take nothing.
LEMMA OpenInv ==
  ASSUME ConfigInv, OpenInstruction
  PROVE  ConfigInv' /\ Open
<1>1. CASE NewSpaces
  BY <1>1, InitializeConfigInv, InitializePoolInv DEF NewSpaces
<1>2. ASSUME NEW a \in Addresses, UpdateAfterSwap(a) PROVE ConfigInv' /\ Open
  <2> DEFINE new == [pools[a[1]][a[2]] EXCEPT !.protocol_fee_owed = TRUE]
  <2>2. pools[a[1]][a[2]] \in Pool /\ InOrder(pools[a[1]][a[2]])
    BY <1>2, PoolInOrder DEF UpdateAfterSwap
  <2>3. /\ new \in Pool /\ InOrder(new)
        /\ new.pools_config = pools[a[1]][a[2]].pools_config
    BY <2>2 DEF Pool, InOrder
  <2>4. PoolWritten(a, new) /\ IsPool(a[1], a[2])
    BY <1>2 DEF UpdateAfterSwap, PoolWritten
  <2>5. OldPoolKept(pools[a[1]][a[2]], new)
    BY <2>2 DEF OldPoolKept, SameTerms, Pool
  <2> QED
    BY <2>3, <2>4, <2>5, PoolFieldsInv, PoolOpen
<1> QED
  BY <1>1, <1>2 DEF OpenInstruction

\* The invariant is inductive.
LEMMA ConfigNextInv == ConfigInv /\ [ConfigNext]_config_vars => ConfigInv'
<1> SUFFICES ASSUME ConfigInv, [ConfigNext]_config_vars PROVE ConfigInv'
  OBVIOUS
<1>1. CASE UNCHANGED config_vars
  BY <1>1 DEF config_vars, ConfigInv, ConfigTypeOK, OwnAccounts, OrderedAccounts, IsPool
<1> QED
  BY <1>1, SignedInv, OpenInv DEF ConfigNext

-----------------------------------------------------------------------------
(* The invariants.                                                           *)

\* Accounts are well formed, name their own deployment, and are in order.
THEOREM ConfigInvariance == ConfigSpec => []ConfigInv
BY ConfigInitHolds, ConfigNextInv, PTL DEF ConfigSpec

\* Every account is well formed, and every rate within the program's bounds, by
\* whatever instruction and from whatever other account it was written.
THEOREM ConfigTypeCorrect == ConfigSpec => []ConfigTypeOK
<1>1. ConfigInv => ConfigTypeOK
  BY DEF ConfigInv
<1> QED
  BY ConfigInvariance, <1>1, PTL

\* Rewards are initialized without a gap, and the mints of a pool are in order.
THEOREM OrderedAccountsHolds == ConfigSpec => []OrderedAccounts
<1>1. ConfigInv => OrderedAccounts
  BY DEF ConfigInv
<1> QED
  BY ConfigInvariance, <1>1, PTL

\* Whatever accounts a signer combines, and whichever deployments and pools of
\* their own they made before, a signed instruction changes nothing of a
\* deployment but what its current authorities signed for (the address and
\* has_one constraints of all set_* and collect instructions).
THEOREM OnlyAuthoritiesHolds == ConfigSpec => OnlyAuthorities
<1>1. ConfigInv /\ [ConfigNext]_config_vars =>
        [\A u \in Users :
            (\A c \in Configs : SignedFor(u, c)) \/ ~SignedInstruction(u)]_config_vars
  BY SignedInv DEF Signed
<1> QED
  BY ConfigInvariance, <1>1, PTL DEF ConfigSpec, OnlyAuthorities

\* An instruction that asks for no role changes no existing account but for the fee a
\* swap leaves to the protocol, and a pool is created on the terms that its own
\* deployment offers.
THEOREM PoolsOnOfferedTermsHolds == ConfigSpec => PoolsOnOfferedTerms
<1>1. ConfigInv /\ [ConfigNext]_config_vars =>
        [(\A c \in Configs : NothingTaken(c)) \/ ~OpenInstruction]_config_vars
  BY OpenInv DEF Open
<1> QED
  BY ConfigInvariance, <1>1, PTL DEF ConfigSpec, PoolsOnOfferedTerms

-----------------------------------------------------------------------------
(* Positions and bundles.                                                    *)

\* Division with remainder, by which a bundle index is determined by its byte
\* and its bit (update_bitmap).
LEMMA DivMod ==
  ASSUME NEW b \in Nat \ {0}, NEW a \in Int
  PROVE  /\ a = b * (a \div b) + (a % b)
         /\ a \div b \in Int
         /\ a % b \in 0 .. b - 1
OBVIOUS

ValidIndex == {i \in BundleIndex : is_valid_bundle_index(i)}

\* A valid index has its own bit: the byte exists, and no other index shares
\* both the byte and the bit.
LEMMA OwnBit ==
  ASSUME NEW i \in ValidIndex
  PROVE  /\ i \div BITS \in 0 .. POSITION_BITMAP_USIZE - 1
         /\ i % BITS \in 0 .. BITS - 1
         /\ \A j \in ValidIndex :
               i \div BITS = j \div BITS /\ i % BITS = j % BITS => i = j
<1>1. /\ BITS \in Nat \ {0} /\ POSITION_BITMAP_USIZE \in Nat \ {0}
      /\ POSITION_BUNDLE_SIZE = BITS * POSITION_BITMAP_USIZE
      /\ POSITION_BUNDLE_SIZE \in Nat
  BY CustodyAssumption DEF POSITION_BUNDLE_SIZE
<1>2. \A j \in ValidIndex : j \in Nat /\ j < POSITION_BUNDLE_SIZE
  BY <1>1 DEF ValidIndex, BundleIndex, is_valid_bundle_index
<1>3. \A j \in ValidIndex : /\ j = BITS * (j \div BITS) + (j % BITS)
                            /\ j \div BITS \in Int
                            /\ j % BITS \in 0 .. BITS - 1
  <2> TAKE j \in ValidIndex
  <2>1. j \in Int
    BY <1>2
  <2> QED
    BY <2>1, <1>1, DivMod
<1>4. i \div BITS >= 0 /\ i \div BITS < POSITION_BITMAP_USIZE
  BY <1>1, <1>2
<1> QED
  BY <1>1, <1>3, <1>4

-----------------------------------------------------------------------------
\* What has not been minted has never been used.
FreshMints ==
    \A m \in PositionMints \ mints :
        /\ ~Exists(m)
        /\ \A u \in Wallets : accounts[m][u].amount = 0

\* One token at most of each mint.
AtMostOne ==
    \A m \in PositionMints, u, v \in Wallets :
        accounts[m][u].amount = 1 /\ accounts[m][v].amount = 1 => u = v

\* Whoever holds a token holds it of something that exists.
TokensSpeak ==
    \A m \in PositionMints, u \in Wallets : accounts[m][u].amount = 1 => Exists(m)

CustodyInv ==
    /\ CustodyTypeOK
    /\ BitmapMatchesPositions
    /\ OneKind
    /\ FreshMints
    /\ AtMostOne
    /\ TokensSpeak

\* What a step may do to the token of a mint and to what it speaks for, beyond
\* keeping the invariant.
Kept ==
    \A m \in PositionMints :
        /\ Exists(m)' /\ Holders(m)' = {} => Untouched(m)
        /\ m \in mints /\ Holders(m) = {} => Holders(m)' = {}

\* The invariant holds when no account exists.
LEMMA CustodyInitHolds == CustodyInit => CustodyInv
<1> SUFFICES ASSUME CustodyInit PROVE CustodyInv
  OBVIOUS
<1>1. CustodyTypeOK
  BY CustodyAssumption
  DEF CustodyInit, CustodyTypeOK, AccountState, EmptyBitmap, Bitmap, Byte, EmptyAccount,
      TokenAccount, DelegatedAmount
<1>2. BitmapMatchesPositions
  BY DEF CustodyInit, BitmapMatchesPositions
<1>3. OneKind
  BY DEF CustodyInit, OneKind, Exists
<1>4. AtMostOne /\ FreshMints /\ TokensSpeak
  <2>1. \A m \in PositionMints, u \in Wallets : accounts[m][u].amount = 0
    BY DEF CustodyInit, EmptyAccount
  <2>2. \A m \in PositionMints : ~Exists(m)
    BY DEF CustodyInit, Exists
  <2> QED
    BY <2>1, <2>2 DEF AtMostOne, FreshMints, TokensSpeak
<1> QED
  BY <1>1, <1>2, <1>3, <1>4 DEF CustodyInv

-----------------------------------------------------------------------------
(***************************************************************************)
(* Token steps.  The proofs see of a token account only whether it holds   *)
(* the token.                                                              *)
(***************************************************************************)

\* Steps after which a mint has one token at most, and none where it had none.
LEMMA TokenStepKeeps ==
  ASSUME CustodyInv, UNCHANGED <<positions, bundled, bundles, mints, metadata>>,
         accounts' \in [PositionMints -> [Wallets -> TokenAccount]],
         AtMostOne',
         \A m \in PositionMints, u \in Wallets :
            accounts'[m][u].amount = 1 => \E v \in Wallets : accounts[m][v].amount = 1
  PROVE  CustodyInv' /\ Kept
<1>1. CustodyTypeOK' /\ BitmapMatchesPositions' /\ OneKind'
  BY DEF CustodyInv, CustodyTypeOK, BitmapMatchesPositions, OneKind
<1>2. \A m \in PositionMints : Exists(m)' <=> Exists(m)
  BY DEF Exists
<1>3. FreshMints'
  <2>1. \A m \in PositionMints, u \in Wallets : accounts'[m][u].amount \in {0, 1}
    BY DEF TokenAccount
  <2> QED
    BY <2>1, <1>2 DEF CustodyInv, FreshMints
<1>4. TokensSpeak'
  BY <1>2 DEF CustodyInv, TokensSpeak
<1>5. Kept
  BY DEF Kept, Untouched, Holders
<1> QED
  BY <1>1, <1>3, <1>4, <1>5 DEF CustodyInv

\* The account of one owner changes, and receives nothing.
LEMMA EntryKeeps ==
  ASSUME CustodyInv, UNCHANGED <<positions, bundled, bundles, mints, metadata>>,
         NEW m \in PositionMints, NEW owner \in Wallets, NEW entry \in TokenAccount,
         entry.amount \in {0, accounts[m][owner].amount},
         accounts' = [accounts EXCEPT ![m][owner] = entry]
  PROVE  CustodyInv' /\ Kept
<1>1. accounts \in [PositionMints -> [Wallets -> TokenAccount]]
  BY DEF CustodyInv, CustodyTypeOK
<1>2. accounts' \in [PositionMints -> [Wallets -> TokenAccount]]
  BY <1>1
<1>3. \A n \in PositionMints, u \in Wallets :
         accounts'[n][u].amount = 1 => accounts[n][u].amount = 1
  BY <1>1
<1>4. AtMostOne'
  BY <1>3 DEF CustodyInv, AtMostOne
<1> QED
  BY <1>2, <1>3, <1>4, TokenStepKeeps

\* Naming a delegate disturbs nothing.
LEMMA ApproveKeeps ==
  ASSUME CustodyInv, NEW m \in PositionMints, NEW owner \in Wallets, NEW delegate \in Wallets,
         NEW amount \in DelegatedAmount, Approve(owner, m, delegate, amount)
  PROVE  CustodyInv' /\ Kept
<1> DEFINE entry == [accounts[m][owner] EXCEPT !.delegate = delegate,
                                               !.delegated_amount = amount]
<1>1. accounts[m][owner] \in TokenAccount
  BY DEF CustodyInv, CustodyTypeOK
<1>2. entry \in TokenAccount /\ entry.amount = accounts[m][owner].amount
  BY <1>1 DEF TokenAccount
<1>3. accounts' = [accounts EXCEPT ![m][owner] = entry]
  BY DEF Approve, CustodyInv, CustodyTypeOK
<1> HIDE DEF entry
<1> QED
  BY <1>2, <1>3, EntryKeeps DEF Approve

\* Nor does taking the delegation back.
LEMMA RevokeKeeps ==
  ASSUME CustodyInv, NEW m \in PositionMints, NEW owner \in Wallets, Revoke(owner, m)
  PROVE  CustodyInv' /\ Kept
<1> DEFINE entry == [accounts[m][owner] EXCEPT !.delegate = NoWallet,
                                               !.delegated_amount = 0]
<1>1. accounts[m][owner] \in TokenAccount
  BY DEF CustodyInv, CustodyTypeOK
<1>2. entry \in TokenAccount /\ entry.amount = accounts[m][owner].amount
  <2>1. 0 \in DelegatedAmount /\ NoWallet \in Wallets \union {NoWallet}
    BY DEF DelegatedAmount
  <2> QED
    BY <1>1, <2>1 DEF TokenAccount
<1>3. accounts' = [accounts EXCEPT ![m][owner] = entry]
  BY DEF Revoke, CustodyInv, CustodyTypeOK
<1> HIDE DEF entry
<1> QED
  BY <1>2, <1>3, EntryKeeps DEF Revoke

\* Nor does naming who may close a token account.
LEMMA SetCloseAuthorityKeeps ==
  ASSUME CustodyInv, NEW m \in PositionMints, NEW owner \in Wallets, NEW signer \in Wallets,
         NEW user \in Wallets, SetCloseAuthority(signer, m, owner, user)
  PROVE  CustodyInv' /\ Kept
<1> DEFINE entry == [accounts[m][owner] EXCEPT !.close_authority = user]
<1>1. accounts[m][owner] \in TokenAccount
  BY DEF CustodyInv, CustodyTypeOK
<1>2. entry \in TokenAccount /\ entry.amount = accounts[m][owner].amount
  BY <1>1 DEF TokenAccount
<1>3. accounts' = [accounts EXCEPT ![m][owner] = entry]
  BY DEF SetCloseAuthority, CustodyInv, CustodyTypeOK
<1> HIDE DEF entry
<1> QED
  BY <1>2, <1>3, EntryKeeps DEF SetCloseAuthority

\* An account from which the token was taken, by its owner or delegate.
LEMMA TakenType ==
  ASSUME NEW account \in TokenAccount, NEW signer \in Wallets
  PROVE  /\ TakenFrom(account, signer) \in TokenAccount
         /\ TakenFrom(account, signer).amount = 0
<1>1. CASE account.delegate # signer
  BY <1>1 DEF TakenFrom, TokenAccount
<1>2. CASE account.delegate = signer /\ account.delegated_amount > 1
  <2>1. account.delegated_amount - 1 \in DelegatedAmount
    BY <1>2 DEF TokenAccount, DelegatedAmount
  <2> QED
    BY <1>2, <2>1 DEF TakenFrom, TokenAccount
<1>3. CASE account.delegate = signer /\ ~(account.delegated_amount > 1)
  <2>1. 0 \in DelegatedAmount /\ NoWallet \in Wallets \union {NoWallet}
    BY DEF DelegatedAmount
  <2> QED
    BY <1>3, <2>1 DEF TakenFrom, TokenAccount
<1> QED
  BY <1>1, <1>2, <1>3

\* Burning takes the one token away, whatever it spoke for.
LEMMA BurnKeeps ==
  ASSUME CustodyInv, NEW m \in PositionMints, NEW signer \in Wallets, NEW owner \in Wallets,
         Burn(signer, m, owner)
  PROVE  CustodyInv' /\ Kept
<1> DEFINE taken == TakenFrom(accounts[m][owner], signer)
<1>1. taken \in TokenAccount /\ taken.amount = 0
  BY TakenType DEF CustodyInv, CustodyTypeOK
<1>2. accounts' = [accounts EXCEPT ![m][owner] = taken]
  BY DEF Burn, CustodyInv, CustodyTypeOK
<1> HIDE DEF taken
<1> QED
  BY <1>1, <1>2, EntryKeeps DEF Burn

\* A token account is closed without a token in it.
LEMMA CloseAccountKeeps ==
  ASSUME CustodyInv, NEW m \in PositionMints, NEW signer \in Wallets, NEW owner \in Wallets,
         CloseAccount(signer, m, owner)
  PROVE  CustodyInv' /\ Kept
<1>1. EmptyAccount \in TokenAccount /\ EmptyAccount.amount = 0
  BY DEF EmptyAccount, TokenAccount, DelegatedAmount
<1> QED
  BY <1>1, EntryKeeps DEF CloseAccount

\* A transfer moves the one token, by its owner or delegate, and leaves one.
LEMMA TransferKeeps ==
  ASSUME CustodyInv, NEW m \in PositionMints, NEW signer \in Wallets, NEW from \in Wallets,
         NEW to \in Wallets, Transfer(signer, m, from, to)
  PROVE  CustodyInv' /\ Kept
<1> DEFINE taken == TakenFrom(accounts[m][from], signer)
           given == [accounts[m][to] EXCEPT !.amount = 1]
<1>1. accounts \in [PositionMints -> [Wallets -> TokenAccount]]
  BY DEF CustodyInv, CustodyTypeOK
<1>2. /\ taken \in TokenAccount /\ taken.amount = 0
      /\ given \in TokenAccount /\ given.amount = 1
  BY <1>1, TakenType DEF TokenAccount
<1>3. /\ from # to
      /\ accounts[m][from].amount = 1
      /\ UNCHANGED <<positions, bundled, bundles, mints, metadata>>
  BY DEF Transfer
<1>4. accounts' = [accounts EXCEPT ![m] =
          [accounts[m] EXCEPT ![from] = taken, ![to] = given]]
  BY <1>1, <1>3 DEF Transfer
<1> HIDE DEF taken, given
<1>5. /\ accounts' \in [PositionMints -> [Wallets -> TokenAccount]]
      /\ \A n \in PositionMints \ {m} : accounts'[n] = accounts[n]
  BY <1>1, <1>2, <1>4
<1>6. \A u \in Wallets : accounts'[m][u].amount = 1 <=> u = to
  <2>1. /\ accounts'[m][from] = taken /\ accounts'[m][to] = given
        /\ \A u \in Wallets \ {from, to} : accounts'[m][u] = accounts[m][u]
    BY <1>1, <1>3, <1>4
  <2>2. \A u \in Wallets \ {from} : accounts[m][u].amount # 1
    BY <1>3 DEF CustodyInv, AtMostOne
  <2> QED
    BY <2>1, <2>2, <1>2
<1>7. AtMostOne'
  BY <1>5, <1>6 DEF CustodyInv, AtMostOne
<1> QED
  BY <1>3, <1>5, <1>6, <1>7, TokenStepKeeps

-----------------------------------------------------------------------------
(***************************************************************************)
(* Steps that mint or burn a token.                                        *)
(***************************************************************************)

\* What mint_position_token_and_remove_authority does: one holder of one token.
LEMMA Minted ==
  ASSUME CustodyInv, NEW m \in PositionMints, NEW owner \in Wallets, MintOne(m, owner)
  PROVE  /\ ~Exists(m)
         /\ mints' \subseteq PositionMints /\ m \in mints' /\ mints \subseteq mints'
         /\ accounts' \in [PositionMints -> [Wallets -> TokenAccount]]
         /\ \A n \in PositionMints \ {m} : accounts'[n] = accounts[n]
         /\ \A u \in Wallets : accounts'[m][u].amount = 1 <=> u = owner
<1>1. ~Exists(m) /\ \A u \in Wallets : accounts[m][u].amount = 0
  BY DEF CustodyInv, FreshMints, MintOne
<1>2. mints' \subseteq PositionMints /\ m \in mints' /\ mints \subseteq mints'
  BY DEF CustodyInv, CustodyTypeOK, MintOne
<1> DEFINE entry == [accounts[m][owner] EXCEPT !.amount = 1]
<1>3. accounts \in [PositionMints -> [Wallets -> TokenAccount]]
  BY DEF CustodyInv, CustodyTypeOK
<1>4. entry \in TokenAccount /\ entry.amount = 1
  BY <1>3 DEF TokenAccount
<1>5. accounts' = [accounts EXCEPT ![m][owner] = entry]
  BY <1>3 DEF MintOne
<1> HIDE DEF entry
<1> QED
  BY <1>1, <1>2, <1>3, <1>4, <1>5

\* What burn_and_close_user_position_token does: no holder is left.
LEMMA Burnt ==
  ASSUME CustodyInv, NEW m \in PositionMints, NEW owner \in Wallets, NEW signer \in Wallets,
         accounts[m][owner].amount = 1, BurnAndClose(signer, m, owner)
  PROVE  /\ m \in mints
         /\ accounts' \in [PositionMints -> [Wallets -> TokenAccount]]
         /\ \A n \in PositionMints \ {m} : accounts'[n] = accounts[n]
         /\ \A u \in Wallets : accounts'[m][u].amount # 1
<1>1. accounts \in [PositionMints -> [Wallets -> TokenAccount]]
  BY DEF CustodyInv, CustodyTypeOK
<1>2. EmptyAccount \in TokenAccount /\ EmptyAccount.amount = 0
  BY DEF EmptyAccount, TokenAccount, DelegatedAmount
<1>3. m \in mints /\ \A u \in Wallets \ {owner} : accounts[m][u].amount # 1
  BY DEF CustodyInv, FreshMints, AtMostOne
<1> QED
  BY <1>1, <1>2, <1>3 DEF BurnAndClose

\* A step of the program on one mint, after which either nothing exists and nobody
\* holds a token, or one wallet holds the token of what exists, and did before
\* if the mint is an old one.
LEMMA OneMintStep ==
  ASSUME CustodyInv, NEW m \in PositionMints,
         m \in mints', mints \subseteq mints',
         \A n \in PositionMints \ {m} : Untouched(n) /\ accounts'[n] = accounts[n],
         \/ ~Exists(m)' /\ \A u \in Wallets : accounts'[m][u].amount # 1
         \/ /\ Exists(m)'
            /\ \E owner \in Wallets :
                  /\ \A u \in Wallets : accounts'[m][u].amount = 1 <=> u = owner
                  /\ m \in mints => accounts[m][owner].amount = 1
  PROVE  FreshMints' /\ AtMostOne' /\ TokensSpeak' /\ Kept
<1>1. \A n \in PositionMints \ {m} : Exists(n)' <=> Exists(n)
  BY DEF Exists, Untouched
<1>2. FreshMints'
  BY <1>1 DEF CustodyInv, FreshMints
<1>3. AtMostOne'
  BY DEF CustodyInv, AtMostOne
<1>4. TokensSpeak'
  BY <1>1 DEF CustodyInv, TokensSpeak
<1>5. Kept
  <2> SUFFICES ASSUME NEW n \in PositionMints
               PROVE  /\ Exists(n)' /\ Holders(n)' = {} => Untouched(n)
                      /\ n \in mints /\ Holders(n) = {} => Holders(n)' = {}
    BY DEF Kept
  <2>1. CASE n # m
    BY <2>1 DEF Holders
  <2>2. CASE n = m
    BY <2>2 DEF Holders
  <2> QED
    BY <2>1, <2>2
<1> QED
  BY <1>2, <1>3, <1>4, <1>5

\* open_position and open_position_with_metadata mint with what they initialize.
LEMMA OpenPositionInstructionKeeps ==
  ASSUME CustodyInv, NEW m \in PositionMints, NEW owner \in Wallets,
         OpenPositionInstruction(m, owner)
  PROVE  CustodyInv' /\ Kept
<1>1. MintOne(m, owner) /\ UNCHANGED <<bundled, bundles>>
  BY DEF OpenPositionInstruction, OpenPosition, OpenPositionWithMetadata,
         MintPositionToken, MintPositionTokenWithMetadata
<1>2. /\ positions' = [positions EXCEPT ![m] = "empty"]
      /\ metadata' \subseteq metadata \union {m}
  BY DEF OpenPositionInstruction, OpenPosition, OpenPositionWithMetadata,
         MintPositionToken, MintPositionTokenWithMetadata, CreateMetadata
<1>3. CustodyTypeOK'
  BY <1>1, <1>2, Minted DEF CustodyInv, CustodyTypeOK, AccountState
<1>4. BitmapMatchesPositions'
  BY <1>1 DEF CustodyInv, BitmapMatchesPositions
<1>5. OneKind'
  BY <1>1, <1>2, Minted DEF CustodyInv, CustodyTypeOK, OneKind, Exists
<1>6. FreshMints' /\ AtMostOne' /\ TokensSpeak' /\ Kept
  <2>1. Exists(m)' /\ \A n \in PositionMints \ {m} : Untouched(n)
    BY <1>1, <1>2 DEF CustodyInv, CustodyTypeOK, Exists, Untouched
  <2>2. m \notin mints
    BY <1>1 DEF MintOne
  <2> QED
    BY <2>1, <2>2, <1>1, Minted, OneMintStep
<1> QED
  BY <1>3, <1>4, <1>5, <1>6 DEF CustodyInv

\* close_position burns the one token of what it closes.
LEMMA ClosePositionKeeps ==
  ASSUME CustodyInv, NEW m \in PositionMints, NEW owner \in Wallets, NEW signer \in Wallets,
         ClosePosition(signer, m, owner)
  PROVE  CustodyInv' /\ Kept
<1>1. /\ accounts[m][owner].amount = 1
      /\ BurnAndClose(signer, m, owner)
      /\ positions[m] = "empty"
      /\ UNCHANGED <<bundled, bundles, mints, metadata>>
  BY DEF ClosePosition, Authorized
<1>2. positions' = [positions EXCEPT ![m] = "none"]
  BY DEF ClosePosition
<1>3. CustodyTypeOK'
  BY <1>1, <1>2, Burnt DEF CustodyInv, CustodyTypeOK, AccountState
<1>4. BitmapMatchesPositions' /\ OneKind'
  BY <1>1, <1>2 DEF CustodyInv, CustodyTypeOK, BitmapMatchesPositions, OneKind
<1>5. FreshMints' /\ AtMostOne' /\ TokensSpeak' /\ Kept
  <2>1. ~Exists(m)' /\ \A n \in PositionMints \ {m} : Untouched(n)
    BY <1>1, <1>2 DEF CustodyInv, CustodyTypeOK, OneKind, Exists, Untouched
  <2> QED
    BY <2>1, <1>1, Burnt, OneMintStep
<1> QED
  BY <1>3, <1>4, <1>5 DEF CustodyInv

\* A new bundle has an empty bitmap and no positions, with metadata or without.
LEMMA InitializePositionBundleKeeps ==
  ASSUME CustodyInv, NEW m \in PositionMints, NEW owner \in Wallets,
         \/ InitializePositionBundle(m, owner)
         \/ InitializePositionBundleWithMetadata(m, owner)
  PROVE  CustodyInv' /\ Kept
<1> DEFINE new == [exists |-> TRUE, position_bitmap |-> EmptyBitmap]
<1>1. MintOne(m, owner) /\ UNCHANGED <<positions, bundled>>
  BY DEF InitializePositionBundle, InitializePositionBundleWithMetadata,
         MintBundleToken, MintBundleTokenWithMetadata
<1>2. /\ bundles' = [bundles EXCEPT ![m] = new]
      /\ metadata' \subseteq metadata \union {m}
  BY DEF InitializePositionBundle, InitializePositionBundleWithMetadata,
         MintBundleToken, MintBundleTokenWithMetadata, CreateMetadata
<1>3. /\ new \in [exists: BOOLEAN, position_bitmap: Bitmap]
      /\ new.exists
      /\ \A i \in ValidIndex : ~IsOpened(new.position_bitmap, i)
  BY OwnBit DEF EmptyBitmap, Bitmap, Byte, IsOpened
<1> HIDE DEF new
<1>4. CustodyTypeOK'
  BY <1>1, <1>2, <1>3, Minted DEF CustodyInv, CustodyTypeOK
<1>5. BitmapMatchesPositions'
  <2>1. \A i \in BundleIndex : bundled[m][i] = "none"
    BY <1>1, Minted DEF Exists
  <2> QED
    BY <2>1, <1>1, <1>2, <1>3
    DEF CustodyInv, CustodyTypeOK, BitmapMatchesPositions, ValidIndex
<1>6. OneKind'
  BY <1>1, <1>2, Minted DEF CustodyInv, CustodyTypeOK, OneKind, Exists
<1>7. FreshMints' /\ AtMostOne' /\ TokensSpeak' /\ Kept
  <2>1. Exists(m)' /\ \A n \in PositionMints \ {m} : Untouched(n)
    BY <1>1, <1>2, <1>3 DEF CustodyInv, CustodyTypeOK, Exists, Untouched
  <2>2. m \notin mints
    BY <1>1 DEF MintOne
  <2> QED
    BY <2>1, <2>2, <1>1, Minted, OneMintStep
<1> QED
  BY <1>4, <1>5, <1>6, <1>7 DEF CustodyInv

\* A bundle that is deleted has no position left.
LEMMA DeletePositionBundleKeeps ==
  ASSUME CustodyInv, NEW m \in PositionMints, NEW owner \in Wallets,
         DeletePositionBundle(m, owner)
  PROVE  CustodyInv' /\ Kept
<1> DEFINE deleted == [exists |-> FALSE, position_bitmap |-> EmptyBitmap]
<1>1. /\ accounts[m][owner].amount = 1
      /\ BurnAndClose(owner, m, owner)
      /\ bundles[m].exists
      /\ is_deletable(bundles[m].position_bitmap)
      /\ UNCHANGED <<positions, bundled, mints, metadata>>
  BY DEF DeletePositionBundle, BurnAndCloseBundleToken
<1>2. bundles' = [bundles EXCEPT ![m] = deleted]
  BY DEF DeletePositionBundle
<1>3. /\ deleted \in [exists: BOOLEAN, position_bitmap: Bitmap]
      /\ ~deleted.exists
  BY DEF EmptyBitmap, Bitmap, Byte
<1> HIDE DEF deleted
<1>4. CustodyTypeOK'
  BY <1>1, <1>2, <1>3, Burnt DEF CustodyInv, CustodyTypeOK
<1>5. \A i \in BundleIndex : bundled[m][i] = "none"
  <2>1. \A i \in ValidIndex : ~IsOpened(bundles[m].position_bitmap, i)
    BY <1>1, OwnBit DEF CustodyInv, CustodyTypeOK, Bitmap, is_deletable, IsOpened
  <2> QED
    BY <2>1 DEF CustodyInv, BitmapMatchesPositions, ValidIndex
<1>6. BitmapMatchesPositions'
  BY <1>1, <1>2, <1>3, <1>5 DEF CustodyInv, CustodyTypeOK, BitmapMatchesPositions
<1>7. OneKind'
  BY <1>1, <1>2, <1>3 DEF CustodyInv, CustodyTypeOK, OneKind
<1>8. FreshMints' /\ AtMostOne' /\ TokensSpeak' /\ Kept
  <2>1. ~Exists(m)' /\ \A n \in PositionMints \ {m} : Untouched(n)
    BY <1>1, <1>2, <1>3, <1>5 DEF CustodyInv, CustodyTypeOK, OneKind, Exists, Untouched
  <2> QED
    BY <2>1, <1>1, Burnt, OneMintStep
<1> QED
  BY <1>4, <1>6, <1>7, <1>8 DEF CustodyInv

-----------------------------------------------------------------------------
(***************************************************************************)
(* Steps on positions.                                                     *)
(***************************************************************************)

\* A step of whoever holds the token, or of a delegate, that leaves something to speak
\* for.
LEMMA HolderKept ==
  ASSUME CustodyInv, UNCHANGED <<mints, accounts, metadata>>,
         NEW m \in PositionMints, NEW owner \in Wallets, accounts[m][owner].amount = 1,
         Exists(m)', \A n \in PositionMints \ {m} : Untouched(n)
  PROVE  FreshMints' /\ AtMostOne' /\ TokensSpeak' /\ Kept
<1>1. m \in mints
  BY DEF CustodyInv, FreshMints
<1>2. \A u \in Wallets : accounts[m][u].amount = 1 <=> u = owner
  BY DEF CustodyInv, AtMostOne
<1> QED
  BY <1>1, <1>2, OneMintStep

\* What an authorized caller does to a position leaves its account open.
LEMMA ModifyPositionKeeps ==
  ASSUME CustodyInv, NEW m \in PositionMints, NEW owner \in Wallets, NEW signer \in Wallets,
         NEW after \in {"empty", "funded"},
         ModifyPosition(signer, m, owner, after)
  PROVE  CustodyInv' /\ Kept
<1>1. /\ accounts[m][owner].amount = 1
      /\ positions[m] # "none"
      /\ UNCHANGED <<bundled, bundles, mints, accounts, metadata>>
  BY DEF ModifyPosition, Authorized
<1>2. positions' = [positions EXCEPT ![m] = after]
  BY DEF ModifyPosition
<1>3. CustodyTypeOK'
  BY <1>1, <1>2 DEF CustodyInv, CustodyTypeOK, AccountState
<1>4. BitmapMatchesPositions' /\ OneKind'
  BY <1>1, <1>2 DEF CustodyInv, CustodyTypeOK, BitmapMatchesPositions, OneKind
<1>5. Exists(m)' /\ \A n \in PositionMints \ {m} : Untouched(n)
  BY <1>1, <1>2 DEF CustodyInv, CustodyTypeOK, Exists, Untouched
<1> QED
  BY <1>1, <1>3, <1>4, <1>5, HolderKept DEF CustodyInv

\* The account of one index of a bundle changes, from or to none as its bit
\* does.
LEMMA BundledKeeps ==
  ASSUME CustodyInv, UNCHANGED <<positions, mints, accounts, metadata>>,
         NEW m \in PositionMints, NEW owner \in Wallets, accounts[m][owner].amount = 1,
         NEW i \in ValidIndex, NEW state \in AccountState,
         bundled' = [bundled EXCEPT ![m][i] = state],
         NEW bitmap \in Bitmap, bundles[m].exists,
         bundles' = [bundles EXCEPT ![m].position_bitmap = bitmap],
         IsOpened(bitmap, i) <=> state # "none",
         \A j \in ValidIndex \ {i} :
            IsOpened(bitmap, j) <=> IsOpened(bundles[m].position_bitmap, j)
  PROVE  CustodyInv' /\ Kept
<1>1. CustodyTypeOK'
  BY DEF CustodyInv, CustodyTypeOK, ValidIndex
<1>2. BitmapMatchesPositions'
  <2> SUFFICES ASSUME NEW n \in PositionMints, NEW j \in BundleIndex
               PROVE  bundled'[n][j] # "none" <=>
                         /\ bundles'[n].exists
                         /\ is_valid_bundle_index(j)
                         /\ IsOpened(bundles'[n].position_bitmap, j)
    BY DEF BitmapMatchesPositions
  <2>1. CASE n # m
    BY <2>1 DEF CustodyInv, CustodyTypeOK, BitmapMatchesPositions
  <2>2. bundles'[m].exists /\ bundles'[m].position_bitmap = bitmap
    BY DEF CustodyInv, CustodyTypeOK
  <2>3. CASE n = m /\ j = i
    <3>1. bundled'[m][i] = state
      BY DEF CustodyInv, CustodyTypeOK, ValidIndex
    <3> QED
      BY <2>2, <2>3, <3>1 DEF ValidIndex
  <2>4. CASE n = m /\ j # i
    <3>1. bundled'[m][j] = bundled[m][j]
      BY <2>4 DEF CustodyInv, CustodyTypeOK
    <3> QED
      BY <2>2, <2>4, <3>1 DEF CustodyInv, BitmapMatchesPositions, ValidIndex
  <2> QED
    BY <2>1, <2>3, <2>4
<1>3. OneKind'
  BY DEF CustodyInv, CustodyTypeOK, OneKind
<1>4. Exists(m)' /\ \A n \in PositionMints \ {m} : Untouched(n)
  BY DEF CustodyInv, CustodyTypeOK, Exists, Untouched
<1> QED
  BY <1>1, <1>2, <1>3, <1>4, HolderKept DEF CustodyInv

\* The same of a position in a bundle.
LEMMA ModifyBundledPositionKeeps ==
  ASSUME CustodyInv, NEW m \in PositionMints, NEW owner \in Wallets, NEW signer \in Wallets,
         NEW i \in BundleIndex, NEW after \in {"empty", "funded"},
         ModifyBundledPosition(signer, m, owner, i, after)
  PROVE  CustodyInv' /\ Kept
<1>1. /\ accounts[m][owner].amount = 1
      /\ bundled[m][i] # "none"
      /\ UNCHANGED <<positions, bundles, mints, accounts, metadata>>
      /\ bundled' = [bundled EXCEPT ![m][i] = after]
  BY DEF ModifyBundledPosition, Authorized
<1>2. /\ bundles[m].exists
      /\ i \in ValidIndex
      /\ IsOpened(bundles[m].position_bitmap, i)
  BY <1>1 DEF CustodyInv, BitmapMatchesPositions, ValidIndex
<1>3. /\ bundles[m].position_bitmap \in Bitmap
      /\ bundles' = [bundles EXCEPT ![m].position_bitmap =
                                        bundles[m].position_bitmap]
  BY <1>1 DEF CustodyInv, CustodyTypeOK
<1> QED
  BY <1>1, <1>2, <1>3, BundledKeeps DEF AccountState

\* update_bitmap changes the bit of the index and no other.
LEMMA Updated ==
  ASSUME CustodyInv, NEW m \in PositionMints, NEW i \in BundleIndex, NEW open \in BOOLEAN,
         UpdateBitmap(m, i, open)
  PROVE  /\ i \in ValidIndex
         /\ \E bitmap \in Bitmap :
               /\ bundles' = [bundles EXCEPT ![m].position_bitmap = bitmap]
               /\ IsOpened(bitmap, i) <=> open
               /\ \A j \in ValidIndex \ {i} :
                     IsOpened(bitmap, j) <=>
                        IsOpened(bundles[m].position_bitmap, j)
<1> DEFINE old == bundles[m].position_bitmap
           new == [old EXCEPT ![i \div BITS] = ToggleBit(@, i % BITS)]
<1>1. /\ i \in ValidIndex
      /\ IsOpened(old, i) # open
      /\ bundles' = [bundles EXCEPT ![m].position_bitmap = new]
  BY DEF UpdateBitmap, ValidIndex, CustodyInv, CustodyTypeOK
<1>2. old \in Bitmap
  BY DEF CustodyInv, CustodyTypeOK
<1> HIDE DEF old
<1>3. new \in Bitmap
  BY <1>1, <1>2, OwnBit DEF Bitmap, Byte, ToggleBit
<1>4. IsOpened(new, i) <=> open
  BY <1>1, <1>2, OwnBit DEF Bitmap, IsOpened, ToggleBit
<1>5. \A j \in ValidIndex \ {i} : IsOpened(new, j) <=> IsOpened(old, j)
  BY <1>1, <1>2, OwnBit DEF Bitmap, IsOpened, ToggleBit
<1> HIDE DEF new
<1> QED
  BY <1>1, <1>3, <1>4, <1>5 DEF old

\* Opening toggles the bit of an account that was closed.
LEMMA OpenBundledPositionKeeps ==
  ASSUME CustodyInv, NEW m \in PositionMints, NEW owner \in Wallets, NEW signer \in Wallets,
         NEW i \in BundleIndex, OpenBundledPosition(signer, m, owner, i)
  PROVE  CustodyInv' /\ Kept
<1>1. /\ accounts[m][owner].amount = 1
      /\ bundles[m].exists
      /\ UpdateBitmap(m, i, TRUE)
      /\ UNCHANGED <<positions, mints, accounts, metadata>>
      /\ bundled' = [bundled EXCEPT ![m][i] = "empty"]
  BY DEF OpenBundledPosition, Authorized
<1>2. i \in ValidIndex
  BY <1>1, Updated
<1>3. PICK bitmap \in Bitmap :
         /\ bundles' = [bundles EXCEPT ![m].position_bitmap = bitmap]
         /\ IsOpened(bitmap, i) <=> TRUE
         /\ \A j \in ValidIndex \ {i} :
               IsOpened(bitmap, j) <=> IsOpened(bundles[m].position_bitmap, j)
  BY <1>1, Updated
<1>4. "empty" \in AccountState /\ (IsOpened(bitmap, i) <=> "empty" # "none")
  BY <1>3 DEF AccountState
<1> QED
  BY <1>1, <1>2, <1>3, <1>4, BundledKeeps

\* Closing toggles the bit of an account that was open.
LEMMA CloseBundledPositionKeeps ==
  ASSUME CustodyInv, NEW m \in PositionMints, NEW owner \in Wallets, NEW signer \in Wallets,
         NEW i \in BundleIndex, CloseBundledPosition(signer, m, owner, i)
  PROVE  CustodyInv' /\ Kept
<1>1. /\ accounts[m][owner].amount = 1
      /\ bundles[m].exists
      /\ UpdateBitmap(m, i, FALSE)
      /\ UNCHANGED <<positions, mints, accounts, metadata>>
      /\ bundled' = [bundled EXCEPT ![m][i] = "none"]
  BY DEF CloseBundledPosition, Authorized
<1>2. i \in ValidIndex
  BY <1>1, Updated
<1>3. PICK bitmap \in Bitmap :
         /\ bundles' = [bundles EXCEPT ![m].position_bitmap = bitmap]
         /\ IsOpened(bitmap, i) <=> FALSE
         /\ \A j \in ValidIndex \ {i} :
               IsOpened(bitmap, j) <=> IsOpened(bundles[m].position_bitmap, j)
  BY <1>1, Updated
<1>4. "none" \in AccountState /\ (IsOpened(bitmap, i) <=> "none" # "none")
  BY <1>3 DEF AccountState
<1> QED
  BY <1>1, <1>2, <1>3, <1>4, BundledKeeps

-----------------------------------------------------------------------------
\* Every step keeps the invariant, and leaves alone what has no holder.
LEMMA CustodyStep == CustodyInv /\ [CustodyNext]_custody_vars => CustodyInv' /\ Kept
<1> SUFFICES ASSUME CustodyInv, [CustodyNext]_custody_vars PROVE CustodyInv' /\ Kept
  OBVIOUS
<1>1. CASE UNCHANGED custody_vars
  <2>1. CustodyInv'
    BY <1>1 DEF custody_vars, CustodyInv, CustodyTypeOK, BitmapMatchesPositions, OneKind,
       FreshMints, AtMostOne, TokensSpeak, Exists
  <2>2. Kept
    BY <1>1 DEF custody_vars, Kept, Untouched, Holders
  <2> QED
    BY <2>1, <2>2
<1>2. CASE CustodyNext
  <2>1. PICK m \in PositionMints, owner \in Wallets :
           \/ OpenPositionInstruction(m, owner)
           \/ BundleInstruction(m, owner)
           \/ Revoke(owner, m)
           \/ \E signer \in Wallets :
                 \/ BundledPositionInstruction(signer, m, owner)
                 \/ PositionInstruction(signer, m, owner)
                 \/ TokenInstruction(signer, m, owner)
    BY <1>2 DEF CustodyNext
  <2>2. CASE OpenPositionInstruction(m, owner)
    BY <2>2, OpenPositionInstructionKeeps
  <2>3. CASE BundleInstruction(m, owner)
    BY <2>3, InitializePositionBundleKeeps, DeletePositionBundleKeeps
    DEF BundleInstruction
  <2>4. CASE Revoke(owner, m)
    BY <2>4, RevokeKeeps
  <2>5. ASSUME NEW signer \in Wallets, BundledPositionInstruction(signer, m, owner)
        PROVE  CustodyInv' /\ Kept
    BY <2>5, OpenBundledPositionKeeps, CloseBundledPositionKeeps
    DEF BundledPositionInstruction
  <2>6. ASSUME NEW signer \in Wallets, PositionInstruction(signer, m, owner)
        PROVE  CustodyInv' /\ Kept
    BY <2>6, ClosePositionKeeps, ModifyPositionKeeps, ModifyBundledPositionKeeps
    DEF PositionInstruction
  <2>7. ASSUME NEW signer \in Wallets, TokenInstruction(signer, m, owner)
        PROVE  CustodyInv' /\ Kept
    BY <2>7, ApproveKeeps, SetCloseAuthorityKeeps, TransferKeeps, BurnKeeps, CloseAccountKeeps
    DEF TokenInstruction
  <2> QED
    BY <2>1, <2>2, <2>3, <2>4, <2>5, <2>6, <2>7
<1> QED
  BY <1>1, <1>2

\* The invariant behind the theorems below: what exists of a mint is matched
\* by the bitmap of its bundle, no mint has two tokens, a token speaks for
\* something, and a mint not created yet has neither accounts nor tokens.
THEOREM CustodyInvariance == CustodySpec => []CustodyInv
<1> QED
  BY CustodyInitHolds, CustodyStep, PTL DEF CustodySpec

\* Every account keeps its type; in particular toggling a bit of a bitmap
\* never leaves its byte.
THEOREM CustodyTypeCorrect == CustodySpec => []CustodyTypeOK
<1>1. CustodyInv => CustodyTypeOK
  BY DEF CustodyInv
<1> QED
  BY CustodyInvariance, <1>1, PTL

\* PositionBundle's bitmap has a bit set exactly for each position account
\* of the bundle that exists.
THEOREM BitmapMatchesPositionsHolds == CustodySpec => []BitmapMatchesPositions
<1>1. CustodyInv => BitmapMatchesPositions
  BY DEF CustodyInv
<1> QED
  BY CustodyInvariance, <1>1, PTL

\* No instruction strands a position or bundle: it has exactly one holder until the
\* token itself is burnt, and then nothing happens to it any more.
THEOREM OnlyBurningStrandsHolds == CustodySpec => OnlyBurningStrands
<1> DEFINE Strands(m) ==
             /\ Exists(m)' => \/ \E owner \in Wallets : Holders(m)' = {owner}
                              \/ Holders(m)' = {} /\ Untouched(m)
             /\ m \in mints /\ Holders(m) = {} => Holders(m)' = {}
             /\ Holders(m)' # {} => Exists(m)'
<1>1. CustodyInv /\ CustodyInv' /\ [CustodyNext]_custody_vars
        => \A m \in PositionMints : Strands(m)
  <2> SUFFICES ASSUME CustodyInv, CustodyInv', [CustodyNext]_custody_vars,
                      NEW m \in PositionMints
               PROVE  Strands(m)
    OBVIOUS
  <2>1. /\ Exists(m)' /\ Holders(m)' = {} => Untouched(m)
        /\ m \in mints /\ Holders(m) = {} => Holders(m)' = {}
    BY CustodyStep DEF Kept
  <2>2. ASSUME NEW owner \in Holders(m)'
        PROVE  Holders(m)' = {owner} /\ owner \in Wallets
    BY <2>2 DEF CustodyInv, AtMostOne, Holders
  <2>3. Holders(m)' # {} => Exists(m)'
    BY DEF CustodyInv, TokensSpeak, Holders
  <2> QED
    BY <2>1, <2>2, <2>3
<1>2. CustodyInv /\ CustodyInv' /\ [CustodyNext]_custody_vars
        => [\A m \in PositionMints : Strands(m)]_custody_vars
  BY <1>1
<1> QED
  BY CustodyInvariance, <1>2, PTL DEF CustodySpec, OnlyBurningStrands

\* No mint is both a position's and a bundle's.
THEOREM OneKindHolds == CustodySpec => []OneKind
<1>1. CustodyInv => OneKind
  BY DEF CustodyInv
<1> QED
  BY CustodyInvariance, <1>1, PTL
=============================================================================
