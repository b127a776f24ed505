------------------------------- MODULE Config -------------------------------
(* Who governs what.  A deployment is an ElysiumPoolsConfig account with its   *)
(* fee tiers and its pools.  Anybody may create a deployment, and anybody may  *)
(* create a pool in one; the rates and the authorities of a deployment belong  *)
(* to the holders of three roles, each of whom may hand the role over.         *)
(*                                                                             *)
(* An account is named by the seeds its address is derived from: a fee tier by *)
(* deployment and tick spacing, a pool by deployment and market.  The caller   *)
(* chooses every account that is passed, so that a pool of one deployment may  *)
(* come with the config of another.  Prices, ticks and tokens are left to the  *)
(* other modules; of them only the protocol fee that is owed appears here,     *)
(* because a role collects it.                                                 *)
EXTENDS Integers, FiniteSets

CONSTANTS
    Users,                  \* who may sign
    Configs,                \* addresses of config accounts
    Mints,                  \* token mints, numbers as their order matters
    RewardMints,            \* mints that rewards are paid in
    TickSpacings,
    MAX_U16,                \* bound on the rates a caller may pass
    MAX_FEE_RATE,
    MAX_PROTOCOL_FEE_RATE,
    NUM_REWARDS,
    MAX_POOLS,              \* bound on the pools of all deployments
    NoAccount,              \* an address where nothing was created
    NoMint                  \* Pubkey::default()

ASSUME RatesAssumption ==
    /\ MAX_U16 \in Nat
    /\ MAX_FEE_RATE \in 0 .. MAX_U16
    /\ MAX_PROTOCOL_FEE_RATE \in 0 .. MAX_U16
ASSUME MintsAssumption == Mints \subseteq Int /\ NoMint \notin RewardMints
ASSUME RewardsAssumption == NUM_REWARDS \in Nat
ASSUME PoolsAssumption == MAX_POOLS \in Nat

VARIABLES
    configs,        \* config accounts
    fee_tiers,      \* fee tiers by deployment and tick spacing
    pools           \* pools by deployment and market

config_vars == <<configs, fee_tiers, pools>>

RewardIndex == 0 .. NUM_REWARDS - 1
Rates == 0 .. MAX_U16

Markets == [token_mint_a : Mints, token_mint_b : Mints, tick_spacing : TickSpacings]

PoolsConfig ==
    [fee_authority : Users,
     collect_protocol_fees_authority : Users,
     reward_emissions_super_authority : Users,
     default_protocol_fee_rate : 0 .. MAX_PROTOCOL_FEE_RATE]

FeeTier == [pools_config : Configs, default_fee_rate : 0 .. MAX_FEE_RATE]

RewardInfo == [mint : RewardMints \cup {NoMint}, authority : Users]

Pool ==
    [pools_config : Configs,
     fee_rate : 0 .. MAX_FEE_RATE,
     protocol_fee_rate : 0 .. MAX_PROTOCOL_FEE_RATE,
     protocol_fee_owed : BOOLEAN,
     reward_infos : [RewardIndex -> RewardInfo]]

ASSUME NoAccountAssumption == NoAccount \notin PoolsConfig \cup FeeTier \cup Pool

Addresses == Configs \X Markets
IsPool(c, m) == pools[c][m] # NoAccount
LivePools == {a \in Addresses : IsPool(a[1], a[2])}

\* has_one = pools_config: the account belongs to the config passed with it.
IsOf(account, pools_config) == account.pools_config = pools_config

-----------------------------------------------------------------------------
(* Deployments and fee tiers.                                                *)

\* A rate above its maximum is an error, by whatever instruction it is written.
ValidFeeRate(rate) == rate <= MAX_FEE_RATE
ValidProtocolFeeRate(rate) == rate <= MAX_PROTOCOL_FEE_RATE

NewConfig(fee_authority, collect_authority, super_authority, rate) ==
    [fee_authority |-> fee_authority,
     collect_protocol_fees_authority |-> collect_authority,
     reward_emissions_super_authority |-> super_authority,
     default_protocol_fee_rate |-> rate]

\* Anybody creates a deployment and appoints its authorities.
InitializeConfig(c, fee_authority, collect_authority, super_authority, rate) ==
    /\ configs[c] = NoAccount
    /\ ValidProtocolFeeRate(rate)
    /\ configs' = [configs EXCEPT ![c] =
           NewConfig(fee_authority, collect_authority, super_authority, rate)]
    /\ UNCHANGED <<fee_tiers, pools>>

\* address = config.fee_authority, and likewise the other two roles.
IsFeeAuthority(signer, c) ==
    configs[c] # NoAccount /\ configs[c].fee_authority = signer
IsCollectAuthority(signer, c) ==
    configs[c] # NoAccount /\ configs[c].collect_protocol_fees_authority = signer
IsSuperAuthority(signer, c) ==
    configs[c] # NoAccount /\ configs[c].reward_emissions_super_authority = signer

NewFeeTier(c, rate) == [pools_config |-> c, default_fee_rate |-> rate]

InitializeFeeTier(signer, c, tick_spacing, rate) ==
    /\ IsFeeAuthority(signer, c)
    /\ fee_tiers[c][tick_spacing] = NoAccount
    /\ ValidFeeRate(rate)
    /\ fee_tiers' = [fee_tiers EXCEPT ![c][tick_spacing] = NewFeeTier(c, rate)]
    /\ UNCHANGED <<configs, pools>>

\* t = <<t[1], t[2]>> is the address of a fee tier of any deployment.
SetDefaultFeeRate(signer, c, t, rate) ==
    /\ IsFeeAuthority(signer, c)
    /\ fee_tiers[t[1]][t[2]] # NoAccount
    /\ IsOf(fee_tiers[t[1]][t[2]], c)
    /\ ValidFeeRate(rate)
    /\ fee_tiers' = [fee_tiers EXCEPT ![t[1]][t[2]].default_fee_rate = rate]
    /\ UNCHANGED <<configs, pools>>

SetDefaultProtocolFeeRate(signer, c, rate) ==
    /\ IsFeeAuthority(signer, c)
    /\ ValidProtocolFeeRate(rate)
    /\ configs' = [configs EXCEPT ![c].default_protocol_fee_rate = rate]
    /\ UNCHANGED <<fee_tiers, pools>>

UpdateFeeAuthority(c, heir) ==
    /\ configs' = [configs EXCEPT ![c].fee_authority = heir]
    /\ UNCHANGED <<fee_tiers, pools>>

SetFeeAuthority(signer, c, heir) ==
    IsFeeAuthority(signer, c) /\ UpdateFeeAuthority(c, heir)

UpdateCollectProtocolFeesAuthority(c, heir) ==
    /\ configs' = [configs EXCEPT ![c].collect_protocol_fees_authority = heir]
    /\ UNCHANGED <<fee_tiers, pools>>

SetCollectProtocolFeesAuthority(signer, c, heir) ==
    IsCollectAuthority(signer, c) /\ UpdateCollectProtocolFeesAuthority(c, heir)

\* The pools keep the reward authorities they have.
UpdateRewardEmissionsSuperAuthority(c, heir) ==
    /\ configs' = [configs EXCEPT ![c].reward_emissions_super_authority = heir]
    /\ UNCHANGED <<fee_tiers, pools>>

SetRewardEmissionsSuperAuthority(signer, c, heir) ==
    IsSuperAuthority(signer, c) /\ UpdateRewardEmissionsSuperAuthority(c, heir)

-----------------------------------------------------------------------------
(* Pools.                                                                    *)

MintsInOrder(m) == m.token_mint_a < m.token_mint_b

\* Slip: the fee tier may be one of another deployment.
AnyTier(tier, c) == tier # NoAccount

\* The tier must be one of the deployment.  It need not be the one of the
\* pool's own tick spacing.
ValidTier(tier, c) == tier # NoAccount /\ IsOf(tier, c)

NewRewardInfo(authority) == [mint |-> NoMint, authority |-> authority]

\* Anybody creates a pool, with the rates that the deployment offers.
InitializePool(c, m, t) ==
    /\ configs[c] # NoAccount
    /\ pools[c][m] = NoAccount
    /\ ValidTier(fee_tiers[t[1]][t[2]], c)
    /\ MintsInOrder(m)
    /\ ValidFeeRate(fee_tiers[t[1]][t[2]].default_fee_rate)
    /\ ValidProtocolFeeRate(configs[c].default_protocol_fee_rate)
    /\ Cardinality(LivePools) < MAX_POOLS
    /\ pools' = [pools EXCEPT ![c][m] =
         [pools_config |-> c,
          fee_rate |-> fee_tiers[t[1]][t[2]].default_fee_rate,
          protocol_fee_rate |-> configs[c].default_protocol_fee_rate,
          protocol_fee_owed |-> FALSE,
          reward_infos |-> [i \in RewardIndex |->
              NewRewardInfo(configs[c].reward_emissions_super_authority)]]]
    /\ UNCHANGED <<configs, fee_tiers>>

UpdateFeeRate(a, rate) ==
    /\ ValidFeeRate(rate)
    /\ pools' = [pools EXCEPT ![a[1]][a[2]].fee_rate = rate]
    /\ UNCHANGED <<configs, fee_tiers>>

SetFeeRate(signer, c, a, rate) ==
    /\ IsPool(a[1], a[2]) /\ IsOf(pools[a[1]][a[2]], c)
    /\ IsFeeAuthority(signer, c)
    /\ UpdateFeeRate(a, rate)

\* Slip: the rate is written without a look at the bound.
WriteProtocolFeeRate(a, rate) ==
    /\ pools' = [pools EXCEPT ![a[1]][a[2]].protocol_fee_rate = rate]
    /\ UNCHANGED <<configs, fee_tiers>>

UpdateProtocolFeeRate(a, rate) ==
    /\ ValidProtocolFeeRate(rate)
    /\ pools' = [pools EXCEPT ![a[1]][a[2]].protocol_fee_rate = rate]
    /\ UNCHANGED <<configs, fee_tiers>>

SetProtocolFeeRate(signer, c, a, rate) ==
    /\ IsPool(a[1], a[2]) /\ IsOf(pools[a[1]][a[2]], c)
    /\ IsFeeAuthority(signer, c)
    /\ UpdateProtocolFeeRate(a, rate)

\* A swap: the protocol takes its share of the fee.
UpdateAfterSwap(a) ==
    /\ IsPool(a[1], a[2])
    /\ pools[a[1]][a[2]].protocol_fee_rate > 0
    /\ pools' = [pools EXCEPT ![a[1]][a[2]].protocol_fee_owed = TRUE]
    /\ UNCHANGED <<configs, fee_tiers>>

ResetProtocolFeesOwed(a) ==
    /\ pools' = [pools EXCEPT ![a[1]][a[2]].protocol_fee_owed = FALSE]
    /\ UNCHANGED <<configs, fee_tiers>>

\* Slip: the pool is not compared with the config whose authority signs.
CollectFromAny(signer, c, a) ==
    /\ IsPool(a[1], a[2])
    /\ IsCollectAuthority(signer, c)
    /\ ResetProtocolFeesOwed(a)

CollectProtocolFees(signer, c, a) ==
    /\ IsPool(a[1], a[2]) /\ IsOf(pools[a[1]][a[2]], c)
    /\ IsCollectAuthority(signer, c)
    /\ ResetProtocolFeesOwed(a)

-----------------------------------------------------------------------------
(* Rewards.  An index of NUM_REWARDS or more is an error.                    *)

Initialized(info) == info.mint # NoMint

\* Slip: any slot that is free.
FreeSlot(pool, index) == ~Initialized(pool.reward_infos[index])

LowestUninitialized(pool, index) ==
    /\ ~Initialized(pool.reward_infos[index])
    /\ \A j \in RewardIndex : j < index => Initialized(pool.reward_infos[j])

IsRewardAuthority(signer, a, index) ==
    /\ IsPool(a[1], a[2])
    /\ index < NUM_REWARDS
    /\ pools[a[1]][a[2]].reward_infos[index].authority = signer

InitializeReward(signer, a, index, mint) ==
    /\ IsRewardAuthority(signer, a, index)
    /\ LowestUninitialized(pools[a[1]][a[2]], index)
    /\ pools' = [pools EXCEPT ![a[1]][a[2]].reward_infos[index].mint = mint]
    /\ UNCHANGED <<configs, fee_tiers>>

UpdateRewardAuthority(a, index, heir) ==
    /\ index < NUM_REWARDS
    /\ pools' = [pools EXCEPT ![a[1]][a[2]].reward_infos[index].authority = heir]
    /\ UNCHANGED <<configs, fee_tiers>>

\* Slip: the authority of one reward of the pool passes on another.
SetRewardAuthorityOfAny(signer, a, index, heir) ==
    /\ \E i \in RewardIndex : IsRewardAuthority(signer, a, i)
    /\ UpdateRewardAuthority(a, index, heir)

SetRewardAuthority(signer, a, index, heir) ==
    /\ IsRewardAuthority(signer, a, index)
    /\ UpdateRewardAuthority(a, index, heir)

SetRewardAuthorityBySuperAuthority(signer, c, a, index, heir) ==
    /\ IsPool(a[1], a[2]) /\ IsOf(pools[a[1]][a[2]], c)
    /\ IsSuperAuthority(signer, c)
    /\ UpdateRewardAuthority(a, index, heir)

-----------------------------------------------------------------------------
(* The instructions, with every account and argument a caller may pass.      *)

Tiers == Configs \X TickSpacings

NewSpaces ==
    \/ \E c \in Configs, u, v, w \in Users, rate \in Rates :
          InitializeConfig(c, u, v, w, rate)
    \/ \E c \in Configs, m \in Markets, t \in Tiers : InitializePool(c, m, t)

\* The instructions about a deployment c and its fee tiers ...
ConfigInstructions(signer, c) ==
    \/ \E rate \in Rates :
          \/ \E s \in TickSpacings : InitializeFeeTier(signer, c, s, rate)
          \/ \E t \in Tiers : SetDefaultFeeRate(signer, c, t, rate)
          \/ SetDefaultProtocolFeeRate(signer, c, rate)
    \/ \E heir \in Users :
          \/ SetFeeAuthority(signer, c, heir)
          \/ SetCollectProtocolFeesAuthority(signer, c, heir)
          \/ SetRewardEmissionsSuperAuthority(signer, c, heir)

\* ... and about a pool a, with any config c passed along.  What is not a pool
\* account is refused.
PoolInstructions(signer, a) ==
    \/ \E c \in Configs :
          \/ \E rate \in Rates : SetFeeRate(signer, c, a, rate)
          \/ \E rate \in Rates : SetProtocolFeeRate(signer, c, a, rate)
          \/ CollectProtocolFees(signer, c, a)
    \/ \E i \in 0 .. NUM_REWARDS :
          \/ \E mint \in RewardMints : InitializeReward(signer, a, i, mint)
          \/ \E heir \in Users :
                \/ SetRewardAuthority(signer, a, i, heir)
                \/ \E c \in Configs :
                      SetRewardAuthorityBySuperAuthority(signer, c, a, i, heir)

\* What a user can do who signs for a role; the other instructions ask for none.
SignedInstruction(signer) ==
    \/ \E c \in Configs : ConfigInstructions(signer, c)
    \/ \E a \in LivePools : PoolInstructions(signer, a)

OpenInstruction == NewSpaces \/ \E a \in Addresses : UpdateAfterSwap(a)

ConfigInit ==
    /\ configs = [c \in Configs |-> NoAccount]
    /\ fee_tiers = [c \in Configs |-> [s \in TickSpacings |-> NoAccount]]
    /\ pools = [c \in Configs |-> [m \in Markets |-> NoAccount]]

ConfigNext == OpenInstruction \/ \E u \in Users : SignedInstruction(u)

ConfigSpec == ConfigInit /\ [][ConfigNext]_config_vars

-----------------------------------------------------------------------------
(* Properties.                                                               *)

\* Every account is well formed: in particular every rate is within the bound
\* of the program, by whatever way it got there (update_fee_rate,
\* update_protocol_fee_rate and the defaults copied by a new pool).
ConfigTypeOK ==
    /\ configs \in [Configs -> PoolsConfig \cup {NoAccount}]
    /\ fee_tiers \in [Configs -> [TickSpacings -> FeeTier \cup {NoAccount}]]
    /\ pools \in [Configs -> [Markets -> Pool \cup {NoAccount}]]

\* The pool keeps everything but what is said to change.
SameTerms(old, new) ==
    /\ new.fee_rate = old.fee_rate
    /\ new.protocol_fee_rate = old.protocol_fee_rate

\* A signer changes nothing of a deployment but what the role they hold there
\* covers: authorities and defaults of the config,
SignedForConfig(u, c) ==
    configs'[c] # configs[c] =>
        /\ configs[c] # NoAccount /\ configs'[c] # NoAccount
        /\ \/ configs'[c].fee_authority = configs[c].fee_authority
           \/ configs[c].fee_authority = u
        /\ \/ configs'[c].default_protocol_fee_rate = configs[c].default_protocol_fee_rate
           \/ configs[c].fee_authority = u
        /\ \/ configs'[c].collect_protocol_fees_authority
                 = configs[c].collect_protocol_fees_authority
           \/ configs[c].collect_protocol_fees_authority = u
        /\ \/ configs'[c].reward_emissions_super_authority
                 = configs[c].reward_emissions_super_authority
           \/ configs[c].reward_emissions_super_authority = u

\* its fee tiers,
SignedForTiers(u, c) == fee_tiers'[c] # fee_tiers[c] => IsFeeAuthority(u, c)

\* the rates of its pools and what they owe,
SignedForPool(u, c, m) ==
    /\ IsPool(c, m) <=> pools'[c][m] # NoAccount
    /\ IsPool(c, m) =>
        /\ SameTerms(pools[c][m], pools'[c][m]) \/ IsFeeAuthority(u, c)
        /\ \/ pools'[c][m].protocol_fee_owed = pools[c][m].protocol_fee_owed
           \/ IsCollectAuthority(u, c)

\* and the rewards of its pools.
SignedForReward(u, c, m, i) ==
    /\ \/ pools'[c][m].reward_infos[i].mint = pools[c][m].reward_infos[i].mint
       \/ pools[c][m].reward_infos[i].authority = u
    /\ \/ pools'[c][m].reward_infos[i].authority = pools[c][m].reward_infos[i].authority
       \/ pools[c][m].reward_infos[i].authority = u
       \/ IsSuperAuthority(u, c)

SignedFor(u, c) ==
    /\ SignedForConfig(u, c)
    /\ SignedForTiers(u, c)
    /\ pools'[c] # pools[c] =>
          \A m \in Markets :
              /\ SignedForPool(u, c, m)
              /\ IsPool(c, m) => \A i \in RewardIndex : SignedForReward(u, c, m, i)

\* Whatever accounts a signer combines, and whichever deployments and pools of
\* their own they create first, nothing changes in a deployment but what
\* its current authorities sign for (the address and has_one constraints of all
\* set_* and collect instructions together).
OnlyAuthorities ==
    [][\A u \in Users :
          (\A c \in Configs : SignedFor(u, c)) \/ ~SignedInstruction(u)]_config_vars

OldPoolKept(pool, after) ==
    SameTerms(pool, after) /\ after.reward_infos = pool.reward_infos

OnOfferedTerms(c, pool) ==
    /\ \E s \in TickSpacings :
          /\ fee_tiers[c][s] # NoAccount
          /\ pool.fee_rate = fee_tiers[c][s].default_fee_rate
    /\ pool.protocol_fee_rate = configs[c].default_protocol_fee_rate
    /\ \A i \in RewardIndex :
          pool.reward_infos[i].authority = configs[c].reward_emissions_super_authority

NothingTaken(c) ==
    /\ configs[c] # NoAccount => configs'[c] = configs[c]
    /\ fee_tiers'[c] = fee_tiers[c]
    /\ pools'[c] # pools[c] => \A m \in Markets :
          IF IsPool(c, m)
          THEN OldPoolKept(pools[c][m], pools'[c][m])
          ELSE pools'[c][m] = NoAccount \/ OnOfferedTerms(c, pools'[c][m])

\* Instructions that ask for no role change no existing account, but for the fee
\* that a swap leaves to the protocol; and a new pool trades on terms that its own
\* deployment offers: a fee rate of one of its tiers, its protocol fee, its super
\* authority for the rewards.
PoolsOnOfferedTerms ==
    [][(\A c \in Configs : NothingTaken(c)) \/ ~OpenInstruction]_config_vars

\* The rewards of a pool are initialized in the order of their indices, and
\* mints are in the order of their addresses, so that two tokens meet in one
\* order only (initialize_reward; InvalidTokenMintOrder).
OrderedAccounts ==
    \A c \in Configs, m \in Markets : IsPool(c, m) =>
        /\ m.token_mint_a < m.token_mint_b
        /\ \A i, j \in RewardIndex :
              j < i /\ Initialized(pools[c][m].reward_infos[i])
                => Initialized(pools[c][m].reward_infos[j])
=============================================================================
