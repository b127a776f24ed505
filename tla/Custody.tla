------------------------------ MODULE Custody ------------------------------
(***************************************************************************)
(* Who holds the positions: position accounts, the bundles that hold many  *)
(* of them, and the tokens that speak for either (instructions             *)
(* {open,close}_position, {open,close}_bundled_position and                *)
(* {initialize,delete}_position_bundle, util::verify_position_authority,   *)
(* util::token, state::PositionBundle).                                    *)
(*                                                                         *)
(* The address of an account is derived from seeds, so a position account  *)
(* is named by its mint, and one of a bundle by the bundle's mint and its  *)
(* index.  What a position contains is abstracted to whether it is empty.  *)
(*                                                                         *)
(* Tokens are kept by the SPL token program: each wallet has one account   *)
(* for each mint, where it may approve a delegate.  Either may transfer    *)
(* the token there, and either may burn it: this program is not asked, and *)
(* what the token spoke for then stays behind.                             *)
(***************************************************************************)
EXTENDS Integers, FiniteSets

CONSTANTS
    Wallets, NoWallet,     \* owners and delegates of token accounts
    PositionMints,         \* keys for position mints and bundle mints
    POSITION_BITMAP_USIZE, \* bytes of a bitmap, 32 in the code
    BITS                   \* of a byte, 8 in the code

ASSUME CustodyAssumption ==
    /\ NoWallet \notin Wallets
    /\ POSITION_BITMAP_USIZE \in Nat \ {0} /\ BITS \in Nat \ {0}

POSITION_BUNDLE_SIZE == BITS * POSITION_BITMAP_USIZE

\* The indexes callers pass, one of them out of bounds.
BundleIndex == 0 .. POSITION_BUNDLE_SIZE

VARIABLES
    positions,  \* the position account of a mint: "none", "empty" or "funded"
    bundled,    \* the same for the position accounts of a bundle
    bundles,    \* the bundle account of a mint
    mints,      \* which mint accounts exist
    accounts,   \* the token accounts
    metadata    \* the mints that have a metadata account

custody_vars == <<positions, bundled, bundles, mints, accounts, metadata>>

AccountState == {"none", "empty", "funded"}

\* A byte is the set of its bits that are 1.
Byte == SUBSET (0 .. BITS - 1)

Bitmap == [0 .. POSITION_BITMAP_USIZE - 1 -> Byte]
EmptyBitmap == [b \in 0 .. POSITION_BITMAP_USIZE - 1 |-> {}]

\* An instruction asks that exactly one token is delegated.
DelegatedAmount == 0 .. 2

TokenAccount == [amount: {0, 1}, delegate: Wallets \union {NoWallet},
                 delegated_amount: DelegatedAmount,
                 close_authority: Wallets \union {NoWallet}]
EmptyAccount == [amount |-> 0, delegate |-> NoWallet, delegated_amount |-> 0,
                 close_authority |-> NoWallet]

-----------------------------------------------------------------------------
\* The SPL token program.

\* The delegate as far as delegated_amount goes, else the owner.
MayTransfer(signer, owner, account) ==
    IF account.delegate = signer THEN account.delegated_amount > 0
                                 ELSE signer = owner

\* The account once its token was taken from it.
TakenFrom(account, signer) ==
    IF account.delegate # signer THEN [account EXCEPT !.amount = 0]
    ELSE IF account.delegated_amount > 1
    THEN [account EXCEPT !.amount = 0, !.delegated_amount = @ - 1]
    ELSE [account EXCEPT !.amount = 0, !.delegated_amount = 0, !.delegate = NoWallet]

Transfer(signer, m, from, to) ==
    /\ from # to
    /\ accounts[m][from].amount = 1
    /\ MayTransfer(signer, from, accounts[m][from])
    /\ accounts' = [accounts EXCEPT ![m][from] = TakenFrom(@, signer),
                                    ![m][to].amount = 1]
    /\ UNCHANGED <<positions, bundled, bundles, mints, metadata>>

\* By the owner or the delegate, at any time: the token program does not know what
\* the token speaks for.
Burn(signer, m, owner) ==
    /\ accounts[m][owner].amount = 1
    /\ MayTransfer(signer, owner, accounts[m][owner])
    /\ accounts' = [accounts EXCEPT ![m][owner] = TakenFrom(@, signer)]
    /\ UNCHANGED <<positions, bundled, bundles, mints, metadata>>

Approve(owner, m, delegate, amount) ==
    /\ m \in mints
    /\ accounts' = [accounts EXCEPT ![m][owner] =
          [@ EXCEPT !.delegate = delegate, !.delegated_amount = amount]]
    /\ UNCHANGED <<positions, bundled, bundles, mints, metadata>>

Revoke(owner, m) ==
    /\ m \in mints
    /\ accounts' = [accounts EXCEPT ![m][owner] =
          [@ EXCEPT !.delegate = NoWallet, !.delegated_amount = 0]]
    /\ UNCHANGED <<positions, bundled, bundles, mints, metadata>>

MayClose(signer, owner, account) ==
    IF account.close_authority = NoWallet THEN signer = owner
                                        ELSE signer = account.close_authority

\* Only an account without a token; its delegate goes with it.
CloseAccount(signer, m, owner) ==
    /\ m \in mints
    /\ accounts[m][owner].amount = 0
    /\ MayClose(signer, owner, accounts[m][owner])
    /\ accounts' = [accounts EXCEPT ![m][owner] = EmptyAccount]
    /\ UNCHANGED <<positions, bundled, bundles, mints, metadata>>

SetCloseAuthority(signer, m, owner, user) ==
    /\ m \in mints
    /\ MayClose(signer, owner, accounts[m][owner])
    /\ accounts' = [accounts EXCEPT ![m][owner].close_authority = user]
    /\ UNCHANGED <<positions, bundled, bundles, mints, metadata>>

\* Slip: a mint can be used again (init_if_needed for init).
MintAgain(m, owner) ==
    /\ mints' = mints \union {m}
    /\ accounts' = [accounts EXCEPT ![m][owner].amount = 1]

\* init of a mint and of the owner's token account; one token is minted and
\* the authority to mint another is given up.
MintOne(m, owner) ==
    /\ m \notin mints
    /\ mints' = mints \union {m}
    /\ accounts' = [accounts EXCEPT ![m][owner].amount = 1]

\* The metadata program creates an account for a mint at the wish of the mint's
\* authority, which is why this comes between minting the token and giving the
\* authority up.  The program never reads the account, and nobody closes it.
CreateMetadata(m) == m \notin mints \union metadata /\ metadata' = metadata \union {m}

\* mint_position_token_and_remove_authority: the mint's authority is the pool.
MintPositionToken(m, owner) == MintOne(m, owner) /\ UNCHANGED metadata

MintPositionTokenWithMetadata(m, owner) == MintOne(m, owner) /\ CreateMetadata(m)

\* The mint's authority is the bundle.
MintBundleToken(m, owner) == MintOne(m, owner) /\ UNCHANGED metadata

MintBundleTokenWithMetadata(m, owner) == MintOne(m, owner) /\ CreateMetadata(m)

\* burn_and_close_user_position_token
BurnAndClose(signer, m, owner) ==
    /\ MayTransfer(signer, owner, accounts[m][owner])
    /\ MayClose(signer, owner, accounts[m][owner])
    /\ accounts' = [accounts EXCEPT ![m][owner] = EmptyAccount]

-----------------------------------------------------------------------------
\* The token account that an instruction is given holds the token of m, and
\* verify_position_authority accepts the signer.
Authorized(signer, m, owner) ==
    /\ accounts[m][owner].amount = 1
    /\ IF accounts[m][owner].delegate = signer
       THEN accounts[m][owner].delegated_amount = 1
       ELSE signer = owner

OpenPosition(m, owner) ==
    /\ MintPositionToken(m, owner)
    /\ positions' = [positions EXCEPT ![m] = "empty"]
    /\ UNCHANGED <<bundled, bundles>>

OpenPositionWithMetadata(m, owner) ==
    /\ MintPositionTokenWithMetadata(m, owner)
    /\ positions' = [positions EXCEPT ![m] = "empty"]
    /\ UNCHANGED <<bundled, bundles>>

\* Slip: the seeds of the account are not checked, so that any position that
\* names the mint will do.
ClosePositionUnseeded(signer, m, owner) ==
    /\ Authorized(signer, m, owner)
    /\ BurnAndClose(signer, m, owner)
    /\ \/ positions[m] = "empty" /\ positions' = [positions EXCEPT ![m] = "none"]
                                 /\ UNCHANGED bundled
       \/ \E i \in BundleIndex :
             /\ bundled[m][i] = "empty"
             /\ bundled' = [bundled EXCEPT ![m][i] = "none"]
             /\ UNCHANGED positions
    /\ UNCHANGED <<bundles, mints, metadata>>

ClosePosition(signer, m, owner) ==
    /\ Authorized(signer, m, owner)
    /\ positions[m] = "empty"
    /\ positions' = [positions EXCEPT ![m] = "none"]
    /\ BurnAndClose(signer, m, owner)
    /\ UNCHANGED <<bundled, bundles, mints, metadata>>

\* increase_liquidity, decrease_liquidity and the collects, which fill a
\* position or empty it.
ModifyPosition(signer, m, owner, after) ==
    /\ Authorized(signer, m, owner)
    /\ positions[m] # "none"
    /\ positions' = [positions EXCEPT ![m] = after]
    /\ UNCHANGED <<bundled, bundles, mints, accounts, metadata>>

ModifyBundledPosition(signer, m, owner, i, after) ==
    /\ Authorized(signer, m, owner)
    /\ bundled[m][i] # "none"
    /\ bundled' = [bundled EXCEPT ![m][i] = after]
    /\ UNCHANGED <<positions, bundles, mints, accounts, metadata>>

-----------------------------------------------------------------------------
InitializePositionBundle(m, owner) ==
    /\ MintBundleToken(m, owner)
    /\ bundles' = [bundles EXCEPT ![m] =
                      [exists |-> TRUE, position_bitmap |-> EmptyBitmap]]
    /\ UNCHANGED <<positions, bundled>>

InitializePositionBundleWithMetadata(m, owner) ==
    /\ MintBundleTokenWithMetadata(m, owner)
    /\ bundles' = [bundles EXCEPT ![m] =
                      [exists |-> TRUE, position_bitmap |-> EmptyBitmap]]
    /\ UNCHANGED <<positions, bundled>>

is_valid_bundle_index(i) == i < POSITION_BUNDLE_SIZE

IsOpened(bitmap, i) == i % BITS \in bitmap[i \div BITS]

\* bitmap ^ mask
ToggleBit(byte, bit) == (byte \union {bit}) \ (byte \intersect {bit})

\* Slip: the mask of the index, not of its place in the byte.
UpdateBitmapWhole(m, i, open) ==
    /\ is_valid_bundle_index(i)
    /\ IsOpened(bundles[m].position_bitmap, i) # open
    /\ bundles' = [bundles EXCEPT ![m].position_bitmap[i \div BITS] =
                      ToggleBit(@, i)]

\* update_bitmap
UpdateBitmap(m, i, open) ==
    /\ is_valid_bundle_index(i)
    /\ IsOpened(bundles[m].position_bitmap, i) # open
    /\ bundles' = [bundles EXCEPT ![m].position_bitmap[i \div BITS] =
                      ToggleBit(@, i % BITS)]

OpenBundledPosition(signer, m, owner, i) ==
    /\ bundles[m].exists
    /\ bundled[m][i] = "none"
    /\ Authorized(signer, m, owner)
    /\ UpdateBitmap(m, i, TRUE)
    /\ bundled' = [bundled EXCEPT ![m][i] = "empty"]
    /\ UNCHANGED <<positions, mints, accounts, metadata>>

CloseBundledPosition(signer, m, owner, i) ==
    /\ bundles[m].exists
    /\ bundled[m][i] = "empty"
    /\ Authorized(signer, m, owner)
    /\ UpdateBitmap(m, i, FALSE)
    /\ bundled' = [bundled EXCEPT ![m][i] = "none"]
    /\ UNCHANGED <<positions, mints, accounts, metadata>>

\* Slip: only the first byte is looked at.
FirstByteZero(bitmap) == bitmap[0] = {}

is_deletable(bitmap) == \A b \in DOMAIN bitmap : bitmap[b] = {}

\* burn_and_close_position_bundle_token, "use same logic"
BurnAndCloseBundleToken(signer, m, owner) == BurnAndClose(signer, m, owner)

DeletePositionBundle(m, owner) ==
    /\ bundles[m].exists
    /\ accounts[m][owner].amount = 1
    /\ is_deletable(bundles[m].position_bitmap)
    /\ BurnAndCloseBundleToken(owner, m, owner)
    /\ bundles' = [bundles EXCEPT ![m] =
                      [exists |-> FALSE, position_bitmap |-> EmptyBitmap]]
    /\ UNCHANGED <<positions, bundled, mints, metadata>>

-----------------------------------------------------------------------------
CustodyInit ==
    /\ positions = [m \in PositionMints |-> "none"]
    /\ bundled = [m \in PositionMints |-> [i \in BundleIndex |-> "none"]]
    /\ bundles = [m \in PositionMints |->
                     [exists |-> FALSE, position_bitmap |-> EmptyBitmap]]
    /\ mints = {}
    /\ accounts = [m \in PositionMints |-> [u \in Wallets |-> EmptyAccount]]
    /\ metadata = {}

\* The instructions, with every account a caller may pass.
OpenPositionInstruction(m, owner) ==
    \/ OpenPosition(m, owner)
    \/ OpenPositionWithMetadata(m, owner)

BundleInstruction(m, owner) ==
    \/ InitializePositionBundle(m, owner)
    \/ InitializePositionBundleWithMetadata(m, owner)
    \/ DeletePositionBundle(m, owner)

BundledPositionInstruction(signer, m, owner) ==
    \E i \in BundleIndex :
        \/ OpenBundledPosition(signer, m, owner, i)
        \/ CloseBundledPosition(signer, m, owner, i)

\* What fills and empties positions, and closes them.
PositionInstruction(signer, m, owner) ==
    \/ ClosePosition(signer, m, owner)
    \/ \E after \in {"empty", "funded"} :
          \/ ModifyPosition(signer, m, owner, after)
          \/ \E i \in BundleIndex :
                ModifyBundledPosition(signer, m, owner, i, after)

TokenInstruction(signer, m, owner) ==
    \/ \E amount \in DelegatedAmount : Approve(owner, m, signer, amount)
    \/ \E user \in Wallets : SetCloseAuthority(signer, m, owner, user)
    \/ \E to \in Wallets : Transfer(signer, m, owner, to)
    \/ Burn(signer, m, owner)
    \/ CloseAccount(signer, m, owner)

CustodyNext ==
    \E m \in PositionMints, owner \in Wallets :
        \/ OpenPositionInstruction(m, owner)
        \/ BundleInstruction(m, owner)
        \/ Revoke(owner, m)
        \/ \E signer \in Wallets :
              \/ BundledPositionInstruction(signer, m, owner)
              \/ PositionInstruction(signer, m, owner)
              \/ TokenInstruction(signer, m, owner)

CustodySpec == CustodyInit /\ [][CustodyNext]_custody_vars

-----------------------------------------------------------------------------
CustodyTypeOK ==
    /\ positions \in [PositionMints -> AccountState]
    /\ bundled \in [PositionMints -> [BundleIndex -> AccountState]]
    /\ bundles \in [PositionMints -> [exists: BOOLEAN, position_bitmap: Bitmap]]
    /\ mints \subseteq PositionMints
    /\ metadata \subseteq mints
    /\ accounts \in [PositionMints -> [Wallets -> TokenAccount]]

(***************************************************************************)
(* A bit of a bundle is set exactly when the position account of its index *)
(* exists, and none exists without the bundle.  This is why the comments   *)
(* in update_bitmap call its two errors unreachable, and why a bundle that *)
(* is_deletable leaves no position behind.                                 *)
(***************************************************************************)
BitmapMatchesPositions ==
    \A m \in PositionMints, i \in BundleIndex :
        bundled[m][i] # "none" <=>
            /\ bundles[m].exists
            /\ is_valid_bundle_index(i)
            /\ IsOpened(bundles[m].position_bitmap, i)

\* Some account is spoken for by the token of m.
Exists(m) ==
    \/ positions[m] # "none"
    \/ bundles[m].exists
    \/ \E i \in BundleIndex : bundled[m][i] # "none"

Holders(m) == {u \in Wallets : accounts[m][u].amount = 1}

\* What the token of m speaks for stays as it is.
Untouched(m) ==
    /\ positions'[m] = positions[m]
    /\ bundled'[m] = bundled[m]
    /\ bundles'[m] = bundles[m]

(***************************************************************************)
(* Only who burns the token of a position or bundle gives it up; no        *)
(* instruction of the program strands one, whatever was transferred,       *)
(* delegated, closed or deleted before (close_position burns with what it  *)
(* closes, delete_position_bundle only when nothing is left inside):       *)
(*  - each step leaves all there is with exactly one holder, or it left    *)
(*    what has no holder as it was;                                        *)
(*  - a token once burnt is gone for good: no second one is ever minted    *)
(*    that would speak for what is left, or for something new;             *)
(*  - nobody holds the token of what is gone.                              *)
(***************************************************************************)
OnlyBurningStrands ==
    [][\A m \in PositionMints :
          /\ Exists(m)' => \/ \E owner \in Wallets : Holders(m)' = {owner}
                           \/ Holders(m)' = {} /\ Untouched(m)
          /\ m \in mints /\ Holders(m) = {} => Holders(m)' = {}
          /\ Holders(m)' # {} => Exists(m)']_custody_vars

(***************************************************************************)
(* A bundle's token never speaks for a position outside the bundle, nor a  *)
(* position's token for a bundle.                                          *)
(***************************************************************************)
OneKind ==
    \A m \in PositionMints :
        positions[m] # "none" =>
            /\ ~bundles[m].exists
            /\ \A i \in BundleIndex : bundled[m][i] = "none"
=============================================================================
