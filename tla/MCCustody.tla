----------------------------- MODULE MCCustody -----------------------------
\* One mint: nothing relates an account of one mint to an account of another.
EXTENDS Custody, TLC

MCSymmetry == Permutations(Wallets)
=============================================================================
