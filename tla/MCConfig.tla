------------------------------ MODULE MCConfig ------------------------------
EXTENDS Config, TLC

MCSymmetry == Permutations(Users) \cup Permutations(Configs)
=============================================================================
