-------------------------- MODULE MCEligibleSupply --------------------------
\* EligibleSupply with interchangeable mints.
EXTENDS EligibleSupply, TLC

Symmetry == Permutations(Mint)
=============================================================================
