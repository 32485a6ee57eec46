-------------------------- MODULE MCChallanLedger --------------------------
EXTENDS ChallanLedger, TLC

Symmetry == Permutations(Request) \cup Permutations(Payment) \cup Permutations(Run)
=============================================================================
