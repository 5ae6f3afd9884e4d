------------------------ MODULE MCTpmResourceManager ------------------------
EXTENDS TpmResourceManager, TLC

\* Nothing tells one object, or one sender, from another in the beginning.
Symmetry == Permutations(Objects) \cup Permutations(Senders)

=============================================================================
