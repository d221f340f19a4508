----------------------- MODULE MCOperationAdmission -----------------------
EXTENDS OperationAdmission, TLC
SomeGrants == {{"portable", "provider"}, {"portable", "native"}, {}}
Symmetry == Permutations(Replica) \cup Permutations(Request) \cup Permutations(Challenge)
=============================================================================
