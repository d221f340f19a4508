-------------------------- MODULE MCRuntimePolicy --------------------------
EXTENDS RuntimePolicy, TLC

Scoped(ids) == [Off EXCEPT !.acceptNewOperations = TRUE, !.portableWrites = TRUE,
                           !.providerIds = ids]
Pools  == [Off EXCEPT !.acceptNewOperations = TRUE, !.rookCephWrites = TRUE,
                      !.allowPoolDelete = TRUE]
Broken == [Off EXCEPT !.allowPoolDelete = TRUE]

Everything == [g \in Gates |-> TRUE]
\* Between these two only the scope of portable providers changes.
ScopePolicies == {Scoped({"p1"}), Scoped({"p1", "p2"})}
\* Everything off, Ceph pool deletion, a legacy object without a provider list,
\* and an object older than the schema's rules.
GatePolicies == {Off, Pools, Scoped(NoList), Broken}
OneCeiling  == [r \in Replica |-> Everything]
Symmetry == Permutations(Replica)
=============================================================================
