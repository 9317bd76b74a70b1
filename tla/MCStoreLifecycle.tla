--------------------------- MODULE MCStoreLifecycle ---------------------------
(* StoreLifecycle on small instances; those who switch are interchangeable. *)
EXTENDS StoreLifecycle, Functions, TLC

CONSTANT MaxWrites  \* bound: acknowledged writes of all kinds together

Symmetry == Permutations(Managers)

FewWrites == FoldFunction(LAMBDA v, n : v + n, 0, latest) <= MaxWrites

=============================================================================
