------------------------------ MODULE MCAccounts ------------------------------
(* Accounts on small instances.  Users are interchangeable, requests too,  *)
(* and so are the groups but the built-in one.                             *)
EXTENDS Accounts, TLC

Symmetry == Permutations(Ids) \cup Permutations(Requests)

(* On a SQL store, once administrative requests and a deletion have        *)
(* overlapped, every property but TypeOK holds trivially from then on: the *)
(* run does not look behind such a state.                                  *)
Telling == backend = "sql" => ~({"admin", "deletion"} \subseteq raced)

=============================================================================
