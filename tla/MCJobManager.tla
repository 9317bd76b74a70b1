---------------------------- MODULE MCJobManager ----------------------------
(* JobManager on small instances.  The workers are interchangeable, and so *)
(* are the clients.                                                        *)
EXTENDS JobManager, TLC

Symmetry == Permutations(Workers) \cup Permutations(Clients)

=============================================================================
