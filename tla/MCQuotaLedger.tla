----------------------------- MODULE MCQuotaLedger -----------------------------
(* QuotaLedger with small requests.                                        *)
EXTENDS QuotaLedger, TLC

CONSTANTS s1, s2, j1, j2

(* One request asks for two slides, so that it does not always fit.        *)
MCSlidesOf == [r \in Requests |-> IF r = s1 THEN 2 ELSE 1]

Symmetry == Permutations(Runners)
=============================================================================
