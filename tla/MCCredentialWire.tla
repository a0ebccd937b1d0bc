-------------------------- MODULE MCCredentialWire --------------------------
(* Two issuers besides the key of secret zero; two credentials that may    *)
(* differ in every part, or in the signing alone.                          *)
EXTENDS CredentialRefinement, TLC

CONSTANTS k1, k2, a1, a2, o1, o2, t1, t2, c1, c2

Interchangeable ==
    Permutations({k1, k2}) \cup Permutations({a1, a2}) \cup Permutations({o1, o2})
        \cup Permutations({t1, t2})
=============================================================================
