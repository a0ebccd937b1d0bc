--------------------------- MODULE MCPublications ---------------------------
(* Bytes of two digits to base three: a NUL, a space, a hyphen, two letters *)
(* and a capital, in scopes of two bytes where the field has room for three. *)
EXTENDS Publications

SomeTexts == UNION {[1..n -> 0..5] : n \in 0..3}
Capitals == {5, 6} \X {5, 6}
=============================================================================
