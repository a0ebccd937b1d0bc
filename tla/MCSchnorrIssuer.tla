-------------------------- MODULE MCSchnorrIssuer --------------------------
(* A small group: three elements with scalars of two bits in three bits of *)
(* bytes; two threads, in one process or in two.                           *)
EXTENDS SchnorrRefinement

CONSTANTS t1, t2, p1, p2

SomeLayouts ==
    {[c \in Callers |-> p1], [c \in Callers |-> IF c = t1 THEN p1 ELSE p2]}
SomeMessages == {0, 1}
SomeSecrets == {1, 2}

\* Affine hash functions: challenges that need masking, ones that only some
\* commitments have, and digests that are never a challenge.
SomeDigests ==
    {[transcript \in Points \X Messages |->
        (a * transcript[1] + b * transcript[2] + k) % ByteRange] :
            a \in {0, 1, 3}, b \in {3, 4}, k \in {0, 3}}
=============================================================================
