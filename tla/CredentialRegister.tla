------------------------- MODULE CredentialRegister -------------------------
(***************************************************************************)
(* What verifying a credential promises, without signatures, texts or a    *)
(* carrier: issuers enter what they issue into a public register, and a    *)
(* verifier who is shown a credential looks it up under the key it trusts. *)
(***************************************************************************)
CONSTANTS
    Issuers,        \* public keys
    Trusted,        \* the keys whose word counts
    Documents       \* credentials anyone might show

VARIABLES
    register,       \* the entries made, <<issuer, document>>
    answer          \* what the last verification said, and of what

vars == <<register, answer>>

NoAnswer == [verified |-> FALSE]
Answer(i, shown, accepted) ==
    [verified |-> TRUE, key |-> i, shown |-> shown, accepted |-> accepted]

Init == register = {} /\ answer = NoAnswer

\* A credential has one issuer.
Enter(i, document) ==
    /\ document \in Documents
    /\ \A j \in Issuers \ {i} : <<j, document>> \notin register
    /\ register' = register \cup {<<i, document>>}
    /\ answer' = NoAnswer

\* Whatever is shown, however it got here, the answer is in the register.
LookUp(i, shown) ==
    /\ shown \in Documents
    /\ answer' = Answer(i, shown, i \in Trusted /\ <<i, shown>> \in register)
    /\ UNCHANGED register

\* A credential is on its way.
Other == answer' = NoAnswer /\ UNCHANGED register

\* The entry made and the document shown are those the next state tells of.
Next ==
    \/ \E entry \in register' : entry[1] \in Issuers /\ Enter(entry[1], entry[2])
    \/ answer'.verified /\ \E i \in Issuers : LookUp(i, answer'.shown)
    \/ Other

Spec == Init /\ [][Next]_vars
=============================================================================
