--------------------------- MODULE SigningService ---------------------------
(***************************************************************************)
(* What IssuerKeyPair::issue promises its callers, without scalars,        *)
(* digests or retries: whoever asks for a message to be signed is handed   *)
(* one document with that message and key, and every verifier accepts it.  *)
(***************************************************************************)
CONSTANTS
    Clients,        \* threads that ask
    Keys,           \* public keys they may ask for signatures of
    Messages,       \* what they may ask to be signed
    Documents       \* signed messages, records with a key and a message

VARIABLES
    accepted,       \* the documents that verify, natively and in the circuit
    desk            \* each client's document or open request

vars == <<accepted, desk>>

Nothing == [made |-> FALSE]
Holding(document) == [at |-> "idle", credential |-> document]
Waiting(key, message) == [at |-> "asked", key |-> key, message |-> message]

Init ==
    /\ accepted \in SUBSET Documents
    /\ desk = [c \in Clients |-> Holding(Nothing)]

Ask(c, key, message) ==
    /\ desk[c].at = "idle"
    /\ desk' = [desk EXCEPT ![c] = Waiting(key, message)]
    /\ UNCHANGED accepted

HandOver(c, document) ==
    /\ desk[c] = Waiting(document.key, document.message)
    /\ desk' = [desk EXCEPT ![c] = Holding(document)]
    /\ UNCHANGED accepted

Next ==
    \E c \in Clients :
        \/ \E key \in Keys, message \in Messages : Ask(c, key, message)
        \/ \E document \in accepted : HandOver(c, document)

Spec == Init /\ [][Next]_vars
=============================================================================
