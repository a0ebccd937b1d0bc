-------------------------- MODULE AttestedStatements --------------------------
(***************************************************************************)
(* What the library promises its users, without cryptography, circuits or  *)
(* proof recipes.  Issuers attest facts about people.  Verifiers offer to  *)
(* check statements on a day of theirs.  A certificate of a statement      *)
(* comes into being only while the statement is true of attested facts,    *)
(* and convinces the verifier who offered the statement and nobody else.   *)
(***************************************************************************)
EXTENDS Claims, ProofPlan

CONSTANTS
    Issuers,        \* who attests
    Values,         \* what is attested of a person
    Days,           \* when statements are evaluated
    Services,       \* verifiers' offers
    Certificates    \* certificates made

VARIABLES
    facts,          \* the attestations made, [issuer, values]
    services,       \* Services -> the statement and day offered, if any
    certificates,   \* Certificates -> the service it convinces, once made
    answer          \* what the last check of a certificate said

vars == <<facts, services, certificates, answer>>

NoOffer == [offered |-> FALSE]
Offered(s, day) == [offered |-> TRUE, statement |-> s, day |-> day]
NoCertificate == [made |-> FALSE]
CertificateFor(b) == [made |-> TRUE, service |-> b]
NoAnswer == [checked |-> FALSE]
Answer(b, a, accepted) ==
    [checked |-> TRUE, service |-> b, certificate |-> a, accepted |-> accepted]

\* A statement is a tree of claims by issuers; on a day it has a meaning if
\* nothing in it is custom and no age reaches back before the calendar.
IsStatement(s) ==
    /\ IsPlan(s)
    /\ \A p \in DirectPositions(s) : s[p].issuer \in Issuers /\ s[p].claim \in ClaimKinds

Meaningful(s, day) ==
    \A p \in DirectPositions(s) :
        /\ s[p].claim # Custom
        /\ s[p].claim \in AgeClaims => day.year - s[p].claim.years >= FirstSupportedYear

\* Facts about people that could speak for each claim of a statement.
Witnesses(s) ==
    {w \in [DirectPositions(s) -> facts] :
        \A p \in DirectPositions(s) : w[p].issuer = s[p].issuer}

Holds(s, w, day) ==
    RootSatisfied(s, [p \in DirectPositions(s) |->
                         ClaimHolds(s[p].claim, w[p].values, day)])

Init ==
    /\ facts = {}
    /\ services = [b \in Services |-> NoOffer]
    /\ certificates = [a \in Certificates |-> NoCertificate]
    /\ answer = NoAnswer

Attest(issuer, values) ==
    /\ facts' = facts \cup {[issuer |-> issuer, values |-> values]}
    /\ answer' = NoAnswer
    /\ UNCHANGED <<services, certificates>>

\* An offer never changes again.
Offer(b) ==
    /\ ~services[b].offered /\ services'[b].offered
    /\ LET offer == services'[b]
       IN  /\ services' = [services EXCEPT ![b] = Offered(offer.statement, offer.day)]
           /\ IsStatement(offer.statement) /\ offer.day \in Days
           /\ Meaningful(offer.statement, offer.day)
    /\ answer' = NoAnswer
    /\ UNCHANGED <<facts, certificates>>

Certify(a, b) ==
    /\ ~certificates[a].made /\ services[b].offered
    /\ \E w \in Witnesses(services[b].statement) :
          Holds(services[b].statement, w, services[b].day)
    /\ certificates' = [certificates EXCEPT ![a] = CertificateFor(b)]
    /\ answer' = NoAnswer
    /\ UNCHANGED <<facts, services>>

\* A certificate that arrives intact is judged by whom it is for; one that was
\* tampered with may be accepted only where the intact one would be.
Check(b, a) ==
    /\ services[b].offered /\ certificates[a].made
    /\ \E intact, accepted \in BOOLEAN :
          /\ accepted => certificates[a].service = b
          /\ intact => accepted = (certificates[a].service = b)
          /\ answer' = Answer(b, a, accepted)
    /\ UNCHANGED <<facts, services, certificates>>

\* A call that failed, or that only prepares a proof.
Other ==
    /\ answer' = NoAnswer
    /\ UNCHANGED <<facts, services, certificates>>

Next ==
    \/ \E issuer \in Issuers, values \in Values : Attest(issuer, values)
    \/ \E b \in Services : Offer(b)
    \/ \E a \in Certificates, b \in Services : Certify(a, b)
    \/ \E b \in Services, a \in Certificates : Check(b, a)
    \/ Other

Spec == Init /\ [][Next]_vars

\* The statement a service offers is true, on the day it offers it for, of
\* facts attested so far.
OfferIsTrue(b) ==
    /\ services[b].offered
    /\ \E w \in Witnesses(services[b].statement) :
          Holds(services[b].statement, w, services[b].day)

\* What a user may rely on: a service that accepts a certificate offered a
\* statement that is true, whoever made the certificate and however it arrived.
AcceptedIsTrue == answer.checked /\ answer.accepted => OfferIsTrue(answer.service)
=============================================================================
