----------------------------- MODULE WireTexts -----------------------------
(***************************************************************************)
(* A text of an element, a signature or a key is written, and then edited  *)
(* character by character before it is read.                               *)
(***************************************************************************)
EXTENDS Encoding, SequencesExt

CONSTANT MaxEdits   \* bound on the characters edited

VARIABLES
    kind,       \* of text: element, signature or key
    value,      \* what was written
    text,
    edits       \* characters edited

vars == <<kind, value, text, edits>>

Init ==
    /\ edits = 0
    /\ \/ kind = "element"   /\ value \in Elements          /\ text = ElementText(value)
       \/ kind = "signature" /\ value \in Scalars \X Scalars /\ text = SignatureText(value)
       \/ kind = "key"       /\ value \in Points             /\ text = KeyText(value)

Edited(new) ==
    /\ edits < MaxEdits
    /\ text' = new /\ edits' = edits + 1
    /\ UNCHANGED <<kind, value>>

Exchange(i, c)  == i \in DOMAIN text /\ Edited([text EXCEPT ![i] = c])
InsertChar(i, c) == i \in 1..(Len(text) + 1) /\ Edited(InsertAt(text, i, c))
Delete(i)       == i \in DOMAIN text /\ Edited(RemoveAt(text, i))

Next ==
    \E i \in 1..(Len(text) + 1) :
        \/ \E c \in Characters : Exchange(i, c) \/ InsertChar(i, c)
        \/ Delete(i)

Spec == Init /\ [][Next]_vars

----------------------------------------------------------------------------
Written(k, v) ==
    CASE k = "element" -> ElementText(v)
      [] k = "signature" -> SignatureText(v)
      [] k = "key" -> KeyText(v)

Read(k, t) ==
    CASE k = "element" -> ParseElement(t)
      [] k = "signature" -> Decoded(t)
      [] k = "key" -> FromHex(t)

\* However a text was edited, what is read from it, as any kind, would be
\* written as that very text: no value has a second text.
OneTextPerValue ==
    \A k \in {"element", "signature", "key"} :
        \A v \in Read(k, text) : text = Written(k, v)

\* A text with no edit left in it is read as the value that was written.
ReadsBack ==
    text = Written(kind, value) =>
        Read(kind, text) = IF kind = "key" /\ value.y = IdentityY THEN {} ELSE {value}
=============================================================================
