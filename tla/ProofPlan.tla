------------------------------ MODULE ProofPlan ------------------------------
(***************************************************************************)
(* Lazy proof recipes (proof.rs) and the boolean they compile to.  A plan  *)
(* is a binary tree: a function from positions to nodes, where a position  *)
(* is the path of sides taken from the root.  A node has an `op`: "direct" *)
(* for a credential proof, "and" for Conjunction, "or" for Disjunction.    *)
(***************************************************************************)
EXTENDS Integers, Sequences, FiniteSets

Sides == {"left", "right"}
Root  == << >>

Left(p)  == Append(p, "left")
Right(p) == Append(p, "right")

\* The position q of a child, seen from the parent.
Under(side, q) == <<side>> \o q

\* ProofPlan::Direct
Direct(leaf) == [p \in {Root} |-> leaf]

\* Defect for a mutant run: the right operand is lost.
JoinLeftOnly(op, l, r) ==
    [p \in {Root} \cup {Under("left", q) : q \in DOMAIN l} |->
        IF p = Root THEN [op |-> op] ELSE l[Tail(p)]]

\* Proof::and, Proof::or and the plan() of the node they build: both
\* operands become children of one new root.
Join(op, l, r) ==
    [p \in {Root} \cup {Under("left", q) : q \in DOMAIN l}
                  \cup {Under("right", q) : q \in DOMAIN r} |->
        IF p = Root THEN [op |-> op]
        ELSE IF Head(p) = "left" THEN l[Tail(p)] ELSE r[Tail(p)]]

DirectPositions(t) == {p \in DOMAIN t : t[p].op = "direct"}

\* p is visited before q in a left-to-right walk of the leaves.
LeftOf(p, q) ==
    \E i \in 1..Len(p) :
        /\ i <= Len(q)
        /\ p[i] = "left" /\ q[i] = "right"
        /\ SubSeq(p, 1, i - 1) = SubSeq(q, 1, i - 1)

\* Recursion over a plan stops at the leftmost leaf whose outcome is not
\* `good`: the outcomes the whole walk can have.
WalkOutcomes(t, outcome, good) ==
    LET bad == {p \in DirectPositions(t) : outcome[p] # good}
    IN  IF bad = {} THEN {good}
        ELSE {outcome[p] : p \in {q \in bad : \A r \in bad : ~LeftOf(r, q)}}

\* Defect for a mutant run: a disjunction's gate only bounds its output.
GateAssignmentsLoose(t, wire) ==
    {v \in [DOMAIN t -> BOOLEAN] :
        \A p \in DOMAIN t :
            \/ t[p].op = "direct" /\ v[p] = wire[p]
            \/ t[p].op = "and" /\ v[p] = (v[Left(p)] /\ v[Right(p)])
            \/ t[p].op = "or"  /\ ((v[Left(p)] \/ v[Right(p)]) => v[p])}

\* Assignments to the boolean variables of the compiled tree that satisfy its
\* gates: `wire` gives the direct relations, & and | the inner nodes.
GateAssignments(t, wire) ==
    {v \in [DOMAIN t -> BOOLEAN] :
        \A p \in DOMAIN t :
            \/ t[p].op = "direct" /\ v[p] = wire[p]
            \/ t[p].op = "and" /\ v[p] = (v[Left(p)] /\ v[Right(p)])
            \/ t[p].op = "or"  /\ v[p] = (v[Left(p)] \/ v[Right(p)])}

\* The root is enforced to be true.
RootSatisfied(t, wire) == \E v \in GateAssignments(t, wire) : v[Root]

\* What a plan says of the truth of its direct proofs, read from the leaves up.
PlanValue(t, truth) ==
    LET value[p \in DOMAIN t] ==
            IF t[p].op = "direct" THEN truth[p]
            ELSE IF t[p].op = "and" THEN value[Left(p)] /\ value[Right(p)]
            ELSE value[Left(p)] \/ value[Right(p)]
    IN  value[Root]

\* Every inner node has both of its children, and no node is orphaned.
IsPlan(t) ==
    /\ Root \in DOMAIN t
    /\ DOMAIN t \subseteq Seq(Sides)
    /\ \A p \in DOMAIN t :
          IF t[p].op = "direct" THEN {Left(p), Right(p)} \cap DOMAIN t = {}
          ELSE t[p].op \in {"and", "or"} /\ {Left(p), Right(p)} \subseteq DOMAIN t
    /\ \A p \in DOMAIN t \ {Root} : \E q \in DOMAIN t : p \in {Left(q), Right(q)}
=============================================================================
