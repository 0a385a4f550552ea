--------------------------- MODULE PublishingMC ---------------------------
(* Publishing and Ingress on small sets. *)
EXTENDS Ingress, TLC

Symmetry == Permutations(Vers) \cup Permutations(Workers)

\* Every card asks for the one scope and is offered to the one audience.
OneOffer == [k \in Keys |-> [audiences |-> {"partner"}, scopes |-> {"read"}]]

\* A small field and a large one, which the digest shortens.
Sizes == [f \in {"name", "text"} |-> IF f = "name" THEN 1 ELSE 9]
Views == {NoManifest, [allowed |-> {"name", "text"}, hashed |-> {"text"}, budget |-> 3],
          [allowed |-> {"name"}, hashed |-> {"name"}, budget |-> 2]}

\* Once calls have overlapped: two versions are about, the switch is open, and a partner
\* comes when the workers are at rest.
OverlapBound ==
    crossed # {} =>
       /\ ~tripped /\ (visit = NoVisit \/ Quiet)
       /\ Cardinality({entry[n].key : n \in DOMAIN entry} \cup (KeysOf(Workers) \ {NoKey})) <= 2
=============================================================================
