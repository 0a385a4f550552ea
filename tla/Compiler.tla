----------------------------- MODULE Compiler -----------------------------
(***************************************************************************)
(* The STIR compiler's phases (orchestra/compiler/) as operators on a      *)
(* template: parsing, the checks the Trust Compiler runs, and the closure  *)
(* of the bindings.                                                        *)
(*                                                                         *)
(* A template's nodes are numbered in their declared order; an edge may    *)
(* name a node the template does not have.  The edges are a set: a         *)
(* duplicated edge raises and lowers the degree of its target alike, and   *)
(* the normalizer merges it.                                               *)
(***************************************************************************)
EXTENDS Registry

Nodes(t) == DOMAIN t.nodes
Pred(t, n) == {e[1] : e \in {e \in t.edges : e[2] = n}}
Succ(t, n) == {e[2] : e \in {e \in t.edges : e[1] = n}}

\* The members of a set of node numbers, in order.
InOrder(S) == CHOOSE q \in [1..Cardinality(S) -> S] : \A i, j \in DOMAIN q : i < j => q[i] < q[j]

-----------------------------------------------------------------------------
(* topological_order of the candidate and of the normalized graph *)

\* Mutant: an edge from a node to itself does not count.
Degrees_NoLoops(t) == [n \in Nodes(t) |-> Cardinality(Pred(t, n) \ {n})]

Degrees(t) == [n \in Nodes(t) |-> Cardinality(Pred(t, n))]

\* The head of the queue is taken; the targets that no edge is left to join it.
Take(t, s) ==
    LET u == Head(s.queue)
        less == [n \in Nodes(t) |-> IF n \in Succ(t, u) THEN s.deg[n] - 1 ELSE s.deg[n]]
    IN [queue |-> Tail(s.queue) \o InOrder({n \in Succ(t, u) : less[n] = 0}),
        deg   |-> less,
        out   |-> Append(s.out, u)]

\* The states of the loop "while q".
Takes(t) ==
    LET after[k \in Nat] ==
          IF k = 0 THEN [queue |-> InOrder({n \in Nodes(t) : Degrees(t)[n] = 0}),
                         deg   |-> Degrees(t),
                         out   |-> <<>>]
          ELSE IF after[k - 1].queue = <<>> THEN after[k - 1]
               ELSE Take(t, after[k - 1])
    IN after

\* No node is taken twice: the loop has ended when it could have taken all.
Order(t) == Takes(t)[Cardinality(Nodes(t))].out

-----------------------------------------------------------------------------
(* Parser.parse: what it raises ContractViolation for *)

PurposeUnknown(t) ==
    /\ t.purposes # {}
    /\ \E n \in Nodes(t) : t.nodes[n].purpose \notin t.purposes

ParseRaises(t) == \/ PurposeUnknown(t)
                  \/ \E e \in t.edges : e[1] \notin Nodes(t) \/ e[2] \notin Nodes(t)
                  \/ Len(Order(t)) # Cardinality(Nodes(t))

-----------------------------------------------------------------------------
(* TypeChecker.check and EffectChecker.check *)

\* Everything g reaches: g itself and what the edges lead to, and no more than that.
Covered(t, g) == {n \in Nodes(t) : \A C \in SUBSET Nodes(t) :
                     g \in C /\ (\A e \in t.edges : e[1] \in C => e[2] \in C) => n \in C}

\* Mutant: edges are followed backwards.
Gated_Backward(t, n) == \E g \in Nodes(t) : t.nodes[g].approval /\ g \in Covered(t, n)

Gated(t, n) == \E g \in Nodes(t) : t.nodes[g].approval /\ n \in Covered(t, g)

TypeErrors(t) ==
    {<<"high-risk-effect-without-approval", n>> : n \in
       {n \in Nodes(t) : t.nodes[n].effects \cap HighRisk # {} /\ ~Gated(t, n)}}

\* The node's manifest in ms, if the node is bound to a capability ms has.
Known(b, n, ms) == n \in DOMAIN b /\ b[n] \in DOMAIN ms

EffectErrors(t, b, ms) ==
    {<<"effect-escalation", n>> : n \in
       {n \in Nodes(t) : Known(b, n, ms) /\ ~(ms[b[n]].effects \subseteq t.nodes[n].effects)}}

-----------------------------------------------------------------------------
(* InformationFlowChecker.check *)

MaxOf(S) == CHOOSE x \in S : \A y \in S : y <= x

\* _join, over the labels of a node's producers.
Join(labels) == [class |-> MaxOf({l.class : l \in labels}),
                 trust |-> MaxOf({l.trust : l \in labels}),
                 residency |-> LET rs == {l.residency : l \in labels}
                               IN IF Cardinality(rs) = 1 THEN CHOOSE r \in rs : TRUE ELSE "local"]

\* A node's label, given those of the nodes before it.
LabelOf(t, n, initial, labels) ==
    LET inputs == {labels[p] : p \in Pred(t, n) \cap DOMAIN labels}
    IN IF inputs = {} THEN initial ELSE Join(inputs)

\* The nodes' labels, after all nodes of the order have been walked.
Labels(t, initial) ==
    LET order == Order(t)
        walk[k \in Nat] ==
          IF k = 0 THEN [n \in {} |-> initial]
          ELSE IF k > Len(order) THEN walk[k - 1]
          ELSE [m \in DOMAIN walk[k - 1] \cup {order[k]} |->
                   IF m = order[k] THEN LabelOf(t, m, initial, walk[k - 1]) ELSE walk[k - 1][m]]
    IN walk[Len(order)]

ToPublic(t, b, n, ms) == Known(b, n, ms) /\ IsPublic(ms[b[n]]) /\ ~t.nodes[n].research

FlowErrors(t, initial, b, ms) ==
    LET label == Labels(t, initial)
    IN {<<"restricted-to-public", n>> : n \in
          {n \in Nodes(t) : ToPublic(t, b, n, ms) /\ label[n].class > Public}}
       \cup {<<"trust-not-inherited", n>> : n \in
          {n \in Nodes(t) : /\ ToPublic(t, b, n, ms)
                            /\ \E p \in Pred(t, n) : label[p].trust = TrustRestricted}}

-----------------------------------------------------------------------------
(* DelegationChecker.check and TrustCompiler.compile *)

DelegationErrors(t, purpose) ==
    {<<"purpose-escalation", n>> : n \in {n \in Nodes(t) : t.nodes[n].purpose # purpose}}

CompileErrors(t, purpose, initial, b, ms) ==
    TypeErrors(t) \cup FlowErrors(t, initial, b, ms)
                  \cup EffectErrors(t, b, ms) \cup DelegationErrors(t, purpose)

-----------------------------------------------------------------------------
(* BindingClosureChecker.check *)

\* Mutant: the snapshot a node was bound to is not compared.
ClosureErrors_AnySnapshot(t, b, snaps, ms, human) ==
    {n \in Nodes(t) : n \notin DOMAIN b \/ (b[n] # human /\ b[n] \notin DOMAIN ms)}

\* A node without a binding, bound to an unknown capability, or to a snapshot that changed.
ClosureErrors(t, b, snaps, ms, human) ==
    {n \in Nodes(t) : \/ n \notin DOMAIN b
                      \/ /\ b[n] # human
                         /\ b[n] \in DOMAIN ms => snaps[n] # ms[b[n]]}
=============================================================================
