----------------------------- MODULE Registry -----------------------------
(***************************************************************************)
(* The capability registry (orchestra/registry/): which capability a node  *)
(* is bound to.  eligible.py computes the structurally eligible manifests  *)
(* and their order, policy.py decides about one of them, router.py takes   *)
(* the first one allowed or the node's pre-approved fallback.              *)
(*                                                                         *)
(* A capability id is a number: numbers are ordered as the id strings are. *)
(* A store is a function from the registered ids to manifests.  A          *)
(* manifest's id is content-addressed: it is the manifest itself.          *)
(***************************************************************************)
EXTENDS Integers, Sequences, FiniteSets

NoCap == 0                       \* no capability
Kinds == {"local-model", "public-model", "a2a-agent", "tool", "human", "sink"}
EffectKinds == {"read", "write", "delete", "payment", "publish", "notify"}
HighRisk == {"write", "delete", "payment", "publish"}

\* DataClassification and SourceTrust by their ranks.
Public == 0
Partner == 1
Internal == 2
Restricted == 3
TrustRestricted == 4

Label == [class : Public..Restricted, trust : 0..TrustRestricted, residency : STRING]

\* cost in thousandths of a dollar, p50 in milliseconds.
Manifest == [kind : Kinds, effects : SUBSET EffectKinds, cost : Nat, p50 : Nat]

\* research: the node is called public_research.
Node == [purpose : STRING, kinds : SUBSET Kinds, effects : SUBSET EffectKinds,
         approval : BOOLEAN, fallback : Nat, research : BOOLEAN]

\* What a decision is about, besides the node and the manifest.
Context == [label : Label, region : STRING, budget : Int]

\* load_default_manifests: its capabilities in the order of their ids.
Agent == 1
Local == 2
PublicModel == 3
Sink == 4
Tool == 5
DefaultManifests ==
    [c \in Agent..Tool |->
        CASE c = Agent -> [kind |-> "a2a-agent", effects |-> {"read"}, cost |-> 1, p50 |-> 900]
          [] c = Local -> [kind |-> "local-model", effects |-> {"read"}, cost |-> 0, p50 |-> 200]
          [] c = PublicModel -> [kind |-> "public-model", effects |-> {"read"}, cost |-> 2, p50 |-> 1500]
          [] c = Sink -> [kind |-> "sink", effects |-> {"write"}, cost |-> 0, p50 |-> 50]
          [] c = Tool -> [kind |-> "tool", effects |-> {"read"}, cost |-> 0, p50 |-> 5]]

-----------------------------------------------------------------------------
(* compute_eligible_set *)

AtLeast0(n) == IF n > 0 THEN n ELSE 0

Score(m) == AtLeast0(1000 - m.cost) + AtLeast0(1000 - m.p50 \div 5)
            + (IF m.kind \in {"local-model", "a2a-agent"} THEN 50 ELSE 0)

\* The fallback has a slot of its own unless the node names a single kind.
Eligible(n, store) ==
    {c \in DOMAIN store : /\ store[c].kind \in n.kinds
                          /\ ~(c = n.fallback /\ Cardinality(n.kinds) > 1)
                          /\ store[c].effects \subseteq n.effects}

\* c comes before d in the list sorted by (-score, capability_id).
Before(c, d, store) == \/ Score(store[c]) > Score(store[d])
                       \/ Score(store[c]) = Score(store[d]) /\ c < d

-----------------------------------------------------------------------------
(* default_p0_rules and PolicyEngine.decide *)

IsPublic(m) == m.kind = "public-model"

\* The deny rules in their order; default-allow comes after them.
DenyRules(n, m, ctx) ==
    << ctx.label.class = Restricted /\ IsPublic(m),
       ctx.label.class = Internal /\ IsPublic(m) /\ ~n.research,
       m.kind \notin n.kinds,
       ~(m.effects \subseteq n.effects),
       ctx.label.residency \notin {"local", "public", ctx.region},
       ctx.budget < 0 >>

Decide(n, m, ctx) == \A i \in 1..Len(DenyRules(n, m, ctx)) : ~DenyRules(n, m, ctx)[i]

-----------------------------------------------------------------------------
(* Router.route *)

Allowed(n, store, ctx) == {c \in Eligible(n, store) : Decide(n, store[c], ctx)}

\* The first entry the policy allows, else the fallback, about which nobody is asked.
Route(n, store, ctx) ==
    IF Allowed(n, store, ctx) # {}
    THEN CHOOSE c \in Allowed(n, store, ctx) :
            \A d \in Allowed(n, store, ctx) \ {c} : Before(c, d, store)
    ELSE IF n.fallback \in DOMAIN store THEN n.fallback ELSE NoCap
=============================================================================
