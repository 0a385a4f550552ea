----------------------------- MODULE Planning -----------------------------
(***************************************************************************)
(* From a template to a signed plan: the resolver binds every node, an     *)
(* amendment binds again what an unavailable capability served, the Trust  *)
(* Compiler checks graph and bindings, the closure check compares the      *)
(* bound snapshots with the manifests of the compiler, and the signer      *)
(* seals the plan (orchestra/compiler/, called in this order by the        *)
(* end-to-end test of the compiler).  Between the calls the capabilities   *)
(* may be published anew.                                                  *)
(***************************************************************************)
EXTENDS Compiler

CONSTANTS Templates,      \* the templates a caller may plan
          Contexts,       \* label, region and budget of the task
          Stores,         \* what the registry may hold
          TaskPurpose,    \* the purpose of the contract
          MaxChanges      \* bound: how often the registry is replaced

VARIABLES template, ctx,  \* the task
          store,          \* the registry
          stage,          \* the next call
          bindings,       \* node -> capability id
          snaps,          \* node -> manifest it was bound to
          checked,        \* the manifests given to compiler and closure check
          errors,         \* what the last check returned
          changes

ASSUME PlanningAssumption ==
    /\ Templates \subseteq [nodes : Seq(Node), edges : SUBSET (Nat \X Nat), purposes : SUBSET STRING]
    /\ Contexts \subseteq Context
    /\ \A s \in Stores : DOMAIN s \subseteq Nat \ {NoCap} /\ s \in [DOMAIN s -> Manifest]
    /\ MaxChanges \in Nat

vars == <<template, ctx, store, stage, bindings, snaps, checked, errors, changes>>

Human == 0 - 1            \* "human.approver", synthesised by the resolver
HumanManifest == [kind |-> "human", effects |-> {}, cost |-> 0, p50 |-> 0]
None == [c \in {} |-> HumanManifest]

Init == /\ template \in Templates
        /\ ctx \in Contexts
        /\ store \in Stores
        /\ stage = "parse"
        /\ bindings = [n \in {} |-> NoCap]
        /\ snaps = None
        /\ checked = None
        /\ errors = {}
        /\ changes = 0

-----------------------------------------------------------------------------
(* Resolver *)

IsHuman(t, n) == "human" \in t.nodes[n].kinds

\* An empty store is falsy: the resolver takes the default manifests then.
ResolverStore(s) == IF DOMAIN s = {} THEN DefaultManifests ELSE s

\* The nodes that stay unbound.
Infeasible(t, s, c) ==
    {n \in Nodes(t) : /\ ~IsHuman(t, n)
                      /\ \/ Eligible(t.nodes[n], s) = {}
                         \/ Route(t.nodes[n], s, c) = NoCap}

\* The bindings of a resolve, with the manifest of each.
Resolution(t, s, c) ==
    [n \in Nodes(t) \ Infeasible(t, s, c) |->
        IF IsHuman(t, n) THEN [cap |-> Human, snap |-> HumanManifest]
        ELSE [cap |-> Route(t.nodes[n], s, c), snap |-> s[Route(t.nodes[n], s, c)]]]

\* compute_eligible_set raises for a node that names no kinds.
ResolveRaises(t) == \E n \in Nodes(t) : t.nodes[n].kinds = {}

Bind(res, kept) ==
    /\ bindings' = [n \in DOMAIN res \cup kept |->
                       IF n \in DOMAIN res THEN res[n].cap ELSE bindings[n]]
    /\ snaps' = [n \in DOMAIN res \cup kept |->
                       IF n \in DOMAIN res THEN res[n].snap ELSE snaps[n]]

Parse == /\ stage = "parse"
         /\ stage' = IF ParseRaises(template) THEN "unparsed" ELSE "resolve"
         /\ UNCHANGED <<template, ctx, store, bindings, snaps, checked, errors, changes>>

Resolve == LET s == ResolverStore(store) IN
    /\ stage = "resolve"
    /\ IF ResolveRaises(template)
       THEN stage' = "unbound" /\ UNCHANGED <<bindings, snaps>>
       ELSE /\ stage' = IF Infeasible(template, s, ctx) = {} THEN "compile" ELSE "unbound"
            /\ Bind(Resolution(template, s, ctx), {})
    /\ UNCHANGED <<template, ctx, store, checked, errors, changes>>

\* resolve() runs again for every node; only a node it cannot bind keeps what it had.
Amend(u) == LET s == ResolverStore(store) IN
    /\ stage = "compile"
    /\ \E n \in DOMAIN bindings : bindings[n] = u
    /\ stage' = IF Infeasible(template, s, ctx) = {} THEN "compile" ELSE "unbound"
    /\ Bind(Resolution(template, s, ctx), {n \in DOMAIN bindings : bindings[n] # u})
    /\ UNCHANGED <<template, ctx, store, checked, errors, changes>>

-----------------------------------------------------------------------------
(* TrustCompiler, BindingClosureChecker, PlanSigner *)

\* The compiler and the closure check get one dictionary of the manifests there are now.
Compile ==
    /\ stage = "compile"
    /\ checked' = store
    /\ errors' = CompileErrors(template, TaskPurpose, ctx.label, bindings, store)
    /\ stage' = IF errors' = {} THEN "close" ELSE "rejected"
    /\ UNCHANGED <<template, ctx, store, bindings, snaps, changes>>

Close ==
    /\ stage = "close"
    /\ stage' = IF ClosureErrors(template, bindings, snaps, checked, Human) = {}
                THEN "sign" ELSE "open"
    /\ UNCHANGED <<template, ctx, store, bindings, snaps, checked, errors, changes>>

\* The plan that is signed holds bindings and snaps.
Sign ==
    /\ stage = "sign"
    /\ stage' = "signed"
    /\ UNCHANGED <<template, ctx, store, bindings, snaps, checked, errors, changes>>

\* The environment: another registry is loaded while somebody plans.
Replace ==
    /\ changes < MaxChanges
    /\ stage \in {"resolve", "compile", "close", "sign"}
    /\ \E s \in Stores \ {store} : store' = s
    /\ changes' = changes + 1
    /\ UNCHANGED <<template, ctx, stage, bindings, snaps, checked, errors>>

Next == \/ Parse \/ Resolve \/ Compile \/ Close \/ Sign \/ Replace
        \/ \E u \in UNION {DOMAIN s : s \in Stores} \cup {Human} : Amend(u)

Spec == Init /\ [][Next]_vars

-----------------------------------------------------------------------------
(* What the phases promise, said without their algorithms *)

\* The orders in which the nodes can run: no edge leads backwards.
Orders(t) == {f \in [Nodes(t) -> Nodes(t)] :
                /\ \A m, n \in Nodes(t) : m # n => f[m] # f[n]
                /\ \A e \in t.edges : f[e[1]] < f[e[2]]}

WellFormed(t) == /\ \A e \in t.edges : {e[1], e[2]} \subseteq Nodes(t)
                 /\ Orders(t) # {}
                 /\ t.purposes = {} \/ \A n \in Nodes(t) : t.nodes[n].purpose \in t.purposes

\* A template is refused exactly if it has no order to run in, names a node it
\* does not have or a purpose it does not declare; and the order the checkers
\* walk is such an order (Parser.parse, topological_order).
ParseDecides ==
    stage # "parse" =>
        /\ (stage = "unparsed") <=> ~WellFormed(template)
        /\ stage # "unparsed" =>
              LET order == Order(template)
              IN \E f \in Orders(template) : \A i \in DOMAIN order : f[order[i]] = i

\* In whatever order the nodes run, a person is asked before n or at n.
AskedBefore(t, n) ==
    \E g \in Nodes(t) : t.nodes[g].approval /\ \A f \in Orders(t) : f[g] <= f[n]

SeesPublic(n) == /\ Known(bindings, n, checked)
                 /\ checked[bindings[n]].kind = "public-model"
                 /\ ~template.nodes[n].research

Sound ==
    \A n \in Nodes(template) :
        /\ template.nodes[n].purpose = TaskPurpose
        /\ template.nodes[n].effects \cap HighRisk # {} => AskedBefore(template, n)
        /\ Known(bindings, n, checked)
              => checked[bindings[n]].effects \subseteq template.nodes[n].effects
        /\ SeesPublic(n) => /\ ctx.label.class = Public
                            /\ \/ ctx.label.trust < TrustRestricted
                               \/ \A e \in template.edges : e[2] # n

\* The Trust Compiler rejects a plan exactly if it is not sound: a high-risk node
\* that some order reaches unasked, a foreign purpose, a capability that does more
\* than its node, or data above public at a public model (TrustCompiler.compile).
\*
\* This is what the checkers do.  Three comments say something else, and none of it
\* is promised here: that data up to PARTNER may go to a public model (info_flow.py:16-18;
\* the comment at the check itself, line 116, says "only public-classified data"), that
\* the node's effects are among the capability's (effect_checker.py:5; the code, and its
\* comment at line 54, have it the other way round), and that the approval comes
\* downstream of the effect (policy.py:235, schema.py:116-117; the code asks for a gate
\* that reaches the node, which is one before or at it).
CompileDecides ==
    stage \in {"close", "sign", "signed", "open", "rejected"} => (stage = "rejected" <=> ~Sound)

\* What default_p0_rules permit, by their reasons.
Permitted(n, m) == /\ m.kind = "public-model" =>
                        ctx.label.class < IF n.research THEN Restricted ELSE Internal
                   /\ m.kind \in n.kinds
                   /\ m.effects \subseteq n.effects
                   /\ ctx.label.residency \in {"local", "public", ctx.region}
                   /\ ctx.budget >= 0

\* Whom the router may choose for n before it falls back, and that it took the best:
\* the cheap and fast first, and the fallback only where nobody else is permitted.
Candidates(n) == {c \in DOMAIN checked : /\ Permitted(n, checked[c])
                                         /\ Cardinality(n.kinds) = 1 \/ c # n.fallback}
BestFor(n, c) ==
    IF Candidates(n) = {} THEN c = n.fallback
    ELSE c \in Candidates(n) /\ \A d \in Candidates(n) : Score(checked[d]) <= Score(checked[c])

\* Whatever happened to the registry or was amended on the way, a signed plan binds
\* every node: to a person, or to the very manifest that the compiler checked and
\* that the policy permits for this data, or to the node's own fallback.  As long as
\* nobody replaced the registry, the binding is the best one (Resolver, Router.route,
\* BindingClosureChecker.check).
SignedWasAllowed ==
    stage = "signed" => \A n \in Nodes(template) :
        /\ n \in DOMAIN bindings
        /\ IF "human" \in template.nodes[n].kinds THEN bindings[n] = Human
           ELSE /\ bindings[n] \in DOMAIN checked
                /\ snaps[n] = checked[bindings[n]]
                /\ snaps[n].effects \subseteq template.nodes[n].effects
                /\ \/ Permitted(template.nodes[n], snaps[n])
                   \/ bindings[n] = template.nodes[n].fallback
                /\ changes = 0 => BestFor(template.nodes[n], bindings[n])
=============================================================================
