---------------------------- MODULE PlanningProofs ----------------------------
(***************************************************************************)
(* Proofs about Planning, for any templates, contexts and stores.          *)
(***************************************************************************)
EXTENDS Planning, FiniteSetTheorems, SequenceTheorems, WellFoundedInduction, TLAPS

ResolverStores == {ResolverStore(s) : s \in Stores}

\* The stages behind the resolver, the compiler and the closure check.
Bound == {"compile", "close", "open", "sign", "signed", "rejected"}
Compiled == {"close", "open", "sign", "signed"}
Closed == {"sign", "signed"}

TInv == /\ template \in Templates /\ ctx \in Contexts /\ store \in Stores
        /\ stage \in {"parse", "unparsed", "resolve", "unbound"} \cup Bound
        /\ changes \in Nat

\* b and m are what one resolve over the store s has bound the nodes of t to.
Resolved(t, s, c, b, m) ==
    /\ ~ResolveRaises(t) /\ Infeasible(t, s, c) = {}
    /\ b = [n \in Nodes(t) |-> Resolution(t, s, c)[n].cap]
    /\ m = [n \in Nodes(t) |-> Resolution(t, s, c)[n].snap]

ParseInv == stage # "parse" => (stage = "unparsed" <=> ParseRaises(template))

BoundInv == stage \in Bound =>
    \E s \in ResolverStores : /\ Resolved(template, s, ctx, bindings, snaps)
                              /\ changes = 0 => s = ResolverStore(store)

CheckInv ==
    /\ stage \in Compiled \cup {"rejected"} =>
          /\ checked \in Stores /\ (changes = 0 => checked = store)
          /\ stage = "rejected" <=>
                CompileErrors(template, TaskPurpose, ctx.label, bindings, checked) # {}
    /\ stage \in Closed => ClosureErrors(template, bindings, snaps, checked, Human) = {}

\* The inductive invariant.
PlanInv == TInv /\ ParseInv /\ BoundInv /\ CheckInv

-----------------------------------------------------------------------------
LEMMA PlanStart == Init => PlanInv
  BY DEF Init, PlanInv, TInv, ParseInv, BoundInv, CheckInv, Bound, Compiled, Closed

\* What a resolve that leaves no node unbound binds, whatever it keeps of before.
LEMMA BindAll ==
  ASSUME NEW t, NEW s, NEW c, NEW kept, kept \subseteq Nodes(t), ~ResolveRaises(t), Infeasible(t, s, c) = {},
         Bind(Resolution(t, s, c), kept)
  PROVE  Resolved(t, s, c, bindings', snaps')
<1>1. DOMAIN Resolution(t, s, c) = Nodes(t)
  BY DEF Resolution
<1>2. DOMAIN Resolution(t, s, c) \cup kept = Nodes(t)
  BY <1>1
<1>3. /\ bindings' = [n \in Nodes(t) |-> Resolution(t, s, c)[n].cap]
      /\ snaps' = [n \in Nodes(t) |-> Resolution(t, s, c)[n].snap]
  <2>1. bindings' = [n \in Nodes(t) |-> IF n \in Nodes(t) THEN Resolution(t, s, c)[n].cap ELSE bindings[n]]
    BY <1>1, <1>2 DEF Bind
  <2>2. snaps' = [n \in Nodes(t) |-> IF n \in Nodes(t) THEN Resolution(t, s, c)[n].snap ELSE snaps[n]]
    BY <1>1, <1>2 DEF Bind
  <2> QED BY <2>1, <2>2
<1> QED BY <1>3 DEF Resolved

LEMMA PlanStep == PlanInv /\ [Next]_vars => PlanInv'
<1> SUFFICES ASSUME PlanInv, [Next]_vars PROVE PlanInv'
  OBVIOUS
<1> USE DEF Bound, Compiled, Closed
<1>1. TInv /\ ParseInv /\ BoundInv /\ CheckInv
  BY DEF PlanInv
<1>2. CASE Parse
  BY <1>1, <1>2 DEF Parse, PlanInv, TInv, ParseInv, BoundInv, CheckInv
<1>3. CASE Resolve
  <2> DEFINE s == ResolverStore(store)
  <2>1. /\ stage = "resolve" /\ UNCHANGED <<template, ctx, store, checked, errors, changes>>
        /\ stage' \in {"compile", "unbound"}
        /\ stage' = "compile" => /\ ~ResolveRaises(template) /\ Infeasible(template, s, ctx) = {}
                                 /\ Bind(Resolution(template, s, ctx), {})
    BY <1>3 DEF Resolve
  <2>2. TInv' /\ ParseInv' /\ CheckInv'
    BY <1>1, <2>1 DEF TInv, ParseInv, CheckInv
  <2>3. BoundInv'
    <3> SUFFICES ASSUME stage' \in Bound
                 PROVE  /\ s \in ResolverStores /\ Resolved(template, s, ctx, bindings', snaps')
      BY <2>1 DEF BoundInv
    <3>1. s \in ResolverStores
      BY <1>1 DEF TInv, ResolverStores
    <3> QED BY <2>1, <3>1, BindAll
  <2> QED BY <2>2, <2>3 DEF PlanInv
<1>4. ASSUME NEW u, Amend(u) PROVE PlanInv'
  <2> DEFINE s == ResolverStore(store)
             kept == {n \in DOMAIN bindings : bindings[n] # u}
  <2>1. /\ stage = "compile" /\ UNCHANGED <<template, ctx, store, checked, errors, changes>>
        /\ stage' \in {"compile", "unbound"}
        /\ stage' = "compile" => Infeasible(template, s, ctx) = {}
        /\ Bind(Resolution(template, s, ctx), kept)
    BY <1>4 DEF Amend
  <2>2. TInv' /\ ParseInv' /\ CheckInv'
    BY <1>1, <2>1 DEF TInv, ParseInv, CheckInv
  <2>3. BoundInv'
    <3> SUFFICES ASSUME stage' \in Bound
                 PROVE  /\ s \in ResolverStores /\ Resolved(template, s, ctx, bindings', snaps')
      BY <2>1 DEF BoundInv
    <3>1. s \in ResolverStores
      BY <1>1 DEF TInv, ResolverStores
    <3>2. ~ResolveRaises(template) /\ DOMAIN bindings = Nodes(template)
      BY <1>1, <2>1 DEF BoundInv, Resolved
    <3> HIDE DEF s
    <3>3. Infeasible(template, s, ctx) = {}
      BY <2>1
    <3> QED BY <2>1, <3>1, <3>2, <3>3, BindAll
  <2> QED BY <2>2, <2>3 DEF PlanInv
<1>5. CASE Compile
  <2>1. /\ stage = "compile" /\ checked' = store /\ UNCHANGED <<template, ctx, store, bindings, snaps, changes>>
        /\ stage' \in {"close", "rejected"}
        /\ stage' = "rejected" <=> CompileErrors(template, TaskPurpose, ctx.label, bindings, store) # {}
    BY <1>5 DEF Compile
  <2>2. TInv' /\ ParseInv' /\ BoundInv'
    BY <1>1, <2>1 DEF TInv, ParseInv, BoundInv
  <2>3. CheckInv'
    BY <1>1, <2>1 DEF TInv, CheckInv
  <2> QED BY <2>2, <2>3 DEF PlanInv
<1>6. CASE Close
  <2>1. /\ stage = "close" /\ UNCHANGED <<template, ctx, store, bindings, snaps, checked, changes>>
        /\ stage' \in {"sign", "open"}
        /\ stage' = "sign" => ClosureErrors(template, bindings, snaps, checked, Human) = {}
    BY <1>6 DEF Close
  <2>2. TInv' /\ ParseInv' /\ BoundInv'
    BY <1>1, <2>1 DEF TInv, ParseInv, BoundInv
  <2>3. CheckInv'
    BY <1>1, <2>1 DEF CheckInv
  <2> QED BY <2>2, <2>3 DEF PlanInv
<1>7. CASE Sign
  <2>1. /\ stage = "sign" /\ UNCHANGED <<template, ctx, store, bindings, snaps, checked, changes>>
        /\ stage' = "signed"
    BY <1>7 DEF Sign
  <2>2. TInv' /\ ParseInv' /\ BoundInv'
    BY <1>1, <2>1 DEF TInv, ParseInv, BoundInv
  <2>3. CheckInv'
    BY <1>1, <2>1 DEF CheckInv
  <2> QED BY <2>2, <2>3 DEF PlanInv
<1>8. CASE Replace
  <2>1. /\ stage' = stage /\ store' \in Stores /\ changes' = changes + 1
        /\ UNCHANGED <<template, ctx, bindings, snaps, checked>>
    BY <1>8 DEF Replace
  <2>2. changes' # 0 /\ changes' \in Nat
    BY <1>1, <2>1 DEF TInv
  <2>3. TInv' /\ ParseInv' /\ BoundInv'
    BY <1>1, <2>1, <2>2 DEF TInv, ParseInv, BoundInv
  <2>4. CheckInv'
    BY <1>1, <2>1, <2>2 DEF CheckInv
  <2> QED BY <2>3, <2>4 DEF PlanInv
<1>9. CASE UNCHANGED vars
  BY <1>1, <1>9 DEF vars, PlanInv, TInv, ParseInv, BoundInv, CheckInv
<1> QED BY <1>2, <1>3, <1>4, <1>5, <1>6, <1>7, <1>8, <1>9 DEF Next

-----------------------------------------------------------------------------
(* Who is bound to a node. *)

LEMMA Least ==
  ASSUME NEW S, S \subseteq Nat, S # {}
  PROVE  \E m \in S : \A j \in S : m <= j
<1>1. PICK m \in S : \A j \in S : ~(<<j, m>> \in OpToRel(<, Nat))
  BY NatLessThanWellFounded, WFMin
<1>2. ASSUME NEW j \in S PROVE m <= j
  <2>1. j \in Nat /\ m \in Nat
    OBVIOUS
  <2>2. j < m => <<j, m>> \in OpToRel(<, Nat)
    BY <2>1, Zenon DEF OpToRel
  <2>3. ~(j < m)
    BY <1>1, <2>2, Zenon
  <2> QED BY <2>1, <2>3
<1> QED BY <1>2

LEMMA ScoreBound ==
  ASSUME NEW m \in Manifest
  PROVE  Score(m) \in Nat /\ Score(m) <= 2050
<1>1. m.cost \in Nat /\ m.p50 \in Nat
  BY DEF Manifest
<1>2. m.p50 \div 5 \in Nat
  BY <1>1
<1>3. PICK a, b, c : /\ a = AtLeast0(1000 - m.cost) /\ b = AtLeast0(1000 - m.p50 \div 5)
                     /\ c = IF m.kind \in {"local-model", "a2a-agent"} THEN 50 ELSE 0
  OBVIOUS
<1>4. a \in 0..1000 /\ b \in 0..1000 /\ c \in 0..50
  BY <1>1, <1>2, <1>3, SMTT(30) DEF AtLeast0
<1>5. Score(m) = a + b + c
  BY <1>3 DEF Score
<1> QED BY <1>4, <1>5

\* What may be in a store: numbered manifests.
IsStore(s) == DOMAIN s \subseteq Nat \ {NoCap} /\ s \in [DOMAIN s -> Manifest]

LEMMA DefaultsAreStore == IsStore(DefaultManifests)
  BY DEF IsStore, DefaultManifests, Manifest, Kinds, EffectKinds, Agent, Local, PublicModel, Sink, Tool, NoCap

LEMMA ResolverStoresAre == \A s \in ResolverStores : IsStore(s)
  BY DefaultsAreStore, PlanningAssumption DEF ResolverStores, ResolverStore, IsStore

\* The sorted list has a first element.
LEMMA FirstExists ==
  ASSUME NEW s, IsStore(s), NEW A, A \subseteq DOMAIN s, A # {}
  PROVE  \E c \in A : \A d \in A \ {c} : Before(c, d, s)
<1>1. \A c \in A : c \in Nat /\ Score(s[c]) \in Nat /\ Score(s[c]) <= 2050
  BY ScoreBound DEF IsStore
<1> DEFINE Gap(c) == 2050 - Score(s[c])
<1>2. PICK g \in {Gap(c) : c \in A} : \A h \in {Gap(c) : c \in A} : g <= h
  <2>1. {Gap(c) : c \in A} \subseteq Nat /\ {Gap(c) : c \in A} # {}
    BY <1>1
  <2> HIDE DEF Gap
  <2> QED BY <2>1, Least
<1> DEFINE B == {c \in A : Gap(c) = g}
<1>3. PICK c \in B : \A d \in B : c <= d
  <2>1. B \subseteq Nat /\ B # {}
    BY <1>1
  <2> HIDE DEF B
  <2> QED BY <2>1, Least
<1>4. ASSUME NEW d \in A \ {c} PROVE Before(c, d, s)
  <2>1. Gap(c) = g /\ g <= Gap(d) /\ c \in A
    BY <1>2, <1>3
  <2>2. Score(s[d]) <= Score(s[c])
    <3>1. PICK x \in Nat, y \in Nat : x = Score(s[c]) /\ y = Score(s[d])
      BY <1>1, <2>1
    <3> QED BY <2>1, <3>1
  <2>3. Score(s[d]) = Score(s[c]) => c < d
    <3> SUFFICES ASSUME Score(s[d]) = Score(s[c]) PROVE c < d
      OBVIOUS
    <3>1. d \in B
      BY <2>1
    <3> QED BY <1>1, <1>3, <3>1
  <2> QED BY <1>1, <2>1, <2>2, <2>3 DEF Before
<1> QED BY <1>3, <1>4

\* route() takes the best that is allowed, or the node's fallback.
LEMMA RouteTakes ==
  ASSUME NEW s, IsStore(s), NEW n, NEW c
  PROVE  /\ Allowed(n, s, c) # {} => /\ Route(n, s, c) \in Allowed(n, s, c)
                                     /\ \A d \in Allowed(n, s, c) : Score(s[d]) <= Score(s[Route(n, s, c)])
         /\ Allowed(n, s, c) = {} => Route(n, s, c) \in {n.fallback, NoCap}
         /\ Route(n, s, c) # NoCap => Route(n, s, c) \in DOMAIN s
<1>1. Allowed(n, s, c) \subseteq DOMAIN s
  BY DEF Allowed, Eligible
<1>2. CASE Allowed(n, s, c) = {}
  BY <1>2 DEF Route
<1>3. CASE Allowed(n, s, c) # {}
  <2> DEFINE A == Allowed(n, s, c)
             r == Route(n, s, c)
  <2>1. r = CHOOSE x \in A : \A d \in A \ {x} : Before(x, d, s)
    BY <1>3 DEF Route
  <2>2. r \in A /\ \A d \in A \ {r} : Before(r, d, s)
    <3> HIDE DEF A, r
    <3> QED BY <1>1, <1>3, <2>1, FirstExists DEF A
  <2>3. ASSUME NEW d \in A PROVE Score(s[d]) <= Score(s[r])
    <3>1. Score(s[d]) \in Nat /\ Score(s[r]) \in Nat
      BY <1>1, <2>2, ScoreBound DEF IsStore
    <3> QED BY <2>2, <3>1 DEF Before
  <2> QED BY <1>1, <1>3, <2>2, <2>3
<1> QED BY <1>2, <1>3

\* The rules deny exactly what is not permitted; the eligible set has looked at kind and effects.
LEMMA DecideIs ==
  ASSUME NEW n \in Node, NEW m \in Manifest, NEW c \in Context
  PROVE  Decide(n, m, c) <=>
            /\ m.kind = "public-model" => c.label.class < IF n.research THEN Restricted ELSE Internal
            /\ m.kind \in n.kinds /\ m.effects \subseteq n.effects
            /\ c.label.residency \in {"local", "public", c.region} /\ c.budget >= 0
<1> DEFINE r1 == c.label.class = Restricted /\ IsPublic(m)
           r2 == c.label.class = Internal /\ IsPublic(m) /\ ~n.research
           r3 == m.kind \notin n.kinds
           r4 == ~(m.effects \subseteq n.effects)
           r5 == c.label.residency \notin {"local", "public", c.region}
           r6 == c.budget < 0
<1>1. DenyRules(n, m, c) = <<r1, r2, r3, r4, r5, r6>>
  BY DEF DenyRules
<1>2. Decide(n, m, c) <=> ~r1 /\ ~r2 /\ ~r3 /\ ~r4 /\ ~r5 /\ ~r6
  <2> HIDE DEF r1, r2, r3, r4, r5, r6
  <2>1. PICK q : q = <<r1, r2, r3, r4, r5, r6>>
    OBVIOUS
  <2>2. Len(q) = 6 /\ 1..6 = {1, 2, 3, 4, 5, 6}
    BY <2>1
  <2>3. /\ q[1] = r1 /\ q[2] = r2 /\ q[3] = r3 /\ q[4] = r4 /\ q[5] = r5 /\ q[6] = r6
    BY <2>1
  <2>4. Decide(n, m, c) <=> \A i \in {1, 2, 3, 4, 5, 6} : ~q[i]
    BY <1>1, <2>1, <2>2, Zenon DEF Decide
  <2> QED BY <2>3, <2>4, Zenon
<1>3. c.label.class \in 0..3 /\ n.research \in BOOLEAN /\ c.budget \in Int
  BY DEF Node, Context, Label, Public, Restricted
<1>4. (~r1 /\ ~r2) <=> (m.kind = "public-model" => c.label.class < IF n.research THEN Restricted ELSE Internal)
  BY <1>3 DEF IsPublic, Restricted, Internal
<1>5. ~r6 <=> c.budget >= 0
  BY <1>3
<1> QED BY <1>2, <1>4, <1>5

\* What a node is bound to, and that it is the best if nothing better came since.
LEMMA BindingIs ==
  ASSUME NEW t \in Templates, NEW s \in ResolverStores, NEW c \in Contexts, NEW b, NEW m,
         Resolved(t, s, c, b, m), NEW n \in Nodes(t)
  PROVE  /\ DOMAIN b = Nodes(t)
         /\ IsHuman(t, n) => b[n] = Human
         /\ ~IsHuman(t, n) => /\ b[n] \in DOMAIN s /\ b[n] # Human /\ m[n] = s[b[n]]
                              /\ b[n] = Route(t.nodes[n], s, c)
<1>1. n \notin Infeasible(t, s, c) /\ n \in DOMAIN Resolution(t, s, c)
  BY DEF Resolved, Resolution
<1>2. IsStore(s)
  BY ResolverStoresAre
<1>3. b[n] = Resolution(t, s, c)[n].cap /\ m[n] = Resolution(t, s, c)[n].snap /\ DOMAIN b = Nodes(t)
  BY DEF Resolved
<1>4. CASE IsHuman(t, n)
  BY <1>1, <1>3, <1>4 DEF Resolution
<1>5. CASE ~IsHuman(t, n)
  <2>1. b[n] = Route(t.nodes[n], s, c) /\ m[n] = s[b[n]]
    BY <1>1, <1>3, <1>5 DEF Resolution
  <2>2. b[n] # NoCap
    BY <1>1, <1>5, <2>1 DEF Infeasible
  <2>3. b[n] \in DOMAIN s
    BY <1>2, <2>1, <2>2, RouteTakes
  <2>4. b[n] # Human
    BY <1>2, <2>3 DEF IsStore, Human
  <2> QED BY <1>3, <1>5, <2>1, <2>3, <2>4
<1> QED BY <1>4, <1>5

\* resolve, amend, compile, check and sign: whatever happens to the registry in between, what is
\* signed is what was checked and what the policy permits, or the node's own fallback; and it is
\* the router's best while the registry stays (Resolver, Router.route, BindingClosureChecker.check,
\* PlanSigner.sign).
THEOREM SignedWasAllowedHolds == Spec => []SignedWasAllowed
<1>1. PlanInv => SignedWasAllowed
  <2> SUFFICES ASSUME PlanInv, stage = "signed", NEW n \in Nodes(template)
               PROVE  /\ n \in DOMAIN bindings
                      /\ "human" \in template.nodes[n].kinds => bindings[n] = Human
                      /\ "human" \notin template.nodes[n].kinds =>
                            /\ bindings[n] \in DOMAIN checked
                            /\ snaps[n] = checked[bindings[n]]
                            /\ snaps[n].effects \subseteq template.nodes[n].effects
                            /\ \/ Permitted(template.nodes[n], snaps[n])
                               \/ bindings[n] = template.nodes[n].fallback
                            /\ changes = 0 => BestFor(template.nodes[n], bindings[n])
    BY DEF SignedWasAllowed
  <2> DEFINE N == template.nodes[n]
  <2>1. template \in Templates /\ ctx \in Contexts /\ N \in Node /\ ctx \in Context
    BY PlanningAssumption DEF PlanInv, TInv, Nodes
  <2>2. PICK s \in ResolverStores : /\ Resolved(template, s, ctx, bindings, snaps)
                                    /\ changes = 0 => s = ResolverStore(store)
    BY DEF PlanInv, BoundInv, Bound
  <2>3. /\ n \in DOMAIN bindings /\ (IsHuman(template, n) => bindings[n] = Human)
        /\ ~IsHuman(template, n) => /\ bindings[n] \in DOMAIN s /\ bindings[n] # Human
                                    /\ snaps[n] = s[bindings[n]]
                                    /\ bindings[n] = Route(N, s, ctx)
    BY <2>1, <2>2, BindingIs
  <2>4. SUFFICES ASSUME ~IsHuman(template, n)
        PROVE  /\ bindings[n] \in DOMAIN checked /\ snaps[n] = checked[bindings[n]]
               /\ snaps[n].effects \subseteq N.effects
               /\ Permitted(N, snaps[n]) \/ bindings[n] = N.fallback
               /\ changes = 0 => BestFor(N, bindings[n])
    BY <2>3 DEF IsHuman
  <2>5. IsStore(s) /\ checked \in Stores /\ IsStore(checked) /\ (changes = 0 => checked = store)
    BY ResolverStoresAre, PlanningAssumption DEF PlanInv, CheckInv, Compiled, IsStore
  <2>6. bindings[n] \in DOMAIN checked /\ snaps[n] = checked[bindings[n]]
    <3>1. n \notin ClosureErrors(template, bindings, snaps, checked, Human)
      BY DEF PlanInv, CheckInv, Closed
    <3> QED BY <2>3, <2>4, <3>1 DEF ClosureErrors
  <2>7. snaps[n].effects \subseteq N.effects
    <3>1. EffectErrors(template, bindings, checked) = {}
      BY DEF PlanInv, CheckInv, Compiled, CompileErrors
    <3>2. Known(bindings, n, checked)
      BY <2>3, <2>6 DEF Known
    <3> QED BY <2>6, <3>1, <3>2 DEF EffectErrors
  <2>8. \A x \in DOMAIN s : Decide(N, s[x], ctx) <=> Permitted(N, s[x])
    <3> TAKE x \in DOMAIN s
    <3>1. s[x] \in Manifest
      BY <2>5 DEF IsStore
    <3> QED BY <2>1, <3>1, DecideIs DEF Permitted
  <2>9. Permitted(N, snaps[n]) \/ bindings[n] = N.fallback
    <3>1. CASE Allowed(N, s, ctx) = {}
      BY <2>3, <2>4, <2>5, <3>1, RouteTakes DEF IsStore
    <3>2. CASE Allowed(N, s, ctx) # {}
      BY <2>3, <2>4, <2>5, <2>8, <3>2, RouteTakes DEF Allowed, Eligible
    <3> QED BY <3>1, <3>2
  <2>10. changes = 0 => BestFor(N, bindings[n])
    <3> SUFFICES ASSUME changes = 0 PROVE BestFor(N, bindings[n])
      OBVIOUS
    <3>1. s = checked
      BY <2>2, <2>5, <2>6 DEF ResolverStore
    <3>2. Cardinality(N.kinds) \in Nat /\ Cardinality(N.kinds) # 0
      <4>1. N.kinds # {} /\ N.kinds \subseteq Kinds
        BY <2>1, <2>2 DEF Resolved, ResolveRaises, Node
      <4>2. IsFiniteSet(Kinds)
        <5>1. IsFiniteSet({})
          BY FS_EmptySet
        <5>2. IsFiniteSet((((((({} \cup {"local-model"}) \cup {"public-model"}) \cup {"a2a-agent"})
                               \cup {"tool"}) \cup {"human"}) \cup {"sink"}))
          BY <5>1, FS_AddElement
        <5>3. Kinds = (((((({} \cup {"local-model"}) \cup {"public-model"}) \cup {"a2a-agent"})
                               \cup {"tool"}) \cup {"human"}) \cup {"sink"})
          BY DEF Kinds
        <5> QED BY <5>2, <5>3
      <4> QED BY <4>1, <4>2, FS_Subset, FS_EmptySet, FS_CardinalityType
    <3>3. Candidates(N) = Allowed(N, s, ctx)
      <4>1. \A x \in DOMAIN s : x \in Candidates(N) <=> x \in Allowed(N, s, ctx)
        <5> TAKE x \in DOMAIN s
        <5>1. x \in Allowed(N, s, ctx) <=>
                 /\ s[x].kind \in N.kinds /\ ~(x = N.fallback /\ Cardinality(N.kinds) > 1)
                 /\ s[x].effects \subseteq N.effects /\ Permitted(N, s[x])
          BY <2>8 DEF Allowed, Eligible
        <5>2. Permitted(N, s[x]) => s[x].kind \in N.kinds /\ s[x].effects \subseteq N.effects
          BY DEF Permitted
        <5>3. ~(x = N.fallback /\ Cardinality(N.kinds) > 1) <=> (Cardinality(N.kinds) = 1 \/ x # N.fallback)
          BY <3>2
        <5>4. x \in Candidates(N) <=> Permitted(N, s[x]) /\ (Cardinality(N.kinds) = 1 \/ x # N.fallback)
          BY <3>1 DEF Candidates
        <5> QED BY <5>1, <5>2, <5>3, <5>4, Zenon
      <4>2. Candidates(N) \subseteq DOMAIN s /\ Allowed(N, s, ctx) \subseteq DOMAIN s
        BY <3>1 DEF Candidates, Allowed, Eligible
      <4> QED BY <4>1, <4>2
    <3>4. CASE Candidates(N) = {}
      <4>1. bindings[n] \in {N.fallback, NoCap} /\ bindings[n] # NoCap
        BY <2>3, <2>4, <2>5, <3>3, <3>4, RouteTakes DEF IsStore
      <4> QED BY <3>4, <4>1 DEF BestFor
    <3>5. CASE Candidates(N) # {}
      <4>1. /\ bindings[n] \in Allowed(N, s, ctx)
            /\ \A d \in Allowed(N, s, ctx) : Score(s[d]) <= Score(s[bindings[n]])
        BY <2>3, <2>4, <2>5, <3>3, <3>5, RouteTakes
      <4> QED BY <3>1, <3>3, <3>5, <4>1 DEF BestFor
    <3> QED BY <3>4, <3>5
  <2> QED BY <2>6, <2>7, <2>9, <2>10
<1> QED BY <1>1, PlanStart, PlanStep, PTL DEF Spec

-----------------------------------------------------------------------------
(* Loops and enumerations. *)

\* The first n states of a loop that starts with x and goes on with F.
Run(S, x, F, n, g) == /\ g \in [0..n -> S] /\ g[0] = x
                      /\ \A k \in 0..(n - 1) : g[k + 1] = F[<<g[k], k>>]

LEMMA RunsAlike ==
  ASSUME NEW S, NEW x \in S, NEW F \in [S \X Nat -> S], NEW n \in Nat,
         NEW g, Run(S, x, F, n, g), NEW h, Run(S, x, F, n + 1, h)
  PROVE  g[n] = h[n]
<1> DEFINE bad == {k \in 0..n : g[k] # h[k]}
<1>1. ASSUME bad # {} PROVE FALSE
  <2>1. bad \subseteq Nat
    OBVIOUS
  <2>2. PICK k \in bad : \A j \in bad : k <= j
    <3> HIDE DEF bad
    <3> QED BY <1>1, <2>1, Least
  <2>3. k # 0
    BY <2>2 DEF Run
  <2>4. k - 1 \in 0..(n - 1) /\ k - 1 \in 0..((n + 1) - 1) /\ k - 1 \in 0..n /\ (k - 1) + 1 = k /\ ~(k <= k - 1)
    BY <2>2, <2>3
  <2>5. g[k - 1] = h[k - 1]
    BY <2>2, <2>4
  <2>6. g[k] = F[<<g[k - 1], k - 1>>] /\ h[k] = F[<<h[k - 1], k - 1>>]
    BY <2>4 DEF Run
  <2> QED BY <2>2, <2>5, <2>6
<1> QED BY <1>1

LEMMA RunsExist ==
  ASSUME NEW S, NEW x \in S, NEW F \in [S \X Nat -> S], NEW n \in Nat
  PROVE  \E g : Run(S, x, F, n, g)
<1> DEFINE bad == {m \in Nat : ~\E g : Run(S, x, F, m, g)}
<1>1. ASSUME bad # {} PROVE FALSE
  <2>1. bad \subseteq Nat
    OBVIOUS
  <2>2. PICK m \in bad : \A j \in bad : m <= j
    <3> HIDE DEF bad
    <3> QED BY <1>1, <2>1, Least
  <2>3. CASE m = 0
    <3>1. Run(S, x, F, 0, [i \in 0..0 |-> x])
      BY DEF Run
    <3> QED BY <2>2, <2>3, <3>1
  <2>4. CASE m # 0
    <3>1. m - 1 \in Nat /\ m - 1 \notin bad
      BY <2>2, <2>4
    <3>2. PICK g : Run(S, x, F, m - 1, g)
      BY <3>1
    <3> DEFINE h == [i \in 0..m |-> IF i = m THEN F[<<g[m - 1], m - 1>>] ELSE g[i]]
    <3>3. /\ m \in Nat /\ g \in [0..(m - 1) -> S] /\ g[0] = x
          /\ \A k \in 0..((m - 1) - 1) : g[k + 1] = F[<<g[k], k>>]
      BY <2>2, <3>2 DEF Run
    <3>4. F[<<g[m - 1], m - 1>>] \in S
      BY <3>1, <3>3
    <3>5. h \in [0..m -> S]
      BY <3>3, <3>4
    <3>6. h[0] = x
      BY <2>4, <3>3
    <3>7. ASSUME NEW k \in 0..(m - 1) PROVE h[k + 1] = F[<<h[k], k>>]
      <4>1. k \in 0..m /\ k + 1 \in 0..m /\ k # m
        BY <3>3
      <4>2. h[k] = g[k]
        BY <4>1
      <4>3. CASE k = m - 1
        BY <3>3, <4>1, <4>2, <4>3
      <4>4. CASE k # m - 1
        <5>1. k \in 0..((m - 1) - 1) /\ k + 1 # m
          BY <3>3, <4>4
        <5> QED BY <3>3, <4>1, <4>2, <5>1
      <4> QED BY <4>3, <4>4
    <3> HIDE DEF h
    <3>8. Run(S, x, F, m, h)
      BY <3>5, <3>6, <3>7 DEF Run
    <3> QED BY <2>2, <3>8
  <2> QED BY <2>3, <2>4
<1> QED BY <1>1

\* Each state of the loop follows from the one before.
Follows(f, F) == \A k \in Nat : f[k + 1] = F[<<f[k], k>>]

\* A loop has states: the recursive function that says so exists.
LEMMA LoopExists ==
  ASSUME NEW S, NEW x \in S, NEW F \in [S \X Nat -> S]
  PROVE  \E f \in [Nat -> S] : f[0] = x /\ Follows(f, F)
<1> DEFINE G(n) == CHOOSE g : Run(S, x, F, n, g)
           f == [n \in Nat |-> G(n)[n]]
<1>1. \A n \in Nat : Run(S, x, F, n, G(n))
  BY RunsExist
<1> HIDE DEF G
<1>2. f \in [Nat -> S]
  BY <1>1 DEF Run
<1>3. f[0] = x
  BY <1>1 DEF Run
<1>4. ASSUME NEW k \in Nat PROVE f[k + 1] = F[<<f[k], k>>]
  <2>1. /\ k + 1 \in Nat /\ k \in 0..((k + 1) - 1) /\ k \in 0..k /\ k <= k + 1
        /\ f[k] = G(k)[k] /\ f[k + 1] = G(k + 1)[k + 1]
    OBVIOUS
  <2>2. G(k + 1)[k + 1] = F[<<G(k + 1)[k], k>>]
    BY <1>1, <2>1 DEF Run
  <2>3. G(k)[k] = G(k + 1)[k]
    <3>1. Run(S, x, F, k, G(k)) /\ Run(S, x, F, k + 1, G(k + 1))
      BY <1>1, <2>1
    <3> QED BY <3>1, RunsAlike, SMTT(30)
  <2> QED BY <2>1, <2>2, <2>3
<1> HIDE DEF f
<1> QED BY <1>2, <1>3, <1>4 DEF Follows

\* Numbers that are all different: there are no more than the set has, and as many are all of it.
LEMMA Fills ==
  ASSUME NEW S, IsFiniteSet(S), NEW n \in Nat, NEW q \in [1..n -> S],
         \A i, j \in 1..n : q[i] = q[j] => i = j
  PROVE  /\ n <= Cardinality(S)
         /\ n = Cardinality(S) => \A x \in S : \E i \in 1..n : q[i] = x
         /\ (\A x \in S : \E i \in 1..n : q[i] = x) => n = Cardinality(S)
<1>1. q \in Injection(1..n, S)
  BY DEF Injection, IsInjective
<1>2. Cardinality(1..n) = n /\ IsFiniteSet(1..n)
  BY FS_Interval
<1>3. n <= Cardinality(S) /\ (n = Cardinality(S) <=> q \in Surjection(1..n, S))
  BY <1>1, <1>2, FS_Injection
<1>4. q \in Surjection(1..n, S) <=> \A x \in S : \E i \in 1..n : q[i] = x
  BY DEF Surjection
<1> QED BY <1>3, <1>4

LEMMA OrderExists ==
  ASSUME NEW S \in SUBSET Nat, IsFiniteSet(S)
  PROVE  \E q \in [1..Cardinality(S) -> S] : \A i, j \in DOMAIN q : i < j => q[i] < q[j]
<1> DEFINE Good(T) == \E q \in [1..Cardinality(T) -> T] : \A i, j \in DOMAIN q : i < j => q[i] < q[j]
           bad == {n \in Nat : \E T \in SUBSET Nat : IsFiniteSet(T) /\ Cardinality(T) = n /\ ~Good(T)}
<1>1. ASSUME bad # {} PROVE FALSE
  <2>1. PICK n \in bad : \A j \in bad : n <= j
    <3>1. bad \subseteq Nat
      OBVIOUS
    <3> HIDE DEF bad
    <3> QED BY <1>1, <3>1, Least
  <2>2. PICK T \in SUBSET Nat : IsFiniteSet(T) /\ Cardinality(T) = n /\ ~Good(T)
    BY <2>1
  <2>3. CASE T = {}
    <3>1. Cardinality(T) = 0
      BY <2>3, FS_EmptySet
    <3>2. [i \in 1..0 |-> 0] \in [1..0 -> T] /\ 1..0 = {}
      OBVIOUS
    <3> QED BY <2>2, <3>1, <3>2
  <2>4. CASE T # {}
    <3>1. PICK x \in T : \A y \in T : x <= y
      BY <2>4, Least
    <3> DEFINE R == T \ {x}
    <3>2. IsFiniteSet(R) /\ Cardinality(R) = n - 1 /\ n \in Nat /\ Cardinality(R) \in Nat
      BY <2>1, <2>2, <3>1, FS_RemoveElement, FS_CardinalityType
    <3>3. Good(R)
      <4>1. n - 1 \notin bad
        BY <2>1, <3>2
      <4> QED BY <3>2, <4>1
    <3>4. PICK r \in [1..(n - 1) -> R] : \A i, j \in DOMAIN r : i < j => r[i] < r[j]
      BY <3>2, <3>3
    <3> DEFINE q == [i \in 1..n |-> IF i = 1 THEN x ELSE r[i - 1]]
    <3>5. \A i \in 1..n : i # 1 => i - 1 \in 1..(n - 1)
      BY <3>2
    <3>6. q \in [1..n -> T]
      BY <3>1, <3>4, <3>5
    <3>7. ASSUME NEW i \in 1..n, NEW j \in 1..n, i < j PROVE q[i] < q[j]
      <4>1. j # 1 /\ j - 1 \in 1..(n - 1) /\ q[j] = r[j - 1]
        BY <3>2, <3>5, <3>7
      <4>2. CASE i = 1
        <5>1. q[j] \in T /\ q[j] # x /\ q[i] = x
          BY <3>4, <4>1, <4>2
        <5>2. x <= q[j] /\ x \in Nat /\ q[j] \in Nat
          BY <3>1, <5>1
        <5> HIDE DEF q
        <5> QED BY <5>1, <5>2
      <4>3. CASE i # 1
        <5>1. i - 1 \in 1..(n - 1) /\ i - 1 < j - 1 /\ q[i] = r[i - 1]
          BY <3>2, <3>5, <3>7, <4>3
        <5>2. r[i - 1] < r[j - 1]
          BY <3>4, <4>1, <5>1
        <5> QED BY <4>1, <5>1, <5>2
      <4> QED BY <4>2, <4>3
    <3> HIDE DEF q
    <3>8. Good(T)
      BY <2>2, <3>6, <3>7
    <3> QED BY <2>2, <3>8
  <2> QED BY <2>3, <2>4
<1>2. Cardinality(S) \in Nat
  BY FS_CardinalityType
<1>3. Good(S)
  <2>1. Cardinality(S) \notin bad
    BY <1>1
  <2> QED BY <1>2, <2>1
<1> QED BY <1>3

LEMMA InOrderIs ==
  ASSUME NEW S \in SUBSET Nat, IsFiniteSet(S)
  PROVE  /\ InOrder(S) \in Seq(S) /\ Len(InOrder(S)) = Cardinality(S) /\ Cardinality(S) \in Nat
         /\ \A i, j \in 1..Len(InOrder(S)) : i < j => InOrder(S)[i] < InOrder(S)[j]
         /\ \A i, j \in 1..Len(InOrder(S)) : InOrder(S)[i] = InOrder(S)[j] => i = j
         /\ \A x \in S : \E i \in 1..Len(InOrder(S)) : InOrder(S)[i] = x
<1>1. PICK q : q = InOrder(S)
  OBVIOUS
<1>2. q \in [1..Cardinality(S) -> S] /\ \A i, j \in DOMAIN q : i < j => q[i] < q[j]
  BY <1>1, OrderExists DEF InOrder
<1>3. PICK n \in Nat : n = Cardinality(S)
  BY FS_CardinalityType
<1>4. q \in Seq(S) /\ Len(q) = n /\ DOMAIN q = 1..n
  BY <1>2, <1>3
<1>5. ASSUME NEW i \in 1..n, NEW j \in 1..n, q[i] = q[j] PROVE i = j
  <2>1. q[i] \in Nat /\ q[j] \in Nat
    BY <1>2, <1>3
  <2>2. ~(i < j) /\ ~(j < i)
    BY <1>2, <1>4, <1>5, <2>1
  <2> QED BY <2>2
<1>6. \A x \in S : \E i \in 1..n : q[i] = x
  BY <1>2, <1>3, <1>5, Fills
<1> QED BY <1>1, <1>2, <1>3, <1>4, <1>5, <1>6

-----------------------------------------------------------------------------
(* topological_order *)

\* Every edge joins two nodes of the template.
Joined(t) == \A e \in t.edges : {e[1], e[2]} \subseteq Nodes(t)

Elems(q) == {q[i] : i \in 1..Len(q)}
Once(q) == \A i, j \in 1..Len(q) : q[i] = q[j] => i = j

\* The loop's invariant: what is taken and what waits are different nodes, each degree counts the
\* edges that are left, a node is taken or waits exactly if none is, and nothing is taken before
\* what leads to it.
Queues(t) == [queue : Seq(Nodes(t)), deg : [Nodes(t) -> Int], out : Seq(Nodes(t))]
QueueInv(t, s) ==
    /\ s \in Queues(t)
    /\ Once(s.out) /\ Once(s.queue) /\ Elems(s.out) \cap Elems(s.queue) = {}
    /\ \A n \in Nodes(t) : s.deg[n] = Cardinality(Pred(t, n) \ Elems(s.out))
    /\ \A n \in Nodes(t) : n \in Elems(s.out) \cup Elems(s.queue) <=> Pred(t, n) \subseteq Elems(s.out)
    /\ \A i \in 1..Len(s.out) : \A p \in Pred(t, s.out[i]) : \E j \in 1..(i - 1) : s.out[j] = p

LEMMA NodesAre ==
  ASSUME NEW t \in Templates
  PROVE  /\ Nodes(t) = 1..Len(t.nodes) /\ Len(t.nodes) \in Nat /\ Nodes(t) \subseteq Nat
         /\ IsFiniteSet(Nodes(t)) /\ Cardinality(Nodes(t)) = Len(t.nodes)
         /\ \A n \in Nodes(t) : t.nodes[n] \in Node
<1>1. t.nodes \in Seq(Node)
  BY PlanningAssumption
<1>2. Nodes(t) = 1..Len(t.nodes) /\ Len(t.nodes) \in Nat /\ \A n \in Nodes(t) : t.nodes[n] \in Node
  BY <1>1 DEF Nodes
<1> QED BY <1>2, FS_Interval

LEMMA PredsAre ==
  ASSUME NEW t \in Templates, Joined(t), NEW n
  PROVE  /\ Pred(t, n) \subseteq Nodes(t) /\ Succ(t, n) \subseteq Nodes(t)
         /\ IsFiniteSet(Pred(t, n)) /\ IsFiniteSet(Succ(t, n))
         /\ \A m : m \in Succ(t, n) <=> n \in Pred(t, m)
<1>1. Pred(t, n) \subseteq Nodes(t) /\ Succ(t, n) \subseteq Nodes(t)
  BY DEF Joined, Pred, Succ
<1>2. \A m : m \in Succ(t, n) <=> n \in Pred(t, m)
  BY DEF Pred, Succ
<1> QED BY <1>1, <1>2, NodesAre, FS_Subset

LEMMA TailOnce ==
  ASSUME NEW N, NEW q \in Seq(N), q # <<>>, Once(q), NEW r \in Seq(N), Once(r), Elems(q) \cap Elems(r) = {}
  PROVE  /\ Head(q) \in Elems(q) /\ Head(q) \in N
         /\ Tail(q) \o r \in Seq(N) /\ Once(Tail(q) \o r)
         /\ Elems(Tail(q) \o r) = (Elems(q) \ {Head(q)}) \cup Elems(r)
<1>1. PICK n \in Nat, m \in Nat : n + 1 = Len(q) /\ m = Len(r)
  <2>1. Len(q) \in Nat /\ Len(q) # 0 /\ Len(r) \in Nat
    OBVIOUS
  <2>2. Len(q) - 1 \in Nat /\ (Len(q) - 1) + 1 = Len(q)
    BY <2>1
  <2> QED BY <2>1, <2>2
<1>2. PICK z : z = Tail(q)
  OBVIOUS
<1>3. z \in Seq(N) /\ Len(z) = n /\ \A i \in 1..n : z[i] = q[i + 1]
  BY <1>1, <1>2
<1>4. PICK w : w = z \o r
  OBVIOUS
<1>5. w \in Seq(N) /\ Len(w) = n + m /\ \A i \in 1..(n + m) : w[i] = IF i <= n THEN q[i + 1] ELSE r[i - n]
  <2>1. /\ z \o r \in Seq(N) /\ Len(z \o r) = Len(z) + Len(r)
        /\ \A i \in 1..(Len(z) + Len(r)) : (z \o r)[i] = IF i <= Len(z) THEN z[i] ELSE r[i - Len(z)]
    BY <1>3, ConcatProperties
  <2>2. \A i \in 1..(n + m) : i <= n => i \in 1..n
    OBVIOUS
  <2> QED BY <1>1, <1>3, <1>4, <2>1, <2>2
<1>6. Head(q) = q[1] /\ 1 \in 1..(n + 1) /\ q[1] \in N
  BY <1>1
<1>7. Elems(q) = {q[i] : i \in 1..(n + 1)} /\ Elems(r) = {r[i] : i \in 1..m} /\ Elems(w) = {w[i] : i \in 1..(n + m)}
  BY <1>1, <1>5 DEF Elems
<1>8. \A i, j \in 1..(n + 1) : q[i] = q[j] => i = j
  BY <1>1 DEF Once
<1>9. \A i, j \in 1..m : r[i] = r[j] => i = j
  BY <1>1 DEF Once
<1>10. ASSUME NEW i \in 1..(n + m), NEW j \in 1..(n + m), w[i] = w[j] PROVE i = j
  <2>1. CASE i <= n /\ j <= n
    <3>1. i + 1 \in 1..(n + 1) /\ j + 1 \in 1..(n + 1) /\ q[i + 1] = q[j + 1]
      BY <1>5, <1>10, <2>1
    <3> QED BY <1>8, <3>1
  <2>2. CASE ~(i <= n) /\ ~(j <= n)
    <3>1. i - n \in 1..m /\ j - n \in 1..m /\ r[i - n] = r[j - n]
      BY <1>5, <1>10, <2>2
    <3>2. i - n = j - n
      BY <1>9, <3>1
    <3> QED BY <3>2
  <2>3. CASE i <= n /\ ~(j <= n)
    <3>1. i + 1 \in 1..(n + 1) /\ j - n \in 1..m /\ q[i + 1] = r[j - n]
      BY <1>5, <1>10, <2>3
    <3> QED BY <1>7, <3>1
  <2>4. CASE ~(i <= n) /\ j <= n
    <3>1. j + 1 \in 1..(n + 1) /\ i - n \in 1..m /\ q[j + 1] = r[i - n]
      BY <1>5, <1>10, <2>4
    <3> QED BY <1>7, <3>1
  <2> QED BY <2>1, <2>2, <2>3, <2>4
<1>11. Elems(w) \subseteq (Elems(q) \ {q[1]}) \cup Elems(r)
  <2> SUFFICES ASSUME NEW i \in 1..(n + m) PROVE w[i] \in (Elems(q) \ {q[1]}) \cup Elems(r)
    BY <1>7
  <2>1. CASE i <= n
    <3>1. i + 1 \in 1..(n + 1) /\ i + 1 # 1 /\ w[i] = q[i + 1]
      BY <1>5, <2>1
    <3> QED BY <1>6, <1>7, <1>8, <3>1
  <2>2. CASE ~(i <= n)
    <3>1. i - n \in 1..m /\ w[i] = r[i - n]
      BY <1>5, <2>2
    <3> QED BY <1>7, <3>1
  <2> QED BY <2>1, <2>2
<1>12. (Elems(q) \ {q[1]}) \cup Elems(r) \subseteq Elems(w)
  <2>1. ASSUME NEW i \in 1..(n + 1), q[i] # q[1] PROVE q[i] \in Elems(w)
    <3>1. i - 1 \in 1..(n + m) /\ i - 1 <= n /\ (i - 1) + 1 = i
      BY <2>1
    <3>2. w[i - 1] = q[i]
      BY <1>5, <3>1
    <3> QED BY <1>7, <3>1, <3>2
  <2>2. ASSUME NEW i \in 1..m PROVE r[i] \in Elems(w)
    <3>1. n + i \in 1..(n + m) /\ ~(n + i <= n) /\ (n + i) - n = i
      OBVIOUS
    <3>2. w[n + i] = r[i]
      BY <1>5, <3>1
    <3> QED BY <1>7, <3>1, <3>2
  <2> QED BY <1>7, <2>1, <2>2
<1>13. Once(w)
  BY <1>5, <1>10 DEF Once
<1>14. w = Tail(q) \o r
  BY <1>2, <1>4
<1>15. Elems(w) = (Elems(q) \ {q[1]}) \cup Elems(r)
  BY <1>11, <1>12
<1> QED BY <1>5, <1>6, <1>7, <1>13, <1>14, <1>15, Zenon

LEMMA AppendOnce ==
  ASSUME NEW N, NEW o \in Seq(N), Once(o), NEW u \in N, u \notin Elems(o)
  PROVE  /\ Append(o, u) \in Seq(N) /\ Len(Append(o, u)) = Len(o) + 1 /\ Len(o) \in Nat
         /\ \A i \in 1..Len(o) : Append(o, u)[i] = o[i]
         /\ Append(o, u)[Len(o) + 1] = u
         /\ Once(Append(o, u)) /\ Elems(Append(o, u)) = Elems(o) \cup {u}
<1>1. PICK n \in Nat : n = Len(o)
  OBVIOUS
<1>2. PICK w : w = Append(o, u)
  OBVIOUS
<1>3. w \in Seq(N) /\ Len(w) = n + 1 /\ w[n + 1] = u /\ \A i \in 1..n : w[i] = o[i]
  BY <1>1, <1>2
<1>4. Elems(o) = {o[i] : i \in 1..n} /\ Elems(w) = {w[i] : i \in 1..(n + 1)}
  BY <1>1, <1>3 DEF Elems
<1>5. \A i \in 1..(n + 1) : i \in 1..n \/ i = n + 1
  OBVIOUS
<1>6. \A i \in 1..n : i \in 1..(n + 1)
  OBVIOUS
<1>7. Elems(w) = Elems(o) \cup {u}
  <2>1. \A i \in 1..(n + 1) : w[i] \in Elems(o) \cup {u}
    BY <1>3, <1>4, <1>5
  <2>2. \A i \in 1..n : o[i] \in Elems(w)
    BY <1>3, <1>4, <1>6
  <2>3. u \in Elems(w)
    <3>1. n + 1 \in 1..(n + 1)
      OBVIOUS
    <3> QED BY <1>3, <1>4, <3>1
  <2> QED BY <1>4, <2>1, <2>2, <2>3
<1>8. Once(w)
  <2> SUFFICES ASSUME NEW i \in 1..(n + 1), NEW j \in 1..(n + 1), w[i] = w[j] PROVE i = j
    BY <1>3 DEF Once
  <2>1. \A k \in 1..n : w[k] # u
    BY <1>3, <1>4
  <2>2. CASE i \in 1..n /\ j \in 1..n
    BY <1>1, <1>3, <2>2 DEF Once
  <2> QED BY <1>3, <1>5, <2>1, <2>2
<1> QED BY <1>1, <1>2, <1>3, <1>7, <1>8

LEMMA EnumOnce ==
  ASSUME NEW N, N \subseteq Nat, IsFiniteSet(N), NEW S, S \subseteq N
  PROVE  InOrder(S) \in Seq(N) /\ Once(InOrder(S)) /\ Elems(InOrder(S)) = S
<1>1. IsFiniteSet(S) /\ S \in SUBSET Nat
  BY FS_Subset
<1>2. PICK q : q = InOrder(S)
  OBVIOUS
<1>3. /\ q \in Seq(S) /\ (\A i, j \in 1..Len(q) : q[i] = q[j] => i = j)
      /\ \A x \in S : \E i \in 1..Len(q) : q[i] = x
  BY <1>1, <1>2, InOrderIs
<1>4. PICK n \in Nat : n = Len(q)
  BY <1>3
<1>5. \A i \in 1..n : q[i] \in S
  BY <1>3, <1>4
<1>6. q \in [1..n -> N]
  <2>1. q \in [1..n -> S]
    BY <1>3, <1>4
  <2> QED BY <2>1
<1>7. q \in Seq(N)
  BY <1>6
<1>8. Once(q)
  BY <1>3 DEF Once
<1>9. Elems(q) = S
  <2>1. Elems(q) = {q[i] : i \in 1..n}
    BY <1>4 DEF Elems
  <2>2. \A x \in S : x \in {q[i] : i \in 1..n}
    BY <1>3, <1>4
  <2> QED BY <1>5, <2>1, <2>2
<1> QED BY <1>2, <1>7, <1>8, <1>9

Started(t) == [queue |-> InOrder({n \in Nodes(t) : Degrees(t)[n] = 0}), deg |-> Degrees(t), out |-> <<>>]

LEMMA QueueStart ==
  ASSUME NEW t \in Templates, Joined(t)
  PROVE  QueueInv(t, Started(t))
<1> DEFINE N == Nodes(t)
           S == {n \in N : Degrees(t)[n] = 0}
<1>1. N \subseteq Nat /\ IsFiniteSet(N)
  BY NodesAre
<1>2. \A n \in N : Degrees(t)[n] = Cardinality(Pred(t, n)) /\ IsFiniteSet(Pred(t, n)) /\ Cardinality(Pred(t, n)) \in Int
  BY PredsAre, FS_CardinalityType DEF Degrees
<1>3. PICK q : q = InOrder(S)
  OBVIOUS
<1>4. q \in Seq(N) /\ Once(q) /\ Elems(q) = S
  <2> HIDE DEF S
  <2>1. S \subseteq N
    BY DEF S
  <2> QED BY <1>1, <1>3, <2>1, EnumOnce
<1>5. Degrees(t) \in [N -> Int]
  BY <1>2 DEF Degrees
<1>6. Elems(<<>>) = {} /\ Once(<<>>) /\ <<>> \in Seq(N) /\ 1..Len(<<>>) = {}
  BY DEF Elems, Once
<1>7. \A n \in N : n \in S <=> Pred(t, n) \subseteq {}
  BY <1>2, FS_EmptySet
<1>8. Started(t) = [queue |-> q, deg |-> Degrees(t), out |-> <<>>]
  BY <1>3 DEF Started
<1>9. \A n \in N : Pred(t, n) \ {} = Pred(t, n)
  OBVIOUS
<1> HIDE DEF N, S
<1> PICK x : x = [queue |-> q, deg |-> Degrees(t), out |-> <<>>]
  OBVIOUS
<1>10. x.queue = q /\ x.deg = Degrees(t) /\ x.out = <<>> /\ x \in Queues(t)
  BY <1>4, <1>5, <1>6 DEF Queues, N
<1>11. Once(x.out) /\ Once(x.queue) /\ Elems(x.out) \cap Elems(x.queue) = {}
  BY <1>4, <1>6, <1>10
<1>12. \A n \in N : x.deg[n] = Cardinality(Pred(t, n) \ Elems(x.out))
  BY <1>2, <1>6, <1>9, <1>10
<1>13. \A n \in N : n \in Elems(x.out) \cup Elems(x.queue) <=> Pred(t, n) \subseteq Elems(x.out)
  BY <1>4, <1>6, <1>7, <1>10
<1>14. \A i \in 1..Len(x.out) : \A p \in Pred(t, x.out[i]) : \E j \in 1..(i - 1) : x.out[j] = p
  BY <1>6, <1>10
<1>15. QueueInv(t, x)
  BY <1>10, <1>11, <1>12, <1>13, <1>14, Zenon DEF QueueInv, N
<1> QED BY <1>8, <1>15

LEMMA QueueStep ==
  ASSUME NEW t \in Templates, Joined(t), NEW s, QueueInv(t, s), s.queue # <<>>
  PROVE  QueueInv(t, Take(t, s)) /\ Len(Take(t, s).out) = Len(s.out) + 1
<1> DEFINE N == Nodes(t)
           Out == Elems(s.out)
           Wait == Elems(s.queue)
<1>1. /\ s.queue \in Seq(N) /\ s.out \in Seq(N) /\ s.deg \in [N -> Int]
      /\ Once(s.out) /\ Once(s.queue) /\ Out \cap Wait = {}
      /\ \A n \in N : s.deg[n] = Cardinality(Pred(t, n) \ Out)
      /\ \A n \in N : n \in Out \cup Wait <=> Pred(t, n) \subseteq Out
      /\ \A i \in 1..Len(s.out) : \A p \in Pred(t, s.out[i]) : \E j \in 1..(i - 1) : s.out[j] = p
  BY DEF QueueInv, Queues
<1>2. PICK u : u = Head(s.queue)
  OBVIOUS
<1>3. PICK less : less = [n \in N |-> IF n \in Succ(t, u) THEN s.deg[n] - 1 ELSE s.deg[n]]
  OBVIOUS
<1>4. PICK free : free = {n \in Succ(t, u) : less[n] = 0}
  OBVIOUS
<1>5. PICK r : r = InOrder(free)
  OBVIOUS
<1>6. PICK q, o : q = Tail(s.queue) \o r /\ o = Append(s.out, u)
  OBVIOUS
<1>7. Take(t, s) = [queue |-> q, deg |-> less, out |-> o]
  BY <1>2, <1>3, <1>4, <1>5, <1>6 DEF Take
<1>8. N \subseteq Nat /\ IsFiniteSet(N) /\ Succ(t, u) \subseteq N
  BY NodesAre, PredsAre
<1>9. \A n \in N : /\ n \in Succ(t, u) <=> u \in Pred(t, n)
                   /\ IsFiniteSet(Pred(t, n)) /\ Pred(t, n) \subseteq N
  BY PredsAre
<1>10. u \in Wait /\ u \in N
  BY <1>1, <1>2, TailOnce
<1>11. u \notin Out /\ Pred(t, u) \subseteq Out
  BY <1>1, <1>10
<1>12. ASSUME NEW n \in N
       PROVE  less[n] = Cardinality(Pred(t, n) \ (Out \cup {u})) /\ less[n] \in Int
                /\ (less[n] = 0 <=> Pred(t, n) \subseteq Out \cup {u})
  <2> DEFINE A == Pred(t, n) \ Out
  <2>1. IsFiniteSet(A) /\ Cardinality(A) \in Nat
    BY <1>9, FS_Difference, FS_CardinalityType
  <2>2. Pred(t, n) \ (Out \cup {u}) = A \ {u}
    OBVIOUS
  <2>3. IsFiniteSet(A \ {u}) /\ Cardinality(A \ {u}) = IF u \in A THEN Cardinality(A) - 1 ELSE Cardinality(A)
    BY <2>1, FS_RemoveElement
  <2>4. u \in A <=> n \in Succ(t, u)
    BY <1>9, <1>11
  <2>5. less[n] = IF n \in Succ(t, u) THEN Cardinality(A) - 1 ELSE Cardinality(A)
    BY <1>1, <1>3
  <2>6. less[n] = Cardinality(A \ {u})
    BY <2>3, <2>4, <2>5
  <2>7. Cardinality(A \ {u}) = 0 <=> A \ {u} = {}
    BY <2>3, FS_EmptySet
  <2>8. A \ {u} = {} <=> Pred(t, n) \subseteq Out \cup {u}
    OBVIOUS
  <2>9. less[n] \in Int
    BY <2>1, <2>5
  <2> HIDE DEF A, Out
  <2> QED BY <2>2, <2>6, <2>7, <2>8, <2>9
<1>13. \A n \in N : n \in free <=> u \in Pred(t, n) /\ Pred(t, n) \subseteq Out \cup {u}
  BY <1>4, <1>8, <1>9, <1>12
<1>14. free \subseteq N /\ free \cap (Out \cup Wait) = {}
  <2>1. free \subseteq N
    BY <1>4, <1>8
  <2>2. ASSUME NEW n \in free PROVE n \notin Out \cup Wait
    BY <1>1, <1>11, <1>13, <2>1
  <2> QED BY <2>1, <2>2
<1>15. r \in Seq(N) /\ Once(r) /\ Elems(r) = free
  BY <1>5, <1>8, <1>14, EnumOnce
<1>16. q \in Seq(N) /\ Once(q) /\ Elems(q) = (Wait \ {u}) \cup free
  <2>1. Wait \cap Elems(r) = {}
    BY <1>14, <1>15
  <2> QED BY <1>1, <1>2, <1>6, <1>15, <2>1, TailOnce
<1>17. /\ o \in Seq(N) /\ Len(o) = Len(s.out) + 1 /\ Len(s.out) \in Nat
       /\ \A i \in 1..Len(s.out) : o[i] = s.out[i]
       /\ o[Len(s.out) + 1] = u /\ Once(o) /\ Elems(o) = Out \cup {u}
  BY <1>1, <1>6, <1>10, <1>11, AppendOnce
<1>18. Elems(o) \cap Elems(q) = {}
  BY <1>1, <1>14, <1>10, <1>16, <1>17
<1>19. less \in [N -> Int]
  BY <1>3, <1>12
<1>20. ASSUME NEW n \in N PROVE n \in Elems(o) \cup Elems(q) <=> Pred(t, n) \subseteq Elems(o)
  <2>1. n \in Elems(o) \cup Elems(q) <=> n \in Out \cup Wait \/ n \in free
    BY <1>10, <1>16, <1>17
  <2>2. n \in Out \cup Wait <=> Pred(t, n) \subseteq Out
    BY <1>1
  <2>3. n \in free <=> u \in Pred(t, n) /\ Pred(t, n) \subseteq Out \cup {u}
    BY <1>13
  <2> QED BY <1>17, <2>1, <2>2, <2>3
<1>21. ASSUME NEW i \in 1..Len(o), NEW p \in Pred(t, o[i]) PROVE \E j \in 1..(i - 1) : o[j] = p
  <2> PICK k \in Nat : k = Len(s.out)
    BY <1>17
  <2>1. CASE i = k + 1
    <3>1. p \in Out
      BY <1>11, <1>17, <1>21, <2>1
    <3>2. PICK j \in 1..k : s.out[j] = p
      BY <3>1 DEF Elems
    <3>3. j \in 1..(i - 1)
      BY <2>1
    <3> QED BY <1>17, <3>2, <3>3
  <2>2. CASE i # k + 1
    <3>1. i \in 1..k
      BY <1>17, <2>2
    <3>2. PICK j \in 1..(i - 1) : s.out[j] = p
      BY <1>1, <1>17, <1>21, <3>1
    <3>3. j \in 1..k
      BY <3>1
    <3> QED BY <1>17, <3>2, <3>3
  <2> QED BY <2>1, <2>2
<1> PICK x : x = [queue |-> q, deg |-> less, out |-> o]
  OBVIOUS
<1>22. x.queue = q /\ x.deg = less /\ x.out = o /\ x \in Queues(t)
  BY <1>16, <1>17, <1>19 DEF Queues
<1>23. QueueInv(t, x)
  <2>1. \A n \in N : less[n] = Cardinality(Pred(t, n) \ Elems(o))
    BY <1>12, <1>17
  <2>2. Once(x.out) /\ Once(x.queue) /\ Elems(x.out) \cap Elems(x.queue) = {}
    BY <1>16, <1>17, <1>18, <1>22
  <2>3. \A n \in N : x.deg[n] = Cardinality(Pred(t, n) \ Elems(x.out))
    BY <1>22, <2>1
  <2>4. \A n \in N : n \in Elems(x.out) \cup Elems(x.queue) <=> Pred(t, n) \subseteq Elems(x.out)
    BY <1>20, <1>22
  <2>5. \A i \in 1..Len(x.out) : \A p \in Pred(t, x.out[i]) : \E j \in 1..(i - 1) : x.out[j] = p
    BY <1>21, <1>22
  <2> QED BY <1>22, <2>2, <2>3, <2>4, <2>5, Zenon DEF QueueInv
<1> QED BY <1>7, <1>17, <1>22, <1>23

\* The states of the loop, as its definition says them.
LEMMA TakesAre ==
  ASSUME NEW t \in Templates, Joined(t)
  PROVE  /\ Takes(t)[0] = Started(t)
         /\ \A k \in Nat : Takes(t)[k + 1] = IF Takes(t)[k].queue = <<>> THEN Takes(t)[k] ELSE Take(t, Takes(t)[k])
<1> DEFINE S == {s \in Queues(t) : QueueInv(t, s)}
           F == [p \in S \X Nat |-> IF p[1].queue = <<>> THEN p[1] ELSE Take(t, p[1])]
           Is(g) == g = [k \in Nat |-> IF k = 0 THEN Started(t)
                                       ELSE IF g[k - 1].queue = <<>> THEN g[k - 1] ELSE Take(t, g[k - 1])]
<1>1. Started(t) \in S
  BY QueueStart DEF QueueInv
<1>2. ASSUME NEW s \in S, s.queue # <<>> PROVE Take(t, s) \in S
  <2>1. QueueInv(t, Take(t, s))
    BY <1>2, QueueStep
  <2> QED BY <2>1 DEF QueueInv
<1>3. F \in [S \X Nat -> S]
  <2> HIDE DEF S
  <2> QED BY <1>2
<1>4. \E f \in [Nat -> S] : f[0] = Started(t) /\ Follows(f, F)
  <2> HIDE DEF S, F
  <2> QED BY <1>1, <1>3, LoopExists
<1>5. PICK f \in [Nat -> S] : f[0] = Started(t) /\ \A k \in Nat : f[k + 1] = F[<<f[k], k>>]
  BY <1>4 DEF Follows
<1>6. ASSUME NEW k \in Nat
      PROVE  f[k + 1] = IF f[k].queue = <<>> THEN f[k] ELSE Take(t, f[k])
  <2> HIDE DEF S
  <2>1. f[k] \in S /\ <<f[k], k>> \in S \X Nat
    BY <1>5
  <2> QED BY <1>5, <2>1
<1>7. \A k \in Nat : f[k] = IF k = 0 THEN Started(t)
                            ELSE IF f[k - 1].queue = <<>> THEN f[k - 1] ELSE Take(t, f[k - 1])
  <2> SUFFICES ASSUME NEW k \in Nat, k # 0
               PROVE  f[k] = IF f[k - 1].queue = <<>> THEN f[k - 1] ELSE Take(t, f[k - 1])
    BY <1>5
  <2>1. k - 1 \in Nat /\ (k - 1) + 1 = k
    OBVIOUS
  <2> QED BY <1>6, <2>1
<1>8. Is(f)
  <2> HIDE DEF S
  <2> QED BY <1>5, <1>7
<1>9. Takes(t) = CHOOSE g : Is(g)
  BY Zenon DEF Takes, Started
<1>10. Is(Takes(t))
  <2> HIDE DEF Is
  <2> QED BY <1>8, <1>9
<1>11. PICK g : g = Takes(t)
  OBVIOUS
<1>12. Is(g)
  BY <1>10, <1>11
<1>13. g[0] = Started(t)
  BY <1>12
<1>14. ASSUME NEW k \in Nat PROVE g[k + 1] = IF g[k].queue = <<>> THEN g[k] ELSE Take(t, g[k])
  <2>1. k + 1 \in Nat /\ k + 1 # 0 /\ (k + 1) - 1 = k
    OBVIOUS
  <2> QED BY <1>12, <2>1
<1> QED BY <1>11, <1>13, <1>14

\* The order is what is taken when no node waits any more.
LEMMA OrderIs ==
  ASSUME NEW t \in Templates, Joined(t)
  PROVE  \E s : QueueInv(t, s) /\ s.queue = <<>> /\ s.out = Order(t)
<1>1. PICK g : g = Takes(t)
  OBVIOUS
<1>2. g[0] = Started(t) /\ \A k \in Nat : g[k + 1] = IF g[k].queue = <<>> THEN g[k] ELSE Take(t, g[k])
  BY <1>1, TakesAre
<1> DEFINE Good(k) == QueueInv(t, g[k]) /\ (g[k].queue = <<>> \/ Len(g[k].out) = k)
           bad == {k \in Nat : ~Good(k)}
<1>3. ASSUME bad # {} PROVE FALSE
  <2>1. PICK k \in bad : \A j \in bad : k <= j
    <3>1. bad \subseteq Nat
      OBVIOUS
    <3> HIDE DEF bad
    <3> QED BY <1>3, <3>1, Least
  <2>2. CASE k = 0
    <3>1. QueueInv(t, g[0])
      BY <1>2, QueueStart
    <3>2. Len(g[0].out) = 0
      BY <1>2 DEF Started
    <3> QED BY <2>1, <2>2, <3>1, <3>2
  <2>3. CASE k # 0
    <3>1. PICK j \in Nat : j + 1 = k
      <4>1. k - 1 \in Nat /\ (k - 1) + 1 = k
        BY <2>1, <2>3
      <4> QED BY <4>1
    <3>2. Good(j)
      <4>1. ~(k <= j)
        BY <3>1
      <4> QED BY <2>1, <4>1
    <3>3. g[k] = IF g[j].queue = <<>> THEN g[j] ELSE Take(t, g[j])
      BY <1>2, <3>1
    <3>4. CASE g[j].queue = <<>>
      BY <2>1, <3>2, <3>3, <3>4
    <3>5. CASE g[j].queue # <<>>
      <4>1. QueueInv(t, g[k]) /\ Len(g[k].out) = Len(g[j].out) + 1
        BY <3>2, <3>3, <3>5, QueueStep
      <4> QED BY <2>1, <3>1, <3>2, <3>5, <4>1
    <3> QED BY <3>4, <3>5
  <2> QED BY <2>2, <2>3
<1>4. PICK n \in Nat : n = Cardinality(Nodes(t))
  BY NodesAre
<1>5. PICK s : s = g[n]
  OBVIOUS
<1>6. QueueInv(t, s) /\ (s.queue = <<>> \/ Len(s.out) = n)
  BY <1>3, <1>5
<1>7. s.out = Order(t)
  BY <1>1, <1>4, <1>5 DEF Order
<1>8. s.queue = <<>>
  <2> SUFFICES ASSUME s.queue # <<>> PROVE FALSE
    OBVIOUS
  <2>1. /\ s.out \in Seq(Nodes(t)) /\ s.queue \in Seq(Nodes(t)) /\ Len(s.out) = n
        /\ \A i, j \in 1..n : s.out[i] = s.out[j] => i = j
    BY <1>6 DEF QueueInv, Queues, Once
  <2>2. s.out \in [1..n -> Nodes(t)]
    BY <2>1
  <2>3. \A x \in Nodes(t) : \E i \in 1..n : s.out[i] = x
    <3> PICK N : N = Nodes(t)
      OBVIOUS
    <3>1. IsFiniteSet(N) /\ s.out \in [1..n -> N] /\ n = Cardinality(N)
      BY <1>4, <2>2, NodesAre
    <3>2. \A x \in N : \E i \in 1..n : s.out[i] = x
      BY <2>1, <3>1, Fills
    <3> QED BY <3>2
  <2>4. 1 \in 1..Len(s.queue) /\ s.queue[1] \in Nodes(t)
    BY <2>1
  <2>5. s.queue[1] \in Elems(s.out) /\ s.queue[1] \in Elems(s.queue)
    BY <2>1, <2>3, <2>4 DEF Elems
  <2> QED BY <1>6, <2>5 DEF QueueInv
<1> QED BY <1>6, <1>7, <1>8

\* What leads to a node comes before it.
Led(t, o) == \A i \in 1..Len(o) : \A p \in Pred(t, o[i]) : \E j \in 1..(i - 1) : o[j] = p

\* What the order is, whether or not it has all nodes.
LEMMA OrderHas ==
  ASSUME NEW t \in Templates, Joined(t), NEW o, o = Order(t)
  PROVE  /\ o \in Seq(Nodes(t)) /\ o \in [1..Len(o) -> Nodes(t)] /\ Len(o) \in Nat
         /\ \A i, j \in 1..Len(o) : o[i] = o[j] => i = j
         /\ \A n \in Nodes(t) : n \in Elems(o) <=> Pred(t, n) \subseteq Elems(o)
         /\ Led(t, o)
<1>1. PICK s : QueueInv(t, s) /\ s.queue = <<>> /\ s.out = o
  BY OrderIs
<1>2. Elems(<<>>) = {}
  BY DEF Elems
<1>3. /\ o \in Seq(Nodes(t)) /\ Once(o)
      /\ \A n \in Nodes(t) : n \in Elems(o) \cup Elems(<<>>) <=> Pred(t, n) \subseteq Elems(o)
      /\ \A i \in 1..Len(o) : \A p \in Pred(t, o[i]) : \E j \in 1..(i - 1) : o[j] = p
  BY <1>1 DEF QueueInv, Queues
<1>4. o \in [1..Len(o) -> Nodes(t)] /\ Len(o) \in Nat
  BY <1>3
<1> QED BY <1>2, <1>3, <1>4 DEF Once, Led

\* An order with all nodes in it is one they can run in ...
LEMMA OrderRuns ==
  ASSUME NEW t \in Templates, Joined(t), Len(Order(t)) = Cardinality(Nodes(t))
  PROVE  \E f \in Orders(t) : \A i \in DOMAIN Order(t) : f[Order(t)[i]] = i
<1> DEFINE N == Nodes(t)
<1>1. PICK o : o = Order(t)
  OBVIOUS
<1>2. o \in Seq(N) /\ o \in [1..Len(o) -> N] /\ Len(o) \in Nat
  BY <1>1, OrderHas
<1>3. \A i, j \in 1..Len(o) : o[i] = o[j] => i = j
  BY <1>1, OrderHas
<1>4. Led(t, o)
  BY <1>1, OrderHas
<1>5. N = 1..Len(o) /\ IsFiniteSet(N) /\ Len(o) = Cardinality(N)
  BY <1>1, NodesAre
<1>6. \A x \in N : \E i \in 1..Len(o) : o[i] = x
  <2> PICK n \in Nat : n = Len(o)
    BY <1>2
  <2>1. o \in [1..n -> N] /\ \A i, j \in 1..n : o[i] = o[j] => i = j
    BY <1>2, <1>3
  <2>2. IsFiniteSet(N) /\ n = Cardinality(N)
    BY <1>5
  <2> HIDE DEF N
  <2>3. \A x \in N : \E i \in 1..n : o[i] = x
    BY <2>1, <2>2, Fills
  <2> QED BY <2>3
<1> DEFINE f == [n \in N |-> CHOOSE i \in 1..Len(o) : o[i] = n]
<1>7. \A n \in N : f[n] \in 1..Len(o) /\ o[f[n]] = n
  <2> HIDE DEF N
  <2> QED BY <1>6
<1>8. f \in [N -> N]
  BY <1>5, <1>7
<1> HIDE DEF f, N
<1>9. \A m, n \in N : m # n => f[m] # f[n]
  BY <1>7
<1>10. ASSUME NEW e \in t.edges PROVE f[e[1]] < f[e[2]]
  <2>1. e[1] \in N /\ e[2] \in N /\ e[1] \in Pred(t, e[2])
    BY DEF Joined, Pred, N
  <2>2. PICK j \in 1..(f[e[2]] - 1) : o[j] = e[1]
    BY <1>4, <1>7, <2>1 DEF Led
  <2>3. f[e[2]] \in 1..Len(o) /\ f[e[1]] \in 1..Len(o) /\ j \in 1..Len(o) /\ j < f[e[2]]
    BY <1>2, <1>7, <2>1
  <2>4. j = f[e[1]]
    BY <1>3, <1>7, <2>1, <2>2, <2>3
  <2> QED BY <2>3, <2>4
<1>11. f \in Orders(t)
  BY <1>8, <1>9, <1>10 DEF Orders, N
<1>12. \A i \in DOMAIN o : f[o[i]] = i
  BY <1>2, <1>3, <1>7
<1> QED BY <1>1, <1>11, <1>12

\* ... and if they can run in any order, it has all of them.
LEMMA RunsOrder ==
  ASSUME NEW t \in Templates, Joined(t), Orders(t) # {}
  PROVE  Len(Order(t)) = Cardinality(Nodes(t))
<1> DEFINE N == Nodes(t)
<1>1. PICK o : o = Order(t)
  OBVIOUS
<1>2. /\ o \in Seq(N) /\ o \in [1..Len(o) -> N] /\ Len(o) \in Nat
      /\ \A i, j \in 1..Len(o) : o[i] = o[j] => i = j
      /\ \A n \in N : n \in Elems(o) <=> Pred(t, n) \subseteq Elems(o)
  BY <1>1, OrderHas
<1>3. PICK f \in Orders(t) : TRUE
  OBVIOUS
<1>4. f \in [N -> N] /\ \A e \in t.edges : f[e[1]] < f[e[2]]
  BY <1>3 DEF Orders
<1>5. N \subseteq Nat /\ IsFiniteSet(N)
  BY NodesAre
<1> HIDE DEF N
<1>6. \A n \in N : n \in Elems(o)
  <2> DEFINE late == {f[n] : n \in {n \in N : n \notin Elems(o)}}
  <2> SUFFICES ASSUME late # {} PROVE FALSE
    OBVIOUS
  <2>1. late \subseteq Nat
    BY <1>4, <1>5
  <2>2. PICK k \in late : \A j \in late : k <= j
    <3> HIDE DEF late
    <3> QED BY <2>1, Least
  <2>3. PICK n \in N : n \notin Elems(o) /\ f[n] = k
    BY <2>2
  <2>4. PICK p \in Pred(t, n) : p \notin Elems(o)
    BY <1>2, <2>3
  <2>5. p \in N /\ f[p] < f[n]
    <3>1. PICK e \in t.edges : e[1] = p /\ e[2] = n
      BY DEF Pred
    <3> QED BY <1>4, <3>1 DEF Joined, N
  <2>6. f[p] \in late
    BY <2>4, <2>5
  <2>7. k <= f[p] /\ f[p] \in Nat /\ f[n] \in Nat
    BY <1>4, <1>5, <2>2, <2>5, <2>6
  <2> HIDE DEF late
  <2> QED BY <2>3, <2>5, <2>7
<1>7. \A x \in N : \E i \in 1..Len(o) : o[i] = x
  BY <1>6 DEF Elems
<1>8. Len(o) = Cardinality(N)
  BY <1>2, <1>5, <1>7, Fills
<1> QED BY <1>1, <1>8 DEF N

LEMMA ParseRaisesIs ==
  ASSUME NEW t \in Templates
  PROVE  /\ ParseRaises(t) <=> ~WellFormed(t)
         /\ ~ParseRaises(t) => \E f \in Orders(t) : \A i \in DOMAIN Order(t) : f[Order(t)[i]] = i
<1>1. (\E e \in t.edges : e[1] \notin Nodes(t) \/ e[2] \notin Nodes(t)) <=> ~Joined(t)
  BY DEF Joined
<1>2. (\A e \in t.edges : {e[1], e[2]} \subseteq Nodes(t)) <=> Joined(t)
  BY DEF Joined
<1>3. Joined(t) => (Len(Order(t)) = Cardinality(Nodes(t)) <=> Orders(t) # {})
  BY OrderRuns, RunsOrder
<1>4. PurposeUnknown(t) <=> ~(t.purposes = {} \/ \A n \in Nodes(t) : t.nodes[n].purpose \in t.purposes)
  BY DEF PurposeUnknown
<1>5. ParseRaises(t) <=> ~WellFormed(t)
  BY <1>1, <1>2, <1>3, <1>4 DEF ParseRaises, WellFormed
<1>6. ~ParseRaises(t) => Joined(t) /\ Len(Order(t)) = Cardinality(Nodes(t))
  BY <1>1 DEF ParseRaises
<1> QED BY <1>5, <1>6, OrderRuns

\* Parser.parse refuses a template exactly if it names a node it does not have, has
\* no order its nodes can run in, or a node has a purpose the template does not
\* declare; and topological_order returns an order they can run in.
THEOREM ParseDecidesHolds == Spec => []ParseDecides
<1>1. PlanInv => ParseDecides
  <2> SUFFICES ASSUME PlanInv, stage # "parse"
               PROVE  /\ (stage = "unparsed") <=> ~WellFormed(template)
                      /\ stage # "unparsed" =>
                            \E f \in Orders(template) : \A i \in DOMAIN Order(template) : f[Order(template)[i]] = i
    BY Zenon DEF ParseDecides
  <2> QED BY ParseRaisesIs DEF PlanInv, TInv, ParseInv
<1> QED BY <1>1, PlanStart, PlanStep, PTL DEF Spec

-----------------------------------------------------------------------------
(* TypeChecker.check *)

\* What leads to a node runs before it: where an order puts the nodes that some
\* set C of them leads to behind all others, C being closed under the edges.
LEMMA Behind ==
  ASSUME NEW t \in Templates, Joined(t), NEW f \in Orders(t),
         NEW C \in SUBSET Nodes(t), \A e \in t.edges : e[1] \in C => e[2] \in C,
         NEW g \in C, NEW n \in Nodes(t) \ C
  PROVE  \E h \in Orders(t) : h[n] < h[g]
<1> DEFINE N == Nodes(t)
<1>1. PICK c \in Nat : N = 1..c /\ c = Cardinality(N) /\ IsFiniteSet(N)
  BY NodesAre
<1>2. /\ f \in [N -> N] /\ (\A x, y \in N : x # y => f[x] # f[y])
      /\ \A e \in t.edges : f[e[1]] < f[e[2]]
  BY DEF Orders
<1>3. \A e \in t.edges : e[1] \in N /\ e[2] \in N
  BY DEF Joined
<1> HIDE DEF N
<1>4. C \subseteq N /\ g \in N /\ n \in N
  BY DEF N
<1> DEFINE key == [x \in N |-> IF x \in C THEN f[x] + c ELSE f[x]]
           h == [x \in N |-> Cardinality({y \in N : key[y] <= key[x]})]
<1>5. \A x \in N : f[x] \in 1..c
  BY <1>1, <1>2
<1>6. \A x \in N : key[x] \in Nat /\ key[x] = IF x \in C THEN f[x] + c ELSE f[x]
  BY <1>5
<1>7. \A x, y \in N : x # y => key[x] # key[y]
  <2> SUFFICES ASSUME NEW x \in N, NEW y \in N, x # y PROVE key[x] # key[y]
    OBVIOUS
  <2>1. f[x] # f[y] /\ f[x] \in 1..c /\ f[y] \in 1..c
    BY <1>2, <1>5
  <2> HIDE DEF key
  <2> QED BY <1>6, <2>1
<1>8. \A e \in t.edges : key[e[1]] < key[e[2]]
  <2> SUFFICES ASSUME NEW e \in t.edges PROVE key[e[1]] < key[e[2]]
    OBVIOUS
  <2>1. /\ e[1] \in N /\ e[2] \in N /\ f[e[1]] \in 1..c /\ f[e[2]] \in 1..c /\ f[e[1]] < f[e[2]]
        /\ e[1] \in C => e[2] \in C
    BY <1>2, <1>3, <1>5
  <2> HIDE DEF key
  <2> QED BY <1>6, <2>1
<1>9. key[n] < key[g]
  <2>1. f[n] \in 1..c /\ f[g] \in 1..c
    BY <1>4, <1>5
  <2> HIDE DEF key
  <2> QED BY <1>4, <1>6, <2>1
<1> HIDE DEF key
<1>10. ASSUME NEW x \in N
       PROVE  /\ IsFiniteSet({y \in N : key[y] <= key[x]})
              /\ h[x] = Cardinality({y \in N : key[y] <= key[x]}) /\ h[x] \in 1..c
  <2> DEFINE S == {y \in N : key[y] <= key[x]}
  <2>1. S \subseteq N /\ x \in S
    BY <1>6
  <2>2. IsFiniteSet(S) /\ Cardinality(S) <= Cardinality(N) /\ Cardinality(S) \in Nat
    <3> HIDE DEF S
    <3> QED BY <1>1, <2>1, FS_Subset, FS_CardinalityType
  <2>3. Cardinality(S) # 0
    <3> HIDE DEF S
    <3> QED BY <2>1, <2>2, FS_EmptySet
  <2>4. h[x] = Cardinality(S)
    OBVIOUS
  <2> HIDE DEF S, h
  <2>5. h[x] \in 1..c
    BY <1>1, <2>2, <2>3, <2>4
  <2> QED BY <2>2, <2>4, <2>5 DEF S
<1>11. ASSUME NEW x \in N, NEW y \in N, key[x] < key[y] PROVE h[x] < h[y]
  <2> DEFINE S(z) == {w \in N : key[w] <= key[z]}
  <2>1. \A w \in N : key[w] \in Nat
    BY <1>6
  <2>2. S(x) \subseteq S(y) /\ S(x) # S(y)
    <3>1. \A w \in S(x) : w \in S(y)
      BY <1>11, <2>1
    <3>2. y \in S(y) /\ y \notin S(x)
      BY <1>11, <2>1
    <3> QED BY <3>1, <3>2
  <2>3. IsFiniteSet(S(y)) /\ h[x] = Cardinality(S(x)) /\ h[y] = Cardinality(S(y)) /\ h[x] \in Nat /\ h[y] \in Nat
    BY <1>10
  <2>4. Cardinality(S(x)) <= Cardinality(S(y)) /\ Cardinality(S(x)) # Cardinality(S(y))
    <3> HIDE DEF S
    <3> QED BY <2>2, <2>3, FS_Subset
  <2> HIDE DEF h, S
  <2> QED BY <2>3, <2>4
<1>12. h \in [N -> N]
  BY <1>1, <1>10
<1> HIDE DEF h
<1>13. \A x, y \in N : x # y => h[x] # h[y]
  <2> SUFFICES ASSUME NEW x \in N, NEW y \in N, x # y PROVE h[x] # h[y]
    OBVIOUS
  <2>1. key[x] < key[y] \/ key[y] < key[x]
    BY <1>6, <1>7
  <2>2. h[x] \in Nat /\ h[y] \in Nat
    BY <1>1, <1>12
  <2> QED BY <1>11, <2>1, <2>2
<1>14. \A e \in t.edges : h[e[1]] < h[e[2]]
  BY <1>3, <1>8, <1>11
<1>15. h \in Orders(t)
  BY <1>12, <1>13, <1>14 DEF Orders, N
<1>16. h[n] < h[g]
  BY <1>4, <1>9, <1>11
<1> QED BY <1>15, <1>16

\* What a node covers are the nodes that cannot run before it.
LEMMA CoveredIs ==
  ASSUME NEW t \in Templates, Joined(t), Orders(t) # {}, NEW g \in Nodes(t), NEW n \in Nodes(t)
  PROVE  n \in Covered(t, g) <=> \A f \in Orders(t) : f[g] <= f[n]
<1>1. Nodes(t) \subseteq Nat /\ \A f \in Orders(t) : \A m \in Nodes(t) : f[m] \in Nat
  BY NodesAre DEF Orders
<1>2. ASSUME n \in Covered(t, g), NEW f \in Orders(t) PROVE f[g] <= f[n]
  <2> DEFINE C == {m \in Nodes(t) : f[g] <= f[m]}
  <2>1. g \in C
    BY <1>1
  <2>2. ASSUME NEW e \in t.edges, e[1] \in C PROVE e[2] \in C
    <3>1. e[2] \in Nodes(t) /\ e[1] \in Nodes(t) /\ f[e[1]] < f[e[2]]
      BY DEF Joined, Orders
    <3>2. f[g] \in Nat /\ f[e[1]] \in Nat /\ f[e[2]] \in Nat /\ f[g] <= f[e[1]]
      BY <1>1, <2>2, <3>1
    <3> QED BY <3>1, <3>2
  <2>3. C \in SUBSET Nodes(t)
    OBVIOUS
  <2>4. n \in C
    <3> HIDE DEF C
    <3> QED BY <1>2, <2>1, <2>2, <2>3 DEF Covered
  <2> QED BY <2>4
<1>3. ASSUME n \notin Covered(t, g) PROVE \E f \in Orders(t) : ~(f[g] <= f[n])
  <2>1. PICK C \in SUBSET Nodes(t) : g \in C /\ (\A e \in t.edges : e[1] \in C => e[2] \in C) /\ n \notin C
    BY <1>3 DEF Covered
  <2>2. PICK f \in Orders(t) : TRUE
    OBVIOUS
  <2>3. \E h \in Orders(t) : h[n] < h[g]
    BY <2>1, <2>2, Behind
  <2> QED BY <1>1, <2>3
<1> QED BY <1>2, <1>3

LEMMA TypesAre ==
  ASSUME NEW t \in Templates, Joined(t), Orders(t) # {}
  PROVE  TypeErrors(t) = {} <=> \A n \in Nodes(t) : t.nodes[n].effects \cap HighRisk # {} => AskedBefore(t, n)
<1>1. \A n \in Nodes(t) : Gated(t, n) <=> AskedBefore(t, n)
  BY CoveredIs DEF Gated, AskedBefore
<1>2. TypeErrors(t) = {} <=> \A n \in Nodes(t) : ~(t.nodes[n].effects \cap HighRisk # {} /\ ~Gated(t, n))
  BY Zenon DEF TypeErrors
<1> QED BY <1>1, <1>2

-----------------------------------------------------------------------------
(* InformationFlowChecker.check *)

\* Labels as clear and as trusted as the one the task came with.
Like(i) == [class : {i.class}, trust : {i.trust}, residency : {i.residency, "local"}]
Labelled(t, i) == UNION {[D -> Like(i)] : D \in SUBSET Nodes(t)}

LEMMA JoinAlike ==
  ASSUME NEW i \in Label, NEW ls, ls \subseteq Like(i), ls # {}
  PROVE  Join(ls) \in Like(i)
<1>1. PICK a, b : a = i.class /\ b = i.trust /\ a \in Int /\ b \in Int
  BY DEF Label, Public, Restricted, TrustRestricted
<1>2. \A l \in ls : l.class = a /\ l.trust = b /\ l.residency \in {i.residency, "local"}
  BY <1>1 DEF Like
<1>3. {l.class : l \in ls} = {a} /\ {l.trust : l \in ls} = {b}
  BY <1>2
<1>4. MaxOf({a}) = a /\ MaxOf({b}) = b
  BY <1>1 DEF MaxOf
<1>5. PICK rs : rs = {l.residency : l \in ls}
  OBVIOUS
<1>6. rs \subseteq {i.residency, "local"} /\ rs # {}
  BY <1>2, <1>5
<1>7. PICK r : r = IF Cardinality(rs) = 1 THEN CHOOSE q \in rs : TRUE ELSE "local"
  OBVIOUS
<1>8. r \in {i.residency, "local"}
  <2>1. (CHOOSE q \in rs : TRUE) \in rs
    BY <1>6
  <2> QED BY <1>6, <1>7, <2>1
<1>9. Join(ls) = [class |-> a, trust |-> b, residency |-> r]
  <2>1. Join(ls) = [class |-> MaxOf({l.class : l \in ls}), trust |-> MaxOf({l.trust : l \in ls}),
                    residency |-> IF Cardinality(rs) = 1 THEN CHOOSE q \in rs : TRUE ELSE "local"]
    BY <1>5, Zenon DEF Join
  <2> QED BY <1>3, <1>4, <1>7, <2>1, Zenon
<1> QED BY <1>1, <1>8, <1>9 DEF Like

LEMMA LabelAlike ==
  ASSUME NEW t, NEW n, NEW i \in Label, NEW w \in Labelled(t, i)
  PROVE  LabelOf(t, n, i, w) \in Like(i)
<1> DEFINE ls == {w[p] : p \in Pred(t, n) \cap DOMAIN w}
<1>1. ls \subseteq Like(i)
  BY DEF Labelled
<1>2. i \in Like(i)
  <2>1. PICK a, b, c : i = [class |-> a, trust |-> b, residency |-> c]
    BY DEF Label
  <2> QED BY <2>1 DEF Like
<1>3. LabelOf(t, n, i, w) = IF ls = {} THEN i ELSE Join(ls)
  BY DEF LabelOf
<1> HIDE DEF ls
<1> QED BY <1>1, <1>2, <1>3, JoinAlike

\* One node more is labelled, as long as the order goes on.
LabelNext(t, i, o, w, k) ==
    IF k > Len(o) THEN w
    ELSE [m \in DOMAIN w \cup {o[k]} |-> IF m = o[k] THEN LabelOf(t, m, i, w) ELSE w[m]]

LEMMA LabelStep ==
  ASSUME NEW t, NEW i \in Label, NEW o \in Seq(Nodes(t)), NEW w \in Labelled(t, i), NEW k \in Nat \ {0}
  PROVE  /\ LabelNext(t, i, o, w, k) \in Labelled(t, i)
         /\ DOMAIN w \subseteq DOMAIN LabelNext(t, i, o, w, k)
         /\ k <= Len(o) => o[k] \in DOMAIN LabelNext(t, i, o, w, k)
<1>1. CASE k > Len(o)
  BY <1>1 DEF LabelNext
<1>2. CASE ~(k > Len(o))
  <2>1. PICK u \in Nodes(t) : u = o[k]
    BY <1>2
  <2>2. PICK l : l = LabelOf(t, u, i, w)
    OBVIOUS
  <2>3. l \in Like(i)
    BY <2>2, LabelAlike
  <2>4. PICK D \in SUBSET Nodes(t) : w \in [D -> Like(i)]
    BY DEF Labelled
  <2>5. PICK v : v = [m \in D \cup {u} |-> IF m = u THEN l ELSE w[m]]
    OBVIOUS
  <2>6. v = LabelNext(t, i, o, w, k)
    BY <1>2, <2>1, <2>2, <2>4, <2>5 DEF LabelNext
  <2>7. v \in [D \cup {u} -> Like(i)] /\ DOMAIN v = D \cup {u} /\ DOMAIN w = D
    BY <2>3, <2>4, <2>5
  <2>8. v \in Labelled(t, i)
    BY <2>7 DEF Labelled
  <2> QED BY <2>1, <2>6, <2>7, <2>8
<1> QED BY <1>1, <1>2

\* Every node has a label in the end, as clear and as trusted as the first one.
LEMMA LabelsAre ==
  ASSUME NEW t \in Templates, Joined(t), Orders(t) # {}, NEW i \in Label
  PROVE  Labels(t, i) \in [Nodes(t) -> Like(i)]
<1>1. PICK o : o = Order(t)
  OBVIOUS
<1>2. PICK c \in Nat : c = Len(o)
  BY <1>1, OrderHas
<1>3. o \in Seq(Nodes(t)) /\ \A n \in Nodes(t) : \E k \in 1..c : o[k] = n
  <2>1. o \in Seq(Nodes(t)) /\ o \in [1..c -> Nodes(t)] /\ \A k, l \in 1..c : o[k] = o[l] => k = l
    BY <1>1, <1>2, OrderHas
  <2> PICK N : N = Nodes(t)
    OBVIOUS
  <2>2. IsFiniteSet(N) /\ c = Cardinality(N) /\ o \in [1..c -> N]
    BY <1>1, <1>2, <2>1, NodesAre, RunsOrder
  <2>3. \A n \in N : \E k \in 1..c : o[k] = n
    BY <2>1, <2>2, Fills
  <2> QED BY <2>1, <2>3
<1> DEFINE S == Labelled(t, i)
           x == [n \in {} |-> i]
           F == [p \in S \X Nat |-> LabelNext(t, i, o, p[1], p[2] + 1)]
           Is(g) == g = [k \in Nat |-> IF k = 0 THEN x
                                       ELSE IF k > Len(o) THEN g[k - 1]
                                       ELSE [m \in DOMAIN g[k - 1] \cup {o[k]} |->
                                               IF m = o[k] THEN LabelOf(t, m, i, g[k - 1]) ELSE g[k - 1][m]]]
<1>4. x \in S
  <2>1. x \in [{} -> Like(i)] /\ {} \in SUBSET Nodes(t)
    OBVIOUS
  <2> QED BY <2>1 DEF Labelled
<1>5. \A w \in S, k \in Nat : LabelNext(t, i, o, w, k + 1) \in S
  BY <1>3, LabelStep
<1>6. F \in [S \X Nat -> S]
  <2> HIDE DEF S
  <2> QED BY <1>5
<1>7. \E f \in [Nat -> S] : f[0] = x /\ Follows(f, F)
  <2> HIDE DEF S, F, x
  <2> QED BY <1>4, <1>6, LoopExists
<1>8. PICK f \in [Nat -> S] : f[0] = x /\ Follows(f, F)
  BY <1>7
<1>9. ASSUME NEW k \in Nat PROVE f[k + 1] = LabelNext(t, i, o, f[k], k + 1)
  <2> HIDE DEF S
  <2>1. f[k] \in S /\ <<f[k], k>> \in S \X Nat
    BY <1>8
  <2> QED BY <1>8, <2>1 DEF Follows
<1>10. \A k \in Nat : f[k] = IF k = 0 THEN x ELSE LabelNext(t, i, o, f[k - 1], k)
  <2> SUFFICES ASSUME NEW k \in Nat, k # 0 PROVE f[k] = LabelNext(t, i, o, f[k - 1], k)
    BY <1>8
  <2>1. k - 1 \in Nat /\ (k - 1) + 1 = k
    OBVIOUS
  <2> QED BY <1>9, <2>1
<1>11. Is(f)
  <2> HIDE DEF S, x
  <2>1. f = [k \in Nat |-> IF k = 0 THEN x ELSE LabelNext(t, i, o, f[k - 1], k)]
    BY <1>8, <1>10
  <2> QED BY <2>1, Zenon DEF LabelNext
<1>12. Labels(t, i) = (CHOOSE g : Is(g))[c]
  BY <1>1, <1>2, ZenonT(60) DEF Labels
<1>13. PICK g : g = CHOOSE h : Is(h)
  OBVIOUS
<1>14. Is(g)
  <2> HIDE DEF Is
  <2> QED BY <1>11, <1>13
<1>15. g[0] = x /\ \A k \in Nat : g[k + 1] = LabelNext(t, i, o, g[k], k + 1)
  <2> HIDE DEF x
  <2>1. g = [k \in Nat |-> IF k = 0 THEN x ELSE LabelNext(t, i, o, g[k - 1], k)]
    BY <1>14, Zenon DEF LabelNext
  <2>2. \A k \in Nat : k + 1 \in Nat /\ k + 1 # 0 /\ (k + 1) - 1 = k
    OBVIOUS
  <2> QED BY <2>1, <2>2
<1> HIDE DEF Is, F, x, S
<1> DEFINE Good(k) == g[k] \in S /\ \A j \in 1..k : j <= c => o[j] \in DOMAIN g[k]
           bad == {k \in Nat : ~Good(k)}
<1>16. ASSUME bad # {} PROVE FALSE
  <2>1. PICK k \in bad : \A j \in bad : k <= j
    <3>1. bad \subseteq Nat
      OBVIOUS
    <3> HIDE DEF bad
    <3> QED BY <1>16, <3>1, Least
  <2>2. CASE k = 0
    BY <1>4, <1>15, <2>1, <2>2
  <2>3. CASE k # 0
    <3>1. PICK j \in Nat : j + 1 = k
      <4>1. k - 1 \in Nat /\ (k - 1) + 1 = k
        BY <2>1, <2>3
      <4> QED BY <4>1
    <3>2. Good(j)
      <4>1. ~(k <= j)
        BY <3>1
      <4> QED BY <2>1, <4>1
    <3>3. /\ g[k] \in S /\ DOMAIN g[j] \subseteq DOMAIN g[k]
          /\ k <= c => o[k] \in DOMAIN g[k]
      <4>1. k \in Nat \ {0} /\ g[k] = LabelNext(t, i, o, g[j], k) /\ g[j] \in Labelled(t, i)
        BY <1>15, <2>1, <2>3, <3>1, <3>2 DEF S
      <4>2. PICK w : w = g[j]
        OBVIOUS
      <4>3. PICK v : v = LabelNext(t, i, o, w, k)
        OBVIOUS
      <4>4. v \in Labelled(t, i) /\ DOMAIN w \subseteq DOMAIN v /\ (k <= Len(o) => o[k] \in DOMAIN v)
        BY <1>3, <4>1, <4>2, <4>3, LabelStep
      <4> QED BY <1>2, <4>1, <4>2, <4>3, <4>4 DEF S
    <3>4. \A m \in 1..k : m = k \/ m \in 1..j
      BY <3>1
    <3> QED BY <2>1, <3>2, <3>3, <3>4
  <2> QED BY <2>2, <2>3
<1>17. Good(c)
  BY <1>16
<1>18. g[c] \in [Nodes(t) -> Like(i)]
  <2>1. PICK D \in SUBSET Nodes(t) : g[c] \in [D -> Like(i)]
    BY <1>17 DEF S, Labelled
  <2>2. \A n \in Nodes(t) : n \in D
    BY <1>3, <1>17, <2>1
  <2> QED BY <2>1, <2>2
<1> QED BY <1>12, <1>13, <1>18

LEMMA FlowIs ==
  ASSUME NEW t \in Templates, Joined(t), Orders(t) # {}, NEW i \in Label, NEW b, NEW ms
  PROVE  FlowErrors(t, i, b, ms) = {} <=>
            \A n \in Nodes(t) : ToPublic(t, b, n, ms) =>
                i.class = Public /\ (i.trust < TrustRestricted \/ \A e \in t.edges : e[2] # n)
<1>1. PICK l : l = Labels(t, i)
  OBVIOUS
<1>2. \A n \in Nodes(t) : l[n].class = i.class /\ l[n].trust = i.trust
  BY <1>1, LabelsAre DEF Like
<1>3. FlowErrors(t, i, b, ms) = {} <=>
         \A n \in Nodes(t) : ToPublic(t, b, n, ms) =>
             ~(l[n].class > Public) /\ ~\E p \in Pred(t, n) : l[p].trust = TrustRestricted
  BY <1>1, Zenon DEF FlowErrors
<1>4. (~(i.class > Public) <=> i.class = Public) /\ (i.trust # TrustRestricted <=> i.trust < TrustRestricted)
  BY DEF Label, Public, Restricted, TrustRestricted
<1>5. \A n \in Nodes(t) : (\E p \in Pred(t, n) : l[p].trust = TrustRestricted)
                             <=> i.trust = TrustRestricted /\ Pred(t, n) # {}
  BY <1>2, PredsAre
<1>6. \A n : Pred(t, n) # {} <=> ~\A e \in t.edges : e[2] # n
  BY DEF Pred
<1> QED BY <1>2, <1>3, <1>4, <1>5, <1>6

\* TrustCompiler.compile rejects a plan exactly if it is not sound: a high-risk node
\* that some order of the nodes reaches before a person was asked, a foreign purpose,
\* a capability with more effects than its node, or data above public at a public model.
THEOREM CompileDecidesHolds == Spec => []CompileDecides
<1>1. PlanInv => CompileDecides
  <2> SUFFICES ASSUME PlanInv, stage \in {"close", "sign", "signed", "open", "rejected"}
               PROVE  stage = "rejected" <=> ~Sound
    BY Zenon DEF CompileDecides
  <2>1. /\ template \in Templates /\ ctx.label \in Label /\ ~ParseRaises(template)
        /\ stage = "rejected" <=>
              CompileErrors(template, TaskPurpose, ctx.label, bindings, checked) # {}
    <3>1. ctx \in Context
      BY PlanningAssumption DEF PlanInv, TInv
    <3> QED BY <3>1 DEF PlanInv, TInv, ParseInv, CheckInv, Compiled, Context
  <2>2. Joined(template) /\ Orders(template) # {}
    BY <2>1, ParseRaisesIs DEF WellFormed, Joined
  <2>3. PICK t, i, b, ms : t = template /\ i = ctx.label /\ b = bindings /\ ms = checked
    OBVIOUS
  <2>4. TypeErrors(t) = {} <=> \A n \in Nodes(t) : t.nodes[n].effects \cap HighRisk # {} => AskedBefore(t, n)
    BY <2>1, <2>2, <2>3, TypesAre
  <2>5. FlowErrors(t, i, b, ms) = {} <=>
            \A n \in Nodes(t) : ToPublic(t, b, n, ms) =>
                i.class = Public /\ (i.trust < TrustRestricted \/ \A e \in t.edges : e[2] # n)
    BY <2>1, <2>2, <2>3, FlowIs
  <2>6. EffectErrors(t, b, ms) = {} <=>
            \A n \in Nodes(t) : Known(b, n, ms) => ms[b[n]].effects \subseteq t.nodes[n].effects
    BY Zenon DEF EffectErrors
  <2>7. DelegationErrors(t, TaskPurpose) = {} <=> \A n \in Nodes(t) : t.nodes[n].purpose = TaskPurpose
    BY Zenon DEF DelegationErrors
  <2>8. CompileErrors(t, TaskPurpose, i, b, ms) = {} <=>
            TypeErrors(t) = {} /\ FlowErrors(t, i, b, ms) = {} /\ EffectErrors(t, b, ms) = {}
               /\ DelegationErrors(t, TaskPurpose) = {}
    BY DEF CompileErrors
  <2>9. \A n : SeesPublic(n) <=> ToPublic(t, b, n, ms)
    BY <2>3 DEF SeesPublic, ToPublic, IsPublic
  <2>10. Sound <=> \A n \in Nodes(t) :
            /\ t.nodes[n].purpose = TaskPurpose
            /\ t.nodes[n].effects \cap HighRisk # {} => AskedBefore(t, n)
            /\ Known(b, n, ms) => ms[b[n]].effects \subseteq t.nodes[n].effects
            /\ ToPublic(t, b, n, ms) =>
                i.class = Public /\ (i.trust < TrustRestricted \/ \A e \in t.edges : e[2] # n)
    BY <2>3, <2>9 DEF Sound
  <2>11. CompileErrors(t, TaskPurpose, i, b, ms) = {} <=> Sound
    BY <2>4, <2>5, <2>6, <2>7, <2>8, <2>10
  <2> QED BY <2>1, <2>3, <2>11
<1> QED BY <1>1, PlanStart, PlanStep, PTL DEF Spec

=============================================================================
