---------------------------- MODULE PlanningMC ----------------------------
(* Three nodes of seven shapes, some of whose edges close a cycle or leave *)
(* the template, six tasks, one of them over its budget, four registries.  *)
EXTENDS Planning

N(p, k, e, a, f, r) == [purpose |-> p, kinds |-> k, effects |-> e, approval |-> a,
                        fallback |-> f, research |-> r]

\* the public model is cheap and fast, the local one is neither, the sink does more
MCGrown == [DefaultManifests EXCEPT ![PublicModel].p50 = 5, ![Local].cost = 900,
                                    ![Sink].effects = {"write", "notify"}]
MCStores == {DefaultManifests, MCGrown, [c \in {Agent} |-> DefaultManifests[Agent]],
             [c \in {} |-> HumanManifest]}

Analyst == N("review", {"local-model", "public-model"}, {"read"}, FALSE, Local, FALSE)
Research == N("review", {"public-model"}, {"read"}, FALSE, PublicModel, TRUE)
Gate == N("review", {"human"}, {}, TRUE, NoCap, FALSE)
Writer == N("review", {"sink"}, {"write"}, FALSE, NoCap, FALSE)
Shapes == {Analyst, Gate, Writer, Research,
           N("review", {"sink"}, {"write", "notify"}, TRUE, Sink, FALSE)}
Odd == {N("audit", {"local-model"}, {"read"}, FALSE, NoCap, FALSE),
        N("review", {}, {"read"}, FALSE, Local, FALSE)}

Edges == {<<1, 2>>, <<2, 3>>, <<3, 1>>, <<2, 2>>}
T(nodes, edges, purposes) == [nodes |-> nodes, edges |-> edges, purposes |-> purposes]
MCTemplates ==
    {T(<<a, b, c>>, e, {"review"}) : a \in Shapes, b \in Shapes, c \in Shapes, e \in SUBSET Edges}
    \cup {T(<<a, b>>, e, p) : a \in Odd, b \in Shapes, e \in {{}, {<<2, 1>>}, {<<1, 4>>}},
                              p \in {{}, {"review"}, {"review", "audit"}}}

Task(c, t, r, region, budget) ==
    [label |-> [class |-> c, trust |-> t, residency |-> r], region |-> region, budget |-> budget]
MCContexts == {Task(Internal, 3, "local", "local", 1),
               Task(Public, TrustRestricted, "public", "local", 1),
               Task(Partner, 2, "cn", "us", 1),
               Task(Partner, 2, "cn", "cn", 1),
               Task(Restricted, 3, "local", "local", 1),
               Task(Public, 2, "public", "local", -1)}
=============================================================================
