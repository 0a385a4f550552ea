------------------------------ MODULE Ingress ------------------------------
(***************************************************************************)
(* A partner's call to a published capability: the kill switch, the        *)
(* ingress, the egress PEP with its field projection and the release gate  *)
(* (orchestra/publishing/, orchestra/xfr/), over the registry of           *)
(* Publishing.tla, whose cards are published, deprecated and revoked       *)
(* meanwhile.                                                              *)
(*                                                                         *)
(* The repository ships the four parts for a host to call.  The host here  *)
(* asks the kill switch, then the ingress, projects its request and        *)
(* releases what the capability answers through a gate made for the card   *)
(* that the ingress returned.  Each part that is given a registry keeps    *)
(* that object; POST /admin/publish puts a new one beside it, and the      *)
(* entries are shared.                                                     *)
(***************************************************************************)
EXTENDS Publishing, FiniteSets

LOCAL INSTANCE FiniteSetsExt

CONSTANTS Auds, Scopes,
          Offer,         \* the audiences and required scopes of each card
          Fields,        \* fields of a request
          Manifests,     \* the manifest of a capability's view, or NoManifest
          Size,          \* Size[f]: bytes of field f, as it is
          HashSize,      \* bytes of a digest
          MaxUnsourced,  \* ReleaseGate's max_unsourced_claims
          MaxClaims,     \* bound: claims of an answer
          NoManifest

VARIABLES held,     \* the registry object that the host's parts were given
          tripped,  \* KillSwitch.tripped_at is set
          visit     \* the call

ingressVars == <<held, tripped, visit>>
allVars == <<vars, ingressVars>>

\* AgentCard.audiences and contract_snapshot["audiences"][*].required_scopes
OfferType == [audiences : SUBSET Auds, scopes : SUBSET Scopes]

ManifestType == [allowed : SUBSET Fields, hashed : SUBSET Fields, budget : Nat]

ASSUME IngressAssumption ==
    /\ Offer \in [Keys -> OfferType]
    /\ Manifests \subseteq ManifestType \cup {NoManifest}
    /\ Size \in [Fields -> Nat]
    /\ {HashSize, MaxUnsourced, MaxClaims} \subseteq Nat

\* The claims the ingress looks at; a token that does not decode is one that is not signed.
Token == [signed : BOOLEAN, aud : Auds, scopes : SUBSET Scopes]

\* What the gate sees of a citation: the classifications of its sources, and its audience.
Citation == [sources : SUBSET {"releasable", "restricted"}, audience : Auds]

\* An answer with its citation manifest: free text or claims, a forbidden key or none.
Answer == [structured : BOOLEAN, forbidden : BOOLEAN, claims : 0..MaxClaims,
           cites : UNION {[1..n -> Citation] : n \in 0..MaxClaims}]

NoVisit == [pc |-> "idle", cap |-> NoKey, ver |-> NoVer, key |-> NoKey, shut |-> FALSE,
            gone |-> {}]

IngressInit == /\ Init
               /\ held = NoRegistry
               /\ tripped = FALSE
               /\ visit = NoVisit

-----------------------------------------------------------------------------
(* The registry and the operator *)

\* The parts are made with the registry of the day.
Open == /\ registry # NoRegistry /\ visit = NoVisit
        /\ held' = registry
        /\ UNCHANGED <<vars, tripped, visit>>

\* A call of the registry's; what it changes in place shows in the object that is held.
Administer ==
    /\ Next
    /\ held' = IF held # NoRegistry /\ held.id = registry.id /\ registry'.id = held.id
               THEN registry' ELSE held
    /\ UNCHANGED <<tripped, visit>>

Trip == /\ ~tripped
        /\ tripped' = TRUE
        /\ UNCHANGED <<vars, held, visit>>

\* A call that began behind a shut door may find it open now.
Reset == /\ tripped
         /\ tripped' = FALSE
         /\ visit' = [visit EXCEPT !.shut = FALSE]
         /\ UNCHANGED <<vars, held>>

-----------------------------------------------------------------------------
(* The call *)

Go(pc) == visit' = [visit EXCEPT !.pc = pc]

Deny == visit' = NoVisit

\* The call begins: the switch and the revocations as they are now.
Enter == /\ held # NoRegistry /\ visit = NoVisit
         /\ \E c \in Caps, v \in Vers \cup {NoVer} :
               visit' = [NoVisit EXCEPT !.pc = "switch", !.cap = c, !.ver = v,
                                        !.shut = tripped, !.gone = revoked]
         /\ UNCHANGED <<vars, held, tripped>>

\* KillSwitch.admit reads the switch before it looks at the card.
AskSwitch == /\ visit.pc = "switch"
             /\ IF tripped THEN Deny ELSE Go("find")
             /\ UNCHANGED <<vars, held, tripped>>

\* registry.get: the version asked for, or the latest, if the registry has it.
Wanted == LET v == IF visit.ver = NoVer THEN held.latest[visit.cap] ELSE visit.ver
          IN IF v = NoVer THEN NoKey
             ELSE IF held.by[<<visit.cap, v>>] = 0 THEN NoKey ELSE <<visit.cap, v>>

Look(from, to) == /\ visit.pc = from
                  /\ IF Wanted = NoKey THEN Deny
                     ELSE visit' = [visit EXCEPT !.pc = to, !.key = Wanted]
                  /\ UNCHANGED <<vars, held, tripped>>

\* Mutant: a card that the registry has is taken as it is.
StillPublished_Known(k) == held.by[k] # 0

StillPublished(k) == entry[held.by[k]].status = "published"

Fetch(from, to) == /\ visit.pc = from
                   /\ IF StillPublished(visit.key) THEN Go(to) ELSE Deny
                   /\ UNCHANGED <<vars, held, tripped>>

\* KillSwitch.admit, after the switch
SwitchFinds == Look("find", "fetch")
SwitchFetches == Fetch("fetch", "ingress")

\* Ingress.admit, check 1
IngressFinds == Look("ingress", "card")
IngressFetches == Fetch("card", "token")

\* Checks 2 to 4.  The expiry in the token is not looked at.
Fits(t, k) == /\ t.signed
              /\ t.aud \in Offer[k].audiences
              /\ Offer[k].scopes \subseteq t.scopes

Verify == /\ visit.pc = "token"
          /\ \E t \in Token : IF Fits(t, visit.key) THEN Go("inside") ELSE Deny
          /\ UNCHANGED <<vars, held, tripped>>

\* FieldProjector.project: the allowed fields, some of them as digests.
Projected(m, payload) == payload \cap m.allowed

Bytes(m, fs) == MapThenSumSet(LAMBDA f : IF f \in m.hashed THEN HashSize ELSE Size[f], fs)

\* EgressPEP.project: no manifest, or too many bytes after the redaction, and the call ends.
Forward == /\ visit.pc = "inside"
           /\ \E m \in Manifests, payload \in SUBSET Fields :
                 IF m = NoManifest \/ Bytes(m, Projected(m, payload)) > m.budget THEN Deny
                 ELSE Go("sent")
           /\ UNCHANGED <<vars, held, tripped>>

\* ReleaseGate.release for the card that the ingress returned.
Releasable(a, k) ==
    /\ a.structured /\ ~a.forbidden
    /\ Len(a.cites) = a.claims
    /\ Cardinality({i \in DOMAIN a.cites : a.cites[i].sources = {}}) <= MaxUnsourced
    /\ \A i \in DOMAIN a.cites : /\ "restricted" \notin a.cites[i].sources
                                 /\ a.cites[i].audience \in Offer[k].audiences

Release == /\ visit.pc = "sent"
           /\ \E a \in Answer : IF Releasable(a, visit.key) THEN Go("released") ELSE Deny
           /\ UNCHANGED <<vars, held, tripped>>

Leave == /\ visit.pc = "released"
         /\ Deny
         /\ UNCHANGED <<vars, held, tripped>>

Visit == \/ Enter \/ AskSwitch \/ SwitchFinds \/ SwitchFetches \/ IngressFinds
         \/ IngressFetches \/ Verify \/ Forward \/ Release \/ Leave

IngressNext == Open \/ Administer \/ Trip \/ Reset \/ Visit

IngressSpec == IngressInit /\ [][IngressNext]_allVars

-----------------------------------------------------------------------------
\* KillSwitch: "Every subsequent admit raises until reset is called", and revoke: "All future
\* calls are denied": a call that gets past the doors began while the switch was open, or
\* found it reset, and is served from a card whose revocation had not returned by then,
\* although each part reads the registry on its own and may hold an old one.
OnlyPermittedCalls ==
    visit.pc \in {"token", "inside", "sent", "released"} =>
       ~visit.shut /\ visit.key \notin visit.gone \ raced
=============================================================================
