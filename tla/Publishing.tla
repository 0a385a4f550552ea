---------------------------- MODULE Publishing ----------------------------
(***************************************************************************)
(* Published agent cards: PublishedRegistry (orchestra/publishing/         *)
(* registry.py), the admission check of Ingress, and the /admin/publish    *)
(* endpoints of api/app.py that keep one registry in the server's state.   *)
(*                                                                         *)
(* The endpoints are sync: Workers are threads of the server's pool and no *)
(* lock orders them.  POST /admin/publish does not publish into the        *)
(* registry: it builds a new one, copies the tables of the current one     *)
(* into it, publishes there and makes it the current one.  The entries are *)
(* objects that the copies share.                                          *)
(***************************************************************************)
EXTENDS Integers, Sequences

CONSTANTS Caps,        \* capability ids
          Vers,        \* versions
          Workers,     \* threads that call the registry
          MaxEntries,  \* bound on the cards ever published
          NoVer, NoKey, NoRegistry

ASSUME MaxEntriesType == MaxEntries \in Nat

VARIABLES entry,     \* entry[n]: the n-th card published
          registry,  \* state._registry
          call,      \* call[w]: where worker w is in its call
          revoked,   \* the versions whose revocation has returned
          raced,     \* history: the versions of publications that overlapped another
          crossed    \* history: the versions of publications and revocations that did

vars == <<entry, registry, call, revoked, raced, crossed>>

Keys == Caps \X Vers
Numbers == 0..MaxEntries

\* Status draft belongs to a card that no registry has seen.
CardStatus == {"published", "deprecated", "revoked"}

Card == [key : Keys, status : CardStatus]

\* One PublishedRegistry object: which entry is _by_version[k] (0: none), _latest, the
\* keys of _by_partner, and the object's identity.
Registry == [by : [Keys -> Numbers], latest : [Caps -> Vers \cup {NoVer}],
             listed : SUBSET Keys, id : Numbers]

ASSUME SentinelType == NoRegistry \notin Registry /\ NoVer \notin Vers /\ NoKey \notin Keys

Empty == [by |-> [k \in Keys |-> 0], latest |-> [c \in Caps |-> NoVer], listed |-> {}, id |-> 0]

Call == [pc : {"idle", "latest", "partners", "publish", "scan", "promote", "unlist"},
         key : Keys \cup {NoKey},
         own : Registry,                \* the registry the call is building
         id : Numbers,                  \* the registry object a revocation works on
         to : Vers \cup {NoVer}]        \* what the scan of a revocation found

IdleCall == [pc |-> "idle", key |-> NoKey, own |-> Empty, id |-> 0, to |-> NoVer]

TypeOK == /\ entry \in Seq(Card) /\ Len(entry) <= MaxEntries
          /\ registry \in Registry \cup {NoRegistry}
          /\ call \in [Workers -> Call]
          /\ revoked \subseteq Keys /\ raced \subseteq Keys /\ crossed \subseteq Keys

Init == /\ entry = <<>>
        /\ registry = NoRegistry
        /\ call = [w \in Workers |-> IdleCall]
        /\ revoked = {} /\ raced = {} /\ crossed = {}

-----------------------------------------------------------------------------
(* Which publications and revocations overlap.  Of two that do, one begins while the *)
(* other is in the middle.                                                            *)

Busy(w) == {v \in Workers \ {w} : call[v].pc # "idle"}

Building(v) == call[v].pc \in {"latest", "partners", "publish"}

KeysOf(W) == {call[v].key : v \in W}

\* A publication or revocation of k begins in worker w.
Crossing(w, k) ==
    crossed' = IF Busy(w) = {} THEN crossed ELSE crossed \cup {k} \cup KeysOf(Busy(w))

\* A publication of k begins in worker w.
Racing(w, k) ==
    LET builders == {v \in Busy(w) : Building(v)}
    IN raced' = IF builders = {} THEN raced ELSE raced \cup {k} \cup KeysOf(builders)

-----------------------------------------------------------------------------
(* publish and publish_new_version. *)

\* Mutant: the version may be published again.
Unpublished_Always(r, k) == TRUE

\* A (capability_id, version) pair may be published only once.
Unpublished(r, k) == r.by[k] = 0

\* Mutant: the capability instead of the version becomes the latest.
Added_Swapped(r, k, n) == [r EXCEPT !.by[k] = n, !.listed = @ \cup {k},
                                    !.latest[k[1]] = IF @ = NoVer THEN k[1] ELSE @]

\* Registry r after it has accepted entry n: the first version of a capability is its latest.
Added(r, k, n) == [r EXCEPT !.by[k] = n, !.listed = @ \cup {k},
                            !.latest[k[1]] = IF @ = NoVer THEN k[2] ELSE @]

NewCard(k) == entry' = Append(entry, [key |-> k, status |-> "published"])
NewNumber == Len(entry) + 1
Room == Len(entry) < MaxEntries

\* publish_new_version on the current registry: the new version becomes the latest.
PublishNewVersion(w, k) ==
    /\ call[w].pc = "idle" /\ Room /\ registry # NoRegistry /\ Unpublished(registry, k)
    /\ NewCard(k)
    /\ registry' = [Added(registry, k, NewNumber) EXCEPT !.latest[k[1]] = k[2]]
    /\ Racing(w, k) /\ Crossing(w, k)
    /\ UNCHANGED <<call, revoked>>

-----------------------------------------------------------------------------
(* POST /admin/publish: three copies, each from the registry that is current by then. *)

Step(w, next) == call' = [call EXCEPT ![w] = next]

\* Mutant: the cards published before are not carried over.
Versions_Dropped(r) == Empty.by

Versions(r) == r.by

PublishStart(w, k) ==
    /\ Room /\ call[w].pc = "idle"
    /\ IF registry = NoRegistry
       THEN Step(w, [IdleCall EXCEPT !.pc = "publish", !.key = k])
       ELSE Step(w, [IdleCall EXCEPT !.pc = "latest", !.key = k, !.own.by = Versions(registry)])
    /\ Racing(w, k) /\ Crossing(w, k)
    /\ UNCHANGED <<entry, registry, revoked>>

CopyLatest(w) ==
    /\ call[w].pc = "latest"
    /\ Step(w, [call[w] EXCEPT !.pc = "partners", !.own.latest = registry.latest])
    /\ UNCHANGED <<entry, registry, revoked, raced, crossed>>

CopyPartners(w) ==
    /\ call[w].pc = "partners"
    /\ Step(w, [call[w] EXCEPT !.pc = "publish", !.own.listed = registry.listed])
    /\ UNCHANGED <<entry, registry, revoked, raced, crossed>>

\* registry.publish on the copy, which raises for a version it has, then the assignment.
PublishEnd(w) ==
    LET k == call[w].key
    IN /\ call[w].pc = "publish"
       /\ IF Unpublished(call[w].own, k)
          THEN /\ Room /\ NewCard(k)
               /\ registry' = [Added(call[w].own, k, NewNumber) EXCEPT !.id = NewNumber]
          ELSE UNCHANGED <<entry, registry>>
       /\ Step(w, IdleCall)
       /\ UNCHANGED <<revoked, raced, crossed>>

-----------------------------------------------------------------------------
(* deprecate and revoke. *)

Has(k) == registry # NoRegistry /\ registry.by[k] # 0

\* Whatever the card's status is, revoked too.
Deprecate(w, k) ==
    /\ call[w].pc = "idle" /\ Has(k)
    /\ entry' = [entry EXCEPT ![registry.by[k]].status = "deprecated"]
    /\ UNCHANGED <<registry, call, revoked, raced, crossed>>

\* POST /admin/publish/{capability_id}/{version}/revoke
RevokeCard(w, k) ==
    /\ call[w].pc = "idle" /\ Has(k)
    /\ entry' = [entry EXCEPT ![registry.by[k]].status = "revoked"]
    /\ Step(w, [IdleCall EXCEPT !.pc = "scan", !.key = k, !.id = registry.id])
    /\ Crossing(w, k)
    /\ UNCHANGED <<registry, revoked, raced>>

\* What the call does to a registry that is no longer the current one is lost.
Same(w) == registry.id = call[w].id

PublishedIn(r, k) == r.by[k] # 0 /\ entry[r.by[k]].status = "published"

\* Mutant: another published version is not promoted.
Promoted_None(c, ver) == NoVer

\* The other published version that was inserted first, if there is one.
Promoted(c, ver) ==
    LET others == {v \in Vers \ {ver} : PublishedIn(registry, <<c, v>>)}
    IN IF others = {} THEN NoVer
       ELSE CHOOSE v \in others :
              \A u \in others : registry.by[<<c, v>>] <= registry.by[<<c, u>>]

RevokeScan(w) ==
    LET c == call[w].key[1]
        ver == call[w].key[2]
    IN /\ call[w].pc = "scan"
       /\ IF Same(w) /\ registry.latest[c] = ver
          THEN Step(w, [call[w] EXCEPT !.pc = "promote", !.to = Promoted(c, ver)])
          ELSE Step(w, [call[w] EXCEPT !.pc = "unlist"])
       /\ UNCHANGED <<entry, registry, revoked, raced, crossed>>

RevokePromote(w) ==
    /\ call[w].pc = "promote"
    /\ registry' = IF Same(w) THEN [registry EXCEPT !.latest[call[w].key[1]] = call[w].to]
                   ELSE registry
    /\ Step(w, [call[w] EXCEPT !.pc = "unlist"])
    /\ UNCHANGED <<entry, revoked, raced, crossed>>

\* Mutant: the partner's index keeps the version.
Unlisted_Kept(r, k) == r.listed

Unlisted(r, k) == r.listed \ {k}

RevokeEnd(w) ==
    /\ call[w].pc = "unlist"
    /\ registry' = IF Same(w) THEN [registry EXCEPT !.listed = Unlisted(registry, call[w].key)]
                   ELSE registry
    /\ revoked' = revoked \cup {call[w].key}
    /\ Step(w, IdleCall)
    /\ UNCHANGED <<entry, raced, crossed>>

-----------------------------------------------------------------------------

Next == \/ \E w \in Workers, k \in Keys : \/ PublishStart(w, k) \/ PublishNewVersion(w, k)
                                          \/ Deprecate(w, k) \/ RevokeCard(w, k)
        \/ \E w \in Workers : \/ CopyLatest(w) \/ CopyPartners(w) \/ PublishEnd(w)
                              \/ RevokeScan(w) \/ RevokePromote(w) \/ RevokeEnd(w)

Spec == Init /\ [][Next]_vars

-----------------------------------------------------------------------------
(* Properties. *)

Quiet == \A w \in Workers : call[w].pc = "idle"

\* The version that get(c) resolves to, or get(c, version = v).
Resolved(c, v) == IF v = NoVer THEN registry.latest[c] ELSE v

\* Ingress.admit's first check, for a pinned version or none.
Admits(c, v) == /\ registry # NoRegistry
                /\ Resolved(c, v) # NoVer
                /\ PublishedIn(registry, <<c, Resolved(c, v)>>)

\* The copies lose nothing (admin_publish, "carry over previously published cards"): every
\* card whose publisher was answered is in the registry, and the only one of its version,
\* unless its publication met another: of two that overlap the later assignment drops what
\* the earlier one added.  No other call, and no other version, pays for that.
CardsAreKept ==
    \A n \in DOMAIN entry : entry[n].key \notin raced => registry.by[entry[n].key] = n

\* revoke: "All future calls referencing (capability_id, version) are denied by the ingress
\* layer", whichever way the version is asked for, whatever is published later and whatever
\* calls the revocation met.  Only a version that overlapping publications dropped can be
\* published a second time.
RevokedIsDenied ==
    \A c \in Caps, v \in Vers \cup {NoVer} :
       Admits(c, v) => <<c, Resolved(c, v)>> \notin revoked \ raced

\* As long as some version of a capability is published, a caller that pins none finds one
\* that is not revoked, whatever versions came, were deprecated or revoked before, and
\* whatever calls about other capabilities did meanwhile.
PublishedIsFound ==
    Quiet /\ registry # NoRegistry =>
       \A k \in Keys : PublishedIn(registry, k) /\ (\A u \in Vers : <<k[1], u>> \notin crossed) =>
          LET v == registry.latest[k[1]]
          IN /\ v # NoVer /\ registry.by[<<k[1], v>>] # 0
             /\ entry[registry.by[<<k[1], v>>]].status # "revoked"

\* list_for_partner shows every published card of the partner and no revoked one, but for
\* those whose publications met, or whose revocation met a publication's copy.
PartnerSeesPublished ==
    Quiet /\ registry # NoRegistry =>
       /\ \A k \in Keys \ raced : PublishedIn(registry, k) => k \in registry.listed
       /\ \A k \in registry.listed \ raced : registry.by[k] # 0
       /\ \A k \in registry.listed \ crossed : entry[registry.by[k]].status # "revoked"
=============================================================================
