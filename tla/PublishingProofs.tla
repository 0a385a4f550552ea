------------------------- MODULE PublishingProofs -------------------------
(***************************************************************************)
(* Proofs about Publishing and Ingress, for any threads, capabilities,     *)
(* versions, audiences, views and bounds: types, and what the registry     *)
(* promises of every version whose calls met no other.  A partner's call   *)
(* changes nothing of the registry, so the same holds with partners too,   *)
(* and only permitted calls get in.                                        *)
(***************************************************************************)
EXTENDS Ingress, SequenceTheorems, WellFoundedInduction, TLAPS

\* The registry, or the empty one that the first publication starts with.
Current == IF registry = NoRegistry THEN Empty ELSE registry

\* The versions of registry r are entries, of the cards e, of their own key.
Sound(r, e) == \A k \in Keys : r.by[k] # 0 => /\ r.by[k] \in 1..Len(e)
                                              /\ e[r.by[k]].key = k

\* A call in the middle has a version, and all but the last step of a publication a
\* registry r to work on.
CallSound(c, e, r) == /\ Sound(c.own, e)
                      /\ c.pc # "idle" => c.key \in Keys
                      /\ c.pc \notin {"idle", "publish"} => r # NoRegistry

\* The inductive invariant behind the types: entries are never removed or renamed.
TInv == /\ TypeOK
        /\ registry # NoRegistry => Sound(registry, entry)
        /\ \A w \in Workers : CallSound(call[w], entry, registry)

-----------------------------------------------------------------------------
(* The cards. *)

LEMMA Restatus ==
  ASSUME TypeOK, NEW n \in 1..Len(entry), NEW s \in CardStatus,
         entry' = [entry EXCEPT ![n].status = s]
  PROVE  /\ entry' \in Seq(Card) /\ Len(entry') = Len(entry)
         /\ \A m \in 1..Len(entry) : /\ entry'[m].key = entry[m].key
                                     /\ entry'[m].status = IF m = n THEN s ELSE entry[m].status
<1>1. entry \in Seq(Card) /\ entry[n] \in Card
  BY ElementOfSeq DEF TypeOK
<1> DEFINE e == [entry[n] EXCEPT !.status = s]
<1>2. e \in Card /\ e.key = entry[n].key /\ e.status = s
  BY <1>1 DEF Card
<1>3. entry' = [entry EXCEPT ![n] = e]
  OBVIOUS
<1> HIDE DEF e
<1>4. /\ entry' \in Seq(Card) /\ Len(entry') = Len(entry)
      /\ \A m \in 1..Len(entry) : entry'[m] = IF m = n THEN e ELSE entry[m]
  BY <1>1, <1>2, <1>3, ExceptSeq
<1>5. QED BY <1>2, <1>4

LEMMA NewEntry ==
  ASSUME TypeOK, NEW k \in Keys, NewCard(k)
  PROVE  /\ entry' \in Seq(Card) /\ Len(entry') = NewNumber /\ NewNumber \in Nat \ {0}
         /\ entry'[NewNumber] = [key |-> k, status |-> "published"]
         /\ \A m \in 1..Len(entry) : entry'[m] = entry[m] /\ m \in 1..Len(entry')
         /\ \A m \in 1..Len(entry') : m = NewNumber \/ m \in 1..Len(entry)
         /\ Room => Len(entry') <= MaxEntries
<1>1. entry \in Seq(Card) /\ [key |-> k, status |-> "published"] \in Card
  BY DEF TypeOK, Card, CardStatus
<1>2. QED BY <1>1, AppendProperties, MaxEntriesType DEF NewCard, NewNumber, Room

-----------------------------------------------------------------------------
(* Type correctness. *)

LEMMA EmptyTyped == Empty \in Registry /\ IdleCall \in Call /\ \A k \in Keys : Empty.by[k] = 0
  BY MaxEntriesType DEF Empty, IdleCall, Registry, Call, Numbers, Keys

LEMMA TypeInit == Init => TInv
<1> SUFFICES ASSUME Init PROVE TInv
  OBVIOUS
<1>2. <<>> \in Seq(Card) /\ Len(<<>>) = 0
  BY EmptySeq
<1>3. TypeOK
  BY <1>2, EmptyTyped, MaxEntriesType DEF Init, TypeOK
<1>4. \A w \in Workers : CallSound(call[w], entry, registry)
  BY EmptyTyped DEF Init, CallSound, Sound, IdleCall
<1>5. QED BY <1>3, <1>4 DEF TInv, Init

\* The scan of a revocation finds another published version if there is one.
LEMMA PromotedIs ==
  ASSUME TypeOK, registry # NoRegistry, NEW c \in Caps, NEW ver \in Vers
  PROVE  LET others == {v \in Vers \ {ver} : PublishedIn(registry, <<c, v>>)}
         IN IF others = {} THEN Promoted(c, ver) = NoVer ELSE Promoted(c, ver) \in others
<1> DEFINE others == {v \in Vers \ {ver} : PublishedIn(registry, <<c, v>>)}
           at(v) == registry.by[<<c, v>>]
<1>1. ASSUME others # {}
      PROVE  \E v \in others : \A u \in others : at(v) <= at(u)
  <2>1. \A v \in others : at(v) \in Nat
    BY MaxEntriesType DEF TypeOK, Registry, Keys, Numbers
  <2> DEFINE numbers == {at(v) : v \in others}
  <2>2. numbers \subseteq Nat /\ numbers # {}
    BY <1>1, <2>1
  <2>3. PICK m \in numbers : \A j \in numbers : ~(<<j, m>> \in OpToRel(<, Nat))
    BY <2>2, NatLessThanWellFounded, WFMin
  <2>4. ASSUME NEW j \in numbers PROVE m <= j
    <3>1. j \in Nat /\ m \in Nat
      BY <2>2
    <3>2. j < m => <<j, m>> \in OpToRel(<, Nat)
      BY <3>1, Zenon DEF OpToRel
    <3>3. ~(j < m)
      BY <2>3, <3>2, Zenon
    <3>4. QED BY <3>1, <3>3
  <2>5. PICK v \in others : at(v) = m
    BY <2>3
  <2>6. QED BY <2>4, <2>5
<1>2. CASE others = {}
  BY <1>2 DEF Promoted
<1>3. CASE others # {}
  <2>1. Promoted(c, ver) = CHOOSE v \in others : \A u \in others : at(v) <= at(u)
    BY <1>3 DEF Promoted
  <2>2. QED BY <1>1, <1>3, <2>1
<1>4. QED BY <1>2, <1>3

LEMMA AddedTyped ==
  ASSUME TypeOK, NEW r \in Registry, Sound(r, entry), NEW k \in Keys, Room, NewCard(k),
         NEW n, n = NewNumber
  PROVE  /\ n \in Numbers
         /\ Added(r, k, n) \in Registry
         /\ Added(r, k, n).by = [r.by EXCEPT ![k] = n]
         /\ Added(r, k, n).listed = r.listed \cup {k}
         /\ Added(r, k, n).latest = [r.latest EXCEPT ![k[1]] = IF @ = NoVer THEN k[2] ELSE @]
         /\ Sound(Added(r, k, n), entry')
<1>1. n \in Numbers
  BY NewEntry, MaxEntriesType DEF Room, NewNumber, Numbers
<1>2. k[1] \in Caps /\ k[2] \in Vers
  BY DEF Keys
<1>3. /\ Added(r, k, n) \in Registry
      /\ Added(r, k, n).by = [r.by EXCEPT ![k] = n]
      /\ Added(r, k, n).listed = r.listed \cup {k}
      /\ Added(r, k, n).latest = [r.latest EXCEPT ![k[1]] = IF @ = NoVer THEN k[2] ELSE @]
  BY <1>1, <1>2 DEF Registry, Added
<1>4. Sound(Added(r, k, n), entry')
  <2>1. SUFFICES ASSUME NEW j \in Keys, Added(r, k, n).by[j] # 0
                 PROVE  /\ Added(r, k, n).by[j] \in 1..Len(entry')
                        /\ entry'[Added(r, k, n).by[j]].key = j
    BY DEF Sound
  <2>2. r.by \in [Keys -> Numbers]
    BY DEF Registry
  <2>3. CASE j = k
    <3>1. Added(r, k, n).by[j] = n
      BY <1>3, <2>2, <2>3
    <3>2. n \in Nat \ {0} /\ Len(entry') = n /\ entry'[n] = [key |-> k, status |-> "published"]
      BY NewEntry
    <3>3. n \in 1..Len(entry') /\ entry'[n].key = k
      BY <3>2
    <3>4. QED BY <3>1, <2>3, <3>3
  <2>4. CASE j # k
    <3>1. Added(r, k, n).by[j] = r.by[j]
      BY <1>3, <2>2, <2>4
    <3>2. r.by[j] \in 1..Len(entry) /\ entry[r.by[j]].key = j
      BY <2>1, <3>1 DEF Sound
    <3>3. QED BY <3>1, <3>2, NewEntry
  <2>5. QED BY <2>3, <2>4
<1>5. QED BY <1>1, <1>3, <1>4

\* No card of e is gone or renamed in f.
Extends(e, f) == \A m \in 1..Len(e) : m \in 1..Len(f) /\ f[m].key = e[m].key

LEMMA SoundStays ==
  ASSUME NEW r, NEW e, NEW f, Sound(r, e), Extends(e, f)
  PROVE  Sound(r, f)
  BY DEF Sound, Extends

\* A step that changes at most the call of worker w, into c.
LEMMA CallsStaySound ==
  ASSUME TInv, NEW w \in Workers, NEW c \in Call, Step(w, c),
         Extends(entry, entry'), registry # NoRegistry => registry' # NoRegistry,
         CallSound(c, entry', registry')
  PROVE  /\ call' \in [Workers -> Call]
         /\ \A v \in Workers : CallSound(call'[v], entry', registry')
<1>1. /\ call \in [Workers -> Call]
      /\ call' \in [Workers -> Call]
      /\ \A v \in Workers : call'[v] = IF v = w THEN c ELSE call[v]
  BY DEF TInv, TypeOK, Step
<1>2. ASSUME NEW v \in Workers, v # w PROVE CallSound(call'[v], entry', registry')
  <2>1. call'[v] = call[v]
    BY <1>1, <1>2
  <2>2. CallSound(call[v], entry, registry)
    BY DEF TInv
  <2>3. Sound(call[v].own, entry')
    BY <2>2, SoundStays DEF CallSound
  <2>4. QED BY <2>1, <2>2, <2>3 DEF CallSound
<1>3. QED BY <1>1, <1>2

\* What an idle worker's call becomes when it starts.
LEMMA CallTyped ==
  ASSUME NEW k \in Keys, NEW i \in Numbers, NEW by \in [Keys -> Numbers]
  PROVE  /\ IdleCall \in Call /\ IdleCall.own = Empty /\ IdleCall.pc = "idle"
         /\ [IdleCall EXCEPT !.pc = "publish", !.key = k] \in Call
         /\ [IdleCall EXCEPT !.pc = "latest", !.key = k, !.own.by = by] \in Call
         /\ [IdleCall EXCEPT !.pc = "scan", !.key = k, !.id = i] \in Call
  BY EmptyTyped DEF IdleCall, Call, Registry

\* A step that changes the cards or the registry, but no call.
LEMMA CallsUntouched ==
  ASSUME TInv, UNCHANGED call, Extends(entry, entry'),
         registry # NoRegistry => registry' # NoRegistry
  PROVE  \A w \in Workers : CallSound(call'[w], entry', registry')
<1>1. ASSUME NEW w \in Workers PROVE CallSound(call[w], entry', registry')
  <2>1. CallSound(call[w], entry, registry)
    BY DEF TInv
  <2>2. Sound(call[w].own, entry')
    BY <2>1, SoundStays DEF CallSound
  <2>3. QED BY <2>1, <2>2 DEF CallSound
<1>2. QED BY <1>1

LEMMA CardsExtend ==
  ASSUME TypeOK, NEW k \in Keys, NewCard(k) \/ UNCHANGED entry
  PROVE  Extends(entry, entry')
<1>1. CASE NewCard(k)
  BY <1>1, NewEntry DEF Extends
<1>2. CASE UNCHANGED entry
  BY <1>2 DEF Extends
<1>3. QED BY <1>1, <1>2

\* The history is of versions, and only grows.
LEMMA HistoryGrows ==
  ASSUME TInv, [Next]_vars
  PROVE  /\ raced' \subseteq Keys /\ crossed' \subseteq Keys
         /\ raced \subseteq raced' /\ crossed \subseteq crossed'
<1>1. /\ raced \subseteq Keys /\ crossed \subseteq Keys
      /\ \A w \in Workers : call[w].pc # "idle" => call[w].key \in Keys
  BY DEF TInv, TypeOK, CallSound
<1>2. ASSUME NEW w \in Workers
      PROVE  /\ KeysOf(Busy(w)) \subseteq Keys
             /\ KeysOf({v \in Busy(w) : Building(v)}) \subseteq Keys
  BY <1>1 DEF KeysOf, Busy
<1>3. ASSUME NEW w \in Workers, NEW k \in Keys, Racing(w, k)
      PROVE  raced' \subseteq Keys /\ raced \subseteq raced'
  BY <1>1, <1>2, <1>3 DEF Racing
<1>4. ASSUME NEW w \in Workers, NEW k \in Keys, Crossing(w, k)
      PROVE  crossed' \subseteq Keys /\ crossed \subseteq crossed'
  BY <1>1, <1>2, <1>4 DEF Crossing
<1>5. ASSUME NEW w \in Workers, NEW k \in Keys, PublishStart(w, k) \/ PublishNewVersion(w, k)
      PROVE  Racing(w, k) /\ Crossing(w, k)
  BY <1>5 DEF PublishStart, PublishNewVersion
<1>6. ASSUME NEW w \in Workers, NEW k \in Keys, RevokeCard(w, k)
      PROVE  Crossing(w, k) /\ raced' = raced
  BY <1>6 DEF RevokeCard
<1>7. ASSUME NEW w \in Workers, NEW k \in Keys, Deprecate(w, k)
      PROVE  UNCHANGED <<raced, crossed>>
  BY <1>7 DEF Deprecate
<1>8. ASSUME NEW w \in Workers, \/ CopyLatest(w) \/ CopyPartners(w) \/ PublishEnd(w)
                                \/ RevokeScan(w) \/ RevokePromote(w) \/ RevokeEnd(w)
      PROVE  UNCHANGED <<raced, crossed>>
  BY <1>8 DEF CopyLatest, CopyPartners, PublishEnd, RevokeScan, RevokePromote, RevokeEnd
<1>9. CASE UNCHANGED vars
  BY <1>1, <1>9 DEF vars
<1>10. QED
  BY <1>1, <1>3, <1>4, <1>5, <1>6, <1>7, <1>8, <1>9 DEF Next

LEMMA TypeStep == TInv /\ [Next]_vars => TInv'
<1> SUFFICES ASSUME TInv, [Next]_vars PROVE TInv'
  OBVIOUS
<1>1. /\ TypeOK /\ call \in [Workers -> Call]
      /\ \A w \in Workers : CallSound(call[w], entry, registry)
      /\ entry \in Seq(Card) /\ Len(entry) \in Nat
      /\ registry # NoRegistry => registry \in Registry /\ Sound(registry, entry)
      /\ revoked \subseteq Keys /\ raced' \subseteq Keys /\ crossed' \subseteq Keys
  BY LenProperties, HistoryGrows DEF TInv, TypeOK
<1>2. Extends(entry, entry) /\ \A k \in Keys : Empty.by[k] = 0
  BY EmptyTyped DEF Extends
<1>3. ASSUME NEW w \in Workers, NEW k \in Keys, PublishStart(w, k) PROVE TInv'
  <2> DEFINE c == IF registry = NoRegistry
                  THEN [IdleCall EXCEPT !.pc = "publish", !.key = k]
                  ELSE [IdleCall EXCEPT !.pc = "latest", !.key = k, !.own.by = registry.by]
  <2>1. Step(w, c) /\ UNCHANGED <<entry, registry, revoked>>
    BY <1>3 DEF PublishStart, Versions
  <2>2. c \in Call
    BY <1>1, CallTyped, EmptyTyped, MaxEntriesType DEF Registry, Numbers
  <2>3. CallSound(c, entry, registry)
    BY <1>1, <1>2 DEF CallSound, Sound, IdleCall, Empty
  <2>4. QED
    BY <1>1, <1>2, <2>1, <2>2, <2>3, CallsStaySound DEF TInv, TypeOK
<1>4. ASSUME NEW w \in Workers, NEW k \in Keys, PublishNewVersion(w, k) PROVE TInv'
  <2> DEFINE n == NewNumber
             a == Added(registry, k, n)
  <2>1. /\ NewCard(k) /\ Room /\ registry # NoRegistry /\ UNCHANGED <<call, revoked>>
        /\ registry' = [a EXCEPT !.latest[k[1]] = k[2]]
    BY <1>4 DEF PublishNewVersion
  <2>2. a \in Registry /\ Sound(a, entry')
    BY <1>1, <2>1, AddedTyped
  <2>3. k[1] \in Caps /\ k[2] \in Vers
    BY DEF Keys
  <2> HIDE DEF a
  <2>4. registry' \in Registry /\ registry'.by = a.by
    BY <2>1, <2>2, <2>3 DEF Registry
  <2>5. registry' # NoRegistry /\ Sound(registry', entry')
    BY <2>2, <2>4, SentinelType DEF Sound
  <2>6. Extends(entry, entry') /\ entry' \in Seq(Card) /\ Len(entry') <= MaxEntries
    BY <1>1, <2>1, NewEntry, CardsExtend
  <2>7. \A v \in Workers : CallSound(call'[v], entry', registry')
    BY <2>1, <2>5, <2>6, CallsUntouched
  <2>8. QED BY <1>1, <2>1, <2>4, <2>5, <2>6, <2>7 DEF TInv, TypeOK
<1>5. ASSUME NEW w \in Workers, NEW k \in Keys, Deprecate(w, k) PROVE TInv'
  <2> DEFINE n == registry.by[k]
  <2>1. /\ registry # NoRegistry /\ n # 0 /\ UNCHANGED <<registry, call, revoked>>
        /\ entry' = [entry EXCEPT ![n].status = "deprecated"]
    BY <1>5 DEF Deprecate, Has
  <2>2. n \in 1..Len(entry)
    BY <1>1, <2>1 DEF Sound
  <2>3. "deprecated" \in CardStatus
    BY DEF CardStatus
  <2> HIDE DEF n
  <2>4. entry' \in Seq(Card) /\ Len(entry') = Len(entry) /\ Extends(entry, entry')
    BY <1>1, <2>1, <2>2, <2>3, Restatus DEF Extends
  <2>5. \A v \in Workers : CallSound(call'[v], entry', registry')
    BY <2>1, <2>4, CallsUntouched
  <2>6. Sound(registry, entry')
    BY <1>1, <2>1, <2>4, SoundStays
  <2>7. QED BY <1>1, <2>1, <2>4, <2>5, <2>6 DEF TInv, TypeOK
<1>6. ASSUME NEW w \in Workers, NEW k \in Keys, RevokeCard(w, k) PROVE TInv'
  <2> DEFINE n == registry.by[k]
             c == [IdleCall EXCEPT !.pc = "scan", !.key = k, !.id = registry.id]
  <2>1. /\ registry # NoRegistry /\ n # 0 /\ UNCHANGED <<registry, revoked>>
        /\ entry' = [entry EXCEPT ![n].status = "revoked"]
        /\ Step(w, c)
    BY <1>6 DEF RevokeCard, Has
  <2>2. n \in 1..Len(entry)
    BY <1>1, <2>1 DEF Sound
  <2>3. "revoked" \in CardStatus
    BY DEF CardStatus
  <2>4. c \in Call
    BY <1>1, <2>1, CallTyped, EmptyTyped DEF Registry
  <2>5. CallSound(c, entry', registry')
    BY <1>2, <2>1 DEF CallSound, Sound, IdleCall
  <2> HIDE DEF n, c
  <2>6. entry' \in Seq(Card) /\ Len(entry') = Len(entry) /\ Extends(entry, entry')
    BY <1>1, <2>1, <2>2, <2>3, Restatus DEF Extends
  <2>7. /\ call' \in [Workers -> Call]
        /\ \A v \in Workers : CallSound(call'[v], entry', registry')
    BY <2>1, <2>4, <2>5, <2>6, CallsStaySound
  <2>8. Sound(registry, entry')
    BY <1>1, <2>1, <2>6, SoundStays
  <2>9. QED BY <1>1, <2>1, <2>6, <2>7, <2>8 DEF TInv, TypeOK
<1>7. ASSUME NEW w \in Workers, CopyLatest(w) PROVE TInv'
  <2> DEFINE c == [call[w] EXCEPT !.pc = "partners", !.own.latest = registry.latest]
  <2>1. /\ Step(w, c) /\ UNCHANGED <<entry, registry, revoked>>
        /\ call[w].pc = "latest" /\ registry # NoRegistry
    BY <1>1, <1>7 DEF CopyLatest, CallSound
  <2>2. c \in Call
    <3>1. registry \in Registry /\ call[w] \in Call /\ call[w].own \in Registry
      BY <1>1, <2>1 DEF Call
    <3>2. PICK o : o = [call[w].own EXCEPT !.latest = registry.latest]
      OBVIOUS
    <3>3. o \in Registry
      BY <3>1, <3>2 DEF Registry
    <3>4. c = [call[w] EXCEPT !.pc = "partners", !.own = o]
      BY <3>1, <3>2 DEF Call
    <3> QED BY <3>1, <3>3, <3>4 DEF Call
  <2>3. CallSound(c, entry, registry)
    BY <1>1, <2>1 DEF CallSound, Sound, Call, Registry
  <2>4. QED
    BY <1>1, <1>2, <2>1, <2>2, <2>3, CallsStaySound DEF TInv, TypeOK
<1>8. ASSUME NEW w \in Workers, CopyPartners(w) PROVE TInv'
  <2> DEFINE c == [call[w] EXCEPT !.pc = "publish", !.own.listed = registry.listed]
  <2>1. /\ Step(w, c) /\ UNCHANGED <<entry, registry, revoked>>
        /\ call[w].pc = "partners" /\ registry # NoRegistry
    BY <1>1, <1>8 DEF CopyPartners, CallSound
  <2>2. c \in Call
    <3>1. registry \in Registry /\ call[w] \in Call /\ call[w].own \in Registry
      BY <1>1, <2>1 DEF Call
    <3>2. PICK o : o = [call[w].own EXCEPT !.listed = registry.listed]
      OBVIOUS
    <3>3. o \in Registry
      BY <3>1, <3>2 DEF Registry
    <3>4. c = [call[w] EXCEPT !.pc = "publish", !.own = o]
      BY <3>1, <3>2 DEF Call
    <3> QED BY <3>1, <3>3, <3>4 DEF Call
  <2>3. CallSound(c, entry, registry)
    BY <1>1, <2>1 DEF CallSound, Sound, Call, Registry
  <2>4. QED
    BY <1>1, <1>2, <2>1, <2>2, <2>3, CallsStaySound DEF TInv, TypeOK
<1>9. ASSUME NEW w \in Workers, PublishEnd(w) PROVE TInv'
  <2> DEFINE k == call[w].key
             own == call[w].own
             n == NewNumber
             a == Added(own, k, n)
  <2>1. /\ call[w].pc = "publish" /\ Step(w, IdleCall) /\ UNCHANGED revoked
        /\ \/ NewCard(k) /\ Room /\ registry' = [a EXCEPT !.id = n]
           \/ UNCHANGED <<entry, registry>>
    BY <1>9 DEF PublishEnd
  <2>2. k \in Keys /\ own \in Registry /\ Sound(own, entry)
    BY <1>1, <2>1 DEF CallSound, Call
  <2>3. Extends(entry, entry')
    BY <1>1, <2>1, <2>2, CardsExtend
  <2>4. CallSound(IdleCall, entry', registry')
    BY <1>2, CallTyped, EmptyTyped DEF CallSound, Sound, IdleCall
  <2>5. CASE NewCard(k) /\ Room /\ registry' = [a EXCEPT !.id = n]
    <3>1. a \in Registry /\ Sound(a, entry') /\ n \in Numbers
      BY <1>1, <2>2, <2>5, AddedTyped
    <3> HIDE DEF a, n
    <3>2. registry' \in Registry /\ registry'.by = a.by
      BY <2>5, <3>1 DEF Registry
    <3>3. registry' # NoRegistry /\ Sound(registry', entry')
      BY <3>1, <3>2, SentinelType DEF Sound
    <3>4. entry' \in Seq(Card) /\ Len(entry') <= MaxEntries
      BY <1>1, <2>2, <2>5, NewEntry
    <3>5. /\ call' \in [Workers -> Call]
          /\ \A v \in Workers : CallSound(call'[v], entry', registry')
      BY <2>1, <2>3, <2>4, <3>3, EmptyTyped, CallsStaySound
    <3>6. QED BY <1>1, <2>1, <3>2, <3>3, <3>4, <3>5 DEF TInv, TypeOK
  <2>6. CASE UNCHANGED <<entry, registry>>
    <3>1. /\ call' \in [Workers -> Call]
          /\ \A v \in Workers : CallSound(call'[v], entry', registry')
      BY <2>1, <2>3, <2>4, <2>6, EmptyTyped, CallsStaySound
    <3>2. QED BY <1>1, <2>1, <2>6, <3>1 DEF TInv, TypeOK
  <2>7. QED BY <2>1, <2>5, <2>6
<1>10. ASSUME NEW w \in Workers, RevokeScan(w) PROVE TInv'
  <2> DEFINE to == Promoted(call[w].key[1], call[w].key[2])
             c == IF Same(w) /\ registry.latest[call[w].key[1]] = call[w].key[2]
                  THEN [call[w] EXCEPT !.pc = "promote", !.to = to]
                  ELSE [call[w] EXCEPT !.pc = "unlist"]
  <2>1. call[w].pc = "scan" /\ UNCHANGED <<entry, registry, revoked>> /\ Step(w, c)
    BY <1>10 DEF RevokeScan
  <2>2. call[w] \in Call /\ call[w].key \in Keys /\ registry # NoRegistry
    BY <1>1, <2>1 DEF CallSound
  <2>3. to \in Vers \cup {NoVer}
    BY <1>1, <2>2, PromotedIs DEF Keys
  <2> HIDE DEF to
  <2>4. c \in Call /\ CallSound(c, entry, registry)
    BY <1>1, <2>1, <2>2, <2>3 DEF Call, CallSound
  <2>5. QED
    BY <1>1, <1>2, <2>1, <2>4, CallsStaySound DEF TInv, TypeOK
<1>11. ASSUME NEW w \in Workers, RevokePromote(w) PROVE TInv'
  <2> DEFINE c == [call[w] EXCEPT !.pc = "unlist"]
  <2>1. /\ call[w].pc = "promote" /\ UNCHANGED <<entry, revoked>> /\ Step(w, c)
        /\ \/ registry' = [registry EXCEPT !.latest[call[w].key[1]] = call[w].to]
           \/ registry' = registry
    BY <1>11 DEF RevokePromote
  <2>2. /\ call[w] \in Call /\ call[w].key \in Keys /\ registry \in Registry
        /\ call[w].key[1] \in Caps /\ call[w].to \in Vers \cup {NoVer}
    BY <1>1, <2>1 DEF CallSound, Call, Keys
  <2>3. registry' \in Registry /\ registry'.by = registry.by
    BY <2>1, <2>2 DEF Registry
  <2>4. registry' # NoRegistry /\ Sound(registry', entry')
    BY <1>1, <2>1, <2>2, <2>3, SentinelType DEF Sound
  <2>5. c \in Call /\ CallSound(c, entry', registry')
    BY <1>1, <2>1, <2>2, <2>4 DEF Call, CallSound
  <2>6. QED
    BY <1>1, <1>2, <2>1, <2>3, <2>4, <2>5, CallsStaySound DEF TInv, TypeOK
<1>12. ASSUME NEW w \in Workers, RevokeEnd(w) PROVE TInv'
  <2>1. /\ call[w].pc = "unlist" /\ UNCHANGED entry /\ Step(w, IdleCall)
        /\ revoked' = revoked \cup {call[w].key}
        /\ \/ registry' = [registry EXCEPT !.listed = registry.listed \ {call[w].key}]
           \/ registry' = registry
    BY <1>12 DEF RevokeEnd, Unlisted
  <2>2. call[w].key \in Keys /\ registry \in Registry
    BY <1>1, <2>1 DEF CallSound
  <2>3. registry' \in Registry /\ registry'.by = registry.by
    BY <2>1, <2>2 DEF Registry
  <2>4. registry' # NoRegistry /\ Sound(registry', entry')
    BY <1>1, <2>1, <2>2, <2>3, SentinelType DEF Sound
  <2>5. CallSound(IdleCall, entry', registry')
    BY <1>2, CallTyped, EmptyTyped DEF CallSound, Sound, IdleCall
  <2>6. QED
    BY <1>1, <1>2, <2>1, <2>2, <2>3, <2>4, <2>5, EmptyTyped, CallsStaySound DEF TInv, TypeOK
<1>13. CASE UNCHANGED vars
  BY <1>13 DEF vars, TInv, TypeOK
<1>14. QED
  BY <1>3, <1>4, <1>5, <1>6, <1>7, <1>8, <1>9, <1>10, <1>11, <1>12, <1>13 DEF Next

\* Types, for any number of threads that call the registry at the same time.
THEOREM PublishingTypeCorrect == Spec => []TypeOK
<1>1. TInv => TypeOK
  BY DEF TInv
<1>2. QED BY TypeInit, TypeStep, <1>1, PTL DEF Spec

-----------------------------------------------------------------------------
(* The invariant.  What it says of a version holds unless that version is    *)
(* raced or crossed, and so it is kept version by version: a step about a    *)
(* version that is neither has no other call in its way.                     *)

Copies(c) == c.pc \in {"latest", "partners", "publish"}
HasLatest(c) == c.pc \in {"partners", "publish"}
Revokes(c) == c.pc \in {"scan", "promote", "unlist"}
Pending(c) == c.pc \in {"scan", "promote"}

Status(k) == entry[Current.by[k]].status

Live(k) == Current.by[k] # 0 /\ Status(k) = "published"

\* A version k that no call admits any more.
Withdrawn(k) == Current.by[k] # 0 /\ Status(k) # "published"

Unrevoked(k) == Current.by[k] # 0 => Status(k) # "revoked"

\* A version k that the latest pointer may name.
Fit(k) == Current.by[k] # 0 /\ Status(k) # "revoked"

\* Nothing is published before the first registry.
Begun == registry = NoRegistry => entry = <<>> /\ revoked = {}

\* Two publications that are in the middle together are both raced.
Meet == \A v, w \in Workers :
           v # w /\ Copies(call[v]) /\ Copies(call[w]) => call[v].key \in raced

\* A call whose version is not crossed has the registry to itself.
Alone(k) == \A v, w \in Workers :
               v # w /\ call[w].pc # "idle" /\ call[w].key = k => call[v].pc = "idle"

\* An index L that lists version k when it is published, and only if it is there.
Lists(L, k) == /\ Live(k) => k \in L
               /\ k \in L => Current.by[k] # 0

\* The only card of version k is the registry's, which says of it what was answered.
CardInv(k) == /\ \A n \in 1..Len(entry) : entry[n].key = k => Current.by[k] = n
              /\ k \in revoked => Withdrawn(k)
              /\ Lists(Current.listed, k)

\* Partners are shown version k only if it is not revoked, or is about to be unlisted.
Shown(k) == k \in Current.listed =>
               \/ Unrevoked(k)
               \/ \E w \in Workers : Revokes(call[w]) /\ call[w].key = k

IndexInv(k) == Alone(k) /\ Shown(k)

\* The latest pointer of capability d: set while there is a published version, and on a
\* revoked version only until that revocation has moved it.
LatestInv(d) == /\ \A u \in Vers : Live(<<d, u>>) => Current.latest[d] # NoVer
                /\ \A u \in Vers : Current.latest[d] = u =>
                      \/ Fit(<<d, u>>)
                      \/ /\ Current.by[<<d, u>>] # 0
                         /\ \E w \in Workers : Pending(call[w]) /\ call[w].key = <<d, u>>

\* What call c knows of version k: a publication has the right card in its copies, and a
\* revocation has withdrawn it.
Knows(c, k) == /\ Copies(c) => c.own.by[k] = Current.by[k]
               /\ c.pc = "publish" => Lists(c.own.listed, k)
               /\ Revokes(c) /\ c.key = k => Withdrawn(k)

\* What call c would show partners of version k, and the registry object that it works on.
Shows(c, k) == /\ c.pc = "publish" /\ k \in c.own.listed => Unrevoked(k)
               /\ Revokes(c) /\ c.key = k => c.id = Current.id

\* What call c knows of the latest pointer of capability d, and what it would make of it.
Points(c, d) == /\ HasLatest(c) => c.own.latest[d] = Current.latest[d]
                /\ c.pc = "promote" /\ c.key[1] = d =>
                      IF c.to = NoVer THEN \A u \in Vers : ~Live(<<d, u>>)
                      ELSE Fit(<<d, c.to>>)

Clean(d) == \A u \in Vers : <<d, u>> \notin crossed

InStep(c) == /\ \A k \in Keys \ raced : Knows(c, k)
             /\ \A k \in Keys \ crossed : Shows(c, k)
             /\ \A d \in Caps : Clean(d) => Points(c, d)

\* The inductive invariant.
IInv == /\ TInv /\ Begun /\ Meet /\ raced \subseteq crossed
        /\ \A k \in Keys \ raced : CardInv(k)
        /\ \A k \in Keys \ crossed : IndexInv(k)
        /\ \A d \in Caps : Clean(d) => LatestInv(d)
        /\ \A w \in Workers : InStep(call[w])

LEMMA CurrentFacts ==
  ASSUME TInv
  PROVE  /\ Current \in Registry /\ Sound(Current, entry)
         /\ Current.by \in [Keys -> Numbers] /\ Current.latest \in [Caps -> Vers \cup {NoVer}]
         /\ Current.listed \subseteq Keys
         /\ registry # NoRegistry => Current = registry
<1>1. CASE registry = NoRegistry
  BY <1>1, EmptyTyped DEF Current, Sound, Registry
<1>2. CASE registry # NoRegistry
  BY <1>2 DEF Current, TInv, TypeOK, Registry
<1>3. QED BY <1>1, <1>2

LEMMA KeyParts == \A k \in Keys : k[1] \in Caps /\ k[2] \in Vers /\ k = <<k[1], k[2]>>
  BY DEF Keys

LEMMA IInvInit == Init => IInv
<1> SUFFICES ASSUME Init PROVE IInv
  OBVIOUS
<1>1. /\ TInv /\ Current = Empty /\ \A k \in Keys : Current.by[k] = 0
      /\ Len(entry) = 0 /\ \A w \in Workers : call[w].pc = "idle"
  BY TypeInit, EmptySeq, EmptyTyped DEF Init, Current, IdleCall
<1>2. Begun /\ Meet /\ raced \subseteq crossed
  BY <1>1 DEF Init, Begun, Meet, Copies
<1>3. \A k \in Keys : CardInv(k)
  BY <1>1 DEF Init, CardInv, Lists, Live, Empty
<1>4. \A k \in Keys : IndexInv(k)
  BY <1>1 DEF IndexInv, Alone, Shown, Unrevoked
<1>5. ASSUME NEW d \in Caps PROVE LatestInv(d)
  <2>1. \A u \in Vers : <<d, u>> \in Keys /\ u # NoVer
    BY SentinelType DEF Keys
  <2>2. Current.latest[d] = NoVer
    BY <1>1 DEF Empty
  <2>3. QED BY <1>1, <2>1, <2>2 DEF LatestInv, Live
<1>6. \A w \in Workers : InStep(call[w])
  BY <1>1 DEF InStep, Knows, Shows, Points, Copies, HasLatest, Revokes
<1>7. QED BY <1>1, <1>2, <1>3, <1>4, <1>5, <1>6 DEF IInv

-----------------------------------------------------------------------------
(* What a step does to one version, and to the calls. *)

\* The call of worker w becomes c, and the others go on.
Moves(w, c) == \A v \in Workers : call'[v] = IF v = w THEN c ELSE call[v]

\* Version k keeps its card.
Stays(k) == /\ Current'.by[k] = Current.by[k]
            /\ \A n \in 1..Len(entry') : entry'[n].key = k => n \in 1..Len(entry) /\ entry[n].key = k

\* Nothing becomes of version k but that it is withdrawn.
Ages(k) == /\ Stays(k)
           /\ Live(k)' => Live(k)
           /\ Withdrawn(k) => Withdrawn(k)'

Calm(k) == Unrevoked(k) => Unrevoked(k)'

\* Version k is what it was.
Still(k) == Ages(k) /\ Calm(k)

\* Worker w goes on with its call, or ends it.
GoesOn(w, c) == /\ c.pc # "idle" => call[w].pc # "idle" /\ c.key = call[w].key
                /\ Copies(c) => Copies(call[w])
                /\ UNCHANGED <<raced, crossed>>

\* Worker w begins call c about version k, or makes it in one step.
Begins(w, c, k) == /\ c.pc # "idle" => c.key = k
                   /\ Crossing(w, k)
                   /\ \/ Racing(w, k)
                      \/ raced' = raced /\ ~Copies(c)

LEMMA Raced ==
  ASSUME NEW w \in Workers, NEW k, Racing(w, k), NEW v \in Workers \ {w}, Copies(call[v])
  PROVE  k \in raced' /\ call[v].key \in raced'
  BY DEF Racing, KeysOf, Busy, Building, Copies

LEMMA Crossed ==
  ASSUME NEW w \in Workers, NEW k, Crossing(w, k), NEW v \in Workers \ {w}, call[v].pc # "idle"
  PROVE  k \in crossed' /\ call[v].key \in crossed'
  BY DEF Crossing, KeysOf, Busy

LEMMA RacedIsCrossed ==
  ASSUME NEW w \in Workers, NEW k, Racing(w, k), Crossing(w, k), raced \subseteq crossed
  PROVE  raced' \subseteq crossed'
<1> DEFINE B == {v \in Busy(w) : Building(v)}
<1>1. CASE B = {}
  BY <1>1 DEF Racing, Crossing
<1>2. CASE B # {}
  <2>1. Busy(w) # {} /\ KeysOf(B) \subseteq KeysOf(Busy(w))
    BY <1>2 DEF KeysOf
  <2>2. raced' = raced \cup {k} \cup KeysOf(B)
    BY <1>2 DEF Racing
  <2>3. QED BY <2>1, <2>2 DEF Crossing
<1>3. QED BY <1>1, <1>2

LEMMA MeetStays ==
  ASSUME IInv, NEW w \in Workers, NEW c, NEW k, Moves(w, c), GoesOn(w, c) \/ Begins(w, c, k),
         raced \subseteq raced'
  PROVE  Meet'
<1>1. SUFFICES ASSUME NEW u \in Workers, NEW v \in Workers, u # v,
                      Copies(call'[u]), Copies(call'[v])
               PROVE  call'[u].key \in raced'
  BY DEF Meet, Copies
<1>2. /\ u # w => call'[u] = call[u]
      /\ v # w => call'[v] = call[v]
      /\ call'[w] = c
  BY DEF Moves
<1>3. CASE u # w /\ v # w
  BY <1>1, <1>2, <1>3 DEF IInv, Meet
<1>4. CASE u = w
  <2>1. Copies(c) /\ Copies(call[v]) /\ v # w
    BY <1>1, <1>2, <1>4
  <2>2. CASE GoesOn(w, c)
    BY <1>2, <1>4, <2>1, <2>2 DEF GoesOn, IInv, Meet, Copies
  <2>3. CASE Begins(w, c, k)
    BY <1>2, <1>4, <2>1, <2>3, Raced DEF Begins, Copies
  <2>4. QED BY <2>2, <2>3
<1>5. CASE v = w
  <2>1. Copies(c) /\ Copies(call[u]) /\ u # w
    BY <1>1, <1>2, <1>5
  <2>2. CASE GoesOn(w, c)
    BY <1>2, <1>5, <2>1, <2>2 DEF GoesOn, IInv, Meet
  <2>3. CASE Begins(w, c, k)
    BY <1>2, <1>5, <2>1, <2>3, Raced DEF Begins, Copies
  <2>4. QED BY <2>2, <2>3
<1>6. QED BY <1>3, <1>4, <1>5

LEMMA AloneStays ==
  ASSUME IInv, NEW w \in Workers, NEW c, NEW j, Moves(w, c), GoesOn(w, c) \/ Begins(w, c, j),
         crossed \subseteq crossed', NEW k \in Keys \ crossed'
  PROVE  Alone(k)'
<1>1. SUFFICES ASSUME NEW u \in Workers, NEW v \in Workers, u # v,
                      call'[v].pc # "idle", call'[v].key = k, call'[u].pc # "idle"
               PROVE  FALSE
  BY DEF Alone
<1>2. /\ u # w => call'[u] = call[u]
      /\ v # w => call'[v] = call[v]
      /\ call'[w] = c
  BY DEF Moves
<1>3. Alone(k)
  BY DEF IInv, IndexInv
<1>4. CASE u # w /\ v # w
  BY <1>1, <1>2, <1>3, <1>4 DEF Alone
<1>5. CASE u = w \/ v = w
  <2>1. CASE GoesOn(w, c)
    BY <1>1, <1>2, <1>3, <1>5, <2>1 DEF GoesOn, Alone
  <2>2. CASE Begins(w, c, j)
    BY <1>1, <1>2, <1>5, <2>2, Crossed DEF Begins
  <2>3. QED BY <2>1, <2>2
<1>6. QED BY <1>4, <1>5

LEMMA KnowsStays ==
  ASSUME NEW c, NEW k, Knows(c, k), Ages(k)
  PROVE  Knows(c, k)'
<1>1. ASSUME NEW L, Lists(L, k) PROVE Lists(L, k)'
  BY <1>1 DEF Lists, Ages, Stays
<1>2. QED BY <1>1 DEF Knows, Ages, Stays

LEMMA PointsStays ==
  ASSUME NEW c \in Call, NEW d \in Caps, Points(c, d), Current'.latest[d] = Current.latest[d],
         \A u \in Vers : Still(<<d, u>>)
  PROVE  Points(c, d)'
<1>1. \A u \in Vers : /\ Fit(<<d, u>>) => Fit(<<d, u>>)'
                      /\ Live(<<d, u>>)' => Live(<<d, u>>)
  BY DEF Still, Ages, Stays, Calm, Unrevoked, Fit
<1>2. c.to \in Vers \cup {NoVer}
  BY DEF Call
<1>3. QED BY <1>1, <1>2 DEF Points

LEMMA LatestStays ==
  ASSUME NEW d \in Caps, LatestInv(d), Current'.latest[d] = Current.latest[d],
         \A u \in Vers : Still(<<d, u>>), NEW w \in Workers, NEW c, Moves(w, c),
         \A u \in Vers : \/ ~Pending(call[w]) \/ call[w].key # <<d, u>>
                         \/ Pending(c) /\ c.key = <<d, u>>
                         \/ Current.latest[d] # u
  PROVE  LatestInv(d)'
<1>1. \A u \in Vers : /\ Fit(<<d, u>>) => Fit(<<d, u>>)'
                      /\ Live(<<d, u>>)' => Live(<<d, u>>)
                      /\ Current'.by[<<d, u>>] = Current.by[<<d, u>>]
  BY DEF Still, Ages, Stays, Calm, Unrevoked, Fit
<1>2. ASSUME NEW u \in Vers, Current'.latest[d] = u
      PROVE  \/ Fit(<<d, u>>)'
             \/ /\ Current'.by[<<d, u>>] # 0
                /\ \E v \in Workers : Pending(call'[v]) /\ call'[v].key = <<d, u>>
  <2>1. CASE Fit(<<d, u>>)
    BY <1>1, <2>1
  <2>2. CASE ~Fit(<<d, u>>)
    <3>1. /\ Current.by[<<d, u>>] # 0
          /\ \E v \in Workers : Pending(call[v]) /\ call[v].key = <<d, u>>
      BY <1>2, <2>2 DEF LatestInv
    <3>2. PICK v \in Workers : Pending(call[v]) /\ call[v].key = <<d, u>>
      BY <3>1
    <3>3. Pending(call'[v]) /\ call'[v].key = <<d, u>>
      BY <1>2, <3>2 DEF Moves
    <3>4. QED BY <1>1, <3>1, <3>3
  <2>3. QED BY <2>1, <2>2
<1>3. ASSUME NEW u \in Vers, Live(<<d, u>>)' PROVE Current'.latest[d] # NoVer
  BY <1>1, <1>3 DEF LatestInv
<1>4. QED BY <1>2, <1>3 DEF LatestInv, Pending

\* No worker but w is in the middle of a call.
Lone(w) == \A v \in Workers \ {w} : call[v].pc = "idle"

\* What a step of worker w may do to a version, or to a latest pointer, without putting
\* another call out of step.
SparesCard(w, k) == \/ Ages(k)
                    \/ \A v \in Workers \ {w} : /\ ~Copies(call[v])
                                                /\ Revokes(call[v]) => call[v].key # k

SparesIndex(w, k) == \/ Lone(w)
                     \/ /\ Calm(k)
                        /\ \/ Current'.id = Current.id
                           \/ \A v \in Workers \ {w} : Revokes(call[v]) => call[v].key # k

SparesLatest(w, d) == \/ Lone(w)
                      \/ /\ Current'.latest[d] = Current.latest[d]
                         /\ \A u \in Vers : Still(<<d, u>>)

LEMMA CleanBefore ==
  ASSUME crossed \subseteq crossed', NEW d, Clean(d)'
  PROVE  Clean(d)
  BY DEF Clean

LEMMA OthersInStep ==
  ASSUME IInv, NEW w \in Workers, raced \subseteq raced', crossed \subseteq crossed',
         \A k \in Keys \ raced' : SparesCard(w, k),
         \A k \in Keys \ crossed' : SparesIndex(w, k),
         \A d \in Caps : Clean(d)' => SparesLatest(w, d),
         NEW v \in Workers \ {w}, NEW x, x = call[v]
  PROVE  InStep(x)'
<1>1. x \in Call /\ InStep(x)
  BY DEF IInv, TInv, TypeOK
<1>2. ASSUME NEW k \in Keys \ raced' PROVE Knows(x, k)'
  <2>1. Knows(x, k)
    BY <1>1, <1>2 DEF InStep
  <2>2. CASE Ages(k)
    BY <2>1, <2>2, KnowsStays
  <2>3. CASE ~Copies(x) /\ (Revokes(x) => x.key # k)
    BY <2>3 DEF Knows, Copies
  <2>4. QED BY <1>2, <2>2, <2>3 DEF SparesCard
<1>3. ASSUME NEW k \in Keys \ crossed' PROVE Shows(x, k)'
  <2>1. Shows(x, k) /\ SparesIndex(w, k)
    BY <1>1, <1>3 DEF InStep
  <2>2. CASE Lone(w)
    BY <2>2 DEF Lone, Shows, Revokes
  <2>3. CASE ~Lone(w)
    BY <2>1, <2>3 DEF SparesIndex, Shows, Calm
  <2>4. QED BY <2>2, <2>3
<1>4. ASSUME NEW d \in Caps, Clean(d)' PROVE Points(x, d)'
  <2>1. Points(x, d) /\ SparesLatest(w, d)
    BY <1>1, <1>4, CleanBefore DEF InStep
  <2>2. CASE Lone(w)
    BY <2>2 DEF Lone, Points, HasLatest
  <2>3. CASE ~Lone(w)
    BY <1>1, <2>1, <2>3, PointsStays DEF SparesLatest
  <2>4. QED BY <2>2, <2>3
<1>5. QED BY <1>2, <1>3, <1>4 DEF InStep

LEMMA Keeps ==
  ASSUME IInv, TInv', Begun', NEW w \in Workers, NEW c, NEW j, Moves(w, c),
         GoesOn(w, c) \/ Begins(w, c, j),
         raced \subseteq raced', crossed \subseteq crossed', raced' \subseteq crossed', InStep(c)',
         \A k \in Keys \ raced' : CardInv(k)' /\ SparesCard(w, k),
         \A k \in Keys \ crossed' : Shown(k)' /\ SparesIndex(w, k),
         \A d \in Caps : Clean(d)' => LatestInv(d)' /\ SparesLatest(w, d)
  PROVE  IInv'
<1>1. Meet'
  BY MeetStays
<1>2. \A k \in Keys \ crossed' : IndexInv(k)'
  BY AloneStays DEF IndexInv
<1>3. ASSUME NEW v \in Workers PROVE InStep(call[v])'
  <2>1. CASE v = w
    <3>1. call'[v] = c
      BY <2>1 DEF Moves
    <3>2. QED BY <3>1 DEF InStep, Knows, Shows, Points
  <2>2. CASE v # w
    <3>1. PICK x : x = call[v]
      OBVIOUS
    <3>2. InStep(x)'
      BY <2>2, <3>1, OthersInStep
    <3>3. call'[v] = x
      BY <2>2, <3>1 DEF Moves
    <3>4. QED BY <3>2, <3>3 DEF InStep, Knows, Shows, Points
  <2>3. QED BY <2>1, <2>2
<1>4. QED BY <1>1, <1>2, <1>3 DEF IInv

\* A step that keeps the cards as they are keeps every version still.
LEMMA AllStill ==
  ASSUME UNCHANGED entry, Current'.by = Current.by
  PROVE  \A k : Still(k) /\ (Live(k)' <=> Live(k)) /\ (Unrevoked(k)' <=> Unrevoked(k))
                  /\ (Withdrawn(k)' <=> Withdrawn(k)) /\ (Fit(k)' <=> Fit(k))
<1>1. ASSUME NEW k
      PROVE  /\ Current'.by[k] = Current.by[k] /\ Status(k)' = Status(k)
  BY DEF Status
<1>2. \A k : /\ Live(k)' <=> Live(k)
             /\ Unrevoked(k)' <=> Unrevoked(k)
             /\ Withdrawn(k)' <=> Withdrawn(k)
             /\ Fit(k)' <=> Fit(k)
  BY <1>1 DEF Live, Unrevoked, Withdrawn, Fit
<1>3. QED BY <1>1, <1>2 DEF Still, Ages, Stays, Calm

\* A card that ages stays right.
LEMMA CardAges ==
  ASSUME NEW k \in Keys, CardInv(k), Ages(k), Lists(Current.listed, k)',
         k \in revoked' => k \in revoked \/ Withdrawn(k)
  PROVE  CardInv(k)'
  BY DEF CardInv, Ages, Stays

\* A step of worker w that changes nothing but its call.
LEMMA CallStep ==
  ASSUME IInv, TInv', UNCHANGED <<entry, registry, revoked>>,
         NEW w \in Workers, NEW c, NEW j, Moves(w, c), GoesOn(w, c) \/ Begins(w, c, j),
         raced \subseteq raced', crossed \subseteq crossed', raced' \subseteq crossed', InStep(c)',
         Revokes(call[w]) => Revokes(c) /\ c.key = call[w].key,
         \A d \in Caps, u \in Vers :
            Clean(d)' => \/ ~Pending(call[w]) \/ call[w].key # <<d, u>>
                         \/ Pending(c) /\ c.key = <<d, u>>
                         \/ Current.latest[d] # u
  PROVE  IInv'
<1>1. Current' = Current
  BY DEF Current
<1>2. \A k : Still(k) /\ (Live(k)' <=> Live(k)) /\ (Unrevoked(k)' <=> Unrevoked(k))
  BY <1>1, AllStill
<1>3. Begun'
  BY DEF IInv, Begun
<1>4. ASSUME NEW k \in Keys \ raced' PROVE CardInv(k)' /\ SparesCard(w, k)
  <2>1. CardInv(k) /\ Ages(k)
    BY <1>2, <1>4 DEF IInv, Still
  <2>2. Lists(Current.listed, k)'
    BY <1>1, <1>2, <2>1 DEF CardInv, Lists
  <2>3. QED BY <2>1, <2>2, CardAges DEF SparesCard
<1>5. ASSUME NEW k \in Keys \ crossed' PROVE Shown(k)' /\ SparesIndex(w, k)
  <2>1. Shown(k)
    BY <1>5 DEF IInv, IndexInv
  <2>2. ASSUME NEW v \in Workers, Revokes(call[v]), call[v].key = k
        PROVE  Revokes(call'[v]) /\ call'[v].key = k
    BY <2>2 DEF Moves
  <2>3. Shown(k)'
    BY <1>1, <1>2, <2>1, <2>2 DEF Shown, Revokes
  <2>4. QED BY <1>1, <1>2, <2>3 DEF SparesIndex, Still
<1>6. ASSUME NEW d \in Caps, Clean(d)' PROVE LatestInv(d)' /\ SparesLatest(w, d)
  <2>1. LatestInv(d)
    BY <1>6, CleanBefore DEF IInv
  <2>2. \A u \in Vers : \/ ~Pending(call[w]) \/ call[w].key # <<d, u>>
                        \/ Pending(c) /\ c.key = <<d, u>>
                        \/ Current.latest[d] # u
    BY <1>6
  <2>3. LatestInv(d)'
    BY <1>1, <1>2, <2>1, <2>2, LatestStays
  <2>4. QED BY <1>1, <1>2, <2>3 DEF SparesLatest
<1>7. QED BY <1>3, <1>4, <1>5, <1>6, Keeps

\* The step of worker w with its call.
LEMMA StepMoves ==
  ASSUME TInv, NEW w \in Workers, NEW c, Step(w, c)
  PROVE  Moves(w, c)
  BY DEF TInv, TypeOK, Step, Moves

LEMMA CallFacts ==
  ASSUME TInv, NEW w \in Workers
  PROVE  /\ call[w] \in Call /\ call[w].own \in Registry
         /\ call[w].pc # "idle" => call[w].key \in Keys
         /\ call[w].pc \notin {"idle", "publish"} => registry # NoRegistry /\ Current = registry
  BY DEF TInv, TypeOK, CallSound, Call, Current

LEMMA IdleInStep == ASSUME NEW c, c.pc = "idle" PROVE InStep(c)'
  BY DEF InStep, Knows, Shows, Points, Copies, HasLatest, Revokes

LEMMA PublishStartKeeps ==
  ASSUME IInv, NEW w \in Workers, NEW k \in Keys, PublishStart(w, k), TInv',
         raced \subseteq raced', crossed \subseteq crossed'
  PROVE  IInv'
<1>1. /\ UNCHANGED <<entry, registry, revoked>> /\ call[w].pc = "idle" /\ TInv
      /\ Racing(w, k) /\ Crossing(w, k) /\ raced \subseteq crossed
  BY DEF PublishStart, IInv
<1>2. PICK c : c = IF registry = NoRegistry
                   THEN [IdleCall EXCEPT !.pc = "publish", !.key = k]
                   ELSE [IdleCall EXCEPT !.pc = "latest", !.key = k, !.own.by = registry.by]
  OBVIOUS
<1>3. /\ c.key = k
      /\ \/ registry = NoRegistry /\ c.pc = "publish" /\ c.own = Empty
         \/ registry # NoRegistry /\ c.pc = "latest" /\ c.own.by = registry.by
  <2>1. CASE registry = NoRegistry
    BY <1>2, <2>1 DEF IdleCall
  <2>2. CASE registry # NoRegistry
    <3>1. c = [IdleCall EXCEPT !.pc = "latest", !.key = k, !.own.by = registry.by]
      BY <1>2, <2>2
    <3>2. c.pc = "latest" /\ c.key = k /\ c.own = [Empty EXCEPT !.by = registry.by]
      BY <3>1 DEF IdleCall
    <3>3. c.own.by = registry.by
      BY <3>2 DEF Empty
    <3>4. QED BY <2>2, <3>2, <3>3
  <2>3. QED BY <2>1, <2>2
<1>4. Moves(w, c)
  <2>1. Step(w, c)
    BY <1>2 DEF PublishStart, Versions
  <2>2. QED BY <1>1, <2>1, StepMoves
<1>5. Begins(w, c, k) /\ raced' \subseteq crossed'
  BY <1>1, <1>3, RacedIsCrossed DEF Begins
<1>6. Current' = Current
  BY <1>1 DEF Current
<1>7. InStep(c)'
  <2>1. CASE registry = NoRegistry
    <3>1. /\ c.pc = "publish" /\ c.own = Empty /\ Current = Empty
          /\ \A j \in Keys : Empty.by[j] = 0
      BY <1>3, <2>1, EmptyTyped DEF Current
    <3>2. \A j \in Keys : Knows(c, j)' /\ Shows(c, j)'
      BY <1>6, <3>1 DEF Knows, Shows, Lists, Live, Revokes, Empty
    <3>3. \A d \in Caps : Points(c, d)'
      BY <1>6, <3>1 DEF Points
    <3>4. QED BY <3>2, <3>3 DEF InStep
  <2>2. CASE registry # NoRegistry
    <3>1. c.pc = "latest" /\ c.own.by = Current.by
      BY <1>3, <2>2 DEF Current
    <3>2. QED BY <1>6, <3>1 DEF InStep, Knows, Shows, Points, HasLatest, Revokes
  <2>3. QED BY <2>1, <2>2
<1>8. ~Revokes(call[w]) /\ ~Pending(call[w])
  BY <1>1 DEF Revokes, Pending
<1>9. QED BY <1>1, <1>4, <1>5, <1>7, <1>8, CallStep

LEMMA CopyLatestKeeps ==
  ASSUME IInv, NEW w \in Workers, CopyLatest(w), TInv'
  PROVE  IInv'
<1>1. /\ UNCHANGED <<entry, registry, revoked, raced, crossed>> /\ call[w].pc = "latest"
      /\ TInv /\ raced \subseteq crossed /\ InStep(call[w])
  BY DEF CopyLatest, IInv
<1>2. call[w] \in Call /\ call[w].own \in Registry /\ Current = registry
  BY <1>1, CallFacts
<1>3. PICK c : c = [call[w] EXCEPT !.pc = "partners", !.own.latest = registry.latest]
  OBVIOUS
<1>4. /\ c.pc = "partners" /\ c.key = call[w].key /\ c.own.by = call[w].own.by
      /\ c.own.latest = Current.latest
  BY <1>2, <1>3 DEF Call, Registry
<1>5. Moves(w, c)
  BY <1>1, <1>3, StepMoves DEF CopyLatest
<1>6. GoesOn(w, c)
  BY <1>1, <1>4 DEF GoesOn, Copies
<1>7. Current' = Current
  BY <1>1 DEF Current
<1>8. InStep(c)'
  <2>1. ASSUME NEW k \in Keys \ raced' PROVE Knows(c, k)'
    <3>1. call[w].own.by[k] = Current.by[k]
      BY <1>1, <2>1 DEF InStep, Knows, Copies
    <3>2. QED BY <1>4, <1>7, <3>1 DEF Knows, Revokes
  <2>2. QED BY <1>4, <1>7, <2>1 DEF InStep, Shows, Points, Revokes
<1>9. ~Revokes(call[w]) /\ ~Pending(call[w])
  BY <1>1 DEF Revokes, Pending
<1>10. QED BY <1>1, <1>5, <1>6, <1>8, <1>9, CallStep

LEMMA CopyPartnersKeeps ==
  ASSUME IInv, NEW w \in Workers, CopyPartners(w), TInv'
  PROVE  IInv'
<1>1. /\ UNCHANGED <<entry, registry, revoked, raced, crossed>> /\ call[w].pc = "partners"
      /\ TInv /\ raced \subseteq crossed /\ InStep(call[w])
  BY DEF CopyPartners, IInv
<1>2. call[w] \in Call /\ call[w].own \in Registry /\ Current = registry
  BY <1>1, CallFacts
<1>3. PICK c : c = [call[w] EXCEPT !.pc = "publish", !.own.listed = registry.listed]
  OBVIOUS
<1>4. /\ c.pc = "publish" /\ c.key = call[w].key /\ c.own.by = call[w].own.by
      /\ c.own.latest = call[w].own.latest /\ c.own.listed = Current.listed
  BY <1>2, <1>3 DEF Call, Registry
<1>5. Moves(w, c)
  BY <1>1, <1>3, StepMoves DEF CopyPartners
<1>6. GoesOn(w, c)
  BY <1>1, <1>4 DEF GoesOn, Copies
<1>7. Current' = Current
  BY <1>1 DEF Current
<1>8. \A k : (Live(k)' <=> Live(k)) /\ (Unrevoked(k)' <=> Unrevoked(k))
  BY <1>1, <1>7, AllStill
<1>9. InStep(c)'
  <2>1. ASSUME NEW k \in Keys \ raced' PROVE Knows(c, k)'
    <3>1. call[w].own.by[k] = Current.by[k] /\ Lists(Current.listed, k)
      BY <1>1, <2>1 DEF InStep, Knows, Copies, IInv, CardInv
    <3>2. QED BY <1>4, <1>7, <1>8, <3>1 DEF Knows, Revokes, Lists
  <2>2. ASSUME NEW k \in Keys \ crossed' PROVE Shows(c, k)'
    <3>1. Alone(k) /\ Shown(k)
      BY <1>1, <2>2 DEF IInv, IndexInv
    <3>2. ASSUME NEW v \in Workers, Revokes(call[v]), call[v].key = k PROVE FALSE
      BY <1>1, <3>1, <3>2 DEF Alone, Revokes
    <3>3. k \in Current.listed => Unrevoked(k)
      BY <3>1, <3>2 DEF Shown
    <3>4. QED BY <1>4, <1>8, <3>3 DEF Shows, Revokes
  <2>3. ASSUME NEW d \in Caps, Clean(d)' PROVE Points(c, d)'
    <3>1. call[w].own.latest[d] = Current.latest[d]
      BY <1>1, <2>3 DEF InStep, Points, HasLatest, Clean
    <3>2. QED BY <1>4, <1>7, <3>1 DEF Points
  <2>4. QED BY <2>1, <2>2, <2>3 DEF InStep
<1>10. ~Revokes(call[w]) /\ ~Pending(call[w])
  BY <1>1 DEF Revokes, Pending
<1>11. QED BY <1>1, <1>5, <1>6, <1>9, <1>10, CallStep

LEMMA RevokeScanKeeps ==
  ASSUME IInv, NEW w \in Workers, RevokeScan(w), TInv'
  PROVE  IInv'
<1>1. /\ UNCHANGED <<entry, registry, revoked, raced, crossed>> /\ call[w].pc = "scan"
      /\ TInv /\ raced \subseteq crossed /\ InStep(call[w])
  BY DEF RevokeScan, IInv
<1>2. /\ call[w] \in Call /\ call[w].key \in Keys /\ registry # NoRegistry
      /\ Current = registry /\ TypeOK
  BY <1>1, CallFacts DEF TInv
<1>3. PICK k \in Keys : k = call[w].key
  BY <1>2
<1>4. k[1] \in Caps /\ k[2] \in Vers /\ k = <<k[1], k[2]>>
  BY KeyParts
<1>5. Promoted(k[1], k[2]) \in Vers \cup {NoVer}
  BY <1>2, <1>4, PromotedIs
<1>6. PICK to \in Vers \cup {NoVer} : to = Promoted(k[1], k[2])
  BY <1>5
<1>7. PICK c : c = IF Same(w) /\ registry.latest[k[1]] = k[2]
                   THEN [call[w] EXCEPT !.pc = "promote", !.to = to]
                   ELSE [call[w] EXCEPT !.pc = "unlist"]
  OBVIOUS
<1>8. /\ c.key = k /\ c.id = call[w].id
      /\ \/ c.pc = "promote" /\ c.to = to
         \/ c.pc = "unlist" /\ ~(Same(w) /\ registry.latest[k[1]] = k[2])
  BY <1>2, <1>3, <1>7 DEF Call
<1>9. Moves(w, c)
  <2>1. Step(w, c)
    BY <1>3, <1>6, <1>7 DEF RevokeScan
  <2>2. QED BY <1>1, <2>1, StepMoves
<1>10. GoesOn(w, c)
  BY <1>1, <1>3, <1>8 DEF GoesOn, Copies
<1>11. Current' = Current
  BY <1>1 DEF Current
<1>12. \A j : /\ Live(j)' <=> Live(j)
              /\ Withdrawn(j)' <=> Withdrawn(j)
              /\ Fit(j)' <=> Fit(j)
  BY <1>1, <1>11, AllStill
<1>13. ASSUME k \notin crossed PROVE Withdrawn(k) /\ Same(w)
  <2>1. k \notin raced
    BY <1>1, <1>13
  <2>2. Knows(call[w], k) /\ Shows(call[w], k)
    BY <1>1, <1>13, <2>1 DEF InStep
  <2>3. QED BY <1>1, <1>2, <1>3, <2>2 DEF Knows, Shows, Revokes, Same
<1>14. ASSUME NEW d \in Caps, Clean(d)', d = k[1] PROVE k \notin crossed
  BY <1>1, <1>4, <1>14 DEF Clean
<1>15. ASSUME NEW d \in Caps, Clean(d)' PROVE Points(c, d)'
  <2>1. SUFFICES ASSUME c.pc = "promote", d = k[1]
                 PROVE  IF to = NoVer THEN \A u \in Vers : ~Live(<<d, u>>) ELSE Fit(<<d, to>>)
    BY <1>8, <1>12 DEF Points, HasLatest
  <2>2. Withdrawn(k)
    BY <1>13, <1>14, <1>15, <2>1
  <2>3. \A j : Live(j) <=> PublishedIn(registry, j)
    BY <1>2 DEF Live, Status, PublishedIn
  <2>4. CASE to = NoVer
    <3>1. ASSUME NEW u \in Vers, Live(<<d, u>>) PROVE FALSE
      <4>1. u # k[2]
        BY <1>4, <2>1, <2>2, <3>1 DEF Live, Withdrawn
      <4>2. u \in {v \in Vers \ {k[2]} : PublishedIn(registry, <<k[1], v>>)}
        BY <2>1, <2>3, <3>1, <4>1
      <4>3. to \in Vers
        BY <1>2, <1>4, <1>6, <4>2, PromotedIs
      <4>4. QED BY <2>4, <4>3, SentinelType
    <3>2. QED BY <2>4, <3>1
  <2>5. CASE to # NoVer
    <3>1. to \in Vers /\ PublishedIn(registry, <<k[1], to>>)
      BY <1>2, <1>4, <1>6, <2>5, PromotedIs
    <3>2. Live(<<d, to>>)
      BY <2>1, <2>3, <3>1
    <3>3. QED BY <2>5, <3>2 DEF Live, Fit
  <2>6. QED BY <2>4, <2>5
<1>16. InStep(c)'
  <2>1. ASSUME NEW j \in Keys \ raced' PROVE Knows(c, j)'
    <3>1. Knows(call[w], j)
      BY <1>1, <2>1 DEF InStep
    <3>2. QED BY <1>1, <1>3, <1>8, <1>12, <3>1 DEF Knows, Copies, Revokes
  <2>2. ASSUME NEW j \in Keys \ crossed' PROVE Shows(c, j)'
    <3>1. Shows(call[w], j)
      BY <1>1, <2>2 DEF InStep
    <3>2. QED BY <1>1, <1>3, <1>8, <1>11, <3>1 DEF Shows, Revokes
  <2>3. QED BY <1>15, <2>1, <2>2 DEF InStep
<1>17. Revokes(call[w]) => Revokes(c) /\ c.key = call[w].key
  BY <1>3, <1>8 DEF Revokes
<1>18. ASSUME NEW d \in Caps, NEW u \in Vers, Clean(d)'
       PROVE  \/ ~Pending(call[w]) \/ call[w].key # <<d, u>>
              \/ Pending(c) /\ c.key = <<d, u>>
              \/ Current.latest[d] # u
  <2>1. CASE call[w].key = <<d, u>> /\ c.pc = "unlist"
    <3>1. d = k[1] /\ u = k[2]
      BY <1>3, <2>1
    <3>2. Same(w)
      BY <1>13, <1>14, <1>18, <3>1
    <3>3. QED BY <1>2, <1>8, <2>1, <3>1, <3>2
  <2>2. QED BY <1>3, <1>8, <2>1 DEF Pending
<1>19. QED BY <1>1, <1>9, <1>10, <1>16, <1>17, <1>18, CallStep

\* A status that a call of deprecate or revoke sets withdraws its version and no other.
LEMMA StatusSet ==
  ASSUME IInv, NEW k \in Keys, Has(k), NEW s \in CardStatus, s # "published", UNCHANGED registry,
         entry' = [entry EXCEPT ![registry.by[k]].status = s]
  PROVE  /\ Current' = Current /\ Current = registry /\ Begun'
         /\ Current.by[k] # 0 /\ Status(k)' = s /\ Withdrawn(k)'
         /\ \A j \in Keys : Ages(j) /\ (s # "revoked" \/ j # k => Calm(j))
<1> DEFINE n == registry.by[k]
<1>1. /\ Current' = Current /\ Current = registry /\ n # 0 /\ TypeOK /\ registry # NoRegistry
      /\ Sound(registry, entry)
  BY CurrentFacts DEF IInv, TInv, Has, Current
<1>2. n \in 1..Len(entry) /\ entry[n].key = k
  BY <1>1 DEF Sound
<1>3. /\ Len(entry') = Len(entry)
      /\ \A m \in 1..Len(entry) : /\ entry'[m].key = entry[m].key
                                  /\ entry'[m].status = IF m = n THEN s ELSE entry[m].status
  BY <1>1, <1>2, Restatus
<1>4. Status(k)' = s
  BY <1>1, <1>2, <1>3 DEF Status
<1>5. ASSUME NEW j \in Keys, j # k, Current.by[j] # 0 PROVE Status(j)' = Status(j)
  <2>1. registry.by[j] \in 1..Len(entry) /\ entry[registry.by[j]].key = j
    BY <1>1, <1>5 DEF Sound
  <2>2. registry.by[j] # n
    BY <1>2, <1>5, <2>1
  <2>3. QED BY <1>1, <1>3, <2>1, <2>2 DEF Status
<1>6. \A j \in Keys : Stays(j)
  BY <1>1, <1>3 DEF Stays
<1>7. Withdrawn(k)' /\ ~Live(k)'
  BY <1>1, <1>4 DEF Withdrawn, Live
<1>8. ASSUME NEW j \in Keys PROVE Ages(j) /\ (s # "revoked" \/ j # k => Calm(j))
  <2>1. CASE j = k
    BY <1>1, <1>4, <1>6, <1>7, <2>1 DEF Ages, Calm, Unrevoked
  <2>2. CASE j # k
    BY <1>1, <1>5, <1>6, <2>2 DEF Ages, Calm, Unrevoked, Live, Withdrawn
  <2>3. QED BY <2>1, <2>2
<1>9. Begun'
  BY <1>1 DEF Begun
<1>10. QED BY <1>1, <1>4, <1>7, <1>8, <1>9

\* A step in which versions age and the index stays keeps what is said of the cards.
LEMMA CardsAge ==
  ASSUME IInv, raced \subseteq raced', UNCHANGED revoked, NEW w,
         Current'.listed = Current.listed, \A k \in Keys : Ages(k)
  PROVE  \A k \in Keys \ raced' : CardInv(k)' /\ SparesCard(w, k)
<1>1. SUFFICES ASSUME NEW k \in Keys \ raced' PROVE CardInv(k)' /\ SparesCard(w, k)
  OBVIOUS
<1>2. CardInv(k) /\ Ages(k)
  BY <1>1 DEF IInv
<1>3. Lists(Current.listed, k)'
  BY <1>2 DEF CardInv, Lists, Ages, Stays
<1>4. QED BY <1>2, <1>3, CardAges DEF SparesCard

LEMMA DeprecateKeeps ==
  ASSUME IInv, NEW w \in Workers, NEW k \in Keys, Deprecate(w, k), TInv'
  PROVE  IInv'
<1>1. /\ call[w].pc = "idle" /\ Has(k) /\ UNCHANGED <<registry, call, revoked, raced, crossed>>
      /\ entry' = [entry EXCEPT ![registry.by[k]].status = "deprecated"]
      /\ raced \subseteq crossed
  BY DEF Deprecate, IInv
<1>2. "deprecated" \in CardStatus
  BY DEF CardStatus
<1>3. Current' = Current /\ Begun' /\ \A j \in Keys : Still(j)
  BY <1>1, <1>2, StatusSet DEF Still
<1>4. PICK c : c = call[w]
  OBVIOUS
<1>5. Moves(w, c) /\ GoesOn(w, c)
  BY <1>1, <1>4 DEF Moves, GoesOn
<1>6. InStep(c)'
  BY <1>1, <1>4, IdleInStep
<1>7. \A j \in Keys \ raced' : CardInv(j)' /\ SparesCard(w, j)
  BY <1>1, <1>3, CardsAge DEF Still
<1>8. ASSUME NEW j \in Keys \ crossed' PROVE Shown(j)' /\ SparesIndex(w, j)
  <2>1. Shown(j) /\ Calm(j)
    BY <1>1, <1>3, <1>8 DEF IInv, IndexInv, Still
  <2>2. QED BY <1>1, <1>3, <2>1 DEF Shown, Calm, SparesIndex
<1>9. ASSUME NEW d \in Caps, Clean(d)' PROVE LatestInv(d)' /\ SparesLatest(w, d)
  <2>1. LatestInv(d) /\ \A u \in Vers : Still(<<d, u>>)
    BY <1>1, <1>3, <1>9 DEF IInv, Clean, Keys
  <2>2. ~Pending(call[w])
    BY <1>1 DEF Pending
  <2>3. QED BY <1>3, <1>5, <2>1, <2>2, LatestStays DEF SparesLatest
<1>10. QED BY <1>1, <1>3, <1>5, <1>6, <1>7, <1>8, <1>9, Keeps

\* A revocation of a version that is not crossed begins while nobody is in the middle.
LEMMA BeginsAlone ==
  ASSUME NEW w \in Workers, NEW k, Crossing(w, k), k \notin crossed'
  PROVE  Lone(w)
  BY Crossed DEF Lone

LEMMA RevokeCardKeeps ==
  ASSUME IInv, NEW w \in Workers, NEW k \in Keys, RevokeCard(w, k), TInv',
         crossed \subseteq crossed'
  PROVE  IInv'
<1>1. /\ call[w].pc = "idle" /\ Has(k) /\ UNCHANGED <<registry, revoked, raced>> /\ TInv
      /\ entry' = [entry EXCEPT ![registry.by[k]].status = "revoked"]
      /\ Crossing(w, k) /\ raced' \subseteq crossed'
  BY DEF RevokeCard, IInv
<1>2. "revoked" \in CardStatus
  BY DEF CardStatus
<1>3. /\ Current' = Current /\ Current = registry /\ Begun'
      /\ Current.by[k] # 0 /\ Withdrawn(k)'
      /\ \A j \in Keys : Ages(j) /\ (j # k => Calm(j))
  BY <1>1, <1>2, StatusSet
<1>4. PICK c : c = [IdleCall EXCEPT !.pc = "scan", !.key = k, !.id = registry.id]
  OBVIOUS
<1>5. c.pc = "scan" /\ c.key = k /\ c.id = Current.id
  BY <1>3, <1>4 DEF IdleCall
<1>6. Moves(w, c) /\ Begins(w, c, k)
  BY <1>1, <1>4, <1>5, StepMoves DEF RevokeCard, Begins, Copies
<1>7. InStep(c)'
  BY <1>3, <1>5 DEF InStep, Knows, Shows, Points, Copies, HasLatest, Revokes
<1>8. \A j \in Keys \ raced' : CardInv(j)' /\ SparesCard(w, j)
  BY <1>1, <1>3, CardsAge
<1>9. ASSUME NEW j \in Keys \ crossed' PROVE Shown(j)' /\ SparesIndex(w, j)
  <2>1. Shown(j)
    BY <1>9 DEF IInv, IndexInv
  <2>2. CASE j = k
    <3>1. Revokes(call'[w]) /\ call'[w].key = j
      BY <1>5, <1>6, <2>2 DEF Moves, Revokes
    <3>2. Lone(w)
      BY <1>1, <1>9, <2>2, BeginsAlone
    <3>3. QED BY <3>1, <3>2 DEF Shown, Revokes, SparesIndex
  <2>3. CASE j # k
    <3>1. Calm(j)
      BY <1>3, <2>3
    <3>2. ASSUME NEW v \in Workers, Revokes(call[v]), call[v].key = j
          PROVE  Revokes(call'[v]) /\ call'[v].key = j
      BY <1>1, <1>6, <3>2 DEF Moves, Revokes
    <3>3. Shown(j)'
      BY <1>3, <2>1, <3>1, <3>2 DEF Shown, Calm, Revokes
    <3>4. QED BY <1>3, <3>1, <3>3 DEF SparesIndex
  <2>4. QED BY <2>2, <2>3
<1>10. ASSUME NEW d \in Caps, Clean(d)' PROVE LatestInv(d)' /\ SparesLatest(w, d)
  <2>1. LatestInv(d)
    BY <1>10, CleanBefore DEF IInv
  <2>2. ~Pending(call[w]) /\ k = <<k[1], k[2]>>
    BY <1>1, KeyParts DEF Pending
  <2>3. CASE d = k[1]
    <3>1. k \notin crossed'
      BY <1>10, <2>2, <2>3, KeyParts DEF Clean
    <3>2. Lone(w)
      BY <1>1, <3>1, BeginsAlone
    <3>3. ASSUME NEW u \in Vers PROVE Ages(<<d, u>>) /\ (u # k[2] => Calm(<<d, u>>))
      BY <1>3, <2>2 DEF Keys
    <3>4. ASSUME NEW u \in Vers, Current'.latest[d] = u, u # k[2] PROVE Fit(<<d, u>>)'
      <4>1. \A v \in Workers : ~Pending(call[v])
        BY <2>2, <3>2 DEF Lone, Pending
      <4>2. Fit(<<d, u>>)
        BY <1>3, <2>1, <3>4, <4>1 DEF LatestInv
      <4>3. QED BY <3>3, <3>4, <4>2 DEF Fit, Calm, Unrevoked, Ages, Stays
    <3>5. Pending(call'[w]) /\ call'[w].key = <<d, k[2]>> /\ Current'.by[<<d, k[2]>>] # 0
      BY <1>3, <1>5, <1>6, <2>2, <2>3 DEF Moves, Pending
    <3>6. \A u \in Vers : Live(<<d, u>>)' => Current'.latest[d] # NoVer
      BY <1>3, <2>1, <3>3 DEF Ages, LatestInv
    <3>7. LatestInv(d)'
      BY <3>4, <3>5, <3>6 DEF LatestInv, Pending
    <3>8. QED BY <3>2, <3>7 DEF SparesLatest
  <2>4. CASE d # k[1]
    <3>1. \A u \in Vers : <<d, u>> \in Keys /\ <<d, u>> # k
      BY <2>2, <2>4 DEF Keys
    <3>2. \A u \in Vers : Still(<<d, u>>)
      BY <1>3, <3>1 DEF Still
    <3>3. QED BY <1>3, <1>6, <2>1, <2>2, <3>2, LatestStays DEF SparesLatest
  <2>5. QED BY <2>3, <2>4
<1>11. QED BY <1>1, <1>3, <1>6, <1>7, <1>8, <1>9, <1>10, Keeps

\* A call about a version that is not crossed is the only one.
LEMMA CallAlone ==
  ASSUME IInv, NEW w \in Workers, call[w].pc # "idle", call[w].key \in Keys \ crossed
  PROVE  Lone(w)
  BY DEF IInv, IndexInv, Alone, Lone

LEMMA RevokePromoteKeeps ==
  ASSUME IInv, NEW w \in Workers, RevokePromote(w), TInv'
  PROVE  IInv'
<1>1. /\ call[w].pc = "promote" /\ UNCHANGED <<entry, revoked, raced, crossed>>
      /\ TInv /\ raced \subseteq crossed /\ InStep(call[w])
  BY DEF RevokePromote, IInv
<1>2. /\ call[w] \in Call /\ call[w].key \in Keys /\ registry # NoRegistry
      /\ Current = registry /\ registry \in Registry
  BY <1>1, CallFacts, CurrentFacts
<1>3. PICK k \in Keys, to \in Vers \cup {NoVer} : k = call[w].key /\ to = call[w].to
  BY <1>2 DEF Call
<1>4. k[1] \in Caps /\ k[2] \in Vers /\ k = <<k[1], k[2]>>
  BY KeyParts
<1>5. /\ registry' \in Registry /\ registry'.by = registry.by
      /\ registry'.listed = registry.listed /\ registry'.id = registry.id
      /\ \A d \in Caps : registry'.latest[d] = IF Same(w) /\ d = k[1] THEN to
                                                ELSE registry.latest[d]
  <2>1. CASE Same(w)
    BY <1>2, <1>3, <1>4, <2>1 DEF RevokePromote, Registry
  <2>2. CASE ~Same(w)
    BY <1>2, <2>2 DEF RevokePromote
  <2>3. QED BY <2>1, <2>2
<1>6. Current' = registry' /\ registry' # NoRegistry /\ Begun'
  BY <1>5, SentinelType DEF Current, Begun
<1>7. \A j : Still(j) /\ (Live(j)' <=> Live(j)) /\ (Unrevoked(j)' <=> Unrevoked(j))
                /\ (Withdrawn(j)' <=> Withdrawn(j)) /\ (Fit(j)' <=> Fit(j))
  BY <1>1, <1>2, <1>5, <1>6, AllStill
<1>8. PICK c : c = [call[w] EXCEPT !.pc = "unlist"]
  OBVIOUS
<1>9. c.pc = "unlist" /\ c.key = k /\ c.id = call[w].id
  BY <1>2, <1>3, <1>8 DEF Call
<1>10. Moves(w, c) /\ GoesOn(w, c)
  BY <1>1, <1>3, <1>8, <1>9, StepMoves DEF RevokePromote, GoesOn, Copies
<1>11. InStep(c)'
  <2>1. ASSUME NEW j \in Keys \ raced' PROVE Knows(c, j)'
    <3>1. Knows(call[w], j)
      BY <1>1, <2>1 DEF InStep
    <3>2. QED BY <1>1, <1>3, <1>7, <1>9, <3>1 DEF Knows, Copies, Revokes
  <2>2. ASSUME NEW j \in Keys \ crossed' PROVE Shows(c, j)'
    <3>1. Shows(call[w], j)
      BY <1>1, <2>2 DEF InStep
    <3>2. QED BY <1>1, <1>2, <1>3, <1>5, <1>6, <1>9, <3>1 DEF Shows, Revokes
  <2>3. QED BY <1>9, <2>1, <2>2 DEF InStep, Points, HasLatest
<1>12. \A j \in Keys \ raced' : CardInv(j)' /\ SparesCard(w, j)
  BY <1>1, <1>2, <1>5, <1>6, <1>7, CardsAge DEF Still
<1>13. ASSUME NEW j \in Keys \ crossed' PROVE Shown(j)' /\ SparesIndex(w, j)
  <2>1. Shown(j)
    BY <1>1, <1>13 DEF IInv, IndexInv
  <2>2. ASSUME NEW v \in Workers, Revokes(call[v]), call[v].key = j
        PROVE  Revokes(call'[v]) /\ call'[v].key = j
    BY <1>3, <1>9, <1>10, <2>2 DEF Moves, Revokes
  <2>3. Shown(j)'
    BY <1>2, <1>5, <1>6, <1>7, <2>1, <2>2 DEF Shown, Revokes
  <2>4. QED BY <1>2, <1>5, <1>6, <1>7, <2>3 DEF SparesIndex, Still
<1>14. ASSUME NEW d \in Caps, Clean(d)' PROVE LatestInv(d)' /\ SparesLatest(w, d)
  <2>1. LatestInv(d) /\ Clean(d)
    BY <1>1, <1>14 DEF IInv, Clean
  <2>2. CASE d = k[1]
    <3>1. k \in Keys \ crossed
      BY <1>4, <2>1, <2>2 DEF Clean
    <3>2. Lone(w) /\ Same(w)
      BY <1>1, <1>2, <1>3, <3>1, CallAlone DEF InStep, Shows, Revokes, Same
    <3>3. Current'.latest[d] = to
      BY <1>5, <1>6, <2>2, <3>2
    <3>4. IF to = NoVer THEN \A u \in Vers : ~Live(<<d, u>>) ELSE Fit(<<d, to>>)
      BY <1>1, <1>3, <2>1, <2>2 DEF InStep, Points
    <3>5. LatestInv(d)'
      BY <1>7, <3>3, <3>4, SentinelType DEF LatestInv
    <3>6. QED BY <3>2, <3>5 DEF SparesLatest
  <2>3. CASE d # k[1]
    <3>1. Current'.latest[d] = Current.latest[d]
      BY <1>2, <1>5, <1>6, <2>3
    <3>2. \A u \in Vers : call[w].key # <<d, u>>
      BY <1>3, <1>4, <2>3
    <3>3. LatestInv(d)'
      BY <1>7, <1>10, <2>1, <3>1, <3>2, LatestStays
    <3>4. QED BY <1>7, <3>1, <3>3 DEF SparesLatest
  <2>4. QED BY <2>2, <2>3
<1>15. QED BY <1>1, <1>6, <1>10, <1>11, <1>12, <1>13, <1>14, Keeps

LEMMA RevokeEndKeeps ==
  ASSUME IInv, NEW w \in Workers, RevokeEnd(w), TInv'
  PROVE  IInv'
<1>1. /\ call[w].pc = "unlist" /\ UNCHANGED <<entry, raced, crossed>>
      /\ TInv /\ raced \subseteq crossed /\ InStep(call[w])
  BY DEF RevokeEnd, IInv
<1>2. /\ call[w] \in Call /\ call[w].key \in Keys /\ registry # NoRegistry
      /\ Current = registry /\ registry \in Registry
  BY <1>1, CallFacts, CurrentFacts
<1>3. PICK k \in Keys : k = call[w].key
  BY <1>2
<1>4. /\ registry' \in Registry /\ registry'.by = registry.by
      /\ registry'.latest = registry.latest /\ registry'.id = registry.id
      /\ registry'.listed = IF Same(w) THEN registry.listed \ {k} ELSE registry.listed
      /\ revoked' = revoked \cup {k}
  <2>1. CASE Same(w)
    BY <1>2, <1>3, <2>1 DEF RevokeEnd, Unlisted, Registry
  <2>2. CASE ~Same(w)
    BY <1>2, <1>3, <2>2 DEF RevokeEnd
  <2>3. QED BY <2>1, <2>2
<1>5. Current' = registry' /\ registry' # NoRegistry /\ Begun'
  BY <1>4, SentinelType DEF Current, Begun
<1>6. \A j : Still(j) /\ (Live(j)' <=> Live(j)) /\ (Unrevoked(j)' <=> Unrevoked(j))
  BY <1>1, <1>2, <1>4, <1>5, AllStill
<1>7. PICK c : c = IdleCall
  OBVIOUS
<1>8. c.pc = "idle"
  BY <1>7 DEF IdleCall
<1>9. Moves(w, c) /\ GoesOn(w, c) /\ InStep(c)'
  BY <1>1, <1>7, <1>8, StepMoves, IdleInStep DEF RevokeEnd, GoesOn, Copies
<1>10. ASSUME NEW j \in Keys \ raced' PROVE CardInv(j)' /\ SparesCard(w, j)
  <2>1. CardInv(j) /\ Ages(j)
    BY <1>1, <1>6, <1>10 DEF IInv, Still
  <2>2. j = k => Withdrawn(j)
    BY <1>1, <1>3, <1>10 DEF InStep, Knows, Revokes
  <2>3. Lists(Current.listed, j)'
    BY <1>2, <1>4, <1>5, <1>6, <2>1, <2>2 DEF CardInv, Lists, Live, Withdrawn
  <2>4. QED BY <1>4, <2>1, <2>2, <2>3, CardAges DEF SparesCard
<1>11. ASSUME NEW j \in Keys \ crossed' PROVE Shown(j)' /\ SparesIndex(w, j)
  <2>1. Shown(j)
    BY <1>1, <1>11 DEF IInv, IndexInv
  <2>2. Shown(j)'
    <3>1. CASE j = k
      <4>1. Same(w)
        BY <1>1, <1>2, <1>3, <1>11, <3>1 DEF InStep, Shows, Revokes, Same
      <4>2. QED BY <1>4, <1>5, <3>1, <4>1 DEF Shown
    <3>2. CASE j # k
      <4>1. ASSUME NEW v \in Workers, Revokes(call[v]), call[v].key = j
            PROVE  Revokes(call'[v]) /\ call'[v].key = j
        BY <1>3, <1>9, <3>2, <4>1 DEF Moves
      <4>2. QED BY <1>2, <1>4, <1>5, <1>6, <2>1, <4>1 DEF Shown, Revokes
    <3>3. QED BY <3>1, <3>2
  <2>3. QED BY <1>2, <1>4, <1>5, <1>6, <2>2 DEF SparesIndex, Still
<1>12. ASSUME NEW d \in Caps, Clean(d)' PROVE LatestInv(d)' /\ SparesLatest(w, d)
  <2>1. LatestInv(d) /\ Current'.latest[d] = Current.latest[d] /\ ~Pending(call[w])
    BY <1>1, <1>2, <1>4, <1>5, <1>12 DEF IInv, Clean, Pending
  <2>2. QED BY <1>6, <1>9, <2>1, LatestStays DEF SparesLatest
<1>13. QED BY <1>1, <1>5, <1>9, <1>10, <1>11, <1>12, Keeps

\* Version j gets a new card, and no other version that is not raced loses its own.
LEMMA CardAdded ==
  ASSUME IInv, NEW j \in Keys, NewCard(j), NEW n, n = NewNumber, NEW r, r = registry',
         r # NoRegistry, r.by[j] = n, raced \subseteq raced',
         \A k \in Keys \ raced' : k # j => r.by[k] = Current.by[k]
  PROVE  /\ Current' = r /\ Begun' /\ Live(j)' /\ Fit(j)' /\ Unrevoked(j)'
         /\ \A k \in Keys \ raced' : k # j => Still(k)
         /\ \A m \in 1..Len(entry') : m = n \/ (m \in 1..Len(entry) /\ entry'[m].key = entry[m].key)
<1>1. /\ TypeOK /\ Sound(Current, entry)
      /\ Current' = r /\ Begun'
  BY CurrentFacts DEF IInv, TInv, Current, Begun
<1>2. /\ n \in Nat \ {0} /\ entry'[n].key = j /\ entry'[n].status = "published"
      /\ \A m \in 1..Len(entry) : entry'[m] = entry[m]
      /\ \A m \in 1..Len(entry') : m = n \/ m \in 1..Len(entry)
  <2>1. entry'[n] = [key |-> j, status |-> "published"] /\ n \in Nat \ {0}
    BY <1>1, NewEntry
  <2>2. QED BY <1>1, <2>1, NewEntry
<1>3. Current'.by[j] # 0 /\ Status(j)' = "published"
  BY <1>1, <1>2 DEF Status
<1>4. Live(j)' /\ Fit(j)' /\ Unrevoked(j)'
  BY <1>3 DEF Live, Fit, Unrevoked
<1>5. ASSUME NEW k \in Keys \ raced', k # j PROVE Still(k)
  <2>1. Current'.by[k] = Current.by[k]
    BY <1>1, <1>5
  <2>2. ASSUME Current.by[k] # 0 PROVE Status(k)' = Status(k)
    <3>1. Current.by[k] \in 1..Len(entry)
      BY <1>1, <2>2 DEF Sound
    <3>2. QED BY <1>2, <2>1, <3>1 DEF Status
  <2>3. Stays(k)
    BY <1>2, <1>5, <2>1 DEF Stays
  <2>4. QED
    BY <2>1, <2>2, <2>3 DEF Still, Ages, Calm, Live, Withdrawn, Unrevoked
<1>6. QED BY <1>1, <1>2, <1>4, <1>5

\* What makes registry r the current one with a new card of version j, by a step of w.
NewTo(w, j) == j \notin raced' => /\ Current.by[j] = 0
                                  /\ \A v \in Workers \ {w} : ~Copies(call[v])

OthersIn(r, j) ==
    \A k \in Keys \ raced' : k # j => r.by[k] = Current.by[k] /\ Lists(r.listed, k)

OthersShown(w, r, j) ==
    \A k \in Keys \ crossed' : k # j /\ k \in r.listed =>
       \/ Unrevoked(k)
       \/ \E v \in Workers \ {w} : Revokes(call[v]) /\ call[v].key = k

ObjectOf(w, r) ==
    \A k \in Keys \ crossed' : \/ r.id = Current.id
                               \/ \A v \in Workers \ {w} : Revokes(call[v]) => call[v].key # k

LatestIn(w, r, j) ==
    \A d \in Caps : Clean(d)' =>
       \/ d # j[1] /\ r.latest[d] = Current.latest[d]
       \/ /\ d = j[1] /\ Lone(w)
          /\ r.latest[d] \in Vers
          /\ r.latest[d] = j[2] \/ Fit(<<d, r.latest[d]>>)

\* A step of worker w that adds a card of version j to the registry, which becomes r, and
\* leaves the worker idle.
LEMMA AddKeeps ==
  ASSUME IInv, TInv', NEW w \in Workers, NEW c, NEW j \in Keys, Moves(w, c), c.pc = "idle",
         GoesOn(w, c) \/ Begins(w, c, j), ~Revokes(call[w]), UNCHANGED revoked,
         raced \subseteq raced', crossed \subseteq crossed', raced' \subseteq crossed',
         NewCard(j), NEW n, n = NewNumber, NEW r, r = registry',
         r \in Registry, r.by[j] = n, j \in r.listed,
         NewTo(w, j), OthersIn(r, j), OthersShown(w, r, j), ObjectOf(w, r), LatestIn(w, r, j)
  PROVE  IInv'
<1>1. r # NoRegistry
  BY SentinelType
<1>2. /\ Current' = r /\ Begun' /\ Live(j)' /\ Fit(j)' /\ Unrevoked(j)'
      /\ \A k \in Keys \ raced' : k # j => Still(k)
      /\ \A m \in 1..Len(entry') : m = n \/ (m \in 1..Len(entry) /\ entry'[m].key = entry[m].key)
  BY <1>1, CardAdded DEF OthersIn
<1>3. InStep(c)'
  BY IdleInStep
<1>4. ASSUME NEW k \in Keys \ raced' PROVE CardInv(k)' /\ SparesCard(w, k)
  <2>1. CardInv(k)
    BY <1>4 DEF IInv
  <2>2. CASE k = j
    <3>1. Current.by[j] = 0 /\ \A v \in Workers \ {w} : ~Copies(call[v])
      BY <1>4, <2>2 DEF NewTo
    <3>2. ~Withdrawn(j)
      BY <3>1 DEF Withdrawn
    <3>3. ASSUME NEW m \in 1..Len(entry'), entry'[m].key = j PROVE m = n
      <4>1. SUFFICES ASSUME m \in 1..Len(entry), entry[m].key = j PROVE FALSE
        BY <1>2, <3>3
      <4>2. m # 0 /\ Current.by[j] = m
        BY <2>1, <2>2, <4>1 DEF CardInv
      <4>3. QED BY <3>1, <4>2
    <3>4. CardInv(j)'
      <4>1. j \notin revoked
        BY <2>1, <2>2, <3>2 DEF CardInv
      <4>2. Lists(Current.listed, j)'
        BY <1>2 DEF Lists, Live
      <4>3. QED BY <1>2, <3>3, <4>1, <4>2 DEF CardInv
    <3>5. ASSUME NEW v \in Workers \ {w}, Revokes(call[v]) PROVE call[v].key # j
      <4>1. Knows(call[v], j)
        BY <1>4, <2>2 DEF IInv, InStep
      <4>2. QED BY <3>2, <3>5, <4>1 DEF Knows
    <3>6. SparesCard(w, j)
      BY <3>1, <3>5 DEF SparesCard
    <3>7. QED BY <2>2, <3>4, <3>6
  <2>3. CASE k # j
    <3>1. Ages(k) /\ Lists(r.listed, k)
      BY <1>2, <1>4, <2>3 DEF Still, OthersIn
    <3>2. Lists(Current.listed, k)'
      BY <1>2, <3>1 DEF Lists, Ages, Stays
    <3>3. QED BY <2>1, <3>1, <3>2, CardAges DEF SparesCard
  <2>4. QED BY <2>2, <2>3
<1>5. ASSUME NEW k \in Keys \ crossed' PROVE Shown(k)' /\ SparesIndex(w, k)
  <2>1. Calm(k)
    BY <1>2, <1>5 DEF Calm, Still
  <2>2. SparesIndex(w, k)
    BY <1>2, <1>5, <2>1 DEF SparesIndex, ObjectOf
  <2>3. CASE k = j
    BY <1>2, <2>2, <2>3 DEF Shown
  <2>4. CASE k # j
    <3>1. ASSUME NEW v \in Workers \ {w}, Revokes(call[v]), call[v].key = k
          PROVE  Revokes(call'[v]) /\ call'[v].key = k
      BY <3>1 DEF Moves
    <3>2. Shown(k)'
      BY <1>2, <1>5, <2>1, <2>4, <3>1 DEF Shown, Calm, Revokes, OthersShown
    <3>3. QED BY <2>2, <3>2
  <2>5. QED BY <2>3, <2>4
<1>6. ASSUME NEW d \in Caps, Clean(d)' PROVE LatestInv(d)' /\ SparesLatest(w, d)
  <2>1. LatestInv(d) /\ j = <<j[1], j[2]>>
    BY <1>6, CleanBefore, KeyParts DEF IInv
  <2>2. \A u \in Vers : <<d, u>> \in Keys \ raced'
    BY <1>6 DEF Clean, Keys
  <2>3. CASE d # j[1] /\ r.latest[d] = Current.latest[d]
    <3>1. \A u \in Vers : Still(<<d, u>>)
      BY <1>2, <2>1, <2>2, <2>3
    <3>2. ~Pending(call[w])
      BY DEF Pending, Revokes
    <3>3. LatestInv(d)'
      BY <1>2, <2>1, <2>3, <3>1, <3>2, LatestStays
    <3>4. QED BY <1>2, <2>3, <3>1, <3>3 DEF SparesLatest
  <2>4. CASE /\ d = j[1] /\ Lone(w)
             /\ r.latest[d] \in Vers
             /\ r.latest[d] = j[2] \/ Fit(<<d, r.latest[d]>>)
    <3>1. PICK u \in Vers : u = r.latest[d]
      BY <2>4
    <3>2. Fit(<<d, u>>)'
      <4>1. CASE u = j[2]
        BY <1>2, <2>1, <2>4, <4>1
      <4>2. CASE u # j[2]
        <5>1. Fit(<<d, u>>) /\ <<d, u>> # j
          BY <2>1, <2>4, <3>1, <4>2
        <5>2. Still(<<d, u>>)
          BY <1>2, <2>2, <5>1
        <5>3. QED BY <5>1, <5>2 DEF Fit, Still, Calm, Unrevoked, Ages, Stays
      <4>3. QED BY <4>1, <4>2
    <3>3. Current'.latest[d] = u /\ u # NoVer
      BY <1>2, <3>1, SentinelType
    <3>4. LatestInv(d)'
      BY <3>2, <3>3 DEF LatestInv
    <3>5. QED BY <2>4, <3>4 DEF SparesLatest
  <2>5. QED BY <1>6, <2>3, <2>4 DEF LatestIn
<1>7. QED BY <1>2, <1>3, <1>4, <1>5, <1>6, Keeps

LEMMA PublishNewVersionKeeps ==
  ASSUME IInv, NEW w \in Workers, NEW k \in Keys, PublishNewVersion(w, k), TInv',
         raced \subseteq raced', crossed \subseteq crossed'
  PROVE  IInv'
<1> DEFINE a == Added(registry, k, NewNumber)
<1>1. /\ call[w].pc = "idle" /\ Room /\ registry # NoRegistry /\ registry.by[k] = 0
      /\ NewCard(k) /\ UNCHANGED <<call, revoked>>
      /\ registry' = [a EXCEPT !.latest[k[1]] = k[2]]
      /\ Racing(w, k) /\ Crossing(w, k)
  BY DEF PublishNewVersion, Unpublished
<1>2. PICK n, r : n = NewNumber /\ r = registry'
  OBVIOUS
<1>3. /\ Current = registry /\ registry \in Registry /\ Sound(registry, entry) /\ TypeOK
      /\ k[1] \in Caps /\ k[2] \in Vers /\ raced \subseteq crossed
  BY <1>1, CurrentFacts, KeyParts DEF IInv, TInv
<1>4. /\ a \in Registry /\ a.by = [registry.by EXCEPT ![k] = n]
      /\ a.listed = registry.listed \cup {k} /\ a.id = registry.id
      /\ a.latest = [registry.latest EXCEPT ![k[1]] = IF @ = NoVer THEN k[2] ELSE @]
  <2>1. /\ a \in Registry /\ a.by = [registry.by EXCEPT ![k] = n]
        /\ a.listed = registry.listed \cup {k}
        /\ a.latest = [registry.latest EXCEPT ![k[1]] = IF @ = NoVer THEN k[2] ELSE @]
    BY <1>1, <1>2, <1>3, AddedTyped
  <2>2. a.id = registry.id
    BY <1>3 DEF Added, Registry
  <2>3. QED BY <2>1, <2>2
<1> HIDE DEF a
<1>5. /\ r \in Registry /\ r.by = a.by /\ r.listed = a.listed /\ r.id = a.id
      /\ r.latest = [a.latest EXCEPT ![k[1]] = k[2]]
  BY <1>1, <1>2, <1>3, <1>4 DEF Registry
<1>6. /\ r.by[k] = n /\ k \in r.listed /\ r.listed = registry.listed \cup {k}
      /\ \A j \in Keys : j # k => r.by[j] = Current.by[j]
      /\ r.latest[k[1]] = k[2]
      /\ \A d \in Caps : d # k[1] => r.latest[d] = Current.latest[d]
  BY <1>3, <1>4, <1>5 DEF Registry
<1>7. PICK c : c = call[w]
  OBVIOUS
<1>8. Moves(w, c) /\ c.pc = "idle" /\ ~Revokes(call[w])
  BY <1>1, <1>7 DEF Moves, Revokes
<1>9. Begins(w, c, k) /\ raced' \subseteq crossed'
  BY <1>1, <1>3, <1>8, RacedIsCrossed DEF Begins
<1>10. k \notin raced' => Current.by[k] = 0 /\ \A v \in Workers \ {w} : ~Copies(call[v])
  BY <1>1, <1>3, Raced
<1>11. ASSUME NEW j \in Keys \ raced', j # k PROVE r.by[j] = Current.by[j] /\ Lists(r.listed, j)
  <2>1. Lists(Current.listed, j)
    BY <1>11 DEF IInv, CardInv
  <2>2. QED BY <1>3, <1>6, <1>11, <2>1 DEF Lists
<1>12. ASSUME NEW j \in Keys \ crossed', j # k, j \in r.listed
       PROVE  \/ Unrevoked(j)
              \/ \E v \in Workers \ {w} : Revokes(call[v]) /\ call[v].key = j
  <2>1. Shown(j) /\ j \in Current.listed
    BY <1>3, <1>6, <1>12 DEF IInv, IndexInv
  <2>2. QED BY <1>8, <2>1 DEF Shown
<1>13. r.id = Current.id
  BY <1>3, <1>4, <1>5
<1>14. ASSUME NEW d \in Caps, Clean(d)'
       PROVE  \/ d # k[1] /\ r.latest[d] = Current.latest[d]
              \/ /\ d = k[1] /\ Lone(w)
                 /\ r.latest[d] \in Vers
                 /\ r.latest[d] = k[2] \/ Fit(<<d, r.latest[d]>>)
  <2>1. CASE d = k[1]
    <3>1. k \notin crossed'
      BY <1>14, <2>1, KeyParts DEF Clean
    <3>2. Lone(w)
      BY <1>1, <3>1, BeginsAlone
    <3>3. QED BY <1>3, <1>6, <2>1, <3>2
  <2>2. QED BY <1>6, <2>1
<1>15. NewTo(w, k) /\ OthersIn(r, k)
  BY <1>10, <1>11 DEF NewTo, OthersIn
<1>16. OthersShown(w, r, k) /\ ObjectOf(w, r)
  BY <1>12, <1>13 DEF OthersShown, ObjectOf
<1>17. LatestIn(w, r, k)
  BY <1>14 DEF LatestIn
<1>18. NewCard(k) /\ UNCHANGED revoked
  BY <1>1
<1>19. r \in Registry /\ r.by[k] = n /\ k \in r.listed
  BY <1>5, <1>6
<1>20. QED
  BY <1>2, <1>8, <1>9, <1>15, <1>16, <1>17, <1>18, <1>19, AddKeeps

LEMMA PublishEndKeeps ==
  ASSUME IInv, NEW w \in Workers, PublishEnd(w), TInv'
  PROVE  IInv'
<1>1. /\ call[w].pc = "publish" /\ Step(w, IdleCall) /\ UNCHANGED <<revoked, raced, crossed>>
      /\ TInv /\ TypeOK /\ raced \subseteq crossed /\ InStep(call[w])
  BY DEF PublishEnd, IInv, TInv
<1>2. call[w] \in Call /\ call[w].own \in Registry /\ call[w].key \in Keys
  BY <1>1, CallFacts
<1>3. PICK j \in Keys, own \in Registry : j = call[w].key /\ own = call[w].own
  BY <1>2
<1>4. j[1] \in Caps /\ j[2] \in Vers /\ j = <<j[1], j[2]>> /\ Sound(own, entry)
  BY <1>1, <1>3, KeyParts DEF TInv, CallSound
<1>5. PICK c : c = IdleCall
  OBVIOUS
<1>6. /\ Moves(w, c) /\ c.pc = "idle" /\ GoesOn(w, c) /\ InStep(c)'
      /\ ~Revokes(call[w]) /\ ~Pending(call[w])
  <2>1. c.pc = "idle"
    BY <1>5 DEF IdleCall
  <2>2. Moves(w, c)
    BY <1>1, <1>5, StepMoves
  <2>3. QED
    BY <1>1, <2>1, <2>2, IdleInStep DEF GoesOn, Copies, Revokes, Pending
<1>7. CASE own.by[j] # 0
  <2>1. UNCHANGED <<entry, registry>>
    BY <1>3, <1>7 DEF PublishEnd, Unpublished
  <2>2. QED BY <1>1, <1>6, <2>1, CallStep
<1>8. CASE own.by[j] = 0
  <2> DEFINE a == Added(own, j, NewNumber)
  <2>1. Room /\ NewCard(j) /\ registry' = [a EXCEPT !.id = NewNumber]
    BY <1>3, <1>8 DEF PublishEnd, Unpublished
  <2>2. PICK n, r : n = NewNumber /\ r = registry'
    OBVIOUS
  <2>3. /\ n \in Numbers /\ a \in Registry /\ a.by = [own.by EXCEPT ![j] = n]
        /\ a.listed = own.listed \cup {j}
        /\ a.latest = [own.latest EXCEPT ![j[1]] = IF @ = NoVer THEN j[2] ELSE @]
    BY <1>1, <1>4, <2>1, <2>2, AddedTyped
  <2> HIDE DEF a
  <2>4. r \in Registry /\ r.by = a.by /\ r.listed = a.listed /\ r.latest = a.latest
    BY <2>1, <2>2, <2>3 DEF Registry
  <2>5. /\ r.by[j] = n /\ j \in r.listed /\ r.listed = own.listed \cup {j}
        /\ \A k \in Keys : k # j => r.by[k] = own.by[k]
        /\ r.latest[j[1]] = IF own.latest[j[1]] = NoVer THEN j[2] ELSE own.latest[j[1]]
        /\ \A d \in Caps : d # j[1] => r.latest[d] = own.latest[d]
    BY <1>4, <2>3, <2>4 DEF Registry
  <2>6. ASSUME NEW k \in Keys \ raced PROVE own.by[k] = Current.by[k] /\ Lists(own.listed, k)
    BY <1>1, <1>3, <2>6 DEF InStep, Knows, Copies
  <2>7. ASSUME j \notin raced'
        PROVE  /\ Current.by[j] = 0
               /\ \A v \in Workers \ {w} : ~Copies(call[v])
    <3>1. j \notin raced /\ Meet /\ Copies(call[w])
      BY <1>1, <2>7 DEF IInv, Copies
    <3>2. QED BY <1>3, <1>8, <2>6, <3>1 DEF Meet
  <2>8. ASSUME NEW k \in Keys \ raced', k # j PROVE r.by[k] = Current.by[k] /\ Lists(r.listed, k)
    BY <1>1, <2>5, <2>6, <2>8 DEF Lists
  <2>9. ASSUME NEW k \in Keys \ crossed', k # j, k \in r.listed PROVE Unrevoked(k)
    <3>1. Shows(call[w], k)
      BY <1>1, <2>9 DEF InStep
    <3>2. QED BY <1>1, <1>3, <2>5, <2>9, <3>1 DEF Shows
  <2>10. ASSUME NEW k \in Keys \ crossed', NEW v \in Workers \ {w}, Revokes(call[v])
         PROVE  call[v].key # k
    <3>1. Alone(k)
      BY <1>1, <2>10 DEF IInv, IndexInv
    <3>2. QED BY <1>1, <2>10, <3>1 DEF Alone, Revokes
  <2>11. ASSUME NEW d \in Caps, Clean(d)'
         PROVE  \/ d # j[1] /\ r.latest[d] = Current.latest[d]
                \/ /\ d = j[1] /\ Lone(w)
                   /\ r.latest[d] \in Vers
                   /\ r.latest[d] = j[2] \/ Fit(<<d, r.latest[d]>>)
    <3>1. Clean(d) /\ LatestInv(d) /\ own.latest[d] = Current.latest[d]
      BY <1>1, <1>3, <2>11 DEF Clean, IInv, InStep, Points, HasLatest
    <3>2. CASE d = j[1]
      <4>1. Lone(w)
        BY <1>1, <1>3, <1>4, <3>1, <3>2, CallAlone DEF Clean
      <4>2. \A v \in Workers : ~Pending(call[v])
        BY <1>6, <4>1 DEF Lone, Pending
      <4>3. CASE own.latest[d] = NoVer
        BY <1>4, <2>5, <3>2, <4>1, <4>3
      <4>4. CASE own.latest[d] # NoVer
        <5>1. own.latest[d] \in Vers /\ r.latest[d] = own.latest[d]
          BY <2>5, <3>2, <4>4 DEF Registry
        <5>2. Fit(<<d, own.latest[d]>>)
          BY <3>1, <4>2, <5>1 DEF LatestInv
        <5>3. QED BY <3>2, <4>1, <5>1, <5>2
      <4>5. QED BY <4>3, <4>4
    <3>3. CASE d # j[1]
      BY <2>5, <3>1, <3>3
    <3>4. QED BY <3>2, <3>3
  <2>12. NewTo(w, j) /\ OthersIn(r, j)
    BY <2>7, <2>8 DEF NewTo, OthersIn
  <2>13. OthersShown(w, r, j) /\ ObjectOf(w, r)
    BY <2>9, <2>10 DEF OthersShown, ObjectOf
  <2>14. LatestIn(w, r, j)
    BY <2>11 DEF LatestIn
  <2>15. /\ NewCard(j) /\ UNCHANGED revoked /\ raced' \subseteq crossed'
         /\ raced \subseteq raced' /\ crossed \subseteq crossed'
    BY <1>1, <2>1
  <2>16. r \in Registry /\ r.by[j] = n /\ j \in r.listed
    BY <2>4, <2>5
  <2>17. QED
    BY <1>6, <2>2, <2>12, <2>13, <2>14, <2>15, <2>16, AddKeeps
<1>9. QED BY <1>7, <1>8

LEMMA IInvStutters ==
  ASSUME IInv, UNCHANGED vars
  PROVE  IInv'
<1>1. UNCHANGED <<entry, registry, call, revoked, raced, crossed>> /\ Current' = Current
  BY DEF vars, Current
<1>2. TInv'
  BY <1>1 DEF IInv, TInv, TypeOK, CallSound, Sound
<1>3. \A k : /\ Live(k)' <=> Live(k)
             /\ Unrevoked(k)' <=> Unrevoked(k)
             /\ Withdrawn(k)' <=> Withdrawn(k)
             /\ Fit(k)' <=> Fit(k)
  BY <1>1, AllStill
<1>4. (\A k \in Keys \ raced : CardInv(k))' /\ Begun' /\ Meet'
  BY <1>1, <1>3 DEF IInv, CardInv, Lists, Begun, Meet
<1>5. (\A k \in Keys \ crossed : IndexInv(k))'
  BY <1>1, <1>3 DEF IInv, IndexInv, Alone, Shown
<1>6. (\A d \in Caps : Clean(d) => LatestInv(d))'
  BY <1>1, <1>3 DEF IInv, Clean, LatestInv
<1>7. (\A w \in Workers : InStep(call[w]))'
  <2>1. SUFFICES ASSUME NEW w \in Workers PROVE InStep(call[w])'
    OBVIOUS
  <2>2. InStep(call[w])
    BY DEF IInv
  <2>3. QED BY <1>1, <1>3, <2>2 DEF InStep, Knows, Lists, Shows, Points, Clean
<1>8. QED BY <1>1, <1>2, <1>4, <1>5, <1>6, <1>7 DEF IInv

LEMMA IInvStep == IInv /\ [Next]_vars => IInv'
<1> SUFFICES ASSUME IInv, [Next]_vars PROVE IInv'
  OBVIOUS
<1>1. TInv' /\ raced \subseteq raced' /\ crossed \subseteq crossed'
  BY TypeStep, HistoryGrows DEF IInv
<1>2. CASE UNCHANGED vars
  BY <1>2, IInvStutters
<1>3. ASSUME NEW w \in Workers, NEW k \in Keys,
             \/ PublishStart(w, k) \/ PublishNewVersion(w, k)
             \/ Deprecate(w, k) \/ RevokeCard(w, k)
      PROVE  IInv'
  BY <1>1, <1>3, PublishStartKeeps, PublishNewVersionKeeps, DeprecateKeeps, RevokeCardKeeps
<1>4. ASSUME NEW w \in Workers, \/ CopyLatest(w) \/ CopyPartners(w) \/ PublishEnd(w)
                                \/ RevokeScan(w) \/ RevokePromote(w) \/ RevokeEnd(w)
      PROVE  IInv'
  BY <1>1, <1>4, CopyLatestKeeps, CopyPartnersKeeps, PublishEndKeeps, RevokeScanKeeps,
     RevokePromoteKeeps, RevokeEndKeeps
<1>5. QED BY <1>2, <1>3, <1>4 DEF Next

\* What the invariant says of the registry's promises.
LEMMA IInvPromises ==
  ASSUME IInv
  PROVE  CardsAreKept /\ RevokedIsDenied /\ PublishedIsFound /\ PartnerSeesPublished
<1>1. /\ TypeOK /\ entry \in Seq(Card) /\ DOMAIN entry = 1..Len(entry)
      /\ registry # NoRegistry => Current = registry
      /\ revoked \subseteq Keys /\ raced \subseteq crossed
  BY CurrentFacts, LenProperties DEF IInv, TInv, TypeOK
<1>2. CardsAreKept
  <2>1. SUFFICES ASSUME NEW n \in 1..Len(entry), entry[n].key \notin raced
                 PROVE  registry.by[entry[n].key] = n
    BY <1>1 DEF CardsAreKept
  <2>2. entry[n].key \in Keys
    <3>1. entry[n] \in Card
      BY <1>1, ElementOfSeq
    <3>2. QED BY <3>1 DEF Card
  <2>3. Current.by[entry[n].key] = n
    BY <2>1, <2>2 DEF IInv, CardInv
  <2>4. registry # NoRegistry
    BY EmptySeq DEF IInv, Begun
  <2>5. QED BY <1>1, <2>3, <2>4
<1>3. ASSUME registry # NoRegistry, NEW j
      PROVE  /\ PublishedIn(registry, j) <=> Live(j)
             /\ entry[registry.by[j]].status = Status(j)
  BY <1>1, <1>3 DEF PublishedIn, Live, Status
<1>4. RevokedIsDenied
  <2>1. SUFFICES ASSUME NEW c \in Caps, NEW v \in Vers \cup {NoVer}, Admits(c, v),
                        <<c, Resolved(c, v)>> \in revoked \ raced
                 PROVE  FALSE
    BY DEF RevokedIsDenied
  <2>2. registry # NoRegistry /\ PublishedIn(registry, <<c, Resolved(c, v)>>)
    BY <2>1 DEF Admits
  <2>3. PICK k \in Keys : k = <<c, Resolved(c, v)>> /\ k \in revoked \ raced
    BY <1>1, <2>1
  <2>4. Live(k) /\ Withdrawn(k)
    BY <1>3, <2>2, <2>3 DEF IInv, CardInv
  <2>5. QED BY <2>4 DEF Live, Withdrawn
<1>5. PublishedIsFound
  <2>1. SUFFICES ASSUME Quiet, registry # NoRegistry, NEW k \in Keys, PublishedIn(registry, k),
                        \A u \in Vers : <<k[1], u>> \notin crossed,
                        NEW v, v = registry.latest[k[1]]
                 PROVE  /\ v # NoVer /\ registry.by[<<k[1], v>>] # 0
                        /\ entry[registry.by[<<k[1], v>>]].status # "revoked"
    BY DEF PublishedIsFound
  <2>2. k[1] \in Caps /\ k[2] \in Vers /\ k = <<k[1], k[2]>>
    BY KeyParts
  <2>3. LatestInv(k[1])
    BY <2>1, <2>2 DEF IInv, Clean
  <2>4. v # NoVer
    BY <1>1, <1>3, <2>1, <2>2, <2>3 DEF LatestInv
  <2>5. v \in Vers
    BY <1>1, <2>1, <2>2, <2>4 DEF TypeOK, Registry
  <2>6. \A w \in Workers : ~Pending(call[w])
    BY <2>1 DEF Quiet, Pending
  <2>7. Fit(<<k[1], v>>)
    BY <1>1, <2>1, <2>3, <2>5, <2>6 DEF LatestInv
  <2>8. QED BY <1>1, <1>3, <2>1, <2>4, <2>7 DEF Fit
<1>6. PartnerSeesPublished
  <2>1. SUFFICES ASSUME Quiet, registry # NoRegistry
                 PROVE  /\ \A k \in Keys \ raced : PublishedIn(registry, k) => k \in registry.listed
                        /\ \A k \in registry.listed \ raced : registry.by[k] # 0
                        /\ \A k \in registry.listed \ crossed :
                              entry[registry.by[k]].status # "revoked"
    BY DEF PartnerSeesPublished
  <2>2. registry.listed \subseteq Keys /\ Current = registry
    BY <1>1, <2>1 DEF TypeOK, Registry
  <2>3. \A w \in Workers : ~Revokes(call[w])
    BY <2>1 DEF Quiet, Revokes
  <2>4. \A k \in Keys \ raced : Lists(Current.listed, k)
    BY DEF IInv, CardInv
  <2>5. \A k \in Keys \ crossed : k \in Current.listed => Unrevoked(k)
    BY <2>3 DEF IInv, IndexInv, Shown
  <2>6. \A k \in registry.listed \ crossed : registry.by[k] # 0
    BY <1>1, <2>2, <2>4 DEF Lists
  <2>7. \A k \in registry.listed \ crossed : entry[registry.by[k]].status # "revoked"
    BY <1>3, <2>1, <2>2, <2>5, <2>6 DEF Unrevoked
  <2>8. QED BY <1>3, <2>1, <2>2, <2>4, <2>7 DEF Lists
<1>7. QED BY <1>2, <1>4, <1>5, <1>6

LEMMA Inductive == Spec => []IInv
  BY IInvInit, IInvStep, PTL DEF Spec

\* Whatever calls of the registry overlap, POST /admin/publish loses no card when it replaces
\* the registry, but those of publications that overlapped another.
THEOREM CardsAreKeptHolds == Spec => []CardsAreKept
<1>1. IInv => CardsAreKept
  BY IInvPromises
<1>2. QED BY <1>1, Inductive, PTL

\* Whatever calls of the registry overlap, no call is admitted for a version whose revocation
\* has returned, unless publications of that version overlapped another.
THEOREM RevokedIsDeniedHolds == Spec => []RevokedIsDenied
<1>1. IInv => RevokedIsDenied
  BY IInvPromises
<1>2. QED BY <1>1, Inductive, PTL

\* A caller that pins no version of a capability finds one that is not revoked, if no call
\* about that capability overlapped another.
THEOREM PublishedIsFoundHolds == Spec => []PublishedIsFound
<1>1. IInv => PublishedIsFound
  BY IInvPromises
<1>2. QED BY <1>1, Inductive, PTL

\* A partner's list shows every published card whose publication met no other, and no
\* revoked one whose calls met no other.
THEOREM PartnerSeesPublishedHolds == Spec => []PartnerSeesPublished
<1>1. IInv => PartnerSeesPublished
  BY IInvPromises
<1>2. QED BY <1>1, Inductive, PTL

-----------------------------------------------------------------------------
(* The calls of partners *)

\* Where a call may be: on its way, or past the doors.
Inside == {"token", "inside", "sent", "released"}
OnTheWay == {"find", "fetch", "ingress", "card"}

VisitType == [pc : {"idle", "switch"} \cup OnTheWay \cup Inside,
              cap : Caps \cup {NoKey}, ver : Vers \cup {NoVer}, key : Keys \cup {NoKey},
              shut : BOOLEAN, gone : SUBSET Keys]

\* A registry object is made with a card, and numbered after it.
Numbered(r, e) == r.id <= Len(e)

\* A registry that somebody holds, current or not, tells the truth about the cards; if it is
\* the current object it is what that has become.
HeldSound == /\ registry # NoRegistry => Numbered(registry, entry)
             /\ held # NoRegistry => /\ registry # NoRegistry
                                     /\ held \in Registry
                                     /\ Sound(held, entry) /\ Numbered(held, entry)
                                     /\ held.id = registry.id => held = registry

\* A call has its parts, and asks for a version that they have.
VisitFits == /\ visit \in VisitType
             /\ visit.pc # "idle" => held # NoRegistry /\ visit.cap \in Caps
             /\ visit.pc \in {"fetch", "card"} => /\ visit.key \in Keys
                                                  /\ held.by[visit.key] # 0

\* What a call remembers of its beginning is still so.
MemoryFits == /\ tripped \in BOOLEAN
              /\ visit.gone \subseteq revoked
              /\ visit.shut => tripped
              /\ visit.pc \in OnTheWay \cup Inside => ~visit.shut
              /\ visit.pc \in Inside => visit.key \notin visit.gone \ raced

\* The inductive invariant.
VInv == IInv /\ HeldSound /\ VisitFits /\ MemoryFits

-----------------------------------------------------------------------------
(* The registry goes on as without partners. *)

LEMMA StepIsNext == [IngressNext]_allVars => [Next]_vars
  BY DEF IngressNext, Open, Administer, Trip, Reset, Visit, Enter, AskSwitch, SwitchFinds,
         SwitchFetches, IngressFinds, IngressFetches, Look, Fetch, Verify, Forward, Release,
         Leave, allVars

\* With partners' calls in between, the registry behaves as Publishing says.
THEOREM IngressIsPublishing == IngressSpec => Spec
<1>1. IngressInit => Init
  BY DEF IngressInit
<1>2. QED BY <1>1, StepIsNext, PTL DEF IngressSpec, Spec

-----------------------------------------------------------------------------
(* What a step of the registry leaves alone. *)

\* A step leaves the registry, changes it in place, which takes no version from it, or puts
\* a new object there.
LEMMA ObjectStays ==
  ASSUME IInv, [Next]_vars, ~(UNCHANGED registry)
  PROVE  /\ registry' \in Registry
         /\ \/ /\ registry # NoRegistry /\ registry'.id = registry.id
               /\ \A k \in Keys : registry.by[k] # 0 => registry'.by[k] # 0
            \/ registry'.id = Len(entry) + 1 /\ Len(entry') = Len(entry) + 1
<1>1. /\ TypeOK /\ TInv /\ (registry # NoRegistry => registry \in Registry)
      /\ registry # NoRegistry => Sound(registry, entry)
  BY DEF IInv, TInv, TypeOK
<1>2. ASSUME NEW w \in Workers, NEW k \in Keys, PublishNewVersion(w, k)
      PROVE  /\ registry # NoRegistry /\ registry' \in Registry /\ registry'.id = registry.id
             /\ \A j \in Keys : registry.by[j] # 0 => registry'.by[j] # 0
  <2>0. PICK n : n = NewNumber
    OBVIOUS
  <2> DEFINE a == Added(registry, k, n)
  <2>1. /\ registry # NoRegistry /\ Room /\ NewCard(k) /\ registry.by[k] = 0
        /\ registry' = [a EXCEPT !.latest[k[1]] = k[2]]
    BY <1>2, <2>0 DEF PublishNewVersion, Unpublished
  <2>2. a \in Registry /\ a.by = [registry.by EXCEPT ![k] = n]
    <3>1. registry \in Registry /\ Sound(registry, entry) /\ Room /\ NewCard(k) /\ TypeOK
      BY <1>1, <2>1
    <3> HIDE DEF a
    <3>2. Added(registry, k, n) \in Registry /\ Added(registry, k, n).by = [registry.by EXCEPT ![k] = n]
      BY <2>0, <3>1, AddedTyped, ZenonT(40)
    <3>3. QED BY <3>2 DEF a
  <2>3. a.id = registry.id
    BY <1>1, <2>1 DEF Added, Registry
  <2> HIDE DEF a
  <2>4. registry' \in Registry /\ registry'.id = a.id /\ registry'.by = a.by
    BY <2>1, <2>2, KeyParts DEF Registry
  <2>5. \A j \in Keys : registry.by[j] # 0 => registry'.by[j] = registry.by[j]
    BY <1>1, <2>1, <2>2, <2>4 DEF Registry
  <2>6. QED BY <2>1, <2>3, <2>4, <2>5
<1>3. ASSUME NEW w \in Workers, PublishEnd(w)
      PROVE  /\ registry' \in Registry
             /\ registry'.id = Len(entry) + 1 /\ Len(entry') = Len(entry) + 1
  <2>1. /\ call[w].key \in Keys /\ call[w].own \in Registry
        /\ Sound(call[w].own, entry)
    BY <1>1, <1>3, CallFacts DEF TInv, CallSound, PublishEnd
  <2>2. PICK k \in Keys, own \in Registry : k = call[w].key /\ own = call[w].own
    BY <2>1
  <2> DEFINE a == Added(own, k, NewNumber)
  <2>3. Room /\ NewCard(k) /\ registry' = [a EXCEPT !.id = NewNumber]
    BY <1>3, <2>2 DEF PublishEnd
  <2>4. NewNumber \in Numbers /\ a \in Registry
    BY <1>1, <2>1, <2>2, <2>3, AddedTyped
  <2> HIDE DEF a
  <2>5. registry' \in Registry /\ registry'.id = NewNumber
    BY <2>3, <2>4 DEF Registry
  <2>6. Len(entry') = NewNumber
    BY <1>1, <2>3, NewEntry
  <2>7. QED BY <2>5, <2>6 DEF NewNumber
<1>4. ASSUME NEW w \in Workers, RevokePromote(w) \/ RevokeEnd(w)
      PROVE  /\ registry # NoRegistry /\ registry' \in Registry /\ registry'.id = registry.id
             /\ registry'.by = registry.by
  <2>1. /\ registry # NoRegistry /\ registry \in Registry
        /\ call[w].to \in Vers \cup {NoVer} /\ call[w].key[1] \in Caps
    <3>1. /\ call[w] \in Call /\ call[w].key \in Keys /\ registry # NoRegistry
      BY <1>1, <1>4, CallFacts DEF RevokePromote, RevokeEnd
    <3>2. QED BY <1>1, <3>1, KeyParts DEF Call
  <2>2. CASE RevokePromote(w)
    BY <2>1, <2>2 DEF RevokePromote, Registry
  <2>3. CASE RevokeEnd(w)
    BY <2>1, <2>3 DEF RevokeEnd, Unlisted, Registry
  <2>4. QED BY <1>4, <2>2, <2>3
<1>5. QED
  BY <1>2, <1>3, <1>4
     DEF Next, vars, PublishStart, CopyLatest, CopyPartners, Deprecate, RevokeCard, RevokeScan

LEMMA CardsStay ==
  ASSUME IInv, [Next]_vars
  PROVE  Extends(entry, entry')
<1>1. TypeOK /\ (registry # NoRegistry => Sound(registry, entry))
  BY DEF IInv, TInv
<1>2. CASE UNCHANGED entry
  BY <1>2 DEF Extends
<1>3. ASSUME NEW k \in Keys, NewCard(k) PROVE Extends(entry, entry')
  BY <1>1, <1>3, CardsExtend
<1>4. ASSUME NEW k \in Keys, Has(k), NEW s \in CardStatus,
             entry' = [entry EXCEPT ![registry.by[k]].status = s]
      PROVE  Extends(entry, entry')
  <2>1. registry.by[k] \in 1..Len(entry)
    BY <1>1, <1>4 DEF Has, Sound
  <2>2. QED BY <1>1, <1>4, <2>1, Restatus DEF Extends
<1>5. ASSUME NEW w \in Workers, NEW k \in Keys, Deprecate(w, k) \/ RevokeCard(w, k)
      PROVE  Extends(entry, entry')
  BY <1>4, <1>5 DEF Deprecate, RevokeCard, CardStatus
<1>6. ASSUME NEW w \in Workers, PublishEnd(w), ~(UNCHANGED entry)
      PROVE  Extends(entry, entry')
  <2>1. call[w].key \in Keys /\ NewCard(call[w].key)
    BY <1>6 DEF IInv, TInv, CallSound, PublishEnd
  <2>2. QED BY <1>3, <2>1
<1>7. QED
  BY <1>2, <1>3, <1>5, <1>6
     DEF Next, vars, PublishStart, PublishNewVersion, CopyLatest, CopyPartners, RevokeScan,
         RevokePromote, RevokeEnd

LEMMA AnswersStay == [Next]_vars => revoked \subseteq revoked'
  BY DEF Next, vars, PublishStart, PublishNewVersion, CopyLatest, CopyPartners, PublishEnd,
         Deprecate, RevokeCard, RevokeScan, RevokePromote, RevokeEnd

LEMMA CardsGrow ==
  ASSUME IInv, [Next]_vars
  PROVE  Len(entry) <= Len(entry')
<1>1. Len(entry) \in Nat /\ Extends(entry, entry')
  BY CardsStay, LenProperties DEF IInv, TInv, TypeOK
<1>2. TInv'
  BY TypeStep DEF IInv
<1>3. Len(entry') \in Nat
  BY <1>2, LenProperties DEF TInv, TypeOK
<1>4. Len(entry) # 0 => Len(entry) \in 1..Len(entry')
  BY <1>1 DEF Extends
<1>5. QED BY <1>1, <1>3, <1>4

\* What a sound registry finds published has not been revoked.
LEMMA PublishedIsPermitted ==
  ASSUME IInv, HeldSound, held # NoRegistry, NEW k \in Keys, held.by[k] # 0, StillPublished(k)
  PROVE  k \notin revoked \ raced
<1>1. SUFFICES ASSUME k \notin raced PROVE k \notin revoked
  OBVIOUS
<1>2. held.by[k] \in 1..Len(entry) /\ entry[held.by[k]].key = k
  BY DEF HeldSound, Sound, Numbered
<1>3. CardInv(k)
  BY <1>1 DEF IInv
<1>4. Current.by[k] = held.by[k]
  BY <1>2, <1>3 DEF CardInv
<1>5. ~Withdrawn(k)
  BY <1>4 DEF Withdrawn, Status, StillPublished
<1>6. QED BY <1>3, <1>5 DEF CardInv

-----------------------------------------------------------------------------
(* Only permitted calls get in. *)

LEMMA VInvInit == IngressInit => VInv
<1> SUFFICES ASSUME IngressInit PROVE VInv
  OBVIOUS
<1>1. IInv
  BY IInvInit DEF IngressInit
<1>2. NoVisit \in VisitType
  BY DEF NoVisit, VisitType
<1>3. QED
  BY <1>1, <1>2
     DEF IngressInit, Init, VInv, HeldSound, VisitFits, MemoryFits, NoVisit, OnTheWay, Inside

\* A call that ends leaves nothing to keep.
LEMMA DenyKeeps ==
  ASSUME VInv, Deny, UNCHANGED <<vars, held, tripped>>
  PROVE  VInv'
<1>1. UNCHANGED <<entry, registry, call, revoked, raced>>
  BY DEF vars
<1>2. IInv'
  BY IInvStutters DEF VInv
<1>3. HeldSound'
  BY <1>1 DEF VInv, HeldSound, Sound, Numbered
<1>4. NoVisit \in VisitType
  BY DEF NoVisit, VisitType
<1>5. VisitFits' /\ MemoryFits'
  BY <1>4 DEF VInv, Deny, NoVisit, VisitFits, MemoryFits, OnTheWay, Inside
<1>6. QED BY <1>2, <1>3, <1>5 DEF VInv

\* A call that goes on from one place to the next with the same memory.
LEMMA GoKeeps ==
  ASSUME VInv, UNCHANGED <<vars, held, tripped>>,
         NEW pc \in OnTheWay \cup Inside, NEW k \in Keys \cup {NoKey},
         visit' = [visit EXCEPT !.pc = pc, !.key = k],
         visit.pc # "idle", ~visit.shut,
         pc \in {"fetch", "card"} => k \in Keys /\ held.by[k] # 0,
         pc \in Inside => k \notin visit.gone \ raced
  PROVE  VInv'
<1>1. UNCHANGED <<entry, registry, call, revoked, raced>>
  BY DEF vars
<1>2. IInv'
  BY IInvStutters DEF VInv
<1>3. HeldSound'
  BY <1>1 DEF VInv, HeldSound, Sound, Numbered
<1>4. visit \in VisitType
  BY DEF VInv, VisitFits
<1>5. /\ visit' \in VisitType /\ visit'.pc = pc /\ visit'.key = k
      /\ visit'.cap = visit.cap /\ visit'.shut = visit.shut /\ visit'.gone = visit.gone
  BY <1>4 DEF VisitType
<1>6. VisitFits' /\ MemoryFits'
  BY <1>1, <1>5 DEF VInv, VisitFits, MemoryFits
<1>7. QED BY <1>2, <1>3, <1>6 DEF VInv

\* The version a call asks for is one that the held registry has.
LEMMA WantedIs ==
  ASSUME VInv, visit.pc # "idle"
  PROVE  Wanted = NoKey \/ (Wanted \in Keys /\ held.by[Wanted] # 0)
<1>1. visit.cap \in Caps /\ visit.ver \in Vers \cup {NoVer} /\ held \in Registry
  BY DEF VInv, VisitFits, VisitType, HeldSound
<1>2. held.latest[visit.cap] \in Vers \cup {NoVer}
  BY <1>1 DEF Registry
<1>3. PICK v \in Vers \cup {NoVer} :
         v = IF visit.ver = NoVer THEN held.latest[visit.cap] ELSE visit.ver
  BY <1>1, <1>2
<1>4. Wanted = IF v = NoVer THEN NoKey
               ELSE IF held.by[<<visit.cap, v>>] = 0 THEN NoKey ELSE <<visit.cap, v>>
  BY <1>3 DEF Wanted
<1>5. QED BY <1>1, <1>3, <1>4 DEF Keys

LEMMA OpenKeeps == ASSUME VInv, Open PROVE VInv'
<1>1. /\ UNCHANGED <<vars, tripped, visit>> /\ held' = registry /\ registry # NoRegistry
      /\ visit = NoVisit
  BY DEF Open
<1>2. UNCHANGED <<entry, registry, call, revoked, raced>>
  BY <1>1 DEF vars
<1>3. IInv'
  BY <1>1, IInvStutters DEF VInv
<1>4. HeldSound'
  BY <1>1, <1>2 DEF VInv, IInv, TInv, TypeOK, HeldSound, Sound, Numbered
<1>5. VisitFits' /\ MemoryFits'
  BY <1>1, <1>2 DEF VInv, VisitFits, MemoryFits, NoVisit
<1>6. QED BY <1>3, <1>4, <1>5 DEF VInv

LEMMA AdministerKeeps == ASSUME VInv, Administer PROVE VInv'
<1>1. /\ [Next]_vars /\ UNCHANGED <<tripped, visit>>
      /\ held' = IF held # NoRegistry /\ held.id = registry.id /\ registry'.id = held.id
                 THEN registry' ELSE held
  BY DEF Administer
<1>2. IInv /\ IInv' /\ TInv /\ TInv' /\ raced \subseteq raced'
  BY <1>1, IInvStep, HistoryGrows DEF VInv, IInv
<1>3. /\ Len(entry) \in Nat /\ Len(entry') \in Nat /\ Len(entry) <= Len(entry')
      /\ Extends(entry, entry')
  BY <1>1, <1>2, CardsGrow, CardsStay, LenProperties DEF TInv, TypeOK
<1>4. registry' # NoRegistry => Numbered(registry', entry')
  <2>1. CASE UNCHANGED registry
    <3>1. registry # NoRegistry => registry.id \in Nat /\ registry.id <= Len(entry)
      BY <1>2, MaxEntriesType DEF VInv, HeldSound, Numbered, TInv, TypeOK, Registry, Numbers
    <3>2. QED BY <1>3, <2>1, <3>1 DEF Numbered
  <2>2. CASE ~(UNCHANGED registry)
    <3>1. \/ registry # NoRegistry /\ registry'.id = registry.id
          \/ registry'.id = Len(entry) + 1 /\ Len(entry') = Len(entry) + 1
      BY <1>1, <1>2, <2>2, ObjectStays
    <3>2. registry # NoRegistry => registry.id \in Nat /\ registry.id <= Len(entry)
      BY <1>2, MaxEntriesType DEF VInv, HeldSound, Numbered, TInv, TypeOK, Registry, Numbers
    <3>3. QED BY <1>3, <3>1, <3>2 DEF Numbered
  <2>3. QED BY <2>1, <2>2
<1>5. ASSUME held # NoRegistry
      PROVE  /\ registry' # NoRegistry /\ held' # NoRegistry /\ held' \in Registry
             /\ Sound(held', entry') /\ Numbered(held', entry')
             /\ held'.id = registry'.id => held' = registry'
             /\ \A k \in Keys : held.by[k] # 0 => held'.by[k] # 0
  <2>1. /\ registry # NoRegistry /\ held \in Registry /\ Sound(held, entry)
        /\ held.id = registry.id => held = registry
        /\ held.id \in Nat /\ held.id <= Len(entry)
    BY <1>5, MaxEntriesType DEF VInv, HeldSound, Numbered, Registry, Numbers
  <2>2. Sound(held, entry') /\ Numbered(held, entry')
    BY <1>3, <2>1, SoundStays DEF Numbered
  <2>3. CASE UNCHANGED registry
    <3>1. held' = held
      BY <1>1, <2>1, <2>3
    <3>2. QED BY <1>5, <2>1, <2>2, <2>3, <3>1
  <2>4. CASE ~(UNCHANGED registry) /\ registry'.id = Len(entry) + 1
    <3>1. registry' \in Registry
      BY <1>1, <1>2, <2>4, ObjectStays
    <3>2. registry' # NoRegistry /\ held.id # registry'.id
      BY <1>3, <2>1, <2>4, <3>1, SentinelType
    <3>3. held' = held
      BY <1>1, <3>2
    <3>4. QED BY <1>5, <2>1, <2>2, <3>2, <3>3
  <2>5. CASE ~(UNCHANGED registry) /\ registry'.id # Len(entry) + 1
    <3>1. /\ registry' \in Registry /\ registry'.id = registry.id
          /\ \A k \in Keys : registry.by[k] # 0 => registry'.by[k] # 0
      BY <1>1, <1>2, <2>5, ObjectStays
    <3>2. registry' # NoRegistry
      BY <3>1, SentinelType
    <3>3. Sound(registry', entry')
      BY <1>2, <3>2 DEF TInv, Sound
    <3>4. CASE held.id = registry.id
      <4>1. held' = registry' /\ held = registry
        BY <1>1, <1>5, <2>1, <3>1, <3>4
      <4>2. QED BY <1>4, <3>1, <3>2, <3>3, <4>1
    <3>5. CASE held.id # registry.id
      <4>1. held' = held
        BY <1>1, <3>5
      <4>2. QED BY <1>5, <2>1, <2>2, <3>1, <3>2, <3>5, <4>1
    <3>6. QED BY <3>4, <3>5
  <2>6. QED BY <2>3, <2>4, <2>5
<1>6. held' # NoRegistry => held # NoRegistry
  BY <1>1
<1>7. HeldSound'
  BY <1>4, <1>5, <1>6 DEF HeldSound, Numbered, Sound
<1>8. VisitFits'
  BY <1>1, <1>5 DEF VInv, VisitFits
<1>9. MemoryFits'
  BY <1>1, <1>2, AnswersStay DEF VInv, MemoryFits
<1>10. QED BY <1>2, <1>7, <1>8, <1>9 DEF VInv

LEMMA SwitchKeeps == ASSUME VInv, Trip \/ Reset PROVE VInv'
<1>1. UNCHANGED <<vars, held>>
  BY DEF Trip, Reset
<1>2. UNCHANGED <<entry, registry, call, revoked, raced>>
  BY <1>1 DEF vars
<1>3. IInv'
  BY <1>1, IInvStutters DEF VInv
<1>4. HeldSound'
  BY <1>1, <1>2 DEF VInv, HeldSound, Sound, Numbered
<1>5. CASE Trip
  BY <1>1, <1>2, <1>3, <1>4, <1>5 DEF VInv, Trip, VisitFits, MemoryFits
<1>6. CASE Reset
  <2>1. visit \in VisitType /\ visit' = [visit EXCEPT !.shut = FALSE] /\ tripped' = FALSE
    BY <1>6 DEF VInv, VisitFits, Reset
  <2>2. /\ visit' \in VisitType /\ visit'.shut = FALSE /\ visit'.pc = visit.pc
        /\ visit'.cap = visit.cap /\ visit'.key = visit.key /\ visit'.gone = visit.gone
    BY <2>1 DEF VisitType
  <2>3. QED BY <1>1, <1>2, <1>3, <1>4, <2>1, <2>2 DEF VInv, VisitFits, MemoryFits
<1>7. QED BY <1>5, <1>6

LEMMA EnterKeeps == ASSUME VInv, Enter PROVE VInv'
<1>1. PICK c \in Caps, v \in Vers \cup {NoVer} :
         visit' = [NoVisit EXCEPT !.pc = "switch", !.cap = c, !.ver = v,
                                  !.shut = tripped, !.gone = revoked]
  BY DEF Enter
<1>2. held # NoRegistry /\ UNCHANGED <<vars, held, tripped>>
  BY DEF Enter
<1>3. UNCHANGED <<entry, registry, call, revoked, raced>>
  BY <1>2 DEF vars
<1>4. IInv'
  BY <1>2, IInvStutters DEF VInv
<1>5. HeldSound'
  BY <1>2, <1>3 DEF VInv, HeldSound, Sound, Numbered
<1>6. /\ visit' \in VisitType /\ visit'.pc = "switch" /\ visit'.cap = c
      /\ visit'.shut = tripped /\ visit'.gone = revoked
  <2>1. tripped \in BOOLEAN /\ revoked \subseteq Keys
    BY DEF VInv, MemoryFits, IInv, TInv, TypeOK
  <2>2. QED BY <1>1, <2>1 DEF NoVisit, VisitType
<1>7. VisitFits' /\ MemoryFits'
  BY <1>2, <1>3, <1>6 DEF VInv, VisitFits, MemoryFits, OnTheWay, Inside
<1>8. QED BY <1>4, <1>5, <1>7 DEF VInv

LEMMA AskSwitchKeeps == ASSUME VInv, AskSwitch PROVE VInv'
<1>1. visit.pc = "switch" /\ UNCHANGED <<vars, held, tripped>> /\ visit \in VisitType
  BY DEF AskSwitch, VInv, VisitFits
<1>2. CASE tripped
  BY <1>1, <1>2, DenyKeeps DEF AskSwitch
<1>3. CASE ~tripped
  <2>1. visit' = [visit EXCEPT !.pc = "find"]
    BY <1>3 DEF AskSwitch, Go
  <2>2. visit' = [visit EXCEPT !.pc = "find", !.key = visit.key] /\ visit.key \in Keys \cup {NoKey}
    BY <1>1, <2>1 DEF VisitType
  <2>3. ~visit.shut
    BY <1>3 DEF VInv, MemoryFits
  <2>4. QED BY <1>1, <2>2, <2>3, GoKeeps DEF OnTheWay, Inside
<1>4. QED BY <1>2, <1>3

\* The two parts look the version up alike.
LEMMA LookKeeps ==
  ASSUME VInv, NEW from \in OnTheWay, NEW to \in {"fetch", "card"}, Look(from, to)
  PROVE  VInv'
<1>1. /\ visit.pc = from /\ UNCHANGED <<vars, held, tripped>> /\ visit.pc # "idle"
      /\ ~visit.shut
  BY DEF Look, OnTheWay, VInv, MemoryFits
<1>2. CASE Wanted = NoKey
  BY <1>1, <1>2, DenyKeeps DEF Look
<1>3. CASE Wanted # NoKey
  <2>1. Wanted \in Keys /\ held.by[Wanted] # 0
    BY <1>1, <1>3, WantedIs
  <2>2. PICK k \in Keys : k = Wanted /\ held.by[k] # 0
    BY <2>1
  <2>3. visit' = [visit EXCEPT !.pc = to, !.key = k]
    BY <1>3, <2>2 DEF Look
  <2>4. QED BY <1>1, <2>2, <2>3, GoKeeps DEF OnTheWay, Inside
<1>4. QED BY <1>2, <1>3

\* The two parts look at the card alike.
LEMMA FetchKeeps ==
  ASSUME VInv, NEW from \in {"fetch", "card"}, NEW to \in {"ingress", "token"}, Fetch(from, to)
  PROVE  VInv'
<1>1. /\ visit.pc = from /\ UNCHANGED <<vars, held, tripped>> /\ visit.pc # "idle"
      /\ ~visit.shut /\ held # NoRegistry /\ visit \in VisitType
      /\ visit.key \in Keys /\ held.by[visit.key] # 0
  BY DEF Fetch, OnTheWay, VInv, MemoryFits, VisitFits
<1>2. CASE ~StillPublished(visit.key)
  BY <1>1, <1>2, DenyKeeps DEF Fetch
<1>3. CASE StillPublished(visit.key)
  <2>1. PICK k \in Keys : k = visit.key /\ held.by[k] # 0
    BY <1>1
  <2>2. k \notin revoked \ raced
    BY <1>1, <1>3, <2>1, PublishedIsPermitted DEF VInv
  <2>3. visit' = [visit EXCEPT !.pc = to]
    BY <1>3 DEF Fetch, Go
  <2>4. visit' = [visit EXCEPT !.pc = to, !.key = k]
    BY <1>1, <2>1, <2>3 DEF VisitType
  <2>5. k \notin visit.gone \ raced
    BY <2>2 DEF VInv, MemoryFits
  <2>6. QED BY <1>1, <2>1, <2>4, <2>5, GoKeeps DEF OnTheWay, Inside
<1>4. QED BY <1>2, <1>3

\* Past the doors the card is not looked at again.
LEMMA InsideKeeps ==
  ASSUME VInv, visit.pc \in Inside, UNCHANGED <<vars, held, tripped>>,
         NEW pc \in Inside, Deny \/ Go(pc)
  PROVE  VInv'
<1>1. CASE Deny
  BY <1>1, DenyKeeps
<1>2. CASE Go(pc)
  <2>1. /\ visit \in VisitType /\ ~visit.shut /\ visit.pc # "idle"
        /\ visit.key \notin visit.gone \ raced
    BY DEF VInv, VisitFits, MemoryFits, Inside
  <2>2. PICK k \in Keys \cup {NoKey} : k = visit.key
    BY <2>1 DEF VisitType
  <2>3. visit' = [visit EXCEPT !.pc = pc, !.key = k]
    BY <1>2, <2>1, <2>2 DEF Go, VisitType
  <2>4. pc \notin {"fetch", "card"}
    BY DEF Inside
  <2>5. QED BY <2>1, <2>2, <2>3, <2>4, GoKeeps
<1>3. QED BY <1>1, <1>2

LEMMA VisitKeeps == ASSUME VInv, Visit PROVE VInv'
<1>1. CASE SwitchFinds
  BY <1>1, LookKeeps DEF SwitchFinds, OnTheWay
<1>2. CASE IngressFinds
  BY <1>2, LookKeeps DEF IngressFinds, OnTheWay
<1>3. CASE SwitchFetches
  BY <1>3, FetchKeeps DEF SwitchFetches
<1>4. CASE IngressFetches
  BY <1>4, FetchKeeps DEF IngressFetches
<1>5. CASE Verify
  BY <1>5, InsideKeeps DEF Verify, Inside
<1>6. CASE Forward
  BY <1>6, InsideKeeps DEF Forward, Inside
<1>7. CASE Release
  BY <1>7, InsideKeeps DEF Release, Inside
<1>8. CASE Leave
  BY <1>8, DenyKeeps DEF Leave
<1>9. QED
  BY <1>1, <1>2, <1>3, <1>4, <1>5, <1>6, <1>7, <1>8, EnterKeeps, AskSwitchKeeps DEF Visit

LEMMA VInvStep == VInv /\ [IngressNext]_allVars => VInv'
<1> SUFFICES ASSUME VInv, [IngressNext]_allVars PROVE VInv'
  OBVIOUS
<1>1. CASE UNCHANGED allVars
  <2>1. UNCHANGED <<vars, held, tripped, visit>>
    BY <1>1 DEF allVars, ingressVars
  <2>2. UNCHANGED <<entry, registry, call, revoked, raced>>
    BY <2>1 DEF vars
  <2>3. IInv'
    BY <2>1, IInvStutters DEF VInv
  <2>4. QED BY <2>1, <2>2, <2>3 DEF VInv, HeldSound, Sound, Numbered, VisitFits, MemoryFits
<1>2. QED
  BY <1>1, OpenKeeps, AdministerKeeps, SwitchKeeps, VisitKeeps DEF IngressNext

\* Whatever calls of the registry overlap, a partner's call that gets in began while the
\* switch was open or found it reset, and its card was not revoked when it began, unless
\* publications of that version overlapped another.
THEOREM OnlyPermittedCallsHolds == IngressSpec => []OnlyPermittedCalls
<1>1. VInv => OnlyPermittedCalls
  BY DEF VInv, MemoryFits, OnlyPermittedCalls, Inside
<1>2. QED BY <1>1, VInvInit, VInvStep, PTL DEF IngressSpec

\* What the registry promises holds with partners' calls between its steps.
THEOREM PromisesHoldForPartners ==
  IngressSpec => [](CardsAreKept /\ RevokedIsDenied /\ PublishedIsFound
                      /\ PartnerSeesPublished)
<1>1. IInv => CardsAreKept /\ RevokedIsDenied /\ PublishedIsFound /\ PartnerSeesPublished
  BY IInvPromises
<1>2. QED BY <1>1, IngressIsPublishing, Inductive, PTL
=============================================================================
