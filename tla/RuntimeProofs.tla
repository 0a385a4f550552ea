--------------------------- MODULE RuntimeProofs ---------------------------
(***************************************************************************)
(* Proofs about Runtime, for any number of cells, node runs, leases, keys, *)
(* dispatchers and faults: no older worker writes after a younger one, and *)
(* what the outbox calls delivered is stored once.                         *)
(***************************************************************************)
EXTENDS Runtime, SequenceTheorems, WellFoundedInduction, TLAPS

WorkerType == /\ leases \in Seq(Lease)
              /\ running \subseteq Runs /\ unknown \subseteq Runs
              /\ cellHigh \in [Cells -> Int] /\ nodeHigh \in [Runs -> Int]
              /\ kids \in [Cells -> 1..MaxKids] /\ revoked \subseteq Cells \X (1..MaxKids)
FlushType == /\ flush \in [Dispatchers -> Flush]
             /\ \A d \in Dispatchers : \/ flush[d] = Idle
                                       \/ /\ flush[d].step \in Steps /\ flush[d].batch # {}
                                          /\ flush[d].batch \subseteq DOMAIN entries

\* The bounds of the model, which keep tokens and event numbers in their types.
Bounded == DOMAIN leases \subseteq 1..MaxLeases /\ DOMAIN entries \subseteq 1..MaxEvents

\* No number in the events table is above every natural number: there is a highest one.
HasHighest == \E m \in Nat : \A k \in DOMAIN rows : rows[k].seq <= m

\* The inductive invariant behind the types.
TInv == TypeOK /\ Bounded /\ HasHighest

\* The high-water of a cell is at least each token that was accepted there.
Fenced == \A e \in DOMAIN entries : entries[e].token <= cellHigh[CellOf[entries[e].run]]

\* A dispatcher marks only what it has stored.
MarkedIsStored == \A d \in Dispatchers : flush[d].step = "mark" => Stored(Now(d))

FenceInv == Fenced /\ NoZombieWrites
StoreInv == MarkedIsStored /\ DeliveredIsStored

\* The number that a dispatcher has read is above those of the cell, until it is inserted.
ReadIsAbove ==
    \A d \in Dispatchers : flush[d].step = "insert" =>
        \A k \in DOMAIN rows : rows[k].cell = CellOf[entries[Now(d)].run] => rows[k].seq < flush[d].seq

\* Only one thread flushes the outbox.
OneFlusher == \A d, e \in Dispatchers : d = e

SeqInv == ReadIsAbove /\ SeqsAreDistinct

-----------------------------------------------------------------------------
(* Sequences and extremes. *)

LEMMA SeqOfFunction ==
  ASSUME NEW S, NEW n \in Nat, NEW f \in [1..n -> S]
  PROVE  f \in Seq(S)
  BY SeqDef

\* Changing a lease in place.
LEMMA LeaseChanged ==
  ASSUME leases \in Seq(Lease), NEW i \in DOMAIN leases, NEW l \in Lease
  PROVE  /\ [leases EXCEPT ![i] = l] \in Seq(Lease)
         /\ DOMAIN [leases EXCEPT ![i] = l] = DOMAIN leases
  BY ExceptSeq, LenProperties

LEMMA OldestIsLeast ==
  ASSUME NEW S \in SUBSET Nat, S # {}
  PROVE  Oldest(S) \in S /\ \A j \in S : Oldest(S) <= j
<1>1. PICK m \in S : \A j \in S : ~(<<j, m>> \in OpToRel(<, Nat))
  BY NatLessThanWellFounded, WFMin
<1>2. ASSUME NEW j \in S PROVE m <= j
  <2>1. j \in Nat /\ m \in Nat
    OBVIOUS
  <2>2. j < m => <<j, m>> \in OpToRel(<, Nat)
    BY <2>1, Zenon DEF OpToRel
  <2>3. ~(j < m)
    BY <1>1, <2>2, Zenon
  <2>4. QED BY <2>1, <2>3
<1>3. QED BY <1>2 DEF Oldest

\* A bounded set of natural numbers has a greatest element.
LEMMA GreatestExists ==
  ASSUME NEW S \in SUBSET Nat, S # {}, NEW b \in Nat, \A s \in S : s <= b
  PROVE  \E s \in S : \A t \in S : s >= t
<1> DEFINE gaps == {n \in Nat : b - n \in S}
<1>1. gaps \subseteq Nat /\ gaps # {}
  <2>1. PICK s \in S : TRUE
    OBVIOUS
  <2>2. b - s \in Nat /\ b - (b - s) = s
    BY <2>1
  <2>3. QED BY <2>1, <2>2
<1>2. Oldest(gaps) \in gaps /\ \A n \in gaps : Oldest(gaps) <= n
  BY <1>1, OldestIsLeast
<1> DEFINE top == b - Oldest(gaps)
<1>3. top \in S
  BY <1>2
<1>4. ASSUME NEW t \in S PROVE top >= t
  <2>1. b - t \in gaps
    <3>1. b - t \in Nat /\ b - (b - t) = t
      OBVIOUS
    <3>2. QED BY <3>1
  <2>2. Oldest(gaps) \in Nat /\ Oldest(gaps) <= b - t /\ t \in Nat
    BY <1>2, <2>1
  <2>3. QED BY <2>2
<1>5. QED BY <1>3, <1>4

-----------------------------------------------------------------------------
(* Type correctness. *)

\* What the next entry of a flush is, and that a flush that has begun has one.
LEMMA NowIsPending ==
  ASSUME TInv, NEW d \in Dispatchers, flush[d].step \in Steps
  PROVE  /\ Now(d) \in flush[d].batch /\ Now(d) \in DOMAIN entries
         /\ Now(d) \in 1..MaxEvents
<1>1. flush[d] # Idle
  BY DEF Idle, Steps
<1>2. flush[d].batch # {} /\ flush[d].batch \subseteq DOMAIN entries
  BY <1>1 DEF TInv, TypeOK
<1>3. flush[d].batch \in SUBSET Nat
  BY <1>2, RuntimeAssumption DEF TInv, Bounded
<1>4. QED BY <1>2, <1>3, OldestIsLeast DEF Now, TInv, Bounded

\* Counting an attempt changes nothing else of an entry.
LEMMA TriedType ==
  ASSUME TInv, NEW n \in DOMAIN entries
  PROVE  /\ Tried(n) \in Seq(Entry) /\ DOMAIN Tried(n) = DOMAIN entries
         /\ \A e \in DOMAIN entries : /\ Tried(n)[e].token = entries[e].token
                                      /\ Tried(n)[e].run = entries[e].run
                                      /\ Tried(n)[e].delivered = entries[e].delivered
<1> DEFINE more == IF entries[n].attempts < MaxTries THEN entries[n].attempts + 1 ELSE MaxTries
           entry == [entries[n] EXCEPT !.attempts = more]
<1>1. entries \in Seq(Entry) /\ entries[n] \in Entry /\ n \in 1..Len(entries)
      /\ DOMAIN entries = 1..Len(entries)
  BY ElementOfSeq, LenProperties DEF TInv, TypeOK
<1>2. more \in 0..MaxTries
  BY <1>1, RuntimeAssumption DEF Entry
<1>3. /\ entry \in Entry /\ entry.token = entries[n].token /\ entry.run = entries[n].run
      /\ entry.delivered = entries[n].delivered
  BY <1>1, <1>2 DEF Entry
<1>4. Tried(n) = [entries EXCEPT ![n] = entry]
  BY DEF Tried
<1> HIDE DEF entry
<1>5. /\ Tried(n) \in Seq(Entry) /\ Len(Tried(n)) = Len(entries)
      /\ \A e \in 1..Len(entries) : Tried(n)[e] = IF e = n THEN entry ELSE entries[e]
  BY <1>1, <1>3, <1>4, ExceptSeq
<1>6. DOMAIN Tried(n) = 1..Len(Tried(n))
  BY <1>5, LenProperties
<1>7. QED BY <1>1, <1>3, <1>5, <1>6

\* Marking an entry changes nothing else of it.
LEMMA MarkedType ==
  ASSUME NEW f \in Seq(Entry), NEW n \in DOMAIN f
  PROVE  LET g == [f EXCEPT ![n].delivered = TRUE]
         IN /\ g \in Seq(Entry) /\ DOMAIN g = DOMAIN f
            /\ \A e \in DOMAIN f : /\ g[e].token = f[e].token /\ g[e].run = f[e].run
                                   /\ (g[e].delivered => f[e].delivered \/ e = n)
<1> DEFINE entry == [f[n] EXCEPT !.delivered = TRUE]
           g == [f EXCEPT ![n] = entry]
<1>1. f[n] \in Entry /\ n \in 1..Len(f) /\ DOMAIN f = 1..Len(f)
      /\ \A e \in DOMAIN f : f[e] \in Entry
  BY ElementOfSeq, LenProperties
<1>2. /\ entry \in Entry /\ entry.token = f[n].token /\ entry.run = f[n].run
      /\ entry.delivered = TRUE
  BY <1>1 DEF Entry
<1>3. g = [f EXCEPT ![n].delivered = TRUE]
  OBVIOUS
<1> HIDE DEF entry
<1>4. /\ g \in Seq(Entry) /\ Len(g) = Len(f)
      /\ \A e \in 1..Len(f) : g[e] = IF e = n THEN entry ELSE f[e]
  BY <1>1, <1>2, ExceptSeq
<1>5. DOMAIN g = 1..Len(g)
  BY <1>4, LenProperties
<1> HIDE DEF g
<1>6. ASSUME NEW e \in DOMAIN f
      PROVE  /\ g[e].token = f[e].token /\ g[e].run = f[e].run
             /\ (g[e].delivered => f[e].delivered \/ e = n)
  <2>1. CASE e = n
    BY <1>1, <1>2, <1>4, <2>1
  <2>2. CASE e # n
    BY <1>1, <1>4, <2>2
  <2>3. QED BY <2>1, <2>2
<1>7. QED BY <1>1, <1>3, <1>4, <1>5, <1>6

\* The next number is a natural number above those of its cell.
LEMMA NextSeqIsHigher ==
  ASSUME TInv, NEW c
  PROVE  /\ NextSeq(c) \in Nat
         /\ \A k \in DOMAIN rows : rows[k].cell = c => rows[k].seq < NextSeq(c)
<1> DEFINE used == {rows[k].seq : k \in {k \in DOMAIN rows : rows[k].cell = c}} \cup {0}
<1>1. \A k \in DOMAIN rows : rows[k].seq \in Nat
  <2>1. rows \in Seq(Row)
    BY DEF TInv, TypeOK
  <2>2. \A k \in DOMAIN rows : rows[k] \in Row
    BY <2>1, ElementOfSeq, LenProperties
  <2>3. QED BY <2>2 DEF Row
<1>2. used \in SUBSET Nat /\ used # {}
  BY <1>1
<1>3. PICK b \in Nat : \A k \in DOMAIN rows : rows[k].seq <= b
  BY DEF TInv, HasHighest
<1>4. \A s \in used : s <= b
  BY <1>3
<1>5. \E s \in used : \A t \in used : s >= t
  BY <1>2, <1>4, GreatestExists
<1> DEFINE top == CHOOSE s \in used : \A t \in used : s >= t
<1>6. top \in used /\ \A t \in used : top >= t
  BY <1>5
<1>7. NextSeq(c) = 1 + top
  BY DEF NextSeq
<1> HIDE DEF top
<1>8. ASSUME NEW k \in DOMAIN rows, rows[k].cell = c PROVE rows[k].seq < 1 + top
  <2>1. rows[k].seq \in used /\ top \in Nat
    BY <1>2, <1>6, <1>8
  <2>2. top >= rows[k].seq /\ rows[k].seq \in Nat
    BY <1>1, <1>6, <2>1
  <2>3. QED BY <2>1, <2>2
<1>9. QED BY <1>2, <1>6, <1>7, <1>8

LEMMA TypeParts == TypeOK <=> /\ WorkerType /\ FlushType
                              /\ entries \in Seq(Entry) /\ rows \in Seq(Row)
                              /\ faults \in 0..MaxFaults
  BY DEF TypeOK, WorkerType, FlushType

\* A step of the leases, keys and reports leaves the outbox alone.
LEMMA WorkerStep ==
  ASSUME TInv, WorkerType', DOMAIN leases' \subseteq 1..MaxLeases,
         UNCHANGED <<entries, rows, flush, faults>>
  PROVE  TInv'
  BY DEF TInv, TypeOK, WorkerType, Bounded, HasHighest

LEMMA RotateType ==
  ASSUME TInv, NEW c \in Cells, Rotate(c)
  PROVE  TInv'
<1>1. kids[c] + 1 \in 1..MaxKids
  BY RuntimeAssumption DEF TInv, TypeOK, Rotate
<1>2. WorkerType'
  BY <1>1 DEF TInv, TypeOK, WorkerType, Rotate
<1>3. QED BY <1>2, WorkerStep DEF TInv, Bounded, Rotate

LEMMA RevokeType ==
  ASSUME TInv, NEW c \in Cells, NEW k \in 1..MaxKids, Revoke(c, k)
  PROVE  TInv'
<1>1. WorkerType'
  BY DEF TInv, TypeOK, WorkerType, Revoke
<1>2. QED BY <1>1, WorkerStep DEF TInv, Bounded, Revoke

LEMMA IssueLeaseType ==
  ASSUME TInv, NEW r \in Runs, IssueLease(r)
  PROVE  TInv'
<1> DEFINE lease == [run |-> r, state |-> "pending", due |-> FALSE, kid |-> kids[CellOf[r]]]
<1>1. lease \in Lease /\ leases \in Seq(Lease)
  BY RuntimeAssumption DEF TInv, TypeOK, Lease, LeaseStates
<1>2. leases' = Append(leases, lease)
  BY DEF IssueLease
<1> HIDE DEF lease
<1>3. leases' \in Seq(Lease) /\ Len(leases') = Len(leases) + 1
  BY <1>1, <1>2, AppendProperties
<1>4. DOMAIN leases' \subseteq 1..MaxLeases
  BY <1>1, <1>3, LenProperties, RuntimeAssumption DEF IssueLease
<1>5. WorkerType'
  BY <1>3 DEF TInv, TypeOK, WorkerType, IssueLease
<1>6. QED BY <1>4, <1>5, WorkerStep DEF IssueLease

LEMMA FallDueType ==
  ASSUME TInv, NEW i \in DOMAIN leases, FallDue(i)
  PROVE  TInv'
<1> DEFINE lease == [leases[i] EXCEPT !.due = TRUE]
<1>1. leases \in Seq(Lease) /\ leases[i] \in Lease
  BY ElementOfSeq, LenProperties DEF TInv, TypeOK
<1>2. lease \in Lease /\ leases' = [leases EXCEPT ![i] = lease]
  BY <1>1 DEF Lease, FallDue
<1> HIDE DEF lease
<1>3. leases' \in Seq(Lease) /\ DOMAIN leases' = DOMAIN leases
  BY <1>1, <1>2, LeaseChanged
<1>4. WorkerType'
  BY <1>3 DEF TInv, TypeOK, WorkerType, FallDue
<1>5. QED BY <1>3, <1>4, WorkerStep DEF TInv, Bounded, FallDue

LEMMA RevokeLeaseType ==
  ASSUME TInv, NEW i \in DOMAIN leases, RevokeLease(i)
  PROVE  TInv'
<1> DEFINE lease == [leases[i] EXCEPT !.state = "revoked"]
<1>1. leases \in Seq(Lease) /\ leases[i] \in Lease
  BY ElementOfSeq, LenProperties DEF TInv, TypeOK
<1>2. lease \in Lease /\ leases' = [leases EXCEPT ![i] = lease]
  BY <1>1 DEF Lease, LeaseStates, RevokeLease
<1> HIDE DEF lease
<1>3. leases' \in Seq(Lease) /\ DOMAIN leases' = DOMAIN leases
  BY <1>1, <1>2, LeaseChanged
<1>4. WorkerType'
  BY <1>3 DEF TInv, TypeOK, WorkerType, RevokeLease
<1>5. QED BY <1>3, <1>4, WorkerStep DEF TInv, Bounded, RevokeLease

LEMMA ReconcileType ==
  ASSUME TInv, Reconcile
  PROVE  TInv'
<1>1. \A i \in DOMAIN leases : leases[i].run \in Runs
  <2>1. leases \in Seq(Lease)
    BY DEF TInv, TypeOK
  <2>2. \A i \in DOMAIN leases : leases[i] \in Lease
    BY <2>1, ElementOfSeq, LenProperties
  <2>3. QED BY <2>2 DEF Lease
<1>2. unknown' \subseteq Runs
  BY <1>1 DEF Reconcile
<1>3. WorkerType'
  BY <1>2 DEF TInv, TypeOK, WorkerType, Reconcile
<1>4. QED BY <1>3, WorkerStep DEF TInv, Bounded, Reconcile

LEMMA ConfirmDeadType ==
  ASSUME TInv, NEW r \in Runs, ConfirmDead(r)
  PROVE  TInv'
<1>1. leases \in Seq(Lease)
  BY DEF TInv, TypeOK
<1>2. \A i \in DOMAIN leases : leases[i] \in Lease
  BY <1>1, ElementOfSeq, LenProperties
<1>3. \A i \in DOMAIN leases : [leases[i] EXCEPT !.state = "expired"] \in Lease
  BY <1>2 DEF Lease, LeaseStates
<1>4. DOMAIN leases = 1..Len(leases) /\ Len(leases) \in Nat
  BY <1>1, LenProperties
<1>5. DOMAIN leases' = DOMAIN leases /\ leases' \in [1..Len(leases) -> Lease]
  BY <1>2, <1>3, <1>4 DEF ConfirmDead
<1>6. leases' \in Seq(Lease)
  BY <1>4, <1>5, SeqOfFunction
<1>7. WorkerType'
  BY <1>6 DEF TInv, TypeOK, WorkerType, ConfirmDead, ResetNodeRun, Unset
<1>8. QED BY <1>5, <1>7, WorkerStep DEF TInv, Bounded, ConfirmDead

\* A write appends one entry with the token of its lease.
LEMMA WriteEntry ==
  ASSUME TInv, NEW i \in DOMAIN leases, NEW r \in Runs, NEW last \in BOOLEAN,
         Write(i, r, last)
  PROVE  /\ entries' \in Seq(Entry) /\ Len(entries') = Len(entries) + 1
         /\ DOMAIN entries = 1..Len(entries) /\ Len(entries) \in Nat
         /\ DOMAIN entries' = 1..Len(entries) + 1
         /\ DOMAIN entries' \subseteq 1..MaxEvents
         /\ \A e \in DOMAIN entries : entries'[e] = entries[e]
         /\ entries'[Len(entries) + 1] = [token |-> i, run |-> r, attempts |-> 0,
                                         delivered |-> FALSE]
<1> DEFINE entry == [token |-> i, run |-> r, attempts |-> 0, delivered |-> FALSE]
<1>1. entry \in Entry /\ entries \in Seq(Entry)
  BY RuntimeAssumption DEF TInv, TypeOK, Bounded, Entry
<1>2. entries' = Append(entries, entry) /\ Len(entries) < MaxEvents
  BY DEF Write
<1> HIDE DEF entry
<1>3. /\ entries' \in Seq(Entry) /\ Len(entries') = Len(entries) + 1
      /\ \A e \in 1..Len(entries) : entries'[e] = entries[e]
      /\ entries'[Len(entries) + 1] = entry
  BY <1>1, <1>2, AppendProperties
<1>4. /\ DOMAIN entries = 1..Len(entries) /\ Len(entries) \in Nat
      /\ DOMAIN entries' = 1..Len(entries')
  BY <1>1, <1>3, LenProperties
<1>5. QED BY <1>2, <1>3, <1>4, RuntimeAssumption DEF entry

LEMMA WriteType ==
  ASSUME TInv, NEW i \in DOMAIN leases, NEW r \in Runs, NEW last \in BOOLEAN,
         Write(i, r, last)
  PROVE  TInv'
<1> DEFINE lease == [leases[i] EXCEPT !.state = IF last THEN "completed" ELSE "active"]
<1>1. leases \in Seq(Lease) /\ leases[i] \in Lease
  BY ElementOfSeq, LenProperties DEF TInv, TypeOK
<1>2. lease \in Lease
  BY <1>1 DEF Lease, LeaseStates
<1>3. leases' = leases \/ leases' = [leases EXCEPT ![i] = lease]
  BY DEF Write
<1> HIDE DEF lease
<1>4. leases' \in Seq(Lease) /\ DOMAIN leases' = DOMAIN leases
  BY <1>1, <1>2, <1>3, LeaseChanged
<1>5. i \in Int
  BY RuntimeAssumption DEF TInv, Bounded
<1>6. cellHigh' \in [Cells -> Int] /\ nodeHigh' \in [Runs -> Int]
  BY <1>5 DEF TInv, TypeOK, Write, AtLeast
<1>7. WorkerType'
  BY <1>4, <1>6 DEF TInv, TypeOK, WorkerType, Write
<1>8. FlushType'
  BY WriteEntry DEF TInv, TypeOK, FlushType, Write
<1>9. TypeOK'
  BY <1>7, <1>8, WriteEntry DEF TInv, TypeOK, WorkerType, FlushType, Write
<1>10. QED BY <1>4, <1>9, WriteEntry DEF TInv, Bounded, HasHighest, Write

-----------------------------------------------------------------------------
(* The dispatcher's steps. *)

\* Whatever a dispatcher does with its own flush, that of the others goes on.
LEMMA FlushStep ==
  ASSUME TInv, NEW d \in Dispatchers, NEW f \in Flush,
         f = Idle \/ (f.step \in Steps /\ f.batch # {} /\ f.batch \subseteq DOMAIN entries),
         flush' = [flush EXCEPT ![d] = f],
         entries' \in Seq(Entry), DOMAIN entries' = DOMAIN entries,
         UNCHANGED workerVars, rows' \in Seq(Row), faults' \in 0..MaxFaults, HasHighest'
  PROVE  TInv'
<1>1. FlushType'
  BY DEF TInv, TypeOK, FlushType
<1>2. TypeOK'
  BY <1>1 DEF TInv, TypeOK, FlushType, workerVars
<1>3. QED BY <1>2 DEF TInv, Bounded, workerVars

LEMMA RestType ==
  ASSUME TInv, NEW d \in Dispatchers, flush[d].step \in Steps
  PROVE  /\ Rest(d) \in Flush
         /\ \/ Rest(d) = Idle
            \/ /\ Rest(d).step = "read" /\ Rest(d).batch # {}
               /\ Rest(d).batch \subseteq DOMAIN entries
<1>1. Now(d) \in flush[d].batch
  BY NowIsPending
<1>2. flush[d] \in Flush /\ flush[d] # Idle
  BY DEF TInv, TypeOK, Steps, Idle
<1>3. flush[d].batch \subseteq DOMAIN entries
  BY <1>2 DEF TInv, TypeOK
<1>4. QED BY <1>1, <1>2, <1>3 DEF Rest, Flush, Steps, Idle

LEMMA BeginType ==
  ASSUME TInv, NEW d \in Dispatchers, Begin(d)
  PROVE  TInv'
<1> DEFINE f == [step |-> "read", batch |-> Pending, seq |-> 0]
<1>1. Pending \subseteq DOMAIN entries /\ Pending # {}
  BY DEF Begin, Pending
<1>2. f \in Flush /\ f.step \in Steps /\ f.batch # {} /\ f.batch \subseteq DOMAIN entries
  BY <1>1 DEF TInv, Bounded, Flush, Steps
<1>3. flush' = [flush EXCEPT ![d] = f]
  BY DEF Begin
<1> HIDE DEF f
<1>4. HasHighest'
  BY DEF TInv, HasHighest, Begin
<1>5. QED BY <1>2, <1>3, <1>4, FlushStep DEF TInv, TypeOK, Begin

LEMMA ReadSeqType ==
  ASSUME TInv, NEW d \in Dispatchers, ReadSeq(d)
  PROVE  TInv'
<1> DEFINE n == NextSeq(CellOf[entries[Now(d)].run])
           f == [flush[d] EXCEPT !.step = "insert", !.seq = n]
<1>1. n \in Nat
  BY NextSeqIsHigher
<1>2. flush[d] \in Flush /\ flush[d].step = "read"
  BY DEF TInv, TypeOK, ReadSeq
<1>3. flush[d].batch # {} /\ flush[d].batch \subseteq DOMAIN entries
  BY <1>2 DEF TInv, TypeOK, Idle
<1>4. f \in Flush /\ f.step \in Steps /\ f.batch = flush[d].batch
  BY <1>1, <1>2 DEF Flush, Steps
<1>5. flush' = [flush EXCEPT ![d] = f]
  BY DEF ReadSeq
<1> HIDE DEF f
<1>6. HasHighest'
  BY DEF TInv, HasHighest, ReadSeq
<1>7. QED BY <1>3, <1>4, <1>5, <1>6, FlushStep DEF TInv, TypeOK, ReadSeq

\* The row that an insertion appends.
NewRow(d) == [event |-> Now(d), cell |-> CellOf[entries[Now(d)].run], seq |-> flush[d].seq]

LEMMA InsertRow ==
  ASSUME TInv, NEW d \in Dispatchers, Insert(d)
  PROVE  /\ rows' \in Seq(Row) /\ NewRow(d) \in Row
         /\ DOMAIN rows = 1..Len(rows) /\ Len(rows) \in Nat
         /\ DOMAIN rows' = 1..Len(rows) + 1
         /\ \A k \in DOMAIN rows : rows'[k] = rows[k] /\ rows[k].seq \in Nat
         /\ rows'[Len(rows) + 1] = NewRow(d)
<1>1. rows \in Seq(Row) /\ entries \in Seq(Entry) /\ flush[d] \in Flush
  BY DEF TInv, TypeOK
<1>2. Now(d) \in DOMAIN entries /\ Now(d) \in 1..MaxEvents
  BY NowIsPending DEF Insert, Steps
<1>3. entries[Now(d)] \in Entry
  BY <1>1, <1>2, ElementOfSeq, LenProperties
<1>4. NewRow(d) \in Row
  BY <1>1, <1>2, <1>3, RuntimeAssumption DEF NewRow, Row, Entry, Flush
<1>5. rows' = Append(rows, NewRow(d))
  BY DEF Insert, NewRow
<1>6. /\ rows' \in Seq(Row) /\ Len(rows') = Len(rows) + 1
      /\ \A k \in 1..Len(rows) : rows'[k] = rows[k]
      /\ rows'[Len(rows) + 1] = NewRow(d)
  BY <1>1, <1>4, <1>5, AppendProperties
<1>7. /\ DOMAIN rows = 1..Len(rows) /\ Len(rows) \in Nat
      /\ DOMAIN rows' = 1..Len(rows')
  BY <1>1, <1>6, LenProperties
<1>8. \A k \in DOMAIN rows : rows[k] \in Row
  BY <1>1, ElementOfSeq, LenProperties
<1>9. QED BY <1>4, <1>6, <1>7, <1>8 DEF Row

LEMMA InsertType ==
  ASSUME TInv, NEW d \in Dispatchers, Insert(d)
  PROVE  TInv'
<1> DEFINE f == [flush[d] EXCEPT !.step = "mark"]
<1>1. flush[d] \in Flush /\ flush[d].step = "insert"
  BY DEF TInv, TypeOK, Insert
<1>2. flush[d].batch # {} /\ flush[d].batch \subseteq DOMAIN entries
  BY <1>1 DEF TInv, TypeOK, Idle
<1>3. f \in Flush /\ f.step \in Steps /\ f.batch = flush[d].batch
  BY <1>1 DEF Flush, Steps
<1>4. flush' = [flush EXCEPT ![d] = f]
  BY DEF Insert
<1> HIDE DEF f
<1>5. HasHighest'
  <2>1. PICK m \in Nat : \A k \in DOMAIN rows : rows[k].seq <= m
    BY DEF TInv, HasHighest
  <2>2. NewRow(d).seq \in Nat
    BY InsertRow DEF Row
  <2>3. PICK h \in Nat : m <= h /\ NewRow(d).seq <= h
    BY <2>2
  <2>4. \A k \in DOMAIN rows : rows[k].seq <= h
    BY <2>1, <2>3, InsertRow
  <2>5. \A k \in DOMAIN rows' : k \in DOMAIN rows \/ k = Len(rows) + 1
    BY InsertRow
  <2>6. \A k \in DOMAIN rows' : rows'[k].seq <= h
    BY <2>3, <2>4, <2>5, InsertRow
  <2>7. QED BY <2>6 DEF HasHighest
<1>6. QED BY <1>2, <1>3, <1>4, <1>5, InsertRow, FlushStep DEF TInv, TypeOK, Insert

LEMMA MarkFailedType ==
  ASSUME TInv, NEW d \in Dispatchers, MarkFailed(d)
  PROVE  TInv'
<1>1. flush[d].step \in Steps
  BY DEF MarkFailed, Steps
<1>2. Now(d) \in DOMAIN entries
  BY <1>1, NowIsPending
<1>3. entries' \in Seq(Entry) /\ DOMAIN entries' = DOMAIN entries
  BY <1>2, TriedType DEF MarkFailed
<1>4. faults' \in 0..MaxFaults
  BY RuntimeAssumption DEF TInv, TypeOK, MarkFailed
<1>5. HasHighest'
  BY DEF TInv, HasHighest, MarkFailed
<1>6. QED BY <1>1, <1>3, <1>4, <1>5, RestType, FlushStep DEF TInv, TypeOK, MarkFailed, Steps

\* What becomes of the entries when one is marked.
LEMMA MarkedEntries ==
  ASSUME TInv, NEW d \in Dispatchers, MarkDelivered(d)
  PROVE  /\ entries' \in Seq(Entry) /\ DOMAIN entries' = DOMAIN entries
         /\ \A e \in DOMAIN entries : /\ entries'[e].token = entries[e].token
                                      /\ entries'[e].run = entries[e].run
                                      /\ entries'[e].delivered
                                           => entries[e].delivered \/ e = Now(d)
<1>1. Now(d) \in DOMAIN entries
  BY NowIsPending DEF MarkDelivered, Steps
<1>2. Tried(Now(d)) \in Seq(Entry) /\ Now(d) \in DOMAIN Tried(Now(d))
  BY <1>1, TriedType
<1>3. entries' = [Tried(Now(d)) EXCEPT ![Now(d)].delivered = TRUE]
  BY DEF MarkDelivered
<1>4. QED BY <1>1, <1>2, <1>3, TriedType, MarkedType

LEMMA MarkDeliveredType ==
  ASSUME TInv, NEW d \in Dispatchers, MarkDelivered(d)
  PROVE  TInv'
<1>1. flush[d].step \in Steps
  BY DEF MarkDelivered, Steps
<1>2. HasHighest'
  BY DEF TInv, HasHighest, MarkDelivered
<1>3. QED BY <1>1, <1>2, MarkedEntries, RestType, FlushStep
          DEF TInv, TypeOK, MarkDelivered, Steps

LEMMA AbortType ==
  ASSUME TInv, NEW d \in Dispatchers, Abort(d)
  PROVE  TInv'
<1>1. faults' \in 0..MaxFaults
  BY RuntimeAssumption DEF TInv, TypeOK, Abort
<1>2. HasHighest'
  BY DEF TInv, HasHighest, Abort
<1>3. Idle \in Flush
  BY DEF Idle, Flush
<1>4. QED BY <1>1, <1>2, <1>3, FlushStep DEF TInv, TypeOK, Abort

-----------------------------------------------------------------------------
LEMMA TypeInit == Init => TInv
<1> SUFFICES ASSUME Init PROVE TInv
  OBVIOUS
<1>1. leases \in Seq(Lease) /\ entries \in Seq(Entry) /\ rows \in Seq(Row)
  BY EmptySeq DEF Init
<1>2. DOMAIN leases = {} /\ DOMAIN entries = {} /\ DOMAIN rows = {}
  BY DEF Init
<1>3. flush \in [Dispatchers -> Flush]
  BY DEF Init, Idle, Flush
<1>4. TypeOK
  BY <1>1, <1>3, RuntimeAssumption DEF Init, TypeOK, Unset
<1>5. QED BY <1>2, <1>4 DEF TInv, Bounded, HasHighest

LEMMA TypeStep == TInv /\ [Next]_vars => TInv'
<1> SUFFICES ASSUME TInv, [Next]_vars PROVE TInv'
  OBVIOUS
<1>1. CASE UNCHANGED vars
  BY <1>1 DEF vars, workerVars, TInv, TypeOK, Bounded, HasHighest
<1>2. ASSUME NEW c \in Cells, Rotate(c) \/ \E k \in 1..MaxKids : Revoke(c, k) PROVE TInv'
  BY <1>2, RotateType, RevokeType
<1>3. ASSUME NEW r \in Runs, IssueLease(r) \/ ConfirmDead(r) PROVE TInv'
  BY <1>3, IssueLeaseType, ConfirmDeadType
<1>4. ASSUME NEW i \in DOMAIN leases,
             \/ FallDue(i) \/ RevokeLease(i)
             \/ \E r \in Runs, last \in BOOLEAN : Write(i, r, last)
      PROVE  TInv'
  BY <1>4, FallDueType, RevokeLeaseType, WriteType
<1>5. CASE Reconcile
  BY <1>5, ReconcileType
<1>6. ASSUME NEW d \in Dispatchers,
             Begin(d) \/ ReadSeq(d) \/ Insert(d) \/ MarkFailed(d) \/ MarkDelivered(d) \/ Abort(d)
      PROVE  TInv'
  BY <1>6, BeginType, ReadSeqType, InsertType, MarkFailedType, MarkDeliveredType, AbortType
<1>7. QED BY <1>1, <1>2, <1>3, <1>4, <1>5, <1>6 DEF Next

\* Every reachable state is well typed: the leases, the keys, the high-waters, the outbox,
\* the events table and what each dispatcher works on, whose batch is never empty.
THEOREM TypeCorrect == Spec => []TypeOK
<1>1. TInv => TypeOK
  BY DEF TInv
<1>2. QED BY <1>1, TypeInit, TypeStep, PTL DEF Spec

-----------------------------------------------------------------------------
(* No older worker writes after a younger one. *)

LEMMA FenceKept ==
  ASSUME FenceInv, DOMAIN entries' = DOMAIN entries, cellHigh' = cellHigh,
         \A e \in DOMAIN entries : /\ entries'[e].token = entries[e].token
                                  /\ entries'[e].run = entries[e].run
  PROVE  FenceInv'
  BY DEF FenceInv, Fenced, NoZombieWrites

LEMMA FenceWrite ==
  ASSUME TInv, FenceInv, NEW i \in DOMAIN leases, NEW r \in Runs, NEW last \in BOOLEAN,
         Write(i, r, last)
  PROVE  FenceInv'
<1> DEFINE c == CellOf[r]
           n == Len(entries) + 1
<1>1. c \in Cells /\ i \in Int /\ cellHigh \in [Cells -> Int] /\ i >= cellHigh[c]
  <2>1. c \in Cells /\ i \in Int
    BY RuntimeAssumption DEF TInv, Bounded
  <2>2. cellHigh \in [Cells -> Int]
    BY DEF TInv, TypeOK
  <2>3. i >= cellHigh[c]
    BY DEF Write, Accepted
  <2>4. QED BY <2>1, <2>2, <2>3
<1>2. cellHigh' = [cellHigh EXCEPT ![c] = i]
  <2>1. cellHigh' = [cellHigh EXCEPT ![c] = AtLeast(i, @)]
    BY DEF Write
  <2>2. AtLeast(i, cellHigh[c]) = i
    BY <1>1 DEF AtLeast
  <2>3. QED BY <2>1, <2>2
<1> HIDE DEF c
<1>3. /\ Len(entries) \in Nat /\ DOMAIN entries = 1..Len(entries)
      /\ DOMAIN entries' = 1..n
      /\ \A e \in DOMAIN entries : entries'[e] = entries[e]
      /\ entries'[n] = [token |-> i, run |-> r, attempts |-> 0, delivered |-> FALSE]
  BY WriteEntry, Zenon
<1>4. /\ \A e \in DOMAIN entries' : e \in DOMAIN entries \/ e = n
      /\ \A e \in DOMAIN entries : e < n /\ entries'[e] = entries[e] /\ e \in Int
  BY <1>3
<1>5. entries'[n].token = i /\ entries'[n].run = r
  BY <1>3
<1>6. \A e \in DOMAIN entries : entries[e].token \in Int /\ CellOf[entries[e].run] \in Cells
  <2>1. entries \in Seq(Entry)
    BY DEF TInv, TypeOK
  <2>2. \A e \in DOMAIN entries : entries[e] \in Entry
    BY <2>1, ElementOfSeq, LenProperties
  <2>3. QED BY <2>2, RuntimeAssumption DEF Entry
<1>7. \A e \in DOMAIN entries : CellOf[entries[e].run] = c => entries[e].token <= i
  BY <1>1, <1>6 DEF FenceInv, Fenced
<1> HIDE DEF n
<1>8. Fenced'
  <2>1. ASSUME NEW e \in DOMAIN entries
        PROVE  entries'[e].token <= cellHigh'[CellOf[entries'[e].run]]
    <3>1. CASE CellOf[entries[e].run] = c
      BY <1>1, <1>2, <1>4, <1>7, <3>1
    <3>2. CASE CellOf[entries[e].run] # c
      BY <1>1, <1>2, <1>4, <1>6, <3>2 DEF FenceInv, Fenced
    <3>3. QED BY <3>1, <3>2
  <2>2. entries'[n].token <= cellHigh'[CellOf[entries'[n].run]]
    BY <1>1, <1>2, <1>5 DEF c
  <2>3. QED BY <1>4, <2>1, <2>2 DEF Fenced
<1>9. NoZombieWrites'
  <2>1. ASSUME NEW e \in DOMAIN entries', NEW f \in DOMAIN entries', e < f,
               CellOf[entries'[e].run] = CellOf[entries'[f].run]
        PROVE  entries'[e].token <= entries'[f].token
    <3>1. e \in DOMAIN entries
      BY <1>3, <1>4, <2>1 DEF n
    <3>2. CASE f = n
      BY <1>4, <1>5, <1>7, <2>1, <3>1, <3>2 DEF c
    <3>3. CASE f \in DOMAIN entries
      BY <1>4, <2>1, <3>1, <3>3 DEF FenceInv, NoZombieWrites
    <3>4. QED BY <1>4, <3>2, <3>3
  <2>2. QED BY <2>1 DEF NoZombieWrites
<1>10. QED BY <1>8, <1>9 DEF FenceInv

LEMMA FenceStep == TInv /\ FenceInv /\ [Next]_vars => FenceInv'
<1> SUFFICES ASSUME TInv, FenceInv, [Next]_vars PROVE FenceInv'
  OBVIOUS
<1>1. CASE UNCHANGED vars
  BY <1>1, FenceKept DEF vars
<1>2. ASSUME NEW c \in Cells, Rotate(c) \/ \E k \in 1..MaxKids : Revoke(c, k) PROVE FenceInv'
  BY <1>2, FenceKept DEF Rotate, Revoke
<1>3. ASSUME NEW r \in Runs, IssueLease(r) \/ ConfirmDead(r) PROVE FenceInv'
  BY <1>3, FenceKept DEF IssueLease, ConfirmDead, ResetNodeRun
<1>4. ASSUME NEW i \in DOMAIN leases, FallDue(i) \/ RevokeLease(i) PROVE FenceInv'
  BY <1>4, FenceKept DEF FallDue, RevokeLease
<1>5. ASSUME NEW i \in DOMAIN leases, NEW r \in Runs, NEW last \in BOOLEAN, Write(i, r, last)
      PROVE  FenceInv'
  BY <1>5, FenceWrite
<1>6. CASE Reconcile
  BY <1>6, FenceKept DEF Reconcile
<1>7. ASSUME NEW d \in Dispatchers, Begin(d) \/ ReadSeq(d) \/ Insert(d) \/ Abort(d)
      PROVE  FenceInv'
  BY <1>7, FenceKept DEF Begin, ReadSeq, Insert, Abort, workerVars
<1>8. ASSUME NEW d \in Dispatchers, MarkFailed(d) PROVE FenceInv'
  <2>1. Now(d) \in DOMAIN entries
    BY <1>8, NowIsPending DEF MarkFailed, Steps
  <2>2. QED BY <1>8, <2>1, TriedType, FenceKept DEF MarkFailed, workerVars
<1>9. ASSUME NEW d \in Dispatchers, MarkDelivered(d) PROVE FenceInv'
  BY <1>9, MarkedEntries, FenceKept DEF MarkDelivered, workerVars
<1>10. QED BY <1>1, <1>2, <1>3, <1>4, <1>5, <1>6, <1>7, <1>8, <1>9 DEF Next

\* Once a worker with a younger token has written in a cell, no older one writes there
\* again: resetting a node run never lowers the high-water of the cell (FencingGuard).
THEOREM ZombiesAreFenced == Spec => []NoZombieWrites
<1>1. Init => FenceInv
  BY DEF Init, FenceInv, Fenced, NoZombieWrites
<1>2. FenceInv => NoZombieWrites
  BY DEF FenceInv
<1>3. QED BY <1>1, <1>2, TypeInit, TypeStep, FenceStep, PTL DEF Spec

-----------------------------------------------------------------------------
(* What is delivered is stored, once. *)

LEMMA StoreKept ==
  ASSUME StoreInv, UNCHANGED <<rows, flush>>,
         \A e \in DOMAIN entries' : entries'[e].delivered
                                       => e \in DOMAIN entries /\ entries[e].delivered
  PROVE  StoreInv'
  BY DEF StoreInv, MarkedIsStored, DeliveredIsStored, Stored, Now

\* A dispatcher that goes on with something else than a mark has nothing to show.
LEMMA StoreFlush ==
  ASSUME TInv, StoreInv, NEW d \in Dispatchers, NEW f, f.step # "mark",
         flush' = [flush EXCEPT ![d] = f], rows' = rows,
         \A e \in DOMAIN entries' : entries'[e].delivered => Stored(e)
  PROVE  StoreInv'
<1>1. MarkedIsStored'
  <2>1. ASSUME NEW x \in Dispatchers, flush'[x].step = "mark"
        PROVE  x # d /\ flush'[x] = flush[x]
    BY <2>1 DEF TInv, TypeOK
  <2>2. ASSUME NEW x \in Dispatchers, flush'[x].step = "mark"
        PROVE  \E k \in DOMAIN rows' : rows'[k].event = Oldest(flush'[x].batch)
    BY <2>1, <2>2 DEF StoreInv, MarkedIsStored, Now, Stored
  <2>3. QED BY <2>2 DEF MarkedIsStored, Now, Stored
<1>2. DeliveredIsStored'
  BY DEF StoreInv, DeliveredIsStored, Stored
<1>3. QED BY <1>1, <1>2 DEF StoreInv

LEMMA StoreInsert ==
  ASSUME TInv, StoreInv, NEW d \in Dispatchers, Insert(d)
  PROVE  StoreInv'
<1> DEFINE n == Len(rows) + 1
<1>1. /\ DOMAIN rows = 1..Len(rows) /\ Len(rows) \in Nat /\ DOMAIN rows' = 1..n
      /\ \A k \in DOMAIN rows : rows'[k] = rows[k]
      /\ rows'[n].event = Now(d)
  <2>1. /\ DOMAIN rows = 1..Len(rows) /\ Len(rows) \in Nat /\ DOMAIN rows' = 1..n
        /\ \A k \in DOMAIN rows : rows'[k] = rows[k]
        /\ rows'[n] = NewRow(d)
    BY InsertRow, Zenon
  <2>2. NewRow(d).event = Now(d)
    BY DEF NewRow
  <2>3. QED BY <2>1, <2>2
<1>2. /\ n \in DOMAIN rows' /\ DOMAIN rows \subseteq DOMAIN rows'
      /\ \A k \in DOMAIN rows' : k \in DOMAIN rows \/ k = n
  BY <1>1
<1>3. ~Stored(Now(d)) /\ UNCHANGED entries
  BY DEF Insert
<1>4. \A e : Stored(e) => Stored(e)'
  BY <1>1, <1>2 DEF Stored
<1>5. /\ flush' = [flush EXCEPT ![d] = [flush[d] EXCEPT !.step = "mark"]]
      /\ flush \in [Dispatchers -> Flush]
  BY DEF Insert, TInv, TypeOK
<1>6. MarkedIsStored'
  <2>1. ASSUME NEW x \in Dispatchers, flush'[x].step = "mark" PROVE Now(x)' = Now(x)
    BY <1>5 DEF Now, Flush
  <2>2. ASSUME NEW x \in Dispatchers, flush'[x].step = "mark"
        PROVE  \E k \in DOMAIN rows' : rows'[k].event = Now(x)
    <3>1. CASE x = d
      BY <1>1, <1>2, <3>1
    <3>2. CASE x # d
      <4>1. Stored(Now(x))
        BY <1>5, <2>2, <3>2 DEF StoreInv, MarkedIsStored
      <4>2. QED BY <1>1, <1>2, <4>1 DEF Stored
    <3>3. QED BY <3>1, <3>2
  <2>3. QED BY <2>1, <2>2 DEF MarkedIsStored, Stored
<1>7. DeliveredIsStored'
  <2>1. ASSUME NEW e \in DOMAIN entries', entries'[e].delivered PROVE Stored(e)'
    BY <1>3, <1>4, <2>1 DEF StoreInv, DeliveredIsStored
  <2>2. ASSUME NEW j \in DOMAIN rows', NEW k \in DOMAIN rows', rows'[j].event = rows'[k].event
        PROVE  j = k
    <3>1. \A i \in DOMAIN rows : rows[i].event # Now(d)
      BY <1>3 DEF Stored
    <3>2. CASE j \in DOMAIN rows /\ k \in DOMAIN rows
      BY <1>1, <2>2, <3>2 DEF StoreInv, DeliveredIsStored
    <3>3. CASE j = n \/ k = n
      BY <1>1, <1>2, <2>2, <3>1, <3>3
    <3>4. QED BY <1>2, <3>2, <3>3
  <2>3. QED BY <2>1, <2>2 DEF DeliveredIsStored
<1>8. QED BY <1>6, <1>7 DEF StoreInv

LEMMA StoreStep == TInv /\ StoreInv /\ [Next]_vars => StoreInv'
<1> SUFFICES ASSUME TInv, StoreInv, [Next]_vars PROVE StoreInv'
  OBVIOUS
<1>1. CASE UNCHANGED vars
  BY <1>1, StoreKept DEF vars
<1>2. ASSUME NEW c \in Cells, Rotate(c) \/ \E k \in 1..MaxKids : Revoke(c, k) PROVE StoreInv'
  BY <1>2, StoreKept DEF Rotate, Revoke
<1>3. ASSUME NEW r \in Runs, IssueLease(r) \/ ConfirmDead(r) PROVE StoreInv'
  BY <1>3, StoreKept DEF IssueLease, ConfirmDead
<1>4. ASSUME NEW i \in DOMAIN leases, FallDue(i) \/ RevokeLease(i) PROVE StoreInv'
  BY <1>4, StoreKept DEF FallDue, RevokeLease
<1>5. ASSUME NEW i \in DOMAIN leases, NEW r \in Runs, NEW last \in BOOLEAN, Write(i, r, last)
      PROVE  StoreInv'
  <2>1. /\ Len(entries) \in Nat /\ DOMAIN entries = 1..Len(entries)
        /\ DOMAIN entries' = 1..Len(entries) + 1
        /\ \A e \in DOMAIN entries : entries'[e] = entries[e]
        /\ entries'[Len(entries) + 1] = [token |-> i, run |-> r, attempts |-> 0,
                                        delivered |-> FALSE]
    BY <1>5, WriteEntry, Zenon
  <2>2. \A e \in DOMAIN entries' : e \in DOMAIN entries \/ e = Len(entries) + 1
    BY <2>1
  <2>3. UNCHANGED <<rows, flush>>
    BY <1>5 DEF Write
  <2>4. QED BY <2>1, <2>2, <2>3, StoreKept
<1>6. CASE Reconcile
  BY <1>6, StoreKept DEF Reconcile
<1>7. ASSUME NEW d \in Dispatchers, Begin(d) \/ ReadSeq(d) \/ Abort(d) PROVE StoreInv'
  <2>1. \A e \in DOMAIN entries : entries[e].delivered => Stored(e)
    BY DEF StoreInv, DeliveredIsStored
  <2>2. CASE Begin(d)
    BY <2>1, <2>2, StoreFlush DEF Begin
  <2>3. CASE ReadSeq(d)
    <3> DEFINE f == [flush[d] EXCEPT !.step = "insert", !.seq = NextSeq(CellOf[entries[Now(d)].run])]
    <3>1. f.step # "mark"
      BY DEF TInv, TypeOK, Flush
    <3>2. flush' = [flush EXCEPT ![d] = f] /\ UNCHANGED <<entries, rows>>
      BY <2>3 DEF ReadSeq
    <3> HIDE DEF f
    <3>3. QED BY <2>1, <3>1, <3>2, StoreFlush
  <2>4. CASE Abort(d)
    BY <2>1, <2>4, StoreFlush DEF Abort, Idle
  <2>5. QED BY <1>7, <2>2, <2>3, <2>4
<1>8. ASSUME NEW d \in Dispatchers, Insert(d) PROVE StoreInv'
  BY <1>8, StoreInsert
<1>9. ASSUME NEW d \in Dispatchers, MarkFailed(d) PROVE StoreInv'
  <2>1. flush[d].step \in Steps
    BY <1>9 DEF MarkFailed, Steps
  <2>2. Now(d) \in DOMAIN entries
    BY <2>1, NowIsPending
  <2>3. Rest(d).step # "mark"
    BY <2>1, RestType DEF Idle
  <2>4. /\ entries' = Tried(Now(d)) /\ rows' = rows
        /\ flush' = [flush EXCEPT ![d] = Rest(d)]
    BY <1>9 DEF MarkFailed
  <2>5. \A e \in DOMAIN entries' : entries'[e].delivered => Stored(e)
    BY <2>2, <2>4, TriedType DEF StoreInv, DeliveredIsStored
  <2>6. QED BY <2>3, <2>4, <2>5, StoreFlush
<1>10. ASSUME NEW d \in Dispatchers, MarkDelivered(d) PROVE StoreInv'
  <2>1. flush[d].step = "mark" /\ flush[d].step \in Steps
    BY <1>10 DEF MarkDelivered, Steps
  <2>2. Stored(Now(d))
    BY <2>1 DEF StoreInv, MarkedIsStored
  <2>3. Rest(d).step # "mark"
    BY <2>1, RestType DEF Idle
  <2>4. rows' = rows /\ flush' = [flush EXCEPT ![d] = Rest(d)]
    BY <1>10 DEF MarkDelivered
  <2>5. \A e \in DOMAIN entries' : entries'[e].delivered => Stored(e)
    BY <1>10, <2>2, MarkedEntries DEF StoreInv, DeliveredIsStored
  <2>6. QED BY <2>3, <2>4, <2>5, StoreFlush
<1>11. QED BY <1>1, <1>2, <1>3, <1>4, <1>5, <1>6, <1>7, <1>8, <1>9, <1>10 DEF Next

\* What the outbox calls delivered is in the events table and nothing is there twice,
\* for any number of dispatchers, interrupted flushes and repeated deliveries.
THEOREM DeliveredOnce == Spec => []DeliveredIsStored
<1>1. Init => StoreInv
  BY DEF Init, Idle, StoreInv, MarkedIsStored, DeliveredIsStored
<1>2. StoreInv => DeliveredIsStored
  BY DEF StoreInv
<1>3. QED BY <1>1, <1>2, TypeInit, TypeStep, StoreStep, PTL DEF Spec

-----------------------------------------------------------------------------
(* The numbers of a task's events. *)

\* The only dispatcher goes on with something that is no insertion.
LEMMA SeqFlush ==
  ASSUME TInv, SeqInv, OneFlusher, NEW d \in Dispatchers, NEW f, f.step # "insert",
         flush' = [flush EXCEPT ![d] = f], rows' = rows
  PROVE  SeqInv'
<1>1. \A e \in Dispatchers : flush'[e].step # "insert"
  BY DEF OneFlusher, TInv, TypeOK
<1>2. QED BY <1>1 DEF SeqInv, ReadIsAbove, SeqsAreDistinct

\* What the workers do leaves the runs of the entries as they are.
LEMMA SeqKept ==
  ASSUME TInv, SeqInv, UNCHANGED <<rows, flush>>,
         \A e \in DOMAIN entries : entries'[e].run = entries[e].run
  PROVE  SeqInv'
<1>1. ASSUME NEW d \in Dispatchers, flush[d].step = "insert"
      PROVE  entries'[Now(d)].run = entries[Now(d)].run
  BY <1>1, NowIsPending DEF Steps
<1>2. QED BY <1>1 DEF SeqInv, ReadIsAbove, SeqsAreDistinct, Now

LEMMA SeqRead ==
  ASSUME TInv, SeqInv, OneFlusher, NEW d \in Dispatchers, ReadSeq(d)
  PROVE  SeqInv'
<1> DEFINE c == CellOf[entries[Now(d)].run]
<1>1. PICK n \in Nat : n = NextSeq(c) /\ \A k \in DOMAIN rows : rows[k].cell = c => rows[k].seq < n
  BY NextSeqIsHigher
<1>2. flush[d] \in Flush /\ flush \in [Dispatchers -> Flush]
  BY DEF TInv, TypeOK
<1>3. flush' = [flush EXCEPT ![d] = [flush[d] EXCEPT !.step = "insert", !.seq = n]]
  BY <1>1 DEF ReadSeq
<1>4. flush'[d].seq = n /\ flush'[d].batch = flush[d].batch
  BY <1>2, <1>3 DEF Flush
<1>5. UNCHANGED <<entries, rows>>
  BY DEF ReadSeq
<1>6. ReadIsAbove'
  <2>1. ASSUME NEW e \in Dispatchers, NEW k \in DOMAIN rows, rows[k].cell = CellOf[entries[Now(e)'].run]
        PROVE  rows[k].seq < flush'[e].seq
    BY <1>1, <1>4, <2>1 DEF OneFlusher, Now
  <2>2. QED BY <1>5, <2>1 DEF ReadIsAbove
<1>7. QED BY <1>5, <1>6 DEF SeqInv, SeqsAreDistinct

LEMMA SeqInsert ==
  ASSUME TInv, SeqInv, OneFlusher, NEW d \in Dispatchers, Insert(d)
  PROVE  SeqInv'
<1> DEFINE n == Len(rows) + 1
<1>1. /\ DOMAIN rows = 1..Len(rows) /\ Len(rows) \in Nat /\ DOMAIN rows' = 1..n
      /\ \A k \in DOMAIN rows : rows'[k] = rows[k]
      /\ rows'[n] = NewRow(d)
  BY InsertRow, Zenon
<1>2. \A k \in DOMAIN rows : rows[k].cell = NewRow(d).cell => rows[k].seq < NewRow(d).seq
  BY DEF Insert, SeqInv, ReadIsAbove, NewRow
<1>3. SeqsAreDistinct'
  <2>1. ASSUME NEW j \in DOMAIN rows', NEW k \in DOMAIN rows', j < k, rows'[j].cell = rows'[k].cell
        PROVE  rows'[j].seq < rows'[k].seq
    <3>1. j \in DOMAIN rows
      BY <1>1, <2>1
    <3>2. CASE k \in DOMAIN rows
      BY <1>1, <2>1, <3>1, <3>2 DEF SeqInv, SeqsAreDistinct
    <3>3. CASE k = n
      BY <1>1, <1>2, <2>1, <3>1, <3>3
    <3>4. QED BY <1>1, <3>2, <3>3
  <2>2. QED BY <2>1 DEF SeqsAreDistinct
<1>4. ReadIsAbove'
  <2>1. flush' = [flush EXCEPT ![d] = [flush[d] EXCEPT !.step = "mark"]]
    BY DEF Insert
  <2>2. \A e \in Dispatchers : flush'[e].step = "mark"
    BY <2>1 DEF OneFlusher, TInv, TypeOK, Flush
  <2>3. QED BY <2>2 DEF ReadIsAbove
<1>5. QED BY <1>3, <1>4 DEF SeqInv

LEMMA SeqStep == TInv /\ SeqInv /\ OneFlusher /\ [Next]_vars => SeqInv'
<1> SUFFICES ASSUME TInv, SeqInv, OneFlusher, [Next]_vars PROVE SeqInv'
  OBVIOUS
<1>1. CASE UNCHANGED vars
  BY <1>1, SeqKept DEF vars
<1>2. ASSUME NEW c \in Cells, Rotate(c) \/ \E k \in 1..MaxKids : Revoke(c, k) PROVE SeqInv'
  BY <1>2, SeqKept DEF Rotate, Revoke
<1>3. ASSUME NEW r \in Runs, IssueLease(r) \/ ConfirmDead(r) PROVE SeqInv'
  BY <1>3, SeqKept DEF IssueLease, ConfirmDead
<1>4. ASSUME NEW i \in DOMAIN leases, FallDue(i) \/ RevokeLease(i) PROVE SeqInv'
  BY <1>4, SeqKept DEF FallDue, RevokeLease
<1>5. ASSUME NEW i \in DOMAIN leases, NEW r \in Runs, NEW last \in BOOLEAN, Write(i, r, last)
      PROVE  SeqInv'
  <2>1. \A e \in DOMAIN entries : entries'[e] = entries[e]
    BY <1>5, WriteEntry, Zenon
  <2>2. UNCHANGED <<rows, flush>>
    BY <1>5 DEF Write
  <2>3. QED BY <2>1, <2>2, SeqKept
<1>6. CASE Reconcile
  BY <1>6, SeqKept DEF Reconcile
<1>7. ASSUME NEW d \in Dispatchers, Begin(d) PROVE SeqInv'
  BY <1>7, SeqFlush DEF Begin
<1>8. ASSUME NEW d \in Dispatchers, ReadSeq(d) \/ Insert(d) PROVE SeqInv'
  BY <1>8, SeqRead, SeqInsert
<1>9. ASSUME NEW d \in Dispatchers, MarkFailed(d) \/ MarkDelivered(d) PROVE SeqInv'
  <2>1. flush[d].step \in Steps
    BY <1>9 DEF MarkFailed, MarkDelivered, Steps
  <2>2. Rest(d).step # "insert"
    BY <2>1, RestType DEF Idle
  <2>3. rows' = rows /\ flush' = [flush EXCEPT ![d] = Rest(d)]
    BY <1>9 DEF MarkFailed, MarkDelivered
  <2>4. QED BY <2>2, <2>3, SeqFlush
<1>10. ASSUME NEW d \in Dispatchers, Abort(d) PROVE SeqInv'
  BY <1>10, SeqFlush DEF Abort, Idle
<1>11. QED BY <1>1, <1>2, <1>3, <1>4, <1>5, <1>6, <1>7, <1>8, <1>9, <1>10 DEF Next

\* As long as one thread flushes, the events of a task are numbered without a tie and in
\* their order, although the number is read in a transaction of its own (append_event).
THEOREM SeqsHold == OneFlusher => (Spec => []SeqsAreDistinct)
<1>1. SUFFICES ASSUME OneFlusher PROVE Spec => []SeqsAreDistinct
  OBVIOUS
<1>2. Init => SeqInv
  BY DEF Init, Idle, SeqInv, ReadIsAbove, SeqsAreDistinct
<1>3. SeqInv => SeqsAreDistinct
  BY DEF SeqInv
<1>4. TInv /\ SeqInv /\ [Next]_vars => SeqInv'
  BY <1>1, SeqStep
<1>5. QED BY <1>2, <1>3, <1>4, TypeInit, TypeStep, PTL DEF Spec
=============================================================================
