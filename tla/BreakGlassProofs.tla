------------------------- MODULE BreakGlassProofs -------------------------
(***************************************************************************)
(* Proofs about BreakGlass, for every number of requests, people, tenants  *)
(* and workers and for every clock and window.                             *)
(***************************************************************************)
EXTENDS BreakGlass, TLAPS

\* The transaction variables keep their types through every EventStoreTx operation.
TxType == /\ rows \in [Requests -> Row \cup {NoRow}]
          /\ dirty \in [Conns -> [Requests -> Row \cup {Clean}]]
          /\ lock \in [Requests -> Conns \cup {NoConn}]

LEMMA ViewType ==
  ASSUME TxType, NEW c \in Conns, NEW r \in Requests
  PROVE  /\ View(c, r) \in Row \cup {NoRow}
         /\ View(c, r) # NoRow => View(c, r) \in Row
  BY Sentinels DEF TxType, View

LEMMA CommitType ==
  ASSUME TxType, NEW c \in Conns, CommitConn(c)
  PROVE  TxType'
<1>1. rows' \in [Requests -> Row \cup {NoRow}]
  BY ViewType DEF CommitConn
<1>2. dirty' \in [Conns -> [Requests -> Row \cup {Clean}]]
  BY DEF TxType, CommitConn, AllClean
<1>3. lock' \in [Requests -> Conns \cup {NoConn}]
  BY DEF TxType, CommitConn, Released
<1>4. QED BY <1>1, <1>2, <1>3 DEF TxType

LEMMA RollbackType ==
  ASSUME TxType, NEW c \in Conns, RollbackConn(c)
  PROVE  TxType'
  BY DEF TxType, RollbackConn, AllClean, Released

LEMMA WriteType ==
  ASSUME TxType, NEW c \in Conns, NEW S \in SUBSET Requests, NEW new,
         \A r \in S : new[r] \in Row, WriteRows(c, S, new)
  PROVE  TxType'
<1>1. dirty' \in [Conns -> [Requests -> Row \cup {Clean}]]
  BY DEF TxType, WriteRows
<1>2. lock' \in [Requests -> Conns \cup {NoConn}]
  BY DEF TxType, WriteRows
<1>3. QED BY <1>1, <1>2 DEF TxType, WriteRows

LEMMA SelectType ==
  ASSUME TxType, NEW c \in Conns, NEW r \in Requests, SelectForUpdate(c, r)
  PROVE  TxType'
  BY DEF TxType, SelectForUpdate

\* Whatever the caller asks for, the window stored lies between 1 and the hard cap.
LEMMA WindowClamped ==
  ASSUME NEW window \in WindowInputs
  PROVE  ClampWindow(window) \in 1..HardMax
  BY WindowType DEF ClampWindow, Least

JobType == /\ job \in [Workers -> Job]
           /\ \A w \in Workers :
                job[w].pc \in {"insert", "sign", "revoke"} => job[w].who \in People

LEMMA GotoType ==
  ASSUME JobType, NEW w \in Workers, NEW pc \in PCs, NEW out \in Outcomes,
         NEW ids \in SUBSET Requests, NEW who \in People \cup {Nobody},
         pc \in {"insert", "sign", "revoke"} => who \in People,
         Goto(w, pc, out, ids, who)
  PROVE  JobType'
  BY DEF Goto, Job, JobType

LEMMA SignedRowType ==
  ASSUME NEW row \in Row, NEW p \in People, NEW out, now \in Nat
  PROVE  SignedRow(row, p, out) \in Row
<1>1. now + row.window \in Nat
  BY WindowType DEF Row
<1>2. QED BY <1>1 DEF SignedRow, Row, States

-----------------------------------------------------------------------------
(* Type correctness. *)

LEMMA TypeInit == Init => TypeOK
  BY Sentinels DEF Init, TypeOK, TxInit, AllClean, Idle, Job, PCs, Outcomes

LogType == /\ told \in [Requests -> SUBSET (Outcomes \X (People \cup {Nobody}))]
           /\ audit \in [Requests -> SUBSET (Outcomes \X (People \cup {Nobody}))]
           /\ now \in Nat

MixType == mixed \in SUBSET Requests

LEMMA TypeParts == /\ TypeOK <=> TxType /\ JobType /\ LogType /\ MixType
                   /\ TypeOK' <=> TxType' /\ JobType' /\ LogType' /\ MixType'
  BY DEF TypeOK, TxType, JobType, LogType, MixType

\* Every step is one of a worker that records whether it came into a transaction, or
\* leaves the history variable alone.
LEMMA History == [Next]_vars => mixed' = mixed \/ \E w \in Workers : Mixing(w)
<1> SUFFICES ASSUME [Next]_vars PROVE mixed' = mixed \/ \E w \in Workers : Mixing(w)
  OBVIOUS
<1>1. ASSUME NEW w \in Workers, Continue(w) \/ SweepUpdate(w) \/ Fail(w) \/ ReadOnly(w)
      PROVE  mixed' = mixed \/ Mixing(w)
  BY <1>1 DEF Continue, RequestInsert, ApproveUpdate, RevokeUpdate, SweepUpdate, Commit, Fail,
              Emit, ReadOnly
<1>2. ASSUME NEW w \in Workers, NEW r \in Requests, NEW p \in People, NEW t \in Tenants,
             ApproveSelect(w, r, p, t) \/ RevokeSelect(w, r, p, t)
      PROVE  mixed' = mixed \/ Mixing(w)
  BY <1>2 DEF ApproveSelect, RevokeSelect
<1>3. ASSUME NEW w \in Workers, NEW r \in Requests, NEW p \in People, RequestStart(w, r, p)
      PROVE  mixed' = mixed \/ Mixing(w)
  BY <1>3 DEF RequestStart
<1>4. ASSUME NEW w \in Workers, NEW r \in Requests, EmitLost(w, r)
      PROVE  mixed' = mixed \/ Mixing(w)
  BY <1>4 DEF EmitLost
<1>5. ASSUME UNCHANGED vars \/ Tick \/ \E c \in Conns : Crash(c) PROVE mixed' = mixed
  BY <1>5 DEF vars, Tick, Crash
<1> QED BY <1>1, <1>2, <1>3, <1>4, <1>5, Zenon DEF Next

LEMMA MixedGrows ==
  ASSUME TypeOK, [Next]_vars
  PROVE  MixType' /\ mixed \subseteq mixed'
  BY History DEF TypeOK, MixType, Mixing

LEMMA TypeStep == TypeOK /\ [Next]_vars => TypeOK'
<1> SUFFICES ASSUME TxType, JobType, LogType, [Next]_vars
             PROVE  TxType' /\ JobType' /\ LogType'
  BY TypeParts, MixedGrows
<1>0. \A w \in Workers : /\ ConnOf[w] \in Conns
                         /\ job[w].ids \in SUBSET Requests
                         /\ job[w].who \in People \cup {Nobody}
                         /\ job[w].out \in Outcomes
  BY ConnOfType DEF JobType, Job
<1>k. {"idle", "insert", "sign", "revoke", "commit", "emit"} = PCs
      /\ States \subseteq Outcomes /\ "denied" \in Outcomes
      /\ "requested" \in States /\ "first-approved" \in States /\ "active" \in States
      /\ "revoked" \in States /\ "expired" \in States
  BY DEF PCs, Outcomes, States
<1>1. ASSUME NEW w \in Workers, NEW r \in Requests, NEW p \in People, RequestStart(w, r, p)
      PROVE  TxType' /\ JobType' /\ LogType'
  <2>1. TxType'
    BY <1>0, <1>1, CommitType, RollbackType DEF RequestStart, TxType
  <2>2. JobType'
    BY <1>1, <1>k, GotoType DEF RequestStart
  <2> QED BY <1>1, <2>1, <2>2 DEF RequestStart, LogType
<1>2. ASSUME NEW w \in Workers, NEW t \in Tenants, NEW window \in WindowInputs,
             RequestInsert(w, t, window)
      PROVE  TxType' /\ JobType' /\ LogType'
  <2>1. job[w].who \in People
    BY <1>2 DEF JobType, RequestInsert
  <2> DEFINE new == [r \in Requests |->
                       [tenant |-> t, by |-> job[w].who, state |-> "requested",
                        first |-> Nobody, second |-> Nobody,
                        window |-> ClampWindow(window), expires |-> 0]]
  <2>2. \A r \in job[w].ids : new[r] \in Row
    BY <1>0, <1>k, <2>1, WindowClamped DEF Row
  <2>3. WriteRows(ConnOf[w], job[w].ids, new)
    BY <1>2 DEF RequestInsert
  <2>4. TxType'
    BY <1>0, <2>2, <2>3, WriteType
  <2>5. JobType'
    BY <1>0, <1>2, <1>k, GotoType DEF RequestInsert
  <2> QED BY <1>2, <2>4, <2>5 DEF RequestInsert, LogType
<1>3. ASSUME NEW w \in Workers, NEW r \in Requests, NEW p \in People, NEW t \in Tenants,
             ApproveSelect(w, r, p, t)
      PROVE  TxType' /\ JobType' /\ LogType'
  <2>1. TxType'
    BY <1>0, <1>3, SelectType DEF ApproveSelect
  <2>2. JobType'
    BY <1>3, <1>k, GotoType DEF ApproveSelect
  <2> QED BY <1>3, <2>1, <2>2 DEF ApproveSelect, LogType
<1>4. ASSUME NEW w \in Workers, ApproveUpdate(w)
      PROVE  TxType' /\ JobType' /\ LogType'
  <2> DEFINE new == [r \in Found(w) |-> SignedRow(View(ConnOf[w], r), job[w].who, job[w].out)]
  <2>1. job[w].who \in People /\ Found(w) \in SUBSET Requests
    BY <1>0, <1>4 DEF JobType, ApproveUpdate, Found
  <2>2. \A r \in Found(w) : new[r] \in Row
    BY <1>0, <2>1, SignedRowType, ViewType DEF Found, LogType
  <2>3. WriteRows(ConnOf[w], Found(w), new)
    BY <1>4 DEF ApproveUpdate
  <2>4. TxType'
    BY <1>0, <2>1, <2>2, <2>3, WriteType
  <2>5. JobType'
    BY <1>0, <1>4, <1>k, GotoType DEF ApproveUpdate
  <2> QED BY <1>4, <2>4, <2>5 DEF ApproveUpdate, LogType
<1>5. ASSUME NEW w \in Workers, NEW r \in Requests, NEW p \in People, NEW t \in Tenants,
             RevokeSelect(w, r, p, t)
      PROVE  TxType' /\ JobType' /\ LogType'
  <2>1. TxType'
    BY <1>0, <1>5, SelectType DEF RevokeSelect
  <2>2. JobType'
    BY <1>5, <1>k, GotoType DEF RevokeSelect
  <2> QED BY <1>5, <2>1, <2>2 DEF RevokeSelect, LogType
<1>6. ASSUME NEW w \in Workers, RevokeUpdate(w)
      PROVE  TxType' /\ JobType' /\ LogType'
  <2> DEFINE new == [r \in Found(w) |-> [View(ConnOf[w], r) EXCEPT !.state = "revoked"]]
  <2>1. Found(w) \in SUBSET Requests
    BY <1>0 DEF Found
  <2>2. \A r \in Found(w) : new[r] \in Row
    BY <1>0, <1>k, <2>1, ViewType DEF Found, Row
  <2>3. WriteRows(ConnOf[w], Found(w), new)
    BY <1>6 DEF RevokeUpdate
  <2>4. TxType'
    BY <1>0, <2>1, <2>2, <2>3, WriteType
  <2>5. JobType'
    BY <1>0, <1>6, <1>k, GotoType DEF RevokeUpdate
  <2> QED BY <1>6, <2>4, <2>5 DEF RevokeUpdate, LogType
<1>7. ASSUME NEW w \in Workers, SweepUpdate(w)
      PROVE  TxType' /\ JobType' /\ LogType'
  <2> DEFINE due == {r \in Requests : View(ConnOf[w], r) # NoRow /\ Overdue(View(ConnOf[w], r))}
             new == [r \in due |-> [View(ConnOf[w], r) EXCEPT !.state = "expired"]]
  <2>1. \A r \in due : new[r] \in Row
    BY <1>0, <1>k, ViewType DEF Row
  <2>2. WriteRows(ConnOf[w], due, new) /\ Goto(w, "commit", "expired", due, Nobody)
    BY <1>7 DEF SweepUpdate
  <2>3. TxType'
    BY <1>0, <2>1, <2>2, WriteType
  <2>4. JobType'
    BY <1>k, <2>2, GotoType
  <2> QED BY <1>7, <2>3, <2>4 DEF SweepUpdate, LogType
<1>8. ASSUME NEW w \in Workers, Commit(w)
      PROVE  TxType' /\ JobType' /\ LogType'
  <2>1. TxType'
    BY <1>0, <1>8, CommitType DEF Commit
  <2>2. JobType'
    BY <1>0, <1>8, <1>k, GotoType DEF Commit
  <2> QED BY <1>0, <1>8, <2>1, <2>2 DEF Commit, LogType, Report
<1>9. ASSUME NEW w \in Workers, NEW r \in Requests, Emit(w, r) \/ EmitLost(w, r)
      PROVE  TxType' /\ JobType' /\ LogType'
  <2>1. TxType'
    BY <1>0, <1>9, CommitType, RollbackType DEF Emit, EmitLost
  <2>2. AfterEmit(w, r)
    BY <1>9 DEF Emit, EmitLost
  <2>3. JobType'
    BY <1>0, <1>k, <2>2, GotoType DEF AfterEmit
  <2> QED BY <1>0, <1>9, <2>1, <2>3 DEF Emit, EmitLost, LogType
<1>10. ASSUME NEW w \in Workers, Fail(w) \/ ReadOnly(w)
       PROVE  TxType' /\ JobType' /\ LogType'
  <2>1. TxType'
    BY <1>0, <1>10, CommitType, RollbackType DEF Fail, ReadOnly
  <2>2. JobType'
    BY <1>10, <1>k, GotoType DEF Fail, ReadOnly, JobType
  <2> QED BY <1>10, <2>1, <2>2 DEF Fail, ReadOnly, LogType
<1>11. ASSUME NEW c \in Conns, Crash(c)
       PROVE  TxType' /\ JobType' /\ LogType'
  <2>1. TxType'
    BY <1>11, RollbackType DEF Crash
  <2>2. JobType'
    BY <1>11, <1>k DEF Crash, JobType, Job, Idle
  <2> QED BY <1>11, <2>1, <2>2 DEF Crash, LogType
<1>12. ASSUME Tick
       PROVE  TxType' /\ JobType' /\ LogType'
  BY <1>12 DEF Tick, TxType, JobType, LogType
<1>13. CASE UNCHANGED vars
  BY <1>13 DEF vars, TxType, JobType, LogType
<1> QED
  BY <1>1, <1>2, <1>3, <1>4, <1>5, <1>6, <1>7, <1>8, <1>9, <1>10, <1>11, <1>12, <1>13
     DEF Next, Continue

\* Every reachable state is well typed; in particular every stored window respects the
\* hard cap, however the workers share their connections.
THEOREM TypeCorrect == Spec => []TypeOK
  BY TypeInit, TypeStep, PTL DEF Spec

-----------------------------------------------------------------------------
(* The inductive invariant.  TwoPersonControl alone is not inductive: it says nothing of
   what a worker has read and not yet written, or written and not yet committed. *)

\* Everything the table says of request r: the committed row and the uncommitted ones.
Versions(r) == ({rows[r]} \cup {dirty[c][r] : c \in Conns}) \ {NoRow, Clean}

NotOwn(row) == row.by \notin {row.first, row.second}

\* Mixed or not, all versions of a request name one applicant, who has signed none of
\* them and is not about to; a request waiting for its INSERT is nobody else's business.
Origin(r) ==
    /\ \A a, b \in Versions(r) : a.by = b.by
    /\ \A a \in Versions(r) : NotOwn(a)
    /\ \A w \in Workers : job[w].pc = "sign" /\ r \in job[w].ids =>
         \A a \in Versions(r) : a.by # job[w].who
    /\ \A w \in Workers : job[w].pc = "insert" /\ r \in job[w].ids =>
         /\ Versions(r) = {} /\ told[r] = {}
         /\ \A v \in Workers \ {w} : r \notin job[v].ids

\* Person p may sign row, and the signature brings it to state out.
MaySign(row, out, p) ==
    /\ p \in People /\ p # row.by
    /\ \/ out = "first-approved" /\ row.state = "requested"
       \/ out = "active" /\ row.state = "first-approved" /\ p # row.first

\* The ways a transaction with outcome out, for person p, may change a row at time t.
Move(old, new, out, p, t) ==
    \/ /\ out = "requested" /\ old = NoRow
       /\ new \in Row /\ new.state = "requested" /\ new.by = p /\ p \in People
       /\ new.first = Nobody /\ new.second = Nobody
    \/ /\ out = "first-approved" /\ old \in Row /\ MaySign(old, out, p)
       /\ new = [old EXCEPT !.state = "first-approved", !.first = p]
    \/ /\ out = "active" /\ old \in Row /\ MaySign(old, out, p)
       /\ new \in Row
       /\ new = [old EXCEPT !.state = "active", !.second = p, !.expires = new.expires]
    \/ /\ out = "revoked" /\ old \in Row /\ old.state \notin Terminal
       /\ new = [old EXCEPT !.state = "revoked"]
    \/ /\ out = "expired" /\ old \in Row /\ old.state = "active" /\ old.expires < t
       /\ new = [old EXCEPT !.state = "expired"]

\* Worker w has written, and has its writes still to commit.
Wrote(w) == job[w].pc = "commit" /\ job[w].out # "denied"

\* What the place of worker w in its call says about r, one of its requests, as long as
\* r is not mixed: w has the row lock, and its write is one legal move of the row.
JobInv(w, r) ==
    LET c == ConnOf[w]
        j == job[w]
    IN /\ j.pc \in {"sign", "revoke"} => lock[r] = c /\ rows[r] # NoRow
       /\ j.pc = "sign" => MaySign(rows[r], j.out, j.who)
       /\ j.pc = "revoke" => rows[r].state \notin Terminal
       /\ Wrote(w) => lock[r] = c /\ Move(rows[r], dirty[c][r], j.out, j.who, now)

\* What has been reported is in the row, and out of reach of the moves left to it.
Reported(r) ==
    \A a \in told[r] :
       /\ rows[r] # NoRow
       /\ a[1] = "requested" => rows[r].by = a[2]
       /\ a[1] = "first-approved" => rows[r].first = a[2] /\ rows[r].state # "requested"
       /\ a[1] = "active" => /\ rows[r].second = a[2]
                             /\ rows[r].state \notin {"requested", "first-approved"}
       /\ a[1] \in Terminal => rows[r].state = a[1]

RowInv(r) == /\ rows[r] # NoRow => WellSigned(rows[r])
             /\ Reported(r)

\* An uncommitted write holds its row's lock.
WritesLocked == \A c \in Conns, r \in Requests : dirty[c][r] # Clean => lock[r] = c

\* An uncommitted write is the work of a thread that has not reached its commit.
Owned == \A c \in Conns, r \in Requests : dirty[c][r] # Clean =>
            \E w \in Workers : ConnOf[w] = c /\ Wrote(w) /\ r \in job[w].ids

\* Two threads inside one transaction: what they work on is mixed.
Apart == \A w, v \in Workers :
            w # v /\ ConnOf[w] = ConnOf[v] /\ InTx(w) /\ InTx(v) => job[w].ids \subseteq mixed

\* The outcome a call about to write will report.
Outs(w) == /\ job[w].pc = "sign" => job[w].out \in {"first-approved", "active"}
           /\ job[w].pc = "revoke" => job[w].out = "revoked"

Unmixed(r) == /\ RowInv(r)
              /\ \A w \in Workers : r \in job[w].ids => JobInv(w, r)

IInv == /\ TypeOK
        /\ WritesLocked
        /\ Owned
        /\ Apart
        /\ \A w \in Workers : Outs(w)
        /\ \A r \in Requests : Origin(r)
        /\ \A r \in Requests \ mixed : Unmixed(r)

\* A step leaves connection d, and the rows d has locked, alone.
Frame(d) == /\ dirty'[d] = dirty[d]
            /\ \A r \in Requests : /\ lock'[r] = d <=> lock[r] = d
                                   /\ lock[r] = d => rows'[r] = rows[r]

LEMMA SelectFrame ==
  ASSUME TxType, NEW c \in Conns, NEW d \in Conns \ {c}, NEW r \in Requests,
         SelectForUpdate(c, r)
  PROVE  Frame(d)
  BY Sentinels DEF TxType, SelectForUpdate, LockFree, Frame

LEMMA WriteFrame ==
  ASSUME TxType, NEW c \in Conns, NEW d \in Conns \ {c}, NEW S \in SUBSET Requests, NEW new,
         WriteRows(c, S, new)
  PROVE  Frame(d)
  BY Sentinels DEF TxType, WriteRows, LockFree, Frame

LEMMA CommitFrame ==
  ASSUME TxType, WritesLocked, NEW c \in Conns, NEW d \in Conns \ {c}, CommitConn(c)
  PROVE  Frame(d)
  BY Sentinels DEF TxType, WritesLocked, CommitConn, View, Released, Frame

LEMMA RollbackFrame ==
  ASSUME TxType, NEW c \in Conns, NEW d \in Conns \ {c}, RollbackConn(c)
  PROVE  Frame(d)
  BY Sentinels DEF TxType, RollbackConn, Released, Frame

-----------------------------------------------------------------------------
(* The invariant holds initially. *)

LEMMA IInit == Init => IInv
<1> SUFFICES ASSUME Init PROVE IInv
  OBVIOUS
<1>1. TypeOK
  BY TypeInit
<1>2. /\ \A c \in Conns, r \in Requests : dirty[c][r] = Clean
      /\ \A w \in Workers : job[w].pc = "idle" /\ job[w].ids = {}
      /\ \A r \in Requests : rows[r] = NoRow /\ told[r] = {}
  BY DEF Init, TxInit, AllClean, Idle
<1>3. \A r \in Requests : Origin(r) /\ Unmixed(r)
  BY <1>2 DEF Origin, Versions, Unmixed, RowInv, Reported
<1>4. WritesLocked /\ Owned /\ Apart /\ \A w \in Workers : Outs(w)
  BY <1>2 DEF WritesLocked, Owned, Apart, InTx, Outs
<1> QED BY <1>1, <1>3, <1>4 DEF IInv

-----------------------------------------------------------------------------
(* What the operations of EventStoreTx do to the invariant's parts. *)

LEMMA LocksKept ==
  ASSUME TxType, WritesLocked, NEW c \in Conns,
         \/ \E r \in Requests : SelectForUpdate(c, r)
         \/ CommitConn(c)
         \/ RollbackConn(c)
  PROVE  WritesLocked'
<1>1. CASE \E r \in Requests : SelectForUpdate(c, r)
  BY <1>1, Sentinels DEF TxType, WritesLocked, SelectForUpdate, LockFree
<1>2. CASE CommitConn(c) \/ RollbackConn(c)
  BY <1>2, Sentinels DEF TxType, WritesLocked, CommitConn, RollbackConn, AllClean, Released
<1> QED BY <1>1, <1>2

LEMMA WriteLocks ==
  ASSUME TxType, WritesLocked, NEW c \in Conns, NEW S \in SUBSET Requests, NEW new,
         WriteRows(c, S, new)
  PROVE  WritesLocked'
  BY Sentinels DEF TxType, WritesLocked, WriteRows, LockFree


\* What a connection reads is a version of the row.
LEMMA ViewIsVersion ==
  ASSUME TypeOK, NEW c \in Conns, NEW r \in Requests, View(c, r) # NoRow
  PROVE  View(c, r) \in Versions(r) /\ View(c, r) \in Row
<1>1. View(c, r) \in Row
  BY ViewType, TypeParts
<1>2. View(c, r) # Clean
  BY <1>1, Sentinels
<1> QED BY <1>1, <1>2 DEF View, Versions

LEMMA EndVersions ==
  ASSUME TypeOK, NEW c \in Conns, NEW r \in Requests, CommitConn(c) \/ RollbackConn(c)
  PROVE  Versions(r)' \subseteq Versions(r)
<1>1. rows'[r] = rows[r] \/ rows'[r] = dirty[c][r]
  BY DEF CommitConn, RollbackConn, View
<1>2. \A d \in Conns : dirty'[d][r] = dirty[d][r] \/ dirty'[d][r] = Clean
  BY DEF TypeOK, CommitConn, RollbackConn, AllClean
<1> QED BY <1>1, <1>2 DEF Versions

LEMMA WriteVersions ==
  ASSUME TypeOK, NEW c \in Conns, NEW r \in Requests, NEW S \in SUBSET Requests, NEW new,
         WriteRows(c, S, new)
  PROVE  Versions(r)' \subseteq Versions(r) \cup {new[q] : q \in S \cap {r}}
<1>1. rows'[r] = rows[r]
  BY DEF WriteRows
<1>2. \A d \in Conns : dirty'[d][r] = dirty[d][r] \/ (r \in S /\ dirty'[d][r] = new[r])
  BY DEF TypeOK, WriteRows
<1> QED BY <1>1, <1>2 DEF Versions

\* A step by which no version of r appears, that reports nothing of it, and after which
\* every worker goes on as before or has given up its call.
LEMMA OriginShrinks ==
  ASSUME NEW r \in Requests, Origin(r), Versions(r)' \subseteq Versions(r), told'[r] = told[r],
         \A v \in Workers : job'[v] = job[v] \/ job'[v] = Idle
  PROVE  Origin(r)'
<1>1. \A a, b \in Versions(r)' : a.by = b.by /\ NotOwn(a)
  BY DEF Origin
<1>2. \A v \in Workers : job'[v].pc \in {"sign", "insert"} \/ r \in job'[v].ids => job'[v] = job[v]
  BY DEF Idle
<1>3. \A v \in Workers : job'[v].pc = "sign" /\ r \in job'[v].ids =>
        \A a \in Versions(r)' : a.by # job'[v].who
  BY <1>2 DEF Origin
<1>4. ASSUME NEW v \in Workers, job'[v].pc = "insert", r \in job'[v].ids
      PROVE  /\ Versions(r)' = {} /\ told'[r] = {}
             /\ \A u \in Workers \ {v} : r \notin job'[u].ids
  <2>1. /\ Versions(r) = {} /\ told[r] = {}
        /\ \A u \in Workers \ {v} : r \notin job[u].ids
    BY <1>2, <1>4 DEF Origin
  <2> QED BY <1>2, <2>1
<1> QED BY <1>1, <1>3, <1>4 DEF Origin, NotOwn

\* A step of worker w that adds the versions N, all in the applicant's name.
LEMMA OriginKept ==
  ASSUME NEW w \in Workers, NEW r \in Requests, Origin(r), NEW N,
         \A v \in Workers \ {w} : job'[v] = job[v],
         told'[r] = told[r] \/ (r \in job[w].ids /\ job[w].pc # "insert"),
         Versions(r)' \subseteq Versions(r) \cup N,
         \A n \in N : NotOwn(n) /\ \A a \in Versions(r) \cup N : n.by = a.by,
         N # {} => Versions(r) # {} \/ (job[w].pc = "insert" /\ r \in job[w].ids),
         r \in job'[w].ids => /\ job'[w].pc # "insert"
                              /\ r \in job[w].ids \/ Versions(r) # {},
         r \in job'[w].ids /\ job'[w].pc = "sign" =>
           N = {} /\ \A a \in Versions(r) : a.by # job'[w].who
  PROVE  Origin(r)'
<1>1. \A a, b \in Versions(r)' : a.by = b.by
  BY DEF Origin
<1>2. \A a \in Versions(r)' : NotOwn(a)
  BY DEF Origin
<1>3. ASSUME NEW v \in Workers, job'[v].pc = "sign", r \in job'[v].ids, NEW a \in Versions(r)'
      PROVE  a.by # job'[v].who
  <2>1. CASE v = w
    BY <1>3, <2>1
  <2>2. CASE v # w
    <3>1. job[v].pc = "sign" /\ r \in job[v].ids /\ job'[v].who = job[v].who
      BY <1>3, <2>2
    <3>2. N = {} \/ Versions(r) # {}
      BY <2>2, <3>1 DEF Origin
    <3> QED BY <3>1, <3>2 DEF Origin
  <2> QED BY <2>1, <2>2
<1>4. ASSUME NEW v \in Workers, job'[v].pc = "insert", r \in job'[v].ids
      PROVE  /\ Versions(r)' = {} /\ told'[r] = {}
             /\ \A u \in Workers \ {v} : r \notin job'[u].ids
  <2>1. v # w /\ job[v].pc = "insert" /\ r \in job[v].ids
    BY <1>4
  <2>2. /\ Versions(r) = {} /\ told[r] = {}
        /\ \A u \in Workers \ {v} : r \notin job[u].ids
    BY <2>1 DEF Origin
  <2>3. N = {} /\ r \notin job[w].ids
    BY <2>1, <2>2
  <2> QED BY <2>1, <2>2, <2>3
<1> QED BY <1>1, <1>2, <1>3, <1>4 DEF Origin, NotOwn

\* The same for a step that adds no version and starts nothing.
LEMMA OriginStays ==
  ASSUME NEW w \in Workers, NEW r \in Requests, Origin(r),
         \A v \in Workers \ {w} : job'[v] = job[v],
         told'[r] = told[r] \/ (r \in job[w].ids /\ job[w].pc # "insert"),
         Versions(r)' \subseteq Versions(r),
         job'[w].pc \notin {"insert", "sign"}, job'[w].ids \subseteq job[w].ids
  PROVE  Origin(r)'
<1>1. PICK N : N = {}
  OBVIOUS
<1>2. /\ Versions(r)' \subseteq Versions(r) \cup N
      /\ \A n \in N : NotOwn(n) /\ \A a \in Versions(r) \cup N : n.by = a.by
  BY <1>1
<1>3. r \in job'[w].ids => job'[w].pc # "insert" /\ (r \in job[w].ids \/ Versions(r) # {})
  OBVIOUS
<1> QED BY <1>1, <1>2, <1>3, OriginKept

-----------------------------------------------------------------------------
(* What a step of worker w needs, and what it leaves to the others. *)

LEMMA Here ==
  ASSUME IInv, NEW w \in Workers
  PROVE  /\ TypeOK /\ TxType /\ WritesLocked
         /\ ConnOf[w] \in Conns
         /\ job \in [Workers -> Job]
         /\ job[w].ids \in SUBSET Requests
         /\ job[w].pc \in {"insert", "sign", "revoke"} => job[w].who \in People
         /\ Outs(w)
         /\ \A r \in Requests : rows[r] \in Row \cup {NoRow} /\ Origin(r)
         /\ now \in Nat
  BY ConnOfType DEF IInv, TypeOK, TxType, Job

\* Goto moves no other worker.
LEMMA GotoOnly ==
  ASSUME job \in [Workers -> Job], NEW w \in Workers,
         NEW pc, NEW out, NEW ids, NEW who, Goto(w, pc, out, ids, who)
  PROVE  /\ job'[w] = [pc |-> pc, out |-> out, ids |-> ids, who |-> who]
         /\ \A v \in Workers \ {w} : job'[v] = job[v]
  BY DEF Goto

\* Alone in its process, a worker that has not written finds its connection clean.
LEMMA Alone ==
  ASSUME IInv, NEW w \in Workers, Threads(w) = {}, ~Wrote(w)
  PROVE  \A r \in Requests : dirty[ConnOf[w]][r] = Clean /\ View(ConnOf[w], r) = rows[r]
<1> SUFFICES ASSUME NEW r \in Requests, dirty[ConnOf[w]][r] # Clean PROVE FALSE
  BY DEF View
<1>1. PICK v \in Workers : ConnOf[v] = ConnOf[w] /\ Wrote(v) /\ r \in job[v].ids
  BY ConnOfType DEF IInv, Owned
<1>2. v \in Threads(w)
  BY <1>1 DEF Threads, InTx, Wrote
<1> QED BY <1>2

\* A request a worker ends up working on without having become mixed: the worker is alone.
LEMMA NotMixing ==
  ASSUME TypeOK', NEW w \in Workers, Mixing(w), NEW r \in Requests, r \notin mixed', r \in job'[w].ids, InTx(w)'
  PROVE  Threads(w) = {} /\ r \notin mixed
  BY DEF Mixing

LEMMA ApartKept ==
  ASSUME IInv, TypeOK', NEW w \in Workers, Mixing(w), \A v \in Workers \ {w} : job'[v] = job[v]
  PROVE  Apart'
<1> SUFFICES ASSUME NEW u \in Workers, NEW v \in Workers, u # v, ConnOf[u] = ConnOf[v],
                    InTx(u)', InTx(v)'
             PROVE  job'[u].ids \subseteq mixed'
  BY DEF Apart
<1>0. job'[u].ids \subseteq Requests /\ mixed \subseteq mixed'
  BY DEF TypeOK, Job, Mixing
<1>1. CASE u = w
  <2>1. v \in Threads(w)
    BY <1>1 DEF Threads, InTx
  <2> QED BY <1>0, <1>1, <2>1 DEF Mixing
<1>2. CASE v = w
  <2>1. u \in Threads(w) /\ job'[u] = job[u]
    BY <1>2 DEF Threads, InTx
  <2> QED BY <1>0, <2>1 DEF Mixing
<1>3. CASE u # w /\ v # w
  BY <1>0, <1>3 DEF IInv, Apart, InTx
<1> QED BY <1>1, <1>2, <1>3

\* A worker whose connection and locked rows a step leaves alone keeps its invariant.
LEMMA JobFramed ==
  ASSUME TypeOK, TypeOK', NEW v \in Workers, NEW r \in Requests, JobInv(v, r),
         job'[v] = job[v], Frame(ConnOf[v]), now <= now'
  PROVE  JobInv(v, r)'
<1>0. /\ now \in Nat /\ now' \in Nat
      /\ rows[r] \in Row => rows[r].expires \in Nat
  BY DEF TypeOK, Row
<1>1. /\ dirty'[ConnOf[v]][r] = dirty[ConnOf[v]][r]
      /\ lock[r] = ConnOf[v] => lock'[r] = ConnOf[v] /\ rows'[r] = rows[r]
  BY DEF Frame
<1>2. CASE lock[r] = ConnOf[v]
  <2>1. rows'[r] = rows[r] /\ lock'[r] = lock[r]
    BY <1>1, <1>2
  <2>2. Move(rows[r], dirty[ConnOf[v]][r], job[v].out, job[v].who, now) =>
        Move(rows[r], dirty[ConnOf[v]][r], job[v].out, job[v].who, now)'
    BY <1>0, <1>1, <2>1 DEF Move, MaySign
  <2>3. MaySign(rows[r], job[v].out, job[v].who)' <=> MaySign(rows[r], job[v].out, job[v].who)
    BY <2>1 DEF MaySign
  <2> QED BY <2>1, <2>2, <2>3 DEF JobInv, Wrote
<1>3. CASE lock[r] # ConnOf[v]
  <2>1. job[v].pc \notin {"sign", "revoke"} /\ ~Wrote(v)
    BY <1>3 DEF JobInv
  <2> QED BY <2>1 DEF JobInv, Wrote
<1> QED BY <1>2, <1>3

\* The other workers: those of w's process were mixed by the step if they had a transaction
\* open, those of another process are kept apart by the row locks.
LEMMA Others ==
  ASSUME IInv, TypeOK', NEW w \in Workers, Mixing(w), \A v \in Workers \ {w} : job'[v] = job[v],
         \A d \in Conns \ {ConnOf[w]} : Frame(d), now' = now,
         NEW r \in Requests \ mixed', NEW v \in Workers \ {w}, r \in job'[v].ids
  PROVE  JobInv(v, r)'
<1>1. job'[v] = job[v] /\ r \in job[v].ids /\ r \notin mixed
  BY DEF Mixing
<1>2. JobInv(v, r)
  BY <1>1 DEF IInv, Unmixed
<1>3. CASE ~InTx(v)
  BY <1>1, <1>3 DEF JobInv, InTx, Wrote
<1>4. CASE InTx(v)
  <2>1. ConnOf[v] # ConnOf[w]
    BY <1>1, <1>4 DEF Threads, Mixing
  <2>2. ConnOf[v] \in Conns \ {ConnOf[w]} /\ Frame(ConnOf[v])
    BY <2>1, ConnOfType
  <2> QED BY <1>1, <1>2, <2>2, Here, JobFramed
<1> QED BY <1>3, <1>4

\* Nothing a step does to a row it leaves, and does not report on, can be wrong.
LEMMA RowKept ==
  ASSUME NEW r \in Requests, RowInv(r), rows'[r] = rows[r], told'[r] = told[r]
  PROVE  RowInv(r)'
  BY DEF RowInv, Reported, WellSigned, SignedByTwo

-----------------------------------------------------------------------------
(* Moves. *)

LEMMA MoveWellSigned ==
  ASSUME NEW old \in Row \cup {NoRow}, NEW new, NEW out, NEW p, NEW t,
         old # NoRow => WellSigned(old), Move(old, new, out, p, t)
  PROVE  new \in Row => WellSigned(new)
<1>1. CASE out = "requested"
  BY <1>1, Sentinels DEF Move, WellSigned, SignedByTwo
<1>2. CASE out = "first-approved"
  <2>1. old \in Row /\ MaySign(old, out, p) /\ new = [old EXCEPT !.state = "first-approved", !.first = p]
    BY <1>2 DEF Move
  <2>2. /\ new.by = old.by /\ new.first = p /\ new.second = old.second
        /\ new.state = "first-approved"
    BY <2>1 DEF Row
  <2>3. WellSigned(old)
    BY <2>1, Sentinels
  <2> QED BY <1>2, <2>1, <2>2, <2>3, Sentinels DEF MaySign, WellSigned, SignedByTwo
<1>3. CASE out = "active"
  <2>1. /\ old \in Row /\ MaySign(old, out, p)
        /\ new = [old EXCEPT !.state = "active", !.second = p, !.expires = new.expires]
    BY <1>3 DEF Move
  <2>2. new.by = old.by /\ new.first = old.first /\ new.second = p /\ new.state = "active"
    BY <2>1 DEF Row
  <2>3. WellSigned(old)
    BY <2>1, Sentinels
  <2> QED BY <1>3, <2>1, <2>2, <2>3, Sentinels DEF MaySign, WellSigned, SignedByTwo
<1>4. CASE out \in {"revoked", "expired"}
  <2>1. /\ old \in Row
        /\ new = [old EXCEPT !.state = out]
        /\ out = "expired" => old.state = "active"
    BY <1>4 DEF Move
  <2>2. new.by = old.by /\ new.first = old.first /\ new.second = old.second /\ new.state = out
    BY <2>1 DEF Row
  <2>3. WellSigned(old)
    BY <2>1, Sentinels
  <2> QED BY <1>4, <2>1, <2>2, <2>3 DEF WellSigned, SignedByTwo
<1> QED BY <1>1, <1>2, <1>3, <1>4 DEF Move

\* A move keeps what was reported, and makes its own report true.
Report1(row, a) ==
    /\ row # NoRow
    /\ a[1] = "requested" => row.by = a[2]
    /\ a[1] = "first-approved" => row.first = a[2] /\ row.state # "requested"
    /\ a[1] = "active" => row.second = a[2] /\ row.state \notin {"requested", "first-approved"}
    /\ a[1] \in Terminal => row.state = a[1]

LEMMA MoveReported ==
  ASSUME NEW old \in Row \cup {NoRow}, NEW new, NEW out, NEW p, NEW t, Move(old, new, out, p, t)
  PROVE  /\ new \in Row
         /\ \A a : Report1(old, a) => Report1(new, a)
         /\ Report1(new, <<out, p>>)
<1>0. "requested" \in States /\ "first-approved" \in States /\ "active" \in States
      /\ "revoked" \in States /\ "expired" \in States
  BY DEF States
<1>1. CASE out = "requested"
  BY <1>1, Sentinels DEF Move, Report1, Terminal
<1>2. CASE out = "first-approved"
  <2>1. old \in Row /\ MaySign(old, out, p) /\ new = [old EXCEPT !.state = "first-approved", !.first = p]
    BY <1>2 DEF Move
  <2>2. /\ new.by = old.by /\ new.first = p /\ new.second = old.second
        /\ new.state = "first-approved" /\ new \in Row /\ old.state = "requested"
    BY <1>0, <1>2, <2>1 DEF Row, MaySign
  <2> QED BY <1>2, <2>2, Sentinels DEF Report1, Terminal
<1>3. CASE out = "active"
  <2>1. /\ old \in Row /\ new \in Row /\ MaySign(old, out, p)
        /\ new = [old EXCEPT !.state = "active", !.second = p, !.expires = new.expires]
    BY <1>3 DEF Move
  <2>2. /\ new.by = old.by /\ new.first = old.first /\ new.second = p /\ new.state = "active"
        /\ old.state = "first-approved"
    BY <1>3, <2>1 DEF Row, MaySign
  <2> QED BY <1>3, <2>1, <2>2, Sentinels DEF Report1, Terminal
<1>4. CASE out \in {"revoked", "expired"}
  <2>1. /\ old \in Row /\ old.state \notin Terminal
        /\ new = [old EXCEPT !.state = out]
    BY <1>4 DEF Move, Terminal
  <2>2. /\ new.by = old.by /\ new.first = old.first /\ new.second = old.second
        /\ new.state = out /\ new \in Row
    BY <1>0, <1>4, <2>1 DEF Row
  <2> QED BY <1>4, <2>1, <2>2, Sentinels DEF Report1, Terminal
<1> QED BY <1>1, <1>2, <1>3, <1>4 DEF Move

-----------------------------------------------------------------------------
(* One lemma per kind of step: a step of worker w preserves the invariant. *)

LEMMA Assemble ==
  ASSUME IInv, TypeOK', NEW w \in Workers, Mixing(w), \A v \in Workers \ {w} : job'[v] = job[v],
         \A d \in Conns \ {ConnOf[w]} : Frame(d), now' = now,
         WritesLocked', Owned', Outs(w)', \A r \in Requests : Origin(r)',
         \A r \in Requests \ mixed' : RowInv(r)' /\ (r \in job'[w].ids => JobInv(w, r)')
  PROVE  IInv'
<1>1. Apart'
  BY ApartKept
<1>2. \A v \in Workers : Outs(v)'
  BY DEF IInv, Outs
<1>3. ASSUME NEW r \in Requests \ mixed' PROVE Unmixed(r)'
  BY Others DEF Unmixed
<1> QED BY <1>1, <1>2, <1>3 DEF IInv

\* What a commit by w makes of a request that is not mixed: w's own move, or nothing.
LEMMA CommitRow ==
  ASSUME IInv, NEW w \in Workers, Mixing(w), CommitConn(ConnOf[w]), NEW r \in Requests \ mixed'
  PROVE  IF Wrote(w) /\ r \in job[w].ids
         THEN Move(rows[r], rows'[r], job[w].out, job[w].who, now)
         ELSE rows'[r] = rows[r]
<1> DEFINE c == ConnOf[w]
<1>1. rows'[r] = View(c, r)
  BY DEF CommitConn
<1>2. r \notin mixed
  BY DEF Mixing
<1>3. CASE Wrote(w) /\ r \in job[w].ids
  <2>1. Move(rows[r], dirty[c][r], job[w].out, job[w].who, now)
    BY <1>2, <1>3 DEF IInv, Unmixed, JobInv
  <2>2. rows[r] \in Row \cup {NoRow}
    BY Here
  <2>3. dirty[c][r] \in Row
    BY <2>1, <2>2, MoveReported
  <2>4. dirty[c][r] # Clean
    BY <2>3, Sentinels
  <2> QED BY <1>1, <1>3, <2>1, <2>4 DEF View
<1>4. CASE ~(Wrote(w) /\ r \in job[w].ids)
  <2>1. dirty[c][r] = Clean
    <3> SUFFICES ASSUME dirty[c][r] # Clean PROVE FALSE
      OBVIOUS
    <3>1. PICK v \in Workers : ConnOf[v] = c /\ Wrote(v) /\ r \in job[v].ids
      BY ConnOfType DEF IInv, Owned
    <3>2. v \in Threads(w)
      BY <1>4, <3>1 DEF Threads, InTx, Wrote
    <3> QED BY <3>1, <3>2 DEF Mixing
  <2> QED BY <1>1, <1>4, <2>1 DEF View
<1> QED BY <1>3, <1>4

LEMMA EndOwned ==
  ASSUME IInv, NEW w \in Workers, CommitConn(ConnOf[w]) \/ RollbackConn(ConnOf[w]),
         \A v \in Workers \ {w} : job'[v] = job[v]
  PROVE  Owned'
<1> SUFFICES ASSUME NEW d \in Conns, NEW r \in Requests, dirty'[d][r] # Clean
             PROVE  \E v \in Workers : ConnOf[v] = d /\ Wrote(v)' /\ r \in job'[v].ids
  BY DEF Owned
<1>1. d # ConnOf[w] /\ dirty[d][r] # Clean
  BY Here DEF TxType, CommitConn, RollbackConn, AllClean
<1>2. PICK v \in Workers : ConnOf[v] = d /\ Wrote(v) /\ r \in job[v].ids
  BY <1>1 DEF IInv, Owned
<1> QED BY <1>1, <1>2 DEF Wrote

\* The end of a transaction, by whichever thread.
LEMMA StepEnd ==
  ASSUME IInv, TypeOK', NEW w \in Workers, Mixing(w), \A v \in Workers \ {w} : job'[v] = job[v],
         CommitConn(ConnOf[w]) \/ RollbackConn(ConnOf[w]), now' = now, ~InTx(w)',
         \A r \in Requests : Origin(r)',
         \A r \in Requests \ mixed' : RowInv(r)'
  PROVE  IInv'
<1>1. \A d \in Conns \ {ConnOf[w]} : Frame(d)
  BY Here, CommitFrame, RollbackFrame
<1>2. WritesLocked' /\ Owned'
  BY Here, LocksKept, EndOwned
<1>3. Outs(w)' /\ \A r \in Requests : JobInv(w, r)'
  BY DEF InTx, Outs, JobInv, Wrote
<1> QED BY <1>1, <1>2, <1>3, Assemble

\* The same for the steps that report nothing: the rows of unmixed requests stay.
LEMMA StepQuietEnd ==
  ASSUME IInv, TypeOK', NEW w \in Workers, Mixing(w), \A v \in Workers \ {w} : job'[v] = job[v],
         RollbackConn(ConnOf[w]) \/ (CommitConn(ConnOf[w]) /\ ~Wrote(w)),
         told' = told, now' = now, ~InTx(w)', job'[w].pc # "insert", job'[w].ids \subseteq job[w].ids
  PROVE  IInv'
<1>1. ASSUME NEW r \in Requests PROVE Origin(r)'
  <2>1. Versions(r)' \subseteq Versions(r) /\ Origin(r)
    BY Here, EndVersions
  <2>2. job'[w].pc \notin {"insert", "sign"}
    BY DEF InTx
  <2> QED BY <2>1, <2>2, OriginStays
<1>2. ASSUME NEW r \in Requests \ mixed' PROVE RowInv(r)'
  <2>1. rows'[r] = rows[r]
    BY CommitRow DEF RollbackConn
  <2>2. RowInv(r)
    BY DEF IInv, Unmixed, Mixing
  <2> QED BY <2>1, <2>2, RowKept
<1> QED BY <1>1, <1>2, StepEnd

LEMMA StepCommit ==
  ASSUME IInv, TypeOK', NEW w \in Workers, Commit(w)
  PROVE  IInv'
<1> DEFINE j == job[w]
           c == ConnOf[w]
<1>0. job \in [Workers -> Job] /\ Mixing(w) /\ CommitConn(c) /\ j.pc = "commit" /\ now' = now
  BY Here DEF Commit
<1>1. CASE j.out = "denied"
  <2>1. Goto(w, "idle", "denied", {}, Nobody) /\ told' = told
    BY <1>1 DEF Commit
  <2>2. /\ job'[w].pc = "idle" /\ job'[w].ids = {}
        /\ \A v \in Workers \ {w} : job'[v] = job[v]
    BY <2>1, <1>0 DEF Goto
  <2>3. ~Wrote(w) /\ ~InTx(w)'
    BY <1>1, <2>2 DEF Wrote, InTx
  <2> QED BY <1>0, <2>1, <2>2, <2>3, StepQuietEnd
<1>2. CASE j.out # "denied"
  <2>1. Report(j.ids, j.out, j.who) /\ Goto(w, "emit", j.out, j.ids, j.who) /\ Wrote(w)
    BY <1>0, <1>2 DEF Commit, Wrote
  <2>2. /\ job'[w].pc = "emit" /\ job'[w].ids = j.ids
        /\ \A v \in Workers \ {w} : job'[v] = job[v]
    BY <2>1, <1>0 DEF Goto
  <2>3. ~InTx(w)'
    BY <2>2 DEF InTx
  <2>4. ASSUME NEW r \in Requests PROVE Origin(r)'
    <3>1. Versions(r)' \subseteq Versions(r) /\ Origin(r)
      BY <1>0, Here, EndVersions
    <3>2. told'[r] = told[r] \/ r \in job[w].ids
      BY <2>1 DEF Report
    <3> QED BY <1>0, <2>2, <3>1, <3>2, OriginStays
  <2>5. ASSUME NEW r \in Requests \ mixed' PROVE RowInv(r)'
    <3>0. RowInv(r)
      BY <1>0 DEF IInv, Unmixed, Mixing
    <3>1. CASE r \notin j.ids
      <4>1. rows'[r] = rows[r] /\ told'[r] = told[r]
        BY <1>0, <2>1, <3>1, CommitRow DEF Report
      <4> QED BY <3>0, <4>1, RowKept
    <3>2. CASE r \in j.ids
      <4>1. Move(rows[r], rows'[r], j.out, j.who, now) /\ rows[r] \in Row \cup {NoRow}
        BY <1>0, <2>1, <3>2, CommitRow, Here
      <4>2. /\ rows'[r] \in Row
            /\ \A a : Report1(rows[r], a) => Report1(rows'[r], a)
            /\ Report1(rows'[r], <<j.out, j.who>>)
        BY <4>1, MoveReported
      <4>3. WellSigned(rows'[r])
        BY <3>0, <4>1, <4>2, MoveWellSigned DEF RowInv
      <4>4. told'[r] = told[r] \cup {<<j.out, j.who>>}
        BY <2>1, <3>2 DEF Report
      <4>5. \A a \in told[r] : Report1(rows[r], a)
        BY <3>0 DEF RowInv, Reported, Report1
      <4>6. \A a \in told'[r] : Report1(rows'[r], a)
        BY <4>2, <4>4, <4>5
      <4>7. Reported(r)'
        BY <4>6 DEF Reported, Report1
      <4> QED BY <4>3, <4>7 DEF RowInv, WellSigned, SignedByTwo
    <3> QED BY <3>1, <3>2
  <2> QED BY <1>0, <2>2, <2>3, <2>4, <2>5, StepEnd
<1> QED BY <1>1, <1>2

LEMMA StepRequestStart ==
  ASSUME IInv, TypeOK', NEW w \in Workers, NEW r \in Requests, NEW p \in People,
         RequestStart(w, r, p)
  PROVE  IInv'
<1> DEFINE c == ConnOf[w]
<1>0. /\ Mixing(w) /\ told' = told /\ now' = now /\ job[w].pc = "idle" /\ ~Wrote(w)
      /\ rows[r] = NoRow /\ told[r] = {}
      /\ \A v \in Workers : r \notin job[v].ids
      /\ \A d \in Conns : dirty[d][r] = Clean
      /\ CommitConn(c) \/ RollbackConn(c) \/ UNCHANGED <<rows, dirty, lock>>
  BY DEF RequestStart, Wrote
<1>1. /\ job'[w] = [pc |-> "insert", out |-> "requested", ids |-> {r}, who |-> p]
      /\ \A v \in Workers \ {w} : job'[v] = job[v]
  BY GotoOnly, Here DEF RequestStart
<1>2. ~InTx(w)' /\ Outs(w)' /\ \A q \in Requests : JobInv(w, q)'
  BY <1>1 DEF InTx, Outs, JobInv, Wrote
<1>3. ASSUME NEW q \in Requests PROVE Origin(q)'
  <2>0. ASSUME UNCHANGED <<rows, dirty, lock>> PROVE Versions(q)' = Versions(q)
    <3>1. rows' = rows /\ dirty' = dirty
      BY <2>0
    <3> QED BY <3>1 DEF Versions
  <2>a. ASSUME CommitConn(c) \/ RollbackConn(c) PROVE Versions(q)' \subseteq Versions(q)
    BY <2>a, Here, EndVersions
  <2>1. Versions(q)' \subseteq Versions(q) /\ Origin(q)
    BY <1>0, <2>0, <2>a, Here
  <2>2. CASE q = r
    <3>1. Versions(r)' = {} /\ told'[r] = {}
      BY <1>0, <2>1, <2>2 DEF Versions
    <3>2. \A v \in Workers \ {w} : r \notin job'[v].ids
      BY <1>0, <1>1
    <3>3. \A v \in Workers : ~(job'[v].pc = "sign" /\ r \in job'[v].ids)
      BY <1>1, <3>2
    <3>4. \A v \in Workers : job'[v].pc = "insert" /\ r \in job'[v].ids => v = w
      BY <3>2
    <3> QED BY <2>2, <3>1, <3>2, <3>3, <3>4 DEF Origin
  <2>3. CASE q # r
    <3>1. PICK N : N = {}
      OBVIOUS
    <3>2. /\ Versions(q)' \subseteq Versions(q) \cup N
          /\ \A n \in N : NotOwn(n) /\ \A a \in Versions(q) \cup N : n.by = a.by
          /\ q \notin job'[w].ids
      BY <1>1, <2>1, <2>3, <3>1
    <3> QED BY <1>0, <1>1, <2>1, <3>1, <3>2, OriginKept
  <2> QED BY <2>2, <2>3
<1>4. ASSUME NEW q \in Requests \ mixed' PROVE RowInv(q)'
  <2>1. rows'[q] = rows[q]
    BY <1>0, CommitRow DEF RollbackConn
  <2>2. RowInv(q)
    BY <1>0 DEF IInv, Unmixed, Mixing
  <2> QED BY <1>0, <2>1, <2>2, RowKept
<1>5. CASE CommitConn(c) \/ RollbackConn(c)
  BY <1>0, <1>1, <1>2, <1>3, <1>4, <1>5, StepEnd
<1>6. CASE UNCHANGED <<rows, dirty, lock>>
  <2>1. \A d \in Conns : Frame(d)
    BY <1>6 DEF Frame
  <2>2. WritesLocked'
    BY <1>6, Here DEF WritesLocked
  <2>3. Owned'
    <3> SUFFICES ASSUME NEW d \in Conns, NEW q \in Requests, dirty'[d][q] # Clean
                 PROVE  \E v \in Workers : ConnOf[v] = d /\ Wrote(v)' /\ q \in job'[v].ids
      BY DEF Owned
    <3>1. PICK v \in Workers : ConnOf[v] = d /\ Wrote(v) /\ q \in job[v].ids
      BY <1>6 DEF IInv, Owned
    <3> QED BY <1>0, <1>1, <3>1 DEF Wrote
  <2> QED BY <1>0, <1>1, <1>2, <1>3, <1>4, <2>1, <2>2, <2>3, Assemble
<1> QED BY <1>0, <1>5, <1>6

\* Worker w may put new[r] into the rows r of S, and says it does so for those of ids.
MayWrite(w, S, new, ids) ==
    /\ \A r \in ids : r \in job[w].ids \/ Versions(r) # {}
    /\ \A r \in S : /\ NotOwn(new[r])
                    /\ \A a \in Versions(r) : new[r].by = a.by
                    /\ Versions(r) # {} \/ (job[w].pc = "insert" /\ r \in job[w].ids)

\* In the requests of R every row of S gets its move.
Moves(R, S, new, out, who) == \A r \in R : r \in S /\ Move(rows[r], new[r], out, who, now)

\* What the statements that write have in common; in an unmixed request the write is a
\* move.  base is the row whose applicant the new version keeps.
LEMMA StepWrite ==
  ASSUME IInv, TypeOK', NEW w \in Workers, NEW S \in SUBSET Requests, NEW new,
         NEW out, NEW ids \in SUBSET Requests, NEW who, Mixing(w),
         WriteRows(ConnOf[w], S, new), Goto(w, "commit", out, ids, who),
         told' = told, now' = now, ~Wrote(w), out # "denied", S \subseteq ids,
         MayWrite(w, S, new, ids), Moves(ids \ mixed', S, new, out, who)
  PROVE  IInv'
<1> DEFINE c == ConnOf[w]
<1>1. /\ job'[w] = [pc |-> "commit", out |-> out, ids |-> ids, who |-> who]
      /\ \A v \in Workers \ {w} : job'[v] = job[v]
  BY GotoOnly, Here
<1>2. \A d \in Conns \ {c} : Frame(d)
  BY Here, WriteFrame
<1>3. rows' = rows
  BY DEF WriteRows
<1>4. \A r \in S : lock'[r] = c /\ dirty'[c][r] = new[r]
  BY Here DEF WriteRows, TxType
<1>5. WritesLocked'
  BY Here, WriteLocks
<1>6. Owned'
  <2> SUFFICES ASSUME NEW d \in Conns, NEW r \in Requests, dirty'[d][r] # Clean
               PROVE  \E v \in Workers : ConnOf[v] = d /\ Wrote(v)' /\ r \in job'[v].ids
    BY DEF Owned
  <2>1. CASE d = c /\ r \in S
    BY <1>1, <2>1 DEF Wrote
  <2>2. CASE ~(d = c /\ r \in S)
    <3>1. dirty[d][r] # Clean
      BY <2>2, Here DEF WriteRows, TxType
    <3>2. PICK v \in Workers : ConnOf[v] = d /\ Wrote(v) /\ r \in job[v].ids
      BY <3>1 DEF IInv, Owned
    <3> QED BY <1>1, <3>2 DEF Wrote
  <2> QED BY <2>1, <2>2
<1>7. ASSUME NEW r \in Requests PROVE Origin(r)'
  <2>1. PICK N : N = {new[q] : q \in S \cap {r}}
    OBVIOUS
  <2>2. Versions(r)' \subseteq Versions(r) \cup N /\ Origin(r)
    BY <2>1, Here, WriteVersions
  <2>3. /\ \A n \in N : NotOwn(n) /\ \A a \in Versions(r) \cup N : n.by = a.by
        /\ N # {} => Versions(r) # {} \/ (job[w].pc = "insert" /\ r \in job[w].ids)
    BY <2>1 DEF MayWrite
  <2>4. job'[w].pc = "commit" /\ (r \in job'[w].ids => r \in job[w].ids \/ Versions(r) # {})
    BY <1>1 DEF MayWrite
  <2> QED BY <1>1, <2>2, <2>3, <2>4, OriginKept
<1>8. ASSUME NEW r \in Requests \ mixed' PROVE RowInv(r)'
  <2>1. RowInv(r)
    BY DEF IInv, Unmixed, Mixing
  <2> QED BY <1>3, <2>1, RowKept
<1>9. ASSUME NEW r \in Requests \ mixed', r \in job'[w].ids PROVE JobInv(w, r)'
  <2>1. Move(rows[r], new[r], out, who, now) /\ r \in S
    BY <1>1, <1>9 DEF Moves
  <2>2. lock'[r] = c /\ dirty'[c][r] = new[r] /\ rows'[r] = rows[r]
    BY <1>3, <1>4, <2>1
  <2>3. Move(rows'[r], dirty'[c][r], out, who, now')
    BY <2>1, <2>2
  <2> QED BY <1>1, <2>2, <2>3 DEF JobInv, Wrote
<1>10. Outs(w)'
  BY <1>1 DEF Outs
<1> HIDE DEF c
<1> QED BY <1>1, <1>2, <1>5, <1>6, <1>7, <1>8, <1>9, <1>10, Assemble DEF c

\* What the two SELECT ... FOR UPDATE steps have in common.
LEMMA StepSelect ==
  ASSUME IInv, TypeOK', NEW w \in Workers, NEW r \in Requests,
         NEW pc \in {"commit", "sign", "revoke"}, NEW out, NEW p, NEW row,
         Mixing(w), job[w].pc = "idle", SelectForUpdate(ConnOf[w], r),
         row = View(ConnOf[w], r), row # NoRow,
         Goto(w, pc, out, {r}, p), told' = told, now' = now,
         pc = "commit" => out = "denied",
         pc = "sign" => MaySign(row, out, p),
         pc = "revoke" => out = "revoked" /\ row.state \notin Terminal
  PROVE  IInv'
<1> DEFINE c == ConnOf[w]
<1>1. /\ job'[w] = [pc |-> pc, out |-> out, ids |-> {r}, who |-> p]
      /\ \A v \in Workers \ {w} : job'[v] = job[v]
  BY GotoOnly, Here
<1>2. rows' = rows /\ dirty' = dirty /\ lock'[r] = c
  BY Here DEF SelectForUpdate, TxType
<1>3. ~Wrote(w) /\ ~Wrote(w)'
  BY <1>1 DEF Wrote
<1>4. \A d \in Conns \ {c} : Frame(d)
  BY Here, SelectFrame
<1>5. WritesLocked'
  BY Here, LocksKept
<1>6. Owned'
  <2> SUFFICES ASSUME NEW d \in Conns, NEW q \in Requests, dirty'[d][q] # Clean
               PROVE  \E v \in Workers : ConnOf[v] = d /\ Wrote(v)' /\ q \in job'[v].ids
    BY DEF Owned
  <2>1. PICK v \in Workers : ConnOf[v] = d /\ Wrote(v) /\ q \in job[v].ids
    BY <1>2 DEF IInv, Owned
  <2> QED BY <1>1, <1>3, <2>1 DEF Wrote
<1>7. ASSUME NEW q \in Requests PROVE Origin(q)'
  <2>1. PICK N : N = {}
    OBVIOUS
  <2>2. Versions(q)' \subseteq Versions(q) \cup N /\ Origin(q)
    BY <1>2, Here DEF Versions
  <2>3. \A n \in N : NotOwn(n) /\ \A a \in Versions(q) \cup N : n.by = a.by
    BY <2>1
  <2>4. q \in job'[w].ids => row \in Versions(q) /\ q = r
    BY <1>1, Here, ViewIsVersion
  <2>5. q \in job'[w].ids /\ job'[w].pc = "sign" => \A a \in Versions(q) : a.by # job'[w].who
    BY <1>1, <2>2, <2>4 DEF Origin, MaySign
  <2> QED BY <1>1, <2>1, <2>2, <2>3, <2>4, <2>5, OriginKept
<1>8. ASSUME NEW q \in Requests \ mixed' PROVE RowInv(q)'
  <2>1. RowInv(q)
    BY DEF IInv, Unmixed, Mixing
  <2> QED BY <1>2, <2>1, RowKept
<1>9. ASSUME NEW q \in Requests \ mixed', q \in job'[w].ids PROVE JobInv(w, q)'
  <2>1. q = r /\ InTx(w)'
    BY <1>1, <1>9 DEF InTx
  <2>2. Threads(w) = {}
    BY <1>9, <2>1, NotMixing
  <2>3. rows'[r] = row /\ row # NoRow
    BY <1>2, <1>3, <2>2, Alone
  <2> QED BY <1>1, <1>2, <1>3, <2>1, <2>3 DEF JobInv, MaySign
<1>10. Outs(w)'
  BY <1>1 DEF Outs, MaySign
<1> HIDE DEF c
<1> QED BY <1>1, <1>4, <1>5, <1>6, <1>7, <1>8, <1>9, <1>10, Assemble DEF c

LEMMA StepApproveSelect ==
  ASSUME IInv, TypeOK', NEW w \in Workers, NEW r \in Requests, NEW p \in People,
         NEW t \in Tenants, ApproveSelect(w, r, p, t)
  PROVE  IInv'
<1>1. PICK row : row = View(ConnOf[w], r)
  OBVIOUS
<1>2. PICK out : out = IF row.state = "requested" THEN "first-approved" ELSE "active"
  OBVIOUS
<1>3. /\ job[w].pc = "idle" /\ row # NoRow /\ SelectForUpdate(ConnOf[w], r) /\ Mixing(w)
      /\ told' = told /\ now' = now
      /\ IF SignRefused(row, p, t) THEN Goto(w, "commit", "denied", {r}, p)
                                   ELSE Goto(w, "sign", out, {r}, p)
  BY <1>1, <1>2 DEF ApproveSelect
<1>4. CASE SignRefused(row, p, t)
  BY <1>1, <1>3, <1>4, StepSelect
<1>5. CASE ~SignRefused(row, p, t)
  <2>1. MaySign(row, out, p)
    BY <1>2, <1>5 DEF SignRefused, MaySign
  <2> QED BY <1>1, <1>3, <1>5, <2>1, StepSelect
<1> QED BY <1>4, <1>5

LEMMA StepRevokeSelect ==
  ASSUME IInv, TypeOK', NEW w \in Workers, NEW r \in Requests, NEW p \in People,
         NEW t \in Tenants, RevokeSelect(w, r, p, t)
  PROVE  IInv'
<1>1. PICK row : row = View(ConnOf[w], r)
  OBVIOUS
<1>2. /\ job[w].pc = "idle" /\ row # NoRow /\ SelectForUpdate(ConnOf[w], r) /\ Mixing(w)
      /\ told' = told /\ now' = now
      /\ IF RevokeRefused(row, t) THEN Goto(w, "commit", "denied", {r}, p)
                                  ELSE Goto(w, "revoke", "revoked", {r}, p)
  BY <1>1 DEF RevokeSelect
<1>3. CASE RevokeRefused(row, t)
  <2>1. Goto(w, "commit", "denied", {r}, p)
    BY <1>2, <1>3
  <2> QED BY <1>1, <1>2, <2>1, StepSelect
<1>4. CASE ~RevokeRefused(row, t)
  BY <1>1, <1>2, <1>4, StepSelect DEF RevokeRefused
<1> QED BY <1>3, <1>4

LEMMA StepRequestInsert ==
  ASSUME IInv, TypeOK', NEW w \in Workers, NEW t \in Tenants,
         NEW window \in WindowInputs, RequestInsert(w, t, window)
  PROVE  IInv'
<1> DEFINE new == [r \in Requests |->
                     [tenant |-> t, by |-> job[w].who, state |-> "requested",
                      first |-> Nobody, second |-> Nobody,
                      window |-> ClampWindow(window), expires |-> 0]]
<1>0. job[w].pc = "insert" /\ ~Wrote(w) /\ Mixing(w)
  BY DEF RequestInsert, Wrote
<1>1. \A r \in job[w].ids : Versions(r) = {}
  BY <1>0, Here DEF Origin
<1>2. \A r \in job[w].ids : /\ new[r] \in Row /\ new[r].by = job[w].who /\ job[w].who \in People
                            /\ new[r].state = "requested"
                            /\ new[r].first = Nobody /\ new[r].second = Nobody
  BY <1>0, Here, WindowClamped DEF Row, States
<1>3. \A r \in job[w].ids : NotOwn(new[r])
  BY <1>2, Sentinels DEF NotOwn
<1>4. \A r \in job[w].ids : rows[r] = NoRow
  BY <1>1, Here, Sentinels DEF Versions
<1>5. \A r \in job[w].ids : Move(rows[r], new[r], "requested", job[w].who, now)
  BY <1>2, <1>4 DEF Move
<1>6. /\ WriteRows(ConnOf[w], job[w].ids, new)
      /\ Goto(w, "commit", "requested", job[w].ids, job[w].who)
      /\ told' = told /\ now' = now
  BY DEF RequestInsert
<1>7. \A r \in job[w].ids : \A a \in Versions(r) : new[r].by = a.by
  BY <1>1
<1> HIDE DEF new
<1>8. MayWrite(w, job[w].ids, new, job[w].ids)
  BY <1>0, <1>3, <1>7 DEF MayWrite
<1>9. Moves(job[w].ids \ mixed', job[w].ids, new, "requested", job[w].who)
  BY <1>5 DEF Moves
<1> QED BY <1>0, <1>6, <1>8, <1>9, Here, StepWrite

\* A signature keeps the applicant and the rest of the row.
LEMMA SignedFields ==
  ASSUME NEW row \in Row, NEW p \in People, NEW out, now \in Nat
  PROVE  /\ SignedRow(row, p, out).by = row.by
         /\ row.by # p /\ NotOwn(row) => NotOwn(SignedRow(row, p, out))
         /\ MaySign(row, out, p) => Move(row, SignedRow(row, p, out), out, p, now)
<1> DEFINE new == SignedRow(row, p, out)
<1>0. new \in Row
  BY SignedRowType
<1>1. CASE out = "first-approved"
  <2>1. new = [row EXCEPT !.state = "first-approved", !.first = p]
    BY <1>1 DEF SignedRow
  <2>2. new.by = row.by /\ new.first = p /\ new.second = row.second
    BY <2>1 DEF Row
  <2>3. MaySign(row, out, p) => Move(row, new, out, p, now)
    BY <1>1, <2>1 DEF Move
  <2> QED BY <2>2, <2>3 DEF NotOwn
<1>2. CASE out # "first-approved"
  <2>1. new = [row EXCEPT !.state = "active", !.second = p, !.expires = now + row.window]
    BY <1>2 DEF SignedRow
  <2>2. /\ new.by = row.by /\ new.first = row.first /\ new.second = p
        /\ new.expires = now + row.window
    BY <2>1 DEF Row
  <2>3. MaySign(row, out, p) => out = "active"
    BY <1>2 DEF MaySign
  <2>4. MaySign(row, out, p) => Move(row, new, out, p, now)
    BY <1>0, <2>1, <2>2, <2>3 DEF Move
  <2> QED BY <2>2, <2>4 DEF NotOwn
<1> QED BY <1>1, <1>2

\* What an UPDATE of w finds: its versions, and in an unmixed request the committed row.
LEMMA FoundRows ==
  ASSUME IInv, NEW w \in Workers, Mixing(w), job[w].pc \in {"sign", "revoke"},
         NEW r \in job[w].ids
  PROVE  /\ r \in Found(w) => /\ View(ConnOf[w], r) \in Versions(r) /\ View(ConnOf[w], r) \in Row
                              /\ \A a \in Versions(r) : View(ConnOf[w], r).by = a.by
                              /\ NotOwn(View(ConnOf[w], r))
         /\ r \notin mixed' => /\ r \in Found(w) /\ View(ConnOf[w], r) = rows[r]
                               /\ JobInv(w, r)
<1>0. r \in Requests
  BY Here
<1>1. r \in Found(w) => /\ View(ConnOf[w], r) \in Versions(r) /\ View(ConnOf[w], r) \in Row
                        /\ \A a \in Versions(r) : View(ConnOf[w], r).by = a.by
                        /\ NotOwn(View(ConnOf[w], r))
  BY <1>0, Here, ViewIsVersion DEF Found, Origin
<1>2. ASSUME r \notin mixed' PROVE r \in Found(w) /\ View(ConnOf[w], r) = rows[r] /\ JobInv(w, r)
  <2>1. r \notin mixed /\ JobInv(w, r)
    BY <1>0, <1>2 DEF Mixing, IInv, Unmixed
  <2>2. \A v \in Threads(w) : FALSE
    <3> SUFFICES ASSUME NEW v \in Threads(w) PROVE FALSE
      OBVIOUS
    <3>1. v \in Workers /\ w # v /\ ConnOf[w] = ConnOf[v] /\ InTx(w) /\ InTx(v)
      BY DEF Threads, InTx
    <3>2. r \in mixed
      BY <3>1 DEF IInv, Apart
    <3> QED BY <2>1, <3>2
  <2>3. View(ConnOf[w], r) = rows[r]
    BY <1>0, <2>2, Alone DEF Wrote
  <2>4. rows[r] # NoRow
    BY <2>1 DEF JobInv
  <2> QED BY <2>1, <2>3, <2>4 DEF Found
<1> QED BY <1>1, <1>2

LEMMA StepApproveUpdate ==
  ASSUME IInv, TypeOK', NEW w \in Workers, ApproveUpdate(w)
  PROVE  IInv'
<1> DEFINE j == job[w]
           c == ConnOf[w]
           new == [r \in Found(w) |-> SignedRow(View(c, r), j.who, j.out)]
<1>1. j.pc = "sign" /\ ~Wrote(w) /\ Mixing(w) /\ told' = told /\ now' = now
  BY DEF ApproveUpdate, Wrote
<1>2. j.who \in People /\ j.out # "denied" /\ j.ids \in SUBSET Requests
  BY <1>1, Here DEF Outs
<1>3. \A r \in Found(w) :
        /\ new[r].by = View(c, r).by /\ NotOwn(new[r])
        /\ \A a \in Versions(r) : new[r].by = a.by
        /\ Versions(r) # {}
  <2> SUFFICES ASSUME NEW r \in Found(w)
               PROVE  /\ new[r].by = View(c, r).by /\ NotOwn(new[r])
                      /\ \A a \in Versions(r) : new[r].by = a.by
                      /\ Versions(r) # {}
    OBVIOUS
  <2>0. r \in j.ids /\ r \in Requests
    BY <1>2 DEF Found
  <2>1. /\ View(c, r) \in Versions(r) /\ View(c, r) \in Row /\ NotOwn(View(c, r))
        /\ \A a \in Versions(r) : View(c, r).by = a.by
    BY <1>1, <2>0, FoundRows
  <2>2. View(c, r).by # j.who
    BY <1>1, <2>0, <2>1, Here DEF Origin
  <2> QED BY <1>2, <2>1, <2>2, Here, SignedFields
<1>4. \A r \in j.ids \ mixed' : r \in Found(w) /\ Move(rows[r], new[r], j.out, j.who, now)
  <2> SUFFICES ASSUME NEW r \in j.ids \ mixed'
               PROVE  r \in Found(w) /\ Move(rows[r], new[r], j.out, j.who, now)
    OBVIOUS
  <2>1. r \in Found(w) /\ View(c, r) = rows[r] /\ rows[r] \in Row /\ JobInv(w, r)
    BY <1>1, FoundRows
  <2>2. MaySign(rows[r], j.out, j.who)
    BY <1>1, <2>1 DEF JobInv
  <2> QED BY <1>2, <2>1, <2>2, Here, SignedFields
<1>5. WriteRows(c, Found(w), new) /\ Goto(w, "commit", j.out, j.ids, j.who)
  BY DEF ApproveUpdate
<1>6. Found(w) \subseteq j.ids /\ Found(w) \in SUBSET Requests
  BY <1>2 DEF Found
<1> HIDE DEF new
<1>7. MayWrite(w, Found(w), new, j.ids)
  BY <1>3 DEF MayWrite
<1>8. Moves(j.ids \ mixed', Found(w), new, j.out, j.who)
  BY <1>4 DEF Moves
<1>9. j.out # "denied"
  BY <1>2
<1> HIDE DEF j, c
<1> QED BY <1>1, <1>2, <1>5, <1>6, <1>7, <1>8, <1>9, StepWrite DEF c

LEMMA StepRevokeUpdate ==
  ASSUME IInv, TypeOK', NEW w \in Workers, RevokeUpdate(w)
  PROVE  IInv'
<1> DEFINE j == job[w]
           c == ConnOf[w]
           new == [r \in Found(w) |-> [View(c, r) EXCEPT !.state = "revoked"]]
<1>1. j.pc = "revoke" /\ ~Wrote(w) /\ Mixing(w) /\ told' = told /\ now' = now
  BY DEF RevokeUpdate, Wrote
<1>2. j.ids \in SUBSET Requests
  BY Here
<1>3. \A r \in Found(w) :
        /\ NotOwn(new[r])
        /\ \A a \in Versions(r) : new[r].by = a.by
        /\ Versions(r) # {}
  <2> SUFFICES ASSUME NEW r \in Found(w)
               PROVE  /\ NotOwn(new[r])
                      /\ \A a \in Versions(r) : new[r].by = a.by
                      /\ Versions(r) # {}
    OBVIOUS
  <2>1. /\ View(c, r) \in Versions(r) /\ View(c, r) \in Row /\ NotOwn(View(c, r))
        /\ \A a \in Versions(r) : View(c, r).by = a.by
    BY <1>1, FoundRows DEF Found
  <2> QED BY <2>1 DEF NotOwn, Row
<1>4. \A r \in j.ids \ mixed' : r \in Found(w) /\ Move(rows[r], new[r], "revoked", j.who, now)
  <2> SUFFICES ASSUME NEW r \in j.ids \ mixed'
               PROVE  r \in Found(w) /\ Move(rows[r], new[r], "revoked", j.who, now)
    OBVIOUS
  <2>1. r \in Found(w) /\ View(c, r) = rows[r] /\ rows[r] \in Row /\ JobInv(w, r)
    BY <1>1, FoundRows
  <2> QED BY <1>1, <2>1 DEF JobInv, Move
<1>5. WriteRows(c, Found(w), new) /\ Goto(w, "commit", "revoked", j.ids, j.who)
  BY DEF RevokeUpdate
<1>6. Found(w) \subseteq j.ids /\ Found(w) \in SUBSET Requests
  BY <1>2 DEF Found
<1> HIDE DEF new
<1>7. MayWrite(w, Found(w), new, j.ids)
  BY <1>3 DEF MayWrite
<1>8. Moves(j.ids \ mixed', Found(w), new, "revoked", j.who)
  BY <1>4 DEF Moves
<1>9. "revoked" # "denied"
  BY Zenon
<1> HIDE DEF j, c
<1> QED BY <1>1, <1>2, <1>5, <1>6, <1>7, <1>8, <1>9, StepWrite DEF c

LEMMA StepSweepUpdate ==
  ASSUME IInv, TypeOK', NEW w \in Workers, SweepUpdate(w)
  PROVE  IInv'
<1> DEFINE c == ConnOf[w]
           due == {r \in Requests : View(c, r) # NoRow /\ Overdue(View(c, r))}
           new == [r \in due |-> [View(c, r) EXCEPT !.state = "expired"]]
<1>0. /\ job[w].pc = "idle" /\ ~Wrote(w) /\ Mixing(w) /\ told' = told /\ now' = now
      /\ WriteRows(c, due, new) /\ Goto(w, "commit", "expired", due, Nobody)
  BY DEF SweepUpdate, Wrote
<1>1. \A r \in due :
        /\ NotOwn(new[r])
        /\ \A a \in Versions(r) : new[r].by = a.by
        /\ Versions(r) # {}
  <2> SUFFICES ASSUME NEW r \in due
               PROVE  /\ NotOwn(new[r])
                      /\ \A a \in Versions(r) : new[r].by = a.by
                      /\ Versions(r) # {}
    OBVIOUS
  <2>1. View(c, r) \in Versions(r) /\ View(c, r) \in Row
    BY Here, ViewIsVersion
  <2>2. NotOwn(View(c, r)) /\ \A a \in Versions(r) : View(c, r).by = a.by
    BY <2>1, Here DEF Origin
  <2> QED BY <2>1, <2>2 DEF NotOwn, Row
<1>2. \A r \in due \ mixed' : r \in due /\ Move(rows[r], new[r], "expired", Nobody, now)
  <2> SUFFICES ASSUME NEW r \in due \ mixed'
               PROVE  Move(rows[r], new[r], "expired", Nobody, now)
    OBVIOUS
  <2>0. job'[w].ids = due /\ job'[w].pc = "commit"
    BY <1>0, Here DEF Goto
  <2>1. r \in job'[w].ids /\ InTx(w)'
    BY <2>0 DEF InTx
  <2>2. Threads(w) = {}
    BY <1>0, <2>1, NotMixing
  <2>3. View(c, r) = rows[r] /\ rows[r] \in Row /\ Overdue(rows[r])
    BY <1>0, <2>2, Alone, Here
  <2> QED BY <2>3 DEF Move, Overdue
<1>3. due \in SUBSET Requests
  OBVIOUS
<1>4. WriteRows(ConnOf[w], due, new)
  BY <1>0
<1> HIDE DEF new, due, c
<1>5. MayWrite(w, due, new, due)
  BY <1>1 DEF MayWrite
<1>6. Moves(due \ mixed', due, new, "expired", Nobody)
  BY <1>2 DEF Moves
<1> QED BY <1>0, <1>3, <1>4, <1>5, <1>6, StepWrite

LEMMA StepCrash ==
  ASSUME IInv, TypeOK', NEW c \in Conns, Crash(c)
  PROVE  IInv'
<1>0. /\ TypeOK /\ TxType /\ WritesLocked /\ RollbackConn(c) /\ rows' = rows
      /\ told' = told /\ now' = now /\ mixed' = mixed /\ now \in Nat
  BY DEF IInv, TypeOK, TxType, Crash, RollbackConn
<1>1. \A v \in Workers : job'[v] = IF ConnOf[v] = c THEN Idle ELSE job[v]
  BY DEF Crash
<1>2. WritesLocked'
  BY <1>0, LocksKept
<1>3. Owned'
  <2> SUFFICES ASSUME NEW d \in Conns, NEW r \in Requests, dirty'[d][r] # Clean
               PROVE  \E v \in Workers : ConnOf[v] = d /\ Wrote(v)' /\ r \in job'[v].ids
    BY DEF Owned
  <2>1. d # c /\ dirty[d][r] # Clean
    BY <1>0 DEF TxType, RollbackConn, AllClean
  <2>2. PICK v \in Workers : ConnOf[v] = d /\ Wrote(v) /\ r \in job[v].ids
    BY <2>1 DEF IInv, Owned
  <2> QED BY <1>1, <2>1, <2>2 DEF Wrote
<1>4. \A v \in Workers : InTx(v)' => job'[v] = job[v]
  BY <1>1 DEF InTx, Idle
<1>5. Apart'
  BY <1>0, <1>4 DEF IInv, Apart, InTx
<1>6. \A v \in Workers : Outs(v)'
  BY <1>1 DEF IInv, Outs, Idle
<1>7. ASSUME NEW r \in Requests PROVE Origin(r)'
  <2>1. Versions(r)' \subseteq Versions(r) /\ Origin(r)
    BY <1>0, EndVersions DEF IInv
  <2> QED BY <1>0, <1>1, <2>1, OriginShrinks
<1>8. ASSUME NEW r \in Requests \ mixed' PROVE Unmixed(r)'
  <2>1. Unmixed(r)
    BY <1>0 DEF IInv
  <2>2. RowInv(r)'
    BY <1>0, <2>1, RowKept DEF Unmixed
  <2>3. ASSUME NEW v \in Workers, r \in job'[v].ids PROVE JobInv(v, r)'
    <3>1. ConnOf[v] # c /\ job'[v] = job[v]
      BY <1>1, <2>3 DEF Idle
    <3>2. ConnOf[v] \in Conns \ {c} /\ JobInv(v, r)
      BY <2>1, <2>3, <3>1, ConnOfType DEF Unmixed
    <3>3. Frame(ConnOf[v])
      BY <1>0, <3>2, RollbackFrame
    <3> QED BY <1>0, <3>1, <3>2, <3>3, JobFramed
  <2> QED BY <2>2, <2>3 DEF Unmixed
<1> QED BY <1>2, <1>3, <1>5, <1>6, <1>7, <1>8 DEF IInv

\* The clock moves, or nothing does.
LEMMA StepTick ==
  ASSUME IInv, TypeOK', Tick \/ UNCHANGED vars
  PROVE  IInv'
<1>0. /\ TypeOK /\ rows' = rows /\ dirty' = dirty /\ lock' = lock /\ job' = job
      /\ told' = told /\ mixed' = mixed /\ now <= now'
  BY DEF IInv, TypeOK, Tick, vars
<1>1. WritesLocked' /\ Owned' /\ Apart' /\ \A v \in Workers : Outs(v)'
  BY <1>0 DEF IInv, WritesLocked, Owned, Apart, InTx, Outs, Wrote
<1>2. \A r \in Requests : Origin(r)'
  <2> SUFFICES ASSUME NEW r \in Requests PROVE Origin(r)'
    OBVIOUS
  <2>1. Versions(r)' = Versions(r) /\ Origin(r)
    BY <1>0 DEF IInv, Versions
  <2> QED BY <1>0, <2>1, OriginShrinks
<1>3. ASSUME NEW r \in Requests \ mixed' PROVE Unmixed(r)'
  <2>1. Unmixed(r)
    BY <1>0 DEF IInv
  <2>2. RowInv(r)'
    BY <1>0, <2>1, RowKept DEF Unmixed
  <2>3. ASSUME NEW v \in Workers, r \in job'[v].ids PROVE JobInv(v, r)'
    <3>1. JobInv(v, r) /\ job'[v] = job[v] /\ Frame(ConnOf[v])
      BY <1>0, <2>1, <2>3 DEF Unmixed, Frame
    <3> QED BY <1>0, <3>1, JobFramed
  <2> QED BY <2>2, <2>3 DEF Unmixed
<1> QED BY <1>1, <1>2, <1>3 DEF IInv

LEMMA IStep ==
  ASSUME IInv, [Next]_vars
  PROVE  IInv'
<1>0. TypeOK'
  BY TypeStep DEF IInv
<1>1. ASSUME NEW w \in Workers, NEW r \in Requests, Emit(w, r) \/ EmitLost(w, r)
      PROVE  IInv'
  <2>1. ~Wrote(w) /\ Mixing(w) /\ r \in job[w].ids
        /\ (CommitConn(ConnOf[w]) \/ RollbackConn(ConnOf[w]))
    BY <1>1 DEF Emit, EmitLost, Wrote
  <2>2. AfterEmit(w, r) /\ told' = told /\ now' = now
    BY <1>1 DEF Emit, EmitLost
  <2>3. /\ \A v \in Workers \ {w} : job'[v] = job[v]
        /\ job'[w].pc \in {"idle", "emit"} /\ job'[w].ids \subseteq job[w].ids
    BY <2>2, Here DEF AfterEmit, Goto
  <2>4. ~InTx(w)' /\ job'[w].pc # "insert"
    BY <2>3 DEF InTx
  <2> QED BY <1>0, <2>1, <2>2, <2>3, <2>4, StepQuietEnd
<1>2. ASSUME NEW w \in Workers, Fail(w)
      PROVE  IInv'
  <2>1. /\ RollbackConn(ConnOf[w]) /\ Mixing(w) /\ told' = told /\ now' = now
        /\ \A v \in Workers \ {w} : job'[v] = job[v]
        /\ job'[w].pc = "idle" /\ job'[w].ids = {}
    BY <1>2, Here DEF Fail, Goto
  <2>2. ~InTx(w)'
    BY <2>1 DEF InTx
  <2> QED BY <1>0, <2>1, <2>2, StepQuietEnd
<1>3. ASSUME NEW w \in Workers, ReadOnly(w)
      PROVE  IInv'
  <2>1. /\ CommitConn(ConnOf[w]) /\ Mixing(w) /\ told' = told /\ now' = now /\ job' = job
        /\ job[w].pc = "idle"
    BY <1>3 DEF ReadOnly
  <2>2. ~InTx(w)' /\ ~Wrote(w)
    BY <2>1 DEF InTx, Wrote
  <2> QED BY <1>0, <2>1, <2>2, StepQuietEnd
<1> QED
  BY <1>0, <1>1, <1>2, <1>3, StepTick, StepRequestStart, StepRequestInsert,
     StepApproveSelect, StepApproveUpdate, StepRevokeSelect, StepRevokeUpdate,
     StepSweepUpdate, StepCommit, StepCrash
  DEF Next, Continue

LEMMA Inductive == Spec => []IInv
<1>1. IInv /\ [Next]_vars => IInv'
  BY IStep
<1> QED BY <1>1, IInit, PTL DEF Spec

-----------------------------------------------------------------------------
(* The audit log says nothing that was not reported. *)

LogInv ==
    /\ \A r \in Requests : audit[r] \subseteq told[r]
    /\ \A w \in Workers : job[w].pc = "emit" =>
         \A r \in job[w].ids : <<job[w].out, job[w].who>> \in told[r]

LEMMA LogKept ==
  ASSUME TypeOK, LogInv, NEW w \in Workers,
         \A v \in Workers \ {w} : job'[v] = job[v],
         \A r \in Requests : told[r] \subseteq told'[r] /\ audit'[r] \subseteq told'[r],
         job'[w].pc = "emit" => \A r \in job'[w].ids : <<job'[w].out, job'[w].who>> \in told'[r]
  PROVE  LogInv'
  BY DEF TypeOK, Job, LogInv

LEMMA LogStep ==
  ASSUME TypeOK, LogInv, [Next]_vars
  PROVE  LogInv'
<1>0. /\ job \in [Workers -> Job]
      /\ \A r \in Requests : audit[r] \subseteq told[r]
      /\ \A w \in Workers : job[w].ids \subseteq Requests
  BY DEF TypeOK, LogInv, Job
<1>1. ASSUME NEW w \in Workers, NEW pc, NEW out, NEW ids, NEW who,
             Goto(w, pc, out, ids, who), pc # "emit", told' = told, audit' = audit
      PROVE  LogInv'
  <2>1. job'[w].pc # "emit" /\ \A v \in Workers \ {w} : job'[v] = job[v]
    BY <1>0, <1>1 DEF Goto
  <2> QED BY <1>0, <1>1, <2>1, LogKept
<1>2. ASSUME NEW w \in Workers, NEW r \in Requests, NEW p \in People, RequestStart(w, r, p)
      PROVE  LogInv'
  BY <1>1, <1>2 DEF RequestStart
<1>3. ASSUME NEW w \in Workers, NEW r \in Requests, NEW p \in People, NEW t \in Tenants,
             ApproveSelect(w, r, p, t) \/ RevokeSelect(w, r, p, t)
      PROVE  LogInv'
  <2>1. PICK pc, out : pc # "emit" /\ Goto(w, pc, out, {r}, p)
    BY <1>3 DEF ApproveSelect, RevokeSelect
  <2> QED BY <1>1, <1>3, <2>1 DEF ApproveSelect, RevokeSelect
<1>4. ASSUME NEW w \in Workers, NEW t \in Tenants, NEW window \in WindowInputs,
             RequestInsert(w, t, window)
      PROVE  LogInv'
  BY <1>1, <1>4 DEF RequestInsert
<1>5. ASSUME NEW w \in Workers, ApproveUpdate(w) \/ RevokeUpdate(w)
      PROVE  LogInv'
  <2>1. PICK out : Goto(w, "commit", out, job[w].ids, job[w].who)
    BY <1>5 DEF ApproveUpdate, RevokeUpdate
  <2> QED BY <1>1, <1>5, <2>1 DEF ApproveUpdate, RevokeUpdate
<1>6. ASSUME NEW w \in Workers, SweepUpdate(w)
      PROVE  LogInv'
  <2>1. PICK ids : Goto(w, "commit", "expired", ids, Nobody)
    BY <1>6 DEF SweepUpdate
  <2> QED BY <1>1, <1>6, <2>1 DEF SweepUpdate
<1>7. ASSUME NEW w \in Workers, Commit(w)
      PROVE  LogInv'
  <2>1. CASE job[w].out = "denied"
    BY <1>1, <1>7, <2>1 DEF Commit
  <2>2. CASE job[w].out # "denied"
    <3>1. /\ Goto(w, "emit", job[w].out, job[w].ids, job[w].who)
          /\ Report(job[w].ids, job[w].out, job[w].who) /\ audit' = audit
      BY <1>7, <2>2 DEF Commit
    <3>2. /\ job'[w] = [pc |-> "emit", out |-> job[w].out, ids |-> job[w].ids, who |-> job[w].who]
          /\ \A v \in Workers \ {w} : job'[v] = job[v]
      BY <1>0, <3>1 DEF Goto
    <3>3. /\ \A r \in Requests : told[r] \subseteq told'[r]
          /\ \A r \in job[w].ids : <<job[w].out, job[w].who>> \in told'[r]
      BY <1>0, <3>1 DEF Report
    <3> QED BY <1>0, <3>1, <3>2, <3>3, LogKept
  <2> QED BY <2>1, <2>2
<1>8. ASSUME NEW w \in Workers, NEW r \in Requests, Emit(w, r) \/ EmitLost(w, r)
      PROVE  LogInv'
  <2>1. /\ AfterEmit(w, r) /\ told' = told
        /\ \A q \in job[w].ids : <<job[w].out, job[w].who>> \in told[q]
    BY <1>8 DEF Emit, EmitLost, LogInv
  <2>2. \A q \in Requests : audit'[q] \subseteq told'[q]
    <3>1. CASE EmitLost(w, r)
      BY <1>0, <2>1, <3>1 DEF EmitLost
    <3>2. CASE Emit(w, r)
      <4>1. audit' = [audit EXCEPT ![r] = audit[r] \cup {<<job[w].out, job[w].who>>}]
            /\ r \in job[w].ids
        BY <3>2 DEF Emit
      <4>2. <<job[w].out, job[w].who>> \in told[r]
        BY <2>1, <4>1
      <4>3. audit'[r] = audit[r] \cup {<<job[w].out, job[w].who>>}
            /\ \A q \in Requests \ {r} : audit'[q] = audit[q]
        BY <4>1 DEF TypeOK
      <4> QED BY <1>0, <2>1, <4>2, <4>3
    <3> QED BY <1>8, <3>1, <3>2
  <2>3. /\ \A v \in Workers \ {w} : job'[v] = job[v]
        /\ job'[w].pc = "emit" =>
             \A q \in job'[w].ids : <<job'[w].out, job'[w].who>> \in told'[q]
    BY <1>0, <2>1 DEF AfterEmit, Goto
  <2> QED BY <2>1, <2>2, <2>3, LogKept
<1>9. ASSUME NEW w \in Workers, Fail(w)
      PROVE  LogInv'
  BY <1>1, <1>9 DEF Fail
<1>10. ASSUME NEW c \in Conns, Crash(c)
       PROVE  LogInv'
  BY <1>10 DEF Crash, Idle, LogInv
<1>11. CASE Tick \/ UNCHANGED vars \/ \E w \in Workers : ReadOnly(w)
  BY <1>11 DEF Tick, vars, ReadOnly, LogInv
<1> QED
  BY <1>2, <1>3, <1>4, <1>5, <1>6, <1>7, <1>8, <1>9, <1>10, <1>11 DEF Next, Continue

-----------------------------------------------------------------------------
(* The theorems. *)

\* However the threads of a process share its connection, no reachable row was signed by
\* its own applicant, and none whose calls were not mixed is or has been active with fewer
\* than two signatures.
THEOREM TwoPersonControlHolds == Spec => []TwoPersonControl
<1>1. IInv => TwoPersonControl
  <2> SUFFICES ASSUME IInv, NEW r \in Requests, rows[r] # NoRow
               PROVE  /\ rows[r].by \notin {rows[r].first, rows[r].second}
                      /\ r \in mixed \/ WellSigned(rows[r])
    BY DEF TwoPersonControl
  <2>1. rows[r] \in Row
    BY DEF IInv, TypeOK
  <2>2. rows[r] \in Versions(r)
    BY <2>1, Sentinels DEF Versions
  <2>3. NotOwn(rows[r])
    BY <2>2 DEF IInv, Origin
  <2>4. r \in mixed \/ WellSigned(rows[r])
    BY DEF IInv, Unmixed, RowInv
  <2> QED BY <2>3, <2>4 DEF NotOwn
<1> QED BY <1>1, Inductive, PTL

\* No call about a request that was never mixed is contradicted by what the row, or the
\* audit log, says later.
THEOREM AnswersKeptHolds == Spec => []AnswersKept
<1>1. Init => LogInv
  BY DEF Init, Idle, LogInv
<1>2. IInv /\ LogInv /\ [Next]_vars => IInv' /\ LogInv'
  BY IStep, LogStep DEF IInv
<1>3. IInv /\ LogInv => AnswersKept
  <2> SUFFICES ASSUME IInv, LogInv, NEW r \in Requests \ mixed PROVE
                 \A a \in told[r] \cup audit[r] : Report1(rows[r], a)
    BY DEF AnswersKept, Report1
  <2>1. audit[r] \subseteq told[r]
    BY DEF LogInv
  <2>2. Reported(r)
    BY DEF IInv, Unmixed, RowInv
  <2> QED BY <2>1, <2>2 DEF Reported, Report1
<1> QED BY <1>1, <1>2, <1>3, IInit, PTL DEF Spec

-----------------------------------------------------------------------------
(* How the committed rows of unmixed requests change: only by the commit of one
   transaction, whose changes are all moves with that transaction's outcome. *)

Moved(R, ids, out, who) ==
    \A r \in R : IF r \in ids THEN Move(rows[r], rows'[r], out, who, now)
                 ELSE rows'[r] = rows[r]

LEMMA RowsMove ==
  ASSUME IInv, [Next]_vars
  PROVE  \/ \A r \in Requests \ mixed' : rows'[r] = rows[r]
         \/ \E w \in Workers : /\ Commit(w) /\ Wrote(w) /\ job[w].ids \subseteq Requests
                               /\ Moved(Requests \ mixed', job[w].ids, job[w].out, job[w].who)
<1>1. ASSUME NEW w \in Workers, Mixing(w), CommitConn(ConnOf[w]), ~Wrote(w)
      PROVE  \A r \in Requests \ mixed' : rows'[r] = rows[r]
  BY <1>1, CommitRow
<1>2. ASSUME NEW w \in Workers, NEW r \in Requests, NEW p \in People, RequestStart(w, r, p)
      PROVE  \A q \in Requests \ mixed' : rows'[q] = rows[q]
  <2>1. Mixing(w) /\ ~Wrote(w)
    BY <1>2 DEF RequestStart, Wrote
  <2>2. CommitConn(ConnOf[w]) \/ rows' = rows
    BY <1>2 DEF RequestStart, RollbackConn
  <2> QED BY <1>1, <2>1, <2>2
<1>3. ASSUME NEW w \in Workers, NEW r \in Requests, Emit(w, r) \/ EmitLost(w, r)
      PROVE  \A q \in Requests \ mixed' : rows'[q] = rows[q]
  <2>1. Mixing(w) /\ ~Wrote(w) /\ (CommitConn(ConnOf[w]) \/ rows' = rows)
    BY <1>3 DEF Emit, EmitLost, Wrote, RollbackConn
  <2> QED BY <1>1, <2>1
<1>4. ASSUME NEW w \in Workers, ReadOnly(w)
      PROVE  \A q \in Requests \ mixed' : rows'[q] = rows[q]
  BY <1>1, <1>4 DEF ReadOnly, Wrote
<1>5. ASSUME NEW w \in Workers, Commit(w)
      PROVE  \/ \A r \in Requests \ mixed' : rows'[r] = rows[r]
             \/ /\ Commit(w) /\ Wrote(w) /\ job[w].ids \subseteq Requests
                /\ Moved(Requests \ mixed', job[w].ids, job[w].out, job[w].who)
  <2>1. Mixing(w) /\ CommitConn(ConnOf[w]) /\ job[w].ids \subseteq Requests
    BY <1>5, Here DEF Commit
  <2>2. CASE Wrote(w)
    BY <1>5, <2>1, <2>2, CommitRow DEF Moved
  <2>3. CASE ~Wrote(w)
    BY <1>1, <2>1, <2>3
  <2> QED BY <2>2, <2>3
<1>6. ASSUME NEW w \in Workers, NEW r \in Requests, NEW p \in People, NEW t \in Tenants,
             ApproveSelect(w, r, p, t) \/ RevokeSelect(w, r, p, t)
      PROVE  rows' = rows
  BY <1>6 DEF ApproveSelect, RevokeSelect, SelectForUpdate
<1>7. ASSUME NEW w \in Workers, ApproveUpdate(w) \/ RevokeUpdate(w) \/ SweepUpdate(w) \/ Fail(w)
      PROVE  rows' = rows
  BY <1>7 DEF ApproveUpdate, RevokeUpdate, SweepUpdate, WriteRows, Fail, RollbackConn
<1>8. ASSUME NEW w \in Workers, NEW t \in Tenants, NEW window \in WindowInputs,
             RequestInsert(w, t, window)
      PROVE  rows' = rows
  BY <1>8 DEF RequestInsert, WriteRows
<1>9. ASSUME NEW c \in Conns, Crash(c)
      PROVE  rows' = rows
  BY <1>9 DEF Crash, RollbackConn
<1>10. CASE Tick \/ UNCHANGED vars
  BY <1>10 DEF Tick, vars
<1> QED
  BY <1>2, <1>3, <1>4, <1>5, <1>6, <1>7, <1>8, <1>9, <1>10 DEF Next, Continue

\* A revoked or expired request that was not mixed never changes again: its row may have
\* been read by any number of calls before, each of which finds it terminal under the row
\* lock.
THEOREM TerminalIsFinalHolds == Spec => TerminalIsFinal
<1>1. IInv /\ [Next]_vars =>
        [\A r \in Requests :
           rows[r] # NoRow /\ rows[r].state \in Terminal /\ r \notin mixed'
             => rows'[r] = rows[r]]_rows
  <2> SUFFICES ASSUME IInv, [Next]_vars, NEW r \in Requests,
                      rows[r] # NoRow, rows[r].state \in Terminal, r \notin mixed'
               PROVE  rows'[r] = rows[r]
    OBVIOUS
  <2> QED BY RowsMove DEF Moved, Move, MaySign, Terminal
<1> QED BY <1>1, Inductive, PTL DEF Spec, TerminalIsFinal

\* No grant that was not mixed expires before its time, and only an active one does.
THEOREM ExpiresWhenDueHolds == Spec => ExpiresWhenDue
<1>1. IInv /\ [Next]_vars =>
        [\A r \in Requests :
           (/\ rows[r] # NoRow /\ r \notin mixed'
            /\ rows'[r].state = "expired" /\ rows[r].state # "expired")
             => /\ rows[r].state = "active"
                /\ rows[r].expires < now]_rows
  <2> SUFFICES ASSUME IInv, [Next]_vars, NEW r \in Requests, rows[r] # NoRow, r \notin mixed',
                      rows'[r].state = "expired", rows[r].state # "expired"
               PROVE  rows[r].state = "active" /\ rows[r].expires < now
    OBVIOUS
  <2>1. PICK w \in Workers : Moved(Requests \ mixed', job[w].ids, job[w].out, job[w].who)
    BY RowsMove
  <2>2. Move(rows[r], rows'[r], job[w].out, job[w].who, now)
    BY <2>1 DEF Moved
  <2>3. rows[r] \in Row
    BY DEF IInv, TypeOK
  <2> QED BY <2>2, <2>3 DEF Move, Row
<1> QED BY <1>1, Inductive, PTL DEF Spec, ExpiresWhenDue

-----------------------------------------------------------------------------
(* Refinement: the committed rows implement TwoPersonGrant. *)

\* Only a sweep works on more than one request.
Swept(pc, out) == pc \notin {"insert", "revoke"} /\ out \in {"denied", "expired"}
Singles == \A w \in Workers :
             Swept(job[w].pc, job[w].out) \/ \E r \in Requests : job[w].ids = {r}

LEMMA SinglesGoto ==
  ASSUME TypeOK, Singles, NEW w \in Workers, NEW pc, NEW out, NEW ids, NEW who,
         Goto(w, pc, out, ids, who),
         Swept(pc, out) \/ \E r \in Requests : ids = {r}
  PROVE  Singles'
<1>1. /\ job'[w].pc = pc /\ job'[w].out = out /\ job'[w].ids = ids
      /\ \A v \in Workers \ {w} : job'[v] = job[v]
  BY DEF TypeOK, Goto
<1>2. Swept(job'[w].pc, job'[w].out) \/ \E r \in Requests : job'[w].ids = {r}
  BY <1>1
<1>3. \A v \in Workers \ {w} :
        Swept(job'[v].pc, job'[v].out) \/ \E r \in Requests : job'[v].ids = {r}
  BY <1>1 DEF Singles
<1> QED BY <1>2, <1>3 DEF Singles, Swept

LEMMA SinglesStep ==
  ASSUME TypeOK, Singles, [Next]_vars
  PROVE  Singles'
<1>0. \A w \in Workers :
        Swept(job[w].pc, job[w].out) \/ \E r \in Requests : job[w].ids = {r}
  BY DEF Singles
<1>1. ASSUME NEW w \in Workers, NEW r \in Requests, NEW p \in People,
             RequestStart(w, r, p)
      PROVE  Singles'
  BY <1>1, SinglesGoto DEF RequestStart
<1>2. ASSUME NEW w \in Workers, NEW r \in Requests, NEW p \in People, NEW t \in Tenants,
             ApproveSelect(w, r, p, t) \/ RevokeSelect(w, r, p, t)
      PROVE  Singles'
  <2>1. PICK pc, out : Goto(w, pc, out, {r}, p)
    BY <1>2 DEF ApproveSelect, RevokeSelect
  <2> QED BY <2>1, SinglesGoto
<1>3. ASSUME NEW w \in Workers, NEW t \in Tenants, NEW window \in WindowInputs,
             RequestInsert(w, t, window)
      PROVE  Singles'
  <2>1. Goto(w, "commit", "requested", job[w].ids, job[w].who)
        /\ \E r \in Requests : job[w].ids = {r}
    BY <1>0, <1>3 DEF RequestInsert, Swept
  <2> QED BY <2>1, SinglesGoto
<1>4. ASSUME NEW w \in Workers, ApproveUpdate(w)
      PROVE  Singles'
  <2>1. Goto(w, "commit", job[w].out, job[w].ids, job[w].who)
        /\ (Swept("commit", job[w].out) \/ \E r \in Requests : job[w].ids = {r})
    BY <1>0, <1>4 DEF ApproveUpdate, Swept
  <2> QED BY <2>1, SinglesGoto
<1>5. ASSUME NEW w \in Workers, RevokeUpdate(w)
      PROVE  Singles'
  <2>1. Goto(w, "commit", "revoked", job[w].ids, job[w].who)
        /\ \E r \in Requests : job[w].ids = {r}
    BY <1>0, <1>5 DEF RevokeUpdate, Swept
  <2> QED BY <2>1, SinglesGoto
<1>6. ASSUME NEW w \in Workers, SweepUpdate(w)
      PROVE  Singles'
  <2>1. PICK ids : Goto(w, "commit", "expired", ids, Nobody)
    BY <1>6 DEF SweepUpdate
  <2> QED BY <2>1, SinglesGoto DEF Swept
<1>7. ASSUME NEW w \in Workers, Commit(w)
      PROVE  Singles'
  <2>1. CASE job[w].out = "denied"
    <3>1. Goto(w, "idle", "denied", {}, Nobody)
      BY <1>7, <2>1 DEF Commit
    <3> QED BY <3>1, SinglesGoto DEF Swept
  <2>2. CASE job[w].out # "denied"
    <3>1. Goto(w, "emit", job[w].out, job[w].ids, job[w].who)
          /\ (Swept("emit", job[w].out) \/ \E r \in Requests : job[w].ids = {r})
      BY <1>0, <1>7, <2>2 DEF Commit, Swept
    <3> QED BY <3>1, SinglesGoto
  <2> QED BY <2>1, <2>2
<1>8. ASSUME NEW w \in Workers, NEW r \in Requests, Emit(w, r) \/ EmitLost(w, r)
      PROVE  Singles'
  <2>1. AfterEmit(w, r) /\ r \in job[w].ids
    BY <1>8 DEF Emit, EmitLost
  <2>2. CASE job[w].ids = {r}
    <3>1. Goto(w, "idle", "denied", {}, Nobody)
      BY <2>1, <2>2 DEF AfterEmit
    <3> QED BY <3>1, SinglesGoto DEF Swept
  <2>3. CASE job[w].ids # {r}
    <3>1. Goto(w, "emit", job[w].out, job[w].ids \ {r}, job[w].who)
          /\ Swept("emit", job[w].out)
      BY <1>0, <2>1, <2>3 DEF AfterEmit, Swept
    <3> QED BY <3>1, SinglesGoto
  <2> QED BY <2>2, <2>3
<1>9. ASSUME NEW w \in Workers, Fail(w)
      PROVE  Singles'
  BY <1>9, SinglesGoto DEF Fail, Swept
<1>10. ASSUME NEW c \in Conns, Crash(c)
       PROVE  Singles'
  BY <1>10 DEF Crash, Idle, Singles, Swept, TypeOK
<1>11. CASE Tick \/ UNCHANGED vars \/ \E w \in Workers : ReadOnly(w)
  BY <1>11 DEF Tick, vars, ReadOnly, Singles, Swept
<1> QED
  BY <1>1, <1>2, <1>3, <1>4, <1>5, <1>6, <1>7, <1>8, <1>9, <1>10, <1>11 DEF Next, Continue

\* What a move does to the abstract values of its row.
Maps(old, new, out, p) ==
    /\ out = "requested" =>
         /\ p \in People /\ Phase(old) = "none" /\ Phase(new) = "open"
         /\ ApplicantOf(new) = p /\ SignersOf(new) = SignersOf(old)
    /\ out # "requested" => ApplicantOf(new) = ApplicantOf(old)
    /\ out = "first-approved" =>
         /\ p \in People /\ p # ApplicantOf(old) /\ Phase(old) = "open" /\ Phase(new) = "open"
         /\ SignersOf(old) = {} /\ SignersOf(new) = {p}
    /\ out = "active" =>
         /\ p \in People /\ p # ApplicantOf(old) /\ Phase(old) = "open" /\ Phase(new) = "live"
         /\ \E q \in People \ {p} : SignersOf(old) = {q}
         /\ SignersOf(new) = SignersOf(old) \cup {p}
    /\ out = "revoked" =>
         /\ Phase(old) \in {"open", "live"} /\ Phase(new) = "closed"
         /\ SignersOf(new) = SignersOf(old)
    /\ out = "expired" =>
         /\ Phase(old) = "live" /\ Phase(new) = "closed"
         /\ SignersOf(new) = SignersOf(old)
    /\ out \in {"requested", "first-approved", "active", "revoked", "expired"}

LEMMA MoveMaps ==
  ASSUME NEW old \in Row \cup {NoRow}, NEW new, NEW out, NEW p, NEW t,
         old # NoRow => WellSigned(old), Move(old, new, out, p, t)
  PROVE  Maps(old, new, out, p)
<1>0. new # NoRow /\ new \in Row
  BY MoveReported, Sentinels
<1>1. CASE out = "requested"
  BY <1>0, <1>1, Sentinels DEF Move, Phase, ApplicantOf, SignersOf, Maps
<1>2. CASE out = "first-approved"
  <2>1. old \in Row /\ MaySign(old, out, p) /\ new = [old EXCEPT !.state = "first-approved", !.first = p]
    BY <1>2 DEF Move
  <2>2. /\ new.by = old.by /\ new.first = p /\ new.second = old.second
        /\ new.state = "first-approved" /\ old.state = "requested" /\ old # NoRow
        /\ old.first = Nobody /\ old.second = Nobody /\ p \in People /\ p # old.by
    BY <1>2, <2>1, Sentinels DEF Row, MaySign, WellSigned
  <2> QED BY <1>0, <1>2, <2>2, Sentinels DEF Phase, ApplicantOf, SignersOf, Maps
<1>3. CASE out = "active"
  <2>1. /\ old \in Row /\ MaySign(old, out, p)
        /\ new = [old EXCEPT !.state = "active", !.second = p, !.expires = new.expires]
    BY <1>3 DEF Move
  <2>2. /\ new.by = old.by /\ new.first = old.first /\ new.second = p
        /\ new.state = "active" /\ old.state = "first-approved" /\ old # NoRow
        /\ old.first \in People /\ old.second = Nobody /\ p \in People /\ p # old.by
        /\ p # old.first
    BY <1>3, <2>1, Sentinels DEF Row, MaySign, WellSigned
  <2> QED BY <1>0, <1>3, <2>2, Sentinels DEF Phase, ApplicantOf, SignersOf, Maps
<1>4. CASE out \in {"revoked", "expired"}
  <2>1. /\ old \in Row /\ old.state \notin Terminal
        /\ new = [old EXCEPT !.state = out]
        /\ out = "expired" => old.state = "active"
    BY <1>4 DEF Move, Terminal
  <2>2. /\ new.by = old.by /\ new.first = old.first /\ new.second = old.second
        /\ new.state = out /\ old # NoRow
    BY <2>1, Sentinels DEF Row
  <2>3. Phase(new) = "closed" /\ Phase(old) \in {"open", "live"}
        /\ (out = "expired" => Phase(old) = "live")
    BY <1>0, <1>4, <2>1, <2>2 DEF Phase, Row, States, Terminal
  <2> QED BY <1>0, <1>4, <2>2, <2>3 DEF ApplicantOf, SignersOf, Maps
<1> QED BY <1>1, <1>2, <1>3, <1>4 DEF Move

LEMMA MapInit == Init => Grant!Init
  BY Sentinels DEF Init, TxInit, Grant!Init, Phase, ApplicantOf, SignersOf

\* The abstract values of request r.
PhaseAt(r) == IF r \in mixed THEN "void" ELSE Phase(rows[r])
ApplicantAt(r) == IF r \in mixed THEN Nobody ELSE ApplicantOf(rows[r])
SignersAt(r) == IF r \in mixed THEN {} ELSE SignersOf(rows[r])

\* A step that leaves the abstract values of all requests alone is a stutter.
LEMMA Stutters ==
  ASSUME \A r \in Requests : PhaseAt(r)' = PhaseAt(r) /\ ApplicantAt(r)' = ApplicantAt(r)
                             /\ SignersAt(r)' = SignersAt(r)
  PROVE  [Grant!Next]_(Grant!grantVars)
  BY DEF Grant!grantVars, PhaseAt, ApplicantAt, SignersAt

LEMMA OfOnePerson ==
  ASSUME NEW g \in Requests, NEW p \in People,
         Grant!Open(g, p) \/ Grant!FirstSign(g, p) \/ Grant!SecondSign(g, p)
  PROVE  Grant!Next
  BY DEF Grant!Next

LEMMA OfMany ==
  ASSUME NEW G \in SUBSET Requests, Grant!Close(G) \/ Grant!Void(G)
  PROVE  Grant!Next
  BY DEF Grant!Next

\* A step by which requests become mixed changes no other row.
LEMMA VoidStep ==
  ASSUME IInv, [Next]_vars, mixed' # mixed
  PROVE  [Grant!Next]_(Grant!grantVars)
<1>g. PICK G : G = mixed' \ mixed
  OBVIOUS
<1>1. mixed \subseteq mixed' /\ G \subseteq Requests /\ G # {}
  BY <1>g, MixedGrows DEF IInv, MixType
<1>2. \A r \in Requests \ mixed' : rows'[r] = rows[r]
  <2>1. ASSUME NEW w \in Workers, Commit(w), Wrote(w),
               Moved(Requests \ mixed', job[w].ids, job[w].out, job[w].who)
        PROVE  \A r \in Requests \ mixed' : rows'[r] = rows[r]
    <3>1. Mixing(w) /\ InTx(w)
      BY <2>1 DEF Commit, InTx
    <3>2. Threads(w) # {}
      BY <1>1, <3>1 DEF Mixing
    <3>3. PICK v \in Workers : v # w /\ ConnOf[v] = ConnOf[w] /\ InTx(v)
      BY <3>2 DEF Threads
    <3>4. job[w].ids \subseteq mixed
      BY <3>1, <3>3 DEF IInv, Apart
    <3> QED BY <1>1, <2>1, <3>4 DEF Moved
  <2> QED BY <2>1, RowsMove
<1>3. \A g \in G : Phase(rows[g]) # "void" /\ g \notin mixed
  BY <1>g DEF Phase
<1>4. Grant!Void(G)
  <2>1. \A g \in G : PhaseAt(g) # "void"
    BY <1>3 DEF PhaseAt
  <2>2. \A g \in Requests : PhaseAt(g)' = IF g \in G THEN "void" ELSE PhaseAt(g)
    BY <1>g, <1>1, <1>2 DEF PhaseAt, Phase
  <2>3. \A g \in Requests : ApplicantAt(g)' = IF g \in G THEN Nobody ELSE ApplicantAt(g)
    BY <1>g, <1>1, <1>2 DEF ApplicantAt, ApplicantOf
  <2>4. \A g \in Requests : SignersAt(g)' = IF g \in G THEN {} ELSE SignersAt(g)
    BY <1>g, <1>1, <1>2 DEF SignersAt, SignersOf
  <2> QED BY <1>1, <2>1, <2>2, <2>3, <2>4 DEF Grant!Void, PhaseAt, ApplicantAt, SignersAt
<1> QED BY <1>1, <1>4, OfMany

\* Any other step: at most one transaction's moves.
LEMMA MoveStep ==
  ASSUME IInv, Singles, [Next]_vars, mixed' = mixed
  PROVE  [Grant!Next]_(Grant!grantVars)
<1> DEFINE ph == [r \in Requests |-> PhaseAt(r)]
           ap == [r \in Requests |-> ApplicantAt(r)]
           sg == [r \in Requests |-> SignersAt(r)]
<1>0. \A r \in Requests \ mixed :
         rows[r] \in Row \cup {NoRow} /\ (rows[r] # NoRow => WellSigned(rows[r]))
  BY DEF IInv, TypeOK, Unmixed, RowInv
<1>s. ASSUME \A r \in Requests \ mixed : rows'[r] = rows[r]
      PROVE  [Grant!Next]_(Grant!grantVars)
  <2>1. \A r \in Requests : PhaseAt(r)' = PhaseAt(r) /\ ApplicantAt(r)' = ApplicantAt(r)
                             /\ SignersAt(r)' = SignersAt(r)
    BY <1>s DEF PhaseAt, ApplicantAt, SignersAt, Phase, ApplicantOf, SignersOf
  <2> QED BY <2>1, Stutters
<1>2. ASSUME NEW w \in Workers, Moved(Requests \ mixed, job[w].ids, job[w].out, job[w].who),
             job[w].ids \subseteq Requests, Wrote(w)
      PROVE  [Grant!Next]_(Grant!grantVars)
  <2>p. PICK p, out, ids : p = job[w].who /\ out = job[w].out /\ ids = job[w].ids
    OBVIOUS
  <2>1. \A r \in Requests \ mixed :
           IF r \in ids THEN Move(rows[r], rows'[r], out, p, now) ELSE rows'[r] = rows[r]
    BY <1>2, <2>p DEF Moved
  <2>g. PICK G : G = ids \cap (Requests \ mixed)
    OBVIOUS
  <2>2. CASE G = {}
    BY <1>s, <2>1, <2>2, <2>g
  <2>3. CASE G # {} /\ out = "expired"
    <3>1. \A g \in G : /\ PhaseAt(g) = "live" /\ PhaseAt(g)' = "closed"
                       /\ SignersAt(g)' = SignersAt(g)
                       /\ ApplicantAt(g)' = ApplicantAt(g)
      <4> SUFFICES ASSUME NEW g \in G
                   PROVE  /\ PhaseAt(g) = "live" /\ PhaseAt(g)' = "closed"
                          /\ SignersAt(g)' = SignersAt(g)
                          /\ ApplicantAt(g)' = ApplicantAt(g)
        OBVIOUS
      <4>1. Maps(rows[g], rows'[g], out, p)
        BY <1>0, <2>1, <2>g, MoveMaps
      <4> QED BY <2>3, <2>g, <4>1 DEF Maps, PhaseAt, SignersAt, ApplicantAt, Phase, SignersOf, ApplicantOf
    <3>2. \A r \in Requests \ G : /\ PhaseAt(r)' = PhaseAt(r) /\ SignersAt(r)' = SignersAt(r)
                                  /\ ApplicantAt(r)' = ApplicantAt(r)
      BY <2>1, <2>g DEF PhaseAt, SignersAt, ApplicantAt, Phase, SignersOf, ApplicantOf
    <3>3. G # {} /\ G \in SUBSET Requests
      BY <2>3, <2>g
    <3>4. Grant!Close(G)
      BY <3>1, <3>2, <3>3 DEF Grant!Close, PhaseAt, SignersAt, ApplicantAt
    <3> QED BY <3>3, <3>4, OfMany
  <2>4. CASE G # {} /\ out # "expired"
    <3>1. PICK g \in Requests \ mixed : ids = {g}
      <4>1. \E r \in Requests : ids = {r}
        BY <1>2, <2>4, <2>p DEF Singles, Swept, Wrote
      <4> QED BY <2>4, <2>g, <4>1
    <3>2. Move(rows[g], rows'[g], out, p, now) /\ \A r \in Requests \ (mixed \cup {g}) : rows'[r] = rows[r]
      BY <2>1, <3>1
    <3>3. Maps(rows[g], rows'[g], out, p)
      BY <1>0, <3>2, MoveMaps
    <3>4. /\ ph' = [ph EXCEPT ![g] = Phase(rows'[g])]
          /\ ap' = [ap EXCEPT ![g] = ApplicantOf(rows'[g])]
          /\ sg' = [sg EXCEPT ![g] = SignersOf(rows'[g])]
          /\ ph[g] = Phase(rows[g]) /\ ap[g] = ApplicantOf(rows[g])
          /\ sg[g] = SignersOf(rows[g])
      BY <3>2 DEF PhaseAt, SignersAt, ApplicantAt, Phase, ApplicantOf, SignersOf
    <3>5. ap' = [ap EXCEPT ![g] = ap[g]] => ap' = ap
      OBVIOUS
    <3>6. sg' = [sg EXCEPT ![g] = sg[g]] => sg' = sg
      OBVIOUS
    <3>7. ph' = [ph EXCEPT ![g] = ph[g]] => ph' = ph
      OBVIOUS
    <3> HIDE DEF ph, ap, sg
    <3>8. CASE out = "requested"
      <4>1. /\ p \in People /\ ph[g] = "none" /\ ph' = [ph EXCEPT ![g] = "open"]
            /\ ap' = [ap EXCEPT ![g] = p] /\ sg' = sg
        BY <3>3, <3>4, <3>6, <3>8 DEF Maps
      <4>2. Grant!Open(g, p)
        BY <4>1 DEF Grant!Open, ph, ap, sg, PhaseAt, ApplicantAt, SignersAt
      <4> QED BY <4>1, <4>2, OfOnePerson
    <3>9. CASE out = "first-approved"
      <4>1. /\ p \in People /\ p # ap[g] /\ ph[g] = "open" /\ ph' = ph /\ ap' = ap
            /\ sg[g] = {} /\ sg' = [sg EXCEPT ![g] = {p}]
        BY <3>3, <3>4, <3>5, <3>7, <3>9 DEF Maps
      <4>2. Grant!FirstSign(g, p)
        BY <4>1 DEF Grant!FirstSign, ph, ap, sg, PhaseAt, ApplicantAt, SignersAt
      <4> QED BY <4>1, <4>2, OfOnePerson
    <3>10. CASE out = "active"
      <4>1. /\ p \in People /\ p # ap[g] /\ ph[g] = "open" /\ ap' = ap
            /\ ph' = [ph EXCEPT ![g] = "live"]
            /\ \E q \in People \ {p} : sg[g] = {q}
            /\ sg' = [sg EXCEPT ![g] = sg[g] \cup {p}]
        BY <3>3, <3>4, <3>5, <3>10 DEF Maps
      <4>2. Grant!SecondSign(g, p)
        BY <4>1 DEF Grant!SecondSign, ph, ap, sg, PhaseAt, ApplicantAt, SignersAt
      <4> QED BY <4>1, <4>2, OfOnePerson
    <3>11. CASE out = "revoked"
      <4>1. /\ ph[g] \in {"open", "live"} /\ ap' = ap /\ sg' = sg
            /\ ph' = [ph EXCEPT ![g] = "closed"]
        BY <3>3, <3>4, <3>5, <3>6, <3>11 DEF Maps
      <4>2. CASE ph[g] = "open"
        <5>1. Grant!Withdraw(g)
          BY <4>1, <4>2 DEF Grant!Withdraw, ph, ap, sg, PhaseAt, ApplicantAt, SignersAt
        <5> QED BY <5>1 DEF Grant!Next
      <4>3. CASE ph[g] = "live"
        <5>1. Grant!Close({g})
          BY <4>1, <4>3 DEF Grant!Close, ph, ap, sg, PhaseAt, ApplicantAt, SignersAt
        <5> QED BY <5>1 DEF Grant!Next
      <4> QED BY <4>1, <4>2, <4>3
    <3> QED BY <2>4, <3>3, <3>8, <3>9, <3>10, <3>11 DEF Maps
  <2> QED BY <2>2, <2>3, <2>4
<1> QED BY <1>s, <1>2, RowsMove

\* Refinement: what BreakGlassService, its transactions, retries, crashes and sweeps do
\* to the table is a behaviour of TwoPersonGrant, in which a grant is void from the moment
\* two threads meet in one of its transactions.
THEOREM RefinesTwoPersonGrant == Spec => IsTwoPersonGrant
<1>1. Init => Singles
  BY DEF Init, Idle, Singles, Swept
<1>2. IInv /\ Singles /\ [Next]_vars => IInv' /\ Singles'
  BY IStep, SinglesStep DEF IInv
<1>3. IInv /\ Singles /\ [Next]_vars => [Grant!Next]_(Grant!grantVars)
  BY VoidStep, MoveStep
<1> QED BY <1>1, <1>2, <1>3, IInit, MapInit, PTL DEF Spec, IsTwoPersonGrant, Grant!Spec
=============================================================================
