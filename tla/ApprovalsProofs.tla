-------------------------- MODULE ApprovalsProofs --------------------------
(***************************************************************************)
(* Proofs about Approvals, for every set of gates, processes and people    *)
(* and every bound on the decisions of a gate: the specification Spec, in  *)
(* which the loop of a process has its connection to itself.               *)
(***************************************************************************)
EXTENDS Approvals, FiniteSetTheorems, TLAPS

-----------------------------------------------------------------------------
(* Transactions. *)

TxType == /\ rows \in [RowKeys -> Row \cup {NoRow}]
          /\ dirty \in [Procs -> [RowKeys -> Row \cup {Clean}]]
          /\ lock \in [RowKeys -> Procs \cup {NoConn}]

\* An uncommitted write holds its row's lock.
WritesLocked == \A c \in Procs, k \in RowKeys : dirty[c][k] # Clean => lock[k] = c

TxInv == TxType /\ WritesLocked

\* A step leaves connection d, and the rows d has locked, alone.
Frame(d) == /\ dirty'[d] = dirty[d]
            /\ \A k \in RowKeys : lock[k] = d => lock'[k] = d /\ rows'[k] = rows[k]

LEMMA KeyFacts ==
  /\ \A g \in Gates : <<g, 0>> \in RowKeys
  /\ \A g \in Gates, n \in Seqs : <<g, n>> \in RowKeys /\ \A h \in Gates : <<g, n>> # <<h, 0>>
  BY MaxSeqType DEF RowKeys, Seqs

LEMMA ViewType ==
  ASSUME TxType, NEW c \in Procs, NEW k \in RowKeys
  PROVE  View(c, k) \in Row \cup {NoRow}
  BY Sentinels DEF TxType, View

LEMMA CommitTx ==
  ASSUME TxInv, NEW c \in Procs, CommitConn(c)
  PROVE  /\ TxInv'
         /\ \A d \in Procs \ {c} : Frame(d)
         /\ \A k \in RowKeys : dirty'[c][k] = Clean /\ rows'[k] = View(c, k)
<1>1. rows' \in [RowKeys -> Row \cup {NoRow}] /\ \A k \in RowKeys : rows'[k] = View(c, k)
  BY ViewType DEF TxInv, CommitConn
<1>2. dirty' \in [Procs -> [RowKeys -> Row \cup {Clean}]] /\ dirty' = [dirty EXCEPT ![c] = AllClean]
  BY DEF TxInv, TxType, CommitConn, AllClean
<1>3. lock' \in [RowKeys -> Procs \cup {NoConn}]
  BY DEF TxInv, TxType, CommitConn, Released
<1>4. \A k \in RowKeys : lock'[k] = IF lock[k] = c THEN NoConn ELSE lock[k]
  BY DEF CommitConn, Released
<1>5. \A k \in RowKeys : dirty'[c][k] = Clean
  BY <1>2 DEF TxInv, TxType, AllClean
<1>6. \A d \in Procs \ {c} : dirty'[d] = dirty[d]
  BY <1>2 DEF TxInv, TxType
<1>7. WritesLocked'
  BY <1>4, <1>5, <1>6 DEF TxInv, WritesLocked
<1>8. \A d \in Procs \ {c}, k \in RowKeys : lock[k] = d => rows'[k] = rows[k]
  BY <1>1 DEF TxInv, WritesLocked, View
<1> QED BY <1>1, <1>2, <1>3, <1>4, <1>5, <1>6, <1>7, <1>8 DEF TxInv, TxType, Frame

LEMMA RollbackTx ==
  ASSUME TxInv, NEW c \in Procs, RollbackConn(c)
  PROVE  /\ TxInv'
         /\ \A d \in Procs \ {c} : Frame(d)
         /\ \A k \in RowKeys : dirty'[c][k] = Clean
         /\ rows' = rows
<1>1. rows' = rows
  BY DEF RollbackConn
<1>2. dirty' \in [Procs -> [RowKeys -> Row \cup {Clean}]] /\ dirty' = [dirty EXCEPT ![c] = AllClean]
  BY DEF TxInv, TxType, RollbackConn, AllClean
<1>3. lock' \in [RowKeys -> Procs \cup {NoConn}]
  BY DEF TxInv, TxType, RollbackConn, Released
<1>4. \A k \in RowKeys : lock'[k] = IF lock[k] = c THEN NoConn ELSE lock[k]
  BY DEF RollbackConn, Released
<1>5. \A k \in RowKeys : dirty'[c][k] = Clean
  BY <1>2 DEF TxInv, TxType, AllClean
<1>6. \A d \in Procs \ {c} : dirty'[d] = dirty[d]
  BY <1>2 DEF TxInv, TxType
<1>7. WritesLocked'
  BY <1>4, <1>5, <1>6 DEF TxInv, WritesLocked
<1> QED BY <1>1, <1>2, <1>3, <1>4, <1>5, <1>6, <1>7 DEF TxInv, TxType, Frame

LEMMA SelectTx ==
  ASSUME TxInv, NEW c \in Procs, NEW k \in RowKeys, SelectForUpdate(c, k)
  PROVE  /\ TxInv'
         /\ \A d \in Procs \ {c} : Frame(d)
         /\ dirty' = dirty /\ rows' = rows /\ lock'[k] = c
<1>1. lock' = [lock EXCEPT ![k] = c] /\ dirty' = dirty /\ rows' = rows /\ lock[k] \in {NoConn, c}
  BY DEF SelectForUpdate, LockFree
<1>2. TxType' /\ lock'[k] = c
  BY <1>1 DEF TxInv, TxType
<1>3. WritesLocked'
  BY <1>1, Sentinels DEF TxInv, TxType, WritesLocked
<1>4. \A d \in Procs \ {c}, x \in RowKeys : lock[x] = d => lock'[x] = d
  BY <1>1, Sentinels DEF TxInv, TxType
<1> QED BY <1>1, <1>2, <1>3, <1>4 DEF TxInv, Frame

LEMMA WriteTx ==
  ASSUME TxInv, NEW c \in Procs, NEW k \in RowKeys, NEW row \in Row, WriteRow(c, k, row)
  PROVE  /\ TxInv'
         /\ \A d \in Procs \ {c} : Frame(d)
         /\ dirty'[c] = [dirty[c] EXCEPT ![k] = row] /\ rows' = rows /\ lock'[k] = c
         /\ \A x \in RowKeys : lock[x] = c => lock'[x] = c
<1>1. /\ rows' = rows
      /\ lock[k] \in {NoConn, c}
      /\ lock' = [x \in RowKeys |-> IF x = k THEN c ELSE lock[x]]
  BY DEF WriteRow, WriteRows, LockFree
<1>2. dirty' = [dirty EXCEPT ![c] = [x \in RowKeys |-> IF x = k THEN row ELSE @[x]]]
  BY DEF WriteRow, WriteRows
<1>3. dirty'[c] = [dirty[c] EXCEPT ![k] = row]
  BY <1>2 DEF TxInv, TxType
<1>4. \A d \in Procs \ {c} : dirty'[d] = dirty[d]
  BY <1>2 DEF TxInv, TxType
<1>5. dirty' \in [Procs -> [RowKeys -> Row \cup {Clean}]]
  BY <1>2 DEF TxInv, TxType
<1>6. lock' \in [RowKeys -> Procs \cup {NoConn}] /\ lock'[k] = c
  BY <1>1 DEF TxInv, TxType
<1>7. \A x \in RowKeys \ {k} : dirty'[c][x] = dirty[c][x] /\ lock'[x] = lock[x]
  BY <1>1, <1>3 DEF TxInv, TxType
<1>8. WritesLocked'
  <2> SUFFICES ASSUME NEW d \in Procs, NEW x \in RowKeys, dirty'[d][x] # Clean
               PROVE  lock'[x] = d
    BY DEF WritesLocked
  <2>1. CASE d = c
    BY <1>6, <1>7, <2>1 DEF TxInv, WritesLocked
  <2>2. CASE d # c
    BY <1>1, <1>4, <1>7, <2>2, Sentinels DEF TxInv, WritesLocked
  <2> QED BY <2>1, <2>2
<1>9. \A d \in Procs \ {c}, x \in RowKeys : lock[x] = d => lock'[x] = d
  BY <1>1, Sentinels DEF TxInv
<1> QED BY <1>1, <1>3, <1>4, <1>5, <1>6, <1>7, <1>8, <1>9 DEF TxInv, TxType, Frame

-----------------------------------------------------------------------------
(* The inductive invariant.  OneWinner and EngineFollowsRow are not inductive: they say
   nothing of what a handler has read under the row lock, of an answer that waits in an
   entry, or of which entry a coroutine waits at. *)

DataType == /\ entry \in [Procs -> [Gates -> Entry \cup {NoEntry}]]
            /\ loop \in [Procs -> Call]
            /\ run \in [Gates -> Run]
            /\ told \in [Gates -> SUBSET (Choices \X People)]
            /\ up \in [Procs -> BOOLEAN]

\* The row of g has the state that decision d of who leaves.
RowSays(g, d, who) == /\ rows[<<g, 0>>] # NoRow
                      /\ d \in Choices /\ who \in People
                      /\ rows[<<g, 0>>].state = NewState(d)
                      /\ rows[<<g, 0>>].by = who

\* p has written no approvals row, except perhaps that of g.
OnlyWrites(p, g) == \A h \in Gates : h # g => dirty[p][<<h, 0>>] = Clean
NoWrites(p) == \A h \in Gates : dirty[p][<<h, 0>>] = Clean

\* What the place of p's loop in its handler says about the rows, the entries and the runs.
LoopInv(p) ==
    LET c == loop[p]
        k == <<c.gate, 0>>
    IN /\ c.pc # "idle" => up[p] /\ c.gate \in Gates
       /\ c.pc \notin {"created", "commit"} => NoWrites(p)
       /\ c.pc \in {"created", "register"} =>
            run[c.gate].pc = "creating" /\ run[c.gate].home = p
       /\ c.pc = "created" =>
            /\ lock[k] = p /\ rows[k] = NoRow
            /\ dirty[p][k].state = "pending"
            /\ OnlyWrites(p, c.gate)
       /\ c.pc \in {"deny", "insert", "update", "commit"} =>
            entry[p][c.gate] # NoEntry /\ entry[p][c.gate].id
       /\ c.pc \in {"insert", "update", "commit"} =>
            /\ lock[k] = p /\ rows[k] # NoRow /\ rows[k].state = "pending"
            /\ c.decision \in Choices /\ c.by \in People
       /\ c.pc = "commit" =>
            /\ dirty[p][k] \in Row
            /\ dirty[p][k].state = NewState(c.decision) /\ dirty[p][k].by = c.by
            /\ OnlyWrites(p, c.gate)

\* An entry whose row exists is set only with what the row says.
EntryInv(p, g) == entry[p][g] # NoEntry /\ entry[p][g].id /\ entry[p][g].set =>
                    RowSays(g, entry[p][g].decision, entry[p][g].by)

\* A coroutine waits at its own process's entry, and acts as the row says.
RunInv(g) ==
    LET r == run[g]
    IN /\ r.pc = "waiting" => /\ r.home \in Procs /\ up[r.home]
                              /\ entry[r.home][g] # NoEntry
                              /\ entry[r.home][g].id = r.id
       /\ r.pc = "acted" /\ r.id => RowSays(g, r.decision, r.by)

ToldInv(g) == \A a \in told[g] : RowSays(g, a[1], a[2])

IInv == /\ TxInv
        /\ DataType
        /\ \A p \in Procs : LoopInv(p)
        /\ \A p \in Procs, g \in Gates : EntryInv(p, g)
        /\ \A g \in Gates : RunInv(g)
        /\ \A g \in Gates : ToldInv(g)

LEMMA IInit == Init => IInv
<1> SUFFICES ASSUME Init PROVE IInv
  OBVIOUS
<1>1. TxInv
  BY Sentinels DEF Init, TxInit, AllClean, TxInv, TxType, WritesLocked
<1>2. DataType
  BY MaxSeqType DEF Init, DataType, IdleCall, Call, NoRun, Run
<1>3. \A p \in Procs : LoopInv(p)
  BY KeyFacts DEF Init, TxInit, AllClean, LoopInv, IdleCall, NoWrites
<1>4. \A p \in Procs, g \in Gates : EntryInv(p, g)
  BY DEF Init, EntryInv
<1>5. \A g \in Gates : RunInv(g) /\ ToldInv(g)
  BY DEF Init, RunInv, ToldInv, NoRun
<1> QED BY <1>1, <1>2, <1>3, <1>4, <1>5 DEF IInv

-----------------------------------------------------------------------------
(* What follows from the invariant. *)

LEMMA InvType == IInv => TypeOK
  BY DEF IInv, TxInv, TxType, DataType, TypeOK

LEMMA SaysDecided ==
  ASSUME NEW g \in Gates, NEW d, NEW who, RowSays(g, d, who)
  PROVE  Decided(g)
  BY DEF RowSays, Decided, NewState

\* A person and a choice are fixed by the row they leave.
LEMMA SaysOne ==
  ASSUME NEW g \in Gates, NEW d, NEW who, NEW e, NEW whoElse,
         RowSays(g, d, who), RowSays(g, e, whoElse)
  PROVE  d = e /\ who = whoElse
  BY DEF RowSays, NewState, Choices

LEMMA InvWinner == IInv => OneWinner
<1> SUFFICES ASSUME IInv, NEW g \in Gates
             PROVE  /\ Cardinality(told[g]) <= 1
                    /\ \A a \in told[g] : /\ Decided(g)
                                          /\ rows[<<g, 0>>].state = NewState(a[1])
                                          /\ rows[<<g, 0>>].by = a[2]
  BY DEF OneWinner
<1>1. told[g] \in SUBSET (Choices \X People) /\ \A a \in told[g] : RowSays(g, a[1], a[2])
  BY DEF IInv, DataType, ToldInv
<1>2. \A a, b \in told[g] : a = b
  BY <1>1, SaysOne
<1>3. Cardinality(told[g]) <= 1
  <2>1. CASE told[g] = {}
    BY <2>1, FS_EmptySet
  <2>2. CASE told[g] # {}
    <3>1. PICK a : a \in told[g]
      BY <2>2
    <3>2. told[g] = {a}
      BY <1>2, <3>1
    <3>3. Cardinality({a}) = 1
      BY FS_Singleton
    <3> QED BY <3>2, <3>3
  <2> QED BY <2>1, <2>2
<1> QED BY <1>1, <1>3, SaysDecided DEF RowSays

LEMMA InvFollows == IInv => EngineFollowsRow
  BY SaysDecided DEF IInv, RunInv, EngineFollowsRow, RowSays

-----------------------------------------------------------------------------
(* What a step leaves of the invariant. *)

\* No decided row changes.
Kept == \A g \in Gates : Decided(g) => rows'[<<g, 0>>] = rows[<<g, 0>>]

LEMMA SameKept == rows' = rows => Kept
  BY DEF Kept

LEMMA CommitKept ==
  ASSUME IInv, NEW p \in Procs, CommitConn(p)
  PROVE  Kept
<1> SUFFICES ASSUME NEW g \in Gates, Decided(g)
             PROVE  rows'[<<g, 0>>] = rows[<<g, 0>>]
  BY DEF Kept
<1>1. rows'[<<g, 0>>] = View(p, <<g, 0>>)
  BY CommitTx, KeyFacts DEF IInv
<1>2. dirty[p][<<g, 0>>] = Clean
  <2>0. LoopInv(p)
    BY DEF IInv
  <2>1. CASE loop[p].pc \notin {"created", "commit"}
    BY <2>0, <2>1 DEF LoopInv, NoWrites
  <2>2. CASE loop[p].pc = "created"
    BY <2>0, <2>2 DEF LoopInv, OnlyWrites, Decided
  <2>3. CASE loop[p].pc = "commit"
    BY <2>0, <2>3 DEF LoopInv, OnlyWrites, Decided
  <2> QED BY <2>1, <2>2, <2>3
<1> QED BY <1>1, <1>2 DEF View

LEMMA EntryKept ==
  ASSUME IInv, Kept, NEW p \in Procs, NEW g \in Gates, entry'[p][g] = entry[p][g]
  PROVE  EntryInv(p, g)'
<1>1. EntryInv(p, g)
  BY DEF IInv
<1> QED BY <1>1 DEF Kept, EntryInv, RowSays, Decided, NewState

LEMMA ToldKept ==
  ASSUME IInv, Kept, NEW g \in Gates, told'[g] = told[g]
  PROVE  ToldInv(g)'
<1>1. ToldInv(g)
  BY DEF IInv
<1> QED BY <1>1 DEF Kept, ToldInv, RowSays, Decided, NewState

LEMMA RunKept ==
  ASSUME IInv, Kept, NEW g \in Gates, run'[g] = run[g],
         \A p \in Procs : run[g].pc = "waiting" /\ run[g].home = p =>
            /\ up'[p] = up[p]
            /\ entry[p][g] # NoEntry => /\ entry'[p][g] # NoEntry
                                        /\ entry'[p][g].id = entry[p][g].id
  PROVE  RunInv(g)'
<1>1. RunInv(g)
  BY DEF IInv
<1>2. run[g].pc = "waiting" => /\ run[g].home \in Procs /\ up'[run[g].home]
                               /\ entry'[run[g].home][g] # NoEntry
                               /\ entry'[run[g].home][g].id = run[g].id
  BY <1>1 DEF RunInv
<1>3. run[g].pc = "acted" /\ run[g].id =>
        /\ rows'[<<g, 0>>] # NoRow
        /\ run[g].decision \in Choices /\ run[g].by \in People
        /\ rows'[<<g, 0>>].state = NewState(run[g].decision)
        /\ rows'[<<g, 0>>].by = run[g].by
  BY <1>1 DEF Kept, RunInv, RowSays, Decided, NewState
<1> QED BY <1>2, <1>3 DEF RunInv, RowSays, NewState

LEMMA LoopKept ==
  ASSUME IInv, NEW q \in Procs, Frame(q),
         loop'[q] = loop[q], entry'[q] = entry[q], up'[q] = up[q],
         \A g \in Gates : run[g].pc = "creating" /\ run[g].home = q => run'[g] = run[g]
  PROVE  LoopInv(q)'
<1> DEFINE g == loop[q].gate
<1>0. LoopInv(q) /\ loop[q] \in Call
  BY DEF IInv, DataType
<1>1. /\ NoWrites(q) => \A h \in Gates : dirty'[q][<<h, 0>>] = Clean
      /\ OnlyWrites(q, g) => \A h \in Gates : h # g => dirty'[q][<<h, 0>>] = Clean
  BY DEF Frame, NoWrites, OnlyWrites
<1>2. g \in Gates /\ lock[<<g, 0>>] = q =>
        lock'[<<g, 0>>] = q /\ rows'[<<g, 0>>] = rows[<<g, 0>>]
  BY KeyFacts DEF Frame
<1>3. dirty'[q] = dirty[q]
  BY DEF Frame
<1>4. loop[q].pc \in {"created", "register"} => run'[g].pc = "creating" /\ run'[g].home = q
  BY <1>0 DEF LoopInv
<1>5. loop[q].pc = "created" =>
        /\ lock'[<<g, 0>>] = q /\ rows'[<<g, 0>>] = NoRow
        /\ dirty'[q][<<g, 0>>].state = "pending"
        /\ OnlyWrites(q, g)
  BY <1>0, <1>2, <1>3 DEF LoopInv
<1>6. loop[q].pc \in {"insert", "update", "commit"} =>
        /\ lock'[<<g, 0>>] = q /\ rows'[<<g, 0>>] # NoRow /\ rows'[<<g, 0>>].state = "pending"
        /\ loop[q].decision \in Choices /\ loop[q].by \in People
  BY <1>0, <1>2 DEF LoopInv
<1>7. loop[q].pc = "commit" =>
        /\ dirty'[q][<<g, 0>>] \in Row
        /\ dirty'[q][<<g, 0>>].state = NewState(loop[q].decision)
        /\ dirty'[q][<<g, 0>>].by = loop[q].by
        /\ OnlyWrites(q, g)
  BY <1>0, <1>3 DEF LoopInv
<1>8. loop[q].pc \in {"deny", "insert", "update", "commit"} =>
        entry'[q][g] # NoEntry /\ entry'[q][g].id
  BY <1>0 DEF LoopInv
<1>9. /\ loop[q].pc # "idle" => up'[q] /\ g \in Gates
      /\ loop[q].pc \notin {"created", "commit"} => NoWrites(q)
  BY <1>0 DEF LoopInv
<1> QED
  BY <1>1, <1>4, <1>5, <1>6, <1>7, <1>8, <1>9 DEF LoopInv, NoWrites, OnlyWrites, NewState

\* A step of process p leaves the parts of the invariant about other processes.
LEMMA OthersKept ==
  ASSUME IInv, NEW p \in Procs, Kept, \A q \in Procs \ {p} : Frame(q),
         \A q \in Procs \ {p} : loop'[q] = loop[q] /\ entry'[q] = entry[q] /\ up'[q] = up[q],
         \A g \in Gates : run'[g] = run[g] \/ run[g].home = p \/ run[g].pc = "none"
  PROVE  \A q \in Procs \ {p} : LoopInv(q)' /\ \A g \in Gates : EntryInv(q, g)'
  BY LoopKept, EntryKept

\* A step of p's loop between two statements, which touches no entry, run or answer.
LEMMA LoopStep ==
  ASSUME IInv, NEW p \in Procs, TxInv', Kept, \A q \in Procs \ {p} : Frame(q),
         NEW c \in Call, loop' = [loop EXCEPT ![p] = c],
         UNCHANGED <<entry, run, told, up>>, LoopInv(p)'
  PROVE  IInv'
<1>1. DataType' /\ \A q \in Procs \ {p} : loop'[q] = loop[q]
  BY DEF IInv, DataType
<1>2. \A q \in Procs \ {p} : LoopInv(q)'
  BY <1>1, OthersKept
<1>3. \A q \in Procs, g \in Gates : EntryInv(q, g)'
  BY EntryKept
<1>4. \A g \in Gates : RunInv(g)' /\ ToldInv(g)'
  BY RunKept, ToldKept
<1> QED BY <1>1, <1>2, <1>3, <1>4 DEF IInv

-----------------------------------------------------------------------------
(* The handlers' steps. *)

LEMMA CreateInsertStep ==
  ASSUME IInv, NEW p \in Procs, NEW g \in Gates, CreateInsert(p, g)
  PROVE  IInv'
<1> DEFINE row == [state |-> "pending", by |-> Nobody, version |-> 0]
           call == [IdleCall EXCEPT !.pc = "created", !.gate = g]
<1>1. row \in Row /\ <<g, 0>> \in RowKeys
  BY KeyFacts DEF Row, GateStates
<1>2. /\ TxInv' /\ \A d \in Procs \ {p} : Frame(d)
      /\ dirty'[p] = [dirty[p] EXCEPT ![<<g, 0>>] = row] /\ rows' = rows
      /\ lock'[<<g, 0>>] = p
  BY <1>1, WriteTx DEF CreateInsert, IInv
<1>3. Kept
  BY <1>2, SameKept
<1>4. /\ call \in Call /\ call.pc = "created" /\ call.gate = g
      /\ loop' = [loop EXCEPT ![p] = call] /\ loop \in [Procs -> Call]
      /\ run \in [Gates -> Run] /\ up[p] /\ loop[p].pc = "idle"
      /\ run' = [run EXCEPT ![g].pc = "creating", ![g].home = p]
      /\ run[g].pc = "none" /\ UNCHANGED <<entry, told, up>>
  <2>1. IdleCall \in Call
    BY MaxSeqType DEF IdleCall, Call
  <2>2. call \in Call /\ call.pc = "created" /\ call.gate = g
    BY <2>1 DEF Call
  <2>3. loop' = [loop EXCEPT ![p] = call]
    BY DEF CreateInsert
  <2>4. /\ up[p] /\ loop[p].pc = "idle" /\ run[g].pc = "none" /\ UNCHANGED <<entry, told, up>>
        /\ run' = [run EXCEPT ![g].pc = "creating", ![g].home = p]
    BY DEF CreateInsert, Free
  <2> QED BY <2>2, <2>3, <2>4 DEF IInv, DataType
<1>5. run'[g].pc = "creating" /\ run'[g].home = p /\ run' \in [Gates -> Run]
      /\ \A h \in Gates \ {g} : run'[h] = run[h]
  <2>1. run[g] \in Run
    BY <1>4
  <2>2. [run[g] EXCEPT !.pc = "creating", !.home = p] \in Run
    BY <2>1 DEF Run
  <2>3. run' = [run EXCEPT ![g] = [run[g] EXCEPT !.pc = "creating", !.home = p]]
    BY <1>4
  <2>4. run'[g] = [run[g] EXCEPT !.pc = "creating", !.home = p]
    BY <1>4, <2>3
  <2>5. run'[g].pc = "creating" /\ run'[g].home = p
    BY <2>1, <2>4 DEF Run
  <2>6. run' \in [Gates -> Run]
    BY <1>4, <2>2, <2>3
  <2> QED BY <1>4, <2>5, <2>6
<1>6. DataType'
  BY <1>4, <1>5 DEF IInv, DataType
<1>7. \A q \in Procs \ {p} : LoopInv(q)' /\ \A h \in Gates : EntryInv(q, h)'
  BY <1>2, <1>3, <1>4, <1>5, OthersKept
<1>8. LoopInv(p)'
  <2>1. NoWrites(p) /\ View(p, <<g, 0>>) = NoRow
    BY <1>4 DEF CreateInsert, IInv, LoopInv
  <2>2. rows'[<<g, 0>>] = NoRow
    BY <1>2, <2>1 DEF View, NoWrites
  <2>3. \A h \in Gates : h # g => dirty'[p][<<h, 0>>] = Clean
    BY <1>2, <2>1 DEF NoWrites
  <2>4. dirty'[p][<<g, 0>>] = row
    BY <1>1, <1>2 DEF IInv, TxInv, TxType
  <2>5. loop'[p] = call /\ up'[p]
    BY <1>4
  <2> QED BY <1>2, <1>4, <1>5, <2>2, <2>3, <2>4, <2>5 DEF LoopInv, OnlyWrites
<1>9. \A h \in Gates : EntryInv(p, h)' /\ ToldInv(h)'
  BY <1>3, <1>4, EntryKept, ToldKept
<1>10. \A h \in Gates : RunInv(h)'
  <2>1. RunInv(g)'
    BY <1>5 DEF RunInv
  <2>2. \A h \in Gates \ {g} : RunInv(h)'
    BY <1>3, <1>4, <1>5, RunKept
  <2> QED BY <2>1, <2>2
<1> QED BY <1>2, <1>6, <1>7, <1>8, <1>9, <1>10 DEF IInv

LEMMA CreateEndStep ==
  ASSUME IInv, NEW p \in Procs, CreateEnd(p)
  PROVE  IInv'
<1>1. PICK ok \in BOOLEAN :
        /\ IF ok THEN CommitConn(p) ELSE RollbackConn(p)
        /\ loop' = [loop EXCEPT ![p].pc = "register", ![p].id = ok]
  BY DEF CreateEnd
<1>2. /\ TxInv' /\ \A d \in Procs \ {p} : Frame(d)
      /\ \A k \in RowKeys : dirty'[p][k] = Clean
  BY <1>1, CommitTx, RollbackTx DEF IInv
<1>3. Kept
  BY <1>1, CommitKept, SameKept, RollbackTx DEF IInv
<1> DEFINE call == [loop[p] EXCEPT !.pc = "register", !.id = ok]
<1>4. /\ call \in Call /\ loop' = [loop EXCEPT ![p] = call]
      /\ loop'[p].pc = "register" /\ loop'[p].gate = loop[p].gate
  BY <1>1 DEF IInv, DataType, Call
<1>5. loop[p].pc = "created" /\ UNCHANGED <<entry, run, told, up>>
  BY DEF CreateEnd
<1>6. LoopInv(p)'
  <2>1. LoopInv(p)
    BY DEF IInv
  <2>2. up[p] /\ loop[p].gate \in Gates
        /\ run[loop[p].gate].pc = "creating" /\ run[loop[p].gate].home = p
    BY <1>5, <2>1 DEF LoopInv
  <2>3. \A h \in Gates : dirty'[p][<<h, 0>>] = Clean
    BY <1>2, KeyFacts
  <2> QED BY <1>4, <1>5, <2>2, <2>3 DEF LoopInv, NoWrites
<1> QED BY <1>2, <1>3, <1>4, <1>5, <1>6, LoopStep

LEMMA RegisterStep ==
  ASSUME IInv, NEW p \in Procs, Register(p)
  PROVE  IInv'
<1>a. LoopInv(p) /\ loop[p] \in Call /\ loop[p].pc = "register"
  BY DEF Register, IInv, DataType
<1>b. loop[p].gate \in Gates /\ loop[p].id \in BOOLEAN
  BY <1>a DEF LoopInv, Call
<1> PICK g \in Gates : g = loop[p].gate
  BY <1>b
<1> PICK id \in BOOLEAN : id = loop[p].id
  BY <1>b
<1>1. up[p] /\ run[g].pc = "creating" /\ run[g].home = p /\ run[g] \in Run
  BY <1>a DEF LoopInv, IInv, DataType
<1>2. /\ TxInv' /\ \A d \in Procs \ {p} : Frame(d)
      /\ \A k \in RowKeys : dirty'[p][k] = Clean
      /\ Kept
  BY CommitTx, RollbackTx, CommitKept, SameKept DEF Register, IInv
<1>3. /\ entry' = [entry EXCEPT ![p][g] = NewEntry(id)]
      /\ loop' = [loop EXCEPT ![p] = IdleCall]
      /\ UNCHANGED <<told, up>>
  BY DEF Register
<1>4. /\ NewEntry(id) \in Entry /\ NewEntry(id).id = id /\ NewEntry(id).set = FALSE
      /\ NewEntry(id) # NoEntry
  <2>1. NewEntry(id) \in Entry
    BY DEF NewEntry, Entry
  <2> QED BY <2>1, Sentinels DEF NewEntry
<1>5. PICK pc \in {"waiting", "failed"} : run' = [run EXCEPT ![g].pc = pc, ![g].id = id]
  BY DEF Register
<1>6. /\ run' \in [Gates -> Run]
      /\ run'[g].pc = pc /\ run'[g].id = id /\ run'[g].home = p
      /\ \A h \in Gates \ {g} : run'[h] = run[h]
  BY <1>1, <1>5 DEF IInv, DataType, Run
<1>7. /\ entry' \in [Procs -> [Gates -> Entry \cup {NoEntry}]]
      /\ entry'[p][g] = NewEntry(id)
      /\ \A h \in Gates \ {g} : entry'[p][h] = entry[p][h]
      /\ \A q \in Procs \ {p} : entry'[q] = entry[q]
  BY <1>1, <1>3, <1>4 DEF IInv, DataType
<1>8. IdleCall \in Call /\ IdleCall.pc = "idle"
  BY MaxSeqType DEF IdleCall, Call
<1>9. /\ loop' \in [Procs -> Call] /\ loop'[p] = IdleCall
      /\ \A q \in Procs \ {p} : loop'[q] = loop[q]
  BY <1>3, <1>8 DEF IInv, DataType
<1>10. DataType'
  BY <1>3, <1>6, <1>7, <1>9 DEF IInv, DataType
<1>11. \A q \in Procs \ {p} : LoopInv(q)' /\ \A h \in Gates : EntryInv(q, h)'
  BY <1>1, <1>2, <1>3, <1>6, <1>7, <1>9, OthersKept
<1>12. LoopInv(p)'
  BY <1>2, <1>8, <1>9, KeyFacts DEF LoopInv, NoWrites
<1>13. \A h \in Gates : EntryInv(p, h)' /\ ToldInv(h)'
  <2>1. EntryInv(p, g)'
    BY <1>4, <1>7 DEF EntryInv
  <2>2. \A h \in Gates \ {g} : EntryInv(p, h)'
    BY <1>2, <1>7, EntryKept
  <2>3. \A h \in Gates : ToldInv(h)'
    BY <1>2, <1>3, ToldKept
  <2> QED BY <2>1, <2>2, <2>3
<1>14. \A h \in Gates : RunInv(h)'
  <2>1. RunInv(g)'
    BY <1>1, <1>3, <1>4, <1>6, <1>7 DEF RunInv
  <2>2. \A h \in Gates \ {g} : RunInv(h)'
    BY <1>2, <1>3, <1>6, <1>7, RunKept
  <2> QED BY <2>1, <2>2
<1> QED BY <1>2, <1>10, <1>11, <1>12, <1>13, <1>14 DEF IInv

LEMMA SeenBound ==
  ASSUME NEW p \in Procs, NEW g \in Gates
  PROVE  Seen(p, g) + 1 \in 1..MaxSeq + 1
<1> DEFINE S == {n \in Seqs : View(p, <<g, n>>) # NoRow}
<1>1. IsFiniteSet(Seqs) /\ Cardinality(Seqs) = MaxSeq
  BY MaxSeqType, FS_Interval DEF Seqs
<1>2. S \subseteq Seqs
  OBVIOUS
<1>3. IsFiniteSet(S) /\ Cardinality(S) <= MaxSeq
  BY <1>1, <1>2, FS_Subset
<1>4. Cardinality(S) \in Nat
  BY <1>3, FS_CardinalityType
<1> QED BY <1>3, <1>4, MaxSeqType DEF Seen

LEMMA DecideSelectStep ==
  ASSUME IInv, NEW p \in Procs, NEW g \in Gates, NEW d \in Choices, NEW who \in People,
         DecideSelect(p, g, d, who)
  PROVE  IInv'
<1> DEFINE k == <<g, 0>>
           row == View(p, k)
           call == [IdleCall EXCEPT !.gate = g, !.decision = d, !.by = who]
           deny == [call EXCEPT !.pc = "deny"]
           insert == [call EXCEPT !.pc = "insert", !.seq = Seen(p, g) + 1]
<1>1. /\ up[p] /\ loop[p].pc = "idle" /\ entry[p][g] # NoEntry /\ entry[p][g].id
      /\ UNCHANGED <<entry, run, told, up>>
  BY DEF DecideSelect, Free
<1>2. k \in RowKeys /\ NoWrites(p) /\ row = rows[k]
  BY <1>1, KeyFacts DEF IInv, LoopInv, NoWrites, View
<1>3. IdleCall \in Call
  BY MaxSeqType DEF IdleCall, Call
<1>4. call \in Call /\ call.gate = g /\ call.decision = d /\ call.by = who
  BY <1>3 DEF Call
<1>5. /\ deny \in Call /\ deny.pc = "deny" /\ deny.gate = g
      /\ insert \in Call /\ insert.pc = "insert" /\ insert.gate = g
      /\ insert.decision = d /\ insert.by = who
  <2>1. Seen(p, g) + 1 \in 0..MaxSeq + 1
    BY SeenBound, MaxSeqType
  <2>2. deny \in Call /\ deny.pc = "deny" /\ deny.gate = g
    BY <1>4 DEF Call
  <2>3. insert \in Call /\ insert.pc = "insert" /\ insert.gate = g
        /\ insert.decision = d /\ insert.by = who
    BY <1>4, <2>1 DEF Call
  <2> QED BY <2>2, <2>3
<1>6. loop \in [Procs -> Call] /\ TxInv
  BY DEF IInv, DataType
<1>7. CASE row = NoRow /\ UNCHANGED <<rows, dirty, lock>> /\ loop' = [loop EXCEPT ![p] = deny]
  <2>1. TxInv' /\ Kept /\ \A q \in Procs \ {p} : Frame(q)
    BY <1>6, <1>7 DEF TxInv, TxType, WritesLocked, Kept, Frame
  <2>2. LoopInv(p)'
    BY <1>1, <1>2, <1>5, <1>6, <1>7 DEF LoopInv, NoWrites
  <2> QED BY <1>1, <1>5, <1>7, <2>1, <2>2, LoopStep
<1>8. CASE row # NoRow /\ SelectForUpdate(p, k)
           /\ loop' = [loop EXCEPT ![p] = IF Refused(row) THEN deny ELSE insert]
  <2>1. /\ TxInv' /\ Kept /\ \A q \in Procs \ {p} : Frame(q)
        /\ dirty' = dirty /\ rows' = rows /\ lock'[k] = p
    BY <1>2, <1>6, <1>8, SelectTx, SameKept
  <2>2. CASE Refused(row)
    <3>1. LoopInv(p)'
      BY <1>1, <1>2, <1>5, <1>6, <1>8, <2>1, <2>2 DEF LoopInv, NoWrites
    <3> QED BY <1>1, <1>5, <1>8, <2>1, <2>2, <3>1, LoopStep
  <2>3. CASE ~Refused(row)
    <3>1. rows[k] # NoRow /\ rows[k].state = "pending"
      BY <1>2, <1>8, <2>3 DEF Refused
    <3>2. LoopInv(p)'
      BY <1>1, <1>2, <1>5, <1>6, <1>8, <2>1, <2>3, <3>1 DEF LoopInv, NoWrites
    <3> QED BY <1>1, <1>5, <1>8, <2>1, <2>3, <3>2, LoopStep
  <2> QED BY <2>2, <2>3
<1> QED BY <1>7, <1>8 DEF DecideSelect

LEMMA DecideInsertStep ==
  ASSUME IInv, NEW p \in Procs, DecideInsert(p)
  PROVE  IInv'
<1>a. LoopInv(p) /\ loop[p] \in Call /\ loop[p].pc = "insert" /\ loop[p].seq \in Seqs
  BY DEF DecideInsert, IInv, DataType
<1> PICK g \in Gates : g = loop[p].gate
  BY <1>a DEF LoopInv
<1> PICK n \in Seqs : n = loop[p].seq
  BY <1>a
<1> PICK d \in Choices : d = loop[p].decision
  BY <1>a DEF LoopInv
<1> PICK who \in People : who = loop[p].by
  BY <1>a DEF LoopInv
<1> DEFINE row == [state |-> d, by |-> who, version |-> 0]
           call == [loop[p] EXCEPT !.pc = "update"]
<1>1. row \in Row /\ <<g, n>> \in RowKeys /\ \A h \in Gates : <<g, n>> # <<h, 0>>
  BY KeyFacts DEF Row
<1>2. WriteRow(p, <<g, n>>, row)
  BY DEF DecideInsert
<1>3. /\ TxInv' /\ \A q \in Procs \ {p} : Frame(q)
      /\ dirty'[p] = [dirty[p] EXCEPT ![<<g, n>>] = row] /\ rows' = rows
      /\ \A x \in RowKeys : lock[x] = p => lock'[x] = p
  BY <1>1, <1>2, WriteTx DEF IInv
<1>4. /\ call \in Call /\ call.pc = "update" /\ call.gate = g
      /\ call.decision = d /\ call.by = who
  BY <1>a DEF Call
<1>5. /\ loop' = [loop EXCEPT ![p] = call] /\ loop'[p] = call
      /\ UNCHANGED <<entry, run, told, up>>
  BY DEF DecideInsert, IInv, DataType
<1>6. LoopInv(p)'
  <2>0. \A h \in Gates : dirty[p][<<h, 0>>] = Clean /\ <<h, 0>> # <<g, n>>
    BY <1>1, <1>a DEF LoopInv, NoWrites
  <2>x. \A x \in RowKeys \ {<<g, n>>} : dirty'[p][x] = dirty[p][x]
    BY <1>3 DEF IInv, TxInv, TxType
  <2>1. \A h \in Gates : dirty'[p][<<h, 0>>] = Clean
    BY <2>0, <2>x, KeyFacts
  <2>2. /\ lock'[<<g, 0>>] = p /\ rows'[<<g, 0>>] # NoRow /\ rows'[<<g, 0>>].state = "pending"
        /\ entry'[p][g] # NoEntry /\ entry'[p][g].id /\ up'[p]
    BY <1>3, <1>5, <1>a, KeyFacts DEF LoopInv
  <2> QED BY <1>4, <1>5, <2>1, <2>2 DEF LoopInv, NoWrites
<1> QED BY <1>3, <1>4, <1>5, <1>6, SameKept, LoopStep

LEMMA DecideUpdateStep ==
  ASSUME IInv, NEW p \in Procs, DecideUpdate(p)
  PROVE  IInv'
<1>a. LoopInv(p) /\ loop[p] \in Call /\ loop[p].pc = "update"
  BY DEF DecideUpdate, IInv, DataType
<1> PICK g \in Gates : g = loop[p].gate
  BY <1>a DEF LoopInv
<1> PICK d \in Choices : d = loop[p].decision
  BY <1>a DEF LoopInv
<1> PICK who \in People : who = loop[p].by
  BY <1>a DEF LoopInv
<1>b. <<g, 0>> \in RowKeys /\ View(p, <<g, 0>>) \in Row
  <2>1. View(p, <<g, 0>>) # NoRow
    BY DEF DecideUpdate
  <2> QED BY <2>1, KeyFacts, ViewType DEF IInv, TxInv
<1> DEFINE row == [state |-> NewState(d), by |-> who, version |-> View(p, <<g, 0>>).version + 1]
           call == [loop[p] EXCEPT !.pc = "commit"]
<1>1. row \in Row
  <2>1. View(p, <<g, 0>>).version + 1 \in Nat
    BY <1>b DEF Row
  <2>2. NewState(d) \in GateStates
    BY DEF NewState, GateStates
  <2> QED BY <2>1, <2>2 DEF Row
<1>2. WriteRow(p, <<g, 0>>, row)
  BY DEF DecideUpdate
<1>3. /\ TxInv' /\ \A q \in Procs \ {p} : Frame(q)
      /\ dirty'[p] = [dirty[p] EXCEPT ![<<g, 0>>] = row] /\ rows' = rows
      /\ lock'[<<g, 0>>] = p
  BY <1>1, <1>2, <1>b, WriteTx DEF IInv
<1>4. /\ call \in Call /\ call.pc = "commit" /\ call.gate = g
      /\ call.decision = d /\ call.by = who
  BY <1>a DEF Call
<1>5. /\ loop' = [loop EXCEPT ![p] = call] /\ loop'[p] = call
      /\ UNCHANGED <<entry, run, told, up>>
  BY DEF DecideUpdate, IInv, DataType
<1>6. LoopInv(p)'
  <2>1. \A h \in Gates : h # g => dirty'[p][<<h, 0>>] = Clean
    BY <1>3, <1>a DEF LoopInv, NoWrites
  <2>2. /\ rows'[<<g, 0>>] # NoRow /\ rows'[<<g, 0>>].state = "pending"
        /\ entry'[p][g] # NoEntry /\ entry'[p][g].id /\ up'[p]
    BY <1>3, <1>5, <1>a DEF LoopInv
  <2>3. dirty'[p][<<g, 0>>] = row
    BY <1>3, <1>b DEF IInv, TxInv, TxType
  <2>4. /\ dirty'[p][<<g, 0>>] \in Row
        /\ dirty'[p][<<g, 0>>].state = NewState(d) /\ dirty'[p][<<g, 0>>].by = who
    BY <1>1, <2>3
  <2>5. /\ loop'[p].pc = "commit" /\ loop'[p].gate = g
        /\ loop'[p].decision = d /\ loop'[p].by = who
    BY <1>4, <1>5
  <2>6. NewState(d) = NewState(loop[p].decision)'
    BY <2>5 DEF NewState
  <2> QED BY <1>3, <2>1, <2>2, <2>4, <2>5, <2>6 DEF LoopInv, OnlyWrites
<1> QED BY <1>3, <1>4, <1>5, <1>6, SameKept, LoopStep

LEMMA IdleCallType == IdleCall \in Call /\ IdleCall.pc = "idle"
  BY MaxSeqType DEF IdleCall, Call

\* The end of a transaction that ends the handler.
LEMMA EndStep ==
  ASSUME IInv, NEW p \in Procs, CommitConn(p) \/ RollbackConn(p),
         loop' = [loop EXCEPT ![p] = IdleCall]
  PROVE  /\ TxInv' /\ Kept /\ \A q \in Procs \ {p} : Frame(q)
         /\ loop' \in [Procs -> Call] /\ \A q \in Procs \ {p} : loop'[q] = loop[q]
         /\ LoopInv(p)'
<1>1. /\ TxInv' /\ \A q \in Procs \ {p} : Frame(q)
      /\ \A k \in RowKeys : dirty'[p][k] = Clean
      /\ Kept
  BY CommitTx, RollbackTx, CommitKept, SameKept DEF IInv
<1>2. /\ loop' \in [Procs -> Call] /\ \A q \in Procs \ {p} : loop'[q] = loop[q]
      /\ loop'[p].pc = "idle"
  BY IdleCallType DEF IInv, DataType
<1>3. LoopInv(p)'
  BY <1>1, <1>2, KeyFacts DEF LoopInv, NoWrites
<1> QED BY <1>1, <1>2, <1>3

LEMMA DecideEndStep ==
  ASSUME IInv, NEW p \in Procs, DecideDenied(p) \/ DecideFail(p)
  PROVE  IInv'
  BY EndStep, IdleCallType, LoopStep DEF DecideDenied, DecideFail

LEMMA DecideCommitStep ==
  ASSUME IInv, NEW p \in Procs, DecideCommit(p)
  PROVE  IInv'
<1>a. LoopInv(p) /\ loop[p] \in Call /\ loop[p].pc = "commit"
  BY DEF DecideCommit, IInv, DataType
<1> PICK g \in Gates : g = loop[p].gate
  BY <1>a DEF LoopInv
<1> PICK d \in Choices : d = loop[p].decision
  BY <1>a DEF LoopInv
<1> PICK who \in People : who = loop[p].by
  BY <1>a DEF LoopInv
<1>1. /\ CommitConn(p)
      /\ told' = [told EXCEPT ![g] = @ \cup {<<d, who>>}]
      /\ entry' = [entry EXCEPT ![p][g] = Answered(@, d, who)]
      /\ loop' = [loop EXCEPT ![p] = IdleCall]
      /\ UNCHANGED <<run, up>>
  BY DEF DecideCommit
<1>2. /\ TxInv' /\ Kept /\ \A q \in Procs \ {p} : Frame(q)
      /\ loop' \in [Procs -> Call] /\ \A q \in Procs \ {p} : loop'[q] = loop[q]
      /\ LoopInv(p)'
  BY <1>1, EndStep
<1>3. /\ entry[p][g] \in Entry /\ entry[p][g] # NoEntry /\ entry[p][g].id
  BY <1>a DEF LoopInv, IInv, DataType
<1> DEFINE e == Answered(entry[p][g], d, who)
<1>4. e \in Entry /\ e.id = entry[p][g].id /\ e.decision = d /\ e.by = who /\ e # NoEntry
  <2>1. e \in Entry /\ e.id = entry[p][g].id /\ e.decision = d /\ e.by = who
    BY <1>3 DEF Answered, Entry
  <2> QED BY <2>1, Sentinels
<1>5. /\ entry' \in [Procs -> [Gates -> Entry \cup {NoEntry}]]
      /\ entry'[p][g] = e
      /\ \A h \in Gates \ {g} : entry'[p][h] = entry[p][h]
      /\ \A q \in Procs \ {p} : entry'[q] = entry[q]
  BY <1>1, <1>4 DEF IInv, DataType
<1>6. /\ told' \in [Gates -> SUBSET (Choices \X People)]
      /\ told'[g] = told[g] \cup {<<d, who>>}
      /\ \A h \in Gates \ {g} : told'[h] = told[h]
  BY <1>1 DEF IInv, DataType
<1>7. DataType'
  BY <1>1, <1>2, <1>5, <1>6 DEF IInv, DataType
<1>8. \A q \in Procs \ {p} : LoopInv(q)' /\ \A h \in Gates : EntryInv(q, h)'
  BY <1>1, <1>2, <1>5, OthersKept
<1>9. RowSays(g, d, who)'
  <2>1. <<g, 0>> \in RowKeys /\ rows'[<<g, 0>>] = View(p, <<g, 0>>)
    BY <1>1, CommitTx, KeyFacts DEF IInv
  <2>2. /\ dirty[p][<<g, 0>>] \in Row
        /\ dirty[p][<<g, 0>>].state = NewState(d) /\ dirty[p][<<g, 0>>].by = who
    BY <1>a DEF LoopInv
  <2>3. View(p, <<g, 0>>) = dirty[p][<<g, 0>>]
    BY <2>2, Sentinels DEF View
  <2> QED BY <2>1, <2>2, <2>3, Sentinels DEF RowSays, NewState
<1>10. \A h \in Gates : EntryInv(p, h)'
  <2>1. EntryInv(p, g)'
    BY <1>4, <1>5, <1>9 DEF EntryInv, RowSays, NewState
  <2>2. \A h \in Gates \ {g} : EntryInv(p, h)'
    BY <1>2, <1>5, EntryKept
  <2> QED BY <2>1, <2>2
<1>11. \A h \in Gates : ToldInv(h)'
  <2>1. told[g] = {}
    <3>1. ~Decided(g)
      BY <1>a DEF LoopInv, Decided
    <3> QED BY <3>1, SaysDecided DEF IInv, ToldInv
  <2>2. ToldInv(g)'
    BY <1>6, <1>9, <2>1 DEF ToldInv, RowSays, NewState
  <2>3. \A h \in Gates \ {g} : ToldInv(h)'
    BY <1>2, <1>6, ToldKept
  <2> QED BY <2>2, <2>3
<1>12. \A h \in Gates : RunInv(h)'
  <2>1. \A h \in Gates, q \in Procs :
          /\ up'[q] = up[q]
          /\ entry[q][h] # NoEntry => entry'[q][h] # NoEntry /\ entry'[q][h].id = entry[q][h].id
    BY <1>1, <1>4, <1>5
  <2>2. \A h \in Gates : run'[h] = run[h]
    BY <1>1
  <2> QED BY <1>2, <2>1, <2>2, RunKept
<1> QED BY <1>2, <1>7, <1>8, <1>10, <1>11, <1>12 DEF IInv

LEMMA DecideLegacyStep ==
  ASSUME IInv, NEW p \in Procs, NEW g \in Gates, NEW d \in Choices, NEW who \in People,
         DecideLegacy(p, g, d, who)
  PROVE  IInv'
<1>1. /\ entry[p][g] \in Entry /\ entry[p][g] # NoEntry /\ ~entry[p][g].id
      /\ loop[p].pc = "idle" /\ UNCHANGED <<loop, run, told, up>>
      /\ CommitConn(p) \/ RollbackConn(p)
  BY DEF DecideLegacy, Free, IInv, DataType
<1>2. PICK e \in {Answered(entry[p][g], d, who), [entry[p][g] EXCEPT !.decision = d, !.by = who]} :
        entry' = [entry EXCEPT ![p][g] = e]
  <2>1. CASE entry' = [entry EXCEPT ![p][g] = Answered(@, d, who)]
    BY <2>1
  <2>2. CASE entry' = [entry EXCEPT ![p][g].decision = d, ![p][g].by = who]
    <3>1. entry' = [entry EXCEPT ![p][g] = [@ EXCEPT !.decision = d, !.by = who]]
      BY <1>1, <2>2 DEF IInv, DataType
    <3> QED BY <3>1
  <2> QED BY <2>1, <2>2 DEF DecideLegacy
<1>3. e \in Entry /\ e.id = FALSE /\ e # NoEntry
  <2>1. e \in Entry /\ e.id = entry[p][g].id
    BY <1>1, <1>2 DEF Answered, Entry
  <2>2. entry[p][g].id = FALSE
    BY <1>1 DEF Entry
  <2> QED BY <2>1, <2>2, Sentinels
<1>4. /\ entry' \in [Procs -> [Gates -> Entry \cup {NoEntry}]]
      /\ entry'[p][g] = e
      /\ \A h \in Gates \ {g} : entry'[p][h] = entry[p][h]
      /\ \A q \in Procs \ {p} : entry'[q] = entry[q]
  BY <1>2, <1>3 DEF IInv, DataType
<1>5. /\ TxInv' /\ Kept /\ \A q \in Procs \ {p} : Frame(q)
      /\ \A k \in RowKeys : dirty'[p][k] = Clean
  BY <1>1, CommitTx, RollbackTx, CommitKept, SameKept DEF IInv
<1>6. DataType'
  BY <1>1, <1>4 DEF IInv, DataType
<1>7. \A q \in Procs \ {p} : LoopInv(q)' /\ \A h \in Gates : EntryInv(q, h)'
  BY <1>1, <1>4, <1>5, OthersKept
<1>8. LoopInv(p)'
  BY <1>1, <1>5, KeyFacts DEF LoopInv, NoWrites
<1>9. \A h \in Gates : EntryInv(p, h)' /\ ToldInv(h)'
  <2>1. EntryInv(p, g)'
    BY <1>3, <1>4 DEF EntryInv
  <2>2. \A h \in Gates \ {g} : EntryInv(p, h)'
    BY <1>4, <1>5, EntryKept
  <2>3. \A h \in Gates : ToldInv(h)'
    BY <1>1, <1>5, ToldKept
  <2> QED BY <2>1, <2>2, <2>3
<1>10. \A h \in Gates : RunInv(h)'
  <2>1. entry[p][g].id = e.id
    BY <1>1, <1>3 DEF Entry
  <2>2. \A h \in Gates, q \in Procs :
          /\ up'[q] = up[q]
          /\ entry[q][h] # NoEntry => entry'[q][h] # NoEntry /\ entry'[q][h].id = entry[q][h].id
    BY <1>1, <1>3, <1>4, <2>1
  <2> QED BY <1>1, <1>5, <2>2, RunKept
<1> QED BY <1>5, <1>6, <1>7, <1>8, <1>9, <1>10 DEF IInv

LEMMA ResumeStep ==
  ASSUME IInv, NEW p \in Procs, NEW g \in Gates, Resume(p, g)
  PROVE  IInv'
<1>1. /\ loop[p].pc = "idle" /\ run[g].home = p /\ run[g].pc = "waiting"
      /\ entry[p][g] # NoEntry /\ entry[p][g].set
      /\ UNCHANGED <<entry, loop, told, up>>
      /\ CommitConn(p) \/ RollbackConn(p)
      /\ run[g] \in Run /\ entry[p][g] \in Entry
  BY DEF Resume, Free, IInv, DataType
<1>2. /\ TxInv' /\ Kept /\ \A q \in Procs \ {p} : Frame(q)
      /\ \A k \in RowKeys : dirty'[p][k] = Clean
  BY <1>1, CommitTx, RollbackTx, CommitKept, SameKept DEF IInv
<1>3. PICK r \in {[run[g] EXCEPT !.pc = "failed"],
                  [run[g] EXCEPT !.pc = "acted", !.decision = entry[p][g].decision,
                                 !.by = entry[p][g].by]} :
        run' = [run EXCEPT ![g] = r]
  <2>1. CASE run' = [run EXCEPT ![g].pc = "failed"]
    BY <2>1
  <2>2. CASE run' = [run EXCEPT ![g].pc = "acted", ![g].decision = entry[p][g].decision,
                                ![g].by = entry[p][g].by]
    <3>1. run' = [run EXCEPT ![g] = [@ EXCEPT !.pc = "acted", !.decision = entry[p][g].decision,
                                              !.by = entry[p][g].by]]
      BY <1>1, <2>2 DEF IInv, DataType
    <3> QED BY <3>1
  <2> QED BY <2>1, <2>2 DEF Resume
<1>4. /\ r \in Run /\ r.id = run[g].id
      /\ \/ r.pc = "failed"
         \/ r.pc = "acted" /\ r.decision = entry[p][g].decision /\ r.by = entry[p][g].by
  BY <1>1, <1>3 DEF Run, Entry
<1>5. /\ run' \in [Gates -> Run] /\ run'[g] = r
      /\ \A h \in Gates \ {g} : run'[h] = run[h]
  BY <1>3, <1>4 DEF IInv, DataType
<1>6. DataType'
  BY <1>1, <1>5 DEF IInv, DataType
<1>7. \A q \in Procs \ {p} : LoopInv(q)' /\ \A h \in Gates : EntryInv(q, h)'
  BY <1>1, <1>2, <1>5, OthersKept
<1>8. LoopInv(p)'
  BY <1>1, <1>2, KeyFacts DEF LoopInv, NoWrites
<1>9. \A h \in Gates : EntryInv(p, h)' /\ ToldInv(h)'
  BY <1>1, <1>2, EntryKept, ToldKept
<1>10. RunInv(g)'
  <2>1. RunInv(g) /\ EntryInv(p, g)
    BY DEF IInv
  <2>2. run[g].id => RowSays(g, entry[p][g].decision, entry[p][g].by)
    BY <1>1, <2>1 DEF RunInv, EntryInv
  <2>3. r.pc = "acted" /\ r.id =>
          /\ rows'[<<g, 0>>] # NoRow
          /\ r.decision \in Choices /\ r.by \in People
          /\ rows'[<<g, 0>>].state = NewState(r.decision)
          /\ rows'[<<g, 0>>].by = r.by
    BY <1>2, <1>4, <2>2 DEF Kept, RowSays, Decided, NewState
  <2> QED BY <1>4, <1>5, <2>3 DEF RunInv, RowSays, NewState
<1>11. \A h \in Gates \ {g} : RunInv(h)'
  BY <1>1, <1>2, <1>5, RunKept
<1> QED BY <1>2, <1>6, <1>7, <1>8, <1>9, <1>10, <1>11 DEF IInv

LEMMA CrashStep ==
  ASSUME IInv, NEW p \in Procs, Crash(p)
  PROVE  IInv'
<1>1. /\ RollbackConn(p) /\ UNCHANGED told
      /\ up' = [up EXCEPT ![p] = FALSE]
      /\ loop' = [loop EXCEPT ![p] = IdleCall]
      /\ entry' = [entry EXCEPT ![p] = [g \in Gates |-> NoEntry]]
  BY DEF Crash
<1>2. /\ TxInv' /\ Kept /\ \A q \in Procs \ {p} : Frame(q)
      /\ loop' \in [Procs -> Call] /\ \A q \in Procs \ {p} : loop'[q] = loop[q]
      /\ LoopInv(p)'
  BY <1>1, EndStep
<1>3. /\ entry' \in [Procs -> [Gates -> Entry \cup {NoEntry}]]
      /\ \A g \in Gates : entry'[p][g] = NoEntry
      /\ \A q \in Procs \ {p} : entry'[q] = entry[q]
      /\ up' \in [Procs -> BOOLEAN] /\ \A q \in Procs \ {p} : up'[q] = up[q]
  BY <1>1 DEF IInv, DataType
<1>4. \A g \in Gates : \/ run'[g] = run[g] /\ ~(run[g].home = p /\ run[g].pc = "waiting")
                       \/ run[g].home = p /\ run'[g] = [run[g] EXCEPT !.pc = "lost"]
  BY DEF Crash
<1>5. \A g \in Gates : [run[g] EXCEPT !.pc = "lost"] \in Run
                       /\ [run[g] EXCEPT !.pc = "lost"].pc = "lost"
  BY DEF IInv, DataType, Run
<1>6. DataType'
  <2>1. run' \in [Gates -> Run]
    BY <1>5 DEF Crash, IInv, DataType
  <2> QED BY <1>1, <1>2, <1>3, <2>1 DEF IInv, DataType
<1>7. \A q \in Procs \ {p} : LoopInv(q)' /\ \A g \in Gates : EntryInv(q, g)'
  BY <1>2, <1>3, <1>4, OthersKept
<1>8. \A g \in Gates : EntryInv(p, g)' /\ ToldInv(g)'
  <2>1. \A g \in Gates : EntryInv(p, g)'
    BY <1>3 DEF EntryInv
  <2> QED BY <1>1, <1>2, <2>1, ToldKept
<1>9. ASSUME NEW g \in Gates PROVE RunInv(g)'
  <2>1. CASE run'[g] = run[g] /\ ~(run[g].home = p /\ run[g].pc = "waiting")
    BY <1>2, <1>3, <2>1, RunKept
  <2>2. CASE run'[g] = [run[g] EXCEPT !.pc = "lost"]
    <3>1. run'[g].pc = "lost"
      BY <1>5, <2>2
    <3> QED BY <3>1 DEF RunInv
  <2> QED BY <1>4, <2>1, <2>2
<1> QED BY <1>2, <1>6, <1>7, <1>8, <1>9 DEF IInv

LEMMA RestartStep ==
  ASSUME IInv, NEW p \in Procs, Restart(p)
  PROVE  IInv'
<1>1. /\ ~up[p] /\ up' = [up EXCEPT ![p] = TRUE]
      /\ UNCHANGED <<rows, dirty, lock, loop, run, told>>
  BY DEF Restart
<1>2. /\ TxInv' /\ Kept /\ \A q \in Procs : Frame(q)
  BY <1>1 DEF IInv, TxInv, TxType, WritesLocked, Kept, Frame
<1>3. loop[p].pc = "idle" /\ LoopInv(p)
  BY <1>1 DEF IInv, LoopInv
<1>4. NewEntry(TRUE) \in Entry /\ NewEntry(TRUE).set = FALSE
  BY DEF NewEntry, Entry
<1>5. /\ entry' \in [Procs -> [Gates -> Entry \cup {NoEntry}]]
      /\ \A g \in Gates : entry'[p][g] \in {entry[p][g], NewEntry(TRUE), NoEntry}
      /\ \A q \in Procs \ {p} : entry'[q] = entry[q]
  <2>1. CASE UNCHANGED entry
    BY <2>1 DEF IInv, DataType
  <2>2. CASE entry' = [entry EXCEPT ![p] =
                        [g \in Gates |-> IF Pending(g) THEN NewEntry(TRUE) ELSE NoEntry]]
    BY <1>4, <2>2 DEF IInv, DataType
  <2> QED BY <2>1, <2>2 DEF Restart
<1>6. up' \in [Procs -> BOOLEAN] /\ \A q \in Procs \ {p} : up'[q] = up[q]
  BY <1>1 DEF IInv, DataType
<1>7. DataType'
  BY <1>1, <1>5, <1>6 DEF IInv, DataType
<1>8. \A q \in Procs \ {p} : LoopInv(q)' /\ \A g \in Gates : EntryInv(q, g)'
  BY <1>1, <1>2, <1>5, <1>6, OthersKept
<1>9. LoopInv(p)'
  BY <1>1, <1>3 DEF LoopInv, NoWrites
<1>10. ASSUME NEW g \in Gates PROVE EntryInv(p, g)' /\ ToldInv(g)'
  <2>1. CASE entry'[p][g] = entry[p][g]
    BY <1>1, <1>2, <2>1, EntryKept, ToldKept
  <2>2. CASE entry'[p][g] \in {NewEntry(TRUE), NoEntry}
    BY <1>1, <1>2, <1>4, <2>2, ToldKept DEF EntryInv
  <2> QED BY <1>5, <2>1, <2>2
<1>11. \A g \in Gates : RunInv(g)'
  <2>1. \A g \in Gates : ~(run[g].pc = "waiting" /\ run[g].home = p)
    BY <1>1 DEF IInv, RunInv
  <2> QED BY <1>1, <1>2, <1>5, <1>6, <2>1, RunKept
<1> QED BY <1>2, <1>7, <1>8, <1>9, <1>10, <1>11 DEF IInv

LEMMA StutterStep ==
  ASSUME IInv, UNCHANGED vars
  PROVE  IInv'
<1>1. UNCHANGED <<rows, dirty, lock, entry, loop, run, told, up>>
  BY DEF vars
<1>2. TxInv' /\ Kept /\ \A q \in Procs : Frame(q)
  BY <1>1 DEF IInv, TxInv, TxType, WritesLocked, Kept, Frame
<1>3. DataType'
  BY <1>1 DEF IInv, DataType
<1>4. \A p \in Procs : LoopInv(p)' /\ \A g \in Gates : EntryInv(p, g)'
  BY <1>1, <1>2, LoopKept, EntryKept
<1>5. \A g \in Gates : RunInv(g)' /\ ToldInv(g)'
  BY <1>1, <1>2, RunKept, ToldKept
<1> QED BY <1>2, <1>3, <1>4, <1>5 DEF IInv

LEMMA IStep == IInv /\ [Next]_vars => IInv'
<1> SUFFICES ASSUME IInv, [Next]_vars PROVE IInv'
  OBVIOUS
<1>1. CASE UNCHANGED vars
  BY <1>1, StutterStep
<1>2. ASSUME NEW p \in Procs, NEW g \in Gates, CreateInsert(p, g) \/ Resume(p, g)
      PROVE  IInv'
  BY <1>2, CreateInsertStep, ResumeStep
<1>3. ASSUME NEW p \in Procs, NEW g \in Gates, NEW d \in Choices, NEW who \in People,
             DecideSelect(p, g, d, who) \/ DecideLegacy(p, g, d, who)
      PROVE  IInv'
  BY <1>3, DecideSelectStep, DecideLegacyStep
<1>4. ASSUME NEW p \in Procs, Continue(p) PROVE IInv'
  BY <1>4, CreateEndStep, RegisterStep, DecideInsertStep, DecideUpdateStep,
     DecideCommitStep, DecideEndStep DEF Continue
<1>5. ASSUME NEW p \in Procs, Crash(p) \/ Restart(p) PROVE IInv'
  BY <1>5, CrashStep, RestartStep
<1> QED BY <1>1, <1>2, <1>3, <1>4, <1>5 DEF Next

LEMMA Invariant == Spec => []IInv
  BY IInit, IStep, PTL DEF Spec

-----------------------------------------------------------------------------
(* The theorems. *)

\* The tables, the entries, the loops and the runs stay well typed.
THEOREM TypeCorrect == Spec => []TypeOK
  BY Invariant, InvType, PTL

\* However many processes decide a gate at the same time, crash and are restarted, one
\* caller at most hears applied=True, and the row keeps that decision.
THEOREM OneWinnerHolds == Spec => []OneWinner
  BY Invariant, InvWinner, PTL

\* The engine acts on a gate that has a row only as the committed row says.
THEOREM EngineFollows == Spec => []EngineFollowsRow
  BY Invariant, InvFollows, PTL

LEMMA StepKept == IInv /\ [Next]_vars => Kept
<1> SUFFICES ASSUME IInv, [Next]_vars PROVE Kept
  OBVIOUS
<1>1. CASE UNCHANGED vars
  BY <1>1, SameKept DEF vars
<1>2. ASSUME NEW p \in Procs, NEW g \in Gates, CreateInsert(p, g) \/ Resume(p, g)
      PROVE  Kept
  BY <1>2, SameKept, CommitKept DEF CreateInsert, Resume, WriteRow, WriteRows, RollbackConn
<1>3. ASSUME NEW p \in Procs, NEW g \in Gates, NEW d \in Choices, NEW who \in People,
             DecideSelect(p, g, d, who) \/ DecideLegacy(p, g, d, who)
      PROVE  Kept
  <2>1. CASE DecideSelect(p, g, d, who)
    <3>1. rows' = rows
      BY <2>1 DEF DecideSelect, SelectForUpdate
    <3> QED BY <3>1, SameKept
  <2>2. CASE DecideLegacy(p, g, d, who)
    BY <2>2, SameKept, CommitKept DEF DecideLegacy, RollbackConn
  <2> QED BY <1>3, <2>1, <2>2
<1>4. ASSUME NEW p \in Procs, Continue(p) PROVE Kept
  <2>1. CASE CreateEnd(p) \/ Register(p)
    BY <2>1, SameKept, CommitKept DEF CreateEnd, Register, RollbackConn
  <2>2. CASE DecideInsert(p) \/ DecideUpdate(p)
    BY <2>2, SameKept DEF DecideInsert, DecideUpdate, WriteRow, WriteRows
  <2>3. CASE DecideCommit(p) \/ DecideDenied(p) \/ DecideFail(p)
    BY <2>3, SameKept, CommitKept DEF DecideCommit, DecideDenied, DecideFail, RollbackConn
  <2> QED BY <1>4, <2>1, <2>2, <2>3 DEF Continue
<1>5. ASSUME NEW p \in Procs, Crash(p) \/ Restart(p) PROVE Kept
  BY <1>5, SameKept DEF Crash, Restart, RollbackConn
<1> QED BY <1>1, <1>2, <1>3, <1>4, <1>5 DEF Next

\* A decided row never changes again, whatever is in progress elsewhere.
THEOREM DecidedStays == Spec => DecidedIsFinal
<1>1. IInv /\ [Next]_vars => [\A g \in Gates : Decided(g) => rows'[<<g, 0>>] = rows[<<g, 0>>]]_rows
  BY StepKept DEF Kept
<1> QED BY <1>1, Invariant, PTL DEF Spec, DecidedIsFinal

-----------------------------------------------------------------------------
(* The refinement: the rows and the runs implement OneDecision. *)

VerdictOf(g) == IF ~Decided(g) THEN Nothing
                ELSE <<IF rows[<<g, 0>>].state = "approved" THEN "approve" ELSE "reject",
                       rows[<<g, 0>>].by>>

ActedOf(g) == IF run[g].pc = "acted" /\ run[g].id
              THEN <<run[g].decision, run[g].by>> ELSE Nothing

SameVerdicts == \A g \in Gates : VerdictOf(g)' = VerdictOf(g)
SameActed == \A g \in Gates : ActedOf(g)' = ActedOf(g)

LEMMA SameGate ==
  ASSUME SameVerdicts, SameActed
  PROVE  UNCHANGED Gate!gateVars
<1>1. [g \in Gates |-> VerdictOf(g)]' = [g \in Gates |-> VerdictOf(g)]
  BY DEF SameVerdicts
<1>2. [g \in Gates |-> ActedOf(g)]' = [g \in Gates |-> ActedOf(g)]
  BY DEF SameActed
<1> QED BY <1>1, <1>2 DEF Gate!gateVars, VerdictOf, ActedOf

LEMMA SettleMaps ==
  ASSUME NEW g \in Gates, NEW d \in Choices, NEW who \in People,
         VerdictOf(g) = Nothing, VerdictOf(g)' = <<d, who>>,
         \A h \in Gates \ {g} : VerdictOf(h)' = VerdictOf(h), SameActed
  PROVE  Gate!Next
<1>1. [h \in Gates |-> VerdictOf(h)]' =
        [[h \in Gates |-> VerdictOf(h)] EXCEPT ![g] = <<d, who>>]
  OBVIOUS
<1>2. [h \in Gates |-> ActedOf(h)]' = [h \in Gates |-> ActedOf(h)]
  BY DEF SameActed
<1>3. Gate!Settle(g, d, who)
  BY <1>1, <1>2 DEF Gate!Settle, VerdictOf, ActedOf
<1> QED BY <1>3 DEF Gate!Next

LEMMA ActMaps ==
  ASSUME NEW g \in Gates, VerdictOf(g) # Nothing, ActedOf(g) = Nothing,
         ActedOf(g)' = VerdictOf(g),
         \A h \in Gates \ {g} : ActedOf(h)' = ActedOf(h), SameVerdicts
  PROVE  Gate!Next
<1>1. [h \in Gates |-> ActedOf(h)]' =
        [[h \in Gates |-> ActedOf(h)] EXCEPT ![g] = VerdictOf(g)]
  OBVIOUS
<1>2. [h \in Gates |-> VerdictOf(h)]' = [h \in Gates |-> VerdictOf(h)]
  BY DEF SameVerdicts
<1>3. Gate!Act(g)
  BY <1>1, <1>2 DEF Gate!Act, VerdictOf, ActedOf
<1> QED BY <1>3 DEF Gate!Next

\* Steps that leave every approvals row alone.
RowsSame == \A g \in Gates : rows'[<<g, 0>>] = rows[<<g, 0>>]

LEMMA QuietCommit ==
  ASSUME IInv, NEW p \in Procs, NoWrites(p), CommitConn(p) \/ RollbackConn(p)
  PROVE  SameVerdicts
<1>1. RowsSame
  BY CommitTx, RollbackTx, KeyFacts DEF IInv, NoWrites, RowsSame, View
<1> QED BY <1>1 DEF RowsSame, SameVerdicts, VerdictOf, Decided

LEMMA RowsKept == rows' = rows => SameVerdicts
  BY DEF SameVerdicts, VerdictOf, Decided

LEMMA RunsKept ==
  ASSUME \A g \in Gates : run'[g] = run[g] \/ (run[g].pc # "acted" /\ run'[g].pc # "acted")
  PROVE  SameActed
  BY DEF SameActed, ActedOf

LEMMA CreateEndMaps ==
  ASSUME IInv, NEW p \in Procs, CreateEnd(p)
  PROVE  UNCHANGED Gate!gateVars
<1>1. SameActed
  BY RunsKept DEF CreateEnd
<1>2. LoopInv(p) /\ loop[p].pc = "created" /\ (CommitConn(p) \/ RollbackConn(p))
  BY DEF IInv, CreateEnd
<1>3. CASE CommitConn(p)
  <2>1. ASSUME NEW g \in Gates PROVE VerdictOf(g)' = VerdictOf(g)
    <3>1. rows'[<<g, 0>>] = View(p, <<g, 0>>)
      BY <1>3, CommitTx, KeyFacts DEF IInv
    <3>2. CASE g = loop[p].gate
      BY <1>2, <3>1, <3>2, Sentinels DEF LoopInv, View, VerdictOf, Decided
    <3>3. CASE g # loop[p].gate
      BY <1>2, <3>1, <3>3 DEF LoopInv, OnlyWrites, View, VerdictOf, Decided
    <3> QED BY <3>2, <3>3
  <2> QED BY <1>1, <2>1, SameGate DEF SameVerdicts
<1>4. CASE RollbackConn(p)
  BY <1>1, <1>4, RowsKept, SameGate DEF RollbackConn
<1> QED BY <1>2, <1>3, <1>4

LEMMA DecideCommitMaps ==
  ASSUME IInv, NEW p \in Procs, DecideCommit(p)
  PROVE  Gate!Next
<1>a. LoopInv(p) /\ loop[p].pc = "commit"
  BY DEF DecideCommit, IInv
<1> PICK g \in Gates : g = loop[p].gate
  BY <1>a DEF LoopInv
<1> PICK d \in Choices : d = loop[p].decision
  BY <1>a DEF LoopInv
<1> PICK who \in People : who = loop[p].by
  BY <1>a DEF LoopInv
<1>1. CommitConn(p) /\ run' = run
  BY DEF DecideCommit
<1>2. VerdictOf(g) = Nothing
  BY <1>a DEF LoopInv, VerdictOf, Decided
<1>3. \A h \in Gates : rows'[<<h, 0>>] = View(p, <<h, 0>>)
  BY <1>1, CommitTx, KeyFacts DEF IInv
<1>4. /\ dirty[p][<<g, 0>>] \in Row
      /\ dirty[p][<<g, 0>>].state = NewState(d) /\ dirty[p][<<g, 0>>].by = who
      /\ \A h \in Gates \ {g} : dirty[p][<<h, 0>>] = Clean
  BY <1>a DEF LoopInv, OnlyWrites
<1>5. /\ rows'[<<g, 0>>] # NoRow
      /\ rows'[<<g, 0>>].state = NewState(d) /\ rows'[<<g, 0>>].by = who
  BY <1>3, <1>4, Sentinels DEF View
<1>6. VerdictOf(g)' = <<d, who>>
  BY <1>5 DEF VerdictOf, Decided, NewState, Choices
<1>7. \A h \in Gates \ {g} : VerdictOf(h)' = VerdictOf(h)
  BY <1>3, <1>4 DEF View, VerdictOf, Decided
<1>8. SameActed
  BY <1>1, RunsKept
<1> QED BY <1>2, <1>6, <1>7, <1>8, SettleMaps

LEMMA ResumeMaps ==
  ASSUME IInv, IInv', NEW p \in Procs, NEW g \in Gates, Resume(p, g)
  PROVE  [Gate!Next]_Gate!gateVars
<1>1. /\ LoopInv(p) /\ loop[p].pc = "idle"
      /\ CommitConn(p) \/ RollbackConn(p)
      /\ run \in [Gates -> Run] /\ run[g].pc = "waiting"
  BY DEF Resume, Free, IInv, DataType
<1>2. SameVerdicts
  BY <1>1, QuietCommit DEF LoopInv, Resume, Free, IInv
<1>3. \A h \in Gates \ {g} : run'[h] = run[h]
  BY <1>1 DEF Resume
<1>4. \A h \in Gates \ {g} : ActedOf(h)' = ActedOf(h)
  BY <1>3 DEF ActedOf
<1>5. ActedOf(g) = Nothing
  BY <1>1 DEF ActedOf
<1>6. CASE ActedOf(g)' = Nothing
  <2>1. SameActed
    BY <1>4, <1>5, <1>6 DEF SameActed
  <2> QED BY <1>2, <2>1, SameGate
<1>7. CASE ActedOf(g)' # Nothing
  <2>1. run'[g].pc = "acted" /\ run'[g].id
        /\ ActedOf(g)' = <<run'[g].decision, run'[g].by>>
    BY <1>7 DEF ActedOf
  <2>2. PICK d \in Choices, who \in People :
          d = run'[g].decision /\ who = run'[g].by /\ RowSays(g, d, who)'
    BY <2>1 DEF IInv, RunInv, RowSays, NewState
  <2>3. VerdictOf(g)' = <<d, who>> /\ VerdictOf(g)' # Nothing
    <3>1. VerdictOf(g)' = <<d, who>>
      BY <2>2 DEF RowSays, VerdictOf, Decided, NewState, Choices
    <3> QED BY <3>1, Sentinels
  <2>4. VerdictOf(g)' = VerdictOf(g)
    BY <1>2 DEF SameVerdicts
  <2> QED BY <1>2, <1>4, <1>5, <2>1, <2>2, <2>3, <2>4, ActMaps
<1> QED BY <1>6, <1>7

LEMMA StepMaps == IInv /\ IInv' /\ [Next]_vars => [Gate!Next]_Gate!gateVars
<1> SUFFICES ASSUME IInv, IInv', [Next]_vars PROVE [Gate!Next]_Gate!gateVars
  OBVIOUS
<1>1. CASE UNCHANGED vars
  BY <1>1, RowsKept, RunsKept, SameGate DEF vars
<1>2. ASSUME NEW p \in Procs, NEW g \in Gates, CreateInsert(p, g)
      PROVE  UNCHANGED Gate!gateVars
  <2>1. SameVerdicts
    BY <1>2, RowsKept DEF CreateInsert, WriteRow, WriteRows
  <2>2. \A h \in Gates : run'[h] = run[h] \/ (run[h].pc # "acted" /\ run'[h].pc # "acted")
    BY <1>2 DEF CreateInsert, IInv, DataType, Run
  <2> QED BY <2>1, <2>2, RunsKept, SameGate
<1>3. ASSUME NEW p \in Procs, NEW g \in Gates, Resume(p, g)
      PROVE  [Gate!Next]_Gate!gateVars
  BY <1>3, ResumeMaps
<1>4. ASSUME NEW p \in Procs, NEW g \in Gates, NEW d \in Choices, NEW who \in People,
             DecideSelect(p, g, d, who) \/ DecideLegacy(p, g, d, who)
      PROVE  UNCHANGED Gate!gateVars
  <2>1. SameActed
    BY <1>4, RunsKept DEF DecideSelect, DecideLegacy
  <2>2. CASE DecideSelect(p, g, d, who)
    <3>1. rows' = rows
      BY <2>2 DEF DecideSelect, SelectForUpdate
    <3> QED BY <2>1, <3>1, RowsKept, SameGate
  <2>3. CASE DecideLegacy(p, g, d, who)
    <3>1. NoWrites(p) /\ (CommitConn(p) \/ RollbackConn(p))
      BY <2>3 DEF DecideLegacy, Free, IInv, LoopInv
    <3> QED BY <2>1, <3>1, QuietCommit, SameGate
  <2> QED BY <1>4, <2>2, <2>3
<1>5. ASSUME NEW p \in Procs, Continue(p)
      PROVE  [Gate!Next]_Gate!gateVars
  <2>1. CASE CreateEnd(p)
    BY <2>1, CreateEndMaps
  <2>2. CASE Register(p)
    <3>1. LoopInv(p) /\ loop[p].pc = "register" /\ (CommitConn(p) \/ RollbackConn(p))
      BY <2>2 DEF Register, IInv
    <3>2. NoWrites(p) /\ loop[p].gate \in Gates /\ run[loop[p].gate].pc = "creating"
      BY <3>1 DEF LoopInv
    <3>3. \A h \in Gates : run'[h] = run[h] \/ (run[h].pc # "acted" /\ run'[h].pc # "acted")
      BY <2>2, <3>2 DEF Register, IInv, DataType, Run
    <3> QED BY <3>1, <3>2, <3>3, QuietCommit, RunsKept, SameGate
  <2>3. CASE DecideInsert(p) \/ DecideUpdate(p)
    BY <2>3, RowsKept, RunsKept, SameGate DEF DecideInsert, DecideUpdate, WriteRow, WriteRows
  <2>4. CASE DecideCommit(p)
    BY <2>4, DecideCommitMaps
  <2>5. CASE DecideDenied(p)
    <3>1. NoWrites(p) /\ CommitConn(p)
      BY <2>5 DEF DecideDenied, IInv, LoopInv
    <3> QED BY <2>5, <3>1, QuietCommit, RunsKept, SameGate DEF DecideDenied
  <2>6. CASE DecideFail(p)
    BY <2>6, RowsKept, RunsKept, SameGate DEF DecideFail, RollbackConn
  <2> QED BY <1>5, <2>1, <2>2, <2>3, <2>4, <2>5, <2>6 DEF Continue
<1>6. ASSUME NEW p \in Procs, Crash(p) PROVE UNCHANGED Gate!gateVars
  <2>1. \A g \in Gates : run'[g] = run[g] \/ (run[g].pc # "acted" /\ run'[g].pc # "acted")
    BY <1>6 DEF Crash, IInv, DataType, Run
  <2> QED BY <1>6, <2>1, RowsKept, RunsKept, SameGate DEF Crash, RollbackConn
<1>7. ASSUME NEW p \in Procs, Restart(p) PROVE UNCHANGED Gate!gateVars
  BY <1>7, RowsKept, RunsKept, SameGate DEF Restart
<1> QED BY <1>1, <1>2, <1>3, <1>4, <1>5, <1>6, <1>7 DEF Next

LEMMA InitMaps == Init => Gate!Init
<1> SUFFICES ASSUME Init PROVE Gate!Init
  OBVIOUS
<1>1. \A g \in Gates : VerdictOf(g) = Nothing /\ ActedOf(g) = Nothing
  BY KeyFacts DEF Init, TxInit, VerdictOf, Decided, ActedOf, NoRun
<1> QED BY <1>1 DEF Gate!Init, VerdictOf, ActedOf

\* A gate is settled once, by one person, and the engine acts on it at most once and the
\* way it was settled, whatever the processes, their locks and their crashes do.
THEOREM ImplementsOneDecision == Spec => IsOneDecision
  BY Invariant, IStep, InitMaps, StepMaps, PTL DEF Spec, IsOneDecision, Gate!Spec

=============================================================================
