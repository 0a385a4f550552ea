--------------------------- MODULE EventStoreTx ---------------------------
(***************************************************************************)
(* The transactions of orchestra/coordinator/event_store.py over one       *)
(* table.  An EventStore owns ONE psycopg connection (autocommit off), and *)
(* every method runs its statements inside `with self._tx()`, which        *)
(* commits the CONNECTION at the end, or rolls it back on an exception.    *)
(* Sync endpoints run in a thread pool, so several workers of one process  *)
(* may have statements in the same open transaction; workers of different  *)
(* processes have different connections and are separated by row locks.    *)
(*                                                                         *)
(*   rows[k]      the committed row with key k (NoRow: no such row)        *)
(*   dirty[c][k]  what connection c has written to k and not committed     *)
(*                (Clean: nothing)                                         *)
(*   lock[k]      the connection that holds k's row lock, or NoConn        *)
(***************************************************************************)
CONSTANTS Keys,    \* the primary keys the table may ever hold
          Conns,   \* the database connections, one per running process
          NoRow, Clean, NoConn

VARIABLES rows, dirty, lock

AllClean == [k \in Keys |-> Clean]

TxInit == /\ rows = [k \in Keys |-> NoRow]
          /\ dirty = [c \in Conns |-> AllClean]
          /\ lock = [k \in Keys |-> NoConn]

\* What a statement on connection c reads: its own writes over the committed rows.
View(c, k) == IF dirty[c][k] = Clean THEN rows[k] ELSE dirty[c][k]

\* A row lock blocks the other connections, never the threads of its own.
LockFree(c, k) == lock[k] \in {NoConn, c}

\* Mutant: a plain SELECT, which neither waits for the row lock nor takes it.
SelectForUpdate_Plain(c, k) == UNCHANGED <<rows, dirty, lock>>

\* SELECT ... FOR UPDATE of the existing row k.
SelectForUpdate(c, k) == /\ LockFree(c, k)
                         /\ lock' = [lock EXCEPT ![k] = c]
                         /\ UNCHANGED <<rows, dirty>>

\* An INSERT or UPDATE of the rows in S, that leaves new[k] in row k.
WriteRows(c, S, new) ==
    /\ \A k \in S : LockFree(c, k)
    /\ lock' = [k \in Keys |-> IF k \in S THEN c ELSE lock[k]]
    /\ dirty' = [dirty EXCEPT ![c] = [k \in Keys |-> IF k \in S THEN new[k] ELSE @[k]]]
    /\ UNCHANGED rows

Released(c) == [k \in Keys |-> IF lock[k] = c THEN NoConn ELSE lock[k]]

\* Normal exit of _tx: everything the connection wrote, by whichever thread.
CommitConn(c) == /\ rows' = [k \in Keys |-> View(c, k)]
                 /\ dirty' = [dirty EXCEPT ![c] = AllClean]
                 /\ lock' = Released(c)

\* Exceptional exit of _tx, or the end of the process.
RollbackConn(c) == /\ dirty' = [dirty EXCEPT ![c] = AllClean]
                   /\ lock' = Released(c)
                   /\ UNCHANGED rows
=============================================================================
