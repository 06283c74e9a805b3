--------------------------------- MODULE Rds ---------------------------------
(* EmbeddedRDS of server/storage/rds.go and ConfigOpContext of               *)
(* server/config/config_storage.go over one SQLite database. The database is *)
(* external: a transaction takes the write lock with its first statement and *)
(* keeps what it writes to itself until Commit; a query under way holds off  *)
(* every commit; who waits for a lock longer than the busy timeout gets an   *)
(* error, and a Commit that gets it is rolled back by the driver.            *)
EXTENDS Naturals, Sequences

CONSTANTS
  Sessions,      \* goroutines, each with one call
  Rows,          \* rows of the table: 1 .. n
  StatementLists,\* sequences of statements [no, row]
  Nobody

ASSUME RdsAssumption ==
  /\ Rows \subseteq Nat /\ \E n \in Rows : Rows = 1 .. n
  /\ \A reqs \in StatementLists : reqs \in Seq([no : Nat, row : Rows]) /\ reqs # <<>>
  /\ Nobody \notin Sessions

VARIABLES
  db,            \* by row: the statement that wrote it, and its caller
  writeLock,     \* holder of the write lock
  session,       \* by caller: operation, where it is, statements to go
  pending,       \* by caller: the rows its transaction has written
  fate,          \* by caller: what became of its transaction
  answer,        \* by caller: whether the call returned an error
  cache,         \* by caller: the row that the pointers of ExecuteQuery hold
  results,       \* by caller: the records of ExecuteQuery, as pointers
  began          \* by caller: db when its query began

rdsVars == <<db, writeLock, session, pending, fate, answer, cache, results, began>>
queryVars == <<cache, results, began>>

NoRow == [by |-> Nobody, no |-> 0]
Nothing == [r \in Rows |-> NoRow]

RdsInit ==
  /\ db = Nothing
  /\ writeLock = Nobody
  /\ session = [c \in Sessions |-> [op |-> "none", at |-> "idle", todo |-> <<>>]]
  /\ pending = [c \in Sessions |-> Nothing]
  /\ fate = [c \in Sessions |-> "none"]
  /\ answer = [c \in Sessions |-> "none"]
  /\ cache = [c \in Sessions |-> NoRow]
  /\ results = [c \in Sessions |-> <<>>]
  /\ began = [c \in Sessions |-> Nothing]

Reading == {c \in Sessions : session[c].op = "query" /\ session[c].at = "exec"}
Statement(c) == Head(session[c].todo)
Written(c) == [by |-> c, no |-> Statement(c).no]
At(c, op, where) == session[c].op = op /\ session[c].at = where
Goto(c, where) == session' = [session EXCEPT ![c].at = where]
Enter(c, op, todo) ==
  /\ session[c].at = "idle"
  /\ session' = [session EXCEPT ![c] = [op |-> op, at |-> "exec", todo |-> todo]]

\* The next statement, and Commit behind the last.
Advance(c) ==
  session' = [session EXCEPT ![c] = [op |-> @.op, todo |-> Tail(session[c].todo),
                               at |-> IF Len(session[c].todo) = 1 THEN "commit" ELSE "exec"]]

Return(c, what) == Goto(c, "done") /\ answer' = [answer EXCEPT ![c] = what]

AsGiven(reqs) == {reqs}
\* sort.Sort(reqs): by No, statements of the same No in any order.
Sort(reqs) ==
  {s \in {[i \in DOMAIN reqs |-> reqs[p[i]]] :
            p \in {q \in [DOMAIN reqs -> DOMAIN reqs] :
                     \A i, j \in DOMAIN reqs : q[i] = q[j] => i = j}} :
     \A i, j \in DOMAIN reqs : i < j => s[i].no <= s[j].no}

\* tx.Exec: the first one takes the write lock.
ExecInTx(c) ==
  /\ writeLock \in {Nobody, c}
  /\ writeLock' = c
  /\ pending' = [pending EXCEPT ![c][Statement(c).row] = Written(c)]
  /\ UNCHANGED <<db, fate, answer, queryVars>>

Unlock(c) == writeLock' = IF writeLock = c THEN Nobody ELSE writeLock

RollbackLost(c) ==
  /\ UNCHANGED writeLock
  /\ fate' = [fate EXCEPT ![c] = "rolled back"]
  /\ UNCHANGED <<db, pending, queryVars>>

Rollback(c) ==
  /\ Unlock(c)
  /\ fate' = [fate EXCEPT ![c] = "rolled back"]
  /\ UNCHANGED <<db, pending, queryVars>>

Commit(c) ==
  /\ Reading = {}
  /\ db' = [r \in Rows |-> IF pending[c][r] = NoRow THEN db[r] ELSE pending[c][r]]
  /\ Unlock(c)
  /\ fate' = [fate EXCEPT ![c] = "committed"]
  /\ UNCHANGED <<pending, queryVars>>

\* BUSY, or an error of the file system.
CommitRefused(c) == Rollback(c)
-----------------------------------------------------------------------------
ExecuteModify(c, reqs) ==
  /\ \E sorted \in Sort(reqs) : Enter(c, "modify", sorted)
  /\ UNCHANGED <<db, writeLock, pending, fate, answer, queryVars>>

ModifyBeginFails(c) ==
  /\ session[c].at = "idle"
  /\ session' = [session EXCEPT ![c] = [op |-> "modify", at |-> "done", todo |-> <<>>]]
  /\ answer' = [answer EXCEPT ![c] = "error"]
  /\ UNCHANGED <<db, writeLock, pending, fate, queryVars>>

ModifyExec(c) == At(c, "modify", "exec") /\ ExecInTx(c) /\ Advance(c)

\* Supplier panics, and the deferred function rolls back. The error that
\* recover returns, and those of Rollback and Commit, go to a variable of
\* its own: the caller is answered nil.
ModifyExecFails(c) ==
  At(c, "modify", "exec") /\ Rollback(c) /\ Return(c, "nil")

ModifyCommits(c) ==
  At(c, "modify", "commit") /\ Commit(c) /\ Return(c, "nil")

ModifyCommitFails(c) ==
  At(c, "modify", "commit") /\ CommitRefused(c) /\ Return(c, "nil")
-----------------------------------------------------------------------------
\* transaction begins a tx and gives f the pool: its statements commit one
\* by one, on other connections.
Transaction(c, statements) ==
  /\ Enter(c, "transaction", statements)
  /\ UNCHANGED <<db, writeLock, pending, fate, answer, queryVars>>

FExec(c) ==
  /\ At(c, "transaction", "exec")
  /\ writeLock = Nobody /\ Reading = {}
  /\ db' = [db EXCEPT ![Statement(c).row] = Written(c)]
  /\ Advance(c)
  /\ UNCHANGED <<writeLock, pending, fate, answer, queryVars>>

\* f returns an error: the answer is that of Rollback.
FFails(c) ==
  At(c, "transaction", "exec") /\ Rollback(c) /\ Return(c, "nil")

\* The transaction has written nothing; its Commit takes no lock.
TransactionCommits(c) ==
  /\ At(c, "transaction", "commit")
  /\ fate' = [fate EXCEPT ![c] = "committed"]
  /\ Return(c, "nil")
  /\ UNCHANGED <<db, writeLock, pending, queryVars>>
-----------------------------------------------------------------------------
\* ConfigOpContext: Begin, a chain of functions on its tx, and Commit.
OpBegin(c, chain) ==
  /\ Enter(c, "config", chain)
  /\ UNCHANGED <<db, writeLock, pending, fate, answer, queryVars>>

OpRun(c) == At(c, "config", "exec") /\ ExecInTx(c) /\ Advance(c)

\* CfgFunction has no result: a statement that fails is passed over, and the
\* chain and the Commit go on without it.
OpRunFails(c) ==
  /\ At(c, "config", "exec")
  /\ Advance(c)
  /\ UNCHANGED <<db, writeLock, pending, fate, answer, queryVars>>

\* The functions of the chain return no error; one that panics leaves the
\* tx open, as nothing rolls it back.
OpPanics(c) ==
  /\ At(c, "config", "exec")
  /\ Goto(c, "abandoned")
  /\ UNCHANGED <<db, writeLock, pending, fate, answer, queryVars>>

OpCommits(c) ==
  At(c, "config", "commit") /\ Commit(c) /\ Return(c, "nil")

OpCommitFails(c) ==
  At(c, "config", "commit") /\ CommitRefused(c) /\ Return(c, "error")

\* database/sql rolls a tx back when the context it was begun with ends.
ContextEnds(c) ==
  /\ session[c].op = "config" /\ session[c].at \in {"exec", "commit", "abandoned"}
  /\ Rollback(c) /\ Return(c, "error")
-----------------------------------------------------------------------------
ExecuteQuery(c) ==
  /\ Enter(c, "query", [r \in Rows |-> [no |-> 0, row |-> r]])
  /\ began' = [began EXCEPT ![c] = db]
  /\ UNCHANGED <<db, writeLock, pending, fate, answer, cache, results>>

\* The record holds the pointer that every row is scanned into.
Pointer(c) == [cache |-> c]

Scan(c) ==
  /\ At(c, "query", "exec")
  /\ cache' = [cache EXCEPT ![c] = db[Statement(c).row]]
  /\ results' = [results EXCEPT ![c] = Append(@, Pointer(c))]
  /\ IF Len(session[c].todo) = 1
     THEN Return(c, "nil")
     ELSE Advance(c) /\ UNCHANGED answer
  /\ UNCHANGED <<db, writeLock, pending, fate, began>>

\* The query fails, and its panic becomes no results and no error; or Next
\* does, and the rows read so far are the answer.
QueryFails(c) ==
  /\ At(c, "query", "exec")
  /\ Return(c, "nil")
  /\ UNCHANGED <<db, writeLock, pending, fate, queryVars>>

Step(c) ==
  \/ ModifyExec(c) \/ ModifyExecFails(c) \/ ModifyCommits(c) \/ ModifyCommitFails(c)
  \/ FExec(c) \/ FFails(c) \/ TransactionCommits(c)
  \/ OpRun(c) \/ OpRunFails(c) \/ OpPanics(c) \/ OpCommits(c) \/ OpCommitFails(c)
  \/ Scan(c) \/ QueryFails(c)

RdsNext ==
  \E c \in Sessions :
    \/ \E reqs \in StatementLists : ExecuteModify(c, reqs) \/ Transaction(c, reqs) \/ OpBegin(c, reqs)
    \/ ExecuteQuery(c) \/ ModifyBeginFails(c)
    \/ Step(c) \/ ContextEnds(c)

\* A call that was begun goes on: no statement waits past the busy timeout.
RdsSpec == RdsInit /\ [][RdsNext]_rdsVars /\ \A c \in Sessions : WF_rdsVars(Step(c))
-----------------------------------------------------------------------------
Deref(p) == cache[p.cache]
Abandoned(c) == session[c].at = "abandoned"
LastNo(reqs, row) == CHOOSE n \in {reqs[i].no : i \in {j \in DOMAIN reqs : reqs[j].row = row}} :
                       \A i \in DOMAIN reqs : reqs[i].row = row => reqs[i].no <= n
Writes(reqs, row) == \E i \in DOMAIN reqs : reqs[i].row = row
ModifiedBy(r, op) == db[r].by # Nobody /\ session[db[r].by].op = op
Together(r, s) == \A reqs \in StatementLists : Writes(reqs, r) <=> Writes(reqs, s)

(* The batch of an ExecuteModify is never seen in part: what it wrote is     *)
(* there only if it committed, and of two rows that every batch writes       *)
(* together both come from it or the other was written later, by a           *)
(* Transaction or a ConfigOpContext; nothing is said of those, as the one    *)
(* commits statement by statement and the other may commit a part of its     *)
(* chain. Of several statements of the batch on a row the one with the       *)
(* highest No stands. A query reads one state, the one it began in, however  *)
(* writers interleave with it; but each of its records is the last row it    *)
(* has read, as they share the pointers that rows are scanned into.          *)
ModifiesAreWhole ==
  /\ \A r \in Rows : ModifiedBy(r, "modify") =>
       /\ fate[db[r].by] = "committed"
       /\ \E reqs \in StatementLists : db[r].no = LastNo(reqs, r)
       /\ \A s \in Rows : Together(r, s) /\ db[s].by # db[r].by =>
            ModifiedBy(s, "transaction") \/ ModifiedBy(s, "config")
  /\ \A c \in Sessions : At(c, "query", "done") =>
       \A i \in DOMAIN results[c] : Deref(results[c][i]) = began[c][Len(results[c])]

(* The write lock comes free whatever fails, except under a ConfigOpContext  *)
(* whose chain panicked: it has no way to roll back. While such a one has    *)
(* the lock nothing is written by anyone, although ExecuteModify and         *)
(* Transaction go on answering nil, until the context it was begun with      *)
(* ends.                                                                     *)
LockComesFree ==
  /\ \A c \in Sessions : writeLock = c ~> writeLock # c \/ Abandoned(c)
  /\ [][\A c \in Sessions : writeLock = c /\ Abandoned(c) =>
          db' = db /\ (writeLock' = c \/ ContextEnds(c))]_rdsVars
=============================================================================
