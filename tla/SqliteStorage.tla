---------------------------- MODULE SqliteStorage ----------------------------
(***************************************************************************)
(* The storage of one actor above its SQLite connection: SqliteDatabase,   *)
(* SqliteKv, SqliteMetadata (src/src/util), the transactions that          *)
(* ActorSqlite opens in it (src/src/io/actor-sqlite.ts), and the kv, sql,  *)
(* transaction() and transactionSync() calls of src/src/api.               *)
(*                                                                         *)
(* The connection is one record, and an operation is a function from       *)
(* connections to connections built from the statements it runs, so that a *)
(* statement that fails half way leaves what the code leaves.  How a       *)
(* statement ends is chosen: "done", "error" (nothing happens) or          *)
(* "critical" (SQLite rolls the whole transaction back on its own).        *)
(* SQLite itself, the fields db and stack, is modelled from its use.       *)
(***************************************************************************)
EXTENDS ListRange, SqlRegulator, SequencesExt

CONSTANTS
  Keys,          \* the keys the application stores: strings of ListRange
  MaxAlarm,      \* bound on alarm times
  MaxClosures,   \* bound on nested transaction() closures
  MaxCalls,      \* bound on nested transactionSync() calls
  MaxRows,       \* bound on the limit of a kv.list() call
  MaxCallbacks,  \* bound on the rollback callbacks registered at once
  Iterators,     \* the kv.list() iterators the application holds
  ListsOutlast,  \* whether they are held across the edges of transactions
  Queries        \* what the application passes to sql.exec()

ASSUME SqliteStorageAssumption ==
  /\ MaxAlarm \in Nat /\ MaxClosures \in Nat /\ MaxCalls \in Nat
  /\ MaxRows \in Nat /\ MaxCallbacks \in Nat /\ ListsOutlast \in BOOLEAN

NoAlarm  == 0
Uncached == -1
NoCursor == "none"

VARIABLES
  conn,      \* the connection, see Opened
  calls,     \* the transactionSync() callbacks that are running, outermost first
  closures,  \* the transaction() closures that are running, outermost first
  lists,     \* lists[i]: kv.list() iterator i
  current,   \* #currentCursor: the iterator whose cursor it is, or NoCursor
  listed,    \* if list() was the last call: its options, and the range it read
  torn       \* whether a call that threw left something it had written

vars == <<conn, calls, closures, lists, current, listed, torn>>

-----------------------------------------------------------------------------
(***************************************************************************)
(* The database and the connection                                         *)
(***************************************************************************)

EmptyDb ==
  [kvTable |-> FALSE, kv |-> {}, metaTable |-> FALSE, alarm |-> NoAlarm,
   rows |-> FALSE, reserved |-> "own"]

\* A connection to a file: what the constructors of SqliteDatabase, SqliteKv,
\* SqliteMetadata and ActorSqlite find in it.
Opened(file) ==
  [db |-> file, stack |-> <<>>, schemaWritable |-> FALSE,
   inTransaction |-> FALSE, savepoints |-> <<>>, callbacks |-> <<>>, critical |-> FALSE,
   kvCreated |-> file.kvTable, metaCreated |-> file.metaTable, cache |-> file.alarm,
   txn |-> "none", depth |-> 0, threw |-> FALSE]

Committed == IF conn.stack = <<>> THEN conn.db ELSE conn.stack[1].image

Unused == [state |-> "free", left |-> 0]

\* No call of list() was the last call.
NotListed == [asked |-> NoOptions, range |-> NoRange]

Init ==
  /\ conn = Opened(EmptyDb)
  /\ calls = <<>> /\ closures = <<>>
  /\ lists = [i \in Iterators |-> Unused] /\ current = NoCursor
  /\ listed = NotListed /\ torn = FALSE

Throw(c) == [c EXCEPT !.threw = TRUE]

\* Runs no further once a call threw.
Then(c, step(_)) == IF c.threw THEN c ELSE step(c)

AssertUsable(c) == IF c.critical THEN Throw(c) ELSE c

InTransaction(c) == c.inTransaction \/ c.savepoints # <<>>

OnRollback(c, callback) ==
  IF InTransaction(c) THEN [c EXCEPT !.callbacks = Append(@, callback)] ELSE c

ForgetKvTable   == [what |-> "kv", cache |-> Uncached]
ForgetMetaTable == [what |-> "meta", cache |-> Uncached]
RestoreCache(t) == [what |-> "cache", cache |-> t]

\* Callbacks run in the reverse order of their registration, so of several that
\* restore the cache the first one registered decides.
RunRollbackCallbacksDownTo(c, index) ==
  LET Run(what) == {j \in index + 1..Len(c.callbacks) : c.callbacks[j].what = what}
  IN [c EXCEPT
       !.callbacks   = SubSeq(@, 1, index),
       !.kvCreated   = @ /\ Run("kv") = {},
       !.metaCreated = @ /\ Run("meta") = {},
       !.cache       = IF Run("cache") = {} THEN @
                       ELSE c.callbacks[Min(Run("cache"))].cache]

-----------------------------------------------------------------------------
(***************************************************************************)
(* Transaction control: what SQLite does, and applyChange()                *)
(***************************************************************************)

Implicit        == <<"begin", 0>>
Explicit(d)     == <<"txn", d>>
SyncCall(d)     == <<"sync", d>>
PutMultipleMark == <<"put", 0>>

\* The savepoint a name means: the last one that has it, or 0.
Named(s, name) == Max({0} \cup {i \in DOMAIN s : s[i].name = name})

Begin(c) ==
  IF c.stack # <<>> THEN Throw(c)
  ELSE [c EXCEPT !.stack = <<[name |-> Implicit, image |-> c.db]>>, !.inTransaction = TRUE]

Savepoint(c, name) ==
  LET d == AssertUsable(c)
  IN IF d.threw THEN d
     ELSE [d EXCEPT
            !.stack      = Append(@, [name |-> name, image |-> c.db]),
            !.savepoints = Append(@, [name |-> name, index |-> Len(c.callbacks)])]

DropCallbacksIfDone(c) == IF InTransaction(c) THEN c ELSE [c EXCEPT !.callbacks = <<>>]

Commit(c) ==
  IF c.critical \/ ~c.inTransaction THEN Throw(c)
  ELSE DropCallbacksIfDone(
         [c EXCEPT !.stack = <<>>, !.savepoints = <<>>, !.inTransaction = FALSE])

Release(c, name) ==
  LET at == Named(c.stack, name)
  IN IF c.critical \/ at = 0 THEN Throw(c)
     ELSE DropCallbacksIfDone(
            [c EXCEPT !.stack      = SubSeq(@, 1, at - 1),
                      !.savepoints = SubSeq(@, 1, Named(@, name) - 1)])

RollbackTo(c, name) ==
  LET at == Named(c.stack, name)
      to == Named(c.savepoints, name)
  IN IF c.critical \/ at = 0 THEN Throw(c)
     ELSE RunRollbackCallbacksDownTo(
            [c EXCEPT !.db = c.stack[at].image, !.stack = SubSeq(@, 1, at),
                      !.savepoints = SubSeq(@, 1, to)],
            c.savepoints[to].index)

Rollback(c) ==
  IF c.critical \/ ~c.inTransaction THEN Throw(c)
  ELSE RunRollbackCallbacksDownTo(
         [c EXCEPT !.db = c.stack[1].image, !.stack = <<>>,
                   !.savepoints = <<>>, !.inTransaction = FALSE], 0)

\* ROLLBACK TO and RELEASE, the way every savepoint of the runtime is undone.
UndoSavepoint(c, name) == Then(RollbackTo(c, name), LAMBDA d : Release(d, name))

\* #onWrite(): a write outside any transaction opens the implicit one.
NotifyWrite(c) ==
  IF c.critical THEN Throw(c)
  ELSE IF c.txn # "none" THEN c
  ELSE Then(Begin(c), LAMBDA d : [d EXCEPT !.txn = "implicit"])

\* #checkForAutoRollback(): SQLite rolled back, and nobody else may have.
AutoRollback(c) ==
  IF c.stack = <<>> THEN Throw(c)
  ELSE [c EXCEPT !.db = c.stack[1].image, !.stack = <<>>, !.inTransaction = FALSE,
                 !.savepoints = <<>>, !.callbacks = <<>>, !.critical = TRUE,
                 !.threw = TRUE]

\* One of the first n statements of a call fails, or none does.
Faults(n) == [at : 1..n, how : {"error", "critical"}] \cup {[at |-> 0, how |-> "done"]}
Ends(f, n) == IF f.at = n THEN f.how ELSE "done"

\* One statement that writes: #execStatement().
Write(c, db, how) ==
  Then(Then(AssertUsable(c), NotifyWrite), LAMBDA d :
    CASE how = "done"     -> [d EXCEPT !.db = db]
      [] how = "error"    -> Throw(d)
      [] how = "critical" -> AutoRollback(d))

-----------------------------------------------------------------------------
(***************************************************************************)
(* SqliteKv and SqliteMetadata                                             *)
(***************************************************************************)

\* seeded fault: a table stays remembered when its creation is rolled back.
EnsureKvForGood(c, how) ==
  IF c.kvCreated THEN c
  ELSE Then(Write(c, [c.db EXCEPT !.kvTable = TRUE], how),
            LAMBDA d : [d EXCEPT !.kvCreated = TRUE])

EnsureKv(c, how) ==
  IF c.kvCreated THEN c
  ELSE Then(Write(c, [c.db EXCEPT !.kvTable = TRUE], how),
            LAMBDA d : OnRollback([d EXCEPT !.kvCreated = TRUE], ForgetKvTable))

\* A statement on a table that is not there is an error of SQLite.
OnKvTable(c, kv, how) ==
  Then(c, LAMBDA d :
    Write(d, [d.db EXCEPT !.kv = kv], IF d.db.kvTable THEN how ELSE "error"))

KvPut(c, keys, how)    == OnKvTable(c, c.db.kv \cup keys, how)
KvDelete(c, keys, how) == OnKvTable(c, c.db.kv \ keys, how)

\* seeded fault: the puts before the one that failed are kept.
PutMultipleKeepsPrefix(c, first, second, f) ==
  LET begun == Then(NotifyWrite(c), LAMBDA d : EnsureKv(d, Ends(f, 1)))
      marked == Then(begun, LAMBDA d : Savepoint(d, PutMultipleMark))
      put    == KvPut(KvPut(marked, {first}, Ends(f, 2)), {second}, Ends(f, 3))
  IN IF marked.threw THEN marked
     ELSE IF put.threw THEN Throw(Release([put EXCEPT !.threw = FALSE], PutMultipleMark))
     ELSE Release(put, PutMultipleMark)

\* Two entries, in a savepoint of their own; putMultiple() of ActorSqlite starts
\* the implicit transaction first, because a SAVEPOINT is not a write.
PutMultiple(c, first, second, f) ==
  LET begun  == Then(NotifyWrite(c), LAMBDA d : EnsureKv(d, Ends(f, 1)))
      marked == Then(begun, LAMBDA d : Savepoint(d, PutMultipleMark))
      put    == KvPut(KvPut(marked, {first}, Ends(f, 2)), {second}, Ends(f, 3))
  IN IF marked.threw THEN marked
     ELSE IF put.threw
       THEN Throw(UndoSavepoint([put EXCEPT !.threw = FALSE], PutMultipleMark))
     ELSE Release(put, PutMultipleMark)

EnsureMeta(c, how) ==
  IF c.metaCreated THEN c
  ELSE Then(Write(c, [c.db EXCEPT !.metaTable = TRUE], how),
            LAMBDA d : OnRollback([d EXCEPT !.metaCreated = TRUE], ForgetMetaTable))

\* #ensureCached()
GetAlarm(c) ==
  IF c.critical THEN Throw(c)
  ELSE IF c.cache # Uncached THEN c
  ELSE IF ~c.metaCreated THEN [c EXCEPT !.cache = NoAlarm]
  ELSE IF ~c.db.metaTable THEN Throw(c)
  ELSE [c EXCEPT !.cache = c.db.alarm]

SetAlarm(c, t, f) ==
  IF c.critical THEN Throw(c)
  ELSE IF c.cache = t THEN c
  ELSE LET made == EnsureMeta(c, Ends(f, 1))
           set  == Then(made, LAMBDA d :
                     Write(d, [d.db EXCEPT !.alarm = t],
                           IF d.db.metaTable THEN Ends(f, 2) ELSE "error"))
       IN Then(set, LAMBDA d :
            [OnRollback(d, RestoreCache(c.cache)) EXCEPT !.cache = t])

\* SqliteDatabase.reset() and its listeners.
Reset(c) ==
  IF c.critical \/ InTransaction(c) THEN Throw(c)
  ELSE [c EXCEPT !.db = EmptyDb, !.kvCreated = FALSE,
                 !.metaCreated = FALSE, !.cache = Uncached]

\* deleteAll() of ActorSqlite, with the alarm going too, as the API asks for.
DeleteAll(c) ==
  Then(GetAlarm(c), LAMBDA d :
    IF d.txn = "explicit" THEN Throw(d)
    ELSE LET closed == IF d.txn = "implicit" THEN [Rollback(d) EXCEPT !.txn = "none"] ELSE d
         IN Then(closed, Reset))

-----------------------------------------------------------------------------
(***************************************************************************)
(* sql.exec()                                                              *)
(***************************************************************************)

\* Everything but SELECT, EXPLAIN and transaction control counts as a write.
IsWrite(s) == s.form \notin {"select", "control"}

\* What SQLite does with a statement that was let through.
SqlEffect(c, s) ==
  CASE s.effect = "insert"        -> [c EXCEPT !.db.rows = TRUE]
    [] s.effect = "delete"        -> [c EXCEPT !.db.rows = FALSE]
    [] s.effect = "reserved"      -> [c EXCEPT !.db.reserved = "changed"]
    [] s.effect = "writable"      -> [c EXCEPT !.schemaWritable = TRUE]
    [] s.effect = "rewriteSchema" -> IF c.schemaWritable
                                       THEN [c EXCEPT !.db.reserved = "changed"]
                                       ELSE Throw(c)
    [] s.effect = "commit"        -> Commit(c)
    [] s.effect = "read"          -> c

RunStatement(c, s, how) ==
  Then(IF IsWrite(s) THEN NotifyWrite(c) ELSE c, LAMBDA d :
    CASE how = "done"     -> SqlEffect(d, s)
      [] how = "error"    -> Throw(d)
      [] how = "critical" -> AutoRollback(d))

\* Statement by statement: one that is refused or fails stops the rest and leaves
\* the effects of those before it.
Exec(c, query, f) ==
  LET Step(d, i) ==
        Then(d, LAMBDA e : IF IsRefused(query[i]) THEN Throw(e)
                           ELSE RunStatement(e, query[i], Ends(f, i)))
  IN IF c.critical \/ ~NamesAreAllowed(query) THEN Throw(c)
     ELSE FoldLeft(Step, c, [i \in DOMAIN query |-> i])

-----------------------------------------------------------------------------
(***************************************************************************)
(* The actions: one call of the application each                           *)
(***************************************************************************)

\* A call left the connection at c.
Returns(c) ==
  /\ conn' = [c EXCEPT !.threw = FALSE]
  /\ listed' = NotListed

\* A call that threw should have left the part of the database that it was to
\* change as it was.
MayTear(c, part(_), before) ==
  torn' = (torn \/ (c.threw /\ ~c.critical /\ part(c.db) # part(before)))

Roomy == Len(conn.callbacks) < MaxCallbacks

\* A transaction may begin: a bound on the iterators that are held.
NoListsHeld == ListsOutlast \/ \A i \in Iterators : lists[i].state = "free"

Put ==
  /\ Roomy
  /\ \E k \in Keys, f \in Faults(2) :
       Returns(KvPut(EnsureKv(conn, Ends(f, 1)), {k}, Ends(f, 2)))
  /\ UNCHANGED <<calls, closures, lists, current, torn>>

Delete ==
  /\ Roomy
  /\ \E k \in Keys, f \in Faults(2) :
       Returns(KvDelete(EnsureKv(conn, Ends(f, 1)), {k}, Ends(f, 2)))
  /\ UNCHANGED <<calls, closures, lists, current, torn>>

PutEntries ==
  /\ Roomy
  /\ \E j, k \in Keys, f \in Faults(3) :
       /\ Less(j, k)
       /\ LET c == PutMultiple(conn, j, k, f)
          IN Returns(c) /\ MayTear(c, LAMBDA db : db.kv, conn.db)
  /\ UNCHANGED <<calls, closures, lists, current>>

ReadAlarm ==
  /\ Returns(GetAlarm(conn))
  /\ UNCHANGED <<calls, closures, lists, current, torn>>

WriteAlarm ==
  /\ Roomy
  /\ \E t \in 0..MaxAlarm, f \in Faults(2) : Returns(SetAlarm(conn, t, f))
  /\ UNCHANGED <<calls, closures, lists, current, torn>>

SqlExec ==
  /\ \E query \in Queries : \E f \in Faults(Len(query)) : Returns(Exec(conn, query, f))
  /\ UNCHANGED <<calls, closures, lists, current, torn>>

-----------------------------------------------------------------------------
(***************************************************************************)
(* transactionSync()                                                       *)
(***************************************************************************)

CutAll == [n \in DOMAIN calls |-> [entry |-> EmptyDb, cut |-> TRUE]]

SyncEnter ==
  /\ Len(calls) < MaxCalls /\ NoListsHeld
  /\ LET c == Then(NotifyWrite(conn), LAMBDA d : Savepoint(d, SyncCall(Len(calls))))
     IN /\ Returns(c)
        /\ calls' = IF c.threw THEN calls
                    ELSE Append(calls, [entry |-> conn.db, cut |-> FALSE])
  /\ UNCHANGED <<closures, lists, current, torn>>

UndoCall(c, name) == IF c.critical THEN Throw(c) ELSE Throw(UndoSavepoint(c, name))

\* The innermost call ends at c; what was written after its transaction was ended
\* under it is not its own.
EndCall(c) ==
  LET call == Last(calls) IN
  /\ Returns(c)
  /\ IF call.cut THEN UNCHANGED torn ELSE MayTear(c, LAMBDA db : db, call.entry)
  /\ calls' = Front(calls)
  /\ UNCHANGED <<closures, lists, current>>

\* The callback returns.  A RELEASE that fails is answered by a rollback.
SyncReturn ==
  /\ calls # <<>>
  /\ LET name == SyncCall(Len(calls) - 1)
         c    == Release(conn, name)
     IN EndCall(IF c.threw THEN UndoCall(conn, name) ELSE c)

\* The callback throws, or returns a promise.
SyncThrow ==
  /\ calls # <<>>
  /\ EndCall(UndoCall(conn, SyncCall(Len(calls) - 1)))

-----------------------------------------------------------------------------
(***************************************************************************)
(* transaction() and the implicit transaction                              *)
(***************************************************************************)

\* The new ExplicitTxn commits an implicit transaction that is open.
StartTransaction ==
  /\ calls = <<>> /\ Len(closures) < MaxClosures /\ ~conn.critical
  /\ NoListsHeld
  /\ LET before == IF conn.txn = "implicit" THEN Commit(conn) ELSE conn
         c      == Savepoint(before, Explicit(conn.depth))
     IN Returns([c EXCEPT !.txn = "explicit", !.depth = conn.depth + 1])
  /\ closures' = Append(closures, "open")
  /\ UNCHANGED <<calls, lists, current, torn>>

\* currentTxn once the innermost explicit transaction is gone.
Dropped(c) ==
  [c EXCEPT !.depth = @ - 1, !.txn = IF c.depth = 1 THEN "none" ELSE "explicit"]

\* txn.rollback() of the innermost transaction, perhaps inside a transactionSync()
\* callback, whose savepoint goes with it.
RollbackTransaction ==
  /\ ~conn.critical
  /\ \E n \in DOMAIN closures :
       /\ closures[n] = "open" /\ \A m \in n + 1..Len(closures) : closures[m] # "open"
       /\ closures' = [closures EXCEPT ![n] = "rolledBack"]
  /\ Returns(Dropped(UndoSavepoint(conn, Explicit(conn.depth - 1))))
  /\ calls' = CutAll
  /\ UNCHANGED <<lists, current, torn>>

\* The closure resolves: maybeCommit().  A commit that is refused because the
\* actor is broken leaves the transaction behind.
ClosureResolves ==
  /\ calls = <<>> /\ closures # <<>>
  /\ Returns(
       IF Last(closures) = "rolledBack" THEN conn
       ELSE IF conn.critical THEN Throw(conn)
       ELSE LET c == IF conn.depth = 1 THEN GetAlarm(conn) ELSE conn
            IN Dropped(Release(c, Explicit(conn.depth - 1))))
  /\ closures' = Front(closures)
  /\ UNCHANGED <<calls, lists, current, torn>>

\* The closure rejects: maybeRollback() drops the transaction.
ClosureRejects ==
  /\ calls = <<>> /\ closures # <<>>
  /\ Returns(Throw(
       IF Last(closures) = "rolledBack" THEN conn
       ELSE IF conn.critical THEN Dropped(conn)
       ELSE Dropped(UndoSavepoint(conn, Explicit(conn.depth - 1)))))
  /\ closures' = Front(closures)
  /\ UNCHANGED <<calls, lists, current, torn>>

\* The commit of the implicit transaction, at the end of the checkpoint.
CommitImplicit ==
  /\ calls = <<>> /\ conn.txn = "implicit"
  /\ \E how \in {"done", "error", "critical"} :
       LET c == GetAlarm(conn)
           d == CASE c.threw          -> c
                  [] how = "done"     -> Commit(c)
                  [] how = "error"    -> Throw(Rollback(c))
                  [] how = "critical" -> AutoRollback(c)
       IN Returns([d EXCEPT !.txn = "none"])
  /\ UNCHANGED <<calls, closures, lists, current, torn>>

-----------------------------------------------------------------------------
(***************************************************************************)
(* Lists, deleteAll() and a new start                                      *)
(***************************************************************************)

Canceled ==
  IF current = NoCursor THEN lists ELSE [lists EXCEPT ![current].state = "canceled"]

\* kv.list({limit}), with every limit.  Without a table the cursor has no rows and
\* cancels no other.
OpenList(i) ==
  /\ lists[i].state = "free" /\ (ListsOutlast \/ (calls = <<>> /\ closures = <<>>))
  /\ Returns(AssertUsable(conn))
  /\ IF conn.critical THEN UNCHANGED <<lists, current>>
     ELSE IF ~conn.kvCreated
       THEN /\ lists' = [lists EXCEPT ![i] = [state |-> "empty", left |-> 0]]
            /\ UNCHANGED current
     ELSE /\ \E limit \in 1..MaxRows :
               lists' = [Canceled EXCEPT ![i] =
                 [state |-> "live", left |-> Min({limit, Cardinality(conn.db.kv)})]]
          /\ current' = i
  /\ UNCHANGED <<calls, closures, torn>>

\* One call of next() of the generator: a row, the end, or an error, after which
\* the iterator is of no use.
NextOfList(i) ==
  /\ \/ /\ lists[i].state = "live" /\ lists[i].left > 0
        /\ lists' = [lists EXCEPT ![i].left = @ - 1]
        /\ UNCHANGED current
     \/ /\ lists[i].state = "live" /\ lists[i].left = 0
        /\ lists' = [lists EXCEPT ![i].state = "free"]
        /\ current' = IF current = i THEN NoCursor ELSE current
     \/ /\ lists[i].state = "empty"
        /\ lists' = [lists EXCEPT ![i].state = "free"]
        /\ UNCHANGED current
     \/ /\ lists[i].state = "canceled"
        /\ lists' = [lists EXCEPT ![i] = Unused]
        /\ UNCHANGED current
  /\ UNCHANGED <<conn, calls, closures, listed, torn>>

\* list() of the promise API reads its cursor to the end.  The options do not
\* depend on what is stored: they vary while nothing was stored yet.
List ==
  /\ \E o \in Options :
       /\ o # NoOptions => conn = Opened(EmptyDb) /\ calls = <<>> /\ closures = <<>>
       /\ conn' = conn
       /\ listed' = [asked |-> o, range |-> CompileListOptions(o)]
  /\ IF conn.kvCreated /\ ~conn.critical
       THEN lists' = Canceled /\ current' = NoCursor
       ELSE UNCHANGED <<lists, current>>
  /\ UNCHANGED <<calls, closures, torn>>

\* deleteAll(), perhaps inside a transactionSync() callback, whose savepoint goes
\* with the implicit transaction.
DeleteEverything ==
  /\ LET c == DeleteAll(conn) IN
     /\ Returns(c)
     /\ IF c.threw THEN UNCHANGED <<calls, lists, current>>
        ELSE calls' = CutAll /\ lists' = Canceled /\ current' = NoCursor
  /\ UNCHANGED <<closures, torn>>

\* The actor is evicted or its worker dies, and a new one opens the file.
Restart ==
  /\ conn' = Opened(Committed)
  /\ calls' = <<>> /\ closures' = <<>>
  /\ lists' = [i \in Iterators |-> Unused] /\ current' = NoCursor
  /\ listed' = NotListed
  /\ UNCHANGED torn

Next ==
  \/ Put \/ Delete \/ PutEntries \/ ReadAlarm \/ WriteAlarm \/ SqlExec
  \/ SyncEnter \/ SyncReturn \/ SyncThrow
  \/ StartTransaction \/ RollbackTransaction \/ ClosureResolves \/ ClosureRejects
  \/ CommitImplicit
  \/ \E i \in Iterators : OpenList(i)
  \/ \E i \in Iterators : NextOfList(i)
  \/ List \/ DeleteEverything \/ Restart

Spec == Init /\ [][Next]_vars
-----------------------------------------------------------------------------
(***************************************************************************)
(* Properties                                                              *)
(***************************************************************************)

Databases ==
  [kvTable : BOOLEAN, kv : SUBSET Keys, metaTable : BOOLEAN, alarm : 0..MaxAlarm,
   rows : BOOLEAN, reserved : {"own", "changed"}]

\* The shape of the state.
TypeOK ==
  /\ conn.db \in Databases
  /\ \A i \in DOMAIN conn.stack : conn.stack[i].image \in Databases
  /\ conn.cache \in {Uncached} \cup 0..MaxAlarm
  /\ conn.txn \in {"none", "implicit", "explicit"} /\ conn.depth \in 0..MaxClosures
  /\ Len(calls) <= MaxCalls /\ Len(closures) <= MaxClosures
  /\ current \in Iterators \cup {NoCursor}

\* list() reads the keys its options ask for, no more and no fewer: the clamping
\* of start and end to the prefix in compileListOptions() neither drops a key at
\* an edge of the prefix, whose last unit may be maximal, nor lets one in.
RangeIsWhatWasAsked ==
  listed # NotListed =>
    \A key \in Strings(MaxLength + 1) :
      InRange(key, listed.range) <=> Asked(key, listed.asked)

\* A transactionSync() call that throws leaves the database as it found it, tables
\* it created included, and so does a put() of several entries, except for the
\* table (actor-sqlite.ts, transactionSync(); sqlite-kv.ts, #putMultiple()).  Not
\* so for a callback that ended the transaction under itself, by deleteAll() or by
\* the rollback() of an outer transaction.
FailedCallsLeaveNothing == ~torn

\* A table that is remembered and not there: every get(), put() and setAlarm() that
\* goes to it fails with "no such table".
Missing ==
  {t \in {"_cf_KV", "_cf_METADATA"} :
     IF t = "_cf_KV" THEN conn.kvCreated /\ ~conn.db.kvTable
                     ELSE conn.metaCreated /\ ~conn.db.metaTable}

\* What a caller would read, and what the marks of the transactions hold.
Content(db) ==
  [kv |-> db.kv, alarm |-> db.alarm, rows |-> db.rows, reserved |-> db.reserved,
   missing |-> {}]
View ==
  IF conn.critical THEN Content(conn.db)
  ELSE [Content(conn.db) EXCEPT
          !.kv      = IF conn.kvCreated THEN @ ELSE {},
          !.alarm   = IF conn.cache # Uncached THEN conn.cache
                      ELSE IF conn.metaCreated THEN @ ELSE NoAlarm,
          !.missing = Missing]

Store == INSTANCE TransactionalStore WITH
  Contents <- [kv : SUBSET Keys, alarm : 0..MaxAlarm, rows : BOOLEAN,
               reserved : {"own"}, missing : {{}}],
  Empty    <- Content(EmptyDb),
  Readers  <- Iterators,
  content  <- View,
  marks    <- [i \in DOMAIN conn.stack |-> Content(conn.stack[i].image)],
  usable   <- ~conn.critical,
  reading  <- {i \in Iterators : lists[i].state = "live"}

\* Read through what is remembered of it, the storage behaves as a store that
\* remembers nothing: a rollback shows the content of its mark and leaves no table
\* remembered that went with it, nothing is written outside a transaction or to the
\* tables and the schema of the runtime by sql.exec(), and at most one list() is
\* being read, none of it beyond a deleteAll() (sqlite-kv.ts, #tableCreated and
\* #currentCursor; sqlite-metadata.ts; sql.ts).
ImplementsStore == Store!Spec
=============================================================================
