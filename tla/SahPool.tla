------------------------------ MODULE SahPool ------------------------------
(***************************************************************************)
(* The SQLite files of every actor inside one OPFS SAH pool                *)
(* (src/backends/sqlite-wasm.ts): how a worker gets the pool after another *)
(* one was terminated, how a terminated transaction is undone, how the     *)
(* pool is kept large enough for every file SQLite may create, and how     *)
(* databases are exported, cloned and replaced.                            *)
(*                                                                         *)
(* A file <<p, n>> holds database n under prefix p.  Its content is Fresh  *)
(* (empty, no transaction committed), Written, or Torn (a transaction is   *)
(* half written into it); its journal, when there is one, holds the        *)
(* content that undoes the transaction.  A journal may also be an orphan,  *)
(* whose database is gone.  SQLite and the driver of the pool are modelled *)
(* from their use.                                                         *)
(***************************************************************************)
EXTENDS Integers, Sequences, FiniteSets

CONSTANTS
  Prefixes,     \* the prefixes: one for every actor or facet
  Names,        \* the names of the databases of one prefix
  Initial,      \* initialCapacity
  MaxQueue,     \* bound on the steps queued at once
  MaxExports,   \* bound on the sets of images that are out of the pool at once
  MaxFaults     \* bound on terminated workers and failing calls into the driver

ASSUME SahPoolAssumption ==
  /\ IsFiniteSet(Prefixes) /\ IsFiniteSet(Names)
  /\ Initial \in Nat /\ MaxQueue \in Nat /\ MaxExports \in Nat /\ MaxFaults \in Nat

Files == Prefixes \X Names
Of(p) == {f \in Files : f[1] = p}

Absent  == "absent"
Fresh   == "fresh"
Written == "written"
Torn    == "torn"
Images  == {Absent, Fresh, Written, Torn}

VARIABLES
  pool,       \* content and journal of every file, and the capacity
  installed,  \* "no", "waiting" (released() is polling) or "yes"
  held,       \* whether a terminated worker still holds the handles of the pool
  conns,      \* conns[f]: the connection to f: "closed", "idle", "writing", or
              \* "dead" (closed by a reset that failed)
  queue,      \* the steps of withHeadroom(), the running one first
  snapshot,   \* the images a host keeps: [of, image, lost], of one prefix or of the pool
  acked,      \* acked[f]: the last content somebody was told is stored, or that a
              \* deletion, a reset or an open left when it failed
  lost,       \* files that nobody vouches for: of a replacement that died with its
              \* worker or could not undo itself (SqliteWasmRestoreError), of a deletion
              \* cut off between a hot journal and its database, or a copy of such a file
  faults      \* workers terminated, and calls into the driver that failed

vars == <<pool, installed, held, conns, queue, snapshot, acked, lost, faults>>

NoSnapshot == [of |-> "none", image |-> [f \in Files |-> Absent], lost |-> {}]

Init ==
  /\ pool = [content |-> [f \in Files |-> Absent], journal |-> [f \in Files |-> Absent],
             capacity |-> Initial]
  /\ installed = "no" /\ held = FALSE
  /\ conns = [f \in Files |-> "closed"]
  /\ queue = <<>> /\ snapshot = NoSnapshot
  /\ acked = [f \in Files |-> Absent]
  /\ lost = {} /\ faults = 0

-----------------------------------------------------------------------------
(***************************************************************************)
(* Files and connections                                                   *)
(***************************************************************************)

Databases == {f \in Files : pool.content[f] # Absent}
Journals  == {f \in Files : pool.journal[f] # Absent}
Used      == Cardinality(Databases) + Cardinality(Journals)
HasRoom   == Used < pool.capacity

Open        == {f \in Files : conns[f] # "closed"}
Connections == Cardinality(Open)

\* The pool once the connections to the files in s are closed: SQLite undoes a
\* transaction that is open.
Closed(s) ==
  LET undone == {f \in s : conns[f] = "writing"}
  IN [pool EXCEPT
       !.content = [f \in Files |-> IF f \in undone THEN pool.journal[f] ELSE @[f]],
       !.journal = [f \in Files |-> IF f \in undone THEN Absent ELSE @[f]]]

\* unlink() of the databases in dbs and of the journals in sides.
Without(q, dbs, sides) ==
  [q EXCEPT !.content = [f \in Files |-> IF f \in dbs THEN Absent ELSE @[f]],
            !.journal = [f \in Files |-> IF f \in sides THEN Absent ELSE @[f]]]

Disconnected(s) == [f \in Files |-> IF f \in s THEN "closed" ELSE conns[f]]

\* The databases with their hot journals rolled back into them.  SQLite deletes the
\* journal it finds beside an empty database, and sees none without a database.
Recovered(q, s) ==
  LET hot == {f \in s : q.content[f] # Absent /\ q.journal[f] # Absent}
  IN [q EXCEPT
       !.content = [f \in Files |-> IF f \in hot /\ @[f] # Fresh THEN q.journal[f] ELSE @[f]],
       !.journal = [f \in Files |-> IF f \in hot THEN Absent ELSE @[f]]]

\* The first read of a connection replays a hot journal (rollBackHotJournals()).
FirstRead(q, f) == Recovered(q, {f})

\* A call into the driver fails, or the worker is terminated.
Fault == faults < MaxFaults /\ faults' = faults + 1

-----------------------------------------------------------------------------
(***************************************************************************)
(* The worker: installSqliteWasmHost() and its termination                 *)
(***************************************************************************)

\* Calls while an install is under way share it.
Install ==
  /\ installed = "no" /\ installed' = "waiting"
  /\ UNCHANGED <<pool, held, conns, queue, snapshot, acked, lost, faults>>

\* released() opened and closed every file.
Installs ==
  /\ installed = "waiting" /\ ~held
  /\ installed' = "yes"
  /\ UNCHANGED <<pool, held, conns, queue, snapshot, acked, lost, faults>>

\* The files were held for POOL_RELEASE_TIMEOUT_MS.
InstallTimesOut ==
  /\ installed = "waiting" /\ held
  /\ installed' = "no"
  /\ UNCHANGED <<pool, held, conns, queue, snapshot, acked, lost, faults>>

ReleaseHandles ==
  /\ held /\ held' = FALSE
  /\ UNCHANGED <<pool, installed, conns, queue, snapshot, acked, lost, faults>>

\* Files that the running step has begun to replace.
BeingReplaced ==
  IF queue # <<>> /\ Head(queue).stage \in {"importing", "undoing", "restoring"}
    THEN Head(queue).targets ELSE {}

\* The worker is terminated.
Dies ==
  /\ installed' = "no" /\ held' = TRUE
  /\ conns' = [f \in Files |-> "closed"]
  /\ queue' = <<>> /\ snapshot' = NoSnapshot

\* The rollback of a replacement lives in memory and goes too.
Terminate ==
  /\ installed = "yes" /\ Fault /\ Dies
  /\ lost' = lost \cup BeingReplaced
  /\ UNCHANGED <<pool, acked>>

-----------------------------------------------------------------------------
(***************************************************************************)
(* The connection to one database                                          *)
(***************************************************************************)

\* The first write of a transaction creates the journal.
BeginWrite(f) ==
  /\ conns[f] = "idle" /\ HasRoom
  /\ conns' = [conns EXCEPT ![f] = "writing"]
  /\ pool' = [pool EXCEPT !.journal[f] = pool.content[f], !.content[f] = Torn]
  /\ UNCHANGED <<installed, held, queue, snapshot, acked, lost, faults>>

CommitWrite(f) ==
  /\ conns[f] = "writing" /\ conns' = [conns EXCEPT ![f] = "idle"]
  /\ pool' = [pool EXCEPT !.journal[f] = Absent, !.content[f] = Written]
  /\ acked' = [acked EXCEPT ![f] = Written]
  /\ UNCHANGED <<installed, held, queue, snapshot, lost, faults>>

RollbackWrite(f) ==
  /\ conns[f] = "writing" /\ conns' = [conns EXCEPT ![f] = "idle"]
  /\ pool' = Closed({f})
  /\ UNCHANGED <<installed, held, queue, snapshot, acked, lost, faults>>

\* reset(): the handle is closed, the file is unlinked and created again.
Reset(f) ==
  /\ conns[f] = "idle"
  /\ pool' = [pool EXCEPT !.content[f] = Fresh]
  /\ acked' = [acked EXCEPT ![f] = Fresh]
  /\ lost' = lost \ {f}
  /\ UNCHANGED <<installed, held, conns, queue, snapshot, faults>>

\* The unlink fails, before or after it removed the file, or the open that follows
\* does, before or after it created one; or the worker is terminated in between.
ResetFails(f) ==
  /\ conns[f] = "idle" /\ Fault
  /\ \E left \in {pool.content[f], Absent, Fresh} :
       LET kept == left = pool.content[f]
           here == IF kept THEN lost ELSE lost \ {f} IN
       /\ pool'  = [pool EXCEPT !.content[f] = left]
       /\ acked' = IF kept THEN acked ELSE [acked EXCEPT ![f] = left]
       /\ \/ /\ conns' = [conns EXCEPT ![f] = "dead"] /\ lost' = here
             /\ UNCHANGED <<installed, held, queue, snapshot>>
          \/ /\ Dies /\ lost' = here \cup BeingReplaced

\* A step of the queue that is about p.
About(step, p) == step.targets \cap Of(p) # {}

CloseStorage(p) ==
  /\ Of(p) \cap Open # {}
  /\ pool' = Closed(Of(p)) /\ conns' = Disconnected(Of(p))
  /\ UNCHANGED <<installed, held, queue, snapshot, acked, lost, faults>>

\* close(), and then some of the databases and of the journals are unlinked.  A
\* half-written database that loses its journal cannot be rolled back any more.
Unlinks(p, dbs, sides) ==
  /\ installed = "yes" /\ \A i \in DOMAIN queue : ~About(queue[i], p)
  /\ pool'  = Without(Closed(Of(p)), dbs, sides)
  /\ acked' = [f \in Files |-> IF f \in dbs THEN Absent ELSE acked[f]]

Orphaned(dbs, sides) == {f \in sides \ dbs : pool.journal[f] # Absent /\ conns[f] # "writing"
                                           /\ pool.content[f] = Torn}

\* deleteAll(): its callers await what they queued for the prefix.
DeleteStorage(p) ==
  /\ Unlinks(p, Of(p), Of(p))
  /\ conns' = Disconnected(Of(p)) /\ lost' = lost \ Of(p)
  /\ UNCHANGED <<installed, held, queue, snapshot, faults>>

\* The files are unlinked one by one, in any order, until an unlink throws, which may
\* have removed its file, or the worker is terminated.
DeletionCutOff(p) ==
  /\ Fault
  /\ \E dbs \in SUBSET (Of(p) \cap Databases), sides \in SUBSET (Of(p) \cap Journals) :
       LET left == (lost \ dbs) \cup Orphaned(dbs, sides) IN
       /\ Unlinks(p, dbs, sides)
       /\ \/ /\ conns' = Disconnected(Of(p)) /\ lost' = left
             /\ UNCHANGED <<installed, held, queue, snapshot>>
          \/ /\ Dies /\ lost' = left \cup BeingReplaced

-----------------------------------------------------------------------------
(***************************************************************************)
(* Exports, and the calls that queue a step                                *)
(***************************************************************************)

NoReplacementOf(s) == \A i \in DOMAIN queue : queue[i].kind = "open" \/ queue[i].targets \cap s = {}

\* seeded fault: the recovery sidecar of a database is no reason to refuse.
StableAnyway(s) == TRUE

\* requireNoRecoverySidecars()
Stable(s) == s \cap Journals = {}

ImagesOf(s) == [f \in Files |-> IF f \in s THEN pool.content[f] ELSE Absent]

\* Room for one more set of images, in the hands of a host or of a queued step.
MayExport ==
  Cardinality({i \in DOMAIN queue : queue[i].kind # "open"})
    + (IF snapshot.of = "none" THEN 0 ELSE 1) < MaxExports

\* An empty database is no valid image (requireSqliteDatabaseImage()).
NoneFresh(q, s) == \A f \in s : q.content[f] # Fresh

\* exportSnapshot(): refused while a connection under the prefix is open.
ExportSnapshot(p) ==
  /\ installed = "yes" /\ Of(p) \cap Open = {} /\ Stable(Of(p)) /\ NoneFresh(pool, Of(p))
  /\ NoReplacementOf(Of(p)) /\ MayExport
  /\ snapshot' = [of |-> "prefix", image |-> ImagesOf(Of(p)), lost |-> lost \cap Of(p)]
  /\ UNCHANGED <<pool, installed, held, conns, queue, acked, lost, faults>>

\* exportSqliteWasmPoolSnapshot(), once nobody uses the pool: every hot journal is
\* rolled back, whether or not the export is then refused.  A database that is Torn
\* nevertheless may be found out by PRAGMA quick_check.
ExportPool ==
  /\ installed = "yes" /\ Open = {} /\ queue = <<>> /\ MayExport
  /\ pool' = Recovered(pool, Files)
  /\ \/ /\ Journals \subseteq Databases /\ NoneFresh(pool', Files)
        /\ snapshot' = [of |-> "pool", image |-> pool'.content, lost |-> lost]
     \/ /\ \/ \E f \in Journals : f \notin Databases
           \/ \E f \in Files : pool'.content[f] \in {Fresh, Torn}
        /\ UNCHANGED snapshot
  /\ UNCHANGED <<installed, held, conns, queue, acked, lost, faults>>

\* A step, and which of its images were taken from files that were lost.
Step(kind, targets, image, from) ==
  [kind |-> kind, targets |-> targets, image |-> image, lost |-> from, stage |-> "queued",
   need |-> 0, original |-> NoSnapshot.image, left |-> {}, touched |-> {}, failed |-> FALSE]

Enqueue(step) ==
  /\ installed = "yes" /\ Len(queue) < MaxQueue
  /\ queue' = Append(queue, step)
  /\ UNCHANGED <<pool, installed, held, conns, acked, lost, faults>>

\* open(): a database has one connection.
CallOpen(f) ==
  /\ f \notin Open
  /\ \A i \in DOMAIN queue : queue[i].kind # "open" \/ f \notin queue[i].targets
  /\ Enqueue(Step("open", {f}, NoSnapshot.image, {}))
  /\ UNCHANGED snapshot

\* The images of one prefix, under the names of another.
Renamed(image, from, to) ==
  [f \in Files |-> IF f[1] = to THEN image[<<from, f[2]>>] ELSE Absent]
RenamedSet(s, from, to) == {f \in Of(to) : <<from, f[2]>> \in s}

\* importSnapshot(), of the snapshot of this prefix or another, which it copies at
\* once; a bound: the host keeps no snapshot longer.
CallRestore(p, from) ==
  /\ snapshot.of = "prefix" /\ \E f \in Of(from) : snapshot.image[f] # Absent
  /\ Of(p) \cap Open = {}
  /\ Enqueue(Step("restore", Of(p), Renamed(snapshot.image, from, p),
                  RenamedSet(snapshot.lost, from, p)))
  /\ snapshot' = NoSnapshot

\* copyFrom(): every image is read in the task of the caller.
CallCopy(p, from) ==
  /\ p # from /\ Stable(Of(from)) /\ NoReplacementOf(Of(from)) /\ MayExport
  /\ Enqueue(Step("copy", Of(p), Renamed(ImagesOf(Of(from)), from, p),
                  RenamedSet(lost, from, p)))
  /\ UNCHANGED snapshot

\* importSqliteWasmPoolSnapshot()
CallImportPool ==
  /\ snapshot.of = "pool" /\ Open = {}
  /\ Enqueue(Step("pool", Files, snapshot.image, snapshot.lost))
  /\ snapshot' = NoSnapshot

-----------------------------------------------------------------------------
(***************************************************************************)
(* withHeadroom(): one step at a time                                      *)
(***************************************************************************)

Running(stage) == queue # <<>> /\ Head(queue).stage = stage

Becomes(step) == queue' = <<step>> \o Tail(queue)
Ends          == queue' = Tail(queue)

\* Files that the step adds to the pool.
Adding(step) ==
  IF step.kind = "open" THEN Cardinality(step.targets \ Databases) + 1
  ELSE Cardinality({f \in Files : step.image[f] # Absent})

\* seeded fault: no slot is reserved for the journals of the open connections.
NeedWithoutJournals(step) == Cardinality(Databases) + Cardinality(Journals) + Adding(step)

Need(step) == Used + Adding(step) + Connections

\* The files are counted, and reserveMinimumCapacity() is under way.
Reserve ==
  /\ Running("queued")
  /\ Becomes([Head(queue) EXCEPT !.stage = "growing", !.need = Need(Head(queue))])
  /\ UNCHANGED <<pool, installed, held, conns, snapshot, acked, lost, faults>>

\* A storage quota, say, fails the step and no other.
GrowFails ==
  /\ Running("growing") /\ Head(queue).need > pool.capacity /\ Fault /\ Ends
  /\ UNCHANGED <<pool, installed, held, conns, snapshot, acked, lost>>

Grown(n) == [pool EXCEPT !.capacity = IF n > @ THEN n ELSE @]

\* The open runs: the file is created unless it is there.  Whoever opens a database
\* reads it at once.
OpenRuns ==
  /\ Running("growing") /\ Head(queue).kind = "open"
  /\ \E f \in Head(queue).targets :
       LET grown == Grown(Head(queue).need)
           new   == pool.content[f] = Absent IN
       /\ pool' = FirstRead(IF new THEN [grown EXCEPT !.content[f] = Fresh] ELSE grown, f)
       /\ acked' = IF new THEN [acked EXCEPT ![f] = Fresh] ELSE acked
       /\ conns' = [conns EXCEPT ![f] = "idle"]
  /\ Ends
  /\ UNCHANGED <<installed, held, snapshot, lost, faults>>

\* The open throws, before or after it created the file, and closes what it opened.
OpenFails ==
  /\ Running("growing") /\ Head(queue).kind = "open" /\ Fault
  /\ \E f \in Head(queue).targets :
       LET grown == Grown(Head(queue).need) IN
       \/ pool' = grown /\ UNCHANGED acked
       \/ /\ pool.content[f] = Absent
          /\ pool' = [grown EXCEPT !.content[f] = Fresh]
          /\ acked' = [acked EXCEPT ![f] = Fresh]
  /\ Ends
  /\ UNCHANGED <<installed, held, conns, snapshot, lost>>

\* The replacement runs up to its first await.  copyFrom() closes the connections
\* under its prefix, a restore of the pool rolls hot journals back, and the others
\* look again at what was opened ahead of them.
ReplaceRuns ==
  /\ Running("growing") /\ Head(queue).kind # "open"
  /\ LET step  == Head(queue)
         grown == Grown(step.need)
         ready == CASE step.kind = "copy" -> [Closed(step.targets) EXCEPT !.capacity = grown.capacity]
                    [] step.kind = "pool" -> Recovered(grown, Files)
                    [] OTHER              -> grown
         refused == \/ step.kind # "copy" /\ step.targets \cap Open # {}
                    \/ \E f \in step.targets : ready.journal[f] # Absent
     IN /\ pool'  = IF step.kind = "pool" /\ Open # {} THEN grown ELSE ready
        /\ conns' = IF step.kind = "copy" THEN Disconnected(step.targets) ELSE conns
        /\ IF refused THEN Ends
           ELSE Becomes([step EXCEPT !.stage = "unlinking", !.need = 0, !.original =
                  [f \in Files |-> IF f \in step.targets THEN ready.content[f] ELSE Absent]])
  /\ UNCHANGED <<installed, held, snapshot, acked, lost, faults>>

\* seeded fault: a file counts as touched only when its unlink succeeded.
TouchedBy(done, failing) == done

\* A file counts as touched before it is unlinked, because an unlink that fails may
\* have removed it.
Touching(done, failing) == done \cup failing

\* All the files are unlinked in one slice, up to one that fails.  From then on the
\* images play no part.
Unlink ==
  /\ Running("unlinking")
  /\ LET step    == Head(queue)
         present == step.targets \cap Databases
     IN \/ /\ pool' = Without(pool, present, {})
           /\ Becomes([step EXCEPT !.stage = "importing", !.touched = present,
                         !.left = {f \in Files : step.image[f] # Absent}])
           /\ UNCHANGED faults
        \/ /\ Fault
           /\ \E f \in present : \E done \in SUBSET (present \ {f}) :
                /\ \/ pool' = Without(pool, done \cup {f}, {})
                   \/ pool' = Without(pool, done, {})
                /\ Becomes([step EXCEPT !.stage = "undoing", !.image = NoSnapshot.image,
                              !.touched = Touching(done, {f})])
  /\ UNCHANGED <<installed, held, conns, snapshot, acked, lost>>

\* importDb() refuses an empty image.
Import ==
  /\ Running("importing")
  /\ LET step == Head(queue) IN
     \E f \in step.left :
       \/ /\ HasRoom /\ step.image[f] # Fresh
          /\ pool' = [pool EXCEPT !.content[f] = step.image[f]]
          /\ Becomes([step EXCEPT !.left = @ \ {f}, !.touched = @ \cup {f}])
          /\ UNCHANGED faults
       \/ /\ \/ step.image[f] = Fresh /\ UNCHANGED <<pool, faults>>
             \/ Fault /\ pool' \in {pool, [pool EXCEPT !.content[f] = Torn]}
          /\ Becomes([step EXCEPT !.stage = "undoing", !.image = NoSnapshot.image, !.left = {},
                             !.touched = @ \cup {f}])
  /\ UNCHANGED <<installed, held, conns, snapshot, acked, lost>>

\* The replacement is complete.
Replaced ==
  /\ Running("importing") /\ Head(queue).left = {} /\ Ends
  /\ acked' = [f \in Files |->
                IF f \in Head(queue).targets THEN Head(queue).image[f] ELSE acked[f]]
  /\ lost' = (lost \ Head(queue).targets) \cup Head(queue).lost
  /\ UNCHANGED <<pool, installed, held, conns, snapshot, faults>>

\* What was touched and is there is unlinked again, in one slice.
Undo ==
  /\ Running("undoing")
  /\ LET step == Head(queue)
         put  == step.touched \cap Databases
         back == {f \in step.touched : step.original[f] # Absent}
     IN \/ /\ pool' = Without(pool, put, {})
           /\ Becomes([step EXCEPT !.stage = "restoring", !.left = back])
           /\ UNCHANGED faults
        \/ /\ Fault /\ \E f \in put : pool' = Without(pool, put \ {f}, {})
           /\ Becomes([step EXCEPT !.stage = "restoring", !.left = back, !.failed = TRUE])
  /\ UNCHANGED <<installed, held, conns, snapshot, acked, lost>>

\* An original is imported again, unless it is an empty database; one that cannot be
\* does not stop the others.
Restore ==
  /\ Running("restoring")
  /\ LET step == Head(queue) IN
     \E f \in step.left :
       \/ /\ pool.content[f] # Absent \/ HasRoom
          /\ step.original[f] # Fresh
          /\ pool' = [pool EXCEPT !.content[f] = step.original[f]]
          /\ Becomes([step EXCEPT !.left = @ \ {f}])
          /\ UNCHANGED faults
       \/ /\ \/ step.original[f] = Fresh /\ UNCHANGED faults
             \/ Fault
          /\ UNCHANGED pool
          /\ Becomes([step EXCEPT !.left = @ \ {f}, !.failed = TRUE])
  /\ UNCHANGED <<installed, held, conns, snapshot, acked, lost>>

\* The step fails: with its rollback done, or with the originals in the hands of
\* the caller.
RolledBack ==
  /\ Running("restoring") /\ Head(queue).left = {} /\ Ends
  /\ lost' = IF Head(queue).failed THEN lost \cup Head(queue).targets ELSE lost
  /\ UNCHANGED <<pool, installed, held, conns, snapshot, acked, faults>>

Next ==
  \/ Install \/ Installs \/ InstallTimesOut \/ ReleaseHandles \/ Terminate
  \/ \E f \in Files : BeginWrite(f)
  \/ \E f \in Files : CommitWrite(f)
  \/ \E f \in Files : RollbackWrite(f)
  \/ \E f \in Files : Reset(f)
  \/ \E f \in Files : ResetFails(f)
  \/ \E f \in Files : CallOpen(f)
  \/ \E p \in Prefixes : CloseStorage(p)
  \/ \E p \in Prefixes : DeleteStorage(p)
  \/ \E p \in Prefixes : DeletionCutOff(p)
  \/ \E p \in Prefixes : ExportSnapshot(p)
  \/ \E p, from \in Prefixes : CallRestore(p, from)
  \/ \E p, from \in Prefixes : CallCopy(p, from)
  \/ ExportPool \/ CallImportPool
  \/ Reserve \/ GrowFails \/ OpenRuns \/ OpenFails \/ ReplaceRuns
  \/ Unlink \/ Import \/ Replaced \/ Undo \/ Restore \/ RolledBack

Spec == Init /\ [][Next]_vars
-----------------------------------------------------------------------------
(***************************************************************************)
(* Properties                                                              *)
(***************************************************************************)

Steps ==
  [kind : {"open", "restore", "copy", "pool"}, targets : SUBSET Files,
   image : [Files -> Images], lost : SUBSET Files, original : [Files -> Images],
   stage : {"queued", "growing", "unlinking", "importing", "undoing", "restoring"},
   need : Nat, left : SUBSET Files, touched : SUBSET Files, failed : BOOLEAN]

\* The shape of the state.
TypeOK ==
  /\ pool \in [content : [Files -> Images], journal : [Files -> Images], capacity : Nat]
  /\ installed \in {"no", "waiting", "yes"} /\ held \in BOOLEAN
  /\ conns \in [Files -> {"closed", "idle", "writing", "dead"}]
  /\ queue \in Seq(Steps)
  /\ snapshot \in [of : {"none", "prefix", "pool"}, image : [Files -> Images], lost : SUBSET Files]
  /\ acked \in [Files -> Images] /\ lost \subseteq Files
  /\ faults \in 0..MaxFaults

\* Whatever was acknowledged can be read back, and nothing else: a database is
\* there exactly when it should be, and with its journal rolled back it is what
\* was stored last.  This has to hold over transactions cut off by a termination,
\* installs that race the handles of the terminated worker, resets and deletions that
\* fail between any two unlinks, and replacements that fail anywhere and are undone.
\* Nobody vouches for a file that is lost: the caller of a replacement was told, or
\* has to switch prefixes (replacePoolFiles()), and whoever deletes half a prefix has
\* to delete it again (deleteAll() may unlink a hot journal and not its database).
AcknowledgedIsKept ==
  \A f \in Files \ (BeingReplaced \cup lost) :
    Recovered(pool, {f}).content[f] = acked[f]

\* Every open connection can begin a transaction, all of them at once: the pool has
\* a slot for each journal that is not there yet (withHeadroom()).  The count is
\* taken before an await during which other connections begin and end theirs.
RoomForJournals ==
  Used + Cardinality({f \in Open : f \notin Journals}) <= pool.capacity

\* No image that leaves the pool, in a snapshot or on its way into a clone, holds
\* half a transaction, unless it is the image of a file that was lost before: a
\* database whose journal a deletion took looks like any other, and is exported.
ExportsAreWhole ==
  /\ \A f \in Files \ snapshot.lost : snapshot.image[f] # Torn
  /\ \A i \in DOMAIN queue : \A f \in Files \ queue[i].lost : queue[i].image[f] # Torn
=============================================================================
