------------------------------- MODULE Facets -------------------------------
(***************************************************************************)
(* The facets of one actor: FacetManagerImpl and ActorTree of              *)
(* src/src/server/actor-container.ts, the receipts, the controller, the    *)
(* queue and the epochs of src/src/server/facet-deletion.ts, and the host  *)
(* that places facets, src/src/browser/actor-tree.ts.  A deletion is a     *)
(* durable receipt first and an asynchronous removal later; it meets       *)
(* placements that are under way, newer ones and a crash of the worker.    *)
(*                                                                         *)
(* The storage of a facet is the set of what is in it: "doomed" is what a  *)
(* deletion was requested for, "kept" is what was written since.           *)
(***************************************************************************)
EXTENDS Integers, Sequences, FiniteSets, FiniteSetsExt, SequencesExt

CONSTANTS
  Facets,      \* the ids of the facets other than the root
  Root,        \* the root actor
  Parent,      \* the parent of each facet
  MaxGets,     \* bound on the placements that the application asks for
  MaxDeletes,  \* bound on its deletions
  MaxAborts,   \* bound on the facets that it aborts or that break
  MaxCrashes,  \* bound on the deaths of the worker
  MaxFaults    \* bound on the placements and removals that fail

ASSUME FacetsAssumption ==
  /\ IsFiniteSet(Facets) /\ Root \notin Facets
  /\ Parent \in [Facets -> Facets \cup {Root}]
  /\ {MaxGets, MaxDeletes, MaxAborts, MaxCrashes, MaxFaults} \subseteq Nat

VARIABLES
  boot,      \* the root: "down", "recovering" or "up"
  known,     \* the facets in the index, durable
  receipts,  \* the generation of each facet's deletion receipt or 0, durable
  storage,   \* the contents of each facet's storage, durable
  epochs,    \* FacetReferenceEpochs
  entries,   \* each manager's entry for a facet, 0 for none
  ops,       \* #operations: the operations on each facet, the first one under way
  runs,      \* the controller's runs for each facet; #active is the last one
  queue,     \* SerializedSubtreeDeletionQueue: removals, the first one under way
  host,      \* BrowserActorTree: the placement of each facet
  gets, deletes, aborts, crashes, faults

durable  == <<known, receipts, storage>>
memory   == <<epochs, entries, ops, runs, queue, host>>
counters == <<gets, deletes, aborts, crashes, faults>>
vars     == <<boot, durable, memory, counters>>

Absent == [stage |-> "absent", cancelled |-> FALSE, epoch |-> 0]

Everywhere(x) == [f \in Facets |-> x]

Init ==
  /\ boot = "up"
  /\ known = {} /\ receipts = Everywhere(0) /\ storage = Everywhere({})
  /\ epochs = Everywhere(0) /\ entries = Everywhere(0) /\ host = Everywhere(Absent)
  /\ ops = Everywhere(<<>>) /\ runs = Everywhere(<<>>) /\ queue = <<>>
  /\ gets = 0 /\ deletes = 0 /\ aborts = 0 /\ crashes = 0 /\ faults = 0

-----------------------------------------------------------------------------
(***************************************************************************)
(* The tree                                                                *)
(***************************************************************************)

\* The facets on the path from a facet up to the root.
Ancestors[n \in 0..Cardinality(Facets), f \in Facets] ==
  IF n = 0 \/ Parent[f] = Root THEN {} ELSE {Parent[f]} \cup Ancestors[n - 1, Parent[f]]
SelfAndAncestors(f) == {f} \cup Ancestors[Cardinality(Facets), f]

\* ActorTree.descendants(): those in the index.
Descendants(f) == {c \in known \ {f} : f \in SelfAndAncestors(c)}

\* The orders in which a subtree can be removed: a facet goes after its descendants.
RemovalOrders(F) ==
  {order \in [1..Cardinality(F) -> F] :
     /\ Range(order) = F
     /\ \A i, j \in DOMAIN order : i < j => order[i] \notin SelfAndAncestors(order[j])}

\* The manager of a facet's parent can be called.
Running(f) ==
  boot = "up" /\ IF Parent[f] = Root THEN TRUE ELSE host[Parent[f]].stage = "live"

-----------------------------------------------------------------------------
(***************************************************************************)
(* Operations on one facet id, runOperation().  An operation on an idle id *)
(* runs at once; any other one waits for those before it.                  *)
(***************************************************************************)

Idle(f) == ops[f] = <<>>

\* seeded fault: an abort leaves a placement that is live.
StoppedIfStarting(placement) ==
  IF placement.stage \in {"loading", "opening"} THEN [placement EXCEPT !.cancelled = TRUE] ELSE placement

\* host.abort() of a facet: a start that is under way notices it later.
Stopped(placement) ==
  CASE placement.stage = "live" -> Absent
    [] placement.stage \in {"loading", "opening"} -> [placement EXCEPT !.cancelled = TRUE]
    [] OTHER -> placement

\* The children whose entries go when the containers of Stop are aborted, and
\* the descendants that this aborts in turn.
Below(Stop) ==
  {c \in Facets \ Stop :
     LET path == SelfAndAncestors(c) IN
     \E f \in Stop \cap path :
       LET between == (path \ SelfAndAncestors(f)) IN
       /\ host[f].stage = "live"
       /\ \A b \in between : entries[b] # 0
       /\ \A b \in between \ {c} : Idle(b) /\ host[b].stage = "live"}

Teardown(f) == [kind |-> "abort", stage |-> IF Idle(f) THEN "done" ELSE "start", entry |-> 0,
                epoch |-> 0, wait |-> 0]

\* abortAll() of the containers in Stop, after which the facets of Torn have
\* lost their entries and those that are idle are stopped, with Stop itself.
Abort(Stop, Torn) ==
  LET torn == Torn \cup Below(Stop \cup {f \in Torn : Idle(f)}) IN
  /\ entries' = [f \in Facets |-> IF f \in torn THEN 0 ELSE entries[f]]
  /\ ops' = [f \in Facets |-> IF f \in torn THEN Append(ops[f], Teardown(f)) ELSE ops[f]]
  /\ host' = [f \in Facets |-> IF f \in Stop \/ (f \in torn /\ Idle(f)) THEN Stopped(host[f]) ELSE host[f]]

\* subtreeOperationBarrier(): the operations to wait for, by facet.
Barrier(f, pending) ==
  [t \in Facets |-> IF t \in {f} \cup Descendants(f) THEN Len(pending[t]) ELSE 0]

-----------------------------------------------------------------------------
(***************************************************************************)
(* The manager, FacetManagerImpl                                           *)
(***************************************************************************)

\* getFacet(): the id is assigned, the epoch is captured and the placement
\* joins the operations of the id.
Get(f) ==
  /\ Running(f) /\ entries[f] = 0 /\ gets < MaxGets
  /\ gets' = gets + 1
  /\ known' = known \cup {f}
  /\ entries' = [entries EXCEPT ![f] = gets']
  /\ ops' = [ops EXCEPT ![f] = Append(@,
       [kind |-> "place", stage |-> IF Idle(f) THEN "info" ELSE "start",
        entry |-> gets', epoch |-> epochs[f], wait |-> 0])]
  /\ UNCHANGED <<boot, receipts, storage, epochs, runs, queue, host, deletes, aborts, crashes, faults>>

\* abortFacet(), and #monitorOnBroken() for a container that broke.
AbortFacet(f) ==
  /\ Running(f) /\ entries[f] # 0 /\ aborts < MaxAborts
  /\ aborts' = aborts + 1
  /\ Abort({}, {f})
  /\ UNCHANGED <<boot, durable, epochs, runs, queue, gets, deletes, crashes, faults>>

\* FacetReferenceEpochs.invalidate()
Invalidated(F) == [f \in Facets |-> IF f \in F THEN epochs[f] + 1 ELSE epochs[f]]
Doomed(F) ==
  [f \in Facets |-> IF f \in F /\ storage[f] # {} THEN {"doomed"} ELSE storage[f]]

\* FacetDeletionController.delete() of each facet of F: a run of the same
\* generation or a newer one covers the request.
Active(f) == Last(runs[f])
Covered(f, generation) == runs[f] # <<>> /\ Active(f).generation >= generation
Recorded(F) == [f \in Facets |-> IF f \in F THEN receipts[f] + 1 ELSE receipts[f]]
NewRun(generation, barrier) == [generation |-> generation, barrier |-> barrier, stage |-> "waiting"]
StartRuns(F) ==
  /\ receipts' = Recorded(F)
  /\ runs' = [f \in Facets |->
       IF f \in F /\ ~Covered(f, receipts'[f])
       THEN Append(runs[f], NewRun(receipts'[f], Barrier(f, ops')))
       ELSE runs[f]]

DeleteAndFence(F) ==
  LET doomed == UNION {{f} \cup Descendants(f) : f \in F} IN
  /\ epochs' = Invalidated(doomed)
  /\ storage' = Doomed(doomed)
  /\ StartRuns(F)

\* deleteFacet(): abort, fence, record; the removal is left for later.
DeleteFacet(f) ==
  /\ Running(f) /\ deletes < MaxDeletes
  /\ deletes' = deletes + 1
  /\ known' = known \cup {f}
  /\ Abort({}, IF entries[f] # 0 THEN {f} ELSE {})
  /\ DeleteAndFence({f})
  /\ UNCHANGED <<boot, queue, gets, aborts, crashes, faults>>

\* deleteAllDescendants(), before an actor's own storage is reset.
DeleteAll(actor) ==
  LET children == {f \in Facets : Parent[f] = actor} IN
  /\ boot = "up" /\ deletes < MaxDeletes
  /\ IF actor = Root THEN TRUE ELSE host[actor].stage = "live"
  /\ deletes' = deletes + 1
  /\ Abort({}, {f \in children : entries[f] # 0})
  /\ DeleteAndFence(children \cap known)
  /\ UNCHANGED <<boot, known, queue, gets, aborts, crashes, faults>>

-----------------------------------------------------------------------------
(***************************************************************************)
(* A placement: place() of the manager, then start() of the host           *)
(***************************************************************************)

Op(f) == Head(ops[f])
OpAt(f, kind, stage) == boot # "down" /\ ~Idle(f) /\ Op(f).kind = kind /\ Op(f).stage = stage
Advance(f, stage) == ops' = [ops EXCEPT ![f][1].stage = stage]

\* The stage of a facet's oldest run; its barrier is over.
RunAt(f, stage) == boot # "down" /\ runs[f] # <<>> /\ runs[f][1].stage = stage
Ready(f) == RunAt(f, "waiting") /\ \A t \in Facets : runs[f][1].barrier[t] = 0

\* The removal under way, and the facet whose storage it erases next.
Removal == Head(queue)
Target == Head(Removal.left)
Removing == boot # "down" /\ queue # <<>>

\* The start that the removal waits for is over.
Unwound(f) == Removing /\ Removal.pending /\ Target = f /\ ~host[f].cancelled

\* settled(): how much of the queue has to be over first.
QueuedFor(f) == Max({0} \cup {i \in DOMAIN queue : f \in queue[i].covered})

\* getStartInfo() returned the class of the facet.  It re-enters the actor, which
\* takes so many turns that a run whose barrier is over is queued before.
InfoReturns(f) ==
  /\ OpAt(f, "place", "info") /\ \A g \in Facets : ~Ready(g)
  /\ ops' = [ops EXCEPT ![f][1].stage = "settling", ![f][1].wait = QueuedFor(f)]
  /\ UNCHANGED <<boot, durable, epochs, entries, runs, queue, host, counters>>

\* #forgetIfNeverRuns()
Forget(f) == entries' = [entries EXCEPT ![f] = IF @ = Op(f).entry THEN 0 ELSE @]

InfoFails(f) ==
  /\ OpAt(f, "place", "info") /\ faults < MaxFaults
  /\ faults' = faults + 1
  /\ Forget(f) /\ Advance(f, "done")
  /\ UNCHANGED <<boot, durable, epochs, runs, queue, host, gets, deletes, aborts, crashes>>

Settled(f) == OpAt(f, "place", "settling") /\ Op(f).wait = 0
IsCurrent(f) == epochs[f] = Op(f).epoch

\* The facet was torn down meanwhile.
PlaceStale(f) ==
  /\ Settled(f) /\ ~IsCurrent(f)
  /\ Forget(f) /\ Advance(f, "done")
  /\ UNCHANGED <<boot, durable, epochs, runs, queue, host, counters>>

Place(f) ==
  /\ Settled(f) /\ IsCurrent(f)
  /\ host' = [host EXCEPT ![f] = [stage |-> "loading", cancelled |-> FALSE, epoch |-> Op(f).epoch]]
  /\ Advance(f, "starting")
  /\ UNCHANGED <<boot, durable, epochs, entries, runs, queue, counters>>

\* load() returned; the storage is opened.
Loaded(f) ==
  /\ boot # "down" /\ host[f].stage = "loading" /\ ~host[f].cancelled
  /\ host' = [host EXCEPT ![f].stage = "opening"]
  /\ UNCHANGED <<boot, durable, epochs, entries, ops, runs, queue, counters>>

\* The container was created and its constructor returned.
Started(f) ==
  /\ boot # "down" /\ host[f].stage = "opening" /\ ~host[f].cancelled
  /\ host' = [host EXCEPT ![f].stage = "live"]
  /\ Advance(f, "done")
  /\ UNCHANGED <<boot, durable, epochs, entries, runs, queue, counters>>

StartFails(f) ==
  /\ boot # "down" /\ host[f].stage \in {"loading", "opening"}
  /\ host' = [host EXCEPT ![f] = Absent]
  /\ Forget(f) /\ Advance(f, "done")
  /\ UNCHANGED <<boot, durable, epochs, runs, queue, gets, deletes, aborts, crashes>>

\* throwIfAborted()
StartCancelled(f) == host[f].cancelled /\ StartFails(f) /\ UNCHANGED faults
StartThrows(f) == ~host[f].cancelled /\ faults < MaxFaults /\ StartFails(f) /\ faults' = faults + 1

\* seeded fault: an operation that has settled is waited for all the same.
Unsettled(barrier, f) == barrier

\* The operation has settled; the next one on the same id runs.
Settle(barrier, f) == [barrier EXCEPT ![f] = IF @ > 0 THEN @ - 1 ELSE 0]
OpEnds(f) ==
  /\ boot # "down" /\ ~Idle(f) /\ Op(f).stage = "done"
  /\ runs' = [g \in Facets |->
       [i \in DOMAIN runs[g] |-> [runs[g][i] EXCEPT !.barrier = Settle(@, f)]]]
  /\ LET left  == Tail(ops[f])
         next  == Head(left)
         torn  == Below({f})
     IN IF left = <<>> \/ next.kind = "place"
        THEN /\ ops' = [ops EXCEPT ![f] =
                  IF left = <<>> THEN left ELSE [left EXCEPT ![1].stage = "info"]]
             /\ UNCHANGED <<entries, host>>
        ELSE /\ entries' = [g \in Facets |-> IF g \in torn THEN 0 ELSE entries[g]]
             /\ ops' = [g \in Facets |->
                  IF g = f THEN [left EXCEPT ![1].stage = "done"]
                  ELSE IF g \in torn THEN Append(ops[g], Teardown(g)) ELSE ops[g]]
             /\ host' = [g \in Facets |->
                  IF g = f \/ (g \in torn /\ Idle(g)) THEN Stopped(host[g]) ELSE host[g]]
  /\ UNCHANGED <<boot, durable, epochs, queue, counters>>

\* The facet writes to its storage.
Write(f) ==
  /\ boot = "up" /\ host[f].stage = "live"
  /\ storage' = [storage EXCEPT ![f] = @ \cup {IF host[f].epoch = epochs[f] THEN "kept" ELSE "doomed"}]
  /\ storage' # storage
  /\ UNCHANGED <<boot, known, receipts, memory, counters>>

-----------------------------------------------------------------------------
(***************************************************************************)
(* A deletion: #run() of the controller, the queue, deleteStorage() of the *)
(* host, and the clearing of the receipt                                   *)
(***************************************************************************)

RunTo(f, stage) == runs' = [runs EXCEPT ![f][1].stage = stage]

\* The removal of the whole subtree is queued.
RunQueued(f) ==
  /\ Ready(f)
  /\ RunTo(f, "queued")
  /\ \E order \in RemovalOrders({f} \cup Descendants(f)) :
       queue' = Append(queue, [facet |-> f, covered |-> {f} \cup Descendants(f),
                               left |-> order, pending |-> FALSE])
  /\ UNCHANGED <<boot, durable, epochs, entries, ops, host, counters>>

\* deleteStorage(): the next facet of the subtree is aborted; its storage is
\* erased at once, or when the start that was under way is over.
Erase ==
  /\ storage' = [storage EXCEPT ![Target] = {}]
  /\ queue' = [queue EXCEPT ![1].left = Tail(@), ![1].pending = FALSE]

Starting(f) == host[f].stage \in {"loading", "opening"}
TargetAborted ==
  /\ Removing /\ Removal.left # <<>> /\ ~Removal.pending
  /\ Abort({Target}, {})
  /\ IF Starting(Target)
     THEN queue' = [queue EXCEPT ![1].pending = TRUE] /\ UNCHANGED storage
     ELSE Erase
  /\ UNCHANGED <<boot, known, receipts, epochs, runs, counters>>

TargetErased ==
  /\ \E f \in Facets : Unwound(f)
  /\ Erase
  /\ UNCHANGED <<boot, known, receipts, epochs, entries, ops, runs, host, counters>>

\* The removal has settled: the queue goes on, and so do the placements that wait.
Dequeue ==
  /\ queue' = Tail(queue)
  /\ ops' = [f \in Facets |-> [i \in DOMAIN ops[f] |->
       [ops[f][i] EXCEPT !.wait = IF @ > 0 THEN @ - 1 ELSE 0]]]

Removed ==
  /\ Removing /\ Removal.left = <<>>
  /\ Dequeue /\ RunTo(Removal.facet, "removed")
  /\ UNCHANGED <<boot, durable, epochs, entries, host, counters>>

\* A removal throws: its receipt stays for the next start.
RemovalFails ==
  /\ boot = "up" /\ faults < MaxFaults /\ \E f \in Facets : Unwound(f)
  /\ faults' = faults + 1
  /\ Dequeue /\ RunTo(Removal.facet, "settled")
  /\ UNCHANGED <<boot, durable, epochs, entries, host, gets, deletes, aborts, crashes>>

\* seeded fault: the receipt is cleared whatever was recorded meanwhile.
ClearsAny(f) == TRUE

\* clear(), if the receipt is still the one of this run.
Clears(f) == receipts[f] = runs[f][1].generation
RunCleared(f) ==
  /\ RunAt(f, "removed")
  /\ receipts' = [receipts EXCEPT ![f] = IF Clears(f) THEN 0 ELSE @]
  /\ RunTo(f, "settled")
  /\ UNCHANGED <<boot, known, storage, epochs, entries, ops, queue, host, counters>>

\* #clearActive(), some microtasks later.
RunForgotten(f) ==
  /\ RunAt(f, "settled")
  /\ runs' = [runs EXCEPT ![f] = Tail(@)]
  /\ UNCHANGED <<boot, durable, epochs, entries, ops, queue, host, counters>>

-----------------------------------------------------------------------------
(***************************************************************************)
(* The worker dies, and the root starts again                              *)
(***************************************************************************)

Crash ==
  /\ boot # "down" /\ crashes < MaxCrashes
  /\ crashes' = crashes + 1
  /\ boot' = "down"
  /\ epochs' = Everywhere(0) /\ entries' = Everywhere(0) /\ host' = Everywhere(Absent)
  /\ ops' = Everywhere(<<>>) /\ runs' = Everywhere(<<>>) /\ queue' = <<>>
  /\ UNCHANGED <<durable, gets, deletes, aborts, faults>>

\* recoverAll(): a run for each receipt, before the constructor.
Start ==
  /\ boot = "down"
  /\ boot' = "recovering"
  /\ runs' = [f \in Facets |->
       IF receipts[f] = 0 THEN <<>> ELSE <<NewRun(receipts[f], [t \in Facets |-> 0])>>]
  /\ UNCHANGED <<durable, epochs, entries, ops, queue, host, counters>>

Recovered ==
  /\ boot = "recovering" /\ \A f \in Facets : receipts[f] = 0
  /\ boot' = "up"
  /\ UNCHANGED <<durable, memory, counters>>

-----------------------------------------------------------------------------

Application ==
  \/ \E f \in Facets : Get(f) \/ AbortFacet(f) \/ DeleteFacet(f) \/ Write(f)
  \/ \E actor \in Facets \cup {Root} : DeleteAll(actor)

Placement ==
  \E f \in Facets :
    \/ InfoReturns(f) \/ PlaceStale(f) \/ Place(f)
    \/ Loaded(f) \/ Started(f) \/ StartCancelled(f)
    \/ OpEnds(f)

Deletion ==
  \/ \E f \in Facets : RunQueued(f) \/ RunCleared(f) \/ RunForgotten(f)
  \/ TargetAborted \/ TargetErased \/ Removed

Failure == RemovalFails \/ Crash \/ \E f \in Facets : InfoFails(f) \/ StartThrows(f)

Next == Application \/ Placement \/ Deletion \/ Failure \/ Start \/ Recovered

\* Placements and deletions proceed, and a dead root is started again.
Fairness ==
  /\ WF_vars(Placement) /\ WF_vars(Deletion)
  /\ WF_vars(Start) /\ WF_vars(Recovered)

Spec == Init /\ [][Next]_vars /\ Fairness

-----------------------------------------------------------------------------
(***************************************************************************)
(* Properties                                                              *)
(***************************************************************************)

Placements == [stage : {"absent", "loading", "opening", "live"}, cancelled : BOOLEAN, epoch : Nat]
Operations == [kind : {"place", "abort"}, stage : {"start", "info", "settling", "starting", "done"},
               entry : Nat, epoch : Nat, wait : Nat]
Runs       == [generation : Nat, barrier : [Facets -> Nat],
               stage : {"waiting", "queued", "removed", "settled"}]
Removals   == [facet : Facets, covered : SUBSET Facets, left : Seq(Facets), pending : BOOLEAN]

\* The variables keep their types, and what counts deletions stays within their number.
TypeOK ==
  /\ boot \in {"down", "recovering", "up"} /\ known \subseteq Facets
  /\ gets \in 0..MaxGets /\ deletes \in 0..MaxDeletes
  /\ receipts \in [Facets -> 0..deletes] /\ epochs \in [Facets -> 0..deletes]
  /\ storage \in [Facets -> SUBSET {"doomed", "kept"}]
  /\ entries \in [Facets -> 0..gets] /\ host \in [Facets -> Placements]
  /\ ops \in [Facets -> Seq(Operations)] /\ runs \in [Facets -> Seq(Runs)]
  /\ queue \in Seq(Removals)

\* What a deletion was requested for stays on record until it is gone: in its
\* own receipt or in that of an ancestor, whatever newer requests, placements and
\* crashes come in between (record(), the generation in clear()).
DoomedIsOnRecord ==
  \A f \in Facets : "doomed" \in storage[f] => \E a \in SelfAndAncestors(f) : receipts[a] > 0

\* The host is never asked for a facet that it is placing or has placed: the
\* operations on one id are serial (runOperation()).
StartsAreSerial ==
  [][\A f \in Facets : Place(f) => host[f].stage = "absent"]_vars

\* No deletion waits for ever: not on placements, which may themselves wait for
\* deletions, and not on older deletions (the barrier, settled(), the queue).
DeletionsFinish == \A f \in Facets : runs[f] # <<>> ~> runs[f] = <<>>

=============================================================================
