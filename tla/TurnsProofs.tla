------------------------------ MODULE TurnsProofs ------------------------------
(***************************************************************************)
(* Proofs about the turns of actors.  IoContext, for every number of       *)
(* tasks, calls and events, of what the code asks for and of what fails;   *)
(* then the continuations of awaits, the instance Publication of MCTurns,  *)
(* for every number of actors and of pieces of work.                       *)
(***************************************************************************)
EXTENDS MCTurns, FiniteSetTheorems, SequenceTheorems, WellFoundedInduction, TLAPS

-----------------------------------------------------------------------------
(***************************************************************************)
(* The inductive invariant, of a context s that is not aborted.            *)
(***************************************************************************)

\* Tasks with a lock, the gates they lock, and sections with a lock on their parent.
Holders(s)  == {t \in Tasks : HasLock(s, t)}
On(s, t)    == s.scope[s.tasks[t].lock]
Held(s)     == {On(s, t) : t \in Holders(s)}
Entered(s)  == {k \in Calls : s.calls[k].holds}

Sections(s) == {k \in Calls : s.calls[k].kind = "section"}
SectionGates(s) == {Root} \cup Sections(s)
Outer(s, k) == s.scope[s.calls[k].parent]
Home(s, t)  == s.scope[s.tasks[t].gate]
Busy(s, t)  == s.tasks[t].stage # "free"
CallOf(s, t) == s.calls[s.tasks[t].call]

\* Gates that somebody may come back to.
Homes(s) == {Root} \cup Entered(s) \cup s.broken

Stages == {"free", "outside", "queued", "granted", "running", "left"}
Kinds  == {"none", "event", "timer", "canceled", "await", "held", "body", "resolve"}
Task   == [kind : Kinds, stage : Stages, call : Calls, gate : Gates, lock : Gates \cup {NoLock}]
CallKinds  == {"none", "start", "entry", "run", "timer", "section"}
CallStages == {"free", "open", "stuck", "over", "failed", "replying"}
Call   == [kind : CallKinds, stage : CallStages,
           origin : Calls, by : Gates, parent : Gates, above : SUBSET Gates,
           holds : BOOLEAN, needs : Int]
Contexts ==
  [tasks : [Tasks -> Task], calls : [Calls -> Call],
   waitingChildren : [Gates -> Seq(Tasks)], waiters : [Gates -> Seq(Tasks)],
   scope : [Gates -> Gates], broken : SUBSET Gates, frames : Seq(Tasks), timers : SUBSET Tasks,
   pendingEvents : Int, waitUntil : Int, breaking : BOOLEAN, aborted : BOOLEAN]

\* A task has a lock from the grant to the end of the checkpoint, and before it if it
\* kept one; the slices of the checkpoint are the frames.
StageOf(s, t) ==
  /\ s.tasks[t].stage = "free" <=> s.tasks[t].kind = "none"
  /\ HasLock(s, t) <=> \/ s.tasks[t].stage \in {"granted", "running", "left"}
                       \/ s.tasks[t].stage = "outside" /\ s.tasks[t].kind = "held"
  /\ s.tasks[t].kind = "held" => s.tasks[t].stage # "queued"
  /\ t \in ToSet(s.frames) <=> s.tasks[t].stage \in {"running", "left"}
TimerOf(s, t) == s.tasks[t].kind = "timer" /\ s.tasks[t].stage # "left" /\ CallOf(s, t).kind = "timer"
StageInv(s) ==
  /\ \A t \in Tasks : StageOf(s, t)
  /\ \A t \in s.timers : TimerOf(s, t)
  /\ s.broken # {} => s.breaking

\* Calls are made one after another, sections by a call whose origin they have.
MadeInOrder(s) ==
  /\ \A c \in Calls : s.calls[c].kind = "none" <=> s.calls[c].stage = "free"
  /\ \A c, d \in Calls : c < d /\ s.calls[c].stage = "free" => s.calls[d].stage = "free"
GatesOf(s, t) ==
  /\ Busy(s, t) => CallOf(s, t).stage # "free" /\ s.tasks[t].gate \in SectionGates(s)
  /\ HasLock(s, t) => s.tasks[t].lock \in SectionGates(s) /\ On(s, t) = Home(s, t)
MadeBy(s, k) ==
  /\ s.calls[k].by \in Calls /\ s.calls[s.calls[k].by].stage # "free"
  /\ s.calls[k].origin = s.calls[s.calls[k].by].origin
CallsInv(s) ==
  /\ MadeInOrder(s)
  /\ \A t \in Tasks : GatesOf(s, t)
  /\ Entered(s) \subseteq Sections(s) /\ s.broken \subseteq SectionGates(s)
  /\ \A k \in Sections(s) : MadeBy(s, k)

\* The gates are a tree, and one that is over stands for one above it.
ScopeInv(s) ==
  /\ s.scope[Root] = Root
  /\ \A k \in Calls : s.scope[k] = k \/ (k \in Sections(s) /\ s.scope[k] \in s.calls[k].above)
  /\ \A g \in Gates : s.scope[s.scope[g]] = s.scope[g]
  /\ \A k \in Sections(s) :
       /\ s.calls[k].parent \in s.calls[k].above
       /\ s.calls[k].above \subseteq SectionGates(s)
       /\ \A x \in s.calls[k].above : x < k /\ (x # Root => s.calls[x].above \subseteq s.calls[k].above)

\* What is waited for or locked is entered, or broken.
HomesInv(s) ==
  /\ \A t \in Tasks : Busy(s, t) /\ (s.tasks[t].kind # "body" \/ HasLock(s, t)) => Home(s, t) \in Homes(s)
  /\ \A k \in Sections(s) : Outer(s, k) \in Homes(s)

\* The sections that were entered are in one another, and the tasks have their locks
\* on the innermost one.
ChainInv(s) ==
  /\ \A h \in Held(s), y \in Held(s) \cup Entered(s) : y <= h
  /\ \A k \in Entered(s), y \in Held(s) \cup Entered(s) : y <= Outer(s, k) \/ k <= y
  /\ \A x \in ({Root} \cup Entered(s)) \ s.broken, y \in Held(s) \cup Entered(s) :
       x < y => \E z \in Entered(s) : Outer(s, z) = x

\* The body of a section, which is entered with it.
BodyOf(s, t) ==
  s.tasks[t].kind = "body" =>
    /\ s.tasks[t].call \in Sections(s) /\ s.tasks[t].gate = s.tasks[t].call
    /\ ~HasLock(s, t) => s.scope[s.tasks[t].call] = s.tasks[t].call /\ ~CallOf(s, t).holds
    /\ \A u \in Tasks : s.tasks[u].kind = "body" /\ s.tasks[u].call = s.tasks[t].call => u = t

\* Bodies of sections wait at the parent, other tasks at their own gate.
Single(line) == \A i, j \in DOMAIN line : line[i] = line[j] => i = j
InChildren(s, g, t) == s.tasks[t].stage = "queued" /\ s.tasks[t].kind = "body" /\ Outer(s, s.tasks[t].call) = g
InWaiters(s, g, t)  == s.tasks[t].stage = "queued" /\ s.tasks[t].kind # "body" /\ Home(s, t) = g
LinesInv(s) ==
  \A g \in Gates : /\ Single(s.waitingChildren[g]) /\ Single(s.waiters[g])
                   /\ \A t \in ToSet(s.waitingChildren[g]) : InChildren(s, g, t)
                   /\ \A t \in ToSet(s.waiters[g]) : InWaiters(s, g, t)
QueueInv(s) == LinesInv(s) /\ \A t \in Tasks : BodyOf(s, t)

\* The code of a section that is not over is at its gate, which is entered before
\* anything is done there.
OpenAt(s, k) ==
  /\ s.scope[k] = k
  /\ \A t \in Tasks : Busy(s, t) /\ s.tasks[t].call = k =>
       Home(s, t) = k /\ (HasLock(s, t) => On(s, t) = k /\ s.calls[k].holds)
  /\ \A y \in Sections(s) : s.calls[y].by = k => Outer(s, y) = k /\ s.calls[k].holds
OpenInv(s) == \A k \in Sections(s) : s.calls[k].stage = "open" => OpenAt(s, k)

\* A section is over in the checkpoint of its last slice.
DoneInv(s) ==
  \A k \in Sections(s) : Done(s, k) => \E t \in Tasks : s.tasks[t].stage = "left" /\ s.tasks[t].call = k

\* Those with a lock are one event's; of one call, but for slices of sections that are over.
Spent(s, t) == s.tasks[t].stage = "left" /\ CallOf(s, t).kind = "section" /\ CallOf(s, t).stage # "open"
TurnInv(s) ==
  \A t, u \in Holders(s) :
    /\ CallOf(s, t).origin = CallOf(s, u).origin
    /\ s.tasks[t].call = s.tasks[u].call \/ Spent(s, t) \/ Spent(s, u)
    /\ s.tasks[t].stage = "granted" /\ s.tasks[t].kind # "held" => u = t

Good(s) ==
  /\ s \in Contexts
  /\ StageInv(s) /\ CallsInv(s) /\ ScopeInv(s) /\ HomesInv(s) /\ ChainInv(s)
  /\ QueueInv(s) /\ OpenInv(s) /\ DoneInv(s) /\ TurnInv(s)

\* An aborted context stays one, and starts nothing.
Dead(s) ==
  /\ {"tasks", "aborted"} \subseteq DOMAIN s /\ s.aborted = TRUE
  /\ DOMAIN s.tasks = Tasks /\ \A t \in Tasks : "stage" \in DOMAIN s.tasks[t]

\* The writes in the open transaction are of the events whose slices are in the checkpoint.
WritersInv(s) == \A w \in writers : \E t \in ToSet(s.frames) : w = CallOf(s, t).origin

IInv == /\ written \in Int
        /\ IF ctx.aborted THEN Dead(ctx) /\ writers = {} ELSE Good(ctx) /\ WritersInv(ctx)

-----------------------------------------------------------------------------
(***************************************************************************)
(* Helpers                                                                 *)
(***************************************************************************)

\* The first free entry of a pool.
LEMMA FreshIsFree ==
  ASSUME NEW pool, NEW n \in Nat, DOMAIN pool = 1..n, HasFree(pool)
  PROVE  /\ Fresh(pool) \in 1..n /\ pool[Fresh(pool)].stage = "free"
         /\ \A u \in 1..n : u < Fresh(pool) => pool[u].stage # "free"
<1> DEFINE F == {t \in 1..n : pool[t].stage = "free"}
<1>1. F # {} /\ F \subseteq Nat
  BY DEF HasFree
<1>2. PICK t \in F : \A u \in F : <<u, t>> \notin OpToRel(<, Nat)
  BY <1>1, NatLessThanWellFounded, WFMin
<1>3. \A u \in F : ~(u < t)
  BY <1>1, <1>2 DEF OpToRel
<1>6. t \in 1..n /\ pool[t].stage = "free" /\ \A u \in 1..(t - 1) : pool[u].stage # "free"
  BY <1>3
<1>4. /\ Fresh(pool) \in 1..n /\ pool[Fresh(pool)].stage = "free"
      /\ \A u \in 1..(Fresh(pool) - 1) : pool[u].stage # "free"
  BY <1>6 DEF Fresh
<1>5. \A u \in 1..n : u < Fresh(pool) => u \in 1..(Fresh(pool) - 1)
  BY <1>4
<1> QED
  BY <1>4, <1>5

\* A new task is a free one.
LEMMA FreshTask ==
  ASSUME NEW s, s \in Contexts, HasFree(s.tasks)
  PROVE  Fresh(s.tasks) \in Tasks /\ s.tasks[Fresh(s.tasks)].stage = "free"
<1>1. DOMAIN s.tasks = 1..MaxTasks /\ MaxTasks \in Nat
  BY IoContextAssumption DEF Contexts, Tasks
<1> QED
  BY <1>1, FreshIsFree DEF Tasks

\* Where there is room for a task, one is free.
LEMMA RoomIsFree ==
  ASSUME NEW s, NEW n \in Nat \ {0}, s \in Contexts, HasRoom(s, n)
  PROVE  HasFree(s.tasks)
<1> DEFINE F == {t \in Tasks : s.tasks[t].stage = "free"}
           K == {k \in Calls : s.calls[k].kind = "section" /\ s.calls[k].stage = "open"}
<1>1. IsFiniteSet(Tasks) /\ IsFiniteSet(Calls)
  BY FS_Interval, IoContextAssumption DEF Tasks, Calls
<1>2. IsFiniteSet(F) /\ IsFiniteSet(K)
  BY <1>1, FS_Subset
<1>3. Cardinality(F) \in Nat /\ Cardinality(K) \in Nat
  BY <1>2, FS_CardinalityType
<1>4. Cardinality(F) >= n + Cardinality(K)
  BY DEF HasRoom
<1>5. F # {}
  <2>1. Cardinality(F) # 0
    BY <1>3, <1>4
  <2> QED
    BY <2>1, FS_EmptySet
<1>6. DOMAIN s.tasks = Tasks
  BY DEF Contexts
<1> QED
  BY <1>5, <1>6 DEF HasFree

\* A call that is made gets a number beyond those that were.
LEMMA FreshCall ==
  ASSUME NEW s, s \in Contexts, CallsInv(s), HasFree(s.calls)
  PROVE  /\ Fresh(s.calls) \in Calls /\ s.calls[Fresh(s.calls)].stage = "free"
         /\ \A c \in Calls : s.calls[c].stage # "free" <=> c < Fresh(s.calls)
<1>1. DOMAIN s.calls = 1..MaxCalls /\ MaxCalls \in Nat
  BY IoContextAssumption DEF Contexts, Calls
<1>2. /\ Fresh(s.calls) \in Calls /\ s.calls[Fresh(s.calls)].stage = "free"
      /\ \A c \in Calls : c < Fresh(s.calls) => s.calls[c].stage # "free"
  BY <1>1, FreshIsFree DEF Calls
<1> QED
  BY <1>2 DEF CallsInv, MadeInOrder, Calls

\* What stays a task or a call.
LEMMA Updates ==
  /\ \A x \in Task : /\ x = [kind |-> x.kind, stage |-> x.stage, call |-> x.call, gate |-> x.gate, lock |-> x.lock]
                     /\ \A stage \in Stages : [x EXCEPT !.stage = stage] \in Task
                     /\ \A kind \in Kinds : [x EXCEPT !.kind = kind] \in Task
                     /\ \A stage \in Stages, lock \in Gates : [x EXCEPT !.stage = stage, !.lock = lock] \in Task
  /\ \A c \in Call : /\ \A stage \in CallStages : [c EXCEPT !.stage = stage] \in Call
                     /\ \A holds \in BOOLEAN : [c EXCEPT !.holds = holds] \in Call
<1>1. ASSUME NEW x \in Task
      PROVE  /\ x = [kind |-> x.kind, stage |-> x.stage, call |-> x.call, gate |-> x.gate, lock |-> x.lock]
             /\ \A stage \in Stages : [x EXCEPT !.stage = stage] \in Task
             /\ \A kind \in Kinds : [x EXCEPT !.kind = kind] \in Task
             /\ \A stage \in Stages, lock \in Gates : [x EXCEPT !.stage = stage, !.lock = lock] \in Task
  BY DEF Task
<1>2. ASSUME NEW c \in Call, NEW stage \in CallStages
      PROVE  [c EXCEPT !.stage = stage] \in Call
  BY DEF Call
<1>3. ASSUME NEW c \in Call, NEW holds \in BOOLEAN
      PROVE  [c EXCEPT !.holds = holds] \in Call
  BY DEF Call
<1> QED
  BY <1>1, <1>2, <1>3

\* The gates of tasks, locks and sections.
LEMMA Facts ==
  ASSUME NEW s, s \in Contexts
  PROVE  /\ \A t \in Tasks : /\ s.tasks[t] \in Task /\ s.tasks[t].call \in Calls /\ s.tasks[t].gate \in Gates
                             /\ s.tasks[t].lock \in Gates \cup {NoLock}
                             /\ HasLock(s, t) => s.tasks[t].lock \in Gates
         /\ \A c \in Calls : s.calls[c] \in Call /\ s.calls[c].parent \in Gates /\ s.calls[c].by \in Gates
         /\ \A g \in Gates : s.scope[g] \in Gates
         /\ Gates \subseteq Int /\ Calls \subseteq Gates /\ Root \in Gates /\ Root \notin Calls /\ NoLock \notin Gates
<1>1. /\ Gates \subseteq Int /\ Calls \subseteq Gates /\ Root \in Gates /\ Root \notin Calls
      /\ NoLock \notin Gates
  BY IoContextAssumption DEF Gates, Calls, NoLock, Root
<1>2. /\ \A t \in Tasks : s.tasks[t] \in Task
      /\ \A c \in Calls : s.calls[c] \in Call
      /\ \A g \in Gates : s.scope[g] \in Gates
  BY DEF Contexts
<1>3. \A t \in Tasks : /\ s.tasks[t].call \in Calls /\ s.tasks[t].gate \in Gates
                        /\ s.tasks[t].lock \in Gates \cup {NoLock}
  BY <1>2 DEF Task
<1>4. \A c \in Calls : s.calls[c].parent \in Gates /\ s.calls[c].by \in Gates
  BY <1>2 DEF Call
<1> QED
  BY <1>1, <1>2, <1>3, <1>4 DEF HasLock

\* Who waits at a gate is a task.
LEMMA InLine ==
  ASSUME NEW s, s \in Contexts, NEW g \in Gates
  PROVE  ToSet(s.waitingChildren[g]) \subseteq Tasks /\ ToSet(s.waiters[g]) \subseteq Tasks
<1>1. s.waitingChildren[g] \in Seq(Tasks) /\ s.waiters[g] \in Seq(Tasks)
  BY DEF Contexts
<1> QED
  BY <1>1 DEF ToSet

-----------------------------------------------------------------------------
(***************************************************************************)
(* A gate without a lock                                                   *)
(***************************************************************************)

SameLines(s, r)  == r.waitingChildren = s.waitingChildren /\ r.waiters = s.waiters
SameScope(s, r)  == r.scope = s.scope /\ r.broken = s.broken /\ r.breaking = s.breaking /\ r.aborted = s.aborted
SameFrames(s, r) == r.frames = s.frames /\ r.timers = s.timers

\* Outer gates are before inner ones.
LEMMA OuterFacts ==
  ASSUME NEW s, s \in Contexts, CallsInv(s), ScopeInv(s)
  PROVE  /\ \A k \in Sections(s) : /\ Outer(s, k) \in s.calls[k].above /\ Outer(s, k) < k
                                   /\ Outer(s, k) \in SectionGates(s) /\ s.scope[Outer(s, k)] = Outer(s, k)
         /\ \A g \in SectionGates(s) : s.scope[g] \in SectionGates(s)
         /\ SectionGates(s) \subseteq Gates
<1>1. SectionGates(s) \subseteq Gates
  BY Facts DEF SectionGates, Sections
<1>2. \A g \in SectionGates(s) : s.scope[g] \in SectionGates(s)
  BY DEF ScopeInv, SectionGates, Sections
<1>3. ASSUME NEW k \in Sections(s)
      PROVE  /\ Outer(s, k) \in s.calls[k].above /\ Outer(s, k) < k
             /\ Outer(s, k) \in SectionGates(s) /\ s.scope[Outer(s, k)] = Outer(s, k)
  <2>1. k \in Calls /\ s.calls[k].parent \in Gates
    BY Facts DEF Sections
  <2>2. s.calls[k].parent \in s.calls[k].above /\ s.calls[k].parent \in SectionGates(s)
    BY DEF ScopeInv
  <2>3. Outer(s, k) \in s.calls[k].above
    <3>1. CASE s.calls[k].parent = Root
      BY <2>2, <3>1 DEF ScopeInv, Outer
    <3>2. CASE s.calls[k].parent # Root
      <4>1. s.calls[k].parent \in Sections(s)
        BY <2>2, <3>2 DEF SectionGates
      <4>2. s.calls[s.calls[k].parent].above \subseteq s.calls[k].above
        BY <2>2, <3>2 DEF ScopeInv
      <4>3. s.calls[k].parent \in Calls
        BY <4>1 DEF Sections
      <4> QED
        BY <2>2, <4>2, <4>3 DEF ScopeInv, Outer
    <3> QED
      BY <3>1, <3>2
  <2> QED
    BY <2>1, <2>3 DEF ScopeInv, Outer
<1> QED
  BY <1>1, <1>2, <1>3

\* On a gate that is current and has no lock nobody has a lock, and no section is
\* entered below it.
LEMMA Unlocked ==
  ASSUME NEW s, s \in Contexts, CallsInv(s), ScopeInv(s), ChainInv(s),
         NEW g \in ({Root} \cup Entered(s)) \ s.broken, ~Locked(s, g)
  PROVE  Holders(s) = {} /\ \A y \in Entered(s) : y <= g
<1>1. \A z \in Entered(s) : Outer(s, z) # g
  BY DEF Locked, Entered, Outer
<1>2. \A y \in Held(s) \cup Entered(s) : ~(g < y)
  BY <1>1 DEF ChainInv
<1>3. g \in Int /\ Entered(s) \subseteq Calls /\ Calls \subseteq Int /\ Gates \subseteq Int /\ \A c \in Calls : c >= 1
  BY Facts DEF Entered, Calls
<1>4. ASSUME NEW t \in Holders(s)
      PROVE  FALSE
  <2>1. On(s, t) \in Held(s) /\ On(s, t) \in Gates /\ On(s, t) # g
    BY Facts DEF Held, On, Holders, Locked
  <2>5. On(s, t) \in Held(s) \cup Entered(s) /\ On(s, t) \in Int
    BY <1>3, <2>1
  <2>2. On(s, t) < g
    BY <1>2, <1>3, <2>1, <2>5
  <2>3. g \in Entered(s)
    BY <2>1, <2>2 DEF Gates, Root, Calls
  <2>4. g <= On(s, t)
    BY <2>1, <2>3 DEF ChainInv
  <2> QED
    BY <1>3, <2>1, <2>2, <2>4
<1> QED
  BY <1>2, <1>3, <1>4

-----------------------------------------------------------------------------
(***************************************************************************)
(* A lock for one task                                                     *)
(***************************************************************************)

Granted(s, t, r) ==
  /\ r \in Contexts
  /\ r.tasks = [u \in Tasks |-> IF u = t THEN [s.tasks[t] EXCEPT !.stage = "granted", !.lock = Home(s, t)]
                                ELSE s.tasks[u]]
  /\ r.calls = [c \in Calls |-> IF s.tasks[t].kind = "body" /\ s.tasks[t].call = c
                                THEN [s.calls[c] EXCEPT !.holds = TRUE] ELSE s.calls[c]]
  /\ SameLines(s, r) /\ SameScope(s, r) /\ SameFrames(s, r)

\* What a grant changes.
LEMMA GrantFields ==
  ASSUME NEW s, s \in Contexts, NEW t \in Tasks, NEW r, r = Grant(s, {t})
  PROVE  Granted(s, t, r)
<1> DEFINE T == [u \in Tasks |-> IF u = t THEN [s.tasks[t] EXCEPT !.stage = "granted", !.lock = Home(s, t)]
                                 ELSE s.tasks[u]]
           C == [c \in Calls |-> IF s.tasks[t].kind = "body" /\ s.tasks[t].call = c
                                 THEN [s.calls[c] EXCEPT !.holds = TRUE] ELSE s.calls[c]]
<1>1. r = [s EXCEPT !.tasks = T, !.calls = C]
  <2>1. T = [u \in Tasks |-> IF u \in {t} THEN [s.tasks[u] EXCEPT !.stage = "granted", !.lock = s.scope[s.tasks[u].gate]]
                              ELSE s.tasks[u]]
    BY DEF Home
  <2>2. C = [c \in Calls |-> IF \E u \in {t} : s.tasks[u].kind = "body" /\ s.tasks[u].call = c
                              THEN [s.calls[c] EXCEPT !.holds = TRUE] ELSE s.calls[c]]
    OBVIOUS
  <2> QED
    BY <2>1, <2>2 DEF Grant
<1>2. T \in [Tasks -> Task]
  <2>1. Home(s, t) \in Gates
    BY Facts DEF Home
  <2>2. [s.tasks[t] EXCEPT !.stage = "granted", !.lock = Home(s, t)] \in Task
    BY <2>1, Facts, Updates DEF Stages
  <2> QED
    BY <2>2, Facts
<1>3. C \in [Calls -> Call]
  <2>1. \A c \in Calls : [s.calls[c] EXCEPT !.holds = TRUE] \in Call
    BY Facts, Updates
  <2> QED
    BY <2>1, Facts
<1> HIDE DEF T, C
<1>6. r \in Contexts /\ r.tasks = T /\ r.calls = C
  BY <1>1, <1>2, <1>3 DEF Contexts
<1>7. SameLines(s, r) /\ SameScope(s, r) /\ SameFrames(s, r)
  BY <1>1 DEF Contexts, SameLines, SameScope, SameFrames
<1> QED
  BY <1>6, <1>7 DEF T, C, Granted

-----------------------------------------------------------------------------
(***************************************************************************)
(* What is kept                                                            *)
(***************************************************************************)

\* The same calls within one another.
SameTree(s, r) ==
  /\ r.scope = s.scope
  /\ \A c \in Calls : /\ r.calls[c].kind = s.calls[c].kind /\ r.calls[c].origin = s.calls[c].origin
                      /\ r.calls[c].by = s.calls[c].by /\ r.calls[c].parent = s.calls[c].parent
                      /\ r.calls[c].above = s.calls[c].above

\* The tree of gates is kept with the sections and their scopes.
LEMMA TreeKept ==
  ASSUME NEW s, NEW r, SameTree(s, r)
  PROVE  /\ Sections(r) = Sections(s) /\ SectionGates(r) = SectionGates(s)
         /\ \A k \in Calls : Outer(r, k) = Outer(s, k)
         /\ ScopeInv(s) => ScopeInv(r)
<1>1. Sections(r) = Sections(s) /\ SectionGates(r) = SectionGates(s)
  BY DEF SameTree, Sections, SectionGates
<1>2. \A k \in Calls : Outer(r, k) = Outer(s, k)
  BY DEF SameTree, Outer
<1>3. ASSUME ScopeInv(s) PROVE ScopeInv(r)
  <2>1. Sections(s) \subseteq Calls /\ SectionGates(s) = {Root} \cup Sections(s)
    BY DEF Sections, SectionGates
  <2>2. ASSUME NEW k \in Sections(s)
        PROVE  /\ r.calls[k].parent \in r.calls[k].above /\ r.calls[k].above \subseteq SectionGates(r)
               /\ \A x \in r.calls[k].above : x < k /\ (x # Root => r.calls[x].above \subseteq r.calls[k].above)
    BY <1>1, <1>3, <2>1 DEF ScopeInv, SameTree
  <2> QED
    BY <1>1, <1>3, <2>1, <2>2 DEF ScopeInv, SameTree
<1> QED
  BY <1>1, <1>2, <1>3

\* A section is not done by a step that leaves what it waits for, or that is a return.
StillWaits(s, r, k) ==
  r.calls[k].stage = "open" =>
    /\ s.calls[k].stage = "open"
    /\ \A t \in Tasks : s.tasks[t].call = k /\ Busy(s, t) =>
         /\ r.tasks[t].call = k /\ Busy(r, t)
         /\ s.tasks[t].stage = "left" => r.tasks[t].stage = "left"
    /\ Inner(s, k) \subseteq Inner(r, k) \/ Live(r, k) # {}

\* A step that lets no section be over early keeps DoneInv.
LEMMA DoneKept ==
  ASSUME NEW s, NEW r, DoneInv(s), Sections(r) = Sections(s),
         \A k \in Sections(s) : StillWaits(s, r, k)
  PROVE  DoneInv(r)
<1> SUFFICES ASSUME NEW k \in Sections(s), Done(r, k)
             PROVE  \E t \in Tasks : r.tasks[t].stage = "left" /\ r.tasks[t].call = k
  BY DEF DoneInv
<1>1. /\ r.calls[k].stage = "open" /\ Live(r, k) = {} /\ Inner(r, k) = {}
      /\ s.calls[k].kind # "start" /\ k \in Sections(s)
  BY DEF Done, Sections
<1>2. /\ s.calls[k].stage = "open" /\ Inner(s, k) = {}
      /\ \A t \in Tasks : s.tasks[t].call = k /\ Busy(s, t) =>
           /\ r.tasks[t].call = k /\ Busy(r, t)
           /\ s.tasks[t].stage = "left" => r.tasks[t].stage = "left"
  BY <1>1 DEF StillWaits
<1>3. CASE Live(s, k) # {}
  <2>1. PICK t \in Tasks : s.tasks[t].call = k /\ Busy(s, t)
    BY <1>3 DEF Live, Busy
  <2>2. r.tasks[t].call = k /\ Busy(r, t) /\ t \notin Live(r, k)
    BY <1>1, <1>2, <2>1
  <2> QED
    BY <2>2 DEF Live, Busy
<1>4. CASE Live(s, k) = {}
  <2>1. PICK t \in Tasks : s.tasks[t].stage = "left" /\ s.tasks[t].call = k
    BY <1>1, <1>2, <1>4 DEF DoneInv, Done
  <2> QED
    BY <1>2, <2>1 DEF Busy
<1> QED
  BY <1>3, <1>4

\* A task waits for a lock: it has none, and is in no line.
Dest(s, t) == IF s.tasks[t].kind = "body" THEN Outer(s, s.tasks[t].call) ELSE Home(s, t)
Asking(s, t) ==
  /\ t \in Tasks /\ s.tasks[t].stage \in {"outside", "queued"} /\ ~HasLock(s, t)
  /\ s.tasks[t].kind # "held"
  /\ \A g \in Gates : t \notin ToSet(s.waitingChildren[g]) /\ t \notin ToSet(s.waiters[g])

Got(s, t, r) ==
  /\ r \in Contexts /\ SameTree(s, r) /\ SameLines(s, r) /\ SameScope(s, r) /\ SameFrames(s, r)
  /\ \A u \in Tasks \ {t} : r.tasks[u] = s.tasks[u]
  /\ r.tasks[t].kind = s.tasks[t].kind /\ r.tasks[t].call = s.tasks[t].call
  /\ r.tasks[t].gate = s.tasks[t].gate /\ r.tasks[t].stage = "granted"
  /\ r.tasks[t].lock = Home(s, t) /\ HasLock(r, t) /\ On(r, t) = Home(s, t)
  /\ Holders(s) = {} /\ Holders(r) = {t} /\ Held(r) = {Home(s, t)}
  /\ \A c \in Calls : r.calls[c].stage = s.calls[c].stage
  /\ Entered(r) = Entered(s) \cup (IF s.tasks[t].kind = "body" THEN {s.tasks[t].call} ELSE {})
  /\ \A y \in Entered(s) : y <= Dest(s, t)

\* A task that is let in at an unlocked gate is the only one with a lock.
LEMMA GrantFacts ==
  ASSUME NEW s, Good(s), NEW t, Asking(s, t), NEW r, r = Grant(s, {t}),
         Dest(s, t) \in ({Root} \cup Entered(s)) \ s.broken, ~Locked(s, Dest(s, t))
  PROVE  Got(s, t, r)
<1>1. s \in Contexts /\ t \in Tasks /\ CallsInv(s) /\ ScopeInv(s) /\ ChainInv(s)
  BY DEF Good, Asking
<1>2. Granted(s, t, r)
  BY <1>1, GrantFields
<1>3. Holders(s) = {} /\ \A y \in Entered(s) : y <= Dest(s, t)
  BY <1>1, Unlocked
<1>4. \A c \in Calls : s.calls[c] \in Call
  BY <1>1, Facts
<1>5. s.tasks[t] \in Task /\ Home(s, t) \in Gates /\ NoLock \notin Gates /\ s.scope[Home(s, t)] = Home(s, t)
  BY <1>1, Facts DEF Home, ScopeInv
<1>6. SameTree(s, r) /\ \A c \in Calls : r.calls[c].stage = s.calls[c].stage
  <2>1. ASSUME NEW c \in Calls
        PROVE  /\ r.calls[c].kind = s.calls[c].kind /\ r.calls[c].origin = s.calls[c].origin
               /\ r.calls[c].by = s.calls[c].by /\ r.calls[c].parent = s.calls[c].parent
               /\ r.calls[c].above = s.calls[c].above /\ r.calls[c].stage = s.calls[c].stage
    <3>1. s.calls[c] \in Call /\ r.calls[c] \in {s.calls[c], [s.calls[c] EXCEPT !.holds = TRUE]}
      BY <1>2, <1>4 DEF Granted
    <3> QED
      BY <3>1 DEF Call
  <2> QED
    BY <1>2, <2>1 DEF SameTree, SameScope, Granted
<1>7. /\ \A u \in Tasks \ {t} : r.tasks[u] = s.tasks[u]
      /\ r.tasks[t].kind = s.tasks[t].kind /\ r.tasks[t].call = s.tasks[t].call
      /\ r.tasks[t].gate = s.tasks[t].gate /\ r.tasks[t].stage = "granted" /\ r.tasks[t].lock = Home(s, t)
  BY <1>1, <1>2, <1>5 DEF Task, Granted
<1>8. HasLock(r, t) /\ On(r, t) = Home(s, t)
  BY <1>2, <1>5, <1>7 DEF HasLock, On, SameScope, Granted
<1>9. Holders(r) = {t}
  BY <1>1, <1>3, <1>7, <1>8 DEF Holders, HasLock
<1>10. Held(r) = {Home(s, t)}
  BY <1>8, <1>9 DEF Held
<1>11. Entered(r) = Entered(s) \cup (IF s.tasks[t].kind = "body" THEN {s.tasks[t].call} ELSE {})
  <2>1. \A c \in Calls : r.calls[c].holds <=> s.calls[c].holds \/ (s.tasks[t].kind = "body" /\ s.tasks[t].call = c)
    BY <1>2, <1>4 DEF Call, Granted
  <2>2. s.tasks[t].call \in Calls
    BY <1>1, Facts
  <2> QED
    BY <2>1, <2>2 DEF Entered
<1> QED
  BY <1>2, <1>3, <1>6, <1>7, <1>8, <1>9, <1>10, <1>11 DEF Granted, Got

\* Letting in a task that asks at an unlocked gate keeps the invariant.
LEMMA GrantKeeps ==
  ASSUME NEW s, Good(s), NEW t, Asking(s, t), NEW r, r = Grant(s, {t}),
         Dest(s, t) \in ({Root} \cup Entered(s)) \ s.broken, ~Locked(s, Dest(s, t))
  PROVE  Good(r)
<1> DEFINE k == s.tasks[t].call
           g == Dest(s, t)
           body == s.tasks[t].kind = "body"
<1>1. /\ s \in Contexts /\ StageInv(s) /\ CallsInv(s) /\ ScopeInv(s) /\ HomesInv(s) /\ ChainInv(s)
      /\ QueueInv(s) /\ OpenInv(s) /\ DoneInv(s) /\ TurnInv(s)
  BY DEF Good
<1>2. Got(s, t, r)
  BY GrantFacts
<1>3. t \in Tasks /\ r \in Contexts /\ SameTree(s, r) /\ Sections(r) = Sections(s) /\ SectionGates(r) = SectionGates(s)
  BY <1>2, TreeKept DEF Got, Asking
<1>4. \A u \in Tasks : Home(r, u) = Home(s, u) /\ (Busy(r, u) <=> Busy(s, u))
  BY <1>2 DEF Got, SameTree, Home, Busy, Asking
<1>5. \A c \in Calls : Outer(r, c) = Outer(s, c)
  BY <1>3, TreeKept
<1>6. body => k \in Sections(s) /\ Home(s, t) = k /\ k \notin Entered(s) /\ g = Outer(s, k) /\ g < k
  <2>1. ASSUME body
        PROVE  k \in Sections(s) /\ s.tasks[t].gate = k /\ s.scope[k] = k /\ ~s.calls[k].holds
    BY <1>3, <2>1 DEF Good, QueueInv, BodyOf, Asking, CallOf
  <2> QED
    BY <1>1, <2>1, OuterFacts DEF Home, Entered, Dest
<1>7. StageInv(r)
  <2>1. r.broken = s.broken /\ r.breaking = s.breaking /\ r.frames = s.frames /\ r.timers = s.timers
    BY <1>2 DEF Got, SameScope, SameFrames
  <2>2. ASSUME NEW u \in Tasks PROVE StageOf(r, u)
    <3>1. StageOf(s, u)
      BY <1>1 DEF StageInv
    <3>2. CASE u # t
      BY <1>2, <2>1, <3>1, <3>2 DEF StageOf, Got, HasLock
    <3>3. StageOf(r, t)
      <4>1. StageOf(s, t) /\ s.tasks[t].stage \in {"outside", "queued"} /\ s.tasks[t].kind # "held"
        BY <1>1 DEF StageInv, Asking
      <4>2. r.tasks[t].kind = s.tasks[t].kind /\ r.tasks[t].stage = "granted" /\ HasLock(r, t)
        BY <1>2 DEF Got
      <4> QED
        BY <2>1, <4>1, <4>2 DEF StageOf
    <3> QED
      BY <3>2, <3>3
  <2>3. ASSUME NEW u \in s.timers PROVE TimerOf(r, u)
    <3>1. u \in Tasks /\ s.tasks[u].call \in Calls
      BY <1>1, Facts DEF Contexts
    <3>2. /\ r.tasks[u].kind = s.tasks[u].kind /\ r.tasks[u].call = s.tasks[u].call
          /\ r.tasks[u].stage \in {s.tasks[u].stage, "granted"}
      BY <1>2, <3>1 DEF Got
    <3>3. TimerOf(s, u)
      BY <1>1 DEF StageInv
    <3> QED
      BY <1>3, <3>1, <3>2, <3>3 DEF TimerOf, CallOf, SameTree
  <2> QED
    BY <1>1, <2>1, <2>2, <2>3 DEF StageInv
<1>8. CallsInv(r)
  <2>1. \A c \in Calls : /\ r.calls[c].kind = s.calls[c].kind /\ r.calls[c].stage = s.calls[c].stage
                         /\ r.calls[c].by = s.calls[c].by /\ r.calls[c].origin = s.calls[c].origin
    BY <1>2 DEF Got, SameTree
  <2>2. ASSUME NEW u \in Tasks PROVE GatesOf(r, u)
    <3>1. GatesOf(s, u) /\ s.tasks[u].call \in Calls
      BY <1>1, Facts DEF CallsInv
    <3>2. r.tasks[u].call = s.tasks[u].call /\ r.tasks[u].gate = s.tasks[u].gate
      BY <1>2 DEF Got
    <3>3. HasLock(r, u) => u = t /\ r.tasks[u].lock = Home(s, t) /\ On(r, u) = Home(s, t)
      BY <1>2 DEF Got, Holders
    <3>4. Busy(s, t)
      BY DEF Asking, Busy
    <3>5. u = t => Home(s, t) \in SectionGates(s)
      BY <1>1, <3>1, <3>4, OuterFacts DEF GatesOf, Home
    <3> QED
      BY <1>3, <1>4, <2>1, <3>1, <3>2, <3>3, <3>5 DEF GatesOf, CallOf
  <2>3. Entered(r) \subseteq Sections(r) /\ r.broken \subseteq SectionGates(r)
    BY <1>1, <1>2, <1>3, <1>6 DEF Got, CallsInv, SameScope
  <2>4. MadeInOrder(r)
    BY <1>1, <2>1 DEF MadeInOrder, CallsInv
  <2>5. \A c \in Sections(r) : MadeBy(r, c)
    <3>1. \A c \in Sections(s) : MadeBy(s, c) /\ c \in Calls
      BY <1>1 DEF CallsInv, Sections
    <3> QED
      BY <1>3, <2>1, <3>1 DEF MadeBy
  <2> QED
    BY <2>2, <2>3, <2>4, <2>5 DEF CallsInv
<1>9. ScopeInv(r)
  BY <1>1, <1>3, TreeKept
<1>10. HomesInv(r)
  <2>1. Homes(s) \subseteq Homes(r)
    BY <1>2 DEF Homes, Got, SameScope
  <2> QED
    <3>1. ASSUME NEW u \in Tasks, Busy(r, u), r.tasks[u].kind # "body" \/ HasLock(r, u)
          PROVE  Home(r, u) \in Homes(r)
      <4>1. u # t \/ s.tasks[u].kind # "body" => Home(s, u) \in Homes(s)
        BY <1>1, <1>2, <1>4, <3>1 DEF HomesInv, Got, HasLock
      <4>2. body => Home(s, t) \in Homes(r)
        BY <1>2, <1>6 DEF Got, Homes
      <4> QED
        BY <1>4, <2>1, <4>1, <4>2
    <3>2. \A c \in Sections(r) : Outer(r, c) \in Homes(r)
      BY <1>1, <1>3, <1>5, <2>1 DEF HomesInv, Sections
    <3> QED
      BY <3>1, <3>2 DEF HomesInv
<1>11. ChainInv(r)
  <2>1. /\ Held(r) = {Home(s, t)} /\ Entered(r) = Entered(s) \cup (IF body THEN {k} ELSE {})
        /\ r.broken = s.broken /\ \A y \in Entered(s) : y <= g
    BY <1>2 DEF Got, SameScope
  <2>2. \A z \in Entered(s) : Outer(s, z) # g /\ Outer(r, z) = Outer(s, z)
    BY <1>5 DEF Locked, Entered, Outer
  <2>3. /\ \A y \in Entered(s), z \in Entered(s) : y <= Outer(s, z) \/ z <= y
        /\ \A x \in ({Root} \cup Entered(s)) \ s.broken, y \in Entered(s) :
             x < y => \E z \in Entered(s) : Outer(s, z) = x
    BY <1>1 DEF ChainInv
  <2>4. /\ Entered(s) \subseteq Int /\ g \in Int /\ k \in Int /\ Home(s, t) \in Int
        /\ \A z \in Entered(s) : Outer(s, z) \in Int /\ Outer(s, z) < z
    BY <1>1, <1>3, Facts, OuterFacts DEF Entered, CallsInv, Sections, Home, Dest, Outer
  <2>5. g \in ({Root} \cup Entered(s)) \ s.broken /\ \A y \in Entered(s) : Root < y
    BY <1>1, Facts DEF Entered, Calls, Root
  <2>6. CASE ~body
    <3>1. Held(r) = {g} /\ Entered(r) = Entered(s)
      BY <2>1, <2>6 DEF Dest
    <3>2. \A h \in Held(r), y \in Held(r) \cup Entered(r) : y <= h
      BY <2>1, <2>4, <3>1
    <3>3. \A z \in Entered(r), y \in Held(r) \cup Entered(r) : y <= Outer(r, z) \/ z <= y
      BY <2>1, <2>2, <2>3, <2>4, <3>1
    <3>4. \A x \in ({Root} \cup Entered(r)) \ r.broken, y \in Held(r) \cup Entered(r) :
             x < y => \E z \in Entered(r) : Outer(r, z) = x
      <4> SUFFICES ASSUME NEW x \in ({Root} \cup Entered(s)) \ s.broken, NEW y \in {g} \cup Entered(s), x < y
                   PROVE  \E z \in Entered(s) : Outer(s, z) = x
        BY <2>1, <2>2, <3>1
      <4>1. y \in Entered(s)
        BY <2>4, <2>5
      <4> QED
        BY <2>3, <4>1
    <3> QED
      BY <3>2, <3>3, <3>4 DEF ChainInv
  <2>7. CASE body
    <3>1. /\ Held(r) = {k} /\ Entered(r) = Entered(s) \cup {k} /\ Outer(r, k) = g /\ g < k
          /\ Outer(s, k) = g
      BY <1>5, <1>6, <2>1, <2>7 DEF Sections
    <3>2. \A h \in Held(r), y \in Held(r) \cup Entered(r) : y <= h
      BY <2>1, <2>4, <3>1
    <3>3. \A z \in Entered(r), y \in Held(r) \cup Entered(r) : y <= Outer(r, z) \/ z <= y
      BY <2>1, <2>2, <2>3, <2>4, <3>1
    <3>4. \A x \in ({Root} \cup Entered(r)) \ r.broken, y \in Held(r) \cup Entered(r) :
             x < y => \E z \in Entered(r) : Outer(r, z) = x
      <4> SUFFICES ASSUME NEW x \in ({Root} \cup Entered(s) \cup {k}) \ s.broken, NEW y \in {k} \cup Entered(s), x < y
                   PROVE  \E z \in Entered(s) \cup {k} : Outer(s, z) = x
        BY <2>1, <2>2, <3>1
      <4>1. x # k
        BY <2>1, <2>4, <3>1
      <4>2. x # g => \E w \in Entered(s) : x < w
        BY <2>1, <2>4, <2>5, <3>1, <4>1
      <4> QED
        BY <2>3, <3>1, <4>1, <4>2
    <3> QED
      BY <3>2, <3>3, <3>4 DEF ChainInv
  <2> QED
    BY <2>6, <2>7
<1>12. QueueInv(r)
  <2>1. /\ r.waitingChildren = s.waitingChildren /\ r.waiters = s.waiters /\ r.scope = s.scope
        /\ \A u \in Tasks \ {t} : r.tasks[u] = s.tasks[u]
    BY <1>2 DEF Got, SameLines, SameScope
  <2>2. \A h \in Gates : /\ ToSet(s.waitingChildren[h]) \subseteq Tasks \ {t}
                        /\ ToSet(s.waiters[h]) \subseteq Tasks \ {t}
    BY <1>1, InLine DEF Asking
  <2>3. ASSUME NEW h \in Gates, NEW u \in ToSet(s.waitingChildren[h])
        PROVE  InChildren(r, h, u)
    <3>1. u \in Tasks /\ r.tasks[u] = s.tasks[u] /\ s.tasks[u].call \in Calls
      BY <1>1, <2>1, <2>2, Facts
    <3> QED
      BY <1>1, <1>5, <3>1 DEF QueueInv, LinesInv, InChildren
  <2>4. ASSUME NEW h \in Gates, NEW u \in ToSet(s.waiters[h])
        PROVE  InWaiters(r, h, u)
    <3>1. u \in Tasks /\ r.tasks[u] = s.tasks[u]
      BY <2>1, <2>2
    <3> QED
      BY <1>1, <1>4, <3>1 DEF QueueInv, LinesInv, InWaiters
  <2>5. ASSUME NEW u \in Tasks
        PROVE  BodyOf(r, u)
    <3>1. BodyOf(s, u) /\ BodyOf(s, t) /\ s.tasks[u].call \in Calls
      BY <1>1, <1>3, Facts DEF QueueInv
    <3>2. \A v \in Tasks : r.tasks[v].kind = s.tasks[v].kind /\ r.tasks[v].call = s.tasks[v].call /\ r.tasks[v].gate = s.tasks[v].gate
      BY <1>2 DEF Got
    <3>3. ~HasLock(r, u) => u # t /\ ~HasLock(s, u)
      BY <1>2, <2>1 DEF Got, HasLock
    <3>4. ASSUME r.tasks[u].kind = "body", ~HasLock(r, u), r.calls[s.tasks[u].call].holds
          PROVE  s.calls[s.tasks[u].call].holds
      <4>1. s.tasks[u].call \in Entered(r) /\ s.tasks[u].kind = "body" /\ u # t
        BY <3>1, <3>2, <3>3, <3>4 DEF Entered
      <4>2. body => s.tasks[u].call # k
        BY <1>3, <3>1, <4>1 DEF BodyOf
      <4> QED
        BY <1>2, <4>1, <4>2 DEF Got, Entered
    <3> QED
      BY <1>3, <2>1, <3>1, <3>2, <3>3, <3>4 DEF BodyOf, CallOf
  <2>6. \A h \in Gates : Single(s.waitingChildren[h]) /\ Single(s.waiters[h])
    BY <1>1 DEF QueueInv, LinesInv
  <2> QED
    BY <2>1, <2>3, <2>4, <2>5, <2>6 DEF QueueInv, LinesInv
<1>13. OpenInv(r)
  <2> SUFFICES ASSUME NEW c \in Sections(s), s.calls[c].stage = "open"
               PROVE  OpenAt(r, c)
    BY <1>2, <1>3 DEF OpenInv, Got, Sections
  <2>1. OpenAt(s, c) /\ c \in Calls /\ (s.calls[c].holds => r.calls[c].holds)
    BY <1>1, <1>2 DEF OpenInv, Sections, Got, Entered
  <2>2. ASSUME NEW u \in Tasks, Busy(r, u), r.tasks[u].call = c
        PROVE  Home(r, u) = c /\ (HasLock(r, u) => On(r, u) = c /\ r.calls[c].holds)
    <3>1. Busy(s, u) /\ s.tasks[u].call = c /\ Home(r, u) = Home(s, u) /\ Home(s, u) = c
      BY <1>2, <1>4, <2>1, <2>2, ZenonT(60) DEF Got, OpenAt
    <3>2. HasLock(r, u) => u = t
      BY <1>2 DEF Got, Holders
    <3>3. u = t => On(r, u) = c
      BY <1>2, <3>1 DEF Got
    <3>4. u = t => c \in Entered(r)
      <4>1. body /\ u = t => c \in Entered(r)
        BY <1>2, <3>1 DEF Got
      <4>2. ~body /\ u = t => c \in Entered(s)
        BY <2>1, <3>1, Facts, <1>1 DEF Dest
      <4> QED
        BY <1>2, <4>1, <4>2 DEF Got
    <3> QED
      BY <3>1, <3>2, <3>3, <3>4 DEF Entered
  <2>3. ASSUME NEW y \in Sections(r), r.calls[y].by = c
        PROVE  Outer(r, y) = c /\ r.calls[c].holds
    <3>1. y \in Sections(s) /\ y \in Calls /\ s.calls[y].by = c
      BY <1>3, <2>3 DEF SameTree, Sections
    <3> QED
      BY <1>5, <2>1, <3>1 DEF OpenAt
  <2> QED
    BY <1>2, <2>1, <2>2, <2>3 DEF OpenAt, Got, SameScope
<1>14. DoneInv(r)
  <2>1. \A u \in Tasks : r.tasks[u].call = s.tasks[u].call /\ (s.tasks[u].stage = "left" => r.tasks[u].stage = "left")
    BY <1>2 DEF Got, Asking
  <2>2. r.aborted = s.aborted
    BY <1>2 DEF Got, SameScope
  <2>3. \A c \in Calls : /\ r.calls[c].stage = s.calls[c].stage
                         /\ r.calls[c].kind = s.calls[c].kind /\ r.calls[c].by = s.calls[c].by
    BY <1>2 DEF Got, SameTree
  <2>4. \A c \in Calls : Inner(s, c) = Inner(r, c)
    BY <2>2, <2>3 DEF Inner
  <2>5. Sections(s) \subseteq Calls
    BY DEF Sections
  <2>6. \A c \in Sections(s) : StillWaits(s, r, c)
    BY <1>4, <2>1, <2>3, <2>4, <2>5 DEF StillWaits
  <2> QED
    BY <1>1, <1>3, <2>6, DoneKept
<1>15. TurnInv(r)
  BY <1>2 DEF TurnInv, Got
<1> QED
  BY <1>3, <1>7, <1>8, <1>9, <1>10, <1>11, <1>12, <1>13, <1>14, <1>15 DEF Good

-----------------------------------------------------------------------------
(***************************************************************************)
(* Steps that only let go                                                  *)
(***************************************************************************)

\* A task keeps its call, gate and lock, or is freed.
TaskLess(s, r, u) ==
  \/ r.tasks[u].stage = "free" /\ ~HasLock(r, u)
  \/ /\ Busy(s, u) /\ Busy(r, u)
     /\ r.tasks[u].call = s.tasks[u].call /\ r.tasks[u].gate = s.tasks[u].gate
     /\ r.tasks[u].lock = s.tasks[u].lock
     /\ r.tasks[u].kind = s.tasks[u].kind \/ (s.tasks[u].kind = "timer" /\ r.tasks[u].kind = "canceled")
     /\ s.tasks[u].stage = "left" => r.tasks[u].stage = "left"
     /\ r.tasks[u].stage = "granted" /\ r.tasks[u].kind # "held" => s.tasks[u].stage = "granted"

\* A section that loses its lock is broken, as is what it is in.
CallLess(s, r, c) ==
  /\ r.calls[c].stage = "free" <=> s.calls[c].stage = "free"
  /\ r.calls[c].stage = "open" => s.calls[c].stage = "open"
  /\ r.calls[c].holds => s.calls[c].holds
  /\ s.calls[c].holds => r.calls[c].holds \/ ({c, Outer(s, c)} \subseteq r.broken /\ r.calls[c].stage # "open")

Less(s, r) ==
  /\ r \in Contexts /\ SameTree(s, r)
  /\ s.broken \subseteq r.broken /\ r.broken \subseteq SectionGates(s)
  /\ \A u \in Tasks : TaskLess(s, r, u)
  /\ \A c \in Calls : CallLess(s, r, c)

\* A step that only takes away leaves fewer holders and entered sections.
LEMMA LessFacts ==
  ASSUME NEW s, NEW r, Good(s), Less(s, r)
  PROVE  /\ Sections(r) = Sections(s) /\ SectionGates(r) = SectionGates(s)
         /\ \A c \in Calls : Outer(r, c) = Outer(s, c)
         /\ Holders(r) \subseteq Holders(s) /\ \A u \in Holders(r) : On(r, u) = On(s, u)
         /\ Held(r) \subseteq Held(s) /\ Entered(r) \subseteq Entered(s)
         /\ \A k \in Entered(s) \ Entered(r) : {k, Outer(s, k)} \subseteq r.broken /\ r.calls[k].stage # "open"
         /\ \A u \in Tasks : Busy(r, u) =>
              /\ Busy(s, u) /\ r.tasks[u].call = s.tasks[u].call /\ r.tasks[u].gate = s.tasks[u].gate
              /\ Home(r, u) = Home(s, u) /\ (HasLock(r, u) <=> HasLock(s, u)) /\ r.tasks[u].lock = s.tasks[u].lock
              /\ r.tasks[u].kind = s.tasks[u].kind \/ (s.tasks[u].kind = "timer" /\ r.tasks[u].kind = "canceled")
              /\ s.tasks[u].stage = "left" => r.tasks[u].stage = "left"
              /\ r.tasks[u].stage = "granted" /\ r.tasks[u].kind # "held" => s.tasks[u].stage = "granted"
<1>1. /\ Sections(r) = Sections(s) /\ SectionGates(r) = SectionGates(s)
      /\ \A c \in Calls : Outer(r, c) = Outer(s, c)
  BY TreeKept DEF Less
<1>2. ASSUME NEW u \in Tasks, Busy(r, u)
      PROVE  /\ Busy(s, u) /\ r.tasks[u].call = s.tasks[u].call /\ r.tasks[u].gate = s.tasks[u].gate
             /\ Home(r, u) = Home(s, u) /\ (HasLock(r, u) <=> HasLock(s, u)) /\ r.tasks[u].lock = s.tasks[u].lock
             /\ r.tasks[u].kind = s.tasks[u].kind \/ (s.tasks[u].kind = "timer" /\ r.tasks[u].kind = "canceled")
             /\ s.tasks[u].stage = "left" => r.tasks[u].stage = "left"
             /\ r.tasks[u].stage = "granted" /\ r.tasks[u].kind # "held" => s.tasks[u].stage = "granted"
  BY <1>2 DEF Less, TaskLess, Busy, Home, HasLock, SameTree
<1>3. ASSUME NEW u \in Holders(r)
      PROVE  u \in Holders(s) /\ On(r, u) = On(s, u)
  BY DEF Less, TaskLess, Holders, HasLock, On, SameTree
<1>4. Held(r) \subseteq Held(s)
  BY <1>3 DEF Held
<1>5. /\ Entered(r) \subseteq Entered(s)
      /\ \A k \in Entered(s) \ Entered(r) : {k, Outer(s, k)} \subseteq r.broken /\ r.calls[k].stage # "open"
  BY DEF Less, CallLess, Entered
<1> QED
  BY <1>1, <1>2, <1>3, <1>4, <1>5

\* A step that only takes away keeps the invariant, if stages and lines follow.
LEMMA LessKeeps ==
  ASSUME NEW s, NEW r, Good(s), Less(s, r), StageInv(r), LinesInv(r), DoneInv(r)
  PROVE  Good(r)
<1>1. /\ s \in Contexts /\ StageInv(s) /\ CallsInv(s) /\ ScopeInv(s) /\ HomesInv(s) /\ ChainInv(s)
      /\ QueueInv(s) /\ OpenInv(s) /\ DoneInv(s) /\ TurnInv(s)
  BY DEF Good
<1>2. r \in Contexts /\ SameTree(s, r) /\ ScopeInv(r)
  BY <1>1, TreeKept DEF Less
<1>3. Sections(s) \subseteq Calls /\ \A u \in Tasks : s.tasks[u].call \in Calls
  BY <1>1, Facts DEF Sections
<1>4. CallsInv(r)
  <2>1. ASSUME NEW u \in Tasks PROVE GatesOf(r, u)
    <3>1. Busy(r, u) => CallOf(r, u).stage # "free" /\ r.tasks[u].gate \in SectionGates(r)
      BY <1>1, <1>3, LessFacts DEF CallsInv, GatesOf, CallOf, Less, CallLess
    <3>2. HasLock(r, u) => r.tasks[u].lock \in SectionGates(r) /\ On(r, u) = Home(r, u)
      <4>1. HasLock(r, u) => u \in Holders(r) /\ u \in Holders(s)
        BY LessFacts DEF Holders
      <4>2. HasLock(r, u) => HasLock(s, u) /\ r.tasks[u].lock = s.tasks[u].lock /\ On(r, u) = On(s, u)
                             /\ r.tasks[u].gate = s.tasks[u].gate
        BY DEF Less, TaskLess, HasLock, SameTree, On
      <4>3. HasLock(r, u) => Home(r, u) = Home(s, u)
        BY <1>2, <4>2 DEF Home, SameTree
      <4> QED
        BY <1>1, <4>2, <4>3, LessFacts DEF CallsInv, GatesOf
    <3> QED
      BY <3>1, <3>2 DEF GatesOf
  <2>2. MadeInOrder(r)
    BY <1>1, <1>2 DEF CallsInv, MadeInOrder, Less, CallLess, SameTree
  <2>3. \A k \in Sections(r) : MadeBy(r, k)
    <3>1. \A k \in Sections(s) : MadeBy(s, k)
      BY <1>1 DEF CallsInv
    <3> QED
      BY <1>2, <1>3, <3>1, LessFacts DEF MadeBy, Less, CallLess, SameTree
  <2>4. Entered(r) \subseteq Sections(r) /\ r.broken \subseteq SectionGates(r)
    BY <1>1, LessFacts DEF CallsInv, Less
  <2> QED
    BY <2>1, <2>2, <2>3, <2>4 DEF CallsInv
<1>5. HomesInv(r)
  <2>1. Homes(s) \subseteq Homes(r)
    BY LessFacts DEF Homes, Less
  <2>2. ASSUME NEW u \in Tasks, Busy(r, u), r.tasks[u].kind # "body" \/ HasLock(r, u)
        PROVE  Home(r, u) \in Homes(r)
    <3>1. Busy(s, u) /\ (s.tasks[u].kind # "body" \/ HasLock(s, u)) /\ Home(r, u) = Home(s, u)
      BY <2>2, LessFacts
    <3> QED
      BY <1>1, <2>1, <3>1 DEF HomesInv
  <2>3. ASSUME NEW k \in Sections(r) PROVE Outer(r, k) \in Homes(r)
    <3>1. k \in Sections(s) /\ Outer(r, k) = Outer(s, k)
      BY <1>3, LessFacts
    <3> QED
      BY <1>1, <2>1, <3>1 DEF HomesInv
  <2> QED
    BY <2>2, <2>3 DEF HomesInv
<1>6. ChainInv(r)
  <2>1. /\ Held(r) \subseteq Held(s) /\ Entered(r) \subseteq Entered(s) /\ s.broken \subseteq r.broken
        /\ \A k \in Entered(s) \ Entered(r) : Outer(s, k) \in r.broken
        /\ \A k \in Entered(s) : Outer(r, k) = Outer(s, k)
    BY LessFacts DEF Less, Entered
  <2>2. \A x \in ({Root} \cup Entered(r)) \ r.broken, y \in Held(r) \cup Entered(r) :
           x < y => \E z \in Entered(r) : Outer(r, z) = x
    <3> SUFFICES ASSUME NEW x \in ({Root} \cup Entered(r)) \ r.broken, NEW y \in Held(r) \cup Entered(r), x < y
                 PROVE  \E z \in Entered(r) : Outer(r, z) = x
      OBVIOUS
    <3>1. PICK z \in Entered(s) : Outer(s, z) = x
      BY <1>1, <2>1 DEF ChainInv
    <3> QED
      BY <2>1, <3>1
  <2> QED
    BY <1>1, <2>1, <2>2 DEF ChainInv
<1>7. QueueInv(r)
  <2>1. ASSUME NEW u \in Tasks PROVE BodyOf(r, u)
    <3> SUFFICES ASSUME r.tasks[u].kind = "body" PROVE BodyOf(r, u)
      BY DEF BodyOf
    <3>1. \A v \in Tasks : r.tasks[v].kind = "body" => Busy(r, v) /\ s.tasks[v].kind = "body" /\ s.tasks[v].call = r.tasks[v].call
      <4>1. ASSUME NEW v \in Tasks, r.tasks[v].kind = "body" PROVE Busy(r, v)
        BY <4>1 DEF StageInv, StageOf, Busy
      <4> QED
        BY <4>1, LessFacts
    <3>2. BodyOf(s, u) /\ s.tasks[u].call \in Calls
      BY <1>1, <1>3 DEF QueueInv
    <3>3. /\ r.tasks[u].gate = s.tasks[u].gate /\ (HasLock(r, u) <=> HasLock(s, u))
          /\ CallOf(r, u).holds => CallOf(s, u).holds
      BY <3>1, <3>2, LessFacts DEF CallOf, Less, CallLess
    <3> QED
      BY <1>2, <3>1, <3>2, <3>3, LessFacts DEF BodyOf, SameTree
  <2> QED
    BY <2>1 DEF QueueInv
<1>8. OpenInv(r)
  <2> SUFFICES ASSUME NEW c \in Sections(s), r.calls[c].stage = "open"
               PROVE  OpenAt(r, c)
    BY LessFacts DEF OpenInv
  <2>1. OpenAt(s, c) /\ c \in Calls /\ (s.calls[c].holds => r.calls[c].holds)
    BY <1>1, <1>3 DEF OpenInv, Less, CallLess
  <2>2. ASSUME NEW u \in Tasks, Busy(r, u), r.tasks[u].call = c
        PROVE  Home(r, u) = c /\ (HasLock(r, u) => On(r, u) = c /\ r.calls[c].holds)
    <3>1. Busy(s, u) /\ s.tasks[u].call = c /\ Home(r, u) = Home(s, u) /\ (HasLock(r, u) <=> HasLock(s, u))
          /\ r.tasks[u].lock = s.tasks[u].lock
      BY <2>2, LessFacts
    <3>2. On(r, u) = On(s, u)
      BY <1>2, <3>1 DEF On, SameTree
    <3> QED
      BY <2>1, <3>1, <3>2 DEF OpenAt
  <2>3. ASSUME NEW y \in Sections(r), r.calls[y].by = c
        PROVE  Outer(r, y) = c /\ r.calls[c].holds
    BY <1>2, <1>3, <2>1, <2>3, LessFacts DEF OpenAt, SameTree
  <2> QED
    BY <1>2, <2>1, <2>2, <2>3 DEF OpenAt, SameTree
<1>9. TurnInv(r)
  <2>1. ASSUME NEW u \in Holders(r)
        PROVE  /\ u \in Holders(s) /\ u \in Tasks /\ Busy(r, u) /\ r.tasks[u].call = s.tasks[u].call
               /\ CallOf(r, u).origin = CallOf(s, u).origin /\ (Spent(s, u) => Spent(r, u))
               /\ r.tasks[u].stage = "granted" /\ r.tasks[u].kind # "held" =>
                    s.tasks[u].stage = "granted" /\ s.tasks[u].kind # "held"
    <3>1. u \in Tasks /\ u \in Holders(s) /\ HasLock(r, u)
      BY LessFacts DEF Holders
    <3>2. Busy(r, u)
      BY <3>1 DEF StageInv, StageOf, Busy
    <3>3. r.tasks[u].call = s.tasks[u].call /\ (s.tasks[u].stage = "left" => r.tasks[u].stage = "left") /\ s.tasks[u].call \in Calls
      BY <1>3, <3>1, <3>2, LessFacts
    <3>4. CallOf(r, u).origin = CallOf(s, u).origin /\ CallOf(r, u).kind = CallOf(s, u).kind
          /\ (CallOf(r, u).stage = "open" => CallOf(s, u).stage = "open")
      BY <1>2, <3>3 DEF CallOf, SameTree, Less, CallLess
    <3>5. r.tasks[u].stage = "granted" /\ r.tasks[u].kind # "held" =>
                    s.tasks[u].stage = "granted" /\ s.tasks[u].kind # "held"
      BY <3>1, <3>2, LessFacts
    <3> QED
      BY <3>1, <3>2, <3>3, <3>4, <3>5 DEF Spent
  <2> QED
    BY <1>1, <2>1 DEF TurnInv
<1> QED
  BY <1>2, <1>4, <1>5, <1>6, <1>7, <1>8, <1>9 DEF Good

\* Such a step does not end a section: one of whose tasks is refused is not open any
\* more, and one that failed is waited for until the abort.
Patient(s, r) ==
  /\ ~r.aborted
  /\ \A k \in Sections(s) : s.calls[k].stage \in {"open", "stuck", "failed"} => r.calls[k].stage \in {"open", "stuck", "failed"}
  /\ \A t \in Tasks : Busy(s, t) /\ ~Busy(r, t) /\ s.tasks[t].call \in Sections(s) => r.calls[s.tasks[t].call].stage # "open"

\* No section is over by a step that waits for its slices.
LEMMA PatientKeeps ==
  ASSUME NEW s, NEW r, Good(s), Less(s, r), Patient(s, r)
  PROVE  DoneInv(r)
<1>1. s \in Contexts /\ DoneInv(s) /\ Sections(s) \subseteq Calls
  BY DEF Good, Sections
<1>2. ASSUME NEW k \in Sections(s) PROVE StillWaits(s, r, k)
  <2> SUFFICES ASSUME r.calls[k].stage = "open" PROVE StillWaits(s, r, k)
    BY DEF StillWaits
  <2>1. s.calls[k].stage = "open"
    BY <1>1 DEF Less, CallLess
  <2>2. ASSUME NEW t \in Tasks, s.tasks[t].call = k, Busy(s, t)
        PROVE  r.tasks[t].call = k /\ Busy(r, t) /\ (s.tasks[t].stage = "left" => r.tasks[t].stage = "left")
    <3>1. Busy(r, t)
      BY <2>2 DEF Patient
    <3> QED
      BY <2>2, <3>1, LessFacts
  <2>3. Inner(s, k) \subseteq Inner(r, k)
    <3>1. ASSUME NEW y \in Inner(s, k) PROVE y \in Inner(r, k)
      <4>1. y \in Sections(s) /\ y \in Calls /\ s.calls[y].by = k /\ s.calls[y].stage \in {"open", "stuck", "failed"}
        BY DEF Inner, Sections
      <4>2. r.calls[y].kind = "section" /\ r.calls[y].by = k
        BY <4>1 DEF Less, SameTree, Sections
      <4> QED
        BY <4>1, <4>2 DEF Inner, Patient
    <3> QED
      BY <3>1
  <2> QED
    BY <2>1, <2>2, <2>3 DEF StillWaits
<1> QED
  BY <1>1, <1>2, LessFacts, DoneKept

\* Lines of which some are left, and whose tasks still wait.
LEMMA LinesLess ==
  ASSUME NEW s, NEW r, Good(s), Less(s, r),
         \A g \in Gates : /\ Single(r.waitingChildren[g]) /\ Single(r.waiters[g])
                          /\ ToSet(r.waitingChildren[g]) \subseteq ToSet(s.waitingChildren[g])
                          /\ ToSet(r.waiters[g]) \subseteq ToSet(s.waiters[g])
                          /\ \A t \in ToSet(r.waitingChildren[g]) \cup ToSet(r.waiters[g]) : r.tasks[t] = s.tasks[t]
  PROVE  LinesInv(r)
<1>1. s \in Contexts /\ LinesInv(s) /\ SameTree(s, r)
  BY DEF Good, QueueInv, Less
<1>2. ASSUME NEW g \in Gates, NEW t \in ToSet(r.waitingChildren[g]) PROVE InChildren(r, g, t)
  <2>1. InChildren(s, g, t) /\ t \in Tasks /\ r.tasks[t] = s.tasks[t] /\ s.tasks[t].call \in Calls
    BY <1>1, InLine, Facts DEF LinesInv
  <2> QED
    BY <2>1, LessFacts DEF InChildren
<1>3. ASSUME NEW g \in Gates, NEW t \in ToSet(r.waiters[g]) PROVE InWaiters(r, g, t)
  <2>1. InWaiters(s, g, t) /\ t \in Tasks /\ r.tasks[t] = s.tasks[t]
    BY <1>1, InLine DEF LinesInv
  <2> QED
    BY <1>1, <2>1 DEF InWaiters, Home, SameTree
<1> QED
  BY <1>2, <1>3 DEF LinesInv

\* The frames of tasks whose stage stays.
LEMMA StagesLess ==
  ASSUME NEW s, NEW r, Good(s), Less(s, r), r.frames = s.frames, r.broken # {} => r.breaking,
         \A t \in Tasks : \/ r.tasks[t] = s.tasks[t]
                          \/ /\ r.tasks[t].stage = "free" /\ r.tasks[t].kind = "none" /\ ~HasLock(r, t)
                             /\ s.tasks[t].stage \notin {"running", "left"},
         r.timers \subseteq s.timers, \A t \in r.timers : r.tasks[t] = s.tasks[t]
  PROVE  StageInv(r)
<1>1. s \in Contexts /\ StageInv(s) /\ r \in Contexts /\ SameTree(s, r)
  BY DEF Good, Less
<1>2. ASSUME NEW t \in Tasks PROVE StageOf(r, t)
  <2>1. StageOf(s, t)
    BY <1>1 DEF StageInv
  <2>2. CASE r.tasks[t] = s.tasks[t]
    BY <2>1, <2>2 DEF StageOf, HasLock
  <2>3. CASE /\ r.tasks[t].stage = "free" /\ r.tasks[t].kind = "none" /\ ~HasLock(r, t)
             /\ s.tasks[t].stage \notin {"running", "left"}
    BY <2>1, <2>3 DEF StageOf
  <2> QED
    BY <2>2, <2>3
<1>3. ASSUME NEW t \in r.timers PROVE TimerOf(r, t)
  <2>1. t \in Tasks /\ TimerOf(s, t) /\ r.tasks[t] = s.tasks[t] /\ s.tasks[t].call \in Calls
    BY <1>1, Facts DEF StageInv, Contexts
  <2> QED
    BY <1>1, <2>1 DEF TimerOf, CallOf, SameTree
<1> QED
  BY <1>2, <1>3 DEF StageInv

-----------------------------------------------------------------------------
(***************************************************************************)
(* Refusals                                                                *)
(***************************************************************************)

\* What a free entry of a pool looks like.
LEMMA Nothing == NoTask \in Task /\ NoCall \in Call /\ NoTask.lock = NoLock /\ NoTask.stage = "free" /\ NoTask.kind = "none"
<1>1. 1 \in Calls /\ Root \in Gates /\ 1 \in Gates
  BY IoContextAssumption DEF Calls, Gates
<1> QED
  BY <1>1 DEF NoTask, NoCall, Task, Call, Stages, Kinds, CallKinds, CallStages

\* Sets of tasks can be counted.
LEMMA Counts ==
  ASSUME NEW R, R \subseteq Tasks
  PROVE  Cardinality(R) \in Int
<1>1. IsFiniteSet(Tasks)
  BY FS_Interval, IoContextAssumption DEF Tasks
<1>2. IsFiniteSet(R)
  BY <1>1, FS_Subset
<1>3. Cardinality(R) \in Nat
  BY <1>2, FS_CardinalityType
<1> QED
  BY <1>3

\* What becomes of the stage of a call one of whose tasks is refused.
Refusal(s, R, c, stage) ==
  \/ stage = s.calls[c].stage /\ ((\E t \in R : s.tasks[t].call = c) => stage # "open")
  \/ s.calls[c].stage \in {"open", "stuck"} /\ stage \in {"stuck", "failed", "over"}
     /\ (s.calls[c].kind = "section" => stage # "over")

Refused(s, R, r) ==
  /\ r \in Contexts /\ SameTree(s, r) /\ SameLines(s, r) /\ SameScope(s, r)
  /\ r.frames = s.frames /\ r.timers = s.timers \ R
  /\ \A t \in Tasks : r.tasks[t] = IF t \in R THEN NoTask ELSE s.tasks[t]
  /\ \A c \in Calls : r.calls[c].holds = s.calls[c].holds /\ Refusal(s, R, c, r.calls[c].stage)

\* What Refuse() changes.
LEMMA RefuseFields ==
  ASSUME NEW s, s \in Contexts, NEW R \in SUBSET Tasks, NEW r, r = Refuse(s, R)
  PROVE  Refused(s, R, r)
<1> DEFINE of(c) == {t \in R : s.tasks[t].call = c}
           refusal(c) == IF s.calls[c].stage \notin {"open", "stuck"} THEN s.calls[c].stage
                         ELSE IF \A t \in of(c) : s.tasks[t].kind \in {"await", "held"} THEN "stuck"
                         ELSE IF s.calls[c].kind = "section" THEN "failed" ELSE "over"
           T == [t \in Tasks |-> IF t \in R THEN NoTask ELSE s.tasks[t]]
           C == [c \in Calls |-> IF of(c) = {} THEN s.calls[c] ELSE [s.calls[c] EXCEPT !.stage = refusal(c)]]
           W == s.waitUntil - Cardinality({t \in R : Tracked(s.tasks[t].kind)})
           P == s.pendingEvents - Cardinality({t \in R : Counted(s.tasks[t].kind)})
<1>1. r = [s EXCEPT !.tasks = T, !.waitUntil = W, !.pendingEvents = P, !.calls = C, !.timers = s.timers \ R]
  BY DEF Refuse
<1>2. T \in [Tasks -> Task]
  BY Nothing, Facts
<1>3. \A c \in Calls : s.calls[c] \in Call /\ refusal(c) \in CallStages
  <2>1. \A c \in Calls : s.calls[c] \in Call /\ s.calls[c].stage \in CallStages
    BY Facts DEF Call
  <2> QED
    BY <2>1 DEF CallStages
<1>4. C \in [Calls -> Call]
  BY <1>3, Updates
<1>5. W \in Int /\ P \in Int
  <2>1. s.waitUntil \in Int /\ s.pendingEvents \in Int
    BY DEF Contexts
  <2>2. Cardinality({t \in R : Tracked(s.tasks[t].kind)}) \in Int
    BY Counts
  <2>3. Cardinality({t \in R : Counted(s.tasks[t].kind)}) \in Int
    BY Counts
  <2> QED
    BY <2>1, <2>2, <2>3
<1>6. ASSUME NEW c \in Calls
      PROVE  /\ C[c].kind = s.calls[c].kind /\ C[c].origin = s.calls[c].origin
             /\ C[c].by = s.calls[c].by /\ C[c].parent = s.calls[c].parent
             /\ C[c].above = s.calls[c].above /\ C[c].holds = s.calls[c].holds
             /\ Refusal(s, R, c, C[c].stage)
  <2>1. s.calls[c] \in Call /\ C[c] \in {s.calls[c], [s.calls[c] EXCEPT !.stage = refusal(c)]}
    BY <1>3
  <2>2. CASE of(c) = {}
    <3>1. C[c] = s.calls[c]
      BY <2>2
    <3>2. ~ \E t \in R : s.tasks[t].call = c
      BY <2>2
    <3> HIDE DEF C
    <3> QED
      BY <3>1, <3>2 DEF Refusal
  <2>3. CASE of(c) # {}
    <3>1. C[c] = [s.calls[c] EXCEPT !.stage = refusal(c)]
      BY <2>3
    <3>2. Refusal(s, R, c, refusal(c))
      BY DEF Refusal
    <3> HIDE DEF C, refusal
    <3> QED
      BY <2>1, <3>1, <3>2 DEF Call
  <2> QED
    BY <2>2, <2>3
<1> HIDE DEF T, C, W, P
<1>7. r \in Contexts /\ r.tasks = T /\ r.calls = C /\ r.timers = s.timers \ R
  BY <1>1, <1>2, <1>4, <1>5 DEF Contexts
<1>8. SameLines(s, r) /\ SameScope(s, r) /\ r.frames = s.frames
  BY <1>1 DEF Contexts, SameLines, SameScope
<1>9. SameTree(s, r)
  BY <1>6, <1>7, <1>8 DEF SameTree, SameScope
<1>10. \A t \in Tasks : r.tasks[t] = IF t \in R THEN NoTask ELSE s.tasks[t]
  BY <1>7 DEF T
<1> QED
  BY <1>6, <1>7, <1>8, <1>9, <1>10 DEF Refused

\* Tasks that have no slice yet can be refused.
LEMMA RefuseKeeps ==
  ASSUME NEW s, Good(s), ~s.aborted, NEW R \in SUBSET Tasks, NEW r, r = Refuse(s, R),
         \A t \in R : /\ s.tasks[t].stage \notin {"running", "left"}
                      /\ \A g \in Gates : t \notin ToSet(s.waitingChildren[g]) /\ t \notin ToSet(s.waiters[g])
  PROVE  Good(r) /\ Less(s, r) /\ Refused(s, R, r)
<1>1. s \in Contexts /\ StageInv(s) /\ CallsInv(s) /\ LinesInv(s)
  BY DEF Good, QueueInv
<1>2. Refused(s, R, r)
  BY <1>1, RefuseFields
<1>3. \A t \in Tasks : r.tasks[t] = IF t \in R THEN NoTask ELSE s.tasks[t]
  BY <1>2 DEF Refused
<1>4. r.broken = s.broken /\ r.breaking = s.breaking /\ r.aborted = s.aborted
  BY <1>2 DEF Refused, SameScope
<1>5. Less(s, r)
  <2>1. ASSUME NEW u \in Tasks PROVE TaskLess(s, r, u)
    <3>1. CASE u \in R
      BY <1>3, <3>1, Nothing DEF TaskLess, HasLock
    <3>2. CASE u \notin R
      <4>1. r.tasks[u] = s.tasks[u]
        BY <1>3, <3>2
      <4>2. CASE Busy(s, u)
        BY <4>1, <4>2 DEF TaskLess, Busy
      <4>3. CASE ~Busy(s, u)
        <5>1. StageOf(s, u)
          BY <1>1 DEF StageInv
        <5> QED
          BY <4>1, <4>3, <5>1 DEF TaskLess, Busy, StageOf, HasLock
      <4> QED
        BY <4>2, <4>3
    <3> QED
      BY <3>1, <3>2
  <2>2. ASSUME NEW c \in Calls PROVE CallLess(s, r, c)
    BY <1>2 DEF CallLess, Refused, Refusal
  <2> QED
    BY <1>1, <1>2, <1>4, <2>1, <2>2 DEF Less, Refused, CallsInv
<1>6. Patient(s, r)
  <2>1. Sections(s) \subseteq Calls /\ \A k \in Sections(s) : s.calls[k].kind = "section"
    BY DEF Sections
  <2>2. ASSUME NEW k \in Sections(s), s.calls[k].stage \in {"open", "stuck", "failed"}
        PROVE  r.calls[k].stage \in {"open", "stuck", "failed"}
    BY <1>2, <2>1, <2>2 DEF Refused, Refusal
  <2>3. ASSUME NEW t \in Tasks, Busy(s, t), ~Busy(r, t), s.tasks[t].call \in Sections(s)
        PROVE  r.calls[s.tasks[t].call].stage # "open"
    <3>1. t \in R
      BY <1>3, <2>3 DEF Busy
    <3> QED
      BY <1>2, <2>1, <2>3, <3>1 DEF Refused, Refusal
  <2> QED
    BY <1>4, <2>2, <2>3 DEF Patient
<1>7. StageInv(r)
  <2>1. r.frames = s.frames /\ r.timers = s.timers \ R
    BY <1>2 DEF Refused
  <2>2. r.broken # {} => r.breaking
    BY <1>1, <1>4 DEF StageInv
  <2>3. ASSUME NEW t \in Tasks
        PROVE  \/ r.tasks[t] = s.tasks[t]
               \/ /\ r.tasks[t].stage = "free" /\ r.tasks[t].kind = "none" /\ ~HasLock(r, t)
                  /\ s.tasks[t].stage \notin {"running", "left"}
    BY <1>3, Nothing DEF HasLock
  <2>4. \A t \in r.timers : r.tasks[t] = s.tasks[t]
    BY <1>1, <1>3, <2>1 DEF Contexts
  <2> QED
    BY <1>5, <2>1, <2>2, <2>3, <2>4, StagesLess
<1>8. LinesInv(r)
  <2>1. ASSUME NEW g \in Gates
        PROVE /\ Single(r.waitingChildren[g]) /\ Single(r.waiters[g])
              /\ ToSet(r.waitingChildren[g]) \subseteq ToSet(s.waitingChildren[g])
              /\ ToSet(r.waiters[g]) \subseteq ToSet(s.waiters[g])
              /\ \A t \in ToSet(r.waitingChildren[g]) \cup ToSet(r.waiters[g]) : r.tasks[t] = s.tasks[t]
    <3>1. r.waitingChildren = s.waitingChildren /\ r.waiters = s.waiters
      BY <1>2 DEF Refused, SameLines
    <3>2. \A t \in ToSet(s.waitingChildren[g]) \cup ToSet(s.waiters[g]) : t \in Tasks /\ t \notin R
      BY <1>1, InLine
    <3> QED
      BY <1>1, <1>3, <3>1, <3>2 DEF LinesInv
  <2> QED
    BY <1>5, <2>1, LinesLess
<1>9. DoneInv(r)
  BY <1>5, <1>6, PatientKeeps
<1> QED
  BY <1>2, <1>5, <1>7, <1>8, <1>9, LessKeeps

\* The gates that break, whose lines are empty.
Emptied(s, B, r) ==
  /\ r \in Contexts /\ SameTree(s, r) /\ SameFrames(s, r)
  /\ r.tasks = s.tasks /\ r.calls = s.calls
  /\ r.broken = s.broken \cup B /\ r.breaking = TRUE /\ r.aborted = s.aborted
  /\ \A g \in Gates : /\ r.waitingChildren[g] = IF g \in B THEN <<>> ELSE s.waitingChildren[g]
                      /\ r.waiters[g] = IF g \in B THEN <<>> ELSE s.waiters[g]

\* The empty line.
LEMMA NoLine == Single(<<>>) /\ ToSet(<<>>) = {} /\ \A S : <<>> \in Seq(S)
  BY DEF Single, ToSet

\* What a breaking gate does to its lines.
LEMMA EmptiedFields ==
  ASSUME NEW s, s \in Contexts, NEW B \in SUBSET Gates, NEW r,
         r = [s EXCEPT !.broken = @ \cup B, !.breaking = TRUE,
                       !.waitingChildren = [g \in Gates |-> IF g \in B THEN <<>> ELSE @[g]],
                       !.waiters = [g \in Gates |-> IF g \in B THEN <<>> ELSE @[g]]]
  PROVE  Emptied(s, B, r)
<1> DEFINE W == [g \in Gates |-> IF g \in B THEN <<>> ELSE s.waitingChildren[g]]
           X == [g \in Gates |-> IF g \in B THEN <<>> ELSE s.waiters[g]]
<1>1. r = [s EXCEPT !.broken = s.broken \cup B, !.breaking = TRUE, !.waitingChildren = W, !.waiters = X]
  OBVIOUS
<1>2. W \in [Gates -> Seq(Tasks)] /\ X \in [Gates -> Seq(Tasks)]
  BY NoLine DEF Contexts
<1>3. \A g \in Gates : /\ W[g] = IF g \in B THEN <<>> ELSE s.waitingChildren[g]
                       /\ X[g] = IF g \in B THEN <<>> ELSE s.waiters[g]
  OBVIOUS
<1> HIDE DEF W, X
<1>4. /\ r \in Contexts /\ r.waitingChildren = W /\ r.waiters = X /\ r.tasks = s.tasks /\ r.calls = s.calls
      /\ r.broken = s.broken \cup B /\ r.breaking = TRUE /\ r.aborted = s.aborted /\ r.scope = s.scope
      /\ r.frames = s.frames /\ r.timers = s.timers
  BY <1>1, <1>2, ZenonT(60) DEF Contexts
<1> QED
  BY <1>3, <1>4 DEF Emptied, SameTree, SameFrames

\* Gates that break with empty lines keep the invariant.
LEMMA EmptiedKeeps ==
  ASSUME NEW s, Good(s), ~s.aborted, NEW B \in SUBSET SectionGates(s), NEW r, Emptied(s, B, r)
  PROVE  Good(r) /\ Less(s, r)
<1>1. s \in Contexts /\ StageInv(s) /\ CallsInv(s) /\ LinesInv(s)
  BY DEF Good, QueueInv
<1>2. r.tasks = s.tasks /\ r.calls = s.calls /\ r.aborted = s.aborted
  BY DEF Emptied
<1>3. Less(s, r)
  <2>1. ASSUME NEW u \in Tasks PROVE TaskLess(s, r, u)
    <3>1. CASE Busy(s, u)
      BY <1>2, <3>1 DEF TaskLess, Busy
    <3>2. CASE ~Busy(s, u)
      <4>1. StageOf(s, u)
        BY <1>1 DEF StageInv
      <4> QED
        BY <1>2, <3>2, <4>1 DEF TaskLess, Busy, StageOf, HasLock
    <3> QED
      BY <3>1, <3>2
  <2>2. ASSUME NEW c \in Calls PROVE CallLess(s, r, c)
    BY <1>2 DEF CallLess
  <2>3. s.broken \subseteq r.broken /\ r.broken \subseteq SectionGates(s)
    BY <1>1 DEF Emptied, CallsInv
  <2> QED
    BY <2>1, <2>2, <2>3 DEF Less, Emptied
<1>4. Patient(s, r)
  BY <1>2 DEF Patient, Busy
<1>5. StageInv(r)
  BY <1>2, <1>3, StagesLess DEF Emptied, SameFrames
<1>6. LinesInv(r)
  <2>1. ASSUME NEW g \in Gates
        PROVE /\ Single(r.waitingChildren[g]) /\ Single(r.waiters[g])
              /\ ToSet(r.waitingChildren[g]) \subseteq ToSet(s.waitingChildren[g])
              /\ ToSet(r.waiters[g]) \subseteq ToSet(s.waiters[g])
              /\ \A t \in ToSet(r.waitingChildren[g]) \cup ToSet(r.waiters[g]) : r.tasks[t] = s.tasks[t]
    BY <1>1, <1>2, NoLine DEF Emptied, LinesInv
  <2> QED
    BY <1>3, <2>1, LinesLess
<1>7. DoneInv(r)
  BY <1>3, <1>4, PatientKeeps
<1> QED
  BY <1>3, <1>5, <1>6, <1>7, LessKeeps

\* Gates that break refuse who waits at them.
LEMMA BreakKeeps ==
  ASSUME NEW s, Good(s), ~s.aborted, NEW B \in SUBSET SectionGates(s), NEW r, r = Break(s, B)
  PROVE  /\ Good(r) /\ SameTree(s, r) /\ r.broken = s.broken \cup B /\ ~r.aborted /\ r.frames = s.frames
         /\ \A g \in B : r.waitingChildren[g] = <<>> /\ r.waiters[g] = <<>>
         /\ \A t \in Tasks : r.tasks[t] = s.tasks[t] \/ (s.tasks[t].stage = "queued" /\ r.tasks[t] = NoTask)
         /\ \A c \in Calls : r.calls[c].holds = s.calls[c].holds /\ (r.calls[c].stage = "free" <=> s.calls[c].stage = "free")
<1> DEFINE e == [s EXCEPT !.broken = @ \cup B, !.breaking = TRUE,
                          !.waitingChildren = [g \in Gates |-> IF g \in B THEN <<>> ELSE @[g]],
                          !.waiters = [g \in Gates |-> IF g \in B THEN <<>> ELSE @[g]]]
           R == UNION {ToSet(s.waitingChildren[g]) \cup ToSet(s.waiters[g]) : g \in B}
<1>1. r = Refuse(e, R)
  BY DEF Break
<1>2. /\ s \in Contexts /\ StageInv(s) /\ CallsInv(s) /\ ScopeInv(s) /\ LinesInv(s)
      /\ B \subseteq Gates /\ SectionGates(s) \subseteq Gates
  <2>1. s \in Contexts /\ StageInv(s) /\ CallsInv(s) /\ ScopeInv(s) /\ LinesInv(s)
    BY DEF Good, QueueInv
  <2> QED
    BY <2>1, OuterFacts
<1>3. Emptied(s, B, e)
  BY <1>2, EmptiedFields
<1> HIDE DEF e
<1>4. Good(e)
  BY <1>3, EmptiedKeeps
<1>5. ASSUME NEW t \in R
      PROVE  /\ t \in Tasks /\ s.tasks[t].stage = "queued"
             /\ \A g \in Gates : t \notin ToSet(e.waitingChildren[g]) /\ t \notin ToSet(e.waiters[g])
  <2>1. PICK h \in B : t \in ToSet(s.waitingChildren[h]) \/ t \in ToSet(s.waiters[h])
    OBVIOUS
  <2>2. t \in Tasks /\ (InChildren(s, h, t) \/ InWaiters(s, h, t))
    BY <1>2, <2>1, InLine DEF LinesInv
  <2>3. ASSUME NEW g \in Gates, t \in ToSet(e.waitingChildren[g]) \/ t \in ToSet(e.waiters[g])
        PROVE  FALSE
    <3>1. g \notin B /\ (t \in ToSet(s.waitingChildren[g]) \/ t \in ToSet(s.waiters[g]))
      BY <1>3, <2>3, NoLine DEF Emptied
    <3>2. g # h
      BY <3>1
    <3>3. CASE t \in ToSet(s.waitingChildren[g])
      BY <1>2, <2>1, <3>2, <3>3 DEF LinesInv, InChildren, InWaiters
    <3>4. CASE t \in ToSet(s.waiters[g])
      BY <1>2, <2>1, <3>2, <3>4 DEF LinesInv, InChildren, InWaiters
    <3> QED
      BY <3>1, <3>3, <3>4
  <2> QED
    BY <2>2, <2>3 DEF InChildren, InWaiters
<1>6. R \subseteq Tasks /\ ~e.aborted /\ e.tasks = s.tasks /\ e.calls = s.calls
  BY <1>3, <1>5 DEF Emptied
<1>7. \A t \in R : e.tasks[t].stage \notin {"running", "left"}
  BY <1>5, <1>6
<1> HIDE DEF R
<1>8. Good(r) /\ Refused(e, R, r)
  BY <1>1, <1>4, <1>5, <1>6, <1>7, RefuseKeeps
<1>9. SameTree(s, r)
  <2>1. SameTree(s, e) /\ SameTree(e, r)
    BY <1>3, <1>8 DEF Emptied, Refused
  <2> QED
    BY <2>1 DEF SameTree
<1>10. /\ r.broken = s.broken \cup B /\ ~r.aborted /\ r.frames = s.frames
       /\ \A g \in B : r.waitingChildren[g] = <<>> /\ r.waiters[g] = <<>>
  BY <1>2, <1>3, <1>8 DEF Emptied, Refused, SameScope, SameLines, SameFrames
<1>11. \A t \in Tasks : r.tasks[t] = s.tasks[t] \/ (s.tasks[t].stage = "queued" /\ r.tasks[t] = NoTask)
  BY <1>5, <1>6, <1>8 DEF Refused
<1>12. \A c \in Calls : r.calls[c].holds = s.calls[c].holds /\ (r.calls[c].stage = "free" <=> s.calls[c].stage = "free")
  BY <1>6, <1>8 DEF Refused, Refusal
<1> QED
  BY <1>8, <1>9, <1>10, <1>11, <1>12

\* Locks that go to nobody.
LEMMA NobodyWaits ==
  ASSUME NEW s, s \in Contexts, NEW G \in SUBSET Gates,
         \A g \in G : Locked(s, g) \/ (s.waitingChildren[g] = <<>> /\ s.waiters[g] = <<>>)
  PROVE  HandOver(s, G) = s
<1> DEFINE children == {g \in G : s.waitingChildren[g] # <<>> /\ ~Locked(s, g)}
           others   == {g \in G : s.waiters[g] # <<>> /\ s.waitingChildren[g] = <<>> /\ ~Locked(s, g)}
           d == [s EXCEPT !.waitingChildren = [g \in Gates |-> IF g \in children THEN Tail(@[g]) ELSE @[g]],
                          !.waiters = [g \in Gates |-> IF g \in others THEN Tail(@[g]) ELSE @[g]]]
           H == {Head(s.waitingChildren[g]) : g \in children} \cup {Head(s.waiters[g]) : g \in others}
<1>1. HandOver(s, G) = Grant(d, H)
  BY DEF HandOver
<1>2. children = {} /\ others = {}
  OBVIOUS
<1>3. H = {}
  BY <1>2
<1>4. d = s
  <2>1. /\ [g \in Gates |-> IF g \in children THEN Tail(s.waitingChildren[g]) ELSE s.waitingChildren[g]] = s.waitingChildren
        /\ [g \in Gates |-> IF g \in others THEN Tail(s.waiters[g]) ELSE s.waiters[g]] = s.waiters
    BY <1>2 DEF Contexts
  <2>2. d = [s EXCEPT !.waitingChildren = s.waitingChildren, !.waiters = s.waiters]
    BY <2>1
  <2> HIDE DEF d
  <2> QED
    BY <2>2 DEF Contexts
<1>5. Grant(s, {}) = s
  <2>3. s.tasks = [t \in Tasks |-> s.tasks[t]] /\ s.calls = [c \in Calls |-> s.calls[c]]
    BY DEF Contexts
  <2>1. /\ [t \in Tasks |-> IF t \in {} THEN [s.tasks[t] EXCEPT !.stage = "granted", !.lock = s.scope[s.tasks[t].gate]] ELSE s.tasks[t]] = s.tasks
        /\ [c \in Calls |-> IF \E t \in {} : s.tasks[t].kind = "body" /\ s.tasks[t].call = c
                            THEN [s.calls[c] EXCEPT !.holds = TRUE] ELSE s.calls[c]] = s.calls
    BY <2>3
  <2>2. Grant(s, {}) = [s EXCEPT !.tasks = s.tasks, !.calls = s.calls]
    BY <2>1 DEF Grant
  <2> QED
    BY <2>2 DEF Contexts
<1> HIDE DEF H, d
<1>6. HandOver(s, G) = Grant(s, {})
  BY <1>1, <1>3, <1>4
<1> QED
  BY <1>5, <1>6

\* A section throws, or is over time.
LEMMA FailKeeps ==
  ASSUME NEW s, Good(s), ~s.aborted, NEW k \in Entered(s), s.calls[k].stage \in {"open", "stuck"},
         NEW r, r = Fail(s, k)
  PROVE  /\ Good(r) /\ ~r.aborted /\ r.frames = s.frames
         /\ \A t \in ToSet(s.frames) : r.tasks[t] = s.tasks[t]
         /\ \A c \in Calls : r.calls[c].origin = s.calls[c].origin
<1> DEFINE B == {k} \cup s.calls[k].above
           t == Break(s, B)
           e == [t EXCEPT !.calls[k] = [@ EXCEPT !.stage = "failed", !.holds = FALSE]]
           u == Untrack(e, "body")
<1>1. s \in Contexts /\ StageInv(s) /\ CallsInv(s) /\ ScopeInv(s) /\ k \in Sections(s) /\ k \in Calls
  BY DEF Good, CallsInv, Entered
<1>2. B \subseteq SectionGates(s) /\ k \in B /\ Outer(s, k) \in B /\ SectionGates(s) \subseteq Gates
  BY <1>1, OuterFacts DEF ScopeInv, SectionGates
<1> HIDE DEF B
<1>3. /\ Good(t) /\ SameTree(s, t) /\ t.broken = s.broken \cup B /\ ~t.aborted /\ t.frames = s.frames
      /\ \A g \in B : t.waitingChildren[g] = <<>> /\ t.waiters[g] = <<>>
      /\ \A v \in Tasks : t.tasks[v] = s.tasks[v] \/ (s.tasks[v].stage = "queued" /\ t.tasks[v] = NoTask)
      /\ \A c \in Calls : t.calls[c].holds = s.calls[c].holds /\ (t.calls[c].stage = "free" <=> s.calls[c].stage = "free")
  BY <1>2, BreakKeeps
<1>4. r = IF s.calls[k].holds THEN ReleaseLock(u, s.calls[k].parent) ELSE u
  BY DEF Fail, B
<1> HIDE DEF t
<1> DEFINE d == [t.calls[k] EXCEPT !.stage = "failed", !.holds = FALSE]
           C == [t.calls EXCEPT ![k] = d]
           W == t.waitUntil - 1
<1>16. u = [t EXCEPT !.calls = C, !.waitUntil = W]
  <2>1. e = [t EXCEPT !.calls = C]
    OBVIOUS
  <2>2. e.waitUntil = t.waitUntil
    BY <1>3, <2>1 DEF Good, Contexts
  <2>3. u = [e EXCEPT !.waitUntil = e.waitUntil - 1]
    BY DEF Untrack, Tracked
  <2> HIDE DEF u, e, C
  <2> QED
    BY <2>1, <2>2, <2>3
<1>17. d = [t.calls[k] EXCEPT !.stage = "failed", !.holds = FALSE]
  OBVIOUS
<1> HIDE DEF d, u
<1>7. /\ d \in Call /\ d.stage = "failed" /\ d.holds = FALSE
      /\ d.kind = t.calls[k].kind /\ d.origin = t.calls[k].origin
      /\ d.by = t.calls[k].by /\ d.parent = t.calls[k].parent /\ d.above = t.calls[k].above
  <2>1. t.calls[k] \in Call /\ "failed" \in CallStages
    BY <1>1, <1>3 DEF Good, Contexts, CallStages
  <2> QED
    BY <1>17, <2>1 DEF Call
<1>18. t \in Contexts /\ W \in Int /\ C \in [Calls -> Call]
  <2>1. t \in Contexts
    BY <1>3 DEF Good
  <2>2. t.calls \in [Calls -> Call] /\ t.waitUntil \in Int
    BY <2>1 DEF Contexts
  <2>3. C \in [Calls -> Call]
    BY <1>7, <2>2
  <2> QED
    BY <2>1, <2>2, <2>3
<1>5. /\ u \in Contexts /\ u.tasks = t.tasks /\ SameLines(t, u) /\ SameScope(t, u) /\ SameFrames(t, u)
      /\ u.calls = [t.calls EXCEPT ![k] = d]
  <2> HIDE DEF C, W
  <2>1. /\ u \in Contexts /\ u.tasks = t.tasks /\ SameLines(t, u) /\ SameScope(t, u) /\ SameFrames(t, u)
        /\ u.calls = C
    BY <1>16, <1>18 DEF Contexts, SameLines, SameScope, SameFrames
  <2> QED
    BY <2>1 DEF C
<1>6. (\A c \in Calls \ {k} : u.calls[c] = t.calls[c]) /\ u.calls[k] = d
  <2>1. t.calls \in [Calls -> Call]
    BY <1>3 DEF Good, Contexts
  <2> QED
    BY <1>1, <1>5, <2>1
<1>8. SameTree(t, u)
  BY <1>5, <1>6, <1>7 DEF SameTree, SameScope
<1>9. Less(t, u)
  <2>1. ASSUME NEW v \in Tasks PROVE TaskLess(t, u, v)
    <3>1. StageOf(t, v)
      BY <1>3 DEF Good, StageInv
    <3> QED
      BY <1>5, <3>1 DEF TaskLess, Busy, StageOf, HasLock
  <2>2. ASSUME NEW c \in Calls PROVE CallLess(t, u, c)
    <3>1. CASE c # k
      BY <1>6, <3>1 DEF CallLess
    <3>2. CASE c = k
      <4>1. t.calls[k].stage # "free"
        BY <1>1, <1>3
      <4>2. Outer(t, k) = Outer(s, k)
        BY <1>1, <1>3, TreeKept
      <4>3. {k, Outer(t, k)} \subseteq u.broken
        BY <1>2, <1>3, <1>5, <4>2 DEF SameScope
      <4> QED
        BY <1>6, <1>7, <3>2, <4>1, <4>3 DEF CallLess
    <3> QED
      BY <3>1, <3>2
  <2>3. u.broken = t.broken /\ t.broken \subseteq SectionGates(t)
    BY <1>3, <1>5 DEF SameScope, Good, CallsInv
  <2> QED
    BY <1>5, <1>8, <2>1, <2>2, <2>3 DEF Less
<1>10. Patient(t, u)
  <2>1. \A c \in Calls \ {k} : u.calls[c].stage = t.calls[c].stage
    BY <1>6
  <2> QED
    BY <1>3, <1>5, <1>6, <1>7, <2>1 DEF Patient, SameScope, Sections, Busy
<1>11. Good(u)
  <2>1. StageInv(u)
    BY <1>3, <1>5, <1>9, StagesLess DEF SameFrames, SameScope, Good, StageInv
  <2>2. LinesInv(u)
    <3>1. \A g \in Gates : Single(t.waitingChildren[g]) /\ Single(t.waiters[g])
      BY <1>3 DEF Good, QueueInv, LinesInv
    <3> QED
      BY <1>3, <1>5, <1>9, <3>1, LinesLess DEF SameLines
  <2> QED
    BY <1>3, <1>9, <1>10, <2>1, <2>2, LessKeeps, PatientKeeps
<1>12. r = u
  <2>1. s.calls[k].holds
    BY DEF Entered
  <2>2. u.scope[s.calls[k].parent] = Outer(s, k)
    BY <1>3, <1>5 DEF SameScope, SameTree, Outer
  <2>3. ReleaseLock(u, s.calls[k].parent) = HandOver(u, {Outer(s, k)})
    BY <2>2 DEF ReleaseLock
  <2>4. u.waitingChildren[Outer(s, k)] = <<>> /\ u.waiters[Outer(s, k)] = <<>>
    BY <1>2, <1>3, <1>5 DEF SameLines
  <2> QED
    BY <1>2, <1>4, <1>5, <2>1, <2>3, <2>4, NobodyWaits
<1>13. ~u.aborted /\ u.frames = s.frames
  BY <1>3, <1>5 DEF SameScope, SameFrames
<1>14. ASSUME NEW v \in ToSet(s.frames) PROVE u.tasks[v] = s.tasks[v]
  <2>1. v \in Tasks
    BY <1>1 DEF Contexts, ToSet
  <2>2. s.tasks[v].stage \in {"running", "left"}
    BY <1>1, <2>1 DEF StageInv, StageOf
  <2> QED
    BY <1>3, <1>5, <2>1, <2>2
<1>15. \A c \in Calls : u.calls[c].origin = s.calls[c].origin
  BY <1>3, <1>8 DEF SameTree
<1> QED
  BY <1>11, <1>12, <1>13, <1>14, <1>15

-----------------------------------------------------------------------------
(***************************************************************************)
(* Steps of one task or call                                               *)
(***************************************************************************)

\* Calls other than sections end, counts change.
CallsStep(s, r) ==
  /\ r \in Contexts /\ SameTree(s, r) /\ SameLines(s, r) /\ SameFrames(s, r)
  /\ r.tasks = s.tasks /\ r.broken = s.broken /\ ~r.aborted /\ (s.broken # {} => r.breaking)
  /\ \A c \in Calls : \/ r.calls[c] = s.calls[c]
                      \/ /\ s.calls[c].stage # "free"
                         /\ c \in Sections(s) => s.calls[c].stage \notin {"open", "stuck", "failed"}
                         /\ r.calls[c].holds = s.calls[c].holds /\ r.calls[c].stage \notin {"free", "open"}

\* Stages of calls may change where no section opens or is over early.
LEMMA CallsKeep ==
  ASSUME NEW s, Good(s), ~s.aborted, NEW r, CallsStep(s, r)
  PROVE  Good(r)
<1>1. s \in Contexts /\ StageInv(s) /\ CallsInv(s) /\ LinesInv(s)
  BY DEF Good, QueueInv
<1>2. r.tasks = s.tasks /\ r.broken = s.broken /\ SameTree(s, r) /\ r \in Contexts
  BY DEF CallsStep
<1>3. Less(s, r)
  <2>1. ASSUME NEW u \in Tasks PROVE TaskLess(s, r, u)
    <3>1. StageOf(s, u)
      BY <1>1 DEF StageInv
    <3> QED
      BY <1>2, <3>1 DEF TaskLess, Busy, StageOf, HasLock
  <2>2. ASSUME NEW c \in Calls PROVE CallLess(s, r, c)
    BY DEF CallLess, CallsStep
  <2> QED
    BY <1>1, <1>2, <2>1, <2>2 DEF Less, CallsInv
<1>4. Patient(s, r)
  <2>1. \A k \in Sections(s) : s.calls[k].stage \in {"open", "stuck", "failed"} => r.calls[k] = s.calls[k]
    BY DEF CallsStep, Sections
  <2> QED
    BY <1>2, <2>1 DEF Patient, Busy, CallsStep
<1>5. StageInv(r)
  BY <1>2, <1>3, StagesLess DEF CallsStep, SameFrames
<1>6. LinesInv(r)
  <2>1. r.waitingChildren = s.waitingChildren /\ r.waiters = s.waiters
    BY DEF CallsStep, SameLines
  <2> QED
    BY <1>1, <1>2, <1>3, <2>1, LinesLess DEF LinesInv
<1> QED
  BY <1>3, <1>4, <1>5, <1>6, LessKeeps, PatientKeeps

\* A task goes on: its slice starts or returns, it queues, or has been fired.
TaskStep(s, t, r) ==
  /\ r \in Contexts /\ SameScope(s, r) /\ r.calls = s.calls
  /\ \A u \in Tasks : /\ u # t => r.tasks[u] = s.tasks[u]
                      /\ u # t => (u \in ToSet(r.frames) <=> u \in ToSet(s.frames))
  /\ r.tasks[t].call = s.tasks[t].call /\ r.tasks[t].gate = s.tasks[t].gate
  /\ r.tasks[t].lock = s.tasks[t].lock /\ r.tasks[t].kind = s.tasks[t].kind
  /\ r.timers \subseteq s.timers

\* One task may move on to where its stage and the lines agree.
LEMMA TaskKeeps ==
  ASSUME NEW s, Good(s), ~s.aborted, NEW t \in Tasks, s.tasks[t].stage \notin {"free", "left"},
         NEW r, TaskStep(s, t, r), Busy(r, t), StageOf(r, t), LinesInv(r),
         r.tasks[t].stage = "granted" => r.tasks[t].kind = "held",
         t \in r.timers => r.tasks[t].stage # "left"
  PROVE  Good(r)
<1>1. s \in Contexts /\ StageInv(s) /\ CallsInv(s)
  BY DEF Good
<1>2. r \in Contexts /\ r.calls = s.calls /\ r.scope = s.scope /\ r.broken = s.broken /\ r.breaking = s.breaking
      /\ r.aborted = s.aborted /\ \A u \in Tasks \ {t} : r.tasks[u] = s.tasks[u]
  BY DEF TaskStep, SameScope
<1>3. Less(s, r)
  <2>1. ASSUME NEW u \in Tasks PROVE TaskLess(s, r, u)
    <3>1. StageOf(s, u)
      BY <1>1 DEF StageInv
    <3>2. CASE u # t
      BY <1>2, <3>1, <3>2 DEF TaskLess, Busy, StageOf, HasLock
    <3>3. TaskLess(s, r, t)
      BY DEF TaskLess, TaskStep, Busy
    <3> QED
      BY <3>2, <3>3
  <2>2. \A c \in Calls : CallLess(s, r, c)
    BY <1>2 DEF CallLess
  <2>3. SameTree(s, r)
    BY <1>2 DEF SameTree
  <2> QED
    BY <1>1, <1>2, <2>1, <2>2, <2>3 DEF Less, CallsInv
<1>4. Patient(s, r)
  <2>1. \A u \in Tasks : Busy(s, u) => Busy(r, u)
    BY <1>2 DEF Busy
  <2> QED
    BY <1>2, <2>1 DEF Patient
<1>5. StageInv(r)
  <2>1. ASSUME NEW u \in Tasks PROVE StageOf(r, u)
    <3>1. CASE u # t
      <4>1. StageOf(s, u) /\ r.tasks[u] = s.tasks[u] /\ (u \in ToSet(r.frames) <=> u \in ToSet(s.frames))
        BY <1>1, <1>2, <3>1 DEF StageInv, TaskStep
      <4> QED
        BY <4>1 DEF StageOf, HasLock
    <3> QED
      BY <3>1
  <2>2. ASSUME NEW u \in r.timers PROVE TimerOf(r, u)
    <3>1. u \in Tasks /\ TimerOf(s, u)
      BY <1>1 DEF StageInv, TaskStep, Contexts
    <3>2. /\ r.tasks[u].kind = s.tasks[u].kind /\ r.tasks[u].call = s.tasks[u].call
          /\ u # t => r.tasks[u] = s.tasks[u]
      BY <1>2, <3>1 DEF TaskStep
    <3> QED
      BY <1>2, <3>1, <3>2 DEF TimerOf, CallOf
  <2> QED
    BY <1>1, <1>2, <2>1, <2>2 DEF StageInv
<1> QED
  BY <1>3, <1>4, <1>5, LessKeeps, PatientKeeps

\* The lines do not change, and the task is in none.
LEMMA TaskLines ==
  ASSUME NEW s, Good(s), NEW t \in Tasks, s.tasks[t].stage # "queued", NEW r, TaskStep(s, t, r), SameLines(s, r)
  PROVE  LinesInv(r)
<1>1. s \in Contexts /\ LinesInv(s)
  BY DEF Good, QueueInv
<1>2. /\ r.waitingChildren = s.waitingChildren /\ r.waiters = s.waiters /\ r.scope = s.scope /\ r.calls = s.calls
      /\ \A u \in Tasks \ {t} : r.tasks[u] = s.tasks[u]
  BY DEF TaskStep, SameLines, SameScope
<1>3. ASSUME NEW g \in Gates, NEW u \in ToSet(s.waitingChildren[g]) PROVE InChildren(r, g, u)
  <2>1. u \in Tasks /\ InChildren(s, g, u)
    BY <1>1, InLine DEF LinesInv
  <2>2. r.tasks[u] = s.tasks[u]
    BY <1>2, <2>1 DEF InChildren
  <2> QED
    BY <1>2, <2>1, <2>2 DEF InChildren, Outer
<1>4. ASSUME NEW g \in Gates, NEW u \in ToSet(s.waiters[g]) PROVE InWaiters(r, g, u)
  <2>1. u \in Tasks /\ InWaiters(s, g, u)
    BY <1>1, InLine DEF LinesInv
  <2>2. r.tasks[u] = s.tasks[u]
    BY <1>2, <2>1 DEF InWaiters
  <2> QED
    BY <1>2, <2>1, <2>2 DEF InWaiters, Home
<1> QED
  BY <1>1, <1>2, <1>3, <1>4 DEF LinesInv

\* Joining and leaving a line.
LEMMA LineFacts ==
  ASSUME NEW line \in Seq(Tasks)
  PROVE  /\ \A t \in Tasks : /\ Append(line, t) \in Seq(Tasks) /\ ToSet(Append(line, t)) = ToSet(line) \cup {t}
                             /\ Single(line) /\ t \notin ToSet(line) => Single(Append(line, t))
         /\ line # <<>> =>
              /\ Tail(line) \in Seq(Tasks) /\ Head(line) \in ToSet(line) /\ ToSet(Tail(line)) \subseteq ToSet(line)
              /\ Single(line) => Single(Tail(line)) /\ Head(line) \notin ToSet(Tail(line))
<1>1. ASSUME NEW t \in Tasks
      PROVE  /\ Append(line, t) \in Seq(Tasks) /\ ToSet(Append(line, t)) = ToSet(line) \cup {t}
             /\ Single(line) /\ t \notin ToSet(line) => Single(Append(line, t))
  <2>1. /\ Append(line, t) \in Seq(Tasks) /\ DOMAIN Append(line, t) = 1..(Len(line) + 1) /\ DOMAIN line = 1..Len(line)
        /\ Len(line) \in Nat
        /\ \A i \in 1..Len(line) : Append(line, t)[i] = line[i]
        /\ Append(line, t)[Len(line) + 1] = t
    OBVIOUS
  <2>2. 1..(Len(line) + 1) = (1..Len(line)) \cup {Len(line) + 1}
    BY <2>1
  <2>3. ToSet(Append(line, t)) = ToSet(line) \cup {t}
    <3> DEFINE a == Append(line, t)
    <3>1. \A x : x \in ToSet(a) <=> \E i \in 1..(Len(line) + 1) : a[i] = x
      BY <2>1 DEF ToSet
    <3>2. \A x : x \in ToSet(line) <=> \E i \in 1..Len(line) : line[i] = x
      BY <2>1 DEF ToSet
    <3> HIDE DEF a
    <3>3. \A x : (\E i \in 1..(Len(line) + 1) : a[i] = x) <=> (\E i \in 1..Len(line) : a[i] = x) \/ a[Len(line) + 1] = x
      BY <2>1, <2>2
    <3>4. \A x : x \in ToSet(a) <=> x \in ToSet(line) \cup {t}
      BY <2>1, <3>1, <3>2, <3>3 DEF a
    <3> QED
      BY <3>4 DEF a
  <2>4. Single(line) /\ t \notin ToSet(line) => Single(Append(line, t))
    <3>1. ASSUME Single(line), t \notin ToSet(line), NEW i \in 1..(Len(line) + 1), NEW j \in 1..(Len(line) + 1),
                 Append(line, t)[i] = Append(line, t)[j]
          PROVE  i = j
      <4>1. \A m \in 1..Len(line) : line[m] # t
        BY <2>1, <3>1 DEF ToSet
      <4>2. \A m, n \in 1..Len(line) : line[m] = line[n] => m = n
        BY <2>1, <3>1 DEF Single
      <4> QED
        BY <2>1, <2>2, <3>1, <4>1, <4>2
    <3> QED
      BY <2>1, <3>1 DEF Single
  <2> QED
    BY <2>1, <2>3, <2>4
<1>2. ASSUME line # <<>>
      PROVE  /\ Tail(line) \in Seq(Tasks) /\ Head(line) \in ToSet(line) /\ ToSet(Tail(line)) \subseteq ToSet(line)
             /\ Single(line) => Single(Tail(line)) /\ Head(line) \notin ToSet(Tail(line))
  <2>1. /\ Tail(line) \in Seq(Tasks) /\ DOMAIN Tail(line) = 1..(Len(line) - 1) /\ DOMAIN line = 1..Len(line)
        /\ Len(line) \in Nat \ {0} /\ Head(line) = line[1]
        /\ \A i \in 1..(Len(line) - 1) : Tail(line)[i] = line[i + 1]
    BY <1>2
  <2>2. \A i \in 1..(Len(line) - 1) : i + 1 \in 1..Len(line) /\ i + 1 # 1
    BY <2>1
  <2>3. Head(line) \in ToSet(line) /\ ToSet(Tail(line)) \subseteq ToSet(line)
    BY <2>1, <2>2 DEF ToSet
  <2>4. ASSUME Single(line) PROVE Single(Tail(line)) /\ Head(line) \notin ToSet(Tail(line))
    <3>1. \A i, j \in 1..Len(line) : line[i] = line[j] => i = j
      BY <2>1, <2>4 DEF Single
    <3>2. \A i, j \in 1..(Len(line) - 1) : Tail(line)[i] = Tail(line)[j] => i = j
      BY <2>1, <2>2, <3>1
    <3>3. \A i \in 1..(Len(line) - 1) : Tail(line)[i] # Head(line)
      BY <2>1, <2>2, <3>1
    <3> QED
      BY <2>1, <3>2, <3>3 DEF Single, ToSet
  <2> QED
    BY <2>1, <2>3, <2>4
<1> QED
  BY <1>1, <1>2

\* Another stage of one task.
LEMMA StageFields ==
  ASSUME NEW s, s \in Contexts, NEW t \in Tasks, NEW stage \in Stages, NEW r, r = Stage(s, t, stage)
  PROVE  /\ r \in Contexts /\ r.calls = s.calls /\ SameLines(s, r) /\ SameScope(s, r) /\ SameFrames(s, r)
         /\ \A u \in Tasks \ {t} : r.tasks[u] = s.tasks[u]
         /\ r.tasks[t].stage = stage /\ r.tasks[t].kind = s.tasks[t].kind /\ r.tasks[t].call = s.tasks[t].call
         /\ r.tasks[t].gate = s.tasks[t].gate /\ r.tasks[t].lock = s.tasks[t].lock
<1> DEFINE x == [s.tasks[t] EXCEPT !.stage = stage]
           T == [s.tasks EXCEPT ![t] = x]
<1>1. x \in Task /\ x.stage = stage /\ x.kind = s.tasks[t].kind /\ x.call = s.tasks[t].call
      /\ x.gate = s.tasks[t].gate /\ x.lock = s.tasks[t].lock
  <2>1. s.tasks[t] \in Task
    BY Facts
  <2> QED
    BY <2>1 DEF Task
<1>2. r = [s EXCEPT !.tasks = T]
  BY DEF Stage
<1> HIDE DEF x
<1>3. T \in [Tasks -> Task] /\ T[t] = x /\ \A u \in Tasks \ {t} : T[u] = s.tasks[u]
  <2>1. s.tasks \in [Tasks -> Task]
    BY DEF Contexts
  <2> QED
    BY <1>1, <2>1
<1> HIDE DEF T
<1>4. r \in Contexts /\ r.tasks = T /\ r.calls = s.calls /\ SameLines(s, r) /\ SameScope(s, r) /\ SameFrames(s, r)
  BY <1>2, <1>3 DEF Contexts, SameLines, SameScope, SameFrames
<1> QED
  BY <1>1, <1>3, <1>4

\* Only counts change.
Recounted(s, r) ==
  r \in Contexts /\ r.tasks = s.tasks /\ r.calls = s.calls /\ SameLines(s, r) /\ SameScope(s, r) /\ SameFrames(s, r)

\* The counters of the context are all that addTask() and run() change.
LEMMA CountFields ==
  ASSUME NEW s, s \in Contexts, NEW kind
  PROVE  Recounted(s, Track(s, kind)) /\ Recounted(s, Untrack(s, kind)) /\ Recounted(s, Begun(s, kind)) /\ Recounted(s, Ended(s, kind))
<1>1. s.waitUntil \in Int /\ s.pendingEvents \in Int
  BY DEF Contexts
<1>2. ASSUME NEW n \in Int, NEW r, r = [s EXCEPT !.waitUntil = n] \/ r = [s EXCEPT !.pendingEvents = n]
      PROVE  Recounted(s, r)
  BY <1>2 DEF Contexts, Recounted, SameLines, SameScope, SameFrames
<1>3. /\ (IF Tracked(kind) THEN s.waitUntil + 1 ELSE s.waitUntil) \in Int
      /\ (IF Tracked(kind) THEN s.waitUntil - 1 ELSE s.waitUntil) \in Int
      /\ (IF Counted(kind) THEN s.pendingEvents + 1 ELSE s.pendingEvents) \in Int
      /\ (IF Counted(kind) THEN s.pendingEvents - 1 ELSE s.pendingEvents) \in Int
  BY <1>1
<1> QED
  BY <1>2, <1>3 DEF Track, Untrack, Begun, Ended

\* The counters are in no part of the invariant.
LEMMA CountsKeep ==
  ASSUME NEW s, Good(s), ~s.aborted, NEW r, Recounted(s, r)
  PROVE  Good(r) /\ ~r.aborted
<1>1. CallsStep(s, r) /\ ~r.aborted
  BY DEF Recounted, CallsStep, SameTree, SameScope, Good, StageInv
<1> QED
  BY <1>1, CallsKeep

\* A granted task becomes a slice of the checkpoint.
LEMMA PushKeeps ==
  ASSUME NEW s, Good(s), ~s.aborted, NEW t \in Tasks, s.tasks[t].stage = "granted", NEW r, r = Push(s, t)
  PROVE  /\ Good(r) /\ ~r.aborted /\ ToSet(r.frames) = ToSet(s.frames) \cup {t} /\ r.calls = s.calls
         /\ \A u \in Tasks : r.tasks[u].call = s.tasks[u].call
<1> DEFINE q == Stage(s, t, "running")
           F == Append(s.frames, t)
<1>1. s \in Contexts /\ StageOf(s, t) /\ "running" \in Stages /\ ToSet(s.frames) \subseteq Tasks
  BY DEF Good, StageInv, Stages, Contexts, ToSet
<1>2. /\ q \in Contexts /\ q.calls = s.calls /\ SameLines(s, q) /\ SameScope(s, q) /\ SameFrames(s, q)
      /\ \A u \in Tasks \ {t} : q.tasks[u] = s.tasks[u]
      /\ q.tasks[t].stage = "running" /\ q.tasks[t].kind = s.tasks[t].kind /\ q.tasks[t].call = s.tasks[t].call
      /\ q.tasks[t].gate = s.tasks[t].gate /\ q.tasks[t].lock = s.tasks[t].lock
  BY <1>1, StageFields
<1>3. F \in Seq(Tasks) /\ ToSet(F) = ToSet(s.frames) \cup {t}
  <2>1. s.frames \in Seq(Tasks)
    BY <1>1 DEF Contexts
  <2> QED
    BY <2>1, LineFacts
<1>4. r = [q EXCEPT !.frames = F]
  BY <1>2 DEF Push, SameFrames
<1> HIDE DEF F, q
<1>5. /\ r \in Contexts /\ r.tasks = q.tasks /\ r.calls = q.calls /\ SameLines(q, r) /\ SameScope(q, r)
      /\ r.frames = F /\ r.timers = q.timers
  BY <1>2, <1>3, <1>4 DEF Contexts, SameLines, SameScope
<1>6. TaskStep(s, t, r) /\ SameLines(s, r) /\ r.timers = s.timers
  BY <1>2, <1>3, <1>5 DEF TaskStep, SameLines, SameScope, SameFrames
<1>7. StageOf(r, t) /\ Busy(r, t) /\ r.tasks[t].stage = "running"
  BY <1>1, <1>2, <1>3, <1>5 DEF StageOf, Busy, HasLock
<1>8. LinesInv(r)
  BY <1>6, TaskLines
<1>9. Good(r)
  BY <1>6, <1>7, <1>8, TaskKeeps
<1>10. ~r.aborted
  BY <1>2, <1>5 DEF SameScope
<1> QED
  BY <1>2, <1>3, <1>5, <1>9, <1>10

\* A storage operation that settles goes on under the lock it kept.
LEMMA KeptKeeps ==
  ASSUME NEW s, Good(s), ~s.aborted, NEW t \in Tasks, s.tasks[t].stage = "outside", s.tasks[t].kind = "held",
         NEW r, r = Stage(s, t, "granted")
  PROVE  Good(r) /\ ~r.aborted /\ SameFrames(s, r) /\ r.calls = s.calls /\ \A u \in Tasks : r.tasks[u].call = s.tasks[u].call
<1>1. s \in Contexts /\ StageOf(s, t) /\ "granted" \in Stages
  BY DEF Good, StageInv, Stages
<1>2. /\ r \in Contexts /\ r.calls = s.calls /\ SameLines(s, r) /\ SameScope(s, r) /\ SameFrames(s, r)
      /\ \A u \in Tasks \ {t} : r.tasks[u] = s.tasks[u]
      /\ r.tasks[t].stage = "granted" /\ r.tasks[t].kind = s.tasks[t].kind /\ r.tasks[t].call = s.tasks[t].call
      /\ r.tasks[t].gate = s.tasks[t].gate /\ r.tasks[t].lock = s.tasks[t].lock
  BY <1>1, StageFields
<1>3. TaskStep(s, t, r)
  BY <1>2 DEF TaskStep, SameFrames
<1>4. StageOf(r, t) /\ Busy(r, t)
  BY <1>1, <1>2 DEF StageOf, Busy, HasLock, SameFrames
<1>5. LinesInv(r)
  BY <1>2, <1>3, TaskLines
<1>6. Good(r)
  BY <1>2, <1>3, <1>4, <1>5, TaskKeeps
<1> QED
  BY <1>2, <1>6 DEF SameScope

\* A slice that returned stays in the checkpoint.
LEMMA LeftKeeps ==
  ASSUME NEW s, Good(s), ~s.aborted, NEW t \in Tasks, s.tasks[t].stage = "running",
         NEW r, r = [Stage(s, t, "left") EXCEPT !.timers = @ \ {t}]
  PROVE  /\ Good(r) /\ ~r.aborted /\ r.frames = s.frames /\ r.calls = s.calls
         /\ \A u \in Tasks : r.tasks[u].call = s.tasks[u].call
<1> DEFINE q == Stage(s, t, "left")
<1>1. s \in Contexts /\ StageOf(s, t) /\ "left" \in Stages
  BY DEF Good, StageInv, Stages
<1>2. /\ q \in Contexts /\ q.calls = s.calls /\ SameLines(s, q) /\ SameScope(s, q) /\ SameFrames(s, q)
      /\ \A u \in Tasks \ {t} : q.tasks[u] = s.tasks[u]
      /\ q.tasks[t].stage = "left" /\ q.tasks[t].kind = s.tasks[t].kind /\ q.tasks[t].call = s.tasks[t].call
      /\ q.tasks[t].gate = s.tasks[t].gate /\ q.tasks[t].lock = s.tasks[t].lock
  BY <1>1, StageFields
<1>3. r = [q EXCEPT !.timers = @ \ {t}]
  OBVIOUS
<1> HIDE DEF q
<1>5. /\ r \in Contexts /\ r.tasks = q.tasks /\ r.calls = q.calls /\ SameLines(q, r) /\ SameScope(q, r)
      /\ r.frames = q.frames /\ r.timers = q.timers \ {t}
  BY <1>2, <1>3 DEF Contexts, SameLines, SameScope
<1>6. TaskStep(s, t, r) /\ SameLines(s, r)
  BY <1>2, <1>5 DEF TaskStep, SameLines, SameScope, SameFrames
<1>7. StageOf(r, t) /\ Busy(r, t) /\ r.tasks[t].stage = "left"
  BY <1>1, <1>2, <1>5 DEF StageOf, Busy, HasLock, SameFrames
<1>8. LinesInv(r)
  BY <1>6, TaskLines
<1>10. t \notin r.timers
  BY <1>5
<1>9. Good(r)
  BY <1>6, <1>7, <1>8, <1>10, TaskKeeps
<1> QED
  BY <1>2, <1>5, <1>9 DEF SameScope, SameFrames

\* Timers that are cleared.
Cleared(s, T, r) ==
  /\ r \in Contexts /\ SameTree(s, r) /\ SameLines(s, r) /\ SameScope(s, r)
  /\ r.frames = s.frames /\ r.timers = s.timers \ T
  /\ \A t \in Tasks :
       IF t \notin T THEN r.tasks[t] = s.tasks[t]
       ELSE IF s.tasks[t].stage = "outside" THEN r.tasks[t] = NoTask
       ELSE /\ r.tasks[t].kind = "canceled" /\ r.tasks[t].stage = s.tasks[t].stage /\ r.tasks[t].call = s.tasks[t].call
            /\ r.tasks[t].gate = s.tasks[t].gate /\ r.tasks[t].lock = s.tasks[t].lock
  /\ \A c \in Calls :
       \/ r.calls[c] = s.calls[c]
       \/ /\ r.calls[c].holds = s.calls[c].holds /\ r.calls[c].stage = "over"
          /\ \E t \in T : s.tasks[t].stage = "outside" /\ s.tasks[t].call = c

\* What clearing timers changes.
LEMMA CancelFields ==
  ASSUME NEW s, s \in Contexts, NEW T \in SUBSET Tasks, NEW r, r = Cancel(s, T)
  PROVE  Cleared(s, T, r)
<1> DEFINE asleep == {t \in T : s.tasks[t].stage = "outside"}
           X == [t \in Tasks |-> CASE t \in asleep -> NoTask
                                   [] t \in T \ asleep -> [s.tasks[t] EXCEPT !.kind = "canceled"]
                                   [] OTHER -> s.tasks[t]]
           C == [c \in Calls |-> IF \E t \in asleep : s.tasks[t].call = c
                                 THEN [s.calls[c] EXCEPT !.stage = "over"] ELSE s.calls[c]]
           W == s.waitUntil - Cardinality(asleep)
<1>1. r = [s EXCEPT !.timers = s.timers \ T, !.waitUntil = W, !.tasks = X, !.calls = C]
  BY DEF Cancel
<1>2. \A t \in Tasks : s.tasks[t] \in Task /\ [s.tasks[t] EXCEPT !.kind = "canceled"] \in Task
  BY Facts, Updates DEF Kinds
<1>3. \A c \in Calls : s.calls[c] \in Call /\ [s.calls[c] EXCEPT !.stage = "over"] \in Call
  BY Facts, Updates DEF CallStages
<1>4. X \in [Tasks -> Task] /\ C \in [Calls -> Call]
  BY <1>2, <1>3, Nothing
<1>5. W \in Int
  <2>1. Cardinality(asleep) \in Int
    BY Counts
  <2>2. s.waitUntil \in Int
    BY DEF Contexts
  <2> QED
    BY <2>1, <2>2
<1>6. ASSUME NEW c \in Calls
      PROVE  /\ C[c].kind = s.calls[c].kind /\ C[c].origin = s.calls[c].origin /\ C[c].by = s.calls[c].by
             /\ C[c].parent = s.calls[c].parent /\ C[c].above = s.calls[c].above
             /\ \/ C[c] = s.calls[c]
                \/ /\ C[c].holds = s.calls[c].holds /\ C[c].stage = "over"
                   /\ \E t \in T : s.tasks[t].stage = "outside" /\ s.tasks[t].call = c
  <2>1. CASE \E t \in asleep : s.tasks[t].call = c
    <3>1. C[c] = [s.calls[c] EXCEPT !.stage = "over"] /\ s.calls[c] \in Call
      BY <1>3, <2>1
    <3> HIDE DEF C
    <3> QED
      BY <2>1, <3>1 DEF Call
  <2>2. CASE ~ \E t \in asleep : s.tasks[t].call = c
    BY <2>2
  <2> QED
    BY <2>1, <2>2
<1>7. ASSUME NEW t \in Tasks
      PROVE  IF t \notin T THEN X[t] = s.tasks[t]
             ELSE IF s.tasks[t].stage = "outside" THEN X[t] = NoTask
             ELSE /\ X[t].kind = "canceled" /\ X[t].stage = s.tasks[t].stage /\ X[t].call = s.tasks[t].call
                  /\ X[t].gate = s.tasks[t].gate /\ X[t].lock = s.tasks[t].lock
  <2>1. CASE t \in T /\ s.tasks[t].stage # "outside"
    <3>1. X[t] = [s.tasks[t] EXCEPT !.kind = "canceled"] /\ s.tasks[t] \in Task
      BY <1>2, <2>1
    <3> HIDE DEF X
    <3> QED
      BY <2>1, <3>1 DEF Task
  <2>2. CASE ~(t \in T /\ s.tasks[t].stage # "outside")
    BY <2>2
  <2> QED
    BY <2>1, <2>2
<1> HIDE DEF X, C, W
<1>8. /\ r \in Contexts /\ r.tasks = X /\ r.calls = C /\ r.timers = s.timers \ T
      /\ SameLines(s, r) /\ SameScope(s, r) /\ r.frames = s.frames
  BY <1>1, <1>4, <1>5 DEF Contexts, SameLines, SameScope
<1>9. SameTree(s, r)
  BY <1>6, <1>8 DEF SameTree, SameScope
<1> QED
  BY <1>6, <1>7, <1>8, <1>9 DEF Cleared

\* Timers can be cleared.
LEMMA CancelKeeps ==
  ASSUME NEW s, Good(s), ~s.aborted, NEW T \in SUBSET s.timers, NEW r, r = Cancel(s, T)
  PROVE  /\ Good(r) /\ ~r.aborted /\ r.frames = s.frames /\ SameTree(s, r)
         /\ \A u \in ToSet(s.frames) : r.tasks[u].call = s.tasks[u].call
<1>1. s \in Contexts /\ StageInv(s) /\ CallsInv(s) /\ LinesInv(s) /\ T \subseteq Tasks
  BY DEF Good, QueueInv, Contexts
<1>2. Cleared(s, T, r)
  BY <1>1, CancelFields
<1>3. \A t \in T : TimerOf(s, t) /\ t \in Tasks /\ s.tasks[t].call \notin Sections(s) /\ StageOf(s, t) /\ Busy(s, t)
                   /\ GatesOf(s, t)
  BY <1>1 DEF StageInv, TimerOf, CallOf, Sections, StageOf, Busy, CallsInv
<1>4. r \in Contexts /\ SameTree(s, r) /\ r.scope = s.scope /\ r.broken = s.broken /\ r.breaking = s.breaking
      /\ r.aborted = s.aborted /\ r.frames = s.frames /\ r.timers = s.timers \ T
  BY <1>2 DEF Cleared, SameScope
<1>5. ASSUME NEW t \in Tasks
      PROVE  StageOf(r, t) /\ TaskLess(s, r, t)
  <2>1. StageOf(s, t)
    BY <1>1 DEF StageInv
  <2>2. CASE t \notin T
    <3>1. r.tasks[t] = s.tasks[t]
      BY <1>2, <2>2 DEF Cleared
    <3> QED
      BY <1>4, <2>1, <3>1 DEF StageOf, TaskLess, Busy, HasLock
  <2>3. CASE t \in T /\ s.tasks[t].stage = "outside"
    <3>1. r.tasks[t] = NoTask
      BY <1>2, <2>3 DEF Cleared
    <3> QED
      BY <1>4, <2>1, <2>3, <3>1, Nothing DEF StageOf, TaskLess, HasLock
  <2>4. CASE t \in T /\ s.tasks[t].stage # "outside"
    <3>1. /\ r.tasks[t].kind = "canceled" /\ r.tasks[t].stage = s.tasks[t].stage /\ r.tasks[t].call = s.tasks[t].call
          /\ r.tasks[t].gate = s.tasks[t].gate /\ r.tasks[t].lock = s.tasks[t].lock
      BY <1>2, <2>4 DEF Cleared
    <3>2. s.tasks[t].kind = "timer" /\ Busy(s, t)
      BY <1>3, <2>4 DEF TimerOf
    <3> QED
      BY <1>4, <2>1, <2>4, <3>1, <3>2 DEF StageOf, TaskLess, Busy, HasLock
  <2> QED
    BY <2>2, <2>3, <2>4
<1>6. Less(s, r)
  <2>1. ASSUME NEW c \in Calls PROVE CallLess(s, r, c)
    <3>1. CASE r.calls[c] = s.calls[c]
      BY <3>1 DEF CallLess
    <3>2. CASE r.calls[c] # s.calls[c]
      <4>1. r.calls[c].holds = s.calls[c].holds /\ r.calls[c].stage = "over" /\ \E t \in T : s.tasks[t].call = c
        BY <1>2, <3>2 DEF Cleared
      <4>2. s.calls[c].stage # "free"
        BY <1>3, <4>1 DEF GatesOf, CallOf
      <4> QED
        BY <4>1, <4>2 DEF CallLess
    <3> QED
      BY <3>1, <3>2
  <2> QED
    BY <1>1, <1>4, <1>5, <2>1 DEF Less, CallsInv
<1>7. Patient(s, r)
  <2>1. \A k \in Sections(s) : r.calls[k] = s.calls[k]
    BY <1>2, <1>3 DEF Cleared, Sections
  <2>2. \A t \in Tasks : Busy(s, t) /\ ~Busy(r, t) => t \in T
    BY <1>2 DEF Cleared, Busy
  <2> QED
    BY <1>3, <1>4, <2>1, <2>2 DEF Patient
<1>8. StageInv(r)
  <2>1. ASSUME NEW t \in r.timers PROVE TimerOf(r, t)
    <3>1. t \in Tasks /\ TimerOf(s, t) /\ r.tasks[t] = s.tasks[t] /\ s.tasks[t].call \in Calls
      BY <1>1, <1>2, <1>4, Facts DEF StageInv, Cleared, Contexts
    <3> QED
      BY <1>4, <3>1 DEF TimerOf, CallOf, SameTree
  <2> QED
    BY <1>1, <1>4, <1>5, <2>1 DEF StageInv
<1>9. LinesInv(r)
  <2>1. r.waitingChildren = s.waitingChildren /\ r.waiters = s.waiters
    BY <1>2 DEF Cleared, SameLines
  <2>2. ASSUME NEW g \in Gates, NEW t \in ToSet(s.waitingChildren[g]) PROVE InChildren(r, g, t)
    <3>1. t \in Tasks /\ InChildren(s, g, t) /\ s.tasks[t].call \in Calls
      BY <1>1, InLine, Facts DEF LinesInv
    <3>2. t \notin T
      BY <1>3, <3>1 DEF InChildren, TimerOf
    <3>3. r.tasks[t] = s.tasks[t]
      BY <1>2, <3>1, <3>2 DEF Cleared
    <3> QED
      BY <1>6, <3>1, <3>3, LessFacts DEF InChildren
  <2>3. ASSUME NEW g \in Gates, NEW t \in ToSet(s.waiters[g]) PROVE InWaiters(r, g, t)
    <3>1. t \in Tasks /\ InWaiters(s, g, t)
      BY <1>1, InLine DEF LinesInv
    <3>2. r.tasks[t].stage = "queued" /\ r.tasks[t].kind # "body" /\ r.tasks[t].gate = s.tasks[t].gate
      BY <1>2, <3>1 DEF Cleared, InWaiters
    <3> QED
      BY <1>4, <3>1, <3>2 DEF InWaiters, Home
  <2> QED
    BY <1>1, <2>1, <2>2, <2>3 DEF LinesInv
<1>10. ASSUME NEW u \in ToSet(s.frames) PROVE r.tasks[u].call = s.tasks[u].call
  <2>1. u \in Tasks
    BY <1>1 DEF Contexts, ToSet
  <2>2. s.tasks[u].stage \in {"running", "left"}
    BY <1>1, <2>1 DEF StageInv, StageOf
  <2> QED
    BY <1>2, <2>1, <2>2 DEF Cleared
<1> QED
  BY <1>4, <1>6, <1>7, <1>8, <1>9, <1>10, LessKeeps, PatientKeeps

-----------------------------------------------------------------------------
(***************************************************************************)
(* A lock is handed over                                                   *)
(***************************************************************************)

\* The first in some lines are taken out.
Shorter(s, C, O, r) ==
  /\ r \in Contexts /\ r.tasks = s.tasks /\ r.calls = s.calls /\ SameScope(s, r) /\ SameFrames(s, r)
  /\ \A g \in Gates : /\ r.waitingChildren[g] = IF g \in C THEN Tail(s.waitingChildren[g]) ELSE s.waitingChildren[g]
                      /\ r.waiters[g] = IF g \in O THEN Tail(s.waiters[g]) ELSE s.waiters[g]

\* The first of a line can leave it.
LEMMA ShorterKeeps ==
  ASSUME NEW s, Good(s), ~s.aborted, NEW C \in SUBSET Gates, NEW O \in SUBSET Gates,
         \A g \in C : s.waitingChildren[g] # <<>>, \A g \in O : s.waiters[g] # <<>>, NEW r,
         r = [s EXCEPT !.waitingChildren = [g \in Gates |-> IF g \in C THEN Tail(@[g]) ELSE @[g]],
                       !.waiters = [g \in Gates |-> IF g \in O THEN Tail(@[g]) ELSE @[g]]]
  PROVE  Good(r) /\ Shorter(s, C, O, r)
<1> DEFINE W == [g \in Gates |-> IF g \in C THEN Tail(s.waitingChildren[g]) ELSE s.waitingChildren[g]]
           X == [g \in Gates |-> IF g \in O THEN Tail(s.waiters[g]) ELSE s.waiters[g]]
<1>1. s \in Contexts /\ StageInv(s) /\ CallsInv(s) /\ LinesInv(s)
  BY DEF Good, QueueInv
<1>2. r = [s EXCEPT !.waitingChildren = W, !.waiters = X]
  OBVIOUS
<1>3. \A g \in Gates : s.waitingChildren[g] \in Seq(Tasks) /\ s.waiters[g] \in Seq(Tasks)
  BY <1>1 DEF Contexts
<1>4. W \in [Gates -> Seq(Tasks)] /\ X \in [Gates -> Seq(Tasks)]
  BY <1>3, LineFacts
<1>5. \A g \in Gates : /\ W[g] = IF g \in C THEN Tail(s.waitingChildren[g]) ELSE s.waitingChildren[g]
                       /\ X[g] = IF g \in O THEN Tail(s.waiters[g]) ELSE s.waiters[g]
  OBVIOUS
<1> HIDE DEF W, X
<1>6. /\ r \in Contexts /\ r.tasks = s.tasks /\ r.calls = s.calls /\ SameScope(s, r) /\ SameFrames(s, r)
      /\ r.waitingChildren = W /\ r.waiters = X
  BY <1>1, <1>2, <1>4 DEF Contexts, SameScope, SameFrames
<1>7. Shorter(s, C, O, r)
  BY <1>5, <1>6 DEF Shorter
<1>8. Less(s, r)
  <2>1. ASSUME NEW u \in Tasks PROVE TaskLess(s, r, u)
    <3>1. StageOf(s, u)
      BY <1>1 DEF StageInv
    <3> QED
      BY <1>6, <3>1 DEF TaskLess, Busy, StageOf, HasLock
  <2>2. \A c \in Calls : CallLess(s, r, c)
    BY <1>6 DEF CallLess
  <2>3. SameTree(s, r) /\ r.broken = s.broken
    BY <1>6 DEF SameTree, SameScope
  <2> QED
    BY <1>1, <1>6, <2>1, <2>2, <2>3 DEF Less, CallsInv
<1>9. Patient(s, r)
  BY <1>6 DEF Patient, Busy, SameScope
<1>10. StageInv(r)
  BY <1>1, <1>6, <1>8, StagesLess DEF SameFrames, SameScope, StageInv
<1>11. LinesInv(r)
  <2>1. ASSUME NEW g \in Gates
        PROVE /\ Single(r.waitingChildren[g]) /\ Single(r.waiters[g])
              /\ ToSet(r.waitingChildren[g]) \subseteq ToSet(s.waitingChildren[g])
              /\ ToSet(r.waiters[g]) \subseteq ToSet(s.waiters[g])
              /\ \A t \in ToSet(r.waitingChildren[g]) \cup ToSet(r.waiters[g]) : r.tasks[t] = s.tasks[t]
    BY <1>1, <1>3, <1>5, <1>6, LineFacts DEF LinesInv
  <2> QED
    BY <1>8, <2>1, LinesLess
<1> QED
  BY <1>7, <1>8, <1>9, <1>10, <1>11, LessKeeps, PatientKeeps

\* The last lock of a gate goes to the first who waits there.
LEMMA HandOverKeeps ==
  ASSUME NEW s, Good(s), ~s.aborted, s.broken = {}, NEW g \in Gates, NEW r, r = HandOver(s, {g})
  PROVE  Good(r) /\ ~r.aborted /\ SameFrames(s, r)
<1> DEFINE children == {h \in {g} : s.waitingChildren[h] # <<>> /\ ~Locked(s, h)}
           others   == {h \in {g} : s.waiters[h] # <<>> /\ s.waitingChildren[h] = <<>> /\ ~Locked(s, h)}
           d == [s EXCEPT !.waitingChildren = [h \in Gates |-> IF h \in children THEN Tail(@[h]) ELSE @[h]],
                          !.waiters = [h \in Gates |-> IF h \in others THEN Tail(@[h]) ELSE @[h]]]
           H == {Head(s.waitingChildren[h]) : h \in children} \cup {Head(s.waiters[h]) : h \in others}
<1>1. r = Grant(d, H)
  BY DEF HandOver
<1>2. /\ s \in Contexts /\ HomesInv(s) /\ LinesInv(s)
      /\ \A t \in Tasks : BodyOf(s, t) /\ StageOf(s, t)
      /\ s.waitingChildren[g] \in Seq(Tasks) /\ s.waiters[g] \in Seq(Tasks)
  BY DEF Good, QueueInv, StageInv, Contexts
<1>3. children \subseteq Gates /\ others \subseteq Gates
  OBVIOUS
<1>4. Good(d) /\ Shorter(s, children, others, d)
  <2>1. (\A h \in children : s.waitingChildren[h] # <<>>) /\ (\A h \in others : s.waiters[h] # <<>>)
    OBVIOUS
  <2> HIDE DEF children, others
  <2> QED
    BY <1>3, <2>1, ShorterKeeps
<1>5. CASE Locked(s, g) \/ (s.waitingChildren[g] = <<>> /\ s.waiters[g] = <<>>)
  <2>1. r = s
    BY <1>2, <1>5, NobodyWaits
  <2> QED
    BY <2>1 DEF SameFrames
<1>6. CASE ~Locked(s, g) /\ ~(s.waitingChildren[g] = <<>> /\ s.waiters[g] = <<>>)
  <2> DEFINE t == IF s.waitingChildren[g] # <<>> THEN Head(s.waitingChildren[g]) ELSE Head(s.waiters[g])
  <2>1. H = {t}
    <3>1. CASE s.waitingChildren[g] # <<>>
      <4>1. children = {g} /\ others = {}
        BY <1>6, <3>1
      <4> QED
        BY <3>1, <4>1
    <3>2. CASE s.waitingChildren[g] = <<>>
      <4>1. children = {} /\ others = {g}
        BY <1>6, <3>2
      <4> QED
        BY <3>2, <4>1
    <3> QED
      BY <3>1, <3>2
  <2>2. /\ t \in Tasks /\ s.tasks[t].stage = "queued" /\ Dest(s, t) = g
        /\ \A h \in Gates : t \notin ToSet(d.waitingChildren[h]) /\ t \notin ToSet(d.waiters[h])
    <3>1. CASE s.waitingChildren[g] # <<>>
      <4>1. t \in ToSet(s.waitingChildren[g]) /\ t \notin ToSet(Tail(s.waitingChildren[g]))
        BY <1>2, <3>1, LineFacts DEF LinesInv
      <4>2. t \in Tasks /\ InChildren(s, g, t) /\ g \in children
        BY <1>2, <1>6, <3>1, <4>1, InLine DEF LinesInv
      <4>3. \A h \in Gates \ {g} : t \notin ToSet(s.waitingChildren[h])
        BY <1>2, <4>2 DEF LinesInv, InChildren
      <4>4. \A h \in Gates : t \notin ToSet(s.waiters[h])
        BY <1>2, <4>2 DEF LinesInv, InChildren, InWaiters
      <4>5. d.waitingChildren[g] = Tail(s.waitingChildren[g]) /\ \A h \in Gates \ {g} : d.waitingChildren[h] = s.waitingChildren[h]
        BY <1>4, <4>2 DEF Shorter
      <4>6. \A h \in Gates : d.waiters[h] = s.waiters[h]
        BY <1>4, <3>1 DEF Shorter
      <4> HIDE DEF t, d
      <4> QED
        BY <4>1, <4>2, <4>3, <4>4, <4>5, <4>6 DEF InChildren, Dest
    <3>2. CASE s.waitingChildren[g] = <<>>
      <4>1. t \in ToSet(s.waiters[g]) /\ t \notin ToSet(Tail(s.waiters[g]))
        BY <1>2, <1>6, <3>2, LineFacts DEF LinesInv
      <4>2. t \in Tasks /\ InWaiters(s, g, t) /\ g \in others
        BY <1>2, <1>6, <3>2, <4>1, InLine DEF LinesInv
      <4>3. \A h \in Gates \ {g} : t \notin ToSet(s.waiters[h])
        BY <1>2, <4>2 DEF LinesInv, InWaiters
      <4>4. \A h \in Gates : t \notin ToSet(s.waitingChildren[h])
        BY <1>2, <4>2 DEF LinesInv, InChildren, InWaiters
      <4>5. d.waiters[g] = Tail(s.waiters[g]) /\ \A h \in Gates \ {g} : d.waiters[h] = s.waiters[h]
        BY <1>4, <4>2 DEF Shorter
      <4>6. \A h \in Gates : d.waitingChildren[h] = s.waitingChildren[h]
        BY <1>4, <3>2 DEF Shorter
      <4> HIDE DEF t, d
      <4> QED
        BY <4>1, <4>2, <4>3, <4>4, <4>5, <4>6 DEF InWaiters, Dest
    <3> QED
      BY <3>1, <3>2
  <2> HIDE DEF t, d, H
  <2>3. /\ d.tasks = s.tasks /\ d.calls = s.calls /\ d.scope = s.scope /\ d.broken = {} /\ ~d.aborted
        /\ SameFrames(s, d) /\ d \in Contexts
    BY <1>4 DEF Shorter, SameScope
  <2>4. Asking(d, t)
    <3>1. ~HasLock(s, t) /\ s.tasks[t].kind # "held"
      BY <1>2, <2>2 DEF StageOf
    <3> QED
      BY <2>2, <2>3, <3>1 DEF Asking, HasLock
  <2>5. Dest(d, t) = g
    BY <2>2, <2>3 DEF Dest, Home, Outer
  <2>6. g \in {Root} \cup Entered(d)
    <3>1. CASE s.tasks[t].kind = "body"
      <4>1. s.tasks[t].call \in Sections(s) /\ Outer(s, s.tasks[t].call) = g
        BY <1>2, <2>2, <3>1 DEF BodyOf, Dest
      <4>2. g \in Homes(s)
        BY <1>2, <4>1 DEF HomesInv
      <4> QED
        BY <2>3, <4>2 DEF Homes, Entered
    <3>2. CASE s.tasks[t].kind # "body"
      <4>1. g \in Homes(s)
        BY <1>2, <2>2, <3>2 DEF HomesInv, Busy, Dest
      <4> QED
        BY <2>3, <4>1 DEF Homes, Entered
    <3> QED
      BY <3>1, <3>2
  <2>7. ~Locked(d, g)
    BY <1>6, <2>3 DEF Locked, HasLock
  <2>8. r = Grant(d, {t})
    BY <1>1, <2>1
  <2>9. Good(r) /\ Got(d, t, r)
    BY <1>4, <2>3, <2>4, <2>5, <2>6, <2>7, <2>8, GrantKeeps, GrantFacts
  <2> QED
    BY <2>3, <2>9 DEF Got, SameScope, SameFrames
<1> QED
  BY <1>5, <1>6

\* The locks of a checkpoint leave the stack.
LEMMA ClearKeeps ==
  ASSUME NEW s, Good(s), ~s.aborted, \A k \in Calls : ~Done(s, k),
         \A t \in Tasks : s.tasks[t].stage \notin {"granted", "running"}, NEW r,
         r = [s EXCEPT !.tasks = [t \in Tasks |-> IF t \in ToSet(s.frames) THEN NoTask ELSE @[t]], !.frames = <<>>]
  PROVE  Good(r) /\ ~r.aborted /\ r.broken = s.broken /\ r.scope = s.scope /\ r.frames = <<>>
<1> DEFINE F == ToSet(s.frames)
           T == [t \in Tasks |-> IF t \in F THEN NoTask ELSE s.tasks[t]]
<1>1. s \in Contexts /\ StageInv(s) /\ CallsInv(s) /\ LinesInv(s)
  BY DEF Good, QueueInv
<1>2. r = [s EXCEPT !.tasks = T, !.frames = <<>>]
  OBVIOUS
<1>3. T \in [Tasks -> Task]
  BY <1>1, Nothing, Facts
<1>4. \A t \in Tasks : T[t] = IF t \in F THEN NoTask ELSE s.tasks[t]
  OBVIOUS
<1> HIDE DEF T
<1>5. /\ r \in Contexts /\ r.tasks = T /\ r.calls = s.calls /\ SameLines(s, r) /\ SameScope(s, r)
      /\ r.frames = <<>> /\ r.timers = s.timers
  BY <1>1, <1>2, <1>3, NoLine DEF Contexts, SameLines, SameScope
<1>6. \A t \in Tasks : /\ t \in F => r.tasks[t] = NoTask /\ s.tasks[t].stage = "left"
                       /\ t \notin F => r.tasks[t] = s.tasks[t] /\ s.tasks[t].stage \notin {"running", "left"}
  BY <1>1, <1>4, <1>5 DEF StageInv, StageOf
<1>7. ASSUME NEW u \in Tasks PROVE TaskLess(s, r, u) /\ StageOf(r, u)
  <2>1. StageOf(s, u) /\ u \notin ToSet(r.frames)
    BY <1>1, <1>5, NoLine DEF StageInv
  <2>2. CASE u \in F
    BY <1>6, <2>1, <2>2, Nothing DEF TaskLess, HasLock, StageOf
  <2>3. CASE u \notin F
    <3>1. r.tasks[u] = s.tasks[u] /\ s.tasks[u].stage \notin {"running", "left"}
      BY <1>6, <2>3
    <3> QED
      BY <2>1, <3>1 DEF TaskLess, Busy, StageOf, HasLock
  <2> QED
    BY <2>2, <2>3
<1>8. Less(s, r)
  <2>1. \A c \in Calls : CallLess(s, r, c)
    BY <1>5 DEF CallLess
  <2> QED
    BY <1>1, <1>5, <1>7, <2>1 DEF Less, SameTree, SameScope, CallsInv
<1>9. StageInv(r)
  <2>1. ASSUME NEW t \in r.timers PROVE TimerOf(r, t)
    <3>1. t \in Tasks /\ TimerOf(s, t)
      BY <1>1, <1>5 DEF StageInv, Contexts
    <3>2. r.tasks[t] = s.tasks[t]
      BY <1>6, <3>1 DEF TimerOf
    <3> QED
      BY <1>5, <3>1, <3>2 DEF TimerOf, CallOf
  <2> QED
    BY <1>1, <1>5, <1>7, <2>1 DEF StageInv, SameScope
<1>10. LinesInv(r)
  <2>1. r.waitingChildren = s.waitingChildren /\ r.waiters = s.waiters
    BY <1>5 DEF SameLines
  <2>2. ASSUME NEW g \in Gates, NEW t \in ToSet(s.waitingChildren[g]) \cup ToSet(s.waiters[g])
        PROVE  r.tasks[t] = s.tasks[t]
    <3>1. t \in Tasks /\ s.tasks[t].stage = "queued"
      BY <1>1, InLine DEF LinesInv, InChildren, InWaiters
    <3> QED
      BY <1>6, <3>1
  <2> QED
    BY <1>1, <1>8, <2>1, <2>2, LinesLess DEF LinesInv
<1>11. DoneInv(r)
  <2>1. ASSUME NEW k \in Calls PROVE ~Done(r, k)
    <3>1. Live(s, k) \subseteq Live(r, k)
      BY <1>6 DEF Live
    <3>2. Inner(r, k) = Inner(s, k)
      BY <1>5 DEF Inner, SameScope
    <3> QED
      BY <1>5, <3>1, <3>2 DEF Done
  <2> QED
    BY <2>1 DEF DoneInv, Sections
<1> QED
  BY <1>5, <1>8, <1>9, <1>10, <1>11, LessKeeps DEF SameScope

\* The end of a checkpoint.
LEMMA ExitKeeps ==
  ASSUME NEW s, Good(s), ~s.aborted, ~s.breaking, \A k \in Calls : ~Done(s, k),
         \A t \in Tasks : s.tasks[t].stage \notin {"granted", "running"}, s.frames # <<>>, NEW r,
         r = Exit(s, ToSet(s.frames))
  PROVE  Good(r) /\ ~r.aborted
<1> DEFINE F == ToSet(s.frames)
           c == [s EXCEPT !.tasks = [t \in Tasks |-> IF t \in ToSet(s.frames) THEN NoTask ELSE @[t]], !.frames = <<>>]
           G == {s.scope[s.tasks[t].lock] : t \in F}
<1>1. s \in Contexts /\ StageInv(s) /\ ChainInv(s) /\ s.broken = {}
  BY DEF Good, StageInv
<1>2. r = HandOver(c, G)
  BY DEF Exit
<1>3. Good(c) /\ ~c.aborted /\ c.broken = {}
  BY <1>1, ClearKeeps
<1> HIDE DEF c
<1>4. \A t \in F : t \in Tasks /\ HasLock(s, t) /\ t \in Holders(s) /\ On(s, t) \in Held(s) /\ On(s, t) \in Int
  <2>1. \A t \in F : t \in Tasks
    BY <1>1 DEF Contexts, ToSet
  <2>2. \A t \in F : HasLock(s, t)
    BY <1>1, <2>1 DEF StageInv, StageOf
  <2> QED
    BY <1>1, <2>1, <2>2, Facts DEF Holders, Held, On
<1>5. PICK t \in F : TRUE
  <2>1. s.frames \in Seq(Tasks)
    BY <1>1 DEF Contexts
  <2> QED
    BY <2>1, LineFacts
<1>6. \A u \in F : On(s, u) = On(s, t)
  BY <1>1, <1>4 DEF ChainInv
<1>7. G = {On(s, t)} /\ On(s, t) \in Gates
  <2>1. G = {On(s, u) : u \in F}
    BY DEF On
  <2>2. On(s, t) \in Gates
    BY <1>1, <1>4, Facts DEF On
  <2> QED
    BY <1>6, <2>1, <2>2
<1> HIDE DEF G
<1> QED
  BY <1>2, <1>3, <1>7, HandOverKeeps

\* The slices of the checkpoint stay those of the same events.
SameTurn(s, r) ==
  /\ ToSet(s.frames) \subseteq ToSet(r.frames)
  /\ \A t \in ToSet(s.frames) : CallOf(r, t).origin = CallOf(s, t).origin

\* Slices of the checkpoint stay those of their calls.
LEMMA TurnKept ==
  ASSUME NEW s, Good(s), NEW r, SameTree(s, r), ToSet(s.frames) \subseteq ToSet(r.frames),
         \A u \in Tasks : s.tasks[u].stage \in {"running", "left"} => r.tasks[u].call = s.tasks[u].call
  PROVE  SameTurn(s, r)
<1>1. s \in Contexts /\ StageInv(s)
  BY DEF Good
<1>2. ASSUME NEW t \in ToSet(s.frames) PROVE CallOf(r, t).origin = CallOf(s, t).origin
  <2>1. t \in Tasks
    BY <1>1 DEF Contexts, ToSet
  <2>2. s.tasks[t].stage \in {"running", "left"} /\ s.tasks[t].call \in Calls
    BY <1>1, <2>1, Facts DEF StageInv, StageOf
  <2> QED
    BY <2>1, <2>2 DEF CallOf, SameTree
<1> QED
  BY <1>2 DEF SameTurn

\* A task queues at its gate.
Queues(s, t, r) == r = [Stage(s, t, "queued") EXCEPT !.waiters[Home(s, t)] = Append(@, t)]

\* A task may join the line of a locked gate.
LEMMA QueueKeeps ==
  ASSUME NEW s, Good(s), ~s.aborted, NEW t \in Tasks, s.tasks[t].stage = "outside", ~HasLock(s, t), s.tasks[t].kind # "body",
         NEW r, Queues(s, t, r)
  PROVE  Good(r) /\ ~r.aborted /\ SameTurn(s, r)
<1> DEFINE g == Home(s, t)
           q == Stage(s, t, "queued")
           line == Append(s.waiters[g], t)
           X == [s.waiters EXCEPT ![g] = line]
<1>1. /\ s \in Contexts /\ StageOf(s, t) /\ "queued" \in Stages /\ LinesInv(s)
      /\ g \in Gates /\ s.waiters[g] \in Seq(Tasks) /\ s.waiters \in [Gates -> Seq(Tasks)]
  <2>1. s \in Contexts /\ StageOf(s, t) /\ "queued" \in Stages /\ LinesInv(s)
    BY DEF Good, StageInv, Stages, QueueInv
  <2>2. g \in Gates
    BY <2>1, Facts DEF Home
  <2> QED
    BY <2>1, <2>2 DEF Contexts
<1>2. /\ q \in Contexts /\ q.calls = s.calls /\ SameLines(s, q) /\ SameScope(s, q) /\ SameFrames(s, q)
      /\ \A u \in Tasks \ {t} : q.tasks[u] = s.tasks[u]
      /\ q.tasks[t].stage = "queued" /\ q.tasks[t].kind = s.tasks[t].kind /\ q.tasks[t].call = s.tasks[t].call
      /\ q.tasks[t].gate = s.tasks[t].gate /\ q.tasks[t].lock = s.tasks[t].lock
  BY <1>1, StageFields
<1>3. \A h \in Gates : t \notin ToSet(s.waiters[h]) /\ t \notin ToSet(s.waitingChildren[h])
  BY <1>1 DEF LinesInv, InChildren, InWaiters
<1>4. line \in Seq(Tasks) /\ ToSet(line) = ToSet(s.waiters[g]) \cup {t} /\ Single(line)
  BY <1>1, <1>3, LineFacts DEF LinesInv
<1>5. r = [q EXCEPT !.waiters = X]
  BY <1>2 DEF SameLines, Queues
<1> HIDE DEF q, g, line
<1>6. X \in [Gates -> Seq(Tasks)] /\ X[g] = line /\ \A h \in Gates \ {g} : X[h] = s.waiters[h]
  BY <1>1, <1>4
<1> HIDE DEF X
<1>7. /\ r \in Contexts /\ r.tasks = q.tasks /\ r.calls = q.calls /\ SameScope(q, r) /\ SameFrames(q, r)
      /\ r.waitingChildren = q.waitingChildren /\ r.waiters = X
  BY <1>2, <1>5, <1>6 DEF Contexts, SameScope, SameFrames
<1>8. TaskStep(s, t, r) /\ r.frames = s.frames
  BY <1>2, <1>7 DEF TaskStep, SameScope, SameFrames
<1>9. StageOf(r, t) /\ Busy(r, t) /\ r.tasks[t].stage = "queued"
  BY <1>1, <1>2, <1>7, <1>8 DEF StageOf, Busy, HasLock
<1>10. LinesInv(r)
  <2>1. r.scope = s.scope /\ r.calls = s.calls /\ r.waitingChildren = s.waitingChildren
        /\ \A u \in Tasks \ {t} : r.tasks[u] = s.tasks[u]
    BY <1>2, <1>7 DEF SameScope, SameLines
  <2>2. ASSUME NEW h \in Gates, NEW u \in ToSet(r.waitingChildren[h]) PROVE InChildren(r, h, u)
    <3>1. u \in Tasks /\ InChildren(s, h, u) /\ u # t
      BY <1>1, <1>3, <2>1, InLine DEF LinesInv
    <3>2. r.tasks[u] = s.tasks[u]
      BY <2>1, <3>1
    <3> QED
      BY <2>1, <3>1, <3>2 DEF InChildren, Outer
  <2>3. ASSUME NEW h \in Gates, NEW u \in ToSet(s.waiters[h]) PROVE InWaiters(r, h, u)
    <3>1. u \in Tasks /\ InWaiters(s, h, u) /\ u # t
      BY <1>1, <1>3, InLine DEF LinesInv
    <3>2. r.tasks[u] = s.tasks[u]
      BY <2>1, <3>1
    <3> QED
      BY <2>1, <3>1, <3>2 DEF InWaiters, Home
  <2>4. InWaiters(r, g, t)
    BY <1>2, <1>7, <1>9, <2>1 DEF InWaiters, Home, g
  <2>5. ASSUME NEW h \in Gates
        PROVE  Single(r.waitingChildren[h]) /\ Single(r.waiters[h]) /\ \A u \in ToSet(r.waiters[h]) : InWaiters(r, h, u)
    <3>1. Single(s.waitingChildren[h]) /\ Single(s.waiters[h])
      BY <1>1 DEF LinesInv
    <3>2. CASE h = g
      BY <1>4, <1>6, <1>7, <2>1, <2>3, <2>4, <3>1, <3>2
    <3>3. CASE h # g
      BY <1>6, <1>7, <2>1, <2>3, <3>1, <3>3
    <3> QED
      BY <3>2, <3>3
  <2> QED
    BY <2>2, <2>5 DEF LinesInv
<1>11. Good(r)
  BY <1>8, <1>9, <1>10, TaskKeeps
<1>12. ~r.aborted /\ SameTree(s, r)
  BY <1>2, <1>7 DEF SameScope, SameTree
<1>13. SameTurn(s, r)
  <2>1. \A u \in Tasks : r.tasks[u].call = s.tasks[u].call
    BY <1>8 DEF TaskStep
  <2>2. ToSet(s.frames) \subseteq ToSet(r.frames)
    BY <1>8
  <2> QED
    BY <1>12, <2>1, <2>2, TurnKept
<1> QED
  BY <1>11, <1>12, <1>13

\* Whatever its gate answers, a task may ask for a lock.
LEMMA WaitKeeps ==
  ASSUME NEW s, Good(s), ~s.aborted, NEW t \in Tasks, s.tasks[t].stage = "outside", ~HasLock(s, t), s.tasks[t].kind # "body",
         NEW r, r = Wait(s, t)
  PROVE  Good(r) /\ ~r.aborted /\ SameTurn(s, r)
<1>1. s \in Contexts /\ StageOf(s, t) /\ LinesInv(s) /\ HomesInv(s)
  BY DEF Good, StageInv, QueueInv
<1>2. \A h \in Gates : t \notin ToSet(s.waiters[h]) /\ t \notin ToSet(s.waitingChildren[h])
  BY <1>1 DEF LinesInv, InChildren, InWaiters
<1>3. r = CASE Home(s, t) \in s.broken -> Refuse(s, {t})
            [] Home(s, t) \notin s.broken /\ ~Locked(s, Home(s, t)) -> Grant(s, {t})
            [] OTHER -> [Stage(s, t, "queued") EXCEPT !.waiters[Home(s, t)] = Append(@, t)]
  BY DEF Wait, Home
<1>4. CASE Home(s, t) \in s.broken
  <2>1. r = Refuse(s, {t})
    BY <1>3, <1>4
  <2>2. Good(r) /\ Refused(s, {t}, r)
    BY <1>2, <2>1, RefuseKeeps
  <2>3. SameTree(s, r) /\ ~r.aborted /\ r.frames = s.frames /\ \A u \in Tasks \ {t} : r.tasks[u] = s.tasks[u]
    BY <2>2 DEF Refused, SameScope
  <2>4. SameTurn(s, r)
    BY <2>3, TurnKept
  <2> QED
    BY <2>2, <2>3, <2>4
<1>5. CASE Home(s, t) \notin s.broken /\ ~Locked(s, Home(s, t))
  <2>1. r = Grant(s, {t})
    BY <1>3, <1>5
  <2>2. Asking(s, t)
    BY <1>1, <1>2 DEF Asking, StageOf
  <2>3. Dest(s, t) = Home(s, t) /\ Dest(s, t) \in ({Root} \cup Entered(s)) \ s.broken
    BY <1>1, <1>5 DEF Dest, HomesInv, Homes, Busy
  <2>4. Good(r) /\ Got(s, t, r)
    BY <1>5, <2>1, <2>2, <2>3, GrantKeeps, GrantFacts
  <2>5. SameTree(s, r) /\ ~r.aborted /\ r.frames = s.frames /\ \A u \in Tasks \ {t} : r.tasks[u] = s.tasks[u]
    BY <2>4 DEF Got, SameScope, SameFrames
  <2>6. SameTurn(s, r)
    BY <2>5, TurnKept
  <2> QED
    BY <2>4, <2>5, <2>6
<1>6. CASE ~(Home(s, t) \in s.broken) /\ ~(Home(s, t) \notin s.broken /\ ~Locked(s, Home(s, t)))
  <2>1. r = [Stage(s, t, "queued") EXCEPT !.waiters[Home(s, t)] = Append(@, t)]
    BY <1>3, <1>6
  <2> QED
    BY <2>1, QueueKeeps DEF Queues
<1> QED
  BY <1>4, <1>5, <1>6

-----------------------------------------------------------------------------
(***************************************************************************)
(* A new task                                                              *)
(***************************************************************************)

\* A call that is made, with number n.
Made(s, n, x) ==
  /\ s.calls[n].stage = "free" /\ \A c \in Calls : s.calls[c].stage # "free" <=> c < n
  /\ x.stage = "open" /\ x.kind # "none" /\ x.holds = FALSE
  /\ x.kind = "section" =>
       /\ x.by \in Calls /\ s.calls[x.by].stage # "free" /\ x.origin = s.calls[x.by].origin
       /\ x.parent \in x.above /\ x.above \subseteq SectionGates(s)
       /\ \A y \in x.above : y # Root => s.calls[y].above \subseteq x.above
       /\ s.scope[x.parent] \in Homes(s)
       /\ x.by \in Sections(s) /\ s.calls[x.by].stage = "open" => s.scope[x.parent] = x.by /\ s.calls[x.by].holds

\* A task u of call n, which is made with it or is open.
Added(s, u, n, r) ==
  /\ r \in Contexts /\ SameLines(s, r) /\ SameScope(s, r) /\ r.frames = s.frames
  /\ u \in Tasks /\ s.tasks[u].stage = "free" /\ \A v \in Tasks \ {u} : r.tasks[v] = s.tasks[v]
  /\ r.tasks[u].stage = "outside" /\ r.tasks[u].call = n /\ r.tasks[u].kind # "none"
  /\ n \in Calls /\ \A c \in Calls \ {n} : r.calls[c] = s.calls[c]
  /\ \/ r.calls[n] = s.calls[n] /\ s.calls[n].stage = "open" /\ r.tasks[u].kind # "body"
     \/ Made(s, n, r.calls[n]) /\ (r.tasks[u].kind = "body" <=> r.calls[n].kind = "section") /\ r.tasks[u].kind # "held"
  /\ r.timers \subseteq s.timers \cup {u} /\ (u \in r.timers => TimerOf(r, u))

\* Its gate and its lock; a lock it keeps is that of a slice of its call.
Placed(s, u, n, r) ==
  /\ r.tasks[u].gate \in SectionGates(r)
  /\ HasLock(r, u) <=> r.tasks[u].kind = "held"
  /\ r.tasks[u].kind = "body" => r.tasks[u].gate = n
  /\ r.tasks[u].kind # "body" => Home(r, u) \in Homes(s)
  /\ n \in Sections(s) => Home(r, u) = n
  /\ HasLock(r, u) => /\ r.tasks[u].lock \in SectionGates(s) /\ On(r, u) = Home(r, u)
                      /\ \E t \in Tasks : s.tasks[t].stage = "running" /\ s.tasks[t].call = n /\ On(s, t) = On(r, u)

\* What a new task, or a new section with its body, changes.
LEMMA AddedFacts ==
  ASSUME NEW s, Good(s), NEW u, NEW n, NEW r, Added(s, u, n, r), Placed(s, u, n, r)
  PROVE  /\ \A c \in Calls : s.calls[c].stage # "free" => r.calls[c] = s.calls[c]
         /\ Sections(s) \subseteq Sections(r) /\ Sections(r) \subseteq Sections(s) \cup {n}
         /\ n \in Sections(r) \ Sections(s) => Made(s, n, r.calls[n]) /\ r.tasks[u].kind = "body"
         /\ Made(s, n, r.calls[n]) => n \notin Sections(s) /\ \A v \in Tasks : Busy(s, v) => s.tasks[v].call # n
         /\ SectionGates(s) \subseteq SectionGates(r)
         /\ \A v \in Tasks \ {u} : /\ Home(r, v) = Home(s, v) /\ (HasLock(r, v) <=> HasLock(s, v)) /\ On(r, v) = On(s, v)
                                   /\ Busy(r, v) <=> Busy(s, v)
                                   /\ Busy(s, v) => CallOf(r, v) = CallOf(s, v)
         /\ ~HasLock(s, u) /\ Entered(r) = Entered(s) /\ Held(r) = Held(s) /\ Homes(r) = Homes(s)
         /\ \A k \in Sections(s) : Outer(r, k) = Outer(s, k) /\ r.calls[k] = s.calls[k]
         /\ s.scope[n] = n \/ n \in Sections(s)
<1>1. s \in Contexts /\ StageInv(s) /\ CallsInv(s) /\ ScopeInv(s)
  BY DEF Good
<1>2. \A c \in Calls : s.calls[c].stage # "free" => r.calls[c] = s.calls[c]
  BY DEF Added, Made
<1>3. \A k \in Sections(s) : k \in Calls /\ s.calls[k].stage # "free" /\ s.calls[k].parent \in Gates
  BY <1>1, Facts DEF Sections, CallsInv, MadeInOrder
<1>4. \A k \in Sections(s) : r.calls[k] = s.calls[k]
  BY <1>2, <1>3
<1>5. Sections(s) \subseteq Sections(r) /\ Sections(r) \subseteq Sections(s) \cup {n}
  BY <1>3, <1>4 DEF Sections, Added
<1>6. n \in Sections(r) \ Sections(s) => Made(s, n, r.calls[n]) /\ r.tasks[u].kind = "body"
  BY DEF Added, Sections
<1>7. SectionGates(s) \subseteq SectionGates(r)
  BY <1>5 DEF SectionGates
<1>8. r.scope = s.scope /\ r.broken = s.broken
  BY DEF Added, SameScope
<1>9. ~HasLock(s, u) /\ u \in Tasks
  BY <1>1 DEF Added, StageInv, StageOf
<1>10. ASSUME NEW v \in Tasks \ {u}
       PROVE  /\ Home(r, v) = Home(s, v) /\ (HasLock(r, v) <=> HasLock(s, v)) /\ On(r, v) = On(s, v)
              /\ Busy(r, v) <=> Busy(s, v)
              /\ Busy(s, v) => CallOf(r, v) = CallOf(s, v)
  <2>1. r.tasks[v] = s.tasks[v]
    BY DEF Added
  <2>2. Busy(s, v) => s.calls[s.tasks[v].call].stage # "free" /\ s.tasks[v].call \in Calls
    BY <1>1, Facts DEF CallsInv, GatesOf, CallOf
  <2> QED
    BY <1>2, <1>8, <2>1, <2>2 DEF Home, HasLock, On, Busy, CallOf
<1>11. Entered(r) = Entered(s)
  <2>1. \A c \in Calls : r.calls[c].holds <=> s.calls[c].holds
    <3>1. Made(s, n, r.calls[n]) => ~s.calls[n].holds
      <4>1. ASSUME Made(s, n, r.calls[n]), s.calls[n].holds PROVE FALSE
        <5>1. n \in Sections(s)
          BY <1>1, <4>1 DEF CallsInv, Entered, Added
        <5> QED
          BY <1>3, <4>1, <5>1 DEF Made
      <4> QED
        BY <4>1
    <3> QED
      BY <3>1 DEF Added, Made
  <2> QED
    BY <2>1 DEF Entered
<1>12. Held(r) = Held(s)
  <2>1. Holders(s) \subseteq Holders(r) /\ Holders(r) \subseteq Holders(s) \cup {u} /\ u \notin Holders(s)
    BY <1>9, <1>10 DEF Holders
  <2>2. u \in Holders(r) => On(r, u) \in Held(s)
    <3>1. ASSUME u \in Holders(r) PROVE On(r, u) \in Held(s)
      <4>1. PICK t \in Tasks : s.tasks[t].stage = "running" /\ On(s, t) = On(r, u)
        BY <3>1 DEF Placed, Holders
      <4>2. t \in Holders(s)
        BY <1>1, <4>1 DEF StageInv, StageOf, Holders
      <4> QED
        BY <4>1, <4>2 DEF Held
    <3> QED
      BY <3>1
  <2>3. \A v \in Holders(s) : v \in Tasks \ {u} /\ On(r, v) = On(s, v)
    BY <1>10, <2>1 DEF Holders
  <2> QED
    BY <2>1, <2>2, <2>3 DEF Held
<1>13. Homes(r) = Homes(s)
  BY <1>8, <1>11 DEF Homes
<1>14. \A k \in Sections(s) : Outer(r, k) = Outer(s, k)
  BY <1>4, <1>8 DEF Outer
<1>15. s.scope[n] = n \/ n \in Sections(s)
  BY <1>1 DEF ScopeInv, Added
<1>16. Made(s, n, r.calls[n]) => n \notin Sections(s) /\ \A v \in Tasks : Busy(s, v) => s.tasks[v].call # n
  BY <1>1, <1>3 DEF Made, CallsInv, GatesOf, CallOf
<1> QED
  BY <1>2, <1>4, <1>5, <1>6, <1>7, <1>9, <1>10, <1>11, <1>12, <1>13, <1>14, <1>15, <1>16

\* New tasks and sections keep the invariant.
LEMMA AddedKeeps ==
  ASSUME NEW s, Good(s), ~s.aborted, NEW u, NEW n, NEW r, Added(s, u, n, r), Placed(s, u, n, r)
  PROVE  Good(r) /\ ~r.aborted /\ SameTurn(s, r)
<1>1. /\ s \in Contexts /\ StageInv(s) /\ CallsInv(s) /\ ScopeInv(s) /\ HomesInv(s) /\ ChainInv(s)
      /\ QueueInv(s) /\ OpenInv(s) /\ DoneInv(s) /\ TurnInv(s)
  BY DEF Good
<1>2. /\ r \in Contexts /\ u \in Tasks /\ n \in Calls /\ r.scope = s.scope /\ r.broken = s.broken
      /\ r.breaking = s.breaking /\ r.aborted = s.aborted /\ r.frames = s.frames
      /\ r.waitingChildren = s.waitingChildren /\ r.waiters = s.waiters
      /\ s.tasks[u].stage = "free" /\ r.tasks[u].stage = "outside" /\ r.tasks[u].call = n
      /\ \A v \in Tasks \ {u} : r.tasks[v] = s.tasks[v]
      /\ \A c \in Calls \ {n} : r.calls[c] = s.calls[c]
  BY DEF Added, SameScope, SameLines
<1>3. Sections(s) \subseteq Calls /\ Sections(r) \subseteq Calls
  BY DEF Sections
<1>4. StageInv(r)
  <2>1. StageOf(r, u)
    <3>1. StageOf(s, u)
      BY <1>1, <1>2 DEF StageInv
    <3> QED
      BY <1>2, <3>1 DEF StageOf, Added, Placed
  <2>2. ASSUME NEW v \in Tasks \ {u} PROVE StageOf(r, v)
    <3>1. StageOf(s, v)
      BY <1>1 DEF StageInv
    <3> QED
      BY <1>2, <3>1 DEF StageOf, HasLock
  <2>3. ASSUME NEW v \in r.timers PROVE TimerOf(r, v)
    <3>1. CASE v # u
      <4>1. v \in s.timers /\ v \in Tasks \ {u} /\ TimerOf(s, v) /\ Busy(s, v)
        BY <1>1, <3>1 DEF StageInv, Contexts, Added, TimerOf, StageOf, Busy
      <4> QED
        BY <1>2, <4>1, AddedFacts DEF TimerOf
    <3> QED
      BY <3>1 DEF Added
  <2> QED
    BY <1>1, <1>2, <2>1, <2>2, <2>3 DEF StageInv
<1>5. CallsInv(r)
  <2>1. MadeInOrder(r)
    <3>1. CASE r.calls[n] = s.calls[n]
      BY <1>1, <1>2, <3>1 DEF CallsInv, MadeInOrder
    <3>2. CASE Made(s, n, r.calls[n])
      <4>1. Calls \subseteq Int
        BY IoContextAssumption DEF Calls
      <4>2. \A c \in Calls : s.calls[c].kind = "none" <=> s.calls[c].stage = "free"
        BY <1>1 DEF CallsInv, MadeInOrder
      <4> QED
        BY <1>2, <3>2, <4>1, <4>2 DEF MadeInOrder, Made
    <3> QED
      BY <3>1, <3>2 DEF Added
  <2>2. ASSUME NEW v \in Tasks PROVE GatesOf(r, v)
    <3>1. CASE v = u
      <4>1. r.calls[n].stage = "open"
        BY DEF Added, Made
      <4>2. r.tasks[u].gate \in SectionGates(r)
        BY DEF Placed
      <4>3. HasLock(r, u) => r.tasks[u].lock \in SectionGates(r) /\ On(r, u) = Home(r, u)
        BY AddedFacts DEF Placed
      <4> QED
        BY <1>2, <3>1, <4>1, <4>2, <4>3 DEF GatesOf, CallOf
    <3>2. CASE v # u
      <4>1. GatesOf(s, v)
        BY <1>1 DEF CallsInv
      <4> QED
        BY <1>2, <3>2, <4>1, AddedFacts DEF GatesOf
    <3> QED
      BY <3>1, <3>2
  <2>3. Entered(r) \subseteq Sections(r) /\ r.broken \subseteq SectionGates(r)
    BY <1>1, <1>2, AddedFacts DEF CallsInv
  <2>4. ASSUME NEW k \in Sections(r) PROVE MadeBy(r, k)
    <3>1. CASE k \in Sections(s)
      <4>1. MadeBy(s, k) /\ r.calls[k] = s.calls[k]
        BY <1>1, <3>1, AddedFacts DEF CallsInv
      <4>2. r.calls[s.calls[k].by] = s.calls[s.calls[k].by]
        BY <4>1, AddedFacts DEF MadeBy
      <4> QED
        BY <4>1, <4>2 DEF MadeBy
    <3>2. CASE k \notin Sections(s)
      <4>1. k = n /\ Made(s, n, r.calls[n]) /\ r.calls[n].kind = "section"
        BY <3>2, AddedFacts DEF Sections
      <4>2. /\ r.calls[n].by \in Calls /\ s.calls[r.calls[n].by].stage # "free"
            /\ r.calls[n].origin = s.calls[r.calls[n].by].origin
        BY <4>1 DEF Made
      <4>3. \A c \in Calls : s.calls[c].stage # "free" => r.calls[c] = s.calls[c]
        BY AddedFacts
      <4> QED
        BY <4>1, <4>2, <4>3 DEF MadeBy
    <3> QED
      BY <3>1, <3>2
  <2> QED
    BY <2>1, <2>2, <2>3, <2>4 DEF CallsInv
<1>6. ScopeInv(r)
  <2>1. ASSUME NEW k \in Sections(r)
        PROVE  /\ r.calls[k].parent \in r.calls[k].above
               /\ r.calls[k].above \subseteq SectionGates(r)
               /\ \A x \in r.calls[k].above : x < k /\ (x # Root => r.calls[x].above \subseteq r.calls[k].above)
    <3>1. \A x \in SectionGates(s) : x # Root => r.calls[x] = s.calls[x]
      BY AddedFacts DEF SectionGates
    <3>2. CASE k \in Sections(s)
      <4>1. r.calls[k] = s.calls[k] /\ SectionGates(s) \subseteq SectionGates(r)
        BY <3>2, AddedFacts
      <4>2. /\ s.calls[k].parent \in s.calls[k].above
            /\ s.calls[k].above \subseteq SectionGates(s)
            /\ \A x \in s.calls[k].above : x < k /\ (x # Root => s.calls[x].above \subseteq s.calls[k].above)
        BY <1>1, <3>2 DEF ScopeInv
      <4> QED
        BY <3>1, <4>1, <4>2
    <3>3. CASE k \notin Sections(s)
      <4>1. k = n /\ Made(s, n, r.calls[n]) /\ r.calls[n].kind = "section" /\ SectionGates(s) \subseteq SectionGates(r)
        BY <3>3, AddedFacts DEF Sections
      <4>2. \A x \in SectionGates(s) : x < n
        <5>1. \A x \in Sections(s) : x \in Calls /\ s.calls[x].stage # "free"
          BY <1>1 DEF CallsInv, MadeInOrder, Sections
        <5>2. Root < n
          BY <1>2 DEF Calls, Root
        <5> QED
          BY <4>1, <5>1, <5>2 DEF Made, SectionGates
      <4> QED
        BY <3>1, <4>1, <4>2 DEF Made
    <3> QED
      BY <3>2, <3>3
  <2>2. \A k \in Calls : r.scope[k] = k \/ (k \in Sections(r) /\ r.scope[k] \in r.calls[k].above)
    <3>1. \A k \in Sections(s) : k \in Sections(r) /\ r.calls[k] = s.calls[k]
      BY AddedFacts
    <3> QED
      BY <1>1, <1>2, <3>1 DEF ScopeInv
  <2> QED
    BY <1>1, <1>2, <2>1, <2>2 DEF ScopeInv
<1>7. HomesInv(r)
  <2>1. ASSUME NEW v \in Tasks, Busy(r, v), r.tasks[v].kind # "body" \/ HasLock(r, v)
        PROVE  Home(r, v) \in Homes(r)
    <3>1. CASE v = u
      <4>1. r.tasks[u].kind # "body"
        BY <2>1, <3>1 DEF Placed
      <4> QED
        BY <3>1, <4>1, AddedFacts DEF Placed
    <3>2. CASE v # u
      BY <1>1, <1>2, <2>1, <3>2, AddedFacts DEF HomesInv
    <3> QED
      BY <3>1, <3>2
  <2>2. ASSUME NEW k \in Sections(r) PROVE Outer(r, k) \in Homes(r)
    <3>1. CASE k \in Sections(s)
      BY <1>1, <3>1, AddedFacts DEF HomesInv
    <3>2. CASE k \notin Sections(s)
      <4>1. k = n /\ Made(s, n, r.calls[n]) /\ r.calls[n].kind = "section"
        BY <3>2, AddedFacts DEF Sections
      <4>2. s.scope[r.calls[n].parent] \in Homes(s)
        BY <4>1 DEF Made
      <4> QED
        BY <1>2, <4>1, <4>2, AddedFacts DEF Outer
    <3> QED
      BY <3>1, <3>2
  <2> QED
    BY <2>1, <2>2 DEF HomesInv
<1>8. ChainInv(r)
  <2>1. Held(r) = Held(s) /\ Entered(r) = Entered(s) /\ \A k \in Entered(s) : Outer(r, k) = Outer(s, k)
    BY <1>1, AddedFacts DEF CallsInv
  <2> QED
    BY <1>1, <1>2, <2>1 DEF ChainInv
<1>9. QueueInv(r)
  <2>1. \A g \in Gates : ToSet(s.waitingChildren[g]) \subseteq Tasks \ {u} /\ ToSet(s.waiters[g]) \subseteq Tasks \ {u}
    BY <1>1, <1>2, InLine DEF QueueInv, LinesInv, InChildren, InWaiters
  <2>2. ASSUME NEW g \in Gates, NEW v \in ToSet(s.waitingChildren[g]) PROVE InChildren(r, g, v)
    <3>1. v \in Tasks \ {u} /\ InChildren(s, g, v) /\ BodyOf(s, v)
      BY <1>1, <2>1 DEF QueueInv, LinesInv
    <3>2. r.tasks[v] = s.tasks[v] /\ s.tasks[v].call \in Sections(s)
      BY <1>2, <3>1 DEF InChildren, BodyOf
    <3> QED
      BY <3>1, <3>2, AddedFacts DEF InChildren
  <2>3. ASSUME NEW g \in Gates, NEW v \in ToSet(s.waiters[g]) PROVE InWaiters(r, g, v)
    <3>1. v \in Tasks \ {u} /\ InWaiters(s, g, v)
      BY <1>1, <2>1 DEF QueueInv, LinesInv
    <3>2. r.tasks[v] = s.tasks[v] /\ Home(r, v) = Home(s, v)
      BY <1>2, <3>1, AddedFacts
    <3> QED
      BY <3>1, <3>2 DEF InWaiters
  <2>4. LinesInv(r)
    BY <1>1, <1>2, <2>2, <2>3 DEF QueueInv, LinesInv
  <2>5. ASSUME NEW v \in Tasks, r.tasks[v].kind = "body" PROVE BodyOf(r, v)
    <3>1. CASE v = u
      <4>1. Made(s, n, r.calls[n]) /\ r.calls[n].kind = "section"
        BY <2>5, <3>1 DEF Added
      <4>4. n \in Sections(r) /\ n \notin Sections(s) /\ s.scope[n] = n
        BY <1>2, <4>1, AddedFacts DEF Sections
      <4>2. n \in Sections(r) /\ r.tasks[u].gate = n /\ s.scope[n] = n /\ r.calls[n].holds = FALSE
        BY <2>5, <3>1, <4>1, <4>4 DEF Placed, Made
      <4>3. ASSUME NEW w \in Tasks, w # u, r.tasks[w].kind = "body", r.tasks[w].call = n
            PROVE  FALSE
        <5>1. s.tasks[w].kind = "body" /\ s.tasks[w].call = n /\ Busy(s, w)
          BY <1>1, <1>2, <4>3 DEF StageInv, StageOf, Busy
        <5> QED
          BY <4>1, <5>1, AddedFacts
      <4> QED
        BY <1>2, <3>1, <4>2, <4>3 DEF BodyOf, CallOf
    <3>2. CASE v # u
      <4>1. BodyOf(s, v) /\ s.tasks[v].kind = "body" /\ r.tasks[v] = s.tasks[v] /\ Busy(s, v)
        BY <1>1, <1>2, <2>5, <3>2 DEF QueueInv, StageInv, StageOf, Busy
      <4>2. CallOf(r, v) = CallOf(s, v) /\ s.tasks[v].call \in Sections(r) /\ (HasLock(r, v) <=> HasLock(s, v))
        BY <3>2, <4>1, AddedFacts DEF BodyOf
      <4>3. r.tasks[u].kind = "body" => r.tasks[u].call # s.tasks[v].call
        <5>1. r.tasks[u].kind = "body" => Made(s, n, r.calls[n])
          BY DEF Added
        <5> QED
          BY <1>2, <4>1, <5>1, AddedFacts
      <4> QED
        BY <1>2, <4>1, <4>2, <4>3 DEF BodyOf
    <3> QED
      BY <3>1, <3>2
  <2> QED
    BY <2>4, <2>5 DEF QueueInv, BodyOf
<1>10. OpenInv(r)
  <2> SUFFICES ASSUME NEW c \in Sections(r), r.calls[c].stage = "open"
               PROVE  OpenAt(r, c)
    BY DEF OpenInv
  <2>1. CASE c \in Sections(s)
    <3>1. OpenAt(s, c) /\ r.calls[c] = s.calls[c]
      BY <1>1, <2>1, AddedFacts DEF OpenInv
    <3>2. ASSUME NEW v \in Tasks, Busy(r, v), r.tasks[v].call = c
          PROVE  Home(r, v) = c /\ (HasLock(r, v) => On(r, v) = c /\ r.calls[c].holds)
      <4>1. CASE v # u
        BY <1>2, <3>1, <3>2, <4>1, AddedFacts DEF OpenAt
      <4>2. CASE v = u
        <5>1. c = n /\ Home(r, u) = n
          BY <1>2, <2>1, <3>2, <4>2 DEF Placed
        <5>2. ASSUME HasLock(r, u) PROVE On(r, u) = n /\ s.calls[n].holds
          <6>1. On(r, u) = Home(r, u)
            BY <5>2 DEF Placed
          <6>2. PICK t \in Tasks : s.tasks[t].stage = "running" /\ s.tasks[t].call = n
            BY <5>2 DEF Placed
          <6>3. HasLock(s, t) /\ Busy(s, t)
            BY <1>1, <6>2 DEF StageInv, StageOf, Busy
          <6> QED
            BY <3>1, <5>1, <6>1, <6>2, <6>3 DEF OpenAt
        <5> QED
          BY <3>1, <4>2, <5>1, <5>2
      <4> QED
        BY <4>1, <4>2
    <3>3. ASSUME NEW y \in Sections(r), r.calls[y].by = c
          PROVE  Outer(r, y) = c /\ r.calls[c].holds
      <4>1. CASE y \in Sections(s)
        BY <3>1, <3>3, <4>1, AddedFacts DEF OpenAt
      <4>2. CASE y \notin Sections(s)
        <5>1. y = n /\ Made(s, n, r.calls[n]) /\ r.calls[n].kind = "section"
          BY <4>2, AddedFacts DEF Sections
        <5>2. s.scope[r.calls[n].parent] = c /\ s.calls[c].holds
          BY <2>1, <3>1, <3>3, <5>1 DEF Made
        <5> QED
          BY <1>2, <3>1, <5>1, <5>2 DEF Outer
      <4> QED
        BY <4>1, <4>2
    <3> QED
      BY <1>2, <3>1, <3>2, <3>3 DEF OpenAt
  <2>2. CASE c \notin Sections(s)
    <3>1. c = n /\ Made(s, n, r.calls[n]) /\ r.tasks[u].kind = "body" /\ s.scope[n] = n
      BY <2>2, AddedFacts
    <3>2. ASSUME NEW v \in Tasks, Busy(r, v), r.tasks[v].call = n
          PROVE  v = u
      BY <1>2, <3>1, <3>2, AddedFacts
    <3>3. Home(r, u) = n /\ ~HasLock(r, u)
      BY <1>2, <3>1 DEF Placed, Home
    <3>4. ASSUME NEW y \in Sections(r) PROVE r.calls[y].by # n
      <4>1. CASE y \in Sections(s)
        <5>1. s.calls[s.calls[y].by].stage # "free" /\ r.calls[y] = s.calls[y]
          BY <1>1, <4>1, AddedFacts DEF CallsInv, MadeBy
        <5>2. s.calls[n].stage = "free"
          BY <3>1 DEF Made
        <5> QED
          BY <5>1, <5>2
      <4>2. CASE y \notin Sections(s)
        <5>1. y = n /\ r.calls[n].kind = "section"
          BY <4>2, AddedFacts DEF Sections
        <5> QED
          BY <3>1, <5>1 DEF Made
      <4> QED
        BY <4>1, <4>2
    <3> QED
      BY <1>2, <3>1, <3>2, <3>3, <3>4 DEF OpenAt
  <2> QED
    BY <2>1, <2>2
<1>11. DoneInv(r)
  <2> SUFFICES ASSUME NEW k \in Sections(r), Done(r, k)
               PROVE  \E t \in Tasks : r.tasks[t].stage = "left" /\ r.tasks[t].call = k
    BY DEF DoneInv
  <2>1. k # n
    BY <1>2 DEF Done, Live
  <2>2. k \in Sections(s) /\ r.calls[k] = s.calls[k] /\ k \in Calls
    BY <1>3, <2>1, AddedFacts
  <2>3. Live(s, k) = {}
    BY <1>2 DEF Done, Live
  <2>4. Inner(s, k) \subseteq Inner(r, k)
    <3>1. ASSUME NEW y \in Inner(s, k) PROVE y \in Inner(r, k)
      <4>1. y \in Calls /\ y \in Sections(s)
        BY DEF Inner, Sections
      <4>2. r.calls[y] = s.calls[y]
        BY <4>1, AddedFacts
      <4> QED
        BY <1>2, <4>1, <4>2 DEF Inner
    <3> QED
      BY <3>1
  <2>5. Done(s, k)
    BY <2>2, <2>3, <2>4 DEF Done
  <2>6. PICK t \in Tasks : s.tasks[t].stage = "left" /\ s.tasks[t].call = k
    BY <1>1, <2>2, <2>5 DEF DoneInv
  <2>7. t # u
    BY <1>2, <2>6
  <2> QED
    BY <1>2, <2>6, <2>7
<1>12. TurnInv(r)
  <2>1. ASSUME NEW v \in Holders(s)
        PROVE  /\ v \in Holders(r) /\ v # u /\ r.tasks[v] = s.tasks[v] /\ CallOf(r, v) = CallOf(s, v)
               /\ Spent(r, v) <=> Spent(s, v)
    <3>1. v \in Tasks /\ v # u /\ HasLock(s, v)
      BY AddedFacts DEF Holders
    <3>2. Busy(s, v)
      BY <1>1, <3>1 DEF StageInv, StageOf, Busy
    <3> QED
      BY <1>2, <3>1, <3>2, AddedFacts DEF Holders, Spent
  <2>2. Holders(r) \subseteq Holders(s) \cup {u}
    BY AddedFacts DEF Holders
  <2>3. CASE u \notin Holders(r)
    <3>1. Holders(r) = Holders(s)
      BY <2>1, <2>2, <2>3
    <3> QED
      BY <1>1, <2>1, <3>1 DEF TurnInv
  <2>4. CASE u \in Holders(r)
    <3>1. PICK t \in Tasks : s.tasks[t].stage = "running" /\ s.tasks[t].call = n
      BY <2>4 DEF Placed, Holders
    <3>2. t \in Holders(s) /\ ~Spent(s, t) /\ s.tasks[t].stage # "granted"
      BY <1>1, <3>1 DEF StageInv, StageOf, Holders, Spent
    <3>3. CallOf(r, u) = CallOf(r, t) /\ r.tasks[u].call = r.tasks[t].call
      BY <1>2, <2>1, <3>1, <3>2 DEF CallOf
    <3>4. ASSUME NEW v \in Holders(s)
          PROVE  /\ CallOf(r, v).origin = CallOf(r, u).origin
                 /\ r.tasks[v].call = r.tasks[u].call \/ Spent(r, v)
                 /\ ~(r.tasks[v].stage = "granted" /\ r.tasks[v].kind # "held")
      BY <1>1, <2>1, <3>2, <3>3 DEF TurnInv
    <3> QED
      BY <1>1, <1>2, <2>1, <2>2, <3>4 DEF TurnInv
  <2> QED
    BY <2>3, <2>4
<1>13. SameTurn(s, r)
  <2>1. ASSUME NEW t \in ToSet(s.frames) PROVE CallOf(r, t).origin = CallOf(s, t).origin
    <3>1. t \in Tasks
      BY <1>1 DEF Contexts, ToSet
    <3>2. s.tasks[t].stage \in {"running", "left"}
      BY <1>1, <3>1 DEF StageInv, StageOf
    <3> QED
      BY <1>2, <3>1, <3>2, AddedFacts DEF Busy
  <2> QED
    BY <1>2, <2>1 DEF SameTurn
<1> QED
  BY <1>2, <1>4, <1>5, <1>6, <1>7, <1>8, <1>9, <1>10, <1>11, <1>12, <1>13 DEF Good

\* What a call that is made looks like, and a task; the others stay.
CallMade(kind, by, n, r) ==
  /\ r \in Contexts /\ r.tasks = ctx.tasks /\ SameLines(ctx, r) /\ SameScope(ctx, r) /\ SameFrames(ctx, r)
  /\ n \in Calls /\ \A c \in Calls \ {n} : r.calls[c] = ctx.calls[c]
  /\ ctx.calls[n].stage = "free" /\ \A c \in Calls : ctx.calls[c].stage # "free" <=> c < n
  /\ r.calls[n].kind = kind /\ r.calls[n].stage = "open" /\ r.calls[n].holds = FALSE /\ r.calls[n].by = by
  /\ by # 0 => /\ r.calls[n].parent = Current
               /\ r.calls[n].above = {Current} \cup (IF Current = Root THEN {} ELSE ctx.calls[Current].above)
  /\ kind = "section" => r.calls[n].origin = ctx.calls[by].origin
TaskMade(s, kind, c, at, lock, u, r) ==
  /\ r \in Contexts /\ r.calls = s.calls /\ SameLines(s, r) /\ SameScope(s, r) /\ SameFrames(s, r)
  /\ u \in Tasks /\ s.tasks[u].stage = "free" /\ \A v \in Tasks \ {u} : r.tasks[v] = s.tasks[v]
  /\ r.tasks[u].kind = kind /\ r.tasks[u].stage = "outside" /\ r.tasks[u].call = c
  /\ r.tasks[u].gate = at /\ r.tasks[u].lock = lock

\* What a new call changes.
LEMMA NewCallFields ==
  ASSUME ctx \in Contexts, HasFree(ctx.calls), CallsInv(ctx), NEW kind \in CallKinds \ {"none"}, NEW by \in Gates,
         kind = "section" => by # 0, by # 0 => Current \in Gates
  PROVE  CallMade(kind, by, Fresh(ctx.calls), NewCall(kind, by))
<1> DEFINE r == NewCall(kind, by)
           n == Fresh(ctx.calls)
<1> DEFINE x == [kind |-> kind, stage |-> "open", by |-> by, parent |-> IF by = 0 THEN Root ELSE Current,
                 above |-> IF by = 0 THEN {} ELSE {Current} \cup (IF Current = Root THEN {} ELSE ctx.calls[Current].above),
                 origin |-> IF kind = "section" THEN ctx.calls[by].origin ELSE n,
                 holds |-> FALSE, needs |-> 0]
           X == [ctx.calls EXCEPT ![n] = x]
<1>1. n \in Calls /\ ctx.calls[n].stage = "free" /\ \A c \in Calls : ctx.calls[c].stage # "free" <=> c < n
  BY FreshCall
<1>2. r = [ctx EXCEPT !.calls = X]
  BY DEF NewCall
<1>3. x \in Call
  <2>1. x.parent \in Gates /\ Root \in Gates /\ Gates = {Root} \cup Calls /\ Root = 0
    BY DEF Gates, Root
  <2>2. \A c \in Calls : ctx.calls[c].above \in SUBSET Gates /\ ctx.calls[c].origin \in Calls
    BY DEF Contexts, Call
  <2>3. x.above \in SUBSET Gates /\ x.origin \in Calls
    BY <1>1, <2>1, <2>2
  <2> QED
    BY <2>1, <2>3 DEF Call, CallStages
<1>4. /\ x.kind = kind /\ x.stage = "open" /\ x.holds = FALSE /\ x.by = by
      /\ by # 0 => /\ x.parent = Current
                   /\ x.above = {Current} \cup (IF Current = Root THEN {} ELSE ctx.calls[Current].above)
      /\ kind = "section" => x.origin = ctx.calls[by].origin
  OBVIOUS
<1> HIDE DEF x
<1>5. X \in [Calls -> Call] /\ X[n] = x /\ \A c \in Calls \ {n} : X[c] = ctx.calls[c]
  BY <1>1, <1>3 DEF Contexts
<1> HIDE DEF X
<1>6. /\ r \in Contexts /\ r.calls = X /\ r.tasks = ctx.tasks
      /\ SameLines(ctx, r) /\ SameScope(ctx, r) /\ SameFrames(ctx, r)
  BY <1>2, <1>5 DEF Contexts, SameLines, SameScope, SameFrames
<1> HIDE DEF r, n
<1> QED
  BY <1>1, <1>4, <1>5, <1>6 DEF CallMade, r, n

\* What a new task changes.
LEMMA NewTaskFields ==
  ASSUME NEW s, s \in Contexts, HasFree(s.tasks), NEW kind \in Kinds, NEW c \in Calls, NEW at \in Gates,
         NEW lock \in Gates \cup {NoLock}
  PROVE  TaskMade(s, kind, c, at, lock, Fresh(s.tasks), NewTask(s, kind, c, at, lock))
<1> DEFINE r == NewTask(s, kind, c, at, lock)
           u == Fresh(s.tasks)
<1> DEFINE x == [kind |-> kind, stage |-> "outside", call |-> c, gate |-> at, lock |-> lock]
           X == [s.tasks EXCEPT ![u] = x]
           q == [s EXCEPT !.tasks = X]
<1>1. u \in Tasks /\ s.tasks[u].stage = "free"
  BY FreshTask
<1>2. r = Track(q, kind)
  BY DEF NewTask
<1>3. x \in Task /\ x.kind = kind /\ x.stage = "outside" /\ x.call = c /\ x.gate = at /\ x.lock = lock
  BY DEF Task, Stages
<1> HIDE DEF x
<1>4. X \in [Tasks -> Task] /\ X[u] = x /\ \A v \in Tasks \ {u} : X[v] = s.tasks[v]
  BY <1>1, <1>3 DEF Contexts
<1> HIDE DEF X
<1>5. /\ q \in Contexts /\ q.tasks = X /\ q.calls = s.calls
      /\ SameLines(s, q) /\ SameScope(s, q) /\ SameFrames(s, q)
  BY <1>4 DEF Contexts, SameLines, SameScope, SameFrames
<1> HIDE DEF q
<1>6. Recounted(q, r)
  BY <1>2, <1>5, CountFields
<1>7. /\ r \in Contexts /\ r.calls = s.calls /\ SameLines(s, r) /\ SameScope(s, r) /\ SameFrames(s, r)
      /\ r.tasks = X
  BY <1>5, <1>6 DEF Recounted, SameLines, SameScope, SameFrames
<1> HIDE DEF r, u
<1> QED
  BY <1>1, <1>3, <1>4, <1>7 DEF TaskMade, r, u

\* What runs has a lock on the innermost gate, as has the slice on top of the stack.
LEMMA AskFacts ==
  ASSUME Good(ctx), NEW t \in Tasks, Running(t)
  PROVE  /\ ctx.tasks[t].call \in Calls /\ CallOf(ctx, t).stage = "open"
         /\ Current \in SectionGates(ctx) /\ Current \in Gates /\ ctx.scope[Current] = On(ctx, t)
         /\ On(ctx, t) \in Homes(ctx) /\ On(ctx, t) \in Gates /\ ctx.frames # <<>> /\ t \in ToSet(ctx.frames)
         /\ ctx.tasks[t].call \in Sections(ctx) => On(ctx, t) = ctx.tasks[t].call /\ CallOf(ctx, t).holds
<1> DEFINE v == Last(ctx.frames)
<1>1. /\ ctx \in Contexts /\ StageInv(ctx) /\ CallsInv(ctx) /\ HomesInv(ctx) /\ ChainInv(ctx) /\ OpenInv(ctx)
      /\ ctx.tasks[t].stage = "running" /\ CallOf(ctx, t).stage = "open"
  BY DEF Good, Running, CallOf
<1>2. t \in ToSet(ctx.frames) /\ t \in Holders(ctx)
  BY <1>1 DEF StageInv, StageOf, Holders
<1>3. ctx.frames \in Seq(Tasks) /\ ctx.frames # <<>>
  BY <1>1, <1>2, NoLine DEF Contexts
<1>4. v \in ToSet(ctx.frames) /\ v \in Tasks
  <2>1. Len(ctx.frames) \in 1..Len(ctx.frames) /\ DOMAIN ctx.frames = 1..Len(ctx.frames)
    BY <1>3, EmptySeq, LenProperties
  <2> QED
    BY <1>3, <2>1 DEF Last, ToSet
<1>5. v \in Holders(ctx)
  BY <1>1, <1>4 DEF StageInv, StageOf, Holders
<1>6. On(ctx, v) = On(ctx, t) /\ On(ctx, t) \in Gates
  <2>1. On(ctx, v) \in Held(ctx) /\ On(ctx, t) \in Held(ctx)
    BY <1>2, <1>5 DEF Held
  <2>2. On(ctx, v) \in Gates /\ On(ctx, t) \in Gates
    BY <1>1, <1>2, <1>5, Facts DEF Holders, On
  <2>3. On(ctx, v) <= On(ctx, t) /\ On(ctx, t) <= On(ctx, v)
    BY <1>1, <2>1 DEF ChainInv
  <2>4. On(ctx, v) \in Int /\ On(ctx, t) \in Int
    BY <1>1, <2>2, Facts
  <2>5. \A x, y \in Int : x <= y /\ y <= x => x = y
    OBVIOUS
  <2> QED
    BY <2>2, <2>3, <2>4, <2>5
<1>7. Current = ctx.tasks[v].lock
  BY DEF Current
<1>8. Current \in SectionGates(ctx) /\ Current \in Gates /\ ctx.scope[Current] = On(ctx, t)
  BY <1>1, <1>5, <1>6, <1>7, Facts DEF Holders, CallsInv, GatesOf, On
<1>9. On(ctx, t) = Home(ctx, t) /\ Home(ctx, t) \in Homes(ctx)
  BY <1>1, <1>2 DEF Holders, CallsInv, GatesOf, HomesInv, Busy
<1>10. ctx.tasks[t].call \in Sections(ctx) => On(ctx, t) = ctx.tasks[t].call /\ CallOf(ctx, t).holds
  BY <1>1, <1>2 DEF OpenInv, OpenAt, Holders, Busy, CallOf
<1> QED
  BY <1>1, <1>2, <1>3, <1>6, <1>8, <1>9, <1>10, Facts

-----------------------------------------------------------------------------
(***************************************************************************)
(* What the code asks for                                                  *)
(***************************************************************************)

\* A task of the call that asks, at the gate of its slice.
LEMMA AwaitKeeps ==
  ASSUME Good(ctx), ~ctx.aborted, NEW t \in Tasks, Running(t), HasFree(ctx.tasks), NEW kind \in {"await", "held"},
         NEW lock, lock = (IF kind = "held" THEN Current ELSE NoLock),
         NEW r, r = NewTask(ctx, kind, ctx.tasks[t].call, Current, lock)
  PROVE  Good(r) /\ ~r.aborted /\ SameTurn(ctx, r)
<1> DEFINE n == ctx.tasks[t].call
           u == Fresh(ctx.tasks)
<1>1. /\ n \in Calls /\ ctx.calls[n].stage = "open" /\ Current \in SectionGates(ctx) /\ Current \in Gates
      /\ ctx.scope[Current] = On(ctx, t) /\ On(ctx, t) \in Homes(ctx)
      /\ n \in Sections(ctx) => On(ctx, t) = n
  BY AskFacts DEF CallOf
<1>2. ctx \in Contexts /\ kind \in Kinds /\ lock \in Gates \cup {NoLock} /\ NoLock \notin Gates
  BY <1>1, Facts DEF Good, Kinds
<1> HIDE DEF n
<1>3. /\ r \in Contexts /\ r.calls = ctx.calls /\ SameLines(ctx, r) /\ SameScope(ctx, r) /\ SameFrames(ctx, r)
      /\ u \in Tasks /\ ctx.tasks[u].stage = "free" /\ \A v \in Tasks \ {u} : r.tasks[v] = ctx.tasks[v]
      /\ r.tasks[u].kind = kind /\ r.tasks[u].stage = "outside" /\ r.tasks[u].call = n
      /\ r.tasks[u].gate = Current /\ r.tasks[u].lock = lock
  <2>1. TaskMade(ctx, kind, n, Current, lock, u, r)
    BY <1>1, <1>2, NewTaskFields DEF n
  <2> QED
    BY <2>1 DEF TaskMade
<1> HIDE DEF u
<1>4. Added(ctx, u, n, r)
  <2>1. u \notin ctx.timers
    BY <1>3 DEF Good, StageInv, StageOf, TimerOf
  <2> QED
    BY <1>1, <1>3, <2>1 DEF Added, SameFrames
<1>5. Placed(ctx, u, n, r)
  <2>1. SectionGates(r) = SectionGates(ctx) /\ Home(r, u) = On(ctx, t)
    BY <1>1, <1>3 DEF SectionGates, Sections, Home, SameScope
  <2>2. HasLock(r, u) <=> kind = "held"
    BY <1>1, <1>2, <1>3 DEF HasLock
  <2>3. HasLock(r, u) => r.tasks[u].lock = Current /\ On(r, u) = On(ctx, t)
    BY <1>1, <1>3, <2>2 DEF On, SameScope
  <2>4. ctx.tasks[t].stage = "running" /\ ctx.tasks[t].call = n
    BY DEF Running, n
  <2> QED
    BY <1>1, <1>3, <2>1, <2>2, <2>3, <2>4 DEF Placed
<1> QED
  BY <1>4, <1>5, AddedKeeps

\* A timer is a call of its own, whose task is at that gate.
LEMMA SetTimeoutKeeps ==
  ASSUME Good(ctx), ~ctx.aborted, NEW t \in Tasks, Running(t), HasFree(ctx.tasks), HasFree(ctx.calls),
         NEW s, s = NewTask(NewCall("timer", ctx.tasks[t].call), "timer", Fresh(ctx.calls), Current, NoLock),
         NEW r, r = [s EXCEPT !.timers = @ \cup {Fresh(ctx.tasks)}]
  PROVE  Good(r) /\ ~r.aborted /\ SameTurn(ctx, r)
<1> DEFINE by == ctx.tasks[t].call
           n == Fresh(ctx.calls)
           u == Fresh(ctx.tasks)
           q == NewCall("timer", by)
<1>1. /\ by \in Calls /\ by \in Gates /\ by # 0 /\ Current \in SectionGates(ctx) /\ Current \in Gates
      /\ ctx.scope[Current] = On(ctx, t) /\ On(ctx, t) \in Homes(ctx) /\ ctx \in Contexts /\ CallsInv(ctx)
      /\ NoLock \notin Gates
  BY AskFacts, Facts DEF Good, Root
<1> HIDE DEF by
<1>2. /\ q \in Contexts /\ q.tasks = ctx.tasks /\ SameLines(ctx, q) /\ SameScope(ctx, q) /\ SameFrames(ctx, q)
      /\ n \in Calls /\ \A c \in Calls \ {n} : q.calls[c] = ctx.calls[c]
      /\ ctx.calls[n].stage = "free" /\ \A c \in Calls : ctx.calls[c].stage # "free" <=> c < n
      /\ q.calls[n].kind = "timer" /\ q.calls[n].stage = "open" /\ q.calls[n].holds = FALSE
  <2>1. "timer" \in CallKinds \ {"none"} /\ "timer" # "section"
    BY DEF CallKinds
  <2>2. CallMade("timer", by, n, q)
    BY <1>1, <2>1, NewCallFields
  <2> HIDE DEF q, n
  <2> QED
    BY <2>2 DEF CallMade
<1>3. s = NewTask(q, "timer", n, Current, NoLock) /\ HasFree(q.tasks) /\ u = Fresh(q.tasks)
  BY <1>2 DEF by
<1> HIDE DEF q, n, u
<1>4. /\ s \in Contexts /\ s.calls = q.calls /\ SameLines(q, s) /\ SameScope(q, s) /\ SameFrames(q, s)
      /\ u \in Tasks /\ q.tasks[u].stage = "free" /\ \A v \in Tasks \ {u} : s.tasks[v] = q.tasks[v]
      /\ s.tasks[u].kind = "timer" /\ s.tasks[u].stage = "outside" /\ s.tasks[u].call = n
      /\ s.tasks[u].gate = Current /\ s.tasks[u].lock = NoLock
  <2>1. TaskMade(q, "timer", n, Current, NoLock, u, s)
    BY <1>1, <1>2, <1>3, NewTaskFields DEF Kinds
  <2> QED
    BY <2>1 DEF TaskMade
<1>5. r = [s EXCEPT !.timers = @ \cup {u}]
  BY DEF u
<1>6. /\ r \in Contexts /\ r.calls = s.calls /\ r.tasks = s.tasks /\ SameLines(s, r) /\ SameScope(s, r)
      /\ r.frames = s.frames /\ r.timers = s.timers \cup {u}
  <2> DEFINE T == s.timers \cup {u}
  <2>1. T \in SUBSET Tasks /\ r = [s EXCEPT !.timers = T] /\ s \in Contexts
    BY <1>4, <1>5 DEF Contexts
  <2>2. T = s.timers \cup {u}
    OBVIOUS
  <2> HIDE DEF T
  <2> QED
    BY <2>1, <2>2 DEF Contexts, SameLines, SameScope
<1>7. /\ r.scope = ctx.scope /\ SameLines(ctx, r) /\ SameScope(ctx, r) /\ r.frames = ctx.frames
      /\ r.timers = ctx.timers \cup {u} /\ r.calls = q.calls
      /\ u \in Tasks /\ ctx.tasks[u].stage = "free" /\ \A v \in Tasks \ {u} : r.tasks[v] = ctx.tasks[v]
      /\ r.tasks[u].kind = "timer" /\ r.tasks[u].stage = "outside" /\ r.tasks[u].call = n
      /\ r.tasks[u].gate = Current /\ r.tasks[u].lock = NoLock
  BY <1>2, <1>4, <1>6 DEF SameLines, SameScope, SameFrames
<1>8. Made(ctx, n, r.calls[n]) /\ TimerOf(r, u) /\ n \notin Sections(r)
  BY <1>2, <1>7 DEF Made, TimerOf, CallOf, Sections
<1>9. Added(ctx, u, n, r)
  BY <1>2, <1>6, <1>7, <1>8 DEF Added
<1>10. Placed(ctx, u, n, r)
  <2>1. SectionGates(ctx) \subseteq SectionGates(r) /\ n \notin Sections(ctx)
    <3>1. \A k \in Sections(ctx) : k # n /\ k \in Calls
      BY <1>1, <1>2 DEF Sections, CallsInv, MadeInOrder
    <3>2. Sections(ctx) \subseteq Sections(r)
      BY <1>2, <1>7, <3>1 DEF Sections
    <3> QED
      BY <3>1, <3>2 DEF SectionGates
  <2>2. Home(r, u) = On(ctx, t) /\ ~HasLock(r, u)
    BY <1>1, <1>7 DEF Home, HasLock
  <2> QED
    BY <1>1, <1>7, <2>1, <2>2 DEF Placed
<1> QED
  BY <1>9, <1>10, AddedKeeps

\* Turns are kept by steps that are made of others.
LEMMA TurnsKept ==
  ASSUME NEW s, NEW q, NEW r, SameTurn(s, q), SameTurn(q, r) \/ Recounted(q, r)
  PROVE  SameTurn(s, r)
<1>1. SameTurn(q, r)
  BY DEF Recounted, SameTurn, SameFrames, CallOf
<1> QED
  BY <1>1 DEF SameTurn

\* An event is a call of its own, whose task waits at the root.
LEMMA EventKeeps ==
  ASSUME Good(ctx), ~ctx.aborted, HasFree(ctx.tasks), HasFree(ctx.calls), NEW kind \in {"start", "entry", "run"},
         NEW s, s = NewTask(NewCall(kind, 0), "event", Fresh(ctx.calls), Root, NoLock),
         NEW r, r = Wait(Begun(s, "event"), Fresh(ctx.tasks))
  PROVE  Good(r) /\ ~r.aborted /\ SameTurn(ctx, r)
<1> DEFINE n == Fresh(ctx.calls)
           u == Fresh(ctx.tasks)
           q == NewCall(kind, 0)
           b == Begun(s, "event")
<1>1. /\ ctx \in Contexts /\ CallsInv(ctx) /\ ScopeInv(ctx) /\ StageInv(ctx) /\ Root = 0 /\ 0 \in Gates /\ NoLock # Root
  BY DEF Good, Root, Gates, NoLock
<1>2. /\ q \in Contexts /\ q.tasks = ctx.tasks /\ SameLines(ctx, q) /\ SameScope(ctx, q) /\ SameFrames(ctx, q)
      /\ n \in Calls /\ \A c \in Calls \ {n} : q.calls[c] = ctx.calls[c]
      /\ ctx.calls[n].stage = "free" /\ \A c \in Calls : ctx.calls[c].stage # "free" <=> c < n
      /\ q.calls[n].kind = kind /\ q.calls[n].stage = "open" /\ q.calls[n].holds = FALSE
  <2>1. kind \in CallKinds \ {"none"} /\ kind # "section"
    BY DEF CallKinds
  <2>2. CallMade(kind, 0, n, q)
    BY <1>1, <2>1, NewCallFields
  <2> HIDE DEF q, n
  <2> QED
    BY <2>2 DEF CallMade
<1>3. s = NewTask(q, "event", n, Root, NoLock) /\ HasFree(q.tasks) /\ u = Fresh(q.tasks)
  BY <1>2
<1> HIDE DEF q, n, u
<1>4. /\ s \in Contexts /\ s.calls = q.calls /\ SameLines(q, s) /\ SameScope(q, s) /\ SameFrames(q, s)
      /\ u \in Tasks /\ q.tasks[u].stage = "free" /\ \A v \in Tasks \ {u} : s.tasks[v] = q.tasks[v]
      /\ s.tasks[u].kind = "event" /\ s.tasks[u].stage = "outside" /\ s.tasks[u].call = n
      /\ s.tasks[u].gate = Root /\ s.tasks[u].lock = NoLock
  <2>1. TaskMade(q, "event", n, Root, NoLock, u, s)
    BY <1>1, <1>2, <1>3, NewTaskFields DEF Kinds
  <2> QED
    BY <2>1 DEF TaskMade
<1>5. /\ s.scope = ctx.scope /\ SameLines(ctx, s) /\ SameScope(ctx, s) /\ s.frames = ctx.frames
      /\ s.timers = ctx.timers /\ u \notin ctx.timers
      /\ u \in Tasks /\ ctx.tasks[u].stage = "free" /\ \A v \in Tasks \ {u} : s.tasks[v] = ctx.tasks[v]
  <2>1. ctx.tasks[u].stage = "free" /\ u \in Tasks
    BY <1>2, <1>4
  <2>2. u \notin ctx.timers
    BY <1>1, <2>1 DEF StageInv, StageOf, TimerOf
  <2> QED
    BY <1>2, <1>4, <2>1, <2>2 DEF SameLines, SameScope, SameFrames
<1>6. Added(ctx, u, n, s)
  <2>1. Made(ctx, n, s.calls[n]) /\ s.calls[n].kind # "section"
    BY <1>2, <1>4 DEF Made
  <2> QED
    BY <1>2, <1>4, <1>5, <2>1 DEF Added
<1>7. Placed(ctx, u, n, s)
  <2>1. n \notin Sections(ctx)
    BY <1>1, <1>2 DEF Sections, CallsInv, MadeInOrder
  <2>2. Home(s, u) = Root /\ ~HasLock(s, u)
    BY <1>1, <1>4, <1>5 DEF Home, HasLock, ScopeInv
  <2> QED
    BY <1>4, <2>1, <2>2 DEF Placed, Homes, SectionGates
<1>8. Good(s) /\ ~s.aborted /\ SameTurn(ctx, s)
  BY <1>6, <1>7, AddedKeeps
<1>9. Recounted(s, b)
  BY <1>4, CountFields
<1>10. Good(b) /\ ~b.aborted /\ b.tasks = s.tasks /\ SameTurn(ctx, b)
  BY <1>8, <1>9, CountsKeep, TurnsKept DEF Recounted
<1>11. r = Wait(b, u)
  BY DEF u
<1> HIDE DEF b
<1>12. b.tasks[u].stage = "outside" /\ ~HasLock(b, u) /\ b.tasks[u].kind # "body"
  BY <1>4, <1>10 DEF HasLock
<1>13. Good(r) /\ ~r.aborted /\ SameTurn(b, r)
  BY <1>4, <1>10, <1>11, <1>12, WaitKeeps
<1> QED
  BY <1>10, <1>13, TurnsKept

\* The body of a new section queues for the lock of its caller.
Joins(q, t, g, r) == r = [q EXCEPT !.waitingChildren[g] = Append(@, t)]

\* The body of a section may join the line of the parent.
LEMMA BodyQueues ==
  ASSUME NEW s, Good(s), ~s.aborted, NEW t \in Tasks, s.tasks[t].stage = "outside", s.tasks[t].kind = "body",
         NEW q, q = Stage(s, t, "queued"), NEW g \in Gates, g = Outer(s, s.tasks[t].call),
         NEW r, Joins(q, t, g, r)
  PROVE  /\ Good(q) /\ TaskStep(s, t, q) /\ SameLines(s, q) /\ q.frames = s.frames /\ q.tasks[t].stage = "queued"
         /\ Good(r) /\ ~r.aborted /\ SameTurn(s, r)
<1> DEFINE line == Append(s.waitingChildren[g], t)
           X == [s.waitingChildren EXCEPT ![g] = line]
<1>1. /\ s \in Contexts /\ StageOf(s, t) /\ "queued" \in Stages /\ LinesInv(s) /\ BodyOf(s, t)
      /\ s.waitingChildren[g] \in Seq(Tasks) /\ s.waitingChildren \in [Gates -> Seq(Tasks)]
  BY DEF Good, StageInv, Stages, QueueInv, Contexts
<1>2. /\ q \in Contexts /\ q.calls = s.calls /\ SameLines(s, q) /\ SameScope(s, q) /\ SameFrames(s, q)
      /\ \A u \in Tasks \ {t} : q.tasks[u] = s.tasks[u]
      /\ q.tasks[t].stage = "queued" /\ q.tasks[t].kind = s.tasks[t].kind /\ q.tasks[t].call = s.tasks[t].call
      /\ q.tasks[t].gate = s.tasks[t].gate /\ q.tasks[t].lock = s.tasks[t].lock
  BY <1>1, StageFields
<1>3. \A h \in Gates : t \notin ToSet(s.waiters[h]) /\ t \notin ToSet(s.waitingChildren[h])
  BY <1>1 DEF LinesInv, InChildren, InWaiters
<1>4. line \in Seq(Tasks) /\ ToSet(line) = ToSet(s.waitingChildren[g]) \cup {t} /\ Single(line)
  BY <1>1, <1>3, LineFacts DEF LinesInv
<1>5. r = [q EXCEPT !.waitingChildren = X]
  BY <1>2 DEF SameLines, Joins
<1> HIDE DEF line
<1>6. X \in [Gates -> Seq(Tasks)] /\ X[g] = line /\ \A h \in Gates \ {g} : X[h] = s.waitingChildren[h]
  BY <1>1, <1>4
<1> HIDE DEF X
<1>7. /\ r \in Contexts /\ r.tasks = q.tasks /\ r.calls = q.calls /\ SameScope(q, r) /\ SameFrames(q, r)
      /\ r.waiters = q.waiters /\ r.waitingChildren = X
  BY <1>2, <1>5, <1>6 DEF Contexts, SameScope, SameFrames
<1>8. TaskStep(s, t, q) /\ TaskStep(s, t, r) /\ r.frames = s.frames /\ q.frames = s.frames
  BY <1>2, <1>7 DEF TaskStep, SameScope, SameFrames
<1>9. StageOf(q, t) /\ Busy(q, t) /\ StageOf(r, t) /\ Busy(r, t) /\ r.tasks[t].stage = "queued"
  BY <1>1, <1>2, <1>7, <1>8 DEF StageOf, Busy, HasLock
<1>10. LinesInv(r)
  <2>1. r.scope = s.scope /\ r.calls = s.calls /\ r.waiters = s.waiters
        /\ \A u \in Tasks \ {t} : r.tasks[u] = s.tasks[u]
    BY <1>2, <1>7 DEF SameScope, SameLines
  <2>2. ASSUME NEW h \in Gates, NEW u \in ToSet(r.waiters[h]) PROVE InWaiters(r, h, u)
    <3>1. u \in Tasks /\ InWaiters(s, h, u) /\ u # t
      BY <1>1, <1>3, <2>1, InLine DEF LinesInv
    <3>2. r.tasks[u] = s.tasks[u]
      BY <2>1, <3>1
    <3> QED
      BY <2>1, <3>1, <3>2 DEF InWaiters, Home
  <2>3. ASSUME NEW h \in Gates, NEW u \in ToSet(s.waitingChildren[h]) PROVE InChildren(r, h, u)
    <3>1. u \in Tasks /\ InChildren(s, h, u) /\ u # t
      BY <1>1, <1>3, InLine DEF LinesInv
    <3>2. r.tasks[u] = s.tasks[u]
      BY <2>1, <3>1
    <3> QED
      BY <2>1, <3>1, <3>2 DEF InChildren, Outer
  <2>4. InChildren(r, g, t)
    <3>1. r.tasks[t].kind = "body" /\ r.tasks[t].call = s.tasks[t].call
      BY <1>2, <1>7
    <3> QED
      BY <1>9, <2>1, <3>1 DEF InChildren, Outer
  <2>5. ASSUME NEW h \in Gates
        PROVE  /\ Single(r.waitingChildren[h]) /\ Single(r.waiters[h])
               /\ \A u \in ToSet(r.waitingChildren[h]) : InChildren(r, h, u)
    <3>1. Single(s.waitingChildren[h]) /\ Single(s.waiters[h])
      BY <1>1 DEF LinesInv
    <3>2. CASE h = g
      BY <1>4, <1>6, <1>7, <2>1, <2>3, <2>4, <3>1, <3>2
    <3>3. CASE h # g
      BY <1>6, <1>7, <2>1, <2>3, <3>1, <3>3
    <3> QED
      BY <3>2, <3>3
  <2> QED
    BY <2>2, <2>5 DEF LinesInv
<1>11. Good(q)
  <2>1. LinesInv(q)
    BY <1>2, <1>8, TaskLines
  <2> QED
    BY <1>2, <1>8, <1>9, <2>1, TaskKeeps
<1>12. Good(r)
  BY <1>8, <1>9, <1>10, TaskKeeps
<1>13. ~r.aborted /\ SameTurn(s, r)
  <2>1. SameTree(s, r) /\ ~r.aborted
    BY <1>2, <1>7 DEF SameScope, SameTree
  <2>2. \A u \in Tasks : s.tasks[u].stage \in {"running", "left"} => r.tasks[u].call = s.tasks[u].call
    BY <1>8 DEF TaskStep
  <2>3. ToSet(s.frames) \subseteq ToSet(r.frames)
    BY <1>8
  <2> QED
    BY <2>1, <2>2, <2>3, TurnKept
<1> QED
  BY <1>2, <1>8, <1>11, <1>12, <1>13

\* A gate breaks at which nothing happened.
Breaks(s, k, r) == r = [s EXCEPT !.broken = @ \cup {k}]

\* A section that is made at a broken gate breaks as well.
LEMMA BrokenKeeps ==
  ASSUME NEW s, Good(s), ~s.aborted, s.broken # {}, NEW k \in SectionGates(s), NEW r, Breaks(s, k, r)
  PROVE  Good(r) /\ Less(s, r) /\ r.tasks = s.tasks /\ SameLines(s, r) /\ SameFrames(s, r) /\ ~r.aborted
<1> DEFINE B == s.broken \cup {k}
<1>1. s \in Contexts /\ StageInv(s) /\ CallsInv(s) /\ LinesInv(s) /\ ScopeInv(s) /\ DoneInv(s)
  BY DEF Good, QueueInv
<1>2. B \in SUBSET Gates /\ B = s.broken \cup {k} /\ SectionGates(s) \subseteq Gates
  BY <1>1, OuterFacts DEF Contexts
<1> HIDE DEF B
<1>3. r = [s EXCEPT !.broken = B]
  BY <1>2 DEF Breaks
<1>4. /\ r \in Contexts /\ r.tasks = s.tasks /\ r.calls = s.calls /\ r.broken = B /\ SameLines(s, r)
      /\ SameFrames(s, r) /\ r.scope = s.scope /\ r.aborted = s.aborted /\ r.breaking = s.breaking
  BY <1>1, <1>2, <1>3 DEF Contexts, SameLines, SameFrames
<1>5. Less(s, r)
  <2>1. \A u \in Tasks : TaskLess(s, r, u)
    <3> SUFFICES ASSUME NEW u \in Tasks PROVE TaskLess(s, r, u)
      OBVIOUS
    <3>1. s.tasks[u].stage = "free" => ~HasLock(s, u)
      BY <1>1 DEF StageInv, StageOf
    <3> QED
      BY <1>4, <3>1 DEF TaskLess, Busy, HasLock
  <2>2. \A c \in Calls : CallLess(s, r, c)
    BY <1>4 DEF CallLess
  <2>3. SameTree(s, r) /\ s.broken \subseteq r.broken /\ r.broken \subseteq SectionGates(s)
    BY <1>1, <1>2, <1>4 DEF SameTree, CallsInv
  <2> QED
    BY <1>4, <2>1, <2>2, <2>3 DEF Less
<1>6. StageInv(r)
  BY <1>1, <1>4 DEF StageInv, StageOf, TimerOf, HasLock, CallOf, SameFrames
<1>7. LinesInv(r)
  BY <1>1, <1>4 DEF LinesInv, InChildren, InWaiters, Outer, Home, SameLines
<1>8. DoneInv(r)
  BY <1>1, <1>4 DEF DoneInv, Sections, Done, Live, Inner
<1> QED
  BY <1>4, <1>5, <1>6, <1>7, <1>8, LessKeeps

\* Trees are kept by steps that are made of others.
LEMMA TreesKept ==
  ASSUME NEW s, NEW q, NEW r, SameTree(s, q), SameTree(q, r)
  PROVE  SameTree(s, r)
  BY DEF SameTree

Rejects(q, t, k, r) == r = Refuse([q EXCEPT !.broken = @ \cup {k}], {t})

\* blockConcurrencyWhile() keeps the invariant.
LEMMA BlockKeeps ==
  ASSUME Good(ctx), ~ctx.aborted, NEW t \in Tasks, Running(t), HasFree(ctx.tasks), HasFree(ctx.calls),
         NEW k, k = Fresh(ctx.calls), NEW u, u = Fresh(ctx.tasks), NEW g, g = ctx.scope[Current],
         NEW s, s = NewTask(NewCall("section", ctx.tasks[t].call), "body", k, k, NoLock),
         NEW q, q = Stage(s, u, "queued"), NEW r,
         \/ g \in ctx.broken /\ Rejects(q, u, k, r)
         \/ g \notin ctx.broken /\ Joins(q, u, g, r)
  PROVE  Good(r) /\ ~r.aborted /\ SameTurn(ctx, r)
<1> DEFINE by == ctx.tasks[t].call
           p == NewCall("section", by)
<1>1. /\ by \in Calls /\ by \in Gates /\ by # 0 /\ Current \in SectionGates(ctx) /\ Current \in Gates
      /\ g = On(ctx, t) /\ g \in Homes(ctx) /\ g \in Gates /\ ctx \in Contexts /\ CallsInv(ctx) /\ ScopeInv(ctx)
      /\ NoLock \notin Gates /\ Calls \subseteq Gates /\ ctx.calls[by].stage = "open"
      /\ by \in Sections(ctx) => g = by /\ ctx.calls[by].holds
  <2>1. by # 0 /\ ctx \in Contexts /\ CallsInv(ctx) /\ ScopeInv(ctx)
    BY AskFacts DEF Good, Calls
  <2> QED
    BY <2>1, AskFacts, Facts DEF CallOf
<1> HIDE DEF by
<1>2. /\ p \in Contexts /\ p.tasks = ctx.tasks /\ SameLines(ctx, p) /\ SameScope(ctx, p) /\ SameFrames(ctx, p)
      /\ k \in Calls /\ \A c \in Calls \ {k} : p.calls[c] = ctx.calls[c]
      /\ ctx.calls[k].stage = "free" /\ \A c \in Calls : ctx.calls[c].stage # "free" <=> c < k
      /\ p.calls[k].kind = "section" /\ p.calls[k].stage = "open" /\ p.calls[k].holds = FALSE /\ p.calls[k].by = by
      /\ p.calls[k].parent = Current
      /\ p.calls[k].above = {Current} \cup (IF Current = Root THEN {} ELSE ctx.calls[Current].above)
      /\ p.calls[k].origin = ctx.calls[by].origin
  <2>1. "section" \in CallKinds \ {"none"}
    BY DEF CallKinds
  <2>2. CallMade("section", by, k, p)
    BY <1>1, <2>1, NewCallFields
  <2> HIDE DEF p
  <2> QED
    BY <1>1, <2>2 DEF CallMade
<1>3. s = NewTask(p, "body", k, k, NoLock) /\ HasFree(p.tasks) /\ u = Fresh(p.tasks)
  BY <1>2 DEF by
<1> HIDE DEF p
<1>4. /\ s \in Contexts /\ s.calls = p.calls /\ SameLines(p, s) /\ SameScope(p, s) /\ SameFrames(p, s)
      /\ u \in Tasks /\ p.tasks[u].stage = "free" /\ \A v \in Tasks \ {u} : s.tasks[v] = p.tasks[v]
      /\ s.tasks[u].kind = "body" /\ s.tasks[u].stage = "outside" /\ s.tasks[u].call = k
      /\ s.tasks[u].gate = k /\ s.tasks[u].lock = NoLock
  <2>1. TaskMade(p, "body", k, k, NoLock, u, s)
    BY <1>1, <1>2, <1>3, NewTaskFields DEF Kinds
  <2> QED
    BY <2>1 DEF TaskMade
<1>5. /\ s.scope = ctx.scope /\ s.broken = ctx.broken /\ SameLines(ctx, s) /\ SameScope(ctx, s) /\ s.frames = ctx.frames
      /\ s.timers = ctx.timers /\ u \notin ctx.timers
      /\ u \in Tasks /\ ctx.tasks[u].stage = "free" /\ \A v \in Tasks \ {u} : s.tasks[v] = ctx.tasks[v]
  <2>1. ctx.tasks[u].stage = "free" /\ u \in Tasks
    BY <1>2, <1>4
  <2>2. u \notin ctx.timers
    BY <2>1 DEF Good, StageInv, StageOf, TimerOf
  <2> QED
    BY <1>2, <1>4, <2>1, <2>2 DEF SameLines, SameScope, SameFrames
<1>6. Made(ctx, k, s.calls[k])
  <2> DEFINE x == s.calls[k]
  <2>1. /\ x.parent = Current
        /\ x.above = {Current} \cup (IF Current = Root THEN {} ELSE ctx.calls[Current].above)
    <3>1. x = p.calls[k]
      BY <1>4
    <3> HIDE DEF x
    <3> QED
      BY <1>2, <3>1
  <2>2. Current # Root =>
          /\ ctx.calls[Current].above \subseteq SectionGates(ctx)
          /\ \A y \in ctx.calls[Current].above :
               y # Root => ctx.calls[y].above \subseteq ctx.calls[Current].above
    <3>1. Current # Root => Current \in Sections(ctx)
      BY <1>1 DEF SectionGates
    <3> QED
      BY <1>1, <3>1 DEF ScopeInv
  <2>3. x.parent \in x.above /\ x.above \subseteq SectionGates(ctx)
    BY <1>1, <2>1, <2>2
  <2>4. \A y \in x.above : y # Root => ctx.calls[y].above \subseteq x.above
    BY <2>1, <2>2
  <2>5. ctx.scope[x.parent] = g
    BY <1>2, <1>4
  <2>6. /\ x.stage = "open" /\ x.kind = "section" /\ x.holds = FALSE /\ x.by = by /\ x.origin = ctx.calls[by].origin
    BY <1>2, <1>4
  <2> HIDE DEF x
  <2>7. /\ x.by \in Calls /\ ctx.calls[x.by].stage # "free" /\ x.origin = ctx.calls[x.by].origin
        /\ ctx.scope[x.parent] \in Homes(ctx)
        /\ x.by \in Sections(ctx) /\ ctx.calls[x.by].stage = "open" => ctx.scope[x.parent] = x.by /\ ctx.calls[x.by].holds
    BY <1>1, <2>5, <2>6
  <2>8. Made(ctx, k, x)
    BY <1>2, <2>3, <2>4, <2>6, <2>7 DEF Made
  <2> QED
    BY <2>8 DEF x
<1>7. Added(ctx, u, k, s)
  <2>1. s \in Contexts /\ s.calls[k].kind = "section" /\ k \in Calls /\ \A c \in Calls \ {k} : s.calls[c] = ctx.calls[c]
    BY <1>2, <1>4
  <2>2. s.tasks[u].kind = "body" /\ s.tasks[u].stage = "outside" /\ s.tasks[u].call = k
    BY <1>4
  <2>3. s.tasks[u].kind # "none" /\ s.tasks[u].kind # "held"
    BY <2>2
  <2> QED
    BY <1>5, <1>6, <2>1, <2>2, <2>3 DEF Added
<1>8. Placed(ctx, u, k, s)
  <2>1. k \notin Sections(ctx) /\ k \in SectionGates(s)
    BY <1>1, <1>2, <1>4 DEF Sections, CallsInv, MadeInOrder, SectionGates
  <2>2. ~HasLock(s, u)
    BY <1>4 DEF HasLock
  <2> QED
    BY <1>4, <2>1, <2>2 DEF Placed
<1>9. Good(s) /\ ~s.aborted /\ SameTurn(ctx, s)
  BY <1>7, <1>8, AddedKeeps
<1>10. Outer(s, s.tasks[u].call) = g
  BY <1>2, <1>4, <1>5 DEF Outer
<1>11. CASE g \notin ctx.broken /\ Joins(q, u, g, r)
  <2>1. Good(r) /\ ~r.aborted /\ SameTurn(s, r)
    BY <1>1, <1>4, <1>9, <1>10, <1>11, BodyQueues
  <2> QED
    BY <1>9, <2>1, TurnsKept
<1>12. CASE g \in ctx.broken /\ Rejects(q, u, k, r)
  <2> DEFINE j == [q EXCEPT !.waitingChildren[g] = Append(@, u)]
             e == [q EXCEPT !.broken = @ \cup {k}]
  <2>1. Good(q) /\ TaskStep(s, u, q) /\ SameLines(s, q) /\ q.frames = s.frames /\ q.tasks[u].stage = "queued"
    <3>1. Joins(q, u, g, j)
      BY DEF Joins
    <3> HIDE DEF j
    <3> QED
      BY <1>1, <1>4, <1>9, <1>10, <3>1, BodyQueues
  <2>2. ~q.aborted /\ q.broken = ctx.broken /\ k \in SectionGates(q)
    <3>1. SameScope(s, q) /\ q.calls = s.calls
      BY <2>1 DEF TaskStep
    <3>2. k \in Calls /\ s.calls[k].kind = "section"
      BY <1>2, <1>4
    <3> QED
      BY <1>5, <1>9, <3>1, <3>2 DEF SameScope, SectionGates, Sections
  <2>3. Good(e) /\ Less(q, e) /\ e.tasks = q.tasks /\ SameLines(q, e) /\ SameFrames(q, e) /\ ~e.aborted
    <3>1. Breaks(q, k, e)
      BY DEF Breaks
    <3> HIDE DEF e, j
    <3> QED
      BY <1>12, <2>1, <2>2, <3>1, BrokenKeeps
  <2>4. r = Refuse(e, {u})
    BY <1>12 DEF Rejects
  <2> HIDE DEF e, j
  <2>5. \A h \in Gates : u \notin ToSet(s.waitingChildren[h]) /\ u \notin ToSet(s.waiters[h])
    <3>1. LinesInv(s) /\ s.tasks[u].stage # "queued"
      BY <1>4, <1>9 DEF Good, QueueInv
    <3> QED
      BY <3>1 DEF LinesInv, InChildren, InWaiters
  <2>6. \A v \in {u} : /\ e.tasks[v].stage \notin {"running", "left"}
                       /\ \A h \in Gates : v \notin ToSet(e.waitingChildren[h]) /\ v \notin ToSet(e.waiters[h])
    BY <2>1, <2>3, <2>5 DEF SameLines
  <2>7. Good(r) /\ Refused(e, {u}, r)
    BY <1>4, <2>3, <2>4, <2>6, RefuseKeeps
  <2>8. ~r.aborted /\ SameTree(s, r) /\ r.frames = s.frames
    <3>1. SameTree(s, q)
      BY <2>1 DEF TaskStep, SameTree, SameScope
    <3>2. SameTree(q, e) /\ SameTree(e, r) /\ r.aborted = e.aborted /\ r.frames = e.frames /\ e.frames = q.frames
      BY <2>3, <2>7 DEF Refused, SameScope, Less, SameFrames
    <3>3. SameTree(s, r)
      BY <3>1, <3>2, TreesKept
    <3> QED
      BY <2>1, <2>3, <3>2, <3>3
  <2>9. \A v \in Tasks : s.tasks[v].stage \in {"running", "left"} => r.tasks[v].call = s.tasks[v].call
    <3> SUFFICES ASSUME NEW v \in Tasks, s.tasks[v].stage \in {"running", "left"} PROVE r.tasks[v].call = s.tasks[v].call
      OBVIOUS
    <3>1. v # u
      BY <1>4
    <3>2. q.tasks[v] = s.tasks[v]
      BY <2>1, <3>1 DEF TaskStep
    <3>3. r.tasks[v] = e.tasks[v]
      BY <2>7, <3>1 DEF Refused
    <3> QED
      BY <2>3, <3>2, <3>3
  <2>10. SameTurn(s, r)
    BY <1>9, <2>8, <2>9, TurnKept
  <2> QED
    BY <1>9, <2>7, <2>8, <2>10, TurnsKept
<1> QED
  BY <1>11, <1>12

-----------------------------------------------------------------------------
(***************************************************************************)
(* The end of a section                                                    *)
(***************************************************************************)

\* The parent adopts what section k left; task u is the resumption of its caller.
Adopted(s, k, u, r) ==
  /\ r \in Contexts /\ r.broken = s.broken /\ r.breaking = s.breaking /\ r.aborted = s.aborted /\ r.timers = s.timers
  /\ \A h \in Gates : r.scope[h] = IF s.scope[h] = k THEN Outer(s, k) ELSE s.scope[h]
  /\ r.frames = Append(s.frames, u)
  /\ u \in Tasks /\ s.tasks[u].stage = "free" /\ \A v \in Tasks \ {u} : r.tasks[v] = s.tasks[v]
  /\ r.tasks[u].kind = "resolve" /\ r.tasks[u].stage = "running" /\ r.tasks[u].call = s.calls[k].by
  /\ r.tasks[u].gate = s.calls[k].parent /\ r.tasks[u].lock = Outer(s, k)
  /\ \A c \in Calls : /\ r.calls[c].kind = s.calls[c].kind /\ r.calls[c].origin = s.calls[c].origin
                      /\ r.calls[c].by = s.calls[c].by /\ r.calls[c].parent = s.calls[c].parent
                      /\ r.calls[c].above = s.calls[c].above
                      /\ c # k => r.calls[c].stage = s.calls[c].stage /\ r.calls[c].holds = s.calls[c].holds
  /\ r.calls[k].stage = "over" /\ r.calls[k].holds = FALSE
  /\ \A h \in Gates :
       /\ r.waitingChildren[h] = IF h = k THEN <<>> ELSE IF h = Outer(s, k) THEN s.waitingChildren[h] \o s.waitingChildren[k]
                                 ELSE s.waitingChildren[h]
       /\ r.waiters[h] = IF h = k THEN <<>> ELSE IF h = Outer(s, k) THEN s.waiters[h] \o s.waiters[k] ELSE s.waiters[h]

\* What the end of a section changes.
LEMMA SucceedFields ==
  ASSUME NEW s, s \in Contexts, HasFree(s.tasks), ~s.aborted, NEW k \in Calls, Outer(s, k) # k, s.calls[k].by \in Calls
  PROVE  Adopted(s, k, Fresh(s.tasks), Succeed(s, k))
<1> DEFINE g == Outer(s, k)
           u == Fresh(s.tasks)
           S == [h \in Gates |-> IF s.scope[h] = k THEN g ELSE s.scope[h]]
           W == [s.waitingChildren EXCEPT ![g] = s.waitingChildren[g] \o s.waitingChildren[k], ![k] = <<>>]
           V == [s.waiters EXCEPT ![g] = s.waiters[g] \o s.waiters[k], ![k] = <<>>]
           x == [s.calls[k] EXCEPT !.stage = "over", !.holds = FALSE]
           C == [s.calls EXCEPT ![k] = x]
           t == [s EXCEPT !.scope = S, !.waitingChildren = W, !.waiters = V, !.calls = C]
           z == [kind |-> "resolve", stage |-> "granted", call |-> s.calls[k].by, gate |-> s.calls[k].parent, lock |-> g]
           X == [s.tasks EXCEPT ![u] = z]
           q == [t EXCEPT !.tasks = X]
           r == Push(q, u)
<1>1. /\ k \in Gates /\ g \in Gates /\ g # k /\ u \in Tasks /\ s.tasks[u].stage = "free"
      /\ s.calls[k] \in Call /\ s.calls[k].parent \in Gates
      /\ \A h \in Gates : s.scope[h] \in Gates /\ s.waitingChildren[h] \in Seq(Tasks) /\ s.waiters[h] \in Seq(Tasks)
      /\ s.waitingChildren \in [Gates -> Seq(Tasks)] /\ s.waiters \in [Gates -> Seq(Tasks)]
  BY Facts, FreshTask DEF Outer, Contexts
<1>2. S \in [Gates -> Gates] /\ \A h \in Gates : S[h] = IF s.scope[h] = k THEN g ELSE s.scope[h]
  BY <1>1
<1>3. W \in [Gates -> Seq(Tasks)] /\ V \in [Gates -> Seq(Tasks)] /\ W[k] = <<>> /\ V[k] = <<>>
      /\ W[g] = s.waitingChildren[g] \o s.waitingChildren[k] /\ V[g] = s.waiters[g] \o s.waiters[k]
      /\ \A h \in Gates \ {g, k} : W[h] = s.waitingChildren[h] /\ V[h] = s.waiters[h]
  <2>1. /\ s.waitingChildren[g] \o s.waitingChildren[k] \in Seq(Tasks) /\ s.waiters[g] \o s.waiters[k] \in Seq(Tasks)
        /\ <<>> \in Seq(Tasks)
    BY <1>1, ConcatProperties, NoLine
  <2> HIDE DEF g
  <2> QED
    BY <1>1, <2>1
<1>4. /\ x \in Call /\ x.stage = "over" /\ x.holds = FALSE /\ x.kind = s.calls[k].kind /\ x.origin = s.calls[k].origin
      /\ x.by = s.calls[k].by /\ x.parent = s.calls[k].parent /\ x.above = s.calls[k].above
  BY <1>1 DEF Call, CallStages
<1>5. /\ z \in Task /\ z.kind = "resolve" /\ z.stage = "granted" /\ z.call = s.calls[k].by
      /\ z.gate = s.calls[k].parent /\ z.lock = g
  BY <1>1 DEF Task, Kinds, Stages
<1>6. Succeed(s, k) = r
  <2>1. t = [s EXCEPT !.scope = [h \in Gates |-> IF @[h] = k THEN g ELSE @[h]],
                      !.waitingChildren[g] = @ \o s.waitingChildren[k], !.waitingChildren[k] = <<>>,
                      !.waiters[g] = @ \o s.waiters[k], !.waiters[k] = <<>>,
                      !.calls[k] = [@ EXCEPT !.stage = "over", !.holds = FALSE]]
    <3> HIDE DEF g, u
    <3> QED
      BY DEF Contexts
  <2>2. q = [t EXCEPT !.tasks[u] = z]
    BY DEF Contexts
  <2> QED
    BY <2>1, <2>2 DEF Succeed, Outer
<1> HIDE DEF S, W, V, x, z
<1>7. C \in [Calls -> Call] /\ C[k] = x /\ \A c \in Calls \ {k} : C[c] = s.calls[c]
  BY <1>4 DEF Contexts
<1>8. X \in [Tasks -> Task] /\ X[u] = z /\ \A v \in Tasks \ {u} : X[v] = s.tasks[v]
  BY <1>1, <1>5 DEF Contexts
<1> HIDE DEF C, X
<1>9. /\ q \in Contexts /\ q.scope = S /\ q.waitingChildren = W /\ q.waiters = V /\ q.calls = C /\ q.tasks = X
      /\ q.broken = s.broken /\ q.breaking = s.breaking /\ q.aborted = s.aborted /\ q.frames = s.frames /\ q.timers = s.timers
  BY <1>2, <1>3, <1>7, <1>8 DEF Contexts
<1> HIDE DEF t, q
<1>10. /\ r.calls = C /\ r.scope = S /\ r.waitingChildren = W /\ r.waiters = V
       /\ r.broken = s.broken /\ r.breaking = s.breaking /\ r.aborted = s.aborted /\ r.timers = s.timers
       /\ r \in Contexts /\ r.frames = Append(s.frames, u)
       /\ \A v \in Tasks \ {u} : r.tasks[v] = X[v]
       /\ r.tasks[u].stage = "running" /\ r.tasks[u].kind = X[u].kind /\ r.tasks[u].call = X[u].call
       /\ r.tasks[u].gate = X[u].gate /\ r.tasks[u].lock = X[u].lock
  <2> DEFINE p == Stage(q, u, "running")
             F == Append(s.frames, u)
  <2>1. /\ p \in Contexts /\ p.calls = q.calls /\ SameLines(q, p) /\ SameScope(q, p) /\ SameFrames(q, p)
        /\ \A v \in Tasks \ {u} : p.tasks[v] = q.tasks[v]
        /\ p.tasks[u].stage = "running" /\ p.tasks[u].kind = q.tasks[u].kind /\ p.tasks[u].call = q.tasks[u].call
        /\ p.tasks[u].gate = q.tasks[u].gate /\ p.tasks[u].lock = q.tasks[u].lock
    <3>1. "running" \in Stages
      BY DEF Stages
    <3> QED
      BY <1>1, <1>9, <3>1, StageFields
  <2>2. F \in Seq(Tasks)
    <3>1. s.frames \in Seq(Tasks)
      BY DEF Contexts
    <3> QED
      BY <1>1, <3>1, LineFacts
  <2>3. r = [p EXCEPT !.frames = F]
    BY <1>9, <2>1 DEF Push, SameFrames
  <2>4. F = Append(s.frames, u)
    OBVIOUS
  <2> HIDE DEF p, F, r
  <2>5. /\ r \in Contexts /\ r.tasks = p.tasks /\ r.calls = p.calls /\ SameLines(p, r) /\ SameScope(p, r)
        /\ r.frames = F /\ r.timers = p.timers
    BY <2>1, <2>2, <2>3 DEF Contexts, SameLines, SameScope
  <2> QED
    BY <1>9, <2>1, <2>4, <2>5 DEF SameLines, SameScope, SameFrames
<1> HIDE DEF r, u, g
<1>11. Adopted(s, k, u, r)
  <2>1. g = Outer(s, k)
    BY DEF g
  <2>2. \A c \in Calls : /\ r.calls[c].kind = s.calls[c].kind /\ r.calls[c].origin = s.calls[c].origin
                        /\ r.calls[c].by = s.calls[c].by /\ r.calls[c].parent = s.calls[c].parent
                        /\ r.calls[c].above = s.calls[c].above
                        /\ c # k => r.calls[c].stage = s.calls[c].stage /\ r.calls[c].holds = s.calls[c].holds
    BY <1>4, <1>7, <1>10
  <2>3. \A h \in Gates :
       /\ r.waitingChildren[h] = IF h = k THEN <<>> ELSE IF h = g THEN s.waitingChildren[h] \o s.waitingChildren[k]
                                 ELSE s.waitingChildren[h]
       /\ r.waiters[h] = IF h = k THEN <<>> ELSE IF h = g THEN s.waiters[h] \o s.waiters[k] ELSE s.waiters[h]
    BY <1>3, <1>10
  <2> QED
    BY <1>1, <1>2, <1>4, <1>5, <1>7, <1>8, <1>10, <2>1, <2>2, <2>3 DEF Adopted
<1> QED
  BY <1>6, <1>11 DEF u

\* A section whose code is over is the innermost one, and the locks are on it.
LEMMA DoneFacts ==
  ASSUME NEW s, Good(s), ~s.aborted, NEW k \in Sections(s), Done(s, k)
  PROVE  /\ k \in Entered(s) /\ k \in Calls /\ Held(s) = {k} /\ OpenAt(s, k) /\ s.calls[k].stage = "open"
         /\ \A y \in Entered(s) : y # k => y <= Outer(s, k) /\ y < k
         /\ Outer(s, k) \in Gates /\ Outer(s, k) < k /\ s.scope[Outer(s, k)] = Outer(s, k)
         /\ Outer(s, k) \in Homes(s) /\ Outer(s, k) \in SectionGates(s) /\ Outer(s, k) \in s.calls[k].above
         /\ MadeBy(s, k)
         /\ \A v \in Holders(s) : /\ CallOf(s, v).origin = s.calls[k].origin /\ s.tasks[v].stage = "left"
                                  /\ s.tasks[v].call = k \/ Spent(s, v)
<1>1. /\ s \in Contexts /\ StageInv(s) /\ CallsInv(s) /\ ScopeInv(s) /\ HomesInv(s) /\ ChainInv(s)
      /\ OpenInv(s) /\ DoneInv(s) /\ TurnInv(s) /\ k \in Calls
  BY DEF Good, Sections
<1>2. s.calls[k].stage = "open" /\ Live(s, k) = {} /\ OpenAt(s, k)
  BY <1>1 DEF Done, OpenInv
<1>3. PICK w \in Tasks : s.tasks[w].stage = "left" /\ s.tasks[w].call = k
  BY <1>1 DEF DoneInv
<1>4. w \in Holders(s) /\ Busy(s, w)
  BY <1>1, <1>3 DEF StageInv, StageOf, Holders, Busy
<1>5. On(s, w) = k /\ s.calls[k].holds
  BY <1>2, <1>3, <1>4 DEF OpenAt, Holders
<1>6. k \in Held(s) /\ k \in Entered(s)
  BY <1>1, <1>4, <1>5 DEF Held, Entered
<1>7. Gates \subseteq Int /\ Calls \subseteq Gates /\ Held(s) \subseteq Gates /\ Entered(s) \subseteq Gates
  <2>1. \A v \in Holders(s) : On(s, v) \in Gates
    BY <1>1, Facts DEF Holders, On
  <2> QED
    BY <1>1, <2>1, Facts DEF Held, Entered
<1>8. Held(s) = {k} /\ \A y \in Entered(s) : y <= k
  <2>1. \A x, y \in Int : x <= y /\ y <= x => x = y
    OBVIOUS
  <2>2. ASSUME NEW h \in Held(s) PROVE h = k
    <3>1. h <= k /\ k <= h
      BY <1>1, <1>6 DEF ChainInv
    <3>2. h \in Int /\ k \in Int
      BY <1>6, <1>7
    <3> QED
      BY <2>1, <3>1, <3>2
  <2> QED
    BY <1>1, <1>6, <2>2 DEF ChainInv
<1>9. /\ Outer(s, k) \in Gates /\ Outer(s, k) < k /\ s.scope[Outer(s, k)] = Outer(s, k)
      /\ Outer(s, k) \in Homes(s) /\ Outer(s, k) \in SectionGates(s) /\ Outer(s, k) \in s.calls[k].above
  BY <1>1, OuterFacts DEF HomesInv
<1>10. ASSUME NEW y \in Entered(s), y # k PROVE y <= Outer(s, k) /\ y < k
  <2>1. y \in Int /\ k \in Int /\ y <= k
    BY <1>6, <1>7, <1>8
  <2>2. y < k
    BY <1>10, <2>1
  <2>3. y <= Outer(s, k) \/ k <= y
    BY <1>1, <1>6 DEF ChainInv
  <2> QED
    BY <2>1, <2>2, <2>3
<1>11. ASSUME NEW v \in Holders(s)
       PROVE  /\ CallOf(s, v).origin = s.calls[k].origin /\ s.tasks[v].stage = "left"
              /\ s.tasks[v].call = k \/ Spent(s, v)
  <2>1. CallOf(s, w) = s.calls[k] /\ ~Spent(s, w)
    BY <1>2, <1>3 DEF Spent, CallOf
  <2>2. CallOf(s, v).origin = s.calls[k].origin /\ (s.tasks[v].call = k \/ Spent(s, v))
    BY <1>1, <1>3, <1>4, <2>1 DEF TurnInv
  <2>3. s.tasks[v].call = k => s.tasks[v].stage = "left"
    BY <1>1, <1>2 DEF Live, StageInv, StageOf, Holders
  <2> QED
    BY <2>2, <2>3 DEF Spent
<1>12. MadeBy(s, k)
  BY <1>1 DEF CallsInv
<1> QED
  BY <1>1, <1>2, <1>6, <1>8, <1>9, <1>10, <1>11, <1>12

\* Two lines one after the other.
LEMMA LinesJoin ==
  ASSUME NEW a \in Seq(Tasks), NEW b \in Seq(Tasks), Single(a), Single(b), ToSet(a) \cap ToSet(b) = {}
  PROVE  Single(a \o b) /\ ToSet(a \o b) = ToSet(a) \cup ToSet(b)
<1> DEFINE c == a \o b
<1>1. /\ Len(a) \in Nat /\ Len(b) \in Nat /\ Len(c) = Len(a) + Len(b)
      /\ DOMAIN a = 1..Len(a) /\ DOMAIN b = 1..Len(b) /\ DOMAIN c = 1..(Len(a) + Len(b))
      /\ \A i \in 1..(Len(a) + Len(b)) : c[i] = IF i <= Len(a) THEN a[i] ELSE b[i - Len(a)]
  BY ConcatProperties, LenProperties
<1> HIDE DEF c
<1>2. \A i \in DOMAIN c : \/ i \in DOMAIN a /\ c[i] = a[i] /\ c[i] \in ToSet(a)
                          \/ i - Len(a) \in DOMAIN b /\ c[i] = b[i - Len(a)] /\ c[i] \in ToSet(b)
  BY <1>1 DEF ToSet
<1>3. \A i \in DOMAIN a : i \in DOMAIN c /\ c[i] = a[i]
  BY <1>1
<1>4. \A i \in DOMAIN b : i + Len(a) \in DOMAIN c /\ c[i + Len(a)] = b[i]
  BY <1>1
<1>5. ToSet(c) = ToSet(a) \cup ToSet(b)
  BY <1>2, <1>3, <1>4 DEF ToSet
<1>6. Single(c)
  <2> SUFFICES ASSUME NEW i \in DOMAIN c, NEW j \in DOMAIN c, c[i] = c[j] PROVE i = j
    BY DEF Single
  <2>1. i \in Int /\ j \in Int /\ Len(a) \in Int
    BY <1>1
  <2>2. CASE i \in DOMAIN a /\ c[i] = a[i] /\ c[i] \in ToSet(a)
    <3>1. j \in DOMAIN a /\ c[j] = a[j]
      BY <1>2, <2>2
    <3> QED
      BY <2>2, <3>1 DEF Single
  <2>3. CASE i - Len(a) \in DOMAIN b /\ c[i] = b[i - Len(a)] /\ c[i] \in ToSet(b)
    <3>1. j - Len(a) \in DOMAIN b /\ c[j] = b[j - Len(a)]
      BY <1>2, <2>3
    <3>2. i - Len(a) = j - Len(a)
      BY <2>3, <3>1 DEF Single
    <3> QED
      BY <2>1, <3>2
  <2> QED
    BY <1>2, <2>2, <2>3
<1> QED
  BY <1>5, <1>6 DEF c

\* Gates, sections and locks after it.
LEMMA AdoptedFacts ==
  ASSUME NEW s, Good(s), ~s.aborted, NEW k \in Sections(s), Done(s, k), NEW u, NEW r, Adopted(s, k, u, r)
  PROVE  /\ Sections(r) = Sections(s) /\ SectionGates(r) = SectionGates(s) /\ Entered(r) = Entered(s) \ {k}
         /\ \A y \in Calls : Outer(r, y) = IF Outer(s, y) = k THEN Outer(s, k) ELSE Outer(s, y)
         /\ \A v \in Tasks \ {u} :
              /\ HasLock(r, v) <=> HasLock(s, v)
              /\ Busy(r, v) <=> Busy(s, v)
              /\ Home(r, v) = IF Home(s, v) = k THEN Outer(s, k) ELSE Home(s, v)
              /\ HasLock(s, v) => On(r, v) = IF On(s, v) = k THEN Outer(s, k) ELSE On(s, v)
         /\ Home(r, u) = Outer(s, k) /\ On(r, u) = Outer(s, k) /\ HasLock(r, u) /\ Busy(r, u)
         /\ ~HasLock(s, u) /\ ~Busy(s, u)
         /\ Held(r) = {Outer(s, k)} /\ Holders(r) = Holders(s) \cup {u}
         /\ \A h \in Homes(s) : (IF h = k THEN Outer(s, k) ELSE h) \in Homes(r)
<1> DEFINE g == Outer(s, k)
<1>1. /\ s \in Contexts /\ StageInv(s) /\ k \in Calls /\ k \in Entered(s) /\ Held(s) = {k}
      /\ g \in Gates /\ g < k /\ s.scope[g] = g /\ g \in Homes(s)
  BY DoneFacts DEF Good
<1>2. g # k /\ NoLock \notin Gates /\ Calls \subseteq Gates
  BY <1>1, Facts
<1> HIDE DEF g
<1>3. /\ \A h \in Gates : r.scope[h] = IF s.scope[h] = k THEN g ELSE s.scope[h]
      /\ u \in Tasks /\ s.tasks[u].stage = "free" /\ \A v \in Tasks \ {u} : r.tasks[v] = s.tasks[v]
      /\ r.tasks[u].stage = "running" /\ r.tasks[u].gate = s.calls[k].parent /\ r.tasks[u].lock = g
      /\ \A c \in Calls : /\ r.calls[c].kind = s.calls[c].kind /\ r.calls[c].parent = s.calls[c].parent
                          /\ c # k => r.calls[c].holds = s.calls[c].holds
      /\ r.calls[k].holds = FALSE /\ r.broken = s.broken
  BY DEF Adopted, g
<1>4. Sections(r) = Sections(s) /\ SectionGates(r) = SectionGates(s)
  BY <1>3 DEF Sections, SectionGates
<1>5. Entered(r) = Entered(s) \ {k}
  BY <1>3 DEF Entered
<1>6. \A y \in Calls : s.calls[y].parent \in Gates
  BY <1>1, Facts
<1>7. \A y \in Calls : Outer(r, y) = IF Outer(s, y) = k THEN g ELSE Outer(s, y)
  BY <1>3, <1>6 DEF Outer
<1>8. ASSUME NEW v \in Tasks \ {u}
      PROVE  /\ HasLock(r, v) <=> HasLock(s, v)
             /\ Busy(r, v) <=> Busy(s, v)
             /\ Home(r, v) = IF Home(s, v) = k THEN g ELSE Home(s, v)
             /\ HasLock(s, v) => On(r, v) = IF On(s, v) = k THEN g ELSE On(s, v)
  <2>1. r.tasks[v] = s.tasks[v] /\ s.tasks[v].gate \in Gates /\ (HasLock(s, v) => s.tasks[v].lock \in Gates)
    BY <1>1, <1>3, Facts
  <2> QED
    BY <1>3, <2>1 DEF HasLock, Busy, Home, On
<1>9. Home(r, u) = g /\ On(r, u) = g /\ HasLock(r, u) /\ Busy(r, u)
  <2>1. s.scope[s.calls[k].parent] = g /\ s.calls[k].parent \in Gates
    BY <1>1, <1>6 DEF Outer, g
  <2> QED
    BY <1>1, <1>2, <1>3, <2>1 DEF Home, On, HasLock, Busy
<1>10. ~HasLock(s, u) /\ ~Busy(s, u)
  BY <1>1, <1>3 DEF StageInv, StageOf, Busy
<1>11. Holders(r) = Holders(s) \cup {u}
  BY <1>3, <1>8, <1>9, <1>10 DEF Holders
<1>12. Held(r) = {g}
  <2>1. \A v \in Holders(s) : On(r, v) = g
    <3>1. \A v \in Holders(s) : On(s, v) = k /\ v \in Tasks \ {u} /\ HasLock(s, v)
      BY <1>1, <1>10 DEF Held, Holders
    <3> QED
      BY <1>8, <3>1
  <2> QED
    BY <1>9, <1>11, <2>1 DEF Held
<1>13. \A h \in Homes(s) : (IF h = k THEN g ELSE h) \in Homes(r)
  BY <1>1, <1>2, <1>3, <1>5 DEF Homes
<1> QED
  BY <1>4, <1>5, <1>7, <1>8, <1>9, <1>10, <1>11, <1>12, <1>13 DEF g

\* The parent adopts the gate of a section that succeeded: stages, gates, chain.
LEMMA AdoptedGates ==
  ASSUME NEW s, Good(s), ~s.aborted, NEW k \in Sections(s), Done(s, k), NEW u, NEW r, Adopted(s, k, u, r)
  PROVE  StageInv(r) /\ CallsInv(r) /\ ScopeInv(r) /\ HomesInv(r) /\ ChainInv(r)
<1> DEFINE g == Outer(s, k)
<1>1. /\ s \in Contexts /\ StageInv(s) /\ CallsInv(s) /\ ScopeInv(s) /\ HomesInv(s) /\ ChainInv(s)
      /\ k \in Calls /\ k \in Entered(s) /\ Held(s) = {k} /\ MadeBy(s, k)
      /\ g \in Gates /\ g < k /\ s.scope[g] = g /\ g \in Homes(s) /\ g \in SectionGates(s) /\ g \in s.calls[k].above
      /\ s.scope[k] = k /\ s.calls[k].stage = "open" /\ Sections(s) \subseteq Calls
      /\ \A y \in Entered(s) : y # k => y <= g /\ y < k
  BY DoneFacts DEF Good, OpenAt, Sections
<1>2. g # k /\ NoLock \notin Gates /\ Calls \subseteq Gates /\ Gates \subseteq Int /\ k # Root /\ Root \in Gates /\ g # NoLock
  BY <1>1, Facts
<1>3. /\ Sections(r) = Sections(s) /\ SectionGates(r) = SectionGates(s) /\ Entered(r) = Entered(s) \ {k}
      /\ \A y \in Calls : Outer(r, y) = IF Outer(s, y) = k THEN g ELSE Outer(s, y)
      /\ \A v \in Tasks \ {u} :
              /\ HasLock(r, v) <=> HasLock(s, v)
              /\ Busy(r, v) <=> Busy(s, v)
              /\ Home(r, v) = IF Home(s, v) = k THEN g ELSE Home(s, v)
              /\ HasLock(s, v) => On(r, v) = IF On(s, v) = k THEN g ELSE On(s, v)
      /\ Home(r, u) = g /\ On(r, u) = g /\ HasLock(r, u) /\ Busy(r, u) /\ ~HasLock(s, u) /\ ~Busy(s, u)
      /\ Held(r) = {g}
      /\ \A h \in Homes(s) : (IF h = k THEN g ELSE h) \in Homes(r)
  BY AdoptedFacts
<1> HIDE DEF g
<1>4. /\ r \in Contexts /\ r.timers = s.timers /\ r.broken = s.broken /\ r.breaking = s.breaking
      /\ \A h \in Gates : r.scope[h] = IF s.scope[h] = k THEN g ELSE s.scope[h]
      /\ r.frames = Append(s.frames, u)
      /\ u \in Tasks /\ s.tasks[u].stage = "free" /\ \A v \in Tasks \ {u} : r.tasks[v] = s.tasks[v]
      /\ r.tasks[u].kind = "resolve" /\ r.tasks[u].stage = "running" /\ r.tasks[u].call = s.calls[k].by
      /\ r.tasks[u].gate = s.calls[k].parent /\ r.tasks[u].lock = g
      /\ \A c \in Calls : /\ r.calls[c].kind = s.calls[c].kind /\ r.calls[c].origin = s.calls[c].origin
                          /\ r.calls[c].by = s.calls[c].by /\ r.calls[c].parent = s.calls[c].parent
                          /\ r.calls[c].above = s.calls[c].above
                          /\ c # k => r.calls[c].stage = s.calls[c].stage
      /\ r.calls[k].stage = "over"
  BY DEF Adopted, g
<1>5. StageInv(r)
  <2>1. ToSet(r.frames) = ToSet(s.frames) \cup {u}
    <3>1. s.frames \in Seq(Tasks)
      BY <1>1 DEF Contexts
    <3> QED
      BY <1>4, <3>1, LineFacts
  <2>2. StageOf(r, u)
    BY <1>3, <1>4, <2>1 DEF StageOf
  <2>3. ASSUME NEW v \in Tasks \ {u} PROVE StageOf(r, v)
    <3>1. StageOf(s, v)
      BY <1>1 DEF StageInv
    <3> QED
      BY <1>3, <1>4, <2>1, <2>3, <3>1 DEF StageOf
  <2>4. ASSUME NEW v \in s.timers PROVE TimerOf(r, v)
    <3>1. TimerOf(s, v) /\ v \in Tasks /\ v # u /\ s.tasks[v].call \in Calls
      BY <1>1, <1>4, Facts DEF StageInv, StageOf, TimerOf, Contexts
    <3> QED
      BY <1>4, <3>1 DEF TimerOf, CallOf
  <2> QED
    BY <1>1, <1>4, <2>2, <2>3, <2>4 DEF StageInv
<1>6. \A c \in Calls : r.calls[c].stage = "free" <=> s.calls[c].stage = "free"
  BY <1>1, <1>4
<1>7. CallsInv(r)
  <2>1. MadeInOrder(r)
    BY <1>1, <1>4, <1>6 DEF CallsInv, MadeInOrder
  <2>2. GatesOf(r, u)
    <3>1. s.calls[k].by \in Calls /\ s.calls[s.calls[k].by].stage # "free" /\ s.calls[k].parent \in SectionGates(s)
      BY <1>1 DEF MadeBy, ScopeInv
    <3> QED
      BY <1>1, <1>3, <1>4, <1>6, <3>1 DEF GatesOf, CallOf
  <2>3. ASSUME NEW v \in Tasks \ {u} PROVE GatesOf(r, v)
    <3>1. GatesOf(s, v) /\ s.tasks[v].call \in Calls /\ r.tasks[v] = s.tasks[v]
      BY <1>1, <1>4, Facts DEF CallsInv
    <3>2. Busy(s, v) => s.calls[s.tasks[v].call].stage # "free" /\ s.tasks[v].gate \in SectionGates(s)
      BY <3>1 DEF GatesOf, CallOf
    <3>3. HasLock(s, v) => s.tasks[v].lock \in SectionGates(s) /\ On(s, v) = Home(s, v)
      BY <3>1 DEF GatesOf
    <3>4. HasLock(r, v) => On(r, v) = Home(r, v)
      BY <1>3, <3>3
    <3> QED
      BY <1>3, <1>6, <3>1, <3>2, <3>3, <3>4 DEF GatesOf, CallOf
  <2>4. Entered(r) \subseteq Sections(r) /\ r.broken \subseteq SectionGates(r)
    BY <1>1, <1>3, <1>4 DEF CallsInv
  <2>5. ASSUME NEW y \in Sections(r) PROVE MadeBy(r, y)
    <3>1. y \in Calls /\ MadeBy(s, y)
      BY <1>1, <1>3 DEF CallsInv
    <3> QED
      BY <1>4, <1>6, <3>1 DEF MadeBy
  <2> QED
    BY <2>1, <2>2, <2>3, <2>4, <2>5 DEF CallsInv
<1>8. ScopeInv(r)
  <2>1. r.scope[Root] = Root
    BY <1>1, <1>2, <1>4 DEF ScopeInv
  <2>2. ASSUME NEW c \in Calls
        PROVE  r.scope[c] = c \/ (c \in Sections(r) /\ r.scope[c] \in r.calls[c].above)
    <3>1. s.scope[c] = c \/ (c \in Sections(s) /\ s.scope[c] \in s.calls[c].above)
      BY <1>1 DEF ScopeInv
    <3>2. CASE s.scope[c] # k
      BY <1>2, <1>3, <1>4, <3>1, <3>2
    <3>3. CASE s.scope[c] = k
      <4>1. r.scope[c] = g
        BY <1>2, <1>4, <3>3
      <4>2. c \in Sections(s) /\ g \in s.calls[c].above
        <5>1. CASE c = k
          BY <1>1, <5>1
        <5>2. CASE c # k
          <6>1. c \in Sections(s) /\ k \in s.calls[c].above
            BY <3>1, <3>3, <5>2
          <6>2. s.calls[k].above \subseteq s.calls[c].above
            BY <1>1, <1>2, <6>1 DEF ScopeInv
          <6> QED
            BY <1>1, <6>1, <6>2
        <5> QED
          BY <5>1, <5>2
      <4> QED
        BY <1>3, <1>4, <4>1, <4>2
    <3> QED
      BY <3>2, <3>3
  <2>3. ASSUME NEW h \in Gates PROVE r.scope[r.scope[h]] = r.scope[h]
    <3>1. s.scope[h] \in Gates /\ s.scope[s.scope[h]] = s.scope[h]
      BY <1>1, Facts DEF ScopeInv
    <3>2. CASE s.scope[h] = k
      BY <1>1, <1>2, <1>4, <3>2
    <3>3. CASE s.scope[h] # k
      BY <1>4, <3>1, <3>3
    <3> QED
      BY <3>2, <3>3
  <2>4. ASSUME NEW y \in Sections(r)
        PROVE  /\ r.calls[y].parent \in r.calls[y].above
               /\ r.calls[y].above \subseteq SectionGates(r)
               /\ \A x \in r.calls[y].above : x < y /\ (x # Root => r.calls[x].above \subseteq r.calls[y].above)
    <3>1. y \in Sections(s) /\ y \in Calls
      BY <1>1, <1>3
    <3>2. /\ s.calls[y].parent \in s.calls[y].above
          /\ s.calls[y].above \subseteq SectionGates(s)
          /\ \A x \in s.calls[y].above : x < y /\ (x # Root => s.calls[x].above \subseteq s.calls[y].above)
      BY <1>1, <3>1 DEF ScopeInv
    <3>3. \A x \in SectionGates(s) : x # Root => r.calls[x].above = s.calls[x].above
      BY <1>1, <1>4 DEF SectionGates
    <3> QED
      BY <1>3, <1>4, <3>1, <3>2, <3>3
  <2> QED
    BY <2>1, <2>2, <2>3, <2>4 DEF ScopeInv
<1>9. HomesInv(r)
  <2>1. ASSUME NEW v \in Tasks, Busy(r, v), r.tasks[v].kind # "body" \/ HasLock(r, v)
        PROVE  Home(r, v) \in Homes(r)
    <3>1. CASE v = u
      BY <1>1, <1>2, <1>3, <3>1
    <3>2. CASE v # u
      <4>1. Home(s, v) \in Homes(s)
        BY <1>1, <1>3, <1>4, <2>1, <3>2 DEF HomesInv
      <4> QED
        BY <1>3, <3>2, <4>1
    <3> QED
      BY <3>1, <3>2
  <2>2. ASSUME NEW y \in Sections(r) PROVE Outer(r, y) \in Homes(r)
    <3>1. Outer(s, y) \in Homes(s) /\ y \in Calls
      BY <1>1, <1>3, <2>2 DEF HomesInv
    <3> QED
      BY <1>3, <3>1
  <2> QED
    BY <2>1, <2>2 DEF HomesInv
<1>10. ChainInv(r)
  <2>1. Entered(s) \subseteq Calls /\ Entered(s) \subseteq Sections(s)
    BY <1>1 DEF CallsInv, Entered
  <2>2. \A y \in Entered(r) : y \in Entered(s) /\ y # k /\ y <= g /\ y < k /\ y \in Calls
    BY <1>1, <1>3, <2>1
  <2>3. \A y \in Entered(r) : Outer(r, y) = Outer(s, y) /\ Outer(s, y) < y /\ Outer(s, y) \in Gates
    <3>1. ASSUME NEW y \in Entered(r)
          PROVE  Outer(r, y) = Outer(s, y) /\ Outer(s, y) < y /\ Outer(s, y) \in Gates
      <4>1. Outer(s, y) < y /\ Outer(s, y) \in SectionGates(s) /\ SectionGates(s) \subseteq Gates
        BY <1>1, <2>1, <2>2, OuterFacts
      <4>2. y < k /\ y \in Int /\ k \in Int /\ Outer(s, y) \in Int
        BY <1>1, <1>2, <2>2, <4>1
      <4>3. Outer(s, y) # k
        BY <4>1, <4>2
      <4> QED
        BY <1>3, <2>2, <4>1, <4>3
    <3> QED
      BY <3>1
  <2>4. g \in Int /\ k \in Int /\ Entered(r) \subseteq Int
    BY <1>1, <1>2, <2>2
  <2>5. \A h \in Held(r), y \in Held(r) \cup Entered(r) : y <= h
    BY <1>3, <2>2, <2>4
  <2>6. \A z \in Entered(r), y \in Held(r) \cup Entered(r) : y <= Outer(r, z) \/ z <= y
    <3>1. \A z \in Entered(r), y \in Entered(r) : y <= Outer(s, z) \/ z <= y
      BY <1>1, <2>2 DEF ChainInv
    <3> QED
      BY <1>3, <2>2, <2>3, <3>1
  <2>7. ASSUME NEW x \in ({Root} \cup Entered(r)) \ r.broken, NEW y \in Held(r) \cup Entered(r), x < y
        PROVE  \E z \in Entered(r) : Outer(r, z) = x
    <3>1. x \in ({Root} \cup Entered(s)) \ s.broken /\ x \in Int /\ y \in Int
      BY <1>2, <1>3, <1>4, <2>2, <2>4, <2>7
    <3>2. y <= g /\ x < g
      <4>1. y <= g
        BY <1>3, <2>2, <2>4
      <4> QED
        BY <2>4, <2>7, <3>1, <4>1
    <3>3. x < k
      BY <1>1, <2>4, <3>1, <3>2
    <3>4. PICK z \in Entered(s) : Outer(s, z) = x
      BY <1>1, <3>1, <3>3 DEF ChainInv
    <3>5. z # k
      BY <2>4, <3>1, <3>2, <3>4 DEF g
    <3> QED
      BY <1>3, <2>3, <3>4, <3>5
  <2> QED
    BY <2>5, <2>6, <2>7 DEF ChainInv
<1> QED
  BY <1>5, <1>7, <1>8, <1>9, <1>10

\* The parent adopts the gate of a section that succeeded: lines and turns.
LEMMA AdoptedTasks ==
  ASSUME NEW s, Good(s), ~s.aborted, NEW k \in Sections(s), Done(s, k), NEW u, NEW r, Adopted(s, k, u, r)
  PROVE  QueueInv(r) /\ OpenInv(r) /\ DoneInv(r) /\ TurnInv(r) /\ SameTurn(s, r)
<1> DEFINE g == Outer(s, k)
<1>1. /\ s \in Contexts /\ StageInv(s) /\ CallsInv(s) /\ ScopeInv(s) /\ QueueInv(s) /\ OpenInv(s) /\ DoneInv(s)
      /\ k \in Calls /\ k \in Entered(s) /\ MadeBy(s, k) /\ OpenAt(s, k) /\ Live(s, k) = {}
      /\ g \in Gates /\ g < k /\ s.calls[k].stage = "open" /\ Sections(s) \subseteq Calls
      /\ \A v \in Holders(s) : /\ CallOf(s, v).origin = s.calls[k].origin /\ s.tasks[v].stage = "left"
                               /\ s.tasks[v].call = k \/ Spent(s, v)
  BY DoneFacts DEF Good, Sections, Done
<1>2. g # k /\ Calls \subseteq Gates /\ k \in Gates
  BY <1>1, Facts
<1>3. /\ Sections(r) = Sections(s) /\ Entered(r) = Entered(s) \ {k}
      /\ \A y \in Calls : Outer(r, y) = IF Outer(s, y) = k THEN g ELSE Outer(s, y)
      /\ \A v \in Tasks \ {u} :
              /\ HasLock(r, v) <=> HasLock(s, v)
              /\ Busy(r, v) <=> Busy(s, v)
              /\ Home(r, v) = IF Home(s, v) = k THEN g ELSE Home(s, v)
              /\ HasLock(s, v) => On(r, v) = IF On(s, v) = k THEN g ELSE On(s, v)
      /\ Home(r, u) = g /\ On(r, u) = g /\ HasLock(r, u) /\ Busy(r, u) /\ ~HasLock(s, u) /\ ~Busy(s, u)
      /\ Holders(r) = Holders(s) \cup {u}
  BY AdoptedFacts
<1>4. /\ r \in Contexts
      /\ \A h \in Gates : r.scope[h] = IF s.scope[h] = k THEN g ELSE s.scope[h]
      /\ r.frames = Append(s.frames, u) /\ r.aborted = s.aborted
      /\ u \in Tasks /\ s.tasks[u].stage = "free" /\ \A v \in Tasks \ {u} : r.tasks[v] = s.tasks[v]
      /\ r.tasks[u].kind = "resolve" /\ r.tasks[u].stage = "running" /\ r.tasks[u].call = s.calls[k].by
      /\ \A c \in Calls : /\ r.calls[c].kind = s.calls[c].kind /\ r.calls[c].origin = s.calls[c].origin
                          /\ r.calls[c].by = s.calls[c].by
                          /\ c # k => r.calls[c].stage = s.calls[c].stage /\ r.calls[c].holds = s.calls[c].holds
      /\ r.calls[k].stage = "over"
      /\ \A h \in Gates :
           /\ r.waitingChildren[h] = IF h = k THEN <<>> ELSE IF h = g THEN s.waitingChildren[h] \o s.waitingChildren[k]
                                     ELSE s.waitingChildren[h]
           /\ r.waiters[h] = IF h = k THEN <<>> ELSE IF h = g THEN s.waiters[h] \o s.waiters[k] ELSE s.waiters[h]
  BY DEF Adopted, g
<1> HIDE DEF g
<1>5. LinesInv(r)
  <2>1. ASSUME NEW h \in Gates
        PROVE  /\ s.waitingChildren[h] \in Seq(Tasks) /\ s.waiters[h] \in Seq(Tasks)
               /\ Single(s.waitingChildren[h]) /\ Single(s.waiters[h])
               /\ \A t \in ToSet(s.waitingChildren[h]) : t \in Tasks /\ InChildren(s, h, t)
               /\ \A t \in ToSet(s.waiters[h]) : t \in Tasks /\ InWaiters(s, h, t)
    BY <1>1, InLine DEF QueueInv, LinesInv, Contexts
  <2>2. ASSUME NEW h \in Gates, NEW t \in Tasks, InChildren(s, h, t)
        PROVE  InChildren(r, IF h = k THEN g ELSE h, t)
    <3>1. t # u /\ r.tasks[t] = s.tasks[t] /\ s.tasks[t].call \in Calls
      BY <1>1, <1>4, <2>2, Facts DEF InChildren
    <3> QED
      BY <1>3, <2>2, <3>1 DEF InChildren
  <2>3. ASSUME NEW h \in Gates, NEW t \in Tasks, InWaiters(s, h, t)
        PROVE  InWaiters(r, IF h = k THEN g ELSE h, t)
    <3>1. t # u /\ r.tasks[t] = s.tasks[t]
      BY <1>1, <1>4, <2>3 DEF InWaiters
    <3> QED
      BY <1>3, <2>3, <3>1 DEF InWaiters
  <2>4. /\ \A t \in ToSet(s.waitingChildren[g]) : t \notin ToSet(s.waitingChildren[k])
        /\ \A t \in ToSet(s.waiters[g]) : t \notin ToSet(s.waiters[k])
    <3>1. ASSUME NEW t, t \in ToSet(s.waitingChildren[g]), t \in ToSet(s.waitingChildren[k])
          PROVE  FALSE
      <4>1. InChildren(s, g, t) /\ InChildren(s, k, t)
        BY <1>1, <1>2, <2>1, <3>1
      <4> QED
        BY <1>2, <4>1 DEF InChildren
    <3>2. ASSUME NEW t, t \in ToSet(s.waiters[g]), t \in ToSet(s.waiters[k]) PROVE FALSE
      <4>1. InWaiters(s, g, t) /\ InWaiters(s, k, t)
        BY <1>1, <1>2, <2>1, <3>2
      <4> QED
        BY <1>2, <4>1 DEF InWaiters
    <3> QED
      BY <3>1, <3>2
  <2>5. /\ Single(s.waitingChildren[g] \o s.waitingChildren[k]) /\ Single(s.waiters[g] \o s.waiters[k])
        /\ ToSet(s.waitingChildren[g] \o s.waitingChildren[k]) = ToSet(s.waitingChildren[g]) \cup ToSet(s.waitingChildren[k])
        /\ ToSet(s.waiters[g] \o s.waiters[k]) = ToSet(s.waiters[g]) \cup ToSet(s.waiters[k])
    <3>1. ToSet(s.waitingChildren[g]) \cap ToSet(s.waitingChildren[k]) = {} /\ ToSet(s.waiters[g]) \cap ToSet(s.waiters[k]) = {}
      BY <2>4
    <3>2. /\ s.waitingChildren[g] \in Seq(Tasks) /\ s.waitingChildren[k] \in Seq(Tasks)
          /\ s.waiters[g] \in Seq(Tasks) /\ s.waiters[k] \in Seq(Tasks)
          /\ Single(s.waitingChildren[g]) /\ Single(s.waitingChildren[k]) /\ Single(s.waiters[g]) /\ Single(s.waiters[k])
      BY <1>1, <1>2, <2>1
    <3> QED
      BY <3>1, <3>2, LinesJoin
  <2>6. ASSUME NEW h \in Gates
        PROVE  /\ Single(r.waitingChildren[h]) /\ Single(r.waiters[h])
               /\ \A t \in ToSet(r.waitingChildren[h]) : InChildren(r, h, t)
               /\ \A t \in ToSet(r.waiters[h]) : InWaiters(r, h, t)
    <3>1. CASE h = k
      <4>1. r.waitingChildren[h] = <<>> /\ r.waiters[h] = <<>>
        BY <1>4, <3>1
      <4> QED
        BY <4>1, NoLine
    <3>2. CASE h = g
      <4>1. /\ r.waitingChildren[h] = s.waitingChildren[g] \o s.waitingChildren[k]
            /\ r.waiters[h] = s.waiters[g] \o s.waiters[k]
        BY <1>2, <1>4, <3>2
      <4>2. \A t \in ToSet(s.waitingChildren[g]) \cup ToSet(s.waitingChildren[k]) : InChildren(r, g, t)
        BY <1>1, <1>2, <2>1, <2>2
      <4>3. \A t \in ToSet(s.waiters[g]) \cup ToSet(s.waiters[k]) : InWaiters(r, g, t)
        BY <1>1, <1>2, <2>1, <2>3
      <4> QED
        BY <2>5, <3>2, <4>1, <4>2, <4>3
    <3>3. CASE h # k /\ h # g
      BY <1>4, <2>1, <2>2, <2>3, <3>3
    <3> QED
      BY <3>1, <3>2, <3>3
  <2> QED
    BY <2>6 DEF LinesInv
<1>6. QueueInv(r)
  <2>1. ASSUME NEW v \in Tasks, r.tasks[v].kind = "body" PROVE BodyOf(r, v)
    <3>1. v # u /\ r.tasks[v] = s.tasks[v] /\ BodyOf(s, v) /\ s.tasks[v].call \in Calls
      BY <1>1, <1>4, <2>1, Facts DEF QueueInv
    <3>2. s.tasks[v].call \in Sections(s) /\ s.tasks[v].gate = s.tasks[v].call
      BY <2>1, <3>1 DEF BodyOf
    <3>3. ASSUME ~HasLock(r, v)
          PROVE  r.scope[r.tasks[v].call] = r.tasks[v].call /\ ~CallOf(r, v).holds
      <4>1. s.scope[s.tasks[v].call] = s.tasks[v].call /\ ~s.calls[s.tasks[v].call].holds
        BY <1>3, <2>1, <3>1, <3>3 DEF BodyOf, CallOf
      <4>2. s.tasks[v].call # k
        BY <1>1, <4>1 DEF Entered
      <4> QED
        BY <1>2, <1>4, <3>1, <4>1, <4>2 DEF CallOf
    <3>4. ASSUME NEW w \in Tasks, r.tasks[w].kind = "body", r.tasks[w].call = r.tasks[v].call
          PROVE  w = v
      <4>1. w # u /\ r.tasks[w] = s.tasks[w]
        BY <1>4, <3>4
      <4> QED
        BY <2>1, <3>1, <3>4, <4>1 DEF BodyOf
    <3> QED
      BY <1>3, <3>1, <3>2, <3>3, <3>4 DEF BodyOf
  <2> QED
    BY <1>5, <2>1 DEF QueueInv, BodyOf
<1>7. OpenInv(r)
  <2> SUFFICES ASSUME NEW y \in Sections(r), r.calls[y].stage = "open" PROVE OpenAt(r, y)
    BY DEF OpenInv
  <2>1. y \in Sections(s) /\ y \in Calls /\ y # k /\ s.calls[y].stage = "open" /\ r.calls[y].holds = s.calls[y].holds
    <3>1. y \in Sections(s) /\ y \in Calls /\ y # k
      BY <1>1, <1>3, <1>4
    <3> QED
      BY <1>4, <3>1
  <2>2. OpenAt(s, y)
    BY <1>1, <2>1 DEF OpenInv
  <2>3. r.scope[y] = y
    BY <1>2, <1>4, <2>1, <2>2 DEF OpenAt
  <2>4. ASSUME NEW v \in Tasks, Busy(r, v), r.tasks[v].call = y
        PROVE  Home(r, v) = y /\ (HasLock(r, v) => On(r, v) = y /\ r.calls[y].holds)
    <3>1. CASE v = u
      <4>1. s.calls[k].by = y
        BY <1>4, <2>4, <3>1
      <4>2. g = y /\ s.calls[y].holds
        BY <2>2, <4>1 DEF OpenAt, g
      <4> QED
        BY <1>3, <2>1, <3>1, <4>2
    <3>2. CASE v # u
      <4>1. Busy(s, v) /\ s.tasks[v].call = y
        BY <1>3, <1>4, <2>4, <3>2
      <4>2. Home(s, v) = y /\ (HasLock(s, v) => On(s, v) = y /\ s.calls[y].holds)
        BY <2>2, <4>1 DEF OpenAt
      <4> QED
        BY <1>3, <2>1, <3>2, <4>2
    <3> QED
      BY <3>1, <3>2
  <2>5. ASSUME NEW z \in Sections(r), r.calls[z].by = y PROVE Outer(r, z) = y /\ r.calls[y].holds
    <3>1. z \in Sections(s) /\ z \in Calls /\ s.calls[z].by = y
      BY <1>1, <1>3, <1>4, <2>5
    <3>2. Outer(s, z) = y /\ s.calls[y].holds
      BY <2>2, <3>1 DEF OpenAt
    <3> QED
      BY <1>3, <2>1, <3>1, <3>2
  <2> QED
    BY <2>3, <2>4, <2>5 DEF OpenAt
<1>8. DoneInv(r)
  <2> SUFFICES ASSUME NEW y \in Sections(r), Done(r, y)
               PROVE  \E t \in Tasks : r.tasks[t].stage = "left" /\ r.tasks[t].call = y
    BY DEF DoneInv
  <2>1. y \in Sections(s) /\ y \in Calls /\ y # k /\ s.calls[y].stage = "open" /\ r.calls[y].kind = s.calls[y].kind
    <3>1. y \in Sections(s) /\ y \in Calls /\ y # k
      BY <1>1, <1>3, <1>4 DEF Done
    <3> QED
      BY <1>4, <3>1 DEF Done
  <2>2. y # s.calls[k].by
    BY <1>4 DEF Done, Live
  <2>3. Live(s, y) = {}
    BY <1>4 DEF Done, Live
  <2>4. Inner(s, y) \subseteq Inner(r, y)
    BY <1>4, <2>2 DEF Inner
  <2>5. Done(s, y)
    BY <2>1, <2>3, <2>4 DEF Done
  <2>6. PICK t \in Tasks : s.tasks[t].stage = "left" /\ s.tasks[t].call = y
    BY <1>1, <2>1, <2>5 DEF DoneInv
  <2> QED
    BY <1>4, <2>6
<1>9. ASSUME NEW v \in Tasks, s.tasks[v].stage # "free"
      PROVE  CallOf(r, v).origin = CallOf(s, v).origin
  <2>1. v # u /\ r.tasks[v] = s.tasks[v] /\ s.tasks[v].call \in Calls
    BY <1>1, <1>4, <1>9, Facts
  <2> QED
    BY <1>4, <2>1 DEF CallOf
<1>10. TurnInv(r)
  <2>1. ASSUME NEW v \in Holders(s)
        PROVE  CallOf(r, v).origin = s.calls[k].origin /\ r.tasks[v].stage = "left" /\ Spent(r, v)
    <3>1. v \in Tasks /\ v # u /\ r.tasks[v] = s.tasks[v] /\ s.tasks[v].call \in Calls /\ s.tasks[v].stage = "left"
      BY <1>1, <1>3, <1>4, Facts DEF Holders
    <3>2. CallOf(r, v).origin = s.calls[k].origin
      BY <1>1, <1>9, <3>1
    <3>3. s.calls[k].kind = "section"
      BY DEF Sections
    <3>4. Spent(r, v)
      BY <1>1, <1>4, <3>1, <3>3 DEF Spent, CallOf
    <3> QED
      BY <3>1, <3>2, <3>4
  <2>2. CallOf(r, u).origin = s.calls[k].origin
    BY <1>1, <1>4 DEF MadeBy, CallOf
  <2> QED
    BY <1>3, <1>4, <2>1, <2>2 DEF TurnInv
<1>11. SameTurn(s, r)
  <2>1. ToSet(r.frames) = ToSet(s.frames) \cup {u}
    <3>1. s.frames \in Seq(Tasks)
      BY <1>1 DEF Contexts
    <3> QED
      BY <1>4, <3>1, LineFacts
  <2>2. \A v \in ToSet(s.frames) : v \in Tasks /\ s.tasks[v].stage # "free"
    BY <1>1 DEF Contexts, ToSet, StageInv, StageOf
  <2> QED
    BY <1>9, <2>1, <2>2 DEF SameTurn
<1> QED
  BY <1>6, <1>7, <1>8, <1>10, <1>11

\* A section returns.
LEMMA SucceedKeeps ==
  ASSUME NEW s, Good(s), ~s.aborted, NEW k \in Sections(s), Done(s, k), HasFree(s.tasks), NEW r, r = Succeed(s, k)
  PROVE  Good(r) /\ ~r.aborted /\ SameTurn(s, r)
<1>1. s \in Contexts /\ k \in Calls /\ Outer(s, k) # k /\ s.calls[k].by \in Calls
  <2>1. s \in Contexts /\ k \in Calls /\ Outer(s, k) < k /\ MadeBy(s, k) /\ Outer(s, k) \in Gates
    BY DoneFacts DEF Good
  <2>2. Outer(s, k) \in Int /\ k \in Int
    BY <2>1, Facts
  <2> QED
    BY <2>1, <2>2 DEF MadeBy
<1>2. Adopted(s, k, Fresh(s.tasks), r)
  BY <1>1, SucceedFields
<1>3. r \in Contexts /\ ~r.aborted
  BY <1>2 DEF Adopted
<1> QED
  BY <1>2, <1>3, AdoptedGates, AdoptedTasks DEF Good

-----------------------------------------------------------------------------
(***************************************************************************)
(* After the abort                                                         *)
(***************************************************************************)

\* The context stays aborted, and no slice of it starts.
Quiet(s, r) == Dead(r) /\ \A t \in Tasks : r.tasks[t].stage = "running" => s.tasks[t].stage = "running"

\* In an aborted context, steps that start nothing are made of others.
LEMMA QuietThen ==
  ASSUME NEW s, NEW q, NEW r, Quiet(s, q), Quiet(q, r)
  PROVE  Quiet(s, r)
  BY DEF Quiet

\* Tasks that do not start.
Still(s, T) ==
  DOMAIN T = Tasks /\ \A t \in Tasks : "stage" \in DOMAIN T[t] /\ (T[t].stage = "running" => s.tasks[t].stage = "running")

\* An aborted context starts nothing if no task does.
LEMMA QuietTasks ==
  ASSUME NEW s, Dead(s), NEW T, Still(s, T), NEW r, {"tasks", "aborted"} \subseteq DOMAIN r, r.tasks = T, r.aborted = s.aborted
  PROVE  Quiet(s, r)
  BY DEF Quiet, Dead, Still

\* An aborted context starts nothing if its tasks stay the same.
LEMMA QuietSame ==
  ASSUME NEW s, Dead(s), NEW r, {"tasks", "aborted"} \subseteq DOMAIN r, r.tasks = s.tasks, r.aborted = s.aborted
  PROVE  Quiet(s, r)
  BY DEF Quiet, Dead

\* A task may get any other stage than that of a slice.
LEMMA QuietStage ==
  ASSUME NEW s, Dead(s), NEW t, NEW stage, stage # "running"
  PROVE  Quiet(s, Stage(s, t, stage))
<1> DEFINE T == [s.tasks EXCEPT ![t].stage = stage]
           r == [s EXCEPT !.tasks = T]
<1>1. Still(s, T)
  BY DEF Dead, Still
<1>2. r = Stage(s, t, stage)
  BY DEF Stage
<1> HIDE DEF T
<1>3. {"tasks", "aborted"} \subseteq DOMAIN r /\ r.tasks = T /\ r.aborted = s.aborted
  BY DEF Dead
<1> HIDE DEF r
<1>4. Quiet(s, r)
  BY <1>1, <1>3, QuietTasks
<1> QED
  BY <1>2, <1>4

\* What follows is each operator and action of an aborted context: none starts a slice.
LEMMA QuietFree ==
  ASSUME NEW s, Dead(s), NEW t
  PROVE  Quiet(s, Free(s, t))
<1> DEFINE T == [s.tasks EXCEPT ![t] = NoTask]
           r == [s EXCEPT !.tasks = T]
<1>1. Still(s, T)
  BY DEF Dead, Still, NoTask
<1>2. r = Free(s, t)
  BY DEF Free
<1> HIDE DEF T
<1>3. {"tasks", "aborted"} \subseteq DOMAIN r /\ r.tasks = T /\ r.aborted = s.aborted
  BY DEF Dead
<1> HIDE DEF r
<1>4. Quiet(s, r)
  BY <1>1, <1>3, QuietTasks
<1> QED
  BY <1>2, <1>4

LEMMA QuietRefuse ==
  ASSUME NEW s, Dead(s), NEW R
  PROVE  Quiet(s, Refuse(s, R))
<1> DEFINE T == [t \in Tasks |-> IF t \in R THEN NoTask ELSE s.tasks[t]]
           r == Refuse(s, R)
<1>1. Still(s, T)
  BY DEF Dead, Still, NoTask
<1> HIDE DEF T
<1>3. {"tasks", "aborted"} \subseteq DOMAIN r /\ r.tasks = T /\ r.aborted = s.aborted
  BY DEF Dead, Refuse, T
<1> HIDE DEF r
<1>4. Quiet(s, r)
  BY <1>1, <1>3, QuietTasks
<1> QED
  BY <1>4 DEF r

LEMMA QuietGrant ==
  ASSUME NEW s, Dead(s), NEW R
  PROVE  Quiet(s, Grant(s, R))
<1> DEFINE T == [t \in Tasks |-> IF t \in R
                         THEN [s.tasks[t] EXCEPT !.stage = "granted", !.lock = s.scope[s.tasks[t].gate]] ELSE s.tasks[t]]
           r == Grant(s, R)
<1>1. Still(s, T)
  BY DEF Dead, Still
<1> HIDE DEF T
<1>3. {"tasks", "aborted"} \subseteq DOMAIN r /\ r.tasks = T /\ r.aborted = s.aborted
  BY DEF Dead, Grant, T
<1> HIDE DEF r
<1>4. Quiet(s, r)
  BY <1>1, <1>3, QuietTasks
<1> QED
  BY <1>4 DEF r

LEMMA QuietHandOver ==
  ASSUME NEW s, Dead(s), NEW G
  PROVE  Quiet(s, HandOver(s, G))
<1> DEFINE C == {g \in G : s.waitingChildren[g] # <<>> /\ ~Locked(s, g)}
           O == {g \in G : s.waiters[g] # <<>> /\ s.waitingChildren[g] = <<>> /\ ~Locked(s, g)}
           R == {Head(s.waitingChildren[g]) : g \in C} \cup {Head(s.waiters[g]) : g \in O}
           q == [s EXCEPT !.waitingChildren = [g \in Gates |-> IF g \in C THEN Tail(@[g]) ELSE @[g]],
                          !.waiters = [g \in Gates |-> IF g \in O THEN Tail(@[g]) ELSE @[g]]]
<1>1. HandOver(s, G) = Grant(q, R)
  BY DEF HandOver
<1> HIDE DEF C, O, R
<1>2. {"tasks", "aborted"} \subseteq DOMAIN q /\ q.tasks = s.tasks /\ q.aborted = s.aborted
  BY DEF Dead
<1> HIDE DEF q
<1>3. Quiet(s, q)
  BY <1>2, QuietSame
<1>4. Dead(q)
  BY <1>3 DEF Quiet
<1>5. Quiet(q, Grant(q, R))
  BY <1>4, QuietGrant
<1> QED
  BY <1>1, <1>3, <1>5, QuietThen

LEMMA QuietRelease ==
  ASSUME NEW s, Dead(s), NEW lock
  PROVE  Quiet(s, ReleaseLock(s, lock))
  BY QuietHandOver DEF ReleaseLock

LEMMA QuietBreak ==
  ASSUME NEW s, Dead(s), NEW B
  PROVE  Quiet(s, Break(s, B))
<1> DEFINE R == UNION {ToSet(s.waitingChildren[g]) \cup ToSet(s.waiters[g]) : g \in B}
           q == [s EXCEPT !.broken = @ \cup B, !.breaking = TRUE,
                     !.waitingChildren = [g \in Gates |-> IF g \in B THEN <<>> ELSE @[g]],
                     !.waiters = [g \in Gates |-> IF g \in B THEN <<>> ELSE @[g]]]
<1>1. Break(s, B) = Refuse(q, R)
  BY DEF Break
<1> HIDE DEF R
<1>2. {"tasks", "aborted"} \subseteq DOMAIN q /\ q.tasks = s.tasks /\ q.aborted = s.aborted
  BY DEF Dead
<1> HIDE DEF q
<1>3. Quiet(s, q)
  BY <1>2, QuietSame
<1>4. Dead(q)
  BY <1>3 DEF Quiet
<1>5. Quiet(q, Refuse(q, R))
  BY <1>4, QuietRefuse
<1> QED
  BY <1>1, <1>3, <1>5, QuietThen

LEMMA QuietCounts ==
  ASSUME NEW s, Dead(s), NEW kind
  PROVE  Quiet(s, Track(s, kind)) /\ Quiet(s, Untrack(s, kind)) /\ Quiet(s, Begun(s, kind)) /\ Quiet(s, Ended(s, kind))
<1>1. ASSUME NEW r, r \in {Track(s, kind), Untrack(s, kind), Begun(s, kind), Ended(s, kind)}
      PROVE  {"tasks", "aborted"} \subseteq DOMAIN r /\ r.tasks = s.tasks /\ r.aborted = s.aborted
  BY <1>1 DEF Dead, Track, Untrack, Begun, Ended
<1> QED
  BY <1>1, QuietSame

LEMMA QuietFail ==
  ASSUME NEW s, Dead(s), NEW k
  PROVE  Quiet(s, Fail(s, k))
<1> DEFINE b == Break(s, {k} \cup s.calls[k].above)
           f == [b EXCEPT !.calls[k] = [@ EXCEPT !.stage = "failed", !.holds = FALSE]]
           u == Untrack(f, "body")
<1>1. Fail(s, k) = IF s.calls[k].holds THEN ReleaseLock(u, s.calls[k].parent) ELSE u
  BY DEF Fail
<1> HIDE DEF u
<1>2. Quiet(s, b) /\ Dead(b)
  BY QuietBreak DEF Quiet
<1> HIDE DEF b
<1>3. {"tasks", "aborted"} \subseteq DOMAIN f /\ f.tasks = b.tasks /\ f.aborted = b.aborted
  BY <1>2 DEF Dead
<1>4. u = Untrack(f, "body")
  BY DEF u
<1> HIDE DEF f
<1>5. Quiet(b, f) /\ Dead(f)
  BY <1>2, <1>3, QuietSame DEF Quiet
<1>6. Quiet(f, u) /\ Dead(u)
  BY <1>4, <1>5, QuietCounts DEF Quiet
<1>7. Quiet(u, ReleaseLock(u, s.calls[k].parent))
  BY <1>6, QuietRelease
<1>8. Quiet(s, u)
  BY <1>2, <1>5, <1>6, QuietThen
<1>9. Quiet(s, ReleaseLock(u, s.calls[k].parent))
  BY <1>7, <1>8, QuietThen
<1> QED
  BY <1>1, <1>8, <1>9

LEMMA QuietSucceed ==
  ASSUME NEW s, Dead(s), NEW k
  PROVE  Quiet(s, Succeed(s, k))
<1> DEFINE g == s.scope[s.calls[k].parent]
           t == [s EXCEPT !.scope = [h \in Gates |-> IF @[h] = k THEN g ELSE @[h]],
                     !.waitingChildren[g] = @ \o s.waitingChildren[k], !.waitingChildren[k] = <<>>,
                     !.waiters[g] = @ \o s.waiters[k], !.waiters[k] = <<>>,
                     !.calls[k] = [@ EXCEPT !.stage = "over", !.holds = FALSE]]
           p == ReleaseLock(t, g)
           b == Break(p, {k} \cup s.calls[k].above)
           u == Untrack(b, "body")
<1>1. Succeed(s, k) = u
  BY DEF Succeed, Dead
<1> HIDE DEF u
<1>2. {"tasks", "aborted"} \subseteq DOMAIN t /\ t.tasks = s.tasks /\ t.aborted = s.aborted
  BY DEF Dead
<1>3. p = ReleaseLock(t, g) /\ b = Break(p, {k} \cup s.calls[k].above) /\ u = Untrack(b, "body")
  BY DEF u
<1> HIDE DEF g, t, p, b
<1>4. Quiet(s, t) /\ Dead(t)
  BY <1>2, QuietSame DEF Quiet
<1>5. Quiet(t, p) /\ Dead(p)
  BY <1>3, <1>4, QuietRelease DEF Quiet
<1>6. Quiet(p, b) /\ Dead(b)
  BY <1>3, <1>5, QuietBreak DEF Quiet
<1>7. Quiet(b, u)
  BY <1>3, <1>6, QuietCounts
<1>8. Quiet(s, p)
  BY <1>4, <1>5, QuietThen
<1>9. Quiet(s, b)
  BY <1>6, <1>8, QuietThen
<1> QED
  BY <1>1, <1>7, <1>9, QuietThen

LEMMA QuietCancel ==
  ASSUME NEW s, Dead(s), NEW R
  PROVE  Quiet(s, Cancel(s, R))
<1> DEFINE A == {t \in R : s.tasks[t].stage = "outside"}
           T == [t \in Tasks |-> CASE t \in A -> NoTask
                                   [] t \in R \ A -> [s.tasks[t] EXCEPT !.kind = "canceled"]
                                   [] OTHER -> s.tasks[t]]
           r == Cancel(s, R)
<1>1. Still(s, T)
  <2>1. DOMAIN T = Tasks
    OBVIOUS
  <2>2. ASSUME NEW t \in Tasks
        PROVE  "stage" \in DOMAIN T[t] /\ (T[t].stage = "running" => s.tasks[t].stage = "running")
    <3>1. CASE t \in A
      BY <3>1 DEF NoTask
    <3>2. CASE t \notin A /\ t \in R
      <4>1. T[t] = [s.tasks[t] EXCEPT !.kind = "canceled"]
        BY <3>2
      <4>2. "stage" \in DOMAIN s.tasks[t]
        BY DEF Dead
      <4> HIDE DEF T
      <4> QED
        BY <4>1, <4>2
    <3>3. CASE t \notin A /\ t \notin R
      <4>1. T[t] = s.tasks[t]
        BY <3>3
      <4> QED
        BY <4>1 DEF Dead
    <3> QED
      BY <3>1, <3>2, <3>3
  <2> QED
    BY <2>1, <2>2 DEF Still
<1> HIDE DEF T
<1>2. {"tasks", "aborted"} \subseteq DOMAIN r /\ r.tasks = T /\ r.aborted = s.aborted
  BY DEF Dead, Cancel, T
<1> HIDE DEF r
<1>3. Quiet(s, r)
  BY <1>1, <1>2, QuietTasks
<1> QED
  BY <1>3 DEF r

LEMMA QuietExit ==
  ASSUME NEW s, Dead(s), NEW L
  PROVE  Quiet(s, Exit(s, L))
<1> DEFINE T == [t \in Tasks |-> IF t \in L THEN NoTask ELSE s.tasks[t]]
           q == [s EXCEPT !.tasks = T, !.frames = <<>>]
           G == {s.scope[s.tasks[t].lock] : t \in L}
<1>1. Exit(s, L) = HandOver(q, G)
  BY DEF Exit
<1> HIDE DEF G
<1>2. Still(s, T)
  BY DEF Dead, Still, NoTask
<1> HIDE DEF T
<1>3. {"tasks", "aborted"} \subseteq DOMAIN q /\ q.tasks = T /\ q.aborted = s.aborted
  BY DEF Dead
<1> HIDE DEF q
<1>4. Quiet(s, q) /\ Dead(q)
  BY <1>2, <1>3, QuietTasks DEF Quiet
<1>5. Quiet(q, HandOver(q, G))
  BY <1>4, QuietHandOver
<1> QED
  BY <1>1, <1>4, <1>5, QuietThen

LEMMA QuietNewTask ==
  ASSUME NEW s, Dead(s), NEW kind, NEW c, NEW at, NEW lock
  PROVE  Quiet(s, NewTask(s, kind, c, at, lock))
<1> DEFINE x == [kind |-> kind, stage |-> "outside", call |-> c, gate |-> at, lock |-> lock]
           T == [s.tasks EXCEPT ![Fresh(s.tasks)] = x]
           q == [s EXCEPT !.tasks = T]
<1>1. NewTask(s, kind, c, at, lock) = Track(q, kind)
  BY DEF NewTask
<1>2. Still(s, T)
  <2>1. "stage" \in DOMAIN x /\ x.stage # "running"
    OBVIOUS
  <2> HIDE DEF x
  <2> QED
    BY <2>1 DEF Dead, Still
<1> HIDE DEF T
<1>3. {"tasks", "aborted"} \subseteq DOMAIN q /\ q.tasks = T /\ q.aborted = s.aborted
  BY DEF Dead
<1> HIDE DEF q
<1>4. Quiet(s, q) /\ Dead(q)
  BY <1>2, <1>3, QuietTasks DEF Quiet
<1>5. Quiet(q, Track(q, kind))
  BY <1>4, QuietCounts
<1> QED
  BY <1>1, <1>4, <1>5, QuietThen

LEMMA QuietNewCall ==
  ASSUME Dead(ctx), NEW kind, NEW by
  PROVE  Quiet(ctx, NewCall(kind, by))
<1> DEFINE x == [kind |-> kind, stage |-> "open", by |-> by, parent |-> IF by = 0 THEN Root ELSE Current,
                 above |-> IF by = 0 THEN {} ELSE {Current} \cup (IF Current = Root THEN {} ELSE ctx.calls[Current].above),
                 origin |-> IF kind = "section" THEN ctx.calls[by].origin ELSE Fresh(ctx.calls),
                 holds |-> FALSE, needs |-> 0]
           C == [ctx.calls EXCEPT ![Fresh(ctx.calls)] = x]
           r == [ctx EXCEPT !.calls = C]
<1>1. NewCall(kind, by) = r
  BY DEF NewCall
<1> HIDE DEF C, x
<1>2. {"tasks", "aborted"} \subseteq DOMAIN r /\ r.tasks = ctx.tasks /\ r.aborted = ctx.aborted
  BY DEF Dead
<1> HIDE DEF r
<1>3. Quiet(ctx, r)
  BY <1>2, QuietSame
<1> QED
  BY <1>1, <1>3

LEMMA QuietAborts ==
  ASSUME NEW s, Dead(s)
  PROVE  Quiet(s, Abort(s))
<1> DEFINE r == [s EXCEPT !.breaking = FALSE]
<1>1. Abort(s) = r
  BY DEF Abort, Dead
<1>2. {"tasks", "aborted"} \subseteq DOMAIN r /\ r.tasks = s.tasks /\ r.aborted = s.aborted
  BY DEF Dead
<1> HIDE DEF r
<1> QED
  BY <1>1, <1>2, QuietSame

LEMMA QuietCode ==
  ASSUME Dead(ctx), writers = {}, NEW t \in Tasks, Code(t)
  PROVE  Quiet(ctx, ctx') /\ writers' = {}
<1>1. CASE AwaitIo(t)
  <2>1. ctx' = NewTask(ctx, "await", ctx.tasks[t].call, Current, NoLock) /\ writers' = writers
    BY <1>1 DEF AwaitIo, storage
  <2> QED
    BY <2>1, QuietNewTask
<1>2. CASE AwaitIoWithInputLock(t)
  BY <1>2 DEF AwaitIoWithInputLock, Dead
<1>3. CASE Writes(t)
  BY <1>3 DEF Writes, Dead
<1>4. CASE SetTimeout(t)
  <2> DEFINE q == NewCall("timer", ctx.tasks[t].call)
             s == NewTask(q, "timer", Fresh(ctx.calls), Current, NoLock)
             r == [s EXCEPT !.timers = @ \cup {Fresh(ctx.tasks)}]
  <2>1. ctx' = r /\ writers' = writers
    BY <1>4 DEF SetTimeout, storage
  <2>2. Quiet(ctx, q)
    BY QuietNewCall
  <2> HIDE DEF q
  <2>3. Quiet(q, s)
    BY <2>2, QuietNewTask DEF Quiet
  <2> HIDE DEF s
  <2>4. Quiet(s, r)
    <3>1. {"tasks", "aborted"} \subseteq DOMAIN r /\ r.tasks = s.tasks /\ r.aborted = s.aborted
      BY <2>3 DEF Quiet, Dead
    <3> HIDE DEF r
    <3> QED
      BY <2>3, <3>1, QuietSame DEF Quiet
  <2> HIDE DEF r
  <2>5. Quiet(ctx, s)
    BY <2>2, <2>3, QuietThen
  <2>6. Quiet(ctx, r)
    BY <2>4, <2>5, QuietThen
  <2> QED
    BY <2>1, <2>6
<1>5. CASE BlockConcurrencyWhile(t)
  <2> DEFINE k == Fresh(ctx.calls)
             u == Fresh(ctx.tasks)
             g == ctx.scope[Current]
             q == NewCall("section", ctx.tasks[t].call)
             n == NewTask(q, "body", k, k, NoLock)
             s == Stage(n, u, "queued")
             e == [s EXCEPT !.broken = @ \cup {k}]
             j == [s EXCEPT !.waitingChildren[g] = Append(@, u)]
  <2>1. ctx' = (IF g \in ctx.broken THEN Refuse(e, {u}) ELSE j) /\ writers' = writers
    BY <1>5 DEF BlockConcurrencyWhile, storage
  <2>2. Quiet(ctx, q)
    BY QuietNewCall
  <2> HIDE DEF q, k, u, g
  <2>3. Quiet(q, n)
    BY <2>2, QuietNewTask DEF Quiet
  <2> HIDE DEF n
  <2>4. Quiet(n, s)
    BY <2>3, QuietStage DEF Quiet
  <2> HIDE DEF s
  <2>5. /\ {"tasks", "aborted"} \subseteq DOMAIN e /\ e.tasks = s.tasks /\ e.aborted = s.aborted
        /\ {"tasks", "aborted"} \subseteq DOMAIN j /\ j.tasks = s.tasks /\ j.aborted = s.aborted
    BY <2>4 DEF Quiet, Dead
  <2> HIDE DEF e, j
  <2>6. Quiet(s, e) /\ Quiet(s, j)
    BY <2>4, <2>5, QuietSame DEF Quiet
  <2>7. Quiet(e, Refuse(e, {u}))
    BY <2>6, QuietRefuse DEF Quiet
  <2>8. Quiet(ctx, s)
    BY <2>2, <2>3, <2>4, QuietThen
  <2>9. Quiet(ctx, j) /\ Quiet(ctx, Refuse(e, {u}))
    BY <2>6, <2>7, <2>8, QuietThen
  <2> QED
    BY <2>1, <2>9
<1>6. CASE AbortedByCode(t)
  BY <1>6 DEF AbortedByCode, Dead
<1>7. ASSUME NEW u \in Tasks, ClearTimeout(t, u)
      PROVE  Quiet(ctx, ctx') /\ writers' = {}
  <2>1. ctx' = Cancel(ctx, {u}) /\ writers' = writers
    BY <1>7 DEF ClearTimeout, storage
  <2> QED
    BY <2>1, QuietCancel
<1> QED
  BY <1>1, <1>2, <1>3, <1>4, <1>5, <1>6, <1>7 DEF Code

LEMMA QuietStarts ==
  ASSUME Dead(ctx), writers = {}, NEW t \in Tasks, Starts(t)
  PROVE  Quiet(ctx, ctx') /\ writers' = {}
<1> DEFINE lock == ctx.tasks[t].lock
           f == Free(ctx, t)
           p == ReleaseLock(f, lock)
           q == Fail(p, ctx.tasks[t].call)
           e == Refuse(ctx, {t})
           r == ReleaseLock(e, lock)
<1>1. ctx' \in {q, r} /\ writers' = writers
  BY DEF Starts, RunImpl, Dead, storage
<1> HIDE DEF lock
<1>2. Quiet(ctx, f) /\ Quiet(ctx, e)
  BY QuietFree, QuietRefuse
<1> HIDE DEF f, e
<1>3. Quiet(f, p) /\ Quiet(e, r)
  BY <1>2, QuietRelease DEF Quiet
<1> HIDE DEF p, r
<1>4. Quiet(p, q)
  BY <1>3, QuietFail DEF Quiet
<1> HIDE DEF q
<1>5. Quiet(ctx, p) /\ Quiet(ctx, r)
  BY <1>2, <1>3, QuietThen
<1>6. Quiet(ctx, q)
  BY <1>4, <1>5, QuietThen
<1> QED
  BY <1>1, <1>5, <1>6

LEMMA QuietReturns ==
  ASSUME Dead(ctx), writers = {}, NEW t \in Tasks, Returns(t)
  PROVE  Quiet(ctx, ctx') /\ writers' = {}
<1> DEFINE kind == ctx.tasks[t].kind
           s == Stage(ctx, t, "left")
           u == [s EXCEPT !.timers = @ \ {t}]
           p == Untrack(u, kind)
           q == Ended(p, kind)
<1>1. ctx' \in {u, q} /\ writers' = writers
  BY DEF Returns, storage
<1> HIDE DEF kind
<1>2. Quiet(ctx, s)
  BY QuietStage
<1> HIDE DEF s
<1>3. Quiet(s, u)
  <2>1. {"tasks", "aborted"} \subseteq DOMAIN u /\ u.tasks = s.tasks /\ u.aborted = s.aborted
    BY <1>2 DEF Quiet, Dead
  <2> HIDE DEF u
  <2> QED
    BY <1>2, <2>1, QuietSame DEF Quiet
<1> HIDE DEF u
<1>4. Quiet(u, p)
  BY <1>3, QuietCounts DEF Quiet
<1> HIDE DEF p
<1>5. Quiet(p, q)
  BY <1>4, QuietCounts DEF Quiet
<1> HIDE DEF q
<1>6. Quiet(ctx, u)
  BY <1>2, <1>3, QuietThen
<1>7. Quiet(ctx, q)
  BY <1>4, <1>5, <1>6, QuietThen
<1> QED
  BY <1>1, <1>6, <1>7

LEMMA QuietSettles ==
  ASSUME Dead(ctx), writers = {}, NEW t \in Tasks, Settles(t)
  PROVE  Quiet(ctx, ctx') /\ writers' = {}
<1> DEFINE s == Begun(ctx, ctx.tasks[t].kind)
           e == Refuse(s, {t})
           r == ReleaseLock(e, ctx.tasks[t].lock)
<1>1. ctx' \in {e, r} /\ writers' = writers
  BY DEF Settles, Resumed, Dead, storage
<1>2. Quiet(ctx, s)
  BY QuietCounts
<1> HIDE DEF s
<1>3. Quiet(s, e)
  BY <1>2, QuietRefuse DEF Quiet
<1> HIDE DEF e
<1>4. Quiet(e, r)
  BY <1>3, QuietRelease DEF Quiet
<1> HIDE DEF r
<1>5. Quiet(ctx, e)
  BY <1>2, <1>3, QuietThen
<1>6. Quiet(ctx, r)
  BY <1>4, <1>5, QuietThen
<1> QED
  BY <1>1, <1>5, <1>6

\* Only calls and counts change.
LEMMA QuietCall ==
  ASSUME NEW s, Dead(s), NEW C, NEW q, q = [s EXCEPT !.calls = C]
  PROVE  Quiet(s, q) /\ Quiet(s, Ended(q, "event"))
<1>1. {"tasks", "aborted"} \subseteq DOMAIN q /\ q.tasks = s.tasks /\ q.aborted = s.aborted
  BY DEF Dead
<1>2. Quiet(s, q) /\ Dead(q)
  BY <1>1, QuietSame DEF Quiet
<1>3. Quiet(q, Ended(q, "event"))
  BY <1>2, QuietCounts
<1> QED
  BY <1>2, <1>3, QuietThen

LEMMA QuietEnds ==
  ASSUME Dead(ctx), writers = {}, NEW c \in Calls, NEW throws \in BOOLEAN, Ends(c, throws)
  PROVE  Quiet(ctx, ctx') /\ writers' = {}
<1> DEFINE C == [ctx.calls EXCEPT ![c].stage = "over"]
           D == [ctx.calls EXCEPT ![c].stage = "replying", ![c].needs = written]
           q == [ctx EXCEPT !.calls = C]
           p == [ctx EXCEPT !.calls = D]
           e == Ended(q, "event")
<1>1. /\ ctx' \in {Fail(ctx, c), Succeed(ctx, c), Abort(e), p, q, e}
      /\ writers' = writers \/ writers' = {}
  <2>1. q = [ctx EXCEPT !.calls[c].stage = "over"]
        /\ p = [ctx EXCEPT !.calls[c].stage = "replying", !.calls[c].needs = written]
    BY DEF Dead
  <2> HIDE DEF q, p, C, D
  <2> QED
    BY <2>1 DEF Ends, Aborts, storage
<1>2. Quiet(ctx, Fail(ctx, c)) /\ Quiet(ctx, Succeed(ctx, c))
  BY QuietFail, QuietSucceed
<1> HIDE DEF C, D
<1>3. Quiet(ctx, p) /\ Quiet(ctx, q) /\ Quiet(ctx, e)
  BY QuietCall
<1> HIDE DEF p, q, e
<1>4. Quiet(e, Abort(e))
  BY <1>3, QuietAborts DEF Quiet
<1>5. Quiet(ctx, Abort(e))
  BY <1>3, <1>4, QuietThen
<1> QED
  BY <1>1, <1>2, <1>3, <1>5

LEMMA QuietReplies ==
  ASSUME Dead(ctx), writers = {}, NEW c \in Calls, Replies(c)
  PROVE  Quiet(ctx, ctx') /\ writers' = {}
<1> DEFINE C == [ctx.calls EXCEPT ![c].stage = "over"]
           q == [ctx EXCEPT !.calls = C]
<1>1. ctx' = Ended(q, "event") /\ writers' = writers
  <2>1. q = [ctx EXCEPT !.calls[c].stage = "over"]
    BY DEF Dead
  <2> HIDE DEF q, C
  <2> QED
    BY <2>1 DEF Replies, storage
<1> HIDE DEF C
<1>2. Quiet(ctx, Ended(q, "event"))
  BY QuietCall
<1> QED
  BY <1>1, <1>2

\* Every step of an aborted context.
LEMMA QuietStep ==
  ASSUME Dead(ctx), writers = {}, [Next]_vars
  PROVE  Quiet(ctx, ctx') /\ writers' = {}
<1>1. Quiet(ctx, ctx)
  BY DEF Quiet
<1>2. CASE UNCHANGED vars
  BY <1>1, <1>2 DEF vars, storage
<1>3. ASSUME NEW kind, Event(kind) PROVE Quiet(ctx, ctx') /\ writers' = {}
  BY <1>1, <1>3 DEF Event, Dead, storage
<1>4. ASSUME NEW t \in Tasks, Code(t) \/ Settles(t) PROVE Quiet(ctx, ctx') /\ writers' = {}
  BY <1>4, QuietCode, QuietSettles
<1>5. ASSUME NEW c \in Calls, Ends(c, TRUE) \/ Ends(c, FALSE)
      PROVE  Quiet(ctx, ctx') /\ writers' = {}
  BY <1>5, QuietEnds
<1>6. ASSUME NEW k \in Calls, Deadline(k) PROVE Quiet(ctx, ctx') /\ writers' = {}
  BY <1>6, QuietFail DEF Deadline, storage
<1>7. ASSUME NEW t \in Tasks, Starts(t) \/ Returns(t) PROVE Quiet(ctx, ctx') /\ writers' = {}
  BY <1>7, QuietStarts, QuietReturns
<1>8. ASSUME NEW c \in Calls, Replies(c) PROVE Quiet(ctx, ctx') /\ writers' = {}
  BY <1>8, QuietReplies
<1>9. CASE Broke
  BY <1>9, QuietAborts DEF Broke, Aborts
<1>10. CASE CheckpointEnd
  BY <1>10, QuietExit DEF CheckpointEnd, Commits
<1>11. CASE Confirmed \/ CommitFails \/ AbortedByHost
  BY <1>11 DEF Confirmed, CommitFails, AbortedByHost, Dead
<1>12. CASE Continuation
  BY <1>5, <1>7, <1>8, <1>9, <1>10, <1>12 DEF Continuation
<1> QED
  BY <1>2, <1>3, <1>4, <1>5, <1>6, <1>11, <1>12 DEF Next

-----------------------------------------------------------------------------
(***************************************************************************)
(* The steps of a context that is not aborted                              *)
(***************************************************************************)

Kept(s, r) == Good(r) /\ ~r.aborted /\ SameTurn(s, r)

\* abort() leaves nothing that starts.
LEMMA AbortDies ==
  ASSUME NEW s, s \in Contexts, ~s.aborted
  PROVE  Dead(Abort(s))
<1> DEFINE q == [s EXCEPT !.aborted = TRUE, !.breaking = FALSE]
<1>1. Abort(s) = Cancel(q, s.timers)
  BY DEF Abort
<1>2. Dead(q)
  BY DEF Dead, Contexts, Task
<1> HIDE DEF q
<1>3. Quiet(q, Cancel(q, s.timers))
  BY <1>2, QuietCancel
<1> QED
  BY <1>1, <1>3 DEF Quiet

\* Such changes of calls keep turns as well.
LEMMA KeptCalls ==
  ASSUME NEW s, Good(s), ~s.aborted, NEW r, CallsStep(s, r)
  PROVE  Kept(s, r)
<1>1. Good(r)
  BY CallsKeep
<1>2. SameTree(s, r) /\ r.frames = s.frames /\ r.tasks = s.tasks /\ ~r.aborted
  BY DEF CallsStep, SameFrames
<1>3. SameTurn(s, r)
  BY <1>2, TurnKept
<1> QED
  BY <1>1, <1>2, <1>3 DEF Kept

\* A call that is over, and the count of it.
LEMMA CallOver ==
  ASSUME NEW s, Good(s), ~s.aborted, NEW c \in Calls, s.calls[c].stage # "free",
         c \in Sections(s) => s.calls[c].stage \notin {"open", "stuck", "failed"},
         NEW x \in Call, x.kind = s.calls[c].kind, x.origin = s.calls[c].origin, x.by = s.calls[c].by,
         x.parent = s.calls[c].parent, x.above = s.calls[c].above, x.holds = s.calls[c].holds, x.stage \in {"over", "replying"},
         NEW C \in [Calls -> Call], C[c] = x, \A d \in Calls \ {c} : C[d] = s.calls[d],
         NEW r, r = [s EXCEPT !.calls = C]
  PROVE  CallsStep(s, r) /\ CallsStep(s, Ended(r, "event"))
<1>1. s \in Contexts /\ StageInv(s)
  BY DEF Good
<1>2. C \in [Calls -> Call] /\ C[c] = x /\ \A d \in Calls \ {c} : C[d] = s.calls[d]
  OBVIOUS
<1>3. /\ r \in Contexts /\ r.calls = C /\ r.tasks = s.tasks /\ SameLines(s, r) /\ SameScope(s, r) /\ SameFrames(s, r)
  BY <1>1, <1>2 DEF Contexts, SameLines, SameScope, SameFrames
<1>4. CallsStep(s, r)
  <2>1. SameTree(s, r)
    BY <1>2, <1>3 DEF SameTree, SameScope
  <2>2. s.broken # {} => s.breaking
    BY <1>1 DEF StageInv
  <2> QED
    BY <1>2, <1>3, <2>1, <2>2 DEF CallsStep, SameScope
<1>5. Recounted(r, Ended(r, "event"))
  BY <1>3, CountFields
<1>6. CallsStep(s, Ended(r, "event"))
  BY <1>4, <1>5 DEF CallsStep, Recounted, SameTree, SameLines, SameScope, SameFrames
<1> QED
  BY <1>4, <1>6

\* A section that was entered can fail.
LEMMA KeptFail ==
  ASSUME NEW s, Good(s), ~s.aborted, NEW k \in Entered(s), s.calls[k].stage \in {"open", "stuck"}
  PROVE  Kept(s, Fail(s, k))
<1> DEFINE r == Fail(s, k)
<1>1. /\ Good(r) /\ ~r.aborted /\ r.frames = s.frames
      /\ \A t \in ToSet(s.frames) : r.tasks[t] = s.tasks[t]
      /\ \A c \in Calls : r.calls[c].origin = s.calls[c].origin
  BY FailKeeps
<1> HIDE DEF r
<1>2. \A t \in ToSet(s.frames) : s.tasks[t].call \in Calls
  <2>1. s \in Contexts /\ ToSet(s.frames) \subseteq Tasks
    BY DEF Good, Contexts, ToSet
  <2> QED
    BY <2>1, Facts
<1>3. SameTurn(s, r)
  BY <1>1, <1>2 DEF SameTurn, CallOf
<1> QED
  BY <1>1, <1>3 DEF Kept, r

\* What a slice does next keeps the invariant.
LEMMA CodeKeeps ==
  ASSUME Good(ctx), ~ctx.aborted, NEW t \in Tasks,
         AwaitIo(t) \/ AwaitIoWithInputLock(t) \/ SetTimeout(t) \/ BlockConcurrencyWhile(t)
           \/ \E u \in Tasks : ClearTimeout(t, u)
  PROVE  Kept(ctx, ctx') /\ writers' = writers
<1>1. ctx \in Contexts /\ StageInv(ctx) /\ (HasRoom(ctx, 1) \/ HasRoom(ctx, 2) => HasFree(ctx.tasks))
  BY RoomIsFree DEF Good
<1>2. CASE AwaitIo(t)
  <2>1. Running(t) /\ HasFree(ctx.tasks) /\ ctx' = NewTask(ctx, "await", ctx.tasks[t].call, Current, NoLock) /\ writers' = writers
    BY <1>1, <1>2 DEF AwaitIo, Asks, storage
  <2>2. NoLock = (IF "await" = "held" THEN Current ELSE NoLock)
    OBVIOUS
  <2> QED
    BY <2>1, <2>2, AwaitKeeps DEF Kept
<1>3. CASE AwaitIoWithInputLock(t)
  <2>1. Running(t) /\ HasFree(ctx.tasks) /\ ctx' = NewTask(ctx, "held", ctx.tasks[t].call, Current, Current) /\ writers' = writers
    BY <1>1, <1>3 DEF AwaitIoWithInputLock, Asks, AddRef, storage
  <2>2. Current = (IF "held" = "held" THEN Current ELSE NoLock)
    OBVIOUS
  <2> QED
    BY <2>1, <2>2, AwaitKeeps DEF Kept
<1>4. CASE SetTimeout(t)
  <2> DEFINE s == NewTask(NewCall("timer", ctx.tasks[t].call), "timer", Fresh(ctx.calls), Current, NoLock)
             r == [s EXCEPT !.timers = @ \cup {Fresh(ctx.tasks)}]
  <2>1. Running(t) /\ HasFree(ctx.tasks) /\ HasFree(ctx.calls) /\ ctx' = r /\ writers' = writers
    BY <1>1, <1>4 DEF SetTimeout, Asks, storage
  <2>2. Good(r) /\ ~r.aborted /\ SameTurn(ctx, r)
    BY <2>1, SetTimeoutKeeps
  <2> QED
    BY <2>1, <2>2 DEF Kept
<1>5. CASE BlockConcurrencyWhile(t)
  <2> DEFINE k == Fresh(ctx.calls)
             u == Fresh(ctx.tasks)
             g == ctx.scope[Current]
             q == Stage(NewTask(NewCall("section", ctx.tasks[t].call), "body", k, k, NoLock), u, "queued")
  <2>1. /\ Running(t) /\ HasFree(ctx.tasks) /\ HasFree(ctx.calls) /\ writers' = writers
        /\ ctx' = IF g \in ctx.broken THEN Refuse([q EXCEPT !.broken = @ \cup {k}], {u})
                  ELSE [q EXCEPT !.waitingChildren[g] = Append(@, u)]
    BY <1>1, <1>5 DEF BlockConcurrencyWhile, Asks, storage
  <2>2. \/ g \in ctx.broken /\ Rejects(q, u, k, ctx')
        \/ g \notin ctx.broken /\ Joins(q, u, g, ctx')
    BY <2>1 DEF Rejects, Joins
  <2>3. Good(ctx') /\ ~ctx'.aborted /\ SameTurn(ctx, ctx')
    BY <2>1, <2>2, BlockKeeps
  <2> QED
    BY <2>1, <2>3 DEF Kept
<1>6. ASSUME NEW u \in Tasks, ClearTimeout(t, u) PROVE Kept(ctx, ctx') /\ writers' = writers
  <2>1. u \in ctx.timers /\ ctx' = Cancel(ctx, {u}) /\ writers' = writers
    BY <1>6 DEF ClearTimeout, storage
  <2>2. /\ Good(ctx') /\ ~ctx'.aborted /\ ctx'.frames = ctx.frames /\ SameTree(ctx, ctx')
        /\ \A v \in ToSet(ctx.frames) : ctx'.tasks[v].call = ctx.tasks[v].call
    BY <2>1, CancelKeeps
  <2>3. \A v \in Tasks : ctx.tasks[v].stage \in {"running", "left"} => ctx'.tasks[v].call = ctx.tasks[v].call
    BY <1>1, <2>2 DEF StageInv, StageOf
  <2>4. SameTurn(ctx, ctx')
    BY <2>2, <2>3, TurnKept
  <2> QED
    BY <2>1, <2>2, <2>4 DEF Kept
<1> QED
  BY <1>2, <1>3, <1>4, <1>5, <1>6

\* Slices start, return and settle within the invariant.
LEMMA TaskActions ==
  ASSUME Good(ctx), ~ctx.aborted, NEW t \in Tasks, Starts(t) \/ Returns(t) \/ Settles(t)
  PROVE  Kept(ctx, ctx') /\ writers' = writers
<1>1. ctx \in Contexts /\ StageInv(ctx) /\ StageOf(ctx, t)
  BY DEF Good, StageInv
<1>2. CASE Starts(t)
  <2>1. ctx.tasks[t].stage = "granted" /\ ctx' = Push(ctx, t) /\ writers' = writers
    BY <1>2 DEF Starts, RunImpl, storage
  <2>2. /\ Good(ctx') /\ ~ctx'.aborted /\ ToSet(ctx'.frames) = ToSet(ctx.frames) \cup {t} /\ ctx'.calls = ctx.calls
        /\ \A u \in Tasks : ctx'.tasks[u].call = ctx.tasks[u].call
    <3> DEFINE r == Push(ctx, t)
    <3>1. r = Push(ctx, t)
      OBVIOUS
    <3> HIDE DEF r
    <3>2. /\ Good(r) /\ ~r.aborted /\ ToSet(r.frames) = ToSet(ctx.frames) \cup {t} /\ r.calls = ctx.calls
          /\ \A u \in Tasks : r.tasks[u].call = ctx.tasks[u].call
      BY <2>1, <3>1, PushKeeps
    <3> QED
      BY <2>1, <3>1, <3>2
  <2>3. ToSet(ctx.frames) \subseteq Tasks
    BY <1>1 DEF Contexts, ToSet
  <2> QED
    BY <2>1, <2>2, <2>3 DEF Kept, SameTurn, CallOf
<1>3. CASE Returns(t)
  <2> DEFINE kind == ctx.tasks[t].kind
             u == [Stage(ctx, t, "left") EXCEPT !.timers = @ \ {t}]
             p == Untrack(u, kind)
             q == Ended(p, kind)
  <2>1. ctx.tasks[t].stage = "running" /\ ctx' \in {u, q} /\ writers' = writers
    BY <1>3 DEF Returns, storage
  <2>2. /\ Good(u) /\ ~u.aborted /\ u.frames = ctx.frames /\ u.calls = ctx.calls
        /\ \A v \in Tasks : u.tasks[v].call = ctx.tasks[v].call
    BY <2>1, LeftKeeps, ZenonT(60)
  <2> HIDE DEF u, kind
  <2>3. SameTurn(ctx, u)
    <3>1. ToSet(ctx.frames) \subseteq Tasks
      BY <1>1 DEF Contexts, ToSet
    <3> QED
      BY <2>2, <3>1 DEF SameTurn, CallOf
  <2>4. u \in Contexts
    BY <2>2 DEF Good
  <2>5. Recounted(u, p)
    BY <2>4, CountFields
  <2> HIDE DEF p
  <2>6. Recounted(p, q)
    <3>1. p \in Contexts
      BY <2>5 DEF Recounted
    <3> QED
      BY <3>1, CountFields
  <2> HIDE DEF q
  <2>7. Good(p) /\ ~p.aborted
    BY <2>2, <2>5, CountsKeep
  <2>8. Good(q) /\ ~q.aborted
    BY <2>6, <2>7, CountsKeep
  <2>9. SameTurn(ctx, q)
    BY <2>3, <2>5, <2>6, TurnsKept
  <2> QED
    BY <2>1, <2>2, <2>3, <2>8, <2>9 DEF Kept
<1>4. CASE Settles(t)
  <2> DEFINE s == Begun(ctx, ctx.tasks[t].kind)
  <2>1. /\ ctx.tasks[t].stage = "outside" /\ ctx.tasks[t].kind \in {"await", "held", "timer"} /\ writers' = writers
        /\ ctx' = IF HasLock(ctx, t) THEN Stage(s, t, "granted") ELSE Wait(s, t)
    BY <1>4 DEF Settles, Resumed, storage
  <2>2. Recounted(ctx, s)
    BY <1>1, CountFields
  <2> HIDE DEF s
  <2>3. Good(s) /\ ~s.aborted /\ s.tasks = ctx.tasks /\ (HasLock(s, t) <=> HasLock(ctx, t))
    BY <2>2, CountsKeep DEF Recounted, HasLock
  <2>4. SameTurn(ctx, s)
    BY <2>2 DEF Recounted, SameFrames, SameTurn, CallOf
  <2>5. CASE HasLock(ctx, t)
    <3>1. ctx.tasks[t].kind = "held"
      BY <1>1, <2>1, <2>5 DEF StageOf
    <3>2. /\ Good(ctx') /\ ~ctx'.aborted /\ SameFrames(s, ctx') /\ ctx'.calls = s.calls
          /\ \A u \in Tasks : ctx'.tasks[u].call = s.tasks[u].call
      BY <2>1, <2>3, <2>5, <3>1, KeptKeeps
    <3>3. SameTurn(s, ctx')
      <4>1. ToSet(s.frames) \subseteq Tasks
        BY <2>3 DEF Good, Contexts, ToSet
      <4> QED
        BY <3>2, <4>1 DEF SameTurn, CallOf, SameFrames
    <3> QED
      BY <2>1, <2>4, <3>2, <3>3, TurnsKept DEF Kept
  <2>6. CASE ~HasLock(ctx, t)
    <3>1. Good(ctx') /\ ~ctx'.aborted /\ SameTurn(s, ctx')
      BY <2>1, <2>3, <2>6, WaitKeeps
    <3> QED
      BY <2>1, <2>4, <3>1, TurnsKept DEF Kept
  <2> QED
    BY <2>5, <2>6
<1> QED
  BY <1>2, <1>3, <1>4

\* The end of a call's code, and of a call, but for a constructor that throws.
LEMMA EndKeeps ==
  ASSUME Good(ctx), ~ctx.aborted, written \in Int, NEW c \in Calls, NEW throws \in BOOLEAN, Ends(c, throws),
         ~(ctx.calls[c].kind = "start" /\ throws)
  PROVE  Kept(ctx, ctx') /\ writers' = writers
<1>1. ctx \in Contexts /\ StageInv(ctx) /\ ctx.calls[c] \in Call /\ Done(ctx, c) /\ ctx.calls[c].stage = "open"
  BY Facts DEF Good, Ends, Done
<1>2. CASE ctx.calls[c].kind = "section"
  <2>1. c \in Sections(ctx)
    BY <1>2 DEF Sections
  <2>2. c \in Entered(ctx)
    BY <1>1, <2>1, DoneFacts
  <2>3. CASE throws
    <3>1. ctx' = Fail(ctx, c) /\ writers' = writers
      BY <1>2, <2>3 DEF Ends, storage
    <3> QED
      BY <1>1, <2>2, <3>1, KeptFail
  <2>4. CASE ~throws
    <3> DEFINE r == Succeed(ctx, c)
    <3>1. HasFree(ctx.tasks) /\ ctx' = r /\ writers' = writers
      BY <1>2, <2>4 DEF Ends, storage
    <3>2. Good(r) /\ ~r.aborted /\ SameTurn(ctx, r)
      BY <1>1, <2>1, <3>1, SucceedKeeps
    <3> QED
      BY <3>1, <3>2 DEF Kept
  <2> QED
    BY <2>3, <2>4
<1>3. CASE ctx.calls[c].kind # "section"
  <2> DEFINE x == IF ctx.calls[c].kind = "entry" THEN [ctx.calls[c] EXCEPT !.stage = "replying", !.needs = written]
                  ELSE [ctx.calls[c] EXCEPT !.stage = "over"]
             C == [ctx.calls EXCEPT ![c] = x]
             r == [ctx EXCEPT !.calls = C]
  <2>1. writers' = writers /\ (ctx' = r \/ ctx' = Ended(r, "event"))
    <3>1. CASE ctx.calls[c].kind = "entry"
      BY <3>1, <1>1 DEF Ends, storage, Contexts
    <3>2. CASE ctx.calls[c].kind # "entry"
      BY <3>2, <1>3, <1>1 DEF Ends, storage, Contexts
    <3> QED
      BY <3>1, <3>2
  <2>2. /\ x \in Call /\ x.kind = ctx.calls[c].kind /\ x.origin = ctx.calls[c].origin /\ x.by = ctx.calls[c].by
        /\ x.parent = ctx.calls[c].parent /\ x.above = ctx.calls[c].above /\ x.holds = ctx.calls[c].holds
        /\ x.stage \in {"over", "replying"}
    BY <1>1 DEF Call, CallStages
  <2>3. c \notin Sections(ctx) /\ ctx.calls[c].stage # "free"
    BY <1>1, <1>3 DEF Sections
  <2> HIDE DEF x
  <2>6. C \in [Calls -> Call] /\ C[c] = x /\ \A d \in Calls \ {c} : C[d] = ctx.calls[d]
    BY <1>1, <2>2 DEF Contexts
  <2> HIDE DEF C
  <2>4. CallsStep(ctx, r) /\ CallsStep(ctx, Ended(r, "event"))
    BY <2>2, <2>3, <2>6, CallOver
  <2> HIDE DEF r
  <2>5. Kept(ctx, r) /\ Kept(ctx, Ended(r, "event"))
    BY <2>4, KeptCalls
  <2> QED
    BY <2>1, <2>5
<1> QED
  BY <1>2, <1>3

\* Calls are answered within the invariant.
LEMMA ReplyKeeps ==
  ASSUME Good(ctx), ~ctx.aborted, NEW c \in Calls, Replies(c)
  PROVE  Kept(ctx, ctx') /\ writers' = writers
<1> DEFINE x == [ctx.calls[c] EXCEPT !.stage = "over"]
           C == [ctx.calls EXCEPT ![c] = x]
           r == [ctx EXCEPT !.calls = C]
<1>1. ctx \in Contexts /\ ctx.calls[c] \in Call /\ ctx.calls[c].stage = "replying"
  BY Facts DEF Good, Replies
<1>2. writers' = writers /\ ctx' = Ended(r, "event")
  BY <1>1 DEF Replies, storage, Contexts
<1>3. /\ x \in Call /\ x.kind = ctx.calls[c].kind /\ x.origin = ctx.calls[c].origin /\ x.by = ctx.calls[c].by
      /\ x.parent = ctx.calls[c].parent /\ x.above = ctx.calls[c].above /\ x.holds = ctx.calls[c].holds
      /\ x.stage \in {"over", "replying"}
  BY <1>1 DEF Call, CallStages
<1>4. ctx.calls[c].stage \notin {"free", "open", "stuck", "failed"}
  BY <1>1
<1> HIDE DEF x
<1>7. C \in [Calls -> Call] /\ C[c] = x /\ \A d \in Calls \ {c} : C[d] = ctx.calls[d]
  BY <1>1, <1>3 DEF Contexts
<1> HIDE DEF C
<1>5. CallsStep(ctx, Ended(r, "event"))
  BY <1>3, <1>4, <1>7, CallOver
<1> HIDE DEF r
<1>6. Kept(ctx, Ended(r, "event"))
  BY <1>5, KeptCalls
<1> QED
  BY <1>2, <1>6

\* The constructor that throws aborts the actor, as the host and its code may.
LEMMA AbortStep ==
  ASSUME Good(ctx), ~ctx.aborted,
         \/ Broke \/ AbortedByHost \/ \E t \in Tasks : AbortedByCode(t)
         \/ \E c \in Calls : ctx.calls[c].kind = "start" /\ Ends(c, TRUE)
  PROVE  Dead(ctx') /\ writers' = {} /\ written' = written
<1>1. ASSUME NEW s, s \in Contexts, ~s.aborted, Aborts(s)
      PROVE  Dead(ctx') /\ writers' = {} /\ written' = written
  <2>1. ctx' = Abort(s) /\ writers' = {} /\ written' = written
    BY <1>1 DEF Aborts
  <2>2. Dead(Abort(s))
    BY <1>1, AbortDies
  <2> QED
    BY <2>1, <2>2
<1>2. ctx \in Contexts
  BY DEF Good
<1>3. CASE Broke \/ AbortedByHost \/ \E t \in Tasks : AbortedByCode(t)
  <2>1. Aborts(ctx)
    BY <1>3 DEF Broke, AbortedByHost, AbortedByCode
  <2> QED
    BY <1>1, <1>2, <2>1
<1>4. ASSUME NEW c \in Calls, ctx.calls[c].kind = "start", Ends(c, TRUE)
      PROVE  Dead(ctx') /\ writers' = {} /\ written' = written
  <2> DEFINE x == [ctx.calls[c] EXCEPT !.stage = "over"]
             C == [ctx.calls EXCEPT ![c] = x]
             r == [ctx EXCEPT !.calls = C]
             q == Ended(r, "event")
  <2>1. ctx.calls[c] \in Call /\ ctx.calls[c].stage = "open"
    BY <1>2, <1>4, Facts DEF Ends, Done
  <2>2. Aborts(q)
    BY <1>2, <1>4, <2>1 DEF Ends, Contexts
  <2>3. /\ x \in Call /\ x.kind = ctx.calls[c].kind /\ x.origin = ctx.calls[c].origin /\ x.by = ctx.calls[c].by
        /\ x.parent = ctx.calls[c].parent /\ x.above = ctx.calls[c].above /\ x.holds = ctx.calls[c].holds
        /\ x.stage \in {"over", "replying"}
    BY <2>1 DEF Call, CallStages
  <2>4. c \notin Sections(ctx)
    BY <1>4 DEF Sections
  <2> HIDE DEF x
  <2>8. C \in [Calls -> Call] /\ C[c] = x /\ \A d \in Calls \ {c} : C[d] = ctx.calls[d]
    BY <1>2, <2>3 DEF Contexts
  <2> HIDE DEF C
  <2>5. CallsStep(ctx, Ended(r, "event"))
    BY <2>1, <2>3, <2>4, <2>8, CallOver
  <2>6. CallsStep(ctx, q)
    BY <2>5
  <2> HIDE DEF q
  <2>7. q \in Contexts /\ ~q.aborted
    BY <2>6 DEF CallsStep
  <2> QED
    BY <1>1, <2>2, <2>7
<1> QED
  BY <1>3, <1>4

\* The rest of what happens to a live context.
LEMMA OtherActions ==
  ASSUME Good(ctx), ~ctx.aborted,
         \/ \E kind \in {"start", "entry", "run"} : Event(kind)
         \/ \E k \in Calls : Deadline(k)
         \/ Confirmed \/ CommitFails \/ UNCHANGED vars
  PROVE  Kept(ctx, ctx') /\ writers' = writers
<1>1. ctx \in Contexts /\ StageInv(ctx) /\ Kept(ctx, ctx)
  BY DEF Good, Kept, SameTurn
<1>2. CASE UNCHANGED vars \/ Confirmed
  BY <1>1, <1>2 DEF vars, storage, Confirmed
<1>3. ASSUME NEW kind \in {"start", "entry", "run"}, Event(kind)
      PROVE  Kept(ctx, ctx') /\ writers' = writers
  <2> DEFINE s == NewTask(NewCall(kind, 0), "event", Fresh(ctx.calls), Root, NoLock)
             r == Wait(Begun(s, "event"), Fresh(ctx.tasks))
  <2>1. HasFree(ctx.calls) /\ HasFree(ctx.tasks) /\ ctx' = r /\ writers' = writers
    BY <1>1, <1>3, RoomIsFree DEF Event, storage
  <2>2. Good(r) /\ ~r.aborted /\ SameTurn(ctx, r)
    BY <2>1, EventKeeps
  <2> QED
    BY <2>1, <2>2 DEF Kept
<1>4. ASSUME NEW k \in Calls, Deadline(k) PROVE Kept(ctx, ctx') /\ writers' = writers
  <2>1. k \in Entered(ctx) /\ ctx.calls[k].stage \in {"open", "stuck"} /\ ctx' = Fail(ctx, k) /\ writers' = writers
    BY <1>4 DEF Deadline, Entered, storage
  <2> QED
    BY <2>1, KeptFail
<1>5. CASE CommitFails
  <2> DEFINE r == [ctx EXCEPT !.breaking = TRUE]
  <2>1. ctx' = r /\ writers' = writers
    BY <1>5 DEF CommitFails, storage
  <2>2. CallsStep(ctx, r)
    BY <1>1 DEF CallsStep, Contexts, SameTree, SameLines, SameFrames
  <2> HIDE DEF r
  <2>3. Kept(ctx, r)
    BY <2>2, KeptCalls
  <2> QED
    BY <2>1, <2>3
<1> QED
  BY <1>2, <1>3, <1>4, <1>5

-----------------------------------------------------------------------------
(***************************************************************************)
(* The theorems                                                            *)
(***************************************************************************)

\* The writes stay those of the events in the checkpoint.
LEMMA WritersKept ==
  ASSUME Good(ctx), WritersInv(ctx), Kept(ctx, ctx'), writers' = writers
  PROVE  WritersInv(ctx)'
<1>1. SameTurn(ctx, ctx')
  BY DEF Kept
<1>2. ASSUME NEW w \in writers PROVE \E t \in ToSet(ctx'.frames) : w = CallOf(ctx', t).origin
  <2>1. PICK t \in ToSet(ctx.frames) : w = CallOf(ctx, t).origin
    BY DEF WritersInv
  <2>2. t \in ToSet(ctx'.frames) /\ CallOf(ctx', t).origin = CallOf(ctx, t).origin
    BY <1>1, <2>1 DEF SameTurn
  <2> QED
    BY <2>1, <2>2
<1> QED
  BY <1>2 DEF WritersInv, CallOf

\* A slice writes.
LEMMA WritesKeep ==
  ASSUME Good(ctx), WritersInv(ctx), NEW t \in Tasks, Writes(t), written \in Int
  PROVE  WritersInv(ctx)' /\ ctx' = ctx /\ written' \in Int
<1>1. ctx' = ctx /\ writers' = writers \cup {CallOf(ctx, t).origin} /\ Running(t)
      /\ written' = (IF writers = {} THEN written + 1 ELSE written)
  BY DEF Writes, Asks, CallOf
<1>2. t \in ToSet(ctx.frames)
  BY <1>1, AskFacts
<1>3. \A w \in writers' : \E u \in ToSet(ctx.frames) : w = CallOf(ctx, u).origin
  BY <1>1, <1>2 DEF WritersInv
<1>4. \A w \in writers' : \E u \in ToSet(ctx'.frames) : w = CallOf(ctx', u).origin
  BY <1>1, <1>3
<1> QED
  BY <1>1, <1>4 DEF WritersInv, CallOf

\* The end of the checkpoint.
LEMMA ExitStep ==
  ASSUME Good(ctx), ~ctx.aborted, CheckpointEnd
  PROVE  Good(ctx') /\ ~ctx'.aborted /\ writers' = {} /\ written' = written
<1> DEFINE r == Exit(ctx, ToSet(ctx.frames))
<1>1. /\ Drained /\ ctx.frames # <<>> /\ ctx' = r /\ writers' = {} /\ written' = written
  BY DEF CheckpointEnd, Commits
<1>2. /\ ~ctx.breaking /\ \A k \in Calls : ~Done(ctx, k)
      /\ \A t \in Tasks : ctx.tasks[t].stage \notin {"granted", "running"}
  BY <1>1 DEF Drained
<1>3. Good(r) /\ ~r.aborted
  BY <1>1, <1>2, ExitKeeps
<1> QED
  BY <1>1, <1>3

\* Transactions are counted.
LEMMA WrittenKept ==
  ASSUME written \in Int, [Next]_vars
  PROVE  written' \in Int
<1>1. CASE UNCHANGED vars
  BY <1>1 DEF vars, storage
<1>2. ASSUME NEW kind, Event(kind) PROVE written' \in Int
  BY <1>2 DEF Event, storage
<1>3. ASSUME NEW t \in Tasks, Code(t) \/ Settles(t) \/ Starts(t) \/ Returns(t)
      PROVE  written' \in Int
  <2>1. CASE AwaitIo(t) \/ AwaitIoWithInputLock(t)
    BY <2>1 DEF AwaitIo, AwaitIoWithInputLock, storage
  <2>2. CASE Writes(t)
    BY <2>2 DEF Writes
  <2>3. CASE SetTimeout(t) \/ BlockConcurrencyWhile(t)
    BY <2>3 DEF SetTimeout, BlockConcurrencyWhile, storage
  <2>4. CASE AbortedByCode(t)
    BY <2>4 DEF AbortedByCode, Aborts
  <2>5. CASE \E u \in Tasks : ClearTimeout(t, u)
    BY <2>5 DEF ClearTimeout, storage
  <2>6. CASE Settles(t) \/ Starts(t) \/ Returns(t)
    BY <2>6 DEF Settles, Starts, Returns, storage
  <2> QED
    BY <1>3, <2>1, <2>2, <2>3, <2>4, <2>5, <2>6 DEF Code
<1>4. ASSUME NEW c \in Calls, NEW throws \in BOOLEAN, Ends(c, throws) PROVE written' = written
  BY <1>4 DEF Ends, Aborts, storage
<1>5. ASSUME NEW c \in Calls, Replies(c) \/ Deadline(c) PROVE written' = written
  BY <1>5 DEF Replies, Deadline, storage
<1>6. CASE Broke \/ CheckpointEnd \/ Confirmed \/ CommitFails \/ AbortedByHost
  BY <1>6 DEF Broke, CheckpointEnd, Confirmed, CommitFails, AbortedByHost, Aborts, storage
<1> QED
  BY <1>1, <1>2, <1>3, <1>4, <1>5, <1>6 DEF Next, Continuation

\* A step of a context that is not aborted.
LEMMA LiveStep ==
  ASSUME Good(ctx), ~ctx.aborted, WritersInv(ctx), written \in Int, [Next]_vars
  PROVE  IInv'
<1> DEFINE Keeps == Kept(ctx, ctx') /\ writers' = writers
           Dies  == Dead(ctx') /\ writers' = {}
<1>1. written' \in Int
  BY WrittenKept
<1>2. ASSUME Keeps PROVE IInv'
  <2>1. WritersInv(ctx)'
    BY <1>2, WritersKept
  <2> QED
    BY <1>1, <1>2, <2>1 DEF IInv, Kept
<1>3. ASSUME Dies PROVE IInv'
  BY <1>1, <1>3 DEF IInv, Dead
<1>4. CASE UNCHANGED vars \/ Confirmed \/ CommitFails
  BY <1>2, <1>4, OtherActions
<1>5. CASE Broke \/ AbortedByHost
  BY <1>3, <1>5, AbortStep
<1>6. CASE CheckpointEnd
  <2>1. Good(ctx') /\ ~ctx'.aborted /\ writers' = {}
    BY <1>6, ExitStep
  <2> QED
    BY <1>1, <2>1 DEF IInv, WritersInv
<1>7. ASSUME NEW kind \in {"start", "entry", "run"}, Event(kind) PROVE IInv'
  BY <1>2, <1>7, OtherActions
<1>8. ASSUME NEW k \in Calls, Deadline(k) PROVE IInv'
  BY <1>2, <1>8, OtherActions
<1>9. ASSUME NEW c \in Calls, Replies(c) PROVE IInv'
  BY <1>2, <1>9, ReplyKeeps
<1>10. ASSUME NEW c \in Calls, NEW throws \in BOOLEAN, Ends(c, throws) PROVE IInv'
  <2>1. CASE ctx.calls[c].kind = "start" /\ throws
    <3>1. Ends(c, TRUE)
      BY <1>10, <2>1
    <3> QED
      BY <1>3, <2>1, <3>1, AbortStep
  <2>2. CASE ~(ctx.calls[c].kind = "start" /\ throws)
    BY <1>2, <1>10, <2>2, EndKeeps
  <2> QED
    BY <2>1, <2>2
<1>11. ASSUME NEW t \in Tasks, Starts(t) \/ Returns(t) \/ Settles(t) PROVE IInv'
  BY <1>2, <1>11, TaskActions
<1>12. ASSUME NEW t \in Tasks, Code(t) PROVE IInv'
  <2>1. CASE Writes(t)
    <3>1. WritersInv(ctx)' /\ ctx' = ctx
      BY <2>1, WritesKeep
    <3> QED
      BY <1>1, <3>1 DEF IInv
  <2>2. CASE AbortedByCode(t)
    BY <1>3, <2>2, AbortStep
  <2>3. CASE ~Writes(t) /\ ~AbortedByCode(t)
    BY <1>2, <1>12, <2>3, CodeKeeps DEF Code
  <2> QED
    BY <2>1, <2>2, <2>3
<1> QED
  BY <1>4, <1>5, <1>6, <1>7, <1>8, <1>9, <1>10, <1>11, <1>12 DEF Next, Continuation

\* A new context is good.
LEMMA InitGood == Init => IInv
<1> SUFFICES ASSUME Init PROVE IInv
  OBVIOUS
<1>1. /\ ctx.tasks = [t \in Tasks |-> NoTask] /\ ctx.calls = [c \in Calls |-> NoCall]
      /\ ctx.waitingChildren = [g \in Gates |-> <<>>] /\ ctx.waiters = [g \in Gates |-> <<>>]
      /\ ctx.scope = [g \in Gates |-> g] /\ ctx.broken = {} /\ ctx.frames = <<>> /\ ctx.timers = {}
      /\ ctx.aborted = FALSE /\ written = 0 /\ writers = {}
  BY DEF Init
<1>2. NoTask \in Task /\ NoCall \in Call /\ Calls \subseteq Gates /\ Root \in Gates /\ Root \notin Calls /\ NoLock \notin Gates
  BY IoContextAssumption
     DEF NoTask, NoCall, Task, Call, Kinds, Stages, CallKinds, CallStages, Calls, Gates, Root, NoLock
<1>3. <<>> \in Seq(Tasks) /\ ToSet(<<>>) = {}
  BY DEF ToSet
<1>4. ctx \in Contexts
  BY <1>2, <1>3 DEF Init, Contexts
<1>5. /\ \A t \in Tasks : ctx.tasks[t] = NoTask /\ ~HasLock(ctx, t) /\ ~Busy(ctx, t)
      /\ \A c \in Calls : ctx.calls[c] = NoCall
      /\ Holders(ctx) = {} /\ Held(ctx) = {} /\ Entered(ctx) = {} /\ Sections(ctx) = {}
  BY <1>1 DEF NoTask, NoCall, HasLock, Busy, Holders, Held, Entered, Sections
<1>6. StageInv(ctx)
  BY <1>1, <1>3, <1>5 DEF StageInv, StageOf, NoTask
<1>7. CallsInv(ctx)
  BY <1>1, <1>5 DEF CallsInv, MadeInOrder, GatesOf, NoCall
<1>8. ScopeInv(ctx) /\ HomesInv(ctx)
  BY <1>1, <1>2, <1>5 DEF ScopeInv, HomesInv
<1>9. ChainInv(ctx)
  BY <1>5 DEF ChainInv
<1>10. QueueInv(ctx)
  BY <1>1, <1>3, <1>5 DEF QueueInv, LinesInv, Single, BodyOf, NoTask
<1>11. OpenInv(ctx) /\ DoneInv(ctx) /\ TurnInv(ctx)
  BY <1>5 DEF OpenInv, DoneInv, TurnInv
<1> QED
  BY <1>1, <1>4, <1>6, <1>7, <1>8, <1>9, <1>10, <1>11 DEF IInv, Good, WritersInv

\* The invariant is inductive.
LEMMA Inductive == IInv /\ [Next]_vars => IInv'
<1> SUFFICES ASSUME IInv, [Next]_vars PROVE IInv'
  OBVIOUS
<1>1. written' \in Int
  BY WrittenKept DEF IInv
<1>2. CASE ctx.aborted
  <2>1. Dead(ctx) /\ writers = {}
    BY <1>2 DEF IInv
  <2>2. Quiet(ctx, ctx') /\ writers' = {}
    BY <2>1, QuietStep
  <2> QED
    BY <1>1, <2>2 DEF IInv, Quiet, Dead
<1>3. CASE ~ctx.aborted
  BY <1>3, LiveStep DEF IInv
<1> QED
  BY <1>2, <1>3

\* The inductive invariant of the turns: stages, calls, gates, queues and their holders.
THEOREM Turns == Spec => []IInv
<1> QED
  BY InitGood, Inductive, PTL DEF Spec

\* Writers are events of slices, which have locks, and these are of one event.
LEMMA OneWriter == IInv => OneTransactionPerEvent
<1> SUFFICES ASSUME IInv PROVE Cardinality(writers) <= 1
  BY DEF OneTransactionPerEvent
<1>1. ASSUME NEW v \in writers, NEW w \in writers PROVE v = w
  <2>1. Good(ctx) /\ WritersInv(ctx)
    BY DEF IInv
  <2>2. PICK t \in ToSet(ctx.frames) : v = CallOf(ctx, t).origin
    BY <2>1 DEF WritersInv
  <2>3. PICK u \in ToSet(ctx.frames) : w = CallOf(ctx, u).origin
    BY <2>1 DEF WritersInv
  <2>4. {t, u} \subseteq Holders(ctx)
    <3>1. ToSet(ctx.frames) \subseteq Tasks /\ StageInv(ctx)
      BY <2>1 DEF Good, Contexts, ToSet
    <3> QED
      BY <2>2, <2>3, <3>1 DEF StageInv, StageOf, Holders
  <2> QED
    BY <2>1, <2>2, <2>3, <2>4 DEF Good, TurnInv
<1>2. CASE writers = {}
  BY <1>2, FS_EmptySet
<1>3. CASE writers # {}
  <2>1. PICK w : writers = {w}
    BY <1>1, <1>3
  <2>2. Cardinality({w}) = 1
    BY FS_Singleton
  <2> QED
    BY <2>1, <2>2
<1> QED
  BY <1>2, <1>3

\* An implicit transaction has the writes of one event (io-context.ts, atCheckpointEnd()).
THEOREM TransactionsAreOfOneEvent == Spec => []OneTransactionPerEvent
<1> QED
  BY Turns, OneWriter, PTL

\* The slice that starts does so under the lock that a storage operation kept.
Uninterrupted ==
  \A t, u \in Tasks :
    /\ ctx.tasks[t].stage = "granted" /\ ctx'.tasks[t].stage = "running"
    /\ ctx.tasks[u].kind = "held" /\ ctx.tasks[u].stage = "outside" /\ u # t
    => /\ ctx.tasks[t].kind = "held" /\ ctx.tasks[t].call = ctx.tasks[u].call

\* A kept lock is the lock of a turn.
LEMMA NoSliceBetween == IInv /\ [Next]_vars => Uninterrupted
<1> SUFFICES ASSUME IInv, [Next]_vars, NEW t \in Tasks, NEW u \in Tasks,
                    ctx.tasks[t].stage = "granted", ctx'.tasks[t].stage = "running",
                    ctx.tasks[u].kind = "held", ctx.tasks[u].stage = "outside", u # t
             PROVE  ctx.tasks[t].kind = "held" /\ ctx.tasks[t].call = ctx.tasks[u].call
  BY DEF Uninterrupted
<1>1. ~ctx.aborted
  <2>1. ASSUME ctx.aborted PROVE FALSE
    <3>1. Quiet(ctx, ctx')
      BY <2>1, QuietStep DEF IInv
    <3> QED
      BY <3>1 DEF Quiet
  <2> QED
    BY <2>1
<1>2. Good(ctx)
  BY <1>1 DEF IInv
<1>3. {t, u} \subseteq Holders(ctx)
  BY <1>2 DEF Good, StageInv, StageOf, Holders
<1>4. /\ ctx.tasks[t].call = ctx.tasks[u].call \/ Spent(ctx, t) \/ Spent(ctx, u)
      /\ ctx.tasks[t].kind # "held" => u = t
  BY <1>2, <1>3 DEF Good, TurnInv
<1> QED
  BY <1>4 DEF Spent

\* Between a storage operation and its continuation no slice of other work starts
\* (io-context.ts, awaitIoWithInputLock()).
THEOREM StretchesAreUninterrupted == Spec => StretchIsUninterrupted
<1>1. IInv /\ [Next]_vars => [Uninterrupted]_vars
  BY NoSliceBetween
<1> QED
  BY <1>1, Turns, PTL DEF Spec, StretchIsUninterrupted, Uninterrupted

-----------------------------------------------------------------------------
(***************************************************************************)
(* The continuations of awaits: the inductive invariant.                   *)
(***************************************************************************)

WorkKinds  == {"none", "event", "await", "loop", "then"}
WorkStages == {"free", "queued", "granted", "waiting", "settled", "task", "resuming"}
Items  == [kind : WorkKinds, stage : WorkStages, owner : Actors \cup {None}, actor : Actors \cup {None},
           held : BOOLEAN]

TypeInv ==
  /\ work \in [Publication!Work -> Items]
  /\ gate \in [Actors -> [locks : Nat, queue : Seq(Publication!Work)]]
  /\ frames \in [Actors -> Nat]
  /\ jobs \in Seq(Publication!Work)
  /\ continuation \in Actors \cup {None} /\ publication \in Publication!Work \cup {0}

\* A piece of work captured its own actor, and keeps a lock only for a later task.
WorkInv ==
  \A w \in Publication!Work :
    /\ work[w].actor = work[w].owner
    /\ work[w].owner \in (IF work[w].stage = "free" THEN {None} ELSE Actors)
    /\ work[w].held => work[w].stage \in {"task", "granted"}

\* The microtasks of a checkpoint belong to one actor, which has a lock.  What is not an
\* await finds its actor current.
JobsInv ==
  /\ \A i, j \in 1..Len(jobs) : jobs[i] = jobs[j] => i = j
  /\ \A i, j \in 1..Len(jobs) : work[jobs[i]].owner = work[jobs[j]].owner
  /\ \A i \in 1..Len(jobs) :
       /\ work[jobs[i]].stage = "resuming" /\ Publication!HasCurrent(work[jobs[i]].owner)
       /\ continuation \in {None, work[jobs[i]].owner}
       /\ work[jobs[i]].kind # "await" => continuation = work[jobs[i]].owner

\* A marker of the realm is live, a reservation is for an await that will go on, and while
\* work will go on there is one or the other.
MarkerInv ==
  /\ continuation # None => Publication!HasCurrent(continuation)
  /\ publication # 0 =>
       work[publication].kind = "await" /\ \E i \in 1..Len(jobs) : jobs[i] = publication
  /\ jobs # <<>> /\ publication = 0 => continuation # None

\* The work that has a lock of actor a, besides its slices.
Keeps(w, a) == work[w].actor = a /\ (work[w].stage = "granted" \/ work[w].held)
Keepers(a)  == {w \in Publication!Work : Keeps(w, a)}
CountOf(a)  == gate[a].locks = frames[a] + Cardinality(Keepers(a))

\* Work that was admitted is alone with its actor until it goes on.
NewOf(a) ==
  \A w \in Publication!Work :
    work[w].actor = a /\ work[w].stage = "granted" /\ ~work[w].held => gate[a].locks = 1

QueueOf(a) ==
  /\ \A i, j \in 1..Len(gate[a].queue) : gate[a].queue[i] = gate[a].queue[j] => i = j
  /\ \A i \in 1..Len(gate[a].queue) :
       work[gate[a].queue[i]].stage = "queued" /\ work[gate[a].queue[i]].actor = a

LocksInv == \A a \in Actors : CountOf(a) /\ NewOf(a) /\ QueueOf(a)

PublicationInv == TypeInv /\ WorkInv /\ JobsInv /\ MarkerInv /\ LocksInv

-----------------------------------------------------------------------------
(***************************************************************************)
(* Locks.                                                                  *)
(***************************************************************************)

\* The assumption of the instance.
LEMMA PublicationBounds ==
  None \notin Actors /\ {MaxWork, MaxAwaits, MaxFrames, MaxAborts} \subseteq Nat
<1> QED
  BY PublicationAssumption DEF Publication!GatePublicationAssumption

\* The work there can be is finite.
LEMMA WorkIsFinite ==
  /\ Publication!Work \subseteq Nat \ {0}
  /\ \A S \in SUBSET Publication!Work : IsFiniteSet(S) /\ Cardinality(S) \in Nat
<1>1. MaxWork \in Nat /\ Publication!Work = 1..MaxWork
  BY PublicationBounds DEF Publication!Work
<1>2. IsFiniteSet(Publication!Work)
  BY <1>1, FS_Interval
<1>3. ASSUME NEW S \in SUBSET Publication!Work PROVE IsFiniteSet(S) /\ Cardinality(S) \in Nat
  BY <1>2, FS_Subset, FS_CardinalityType
<1> QED
  BY <1>1, <1>3

\* Nobody else has a lock of the actor of work that was admitted.
LEMMA NewIsAlone ==
  ASSUME TypeInv, LocksInv, NEW a \in Actors, NEW w \in Publication!Work, work[w].actor = a,
         work[w].stage = "granted", ~work[w].held
  PROVE  frames[a] = 0 /\ Keepers(a) = {w} /\ gate[a].locks = 1
<1>1. gate[a].locks = 1 /\ gate[a].locks = frames[a] + Cardinality(Keepers(a))
  BY DEF LocksInv, NewOf, CountOf
<1>2. w \in Keepers(a) /\ Keepers(a) \in SUBSET Publication!Work
  BY DEF Keepers, Keeps
<1>3. IsFiniteSet(Keepers(a)) /\ Cardinality(Keepers(a)) \in Nat /\ frames[a] \in Nat
  BY <1>2, WorkIsFinite DEF TypeInv
<1>4. Cardinality(Keepers(a)) # 0
  BY <1>2, <1>3, FS_EmptySet
<1>5. Cardinality(Keepers(a)) = 1 /\ frames[a] = 0
  BY <1>1, <1>3, <1>4
<1>6. \E x : Keepers(a) = {x}
  BY <1>3, <1>5, FS_Singleton
<1> QED
  BY <1>1, <1>2, <1>5, <1>6

\* An actor that a step leaves alone.
LEMMA Untouched ==
  ASSUME NEW a \in Actors, LocksInv, gate'[a] = gate[a], frames'[a] = frames[a], TypeInv,
         \A v \in Publication!Work : work[v].actor = a \/ work'[v].actor = a => work'[v] = work[v]
  PROVE  CountOf(a)' /\ NewOf(a)' /\ QueueOf(a)'
<1>1. \A v \in Publication!Work : Keeps(v, a)' <=> Keeps(v, a)
  BY DEF Keeps
<1>2. Keepers(a)' = Keepers(a)
  BY <1>1 DEF Keepers
<1>3. CountOf(a)' /\ NewOf(a)'
  BY <1>2 DEF LocksInv, CountOf, NewOf
<1>4. QueueOf(a)'
  <2>1. gate[a].queue \in Seq(Publication!Work)
    BY DEF TypeInv
  <2>2. \A i \in 1..Len(gate[a].queue) : gate[a].queue[i] \in Publication!Work
    BY <2>1, ElementOfSeq
  <2> QED
    BY <2>2 DEF LocksInv, QueueOf
<1> QED
  BY <1>3, <1>4

\* n locks of actor a are released, and K has what is kept for later tasks.
LEMMA Released ==
  ASSUME TypeInv, NEW a \in Actors, QueueOf(a), NEW n \in Nat, NEW K \in SUBSET Publication!Work,
         frames'[a] \in Nat, gate[a].locks = n + frames'[a] + Cardinality(K),
         gate'[a] = Publication!Release(gate[a], n),
         \A v \in Publication!Work : work[v].stage = "queued" /\ work[v].actor = a =>
           work'[v] = IF v \in Publication!Heir(a, n) THEN [work[v] EXCEPT !.stage = "granted"] ELSE work[v],
         \A v \in Publication!Work : Keeps(v, a)' <=> v \in K \/ v \in Publication!Heir(a, n),
         \A v \in K : work'[v].held
  PROVE  CountOf(a)' /\ NewOf(a)' /\ QueueOf(a)'
<1>1. /\ gate[a].locks \in Nat /\ gate[a].queue \in Seq(Publication!Work)
      /\ gate[a] = [locks |-> gate[a].locks, queue |-> gate[a].queue]
      /\ IsFiniteSet(K) /\ Cardinality(K) \in Nat
  BY WorkIsFinite DEF TypeInv
<1>2. PICK q \in Seq(Publication!Work) : q = gate[a].queue
  BY <1>1
<1>3. /\ \A i \in 1..Len(q) : q[i] \in Publication!Work /\ work[q[i]].stage = "queued" /\ work[q[i]].actor = a
      /\ \A i, j \in 1..Len(q) : q[i] = q[j] => i = j
  BY <1>2, ElementOfSeq DEF QueueOf
<1>4. CASE gate[a].locks > n \/ q = <<>>
  <2>1. Publication!Heir(a, n) = {} /\ gate'[a].locks = gate[a].locks - n /\ gate'[a].queue = q
    BY <1>1, <1>2, <1>4 DEF Publication!Heir, Publication!Release
  <2>2. Keepers(a)' = K
    BY <2>1 DEF Keepers
  <2>3. CountOf(a)'
    BY <1>1, <2>1, <2>2 DEF CountOf
  <2>4. NewOf(a)'
    BY <2>1 DEF NewOf, Keeps
  <2>5. QueueOf(a)'
    BY <1>3, <2>1 DEF QueueOf
  <2> QED
    BY <2>3, <2>4, <2>5
<1>5. CASE ~(gate[a].locks > n) /\ q # <<>>
  <2>1. PICK h \in Publication!Work : h = Head(q) /\ h = q[1]
    BY <1>5, HeadTailProperties
  <2>2. Publication!Heir(a, n) = {h} /\ gate'[a].locks = 1 /\ gate'[a].queue = Tail(q)
    BY <1>2, <1>5, <2>1 DEF Publication!Heir, Publication!Release
  <2>3. frames'[a] = 0 /\ Cardinality(K) = 0
    BY <1>1, <1>5
  <2>4. K = {}
    BY <1>1, <2>3, FS_EmptySet
  <2>5. Keepers(a)' = {h}
    BY <2>2, <2>4 DEF Keepers
  <2>6. CountOf(a)' /\ NewOf(a)'
    <3>1. Cardinality(Keepers(a)') = 1
      BY <2>5, FS_Singleton
    <3> QED
      BY <2>2, <2>3, <3>1 DEF CountOf, NewOf
  <2>7. /\ Len(q) \in Nat /\ Len(q) >= 1 /\ Len(Tail(q)) = Len(q) - 1
        /\ \A i \in 1..Len(Tail(q)) : Tail(q)[i] = q[i + 1] /\ i + 1 \in 1..Len(q)
    BY <1>5, LenProperties, EmptySeq, HeadTailProperties
  <2>8. ASSUME NEW i \in 1..Len(Tail(q)) PROVE work'[Tail(q)[i]] = work[q[i + 1]]
    <3>1. q[i + 1] # h
      BY <1>3, <2>1, <2>7, <2>8
    <3>2. PICK x \in Publication!Work : /\ x = q[i + 1] /\ x = Tail(q)[i] /\ x # h
                           /\ work[x].stage = "queued" /\ work[x].actor = a
      BY <1>3, <2>7, <2>8, <3>1
    <3>3. work'[x] = work[x]
      BY <2>2, <3>2
    <3> QED
      BY <3>2, <3>3
  <2>9. QueueOf(a)'
    <3>1. \A i \in 1..Len(Tail(q)) :
            work'[Tail(q)[i]].stage = "queued" /\ work'[Tail(q)[i]].actor = a
      BY <1>3, <2>7, <2>8
    <3>2. ASSUME NEW i \in 1..Len(Tail(q)), NEW j \in 1..Len(Tail(q)), Tail(q)[i] = Tail(q)[j]
          PROVE  i = j
      <4>1. i + 1 = j + 1
        BY <1>3, <2>7, <3>2
      <4> QED
        BY <2>7, <4>1
    <3> QED
      BY <2>2, <3>1, <3>2 DEF QueueOf
  <2> QED
    BY <2>6, <2>9
<1> QED
  BY <1>4, <1>5

\* One piece of work changes, and the locks of actor a change with it.
LEMMA OneMoves ==
  ASSUME TypeInv, LocksInv, NEW a \in Actors, NEW w \in Publication!Work,
         \A v \in Publication!Work : v # w => work'[v] = work[v], work[w].stage # "queued",
         gate'[a].queue = gate[a].queue, frames'[a] \in Nat,
         gate'[a].locks = gate[a].locks + (frames'[a] - frames[a])
                            + (IF Keeps(w, a)' THEN 1 ELSE 0) - (IF Keeps(w, a) THEN 1 ELSE 0),
         Keeps(w, a)' => work'[w].held,
         \A x \in Publication!Work : x # w /\ work[x].actor = a /\ work[x].stage = "granted" /\ ~work[x].held
           => gate'[a].locks = 1
  PROVE  CountOf(a)' /\ NewOf(a)' /\ QueueOf(a)'
<1>1. /\ Keepers(a) \in SUBSET Publication!Work /\ IsFiniteSet(Keepers(a)) /\ Cardinality(Keepers(a)) \in Nat
      /\ gate[a].locks = frames[a] + Cardinality(Keepers(a)) /\ frames[a] \in Nat
      /\ gate[a].queue \in Seq(Publication!Work)
  <2>1. Keepers(a) \in SUBSET Publication!Work
    BY DEF Keepers
  <2> QED
    BY <2>1, WorkIsFinite DEF LocksInv, CountOf, TypeInv
<1>2. \A v \in Publication!Work : v # w => (Keeps(v, a)' <=> Keeps(v, a))
  BY DEF Keeps
<1>3. Cardinality(Keepers(a)') =
        Cardinality(Keepers(a)) + (IF Keeps(w, a)' THEN 1 ELSE 0) - (IF Keeps(w, a) THEN 1 ELSE 0)
  <2>1. CASE Keeps(w, a)' <=> Keeps(w, a)
    <3>1. Keepers(a)' = Keepers(a)
      BY <1>2, <2>1 DEF Keepers
    <3> QED
      BY <1>1, <2>1, <3>1
  <2>2. CASE Keeps(w, a)' /\ ~Keeps(w, a)
    <3>1. Keepers(a)' = Keepers(a) \cup {w} /\ w \notin Keepers(a)
      BY <1>2, <2>2 DEF Keepers
    <3>2. Cardinality(Keepers(a) \cup {w}) = Cardinality(Keepers(a)) + 1
      BY <1>1, <3>1, FS_AddElement
    <3> QED
      BY <1>1, <2>2, <3>1, <3>2
  <2>3. CASE ~Keeps(w, a)' /\ Keeps(w, a)
    <3>1. Keepers(a)' = Keepers(a) \ {w} /\ w \in Keepers(a)
      BY <1>2, <2>3 DEF Keepers
    <3>2. Cardinality(Keepers(a) \ {w}) = Cardinality(Keepers(a)) - 1
      BY <1>1, <3>1, FS_RemoveElement
    <3> QED
      BY <1>1, <2>3, <3>1, <3>2
  <2> QED
    BY <2>1, <2>2, <2>3
<1>4. CountOf(a)'
  BY <1>1, <1>3 DEF CountOf
<1>5. NewOf(a)'
  BY DEF NewOf, Keeps
<1>6. QueueOf(a)'
  <2>1. \A i \in 1..Len(gate[a].queue) : gate[a].queue[i] \in Publication!Work /\ gate[a].queue[i] # w
    BY <1>1, ElementOfSeq DEF LocksInv, QueueOf
  <2> QED
    BY <2>1 DEF LocksInv, QueueOf
<1> QED
  BY <1>4, <1>5, <1>6

\* The parts of the invariant about the other actors.
LEMMA OthersUntouched ==
  ASSUME TypeInv, LocksInv, NEW a \in Actors, NEW w \in Publication!Work,
         \A v \in Publication!Work : v # w => work'[v] = work[v],
         work[w].actor \in {a, None}, work'[w].actor \in {a, None},
         \A b \in Actors : b # a => gate'[b] = gate[b] /\ frames'[b] = frames[b],
         CountOf(a)' /\ NewOf(a)' /\ QueueOf(a)'
  PROVE  LocksInv'
<1>1. ASSUME NEW b \in Actors, b # a PROVE CountOf(b)' /\ NewOf(b)' /\ QueueOf(b)'
  <2>1. \A v \in Publication!Work : work[v].actor = b \/ work'[v].actor = b => work'[v] = work[v]
    BY <1>1, PublicationBounds
  <2> QED
    BY <1>1, <2>1, Untouched
<1>2. CountOf(a)' /\ NewOf(a)' /\ QueueOf(a)'
  OBVIOUS
<1>3. ASSUME NEW b \in Actors PROVE CountOf(b)' /\ NewOf(b)' /\ QueueOf(b)'
  BY <1>1, <1>2
<1> QED
  BY <1>3 DEF LocksInv

\* run() without a lock: an open gate has none, and a closed one queues it.
LEMMA Waits ==
  ASSUME TypeInv, LocksInv, NEW w \in Publication!Work, NEW item \in Items, item.actor \in Actors, ~item.held,
         work[w].stage \in {"free", "task"}, ~work[w].held,
         work[w].actor \in {item.actor, None}, Publication!Wait(w, item), UNCHANGED frames
  PROVE  LocksInv' /\ work' \in [Publication!Work -> Items] /\ gate' \in [Actors -> [locks : Nat, queue : Seq(Publication!Work)]]
<1>1. PICK a \in Actors : a = item.actor
  OBVIOUS
<1>2. /\ Keepers(a) \in SUBSET Publication!Work /\ IsFiniteSet(Keepers(a)) /\ Cardinality(Keepers(a)) \in Nat
      /\ gate[a].locks = frames[a] + Cardinality(Keepers(a)) /\ frames[a] \in Nat
      /\ gate[a].queue \in Seq(Publication!Work) /\ gate[a].locks \in Nat
      /\ gate[a] = [locks |-> gate[a].locks, queue |-> gate[a].queue]
  <2>1. Keepers(a) \in SUBSET Publication!Work
    BY DEF Keepers
  <2> QED
    BY <2>1, WorkIsFinite DEF LocksInv, CountOf, TypeInv
<1>3. PICK q \in Seq(Publication!Work) : q = gate[a].queue
  BY <1>2
<1>4. /\ \A i \in 1..Len(q) : q[i] \in Publication!Work /\ work[q[i]].stage = "queued" /\ work[q[i]].actor = a
      /\ \A i \in 1..Len(q) : q[i] # w
      /\ \A i, j \in 1..Len(q) : q[i] = q[j] => i = j
  BY <1>3, ElementOfSeq DEF LocksInv, QueueOf
<1>5. CASE gate[a].locks = 0
  <2>1. /\ gate' = [gate EXCEPT ![a].locks = 1]
        /\ work' = [work EXCEPT ![w] = [item EXCEPT !.stage = "granted"]]
    BY <1>1, <1>5 DEF Publication!Wait
  <2>2. /\ \A v \in Publication!Work : v # w => work'[v] = work[v]
        /\ work'[w].actor = a /\ work'[w].stage = "granted" /\ work' \in [Publication!Work -> Items]
    BY <1>1, <2>1 DEF TypeInv, Items, WorkStages
  <2>3. /\ gate'[a].locks = 1 /\ gate'[a].queue = q
        /\ \A b \in Actors : b # a => gate'[b] = gate[b]
        /\ gate' \in [Actors -> [locks : Nat, queue : Seq(Publication!Work)]]
    BY <1>3, <2>1 DEF TypeInv
  <2>4. Cardinality(Keepers(a)) = 0 /\ frames[a] = 0
    BY <1>2, <1>5
  <2>5. Keepers(a) = {}
    BY <1>2, <2>4, FS_EmptySet
  <2>6. Keepers(a)' = {w}
    <3>1. \A v \in Publication!Work : v # w => ~Keeps(v, a)'
      BY <2>2, <2>5 DEF Keepers, Keeps
    <3>2. Keeps(w, a)'
      BY <2>2 DEF Keeps
    <3> QED
      BY <3>1, <3>2 DEF Keepers
  <2>7. CountOf(a)' /\ NewOf(a)'
    <3>1. Cardinality(Keepers(a)') = 1
      BY <2>6, FS_Singleton
    <3> QED
      BY <2>3, <2>4, <3>1 DEF CountOf, NewOf
  <2>8. QueueOf(a)'
    BY <1>4, <2>2, <2>3 DEF QueueOf
  <2> QED
    BY <1>1, <2>2, <2>3, <2>7, <2>8, OthersUntouched
<1>6. CASE gate[a].locks # 0
  <2>1. /\ gate' = [gate EXCEPT ![a].queue = Append(@, w)]
        /\ work' = [work EXCEPT ![w] = [item EXCEPT !.stage = "queued"]]
    BY <1>1, <1>6 DEF Publication!Wait
  <2>2. /\ \A v \in Publication!Work : v # w => work'[v] = work[v]
        /\ work'[w].actor = a /\ work'[w].stage = "queued" /\ ~work'[w].held
        /\ work' \in [Publication!Work -> Items]
    BY <1>1, <2>1 DEF TypeInv, Items, WorkStages
  <2>3. /\ Append(q, w) \in Seq(Publication!Work) /\ Len(Append(q, w)) = Len(q) + 1 /\ Len(q) \in Nat
        /\ \A i \in 1..Len(q) : Append(q, w)[i] = q[i]
        /\ Append(q, w)[Len(q) + 1] = w
    BY AppendProperties, LenProperties
  <2>4. /\ gate'[a].locks = gate[a].locks /\ gate'[a].queue = Append(q, w)
        /\ \A b \in Actors : b # a => gate'[b] = gate[b]
        /\ gate' \in [Actors -> [locks : Nat, queue : Seq(Publication!Work)]]
    BY <1>3, <2>1, <2>3 DEF TypeInv
  <2>5. \A v \in Publication!Work : Keeps(v, a)' <=> Keeps(v, a)
    BY <2>2 DEF Keeps
  <2>6. Keepers(a)' = Keepers(a)
    BY <2>5 DEF Keepers
  <2>7. CountOf(a)' /\ NewOf(a)'
    BY <2>2, <2>4, <2>6 DEF LocksInv, CountOf, NewOf
  <2>8. QueueOf(a)'
    <3>1. \A i \in 1..Len(Append(q, w)) : i \in 1..Len(q) \/ i = Len(q) + 1
      BY <2>3
    <3>2. \A i \in 1..Len(Append(q, w)) :
            /\ work'[Append(q, w)[i]].stage = "queued"
            /\ work'[Append(q, w)[i]].actor = a
      BY <1>4, <2>2, <2>3, <3>1
    <3>3. ASSUME NEW i \in 1..Len(Append(q, w)), NEW j \in 1..Len(Append(q, w)),
                 Append(q, w)[i] = Append(q, w)[j]
          PROVE  i = j
      BY <1>4, <2>3, <3>1, <3>3
    <3> QED
      BY <2>4, <3>2, <3>3 DEF QueueOf
  <2> QED
    BY <1>1, <2>2, <2>4, <2>7, <2>8, OthersUntouched
<1> QED
  BY <1>5, <1>6

LEMMA LetsGo ==
  ASSUME TypeInv, WorkInv, LocksInv, NEW w \in Publication!Work, NEW a \in Actors, a = work[w].actor,
         Keeps(w, a), Publication!LetGo(w), UNCHANGED frames
  PROVE  /\ LocksInv' /\ work' \in [Publication!Work -> Items] /\ WorkInv'
         /\ gate' \in [Actors -> [locks : Nat, queue : Seq(Publication!Work)]]
         /\ \A v \in Publication!Work : work[v].stage = "resuming" => work'[v] = work[v]
<1>1. /\ gate' = [gate EXCEPT ![a] = Publication!Release(@, 1)]
      /\ work' = [u \in Publication!Work |->
                   CASE u = w -> Publication!NoWork
                     [] u # w /\ u \in Publication!Heir(a, 1) -> [work[u] EXCEPT !.stage = "granted"]
                     [] OTHER -> work[u]]
  BY DEF Publication!LetGo
<1>2. /\ gate[a].locks \in Nat /\ gate[a].queue \in Seq(Publication!Work) /\ frames[a] \in Nat
      /\ gate[a] = [locks |-> gate[a].locks, queue |-> gate[a].queue]
      /\ \A i \in 1..Len(gate[a].queue) :
           /\ gate[a].queue[i] \in Publication!Work /\ work[gate[a].queue[i]].stage = "queued"
           /\ work[gate[a].queue[i]].actor = a
  BY ElementOfSeq DEF TypeInv, LocksInv, QueueOf
<1>3. \A u \in Publication!Heir(a, 1) : u \in Publication!Work /\ work[u].stage = "queued" /\ work[u].actor = a
  <2>1. CASE gate[a].queue = <<>>
    BY <2>1 DEF Publication!Heir
  <2>2. CASE gate[a].queue # <<>>
    <3>1. Head(gate[a].queue) = gate[a].queue[1] /\ 1 \in 1..Len(gate[a].queue)
      BY <1>2, <2>2, HeadTailProperties, EmptySeq, LenProperties
    <3> QED
      BY <1>2, <3>1 DEF Publication!Heir
  <2> QED
    BY <2>1, <2>2
<1>4. w \notin Publication!Heir(a, 1)
  BY <1>3 DEF Keeps, WorkInv
<1>5. /\ work'[w] = Publication!NoWork
      /\ \A u \in Publication!Work : u # w =>
           work'[u] = IF u \in Publication!Heir(a, 1) THEN [work[u] EXCEPT !.stage = "granted"] ELSE work[u]
  BY <1>1
<1>6. work' \in [Publication!Work -> Items]
  <2>1. Publication!NoWork \in Items /\ \A u \in Publication!Work : [work[u] EXCEPT !.stage = "granted"] \in Items
    BY DEF TypeInv, Items, WorkStages, WorkKinds, Publication!NoWork
  <2>2. \A u \in Publication!Work : work'[u] \in Items
    BY <1>5, <2>1 DEF TypeInv
  <2> QED
    BY <1>1, <2>2
<1>7. gate' \in [Actors -> [locks : Nat, queue : Seq(Publication!Work)]]
  <2>1. Keepers(a) \in SUBSET Publication!Work /\ w \in Keepers(a)
    BY DEF Keepers
  <2>2. IsFiniteSet(Keepers(a)) /\ Cardinality(Keepers(a)) \in Nat
    BY <2>1, WorkIsFinite
  <2>3. Cardinality(Keepers(a)) # 0
    BY <2>1, <2>2, FS_EmptySet
  <2>4. gate[a].locks = frames[a] + Cardinality(Keepers(a))
    BY DEF LocksInv, CountOf
  <2>5. gate[a].locks - 1 \in Nat
    BY <1>2, <2>2, <2>3, <2>4
  <2>6. gate[a].queue # <<>> => Tail(gate[a].queue) \in Seq(Publication!Work)
    BY <1>2, HeadTailProperties
  <2>7. Publication!Release(gate[a], 1) \in [locks : Nat, queue : Seq(Publication!Work)]
    BY <1>2, <2>5, <2>6 DEF Publication!Release
  <2> QED
    BY <1>1, <2>7 DEF TypeInv
<1>8. WorkInv'
  <2>1. ASSUME NEW u \in Publication!Work
        PROVE  /\ work'[u].actor = work'[u].owner
               /\ work'[u].owner \in (IF work'[u].stage = "free" THEN {None} ELSE Actors)
               /\ work'[u].held => work'[u].stage \in {"task", "granted"}
    <3>1. CASE u = w
      BY <1>5, <3>1 DEF Publication!NoWork
    <3>2. CASE u # w /\ u \in Publication!Heir(a, 1)
      <4>1. /\ work'[u].actor = work[u].actor /\ work'[u].owner = work[u].owner
            /\ work'[u].stage = "granted" /\ work[u].stage = "queued"
        BY <1>3, <1>5, <3>2 DEF TypeInv, Items
      <4> QED
        BY <4>1 DEF WorkInv
    <3>3. CASE u # w /\ u \notin Publication!Heir(a, 1)
      BY <1>5, <3>3 DEF WorkInv
    <3> QED
      BY <3>1, <3>2, <3>3
  <2> QED
    BY <2>1 DEF WorkInv
<1>9. CountOf(a)' /\ NewOf(a)' /\ QueueOf(a)'
  <2>1. PICK K \in SUBSET Publication!Work : K = Keepers(a) \ {w}
    BY DEF Keepers
  <2>2. gate[a].locks = 1 + frames[a] + Cardinality(K)
    <3>1. /\ Keepers(a) \in SUBSET Publication!Work /\ IsFiniteSet(Keepers(a)) /\ w \in Keepers(a)
          /\ Cardinality(Keepers(a)) \in Nat
      <4>1. Keepers(a) \in SUBSET Publication!Work /\ w \in Keepers(a)
        BY DEF Keepers
      <4> QED
        BY <4>1, WorkIsFinite
    <3>2. Cardinality(K) = Cardinality(Keepers(a)) - 1
      BY <2>1, <3>1, FS_RemoveElement
    <3>3. gate[a].locks = frames[a] + Cardinality(Keepers(a))
      BY DEF LocksInv, CountOf
    <3>4. frames[a] \in Nat
      BY <1>2
    <3> QED
      BY <3>1, <3>2, <3>3, <3>4
  <2>3. \A v \in K : v \in Publication!Work /\ v # w /\ work[v].held /\ work'[v] = work[v]
    <3>1. \A v \in K : v \in Publication!Work /\ v # w /\ Keeps(v, a)
      BY <2>1 DEF Keepers
    <3>2. ASSUME NEW v \in K, ~work[v].held PROVE FALSE
      <4>1. Keepers(a) = {v}
        BY <3>1, <3>2, NewIsAlone DEF Keeps
      <4> QED
        BY <3>1, <4>1 DEF Keepers
    <3>3. \A v \in K : v \notin Publication!Heir(a, 1)
      BY <1>3, <3>1, <3>2 DEF WorkInv
    <3> QED
      BY <1>5, <3>1, <3>2, <3>3
  <2>4. \A v \in Publication!Work : work[v].stage = "queued" /\ work[v].actor = a =>
          work'[v] = IF v \in Publication!Heir(a, 1) THEN [work[v] EXCEPT !.stage = "granted"] ELSE work[v]
    BY <1>5 DEF Keeps, WorkInv
  <2>5. \A v \in Publication!Work : Keeps(v, a)' <=> v \in K \/ v \in Publication!Heir(a, 1)
    <3>1. ASSUME NEW v \in Publication!Work, v # w, v \in Publication!Heir(a, 1)
          PROVE  Keeps(v, a)'
      <4>1. work'[v].actor = a /\ work'[v].stage = "granted"
        BY <1>3, <1>5, <3>1 DEF TypeInv, Items
      <4> QED
        BY <4>1 DEF Keeps
    <3>2. ASSUME NEW v \in Publication!Work, v # w, v \notin Publication!Heir(a, 1)
          PROVE  Keeps(v, a)' <=> v \in K
      <4>1. work'[v] = work[v]
        BY <1>5, <3>2
      <4> QED
        BY <2>1, <3>2, <4>1 DEF Keeps, Keepers
    <3>3. ~Keeps(w, a)'
      BY <1>5, PublicationBounds DEF Keeps, Publication!NoWork
    <3> QED
      BY <1>4, <2>3, <3>1, <3>2, <3>3
  <2>6. gate'[a] = Publication!Release(gate[a], 1)
    BY <1>1 DEF TypeInv
  <2>7. QueueOf(a) /\ frames'[a] = frames[a]
    BY DEF LocksInv
  <2>8. \A v \in K : work'[v].held
    BY <2>3
  <2>9. gate[a].locks = 1 + frames'[a] + Cardinality(K) /\ frames'[a] \in Nat /\ 1 \in Nat
    BY <1>2, <2>2, <2>7
  <2> QED
    BY <2>4, <2>5, <2>6, <2>7, <2>8, <2>9, Released
<1>10. LocksInv'
  <2>1. ASSUME NEW b \in Actors, b # a PROVE CountOf(b)' /\ NewOf(b)' /\ QueueOf(b)'
    <3>1. gate'[b] = gate[b] /\ frames'[b] = frames[b]
      BY <1>1, <2>1 DEF TypeInv
    <3>2. ASSUME NEW v \in Publication!Work, work[v].actor = b \/ work'[v].actor = b
          PROVE  work'[v] = work[v]
      <4>1. v # w
        BY <1>5, <2>1, <3>2, PublicationBounds DEF Publication!NoWork
      <4>2. v \notin Publication!Heir(a, 1)
        <5> SUFFICES ASSUME v \in Publication!Heir(a, 1) PROVE FALSE
          OBVIOUS
        <5>1. work[v].actor = a /\ work'[v].actor = a
          BY <1>3, <1>5, <4>1 DEF TypeInv, Items
        <5> QED
          BY <2>1, <3>2, <5>1
      <4> QED
        BY <1>5, <4>1, <4>2
    <3> QED
      BY <3>1, <3>2, Untouched
  <2> QED
    BY <1>9, <2>1 DEF LocksInv
<1>11. \A v \in Publication!Work : work[v].stage = "resuming" => work'[v] = work[v]
  BY <1>3, <1>5 DEF Keeps, WorkInv
<1> QED
  BY <1>6, <1>7, <1>8, <1>10, <1>11

-----------------------------------------------------------------------------
(***************************************************************************)
(* Microtasks and markers.                                                 *)
(***************************************************************************)

LEMMA Unmoved ==
  ASSUME TypeInv, WorkInv, JobsInv, MarkerInv, UNCHANGED <<jobs, continuation, publication>>,
         \A a \in Actors : frames'[a] \in Nat /\ frames'[a] >= frames[a],
         \A v \in Publication!Work : work[v].stage = "resuming" => work'[v] = work[v]
  PROVE  JobsInv' /\ MarkerInv'
<1>1. \A i \in 1..Len(jobs) :
        /\ jobs[i] \in Publication!Work /\ work'[jobs[i]] = work[jobs[i]] /\ work[jobs[i]].owner \in Actors
  BY ElementOfSeq DEF TypeInv, JobsInv, WorkInv
<1>2. \A a \in Actors : Publication!HasCurrent(a) => Publication!HasCurrent(a)'
  BY DEF Publication!HasCurrent, TypeInv
<1>3. JobsInv'
  <2>1. \A i \in 1..Len(jobs) : Publication!HasCurrent(work[jobs[i]].owner)'
    BY <1>1, <1>2 DEF JobsInv, Publication!HasCurrent
  <2> QED
    BY <1>1, <2>1 DEF JobsInv
<1>4. MarkerInv'
  <2>1. continuation # None => Publication!HasCurrent(continuation)'
    BY <1>2 DEF MarkerInv, TypeInv, Publication!HasCurrent
  <2> QED
    BY <1>1, <2>1 DEF MarkerInv
<1> QED
  BY <1>3, <1>4

\* What resolve() publishes goes on in a checkpoint of its own actor.
LEMMA PublishedIsOwn ==
  ASSUME TypeInv, WorkInv, JobsInv, MarkerInv, NEW w \in Publication!Work, NEW a \in Actors,
         a = work[w].actor, work[w].stage \in {"settled", "granted"}, ~Publication!Refused(a), Publication!Published(w),
         \A b \in Actors : frames'[b] \in Nat /\ frames'[b] >= frames[b], Publication!HasCurrent(a)'
  PROVE  /\ JobsInv' /\ MarkerInv' /\ jobs' \in Seq(Publication!Work)
         /\ continuation' \in Actors \cup {None} /\ publication' \in Publication!Work \cup {0}
<1>1. /\ \A v \in Publication!Work : v # w => work'[v] = work[v]
      /\ work'[w].stage = "resuming" /\ work'[w].owner = a /\ work'[w].kind = work[w].kind
      /\ jobs' = Append(jobs, w)
  BY DEF Publication!Published, TypeInv, Items, WorkInv
<1>2. /\ \A b \in Actors : Publication!HasCurrent(b) => Publication!HasCurrent(b)'
      /\ continuation # None => continuation \in Actors /\ Publication!HasCurrent(continuation)
  BY DEF Publication!HasCurrent, TypeInv, MarkerInv
<1>3. /\ continuation \in {None, a}
      /\ publication # 0 => publication \in Publication!Work /\ work[publication].owner = a
  BY <1>2 DEF Publication!Refused, Publication!LiveContinuation, TypeInv, WorkInv
<1>4. PICK n \in Nat : n = Len(jobs)
  BY LenProperties DEF TypeInv
<1>5. /\ jobs' \in Seq(Publication!Work) /\ Len(jobs') = n + 1
      /\ \A i \in 1..n : jobs'[i] = jobs[i] /\ jobs[i] \in Publication!Work /\ jobs[i] # w
      /\ jobs'[n + 1] = w
      /\ \A i \in 1..Len(jobs') : i \in 1..n \/ i = n + 1
  BY <1>1, <1>4, AppendProperties, ElementOfSeq DEF TypeInv, JobsInv
<1>6. \A i \in 1..n : work'[jobs[i]] = work[jobs[i]] /\ work[jobs[i]].owner = a
  <2>1. \A i, j \in 1..n : work[jobs[i]].owner = work[jobs[j]].owner
    BY <1>4 DEF JobsInv
  <2>2. publication # 0 => \E j \in 1..n : jobs[j] = publication
    BY <1>4 DEF MarkerInv
  <2>3. publication = 0 => \A i \in 1..n : work[jobs[i]].owner = a
    <3>1. \A i \in 1..n : jobs # <<>>
      BY <1>4, EmptySeq DEF TypeInv
    <3>2. \A i \in 1..n : continuation \in {None, work[jobs[i]].owner}
      BY <1>4 DEF JobsInv
    <3> QED
      BY <1>3, <3>1, <3>2 DEF MarkerInv
  <2> QED
    BY <1>1, <1>3, <1>5, <2>1, <2>2, <2>3
<1>7. /\ continuation' \in {continuation, a} /\ publication' \in {0, w}
      /\ work[w].kind = "await" => publication' = w
      /\ work[w].kind # "await" => publication' = 0 /\ continuation' = a
  BY DEF Publication!Published
<1>8. ASSUME NEW i \in 1..Len(jobs')
      PROVE  /\ jobs'[i] \in Publication!Work /\ work'[jobs'[i]].stage = "resuming"
             /\ work'[jobs'[i]].owner = a
             /\ work'[jobs'[i]].kind # "await" => continuation' = a
  <2>1. CASE i \in 1..n
    <3>1. work[jobs[i]].stage = "resuming" /\ (work[jobs[i]].kind # "await" => continuation = a)
      BY <1>4, <1>6, <2>1 DEF JobsInv
    <3> QED
      BY <1>3, <1>5, <1>6, <1>7, <2>1, <3>1, PublicationBounds
  <2>2. CASE i = n + 1
    BY <1>1, <1>5, <1>7, <2>2
  <2> QED
    BY <1>5, <2>1, <2>2
<1>9. JobsInv'
  <2>1. ASSUME NEW i \in 1..Len(jobs'), NEW j \in 1..Len(jobs'), jobs'[i] = jobs'[j] PROVE i = j
    BY <1>4, <1>5, <2>1 DEF JobsInv
  <2>2. \A i \in 1..Len(jobs') : Publication!HasCurrent(work[jobs[i]].owner)'
    BY <1>8 DEF Publication!HasCurrent
  <2> QED
    BY <1>3, <1>7, <1>8, <2>1, <2>2 DEF JobsInv
<1>10. MarkerInv'
  <2>1. continuation' # None => Publication!HasCurrent(continuation)'
    BY <1>2, <1>3, <1>7 DEF Publication!HasCurrent
  <2>2. publication' # 0 =>
          work'[publication'].kind = "await" /\ \E i \in 1..Len(jobs') : jobs'[i] = publication'
    <3>1. n + 1 \in 1..Len(jobs')
      BY <1>5
    <3> QED
      BY <1>1, <1>5, <1>7, <3>1
  <2>3. publication' = 0 => continuation' # None
    BY <1>7, WorkIsFinite, PublicationBounds
  <2> QED
    BY <2>1, <2>2, <2>3 DEF MarkerInv
<1> QED
  BY <1>5, <1>7, <1>9, <1>10 DEF TypeInv

-----------------------------------------------------------------------------
(***************************************************************************)
(* Steps of one piece of work.                                             *)
(***************************************************************************)

Fits(item) ==
  /\ item \in Items /\ item.actor = item.owner
  /\ item.owner \in (IF item.stage = "free" THEN {None} ELSE Actors)
  /\ item.held => item.stage \in {"task", "granted"}

LEMMA Replaced ==
  ASSUME TypeInv, WorkInv, NEW w \in Publication!Work, NEW item, Fits(item), work' = [work EXCEPT ![w] = item]
  PROVE  /\ work' \in [Publication!Work -> Items] /\ WorkInv' /\ work'[w] = item
         /\ \A v \in Publication!Work : v # w => work'[v] = work[v]
<1>1. /\ work' \in [Publication!Work -> Items] /\ work'[w] = item
      /\ \A v \in Publication!Work : v # w => work'[v] = work[v]
  BY DEF TypeInv, Fits
<1>2. WorkInv'
  BY <1>1 DEF WorkInv, Fits
<1> QED
  BY <1>1, <1>2

\* Work that has no lock and gets none, ...
LEMMA IdleMove ==
  ASSUME TypeInv, WorkInv, LocksInv, NEW w \in Publication!Work, NEW a \in Actors, a = work[w].actor,
         NEW item, Fits(item), work' = [work EXCEPT ![w] = item], item.actor \in {a, None},
         work[w].stage \notin {"queued", "granted"}, ~work[w].held,
         item.stage \notin {"queued", "granted"}, ~item.held, UNCHANGED <<gate, frames>>
  PROVE  LocksInv'
<1>1. work'[w] = item /\ \A v \in Publication!Work : v # w => work'[v] = work[v]
  BY Replaced
<1>2. ~Keeps(w, a) /\ ~Keeps(w, a)'
  BY <1>1 DEF Keeps
<1>3. gate[a].locks \in Nat /\ frames[a] \in Nat
  BY DEF TypeInv
<1>4. CountOf(a)' /\ NewOf(a)' /\ QueueOf(a)'
  <2>1. \A x \in Publication!Work : x # w /\ work[x].actor = a /\ work[x].stage = "granted" /\ ~work[x].held
          => gate'[a].locks = 1
    BY DEF LocksInv, NewOf
  <2>2. gate'[a].locks = gate[a].locks + (frames'[a] - frames[a])
                           + (IF Keeps(w, a)' THEN 1 ELSE 0) - (IF Keeps(w, a) THEN 1 ELSE 0)
    BY <1>2, <1>3
  <2> QED
    BY <1>1, <1>2, <1>3, <2>1, <2>2, OneMoves
<1> QED
  BY <1>1, <1>4, OthersUntouched

\* ... work whose lock becomes that of a slice, ...
LEMMA EnteringMove ==
  ASSUME TypeInv, WorkInv, LocksInv, NEW w \in Publication!Work, NEW a \in Actors, a = work[w].actor,
         NEW item, Fits(item), work' = [work EXCEPT ![w] = item], item.actor \in {a, None},
         work[w].stage = "granted", item.stage \notin {"queued", "granted"}, ~item.held,
         frames' = [frames EXCEPT ![a] = @ + 1], UNCHANGED gate
  PROVE  LocksInv'
<1>1. work'[w] = item /\ \A v \in Publication!Work : v # w => work'[v] = work[v]
  BY Replaced
<1>2. Keeps(w, a) /\ ~Keeps(w, a)'
  BY <1>1 DEF Keeps
<1>3. gate[a].locks \in Nat /\ frames[a] \in Nat /\ frames'[a] = frames[a] + 1
  BY DEF TypeInv
<1>4. CountOf(a)' /\ NewOf(a)' /\ QueueOf(a)'
  <2>1. \A x \in Publication!Work : x # w /\ work[x].actor = a /\ work[x].stage = "granted" /\ ~work[x].held
          => gate'[a].locks = 1
    BY DEF LocksInv, NewOf
  <2>2. gate'[a].locks = gate[a].locks + (frames'[a] - frames[a])
                           + (IF Keeps(w, a)' THEN 1 ELSE 0) - (IF Keeps(w, a) THEN 1 ELSE 0)
    BY <1>2, <1>3
  <2>3. /\ work[w].stage # "queued" /\ frames'[a] \in Nat /\ gate'[a].queue = gate[a].queue
        /\ (Keeps(w, a)' => work'[w].held)
    BY <1>2, <1>3
  <2> QED
    BY <1>1, <2>1, <2>2, <2>3, OneMoves
<1>5. \A b \in Actors : b # a => gate'[b] = gate[b] /\ frames'[b] = frames[b]
  BY DEF TypeInv
<1> QED
  BY <1>1, <1>4, <1>5, OthersUntouched

LEMMA RetainedGate ==
  ASSUME TypeInv, NEW a \in Actors, gate' = [gate EXCEPT ![a].locks = @ + 1]
  PROVE  gate' \in [Actors -> [locks : Nat, queue : Seq(Publication!Work)]]
<1>1. gate[a] \in [locks : Nat, queue : Seq(Publication!Work)]
  BY DEF TypeInv
<1>2. [gate[a] EXCEPT !.locks = @ + 1] \in [locks : Nat, queue : Seq(Publication!Work)]
  BY <1>1
<1>3. gate' = [gate EXCEPT ![a] = [gate[a] EXCEPT !.locks = @ + 1]]
  BY DEF TypeInv
<1> QED
  BY <1>2, <1>3 DEF TypeInv

\* ... and work that keeps the lock of a slice, whether the slice had it from this work or not.
LEMMA KeepingMove ==
  ASSUME TypeInv, WorkInv, LocksInv, NEW w \in Publication!Work, NEW a \in Actors, a = work[w].actor,
         NEW item, Fits(item), work' = [work EXCEPT ![w] = item], item.actor = a,
         item.stage = "task", item.held, gate' = [gate EXCEPT ![a].locks = @ + 1],
         \/ work[w].stage = "settled" /\ Publication!HasCurrent(a) /\ UNCHANGED frames
         \/ work[w].stage = "granted" /\ work[w].held /\ frames' = [frames EXCEPT ![a] = @ + 1]
  PROVE  LocksInv'
<1>1. work'[w] = item /\ \A v \in Publication!Work : v # w => work'[v] = work[v]
  BY Replaced
<1>2. Keeps(w, a)' /\ (Keeps(w, a) <=> work[w].stage = "granted")
  BY <1>1 DEF Keeps, WorkInv
<1>3. /\ gate[a].locks \in Nat /\ frames[a] \in Nat
      /\ frames'[a] = frames[a] + (IF work[w].stage = "granted" THEN 1 ELSE 0)
      /\ gate'[a].locks = gate[a].locks + 1 /\ gate'[a].queue = gate[a].queue
  BY DEF TypeInv
<1>4. CountOf(a)' /\ NewOf(a)' /\ QueueOf(a)'
  <2>1. ASSUME NEW x \in Publication!Work, x # w, work[x].actor = a, work[x].stage = "granted", ~work[x].held
        PROVE  FALSE
    <3>1. frames[a] = 0 /\ Keepers(a) = {x}
      BY <2>1, NewIsAlone
    <3>2. w \in Keepers(a) \/ frames[a] > 0
      BY <1>2 DEF Keepers, Publication!HasCurrent
    <3> QED
      BY <2>1, <3>1, <3>2
  <2>2. gate'[a].locks = gate[a].locks + (frames'[a] - frames[a])
                           + (IF Keeps(w, a)' THEN 1 ELSE 0) - (IF Keeps(w, a) THEN 1 ELSE 0)
    BY <1>2, <1>3
  <2>3. work[w].stage # "queued" /\ frames'[a] \in Nat
    BY <1>3
  <2>4. Keeps(w, a)' => work'[w].held
    BY <1>1
  <2>5. \A x \in Publication!Work : x # w /\ work[x].actor = a /\ work[x].stage = "granted" /\ ~work[x].held
          => gate'[a].locks = 1
    BY <2>1
  <2> QED
    BY <1>1, <1>3, <2>2, <2>3, <2>4, <2>5, OneMoves
<1>5. \A b \in Actors : b # a => gate'[b] = gate[b] /\ frames'[b] = frames[b]
  BY DEF TypeInv
<1> QED
  BY <1>1, <1>4, <1>5, OthersUntouched

-----------------------------------------------------------------------------
(***************************************************************************)
(* The steps.                                                              *)
(***************************************************************************)

\* Wait(w, item) is a change of w to a piece of work that has the lock or is queued.
LEMMA WaitingItem ==
  ASSUME NEW w \in Publication!Work, NEW item \in Items, item.actor \in Actors, item.actor = item.owner,
         ~item.held, Publication!Wait(w, item)
  PROVE  \E next : /\ Fits(next) /\ next.stage \in {"granted", "queued"}
                   /\ work' = [work EXCEPT ![w] = next]
<1>1. \E stage \in {"granted", "queued"} : work' = [work EXCEPT ![w] = [item EXCEPT !.stage = stage]]
  BY DEF Publication!Wait
<1>2. \A stage \in {"granted", "queued"} :
        Fits([item EXCEPT !.stage = stage]) /\ [item EXCEPT !.stage = stage].stage = stage
  BY DEF Fits, Items, WorkStages
<1> QED
  BY <1>1, <1>2

LEMMA EventStep ==
  ASSUME PublicationInv, NEW a \in Actors, Publication!Event(a) PROVE PublicationInv'
<1> USE DEF PublicationInv
<1>1. PICK w \in Publication!Work : /\ work[w].stage = "free"
                        /\ Publication!Wait(w, [Publication!NoWork EXCEPT !.kind = "event", !.owner = a, !.actor = a])
  BY DEF Publication!Event, Publication!In
<1>2. PICK item : item = [Publication!NoWork EXCEPT !.kind = "event", !.owner = a, !.actor = a]
  OBVIOUS
<1>3. /\ item \in Items /\ item.actor = a /\ item.owner = a /\ ~item.held /\ Publication!Wait(w, item)
      /\ UNCHANGED <<frames, continuation, publication, jobs>>
  BY <1>1, <1>2 DEF Items, WorkKinds, WorkStages, Publication!NoWork, Publication!Event
<1>4. PICK next : Fits(next) /\ work' = [work EXCEPT ![w] = next]
  BY <1>3, WaitingItem
<1>5. /\ work' \in [Publication!Work -> Items] /\ WorkInv'
      /\ \A v \in Publication!Work : v # w => work'[v] = work[v]
  BY <1>4, Replaced
<1>6. LocksInv' /\ gate' \in [Actors -> [locks : Nat, queue : Seq(Publication!Work)]]
  <2>1. work[w].actor \in {item.actor, None} /\ ~work[w].held
    BY <1>1 DEF WorkInv
  <2> QED
    BY <1>1, <1>3, <2>1, Waits
<1>7. JobsInv' /\ MarkerInv'
  <2>1. \A v \in Publication!Work : work[v].stage = "resuming" => work'[v] = work[v]
    BY <1>1, <1>5
  <2>2. \A b \in Actors : frames'[b] \in Nat /\ frames'[b] >= frames[b]
    BY <1>3 DEF TypeInv
  <2> QED
    BY <1>3, <2>1, <2>2, Unmoved
<1> QED
  BY <1>3, <1>5, <1>6, <1>7 DEF TypeInv

LEMMA PromiseSettlesStep ==
  ASSUME PublicationInv, NEW w \in Publication!Work, Publication!PromiseSettles(w)
  PROVE  PublicationInv'
<1> USE DEF PublicationInv
<1>1. PICK item : item = [work[w] EXCEPT !.stage = "settled"]
  OBVIOUS
<1>2. /\ work[w].stage = "waiting" /\ ~work[w].held /\ work' = [work EXCEPT ![w] = item]
      /\ UNCHANGED <<gate, frames, continuation, publication, jobs>>
  BY <1>1 DEF Publication!PromiseSettles, Publication!In, TypeInv, Items, WorkInv
<1>3. /\ Fits(item) /\ item.stage = "settled" /\ ~item.held /\ item.actor = work[w].actor
      /\ work[w].actor \in Actors
  BY <1>1, <1>2 DEF Fits, TypeInv, Items, WorkStages, WorkInv
<1>4. /\ work' \in [Publication!Work -> Items] /\ WorkInv'
      /\ \A v \in Publication!Work : v # w => work'[v] = work[v]
  BY <1>2, <1>3, Replaced
<1>5. LocksInv'
  BY <1>2, <1>3, IdleMove
<1>6. JobsInv' /\ MarkerInv'
  <2>1. \A v \in Publication!Work : work[v].stage = "resuming" => work'[v] = work[v]
    BY <1>2, <1>4
  <2>2. \A b \in Actors : frames'[b] \in Nat /\ frames'[b] >= frames[b]
    BY <1>2 DEF TypeInv
  <2> QED
    BY <1>2, <2>1, <2>2, Unmoved
<1> QED
  BY <1>2, <1>4, <1>5, <1>6 DEF TypeInv

LEMMA PublishesStep ==
  ASSUME PublicationInv, NEW w \in Publication!Work, Publication!Publishes(w)
  PROVE  PublicationInv'
<1> USE DEF PublicationInv
<1>1. PICK a \in Actors : a = work[w].actor /\ a = work[w].owner
  BY DEF Publication!Publishes, Publication!In, WorkInv, TypeInv
<1>2. work[w].stage = "task" /\ UNCHANGED <<frames, continuation, publication, jobs>>
  BY DEF Publication!Publishes, Publication!In
<1>3. CASE work[w].held /\ Publication!LetGo(w)
  <2>1. Keeps(w, a)
    BY <1>1, <1>3 DEF Keeps
  <2>2. /\ LocksInv' /\ work' \in [Publication!Work -> Items] /\ WorkInv'
        /\ gate' \in [Actors -> [locks : Nat, queue : Seq(Publication!Work)]]
        /\ \A v \in Publication!Work : work[v].stage = "resuming" => work'[v] = work[v]
    BY <1>1, <1>2, <1>3, <2>1, LetsGo
  <2>3. \A b \in Actors : frames'[b] \in Nat /\ frames'[b] >= frames[b]
    BY <1>2 DEF TypeInv
  <2>4. JobsInv' /\ MarkerInv'
    BY <1>2, <2>2, <2>3, Unmoved
  <2> QED
    BY <1>2, <2>2, <2>4 DEF TypeInv
<1>4. ASSUME NEW item, Fits(item), work' = [work EXCEPT ![w] = item], LocksInv',
             gate' \in [Actors -> [locks : Nat, queue : Seq(Publication!Work)]]
      PROVE  PublicationInv'
  <2>1. /\ work' \in [Publication!Work -> Items] /\ WorkInv'
        /\ \A v \in Publication!Work : v # w => work'[v] = work[v]
    BY <1>4, Replaced
  <2>2. \A v \in Publication!Work : work[v].stage = "resuming" => work'[v] = work[v]
    BY <1>2, <2>1
  <2>3. \A b \in Actors : frames'[b] \in Nat /\ frames'[b] >= frames[b]
    BY <1>2 DEF TypeInv
  <2>4. JobsInv' /\ MarkerInv'
    BY <1>2, <2>2, <2>3, Unmoved
  <2> QED
    BY <1>2, <1>4, <2>1, <2>4 DEF TypeInv
<1>5. CASE ~work[w].held /\ work' = [work EXCEPT ![w] = Publication!NoWork] /\ UNCHANGED gate
  <2>1. Fits(Publication!NoWork) /\ Publication!NoWork.actor = None /\ Publication!NoWork.stage = "free" /\ ~Publication!NoWork.held
    BY DEF Fits, Publication!NoWork, Items, WorkKinds, WorkStages
  <2>2. LocksInv'
    BY <1>1, <1>2, <1>5, <2>1, IdleMove
  <2> QED
    BY <1>4, <1>5, <2>1, <2>2 DEF TypeInv
<1>6. CASE /\ work[w].held /\ work' = [work EXCEPT ![w].stage = "granted"] /\ UNCHANGED gate
  <2>1. PICK item : item = [work[w] EXCEPT !.stage = "granted"]
    OBVIOUS
  <2>2. /\ Fits(item) /\ item.held /\ item.actor = a /\ work' = [work EXCEPT ![w] = item]
    BY <1>1, <1>6, <2>1 DEF Fits, TypeInv, Items, WorkStages, WorkInv
  <2>3. work'[w] = item /\ \A v \in Publication!Work : v # w => work'[v] = work[v]
    BY <2>2, Replaced
  <2>4. Keeps(w, a) /\ Keeps(w, a)'
    BY <1>1, <1>6, <2>2, <2>3 DEF Keeps
  <2>5. /\ gate[a].locks \in Nat /\ frames'[a] = frames[a] /\ frames[a] \in Nat
        /\ gate'[a] = gate[a]
    BY <1>2, <1>6 DEF TypeInv
  <2>6. gate'[a].locks = gate[a].locks + (frames'[a] - frames[a])
                           + (IF Keeps(w, a)' THEN 1 ELSE 0) - (IF Keeps(w, a) THEN 1 ELSE 0)
    BY <2>4, <2>5
  <2>7. \A x \in Publication!Work : x # w /\ work[x].actor = a /\ work[x].stage = "granted" /\ ~work[x].held
          => gate'[a].locks = 1
    BY <2>5 DEF LocksInv, NewOf
  <2>8. /\ work[w].stage # "queued" /\ gate'[a].queue = gate[a].queue /\ frames'[a] \in Nat
        /\ (Keeps(w, a)' => work'[w].held)
    BY <1>2, <2>2, <2>3, <2>5
  <2>9. CountOf(a)' /\ NewOf(a)' /\ QueueOf(a)'
    BY <2>3, <2>6, <2>7, <2>8, OneMoves
  <2>10. LocksInv'
    BY <1>1, <1>2, <1>6, <2>2, <2>3, <2>9, OthersUntouched
  <2> QED
    BY <1>4, <1>6, <2>2, <2>10 DEF TypeInv
<1>7. CASE ~work[w].held /\ Publication!Wait(w, work[w])
  <2>1. work[w] \in Items
    BY DEF TypeInv
  <2>2. LocksInv' /\ gate' \in [Actors -> [locks : Nat, queue : Seq(Publication!Work)]]
    BY <1>1, <1>2, <1>7, <2>1, Waits
  <2>3. PICK next : Fits(next) /\ work' = [work EXCEPT ![w] = next]
    BY <1>1, <1>7, <2>1, WaitingItem
  <2> QED
    BY <1>4, <2>2, <2>3
<1> QED
  BY <1>1, <1>3, <1>5, <1>6, <1>7 DEF Publication!Publishes, Publication!Rejects

\* Work changes, and no microtask with it.
LEMMA CalmStep ==
  ASSUME PublicationInv, NEW w \in Publication!Work, NEW item, Fits(item), work' = [work EXCEPT ![w] = item],
         work[w].stage # "resuming", LocksInv', frames' \in [Actors -> Nat],
         \A b \in Actors : frames'[b] >= frames[b],
         gate' \in [Actors -> [locks : Nat, queue : Seq(Publication!Work)]],
         UNCHANGED <<jobs, continuation, publication>>
  PROVE  PublicationInv'
<1> USE DEF PublicationInv
<1>1. /\ work' \in [Publication!Work -> Items] /\ WorkInv'
      /\ \A v \in Publication!Work : work[v].stage = "resuming" => work'[v] = work[v]
  BY Replaced
<1>2. JobsInv' /\ MarkerInv'
  BY <1>1, Unmoved
<1> QED
  BY <1>1, <1>2 DEF TypeInv

\* The pieces of work that the steps make of w.
LEMMA NextItems ==
  ASSUME PublicationInv, NEW w \in Publication!Work, NEW a \in Actors, a = work[w].actor
  PROVE  /\ Fits(Publication!NoWork) /\ Publication!NoWork.actor = None /\ Publication!NoWork.stage = "free" /\ ~Publication!NoWork.held
         /\ \A stage \in {"settled", "resuming", "task"} :
              LET item == [work[w] EXCEPT !.stage = stage, !.held = FALSE]
              IN  Fits(item) /\ item.actor = a /\ item.stage = stage /\ ~item.held
         /\ LET item == [work[w] EXCEPT !.stage = "task", !.held = TRUE]
            IN  Fits(item) /\ item.actor = a /\ item.stage = "task" /\ item.held
<1>1. work[w] \in Items /\ work[w].actor = a /\ work[w].owner = a
  BY DEF PublicationInv, TypeInv, WorkInv
<1> QED
  BY <1>1 DEF Fits, Publication!NoWork, Items, WorkKinds, WorkStages

LEMMA SettlesStep ==
  ASSUME PublicationInv, NEW w \in Publication!Work, Publication!Settles(w) PROVE PublicationInv'
<1> USE DEF PublicationInv
<1>1. PICK a \in Actors : a = work[w].actor /\ a = work[w].owner
  BY DEF Publication!Settles, Publication!In, WorkInv, TypeInv
<1>2. /\ work[w].stage = "settled" /\ ~work[w].held /\ UNCHANGED frames
      /\ frames' \in [Actors -> Nat]
      /\ \A b \in Actors : frames'[b] \in Nat /\ frames'[b] >= frames[b]
  <2>1. work[w].stage = "settled" /\ ~work[w].held /\ UNCHANGED frames
    BY DEF Publication!Settles, Publication!In, WorkInv
  <2> QED
    BY <2>1 DEF TypeInv
<1>3. ASSUME NEW item, Fits(item), work' = [work EXCEPT ![w] = item], item.actor \in {a, None},
             item.stage \notin {"queued", "granted"}, ~item.held,
             UNCHANGED <<gate, jobs, continuation, publication>>
      PROVE  PublicationInv'
  <2>1. LocksInv'
    BY <1>1, <1>2, <1>3, IdleMove
  <2> QED
    BY <1>2, <1>3, <2>1, CalmStep DEF TypeInv
<1>4. CASE Publication!Reenter(w) /\ UNCHANGED <<jobs, continuation, publication>>
  <2>1. PICK item : item = [work[w] EXCEPT !.stage = "task", !.held = FALSE]
    OBVIOUS
  <2>2. work' = [work EXCEPT ![w] = item]
    BY <1>4, <2>1 DEF Publication!Reenter
  <2> QED
    BY <1>1, <1>3, <1>4, <2>1, <2>2, NextItems DEF Publication!Reenter
<1>5. CASE work' = [work EXCEPT ![w] = Publication!NoWork] /\ UNCHANGED <<gate, jobs, continuation,
                                                              publication>>
  BY <1>1, <1>3, <1>5, NextItems
<1>6. CASE Publication!HasCurrent(a) /\ Publication!Retry(w) /\ UNCHANGED <<jobs, continuation, publication>>
  <2>1. PICK item : item = [work[w] EXCEPT !.stage = "task", !.held = TRUE]
    OBVIOUS
  <2>2. work' = [work EXCEPT ![w] = item] /\ gate' = [gate EXCEPT ![a].locks = @ + 1]
    BY <1>1, <1>6, <2>1 DEF Publication!Retry, Publication!Retains
  <2>3. Fits(item) /\ item.actor = a /\ item.stage = "task" /\ item.held
    BY <1>1, <2>1, NextItems
  <2>4. LocksInv'
    <3>1. \/ work[w].stage = "settled" /\ Publication!HasCurrent(a) /\ UNCHANGED frames
          \/ work[w].stage = "granted" /\ work[w].held /\ frames' = [frames EXCEPT ![a] = @ + 1]
      BY <1>2, <1>6
    <3> QED
      BY <1>1, <2>2, <2>3, <3>1, KeepingMove
  <2>5. gate' \in [Actors -> [locks : Nat, queue : Seq(Publication!Work)]]
    BY <2>2, RetainedGate
  <2> QED
    BY <1>2, <1>6, <2>2, <2>3, <2>4, <2>5, CalmStep
<1>7. CASE Publication!HasCurrent(a) /\ ~Publication!Refused(a) /\ Publication!Published(w) /\ UNCHANGED gate
  <2>1. PICK item : item = [work[w] EXCEPT !.stage = "resuming", !.held = FALSE]
    OBVIOUS
  <2>2. Fits(item) /\ item.actor = a /\ item.stage = "resuming" /\ ~item.held
    BY <1>1, <2>1, NextItems
  <2>3. work' = [work EXCEPT ![w] = item]
    BY <1>7, <2>1 DEF Publication!Published
  <2>4. work' \in [Publication!Work -> Items] /\ WorkInv'
    BY <2>2, <2>3, Replaced
  <2>5. LocksInv'
    BY <1>1, <1>2, <1>7, <2>2, <2>3, IdleMove
  <2>6. Publication!HasCurrent(a)'
    BY <1>2, <1>7 DEF Publication!HasCurrent
  <2>7. /\ JobsInv' /\ MarkerInv' /\ jobs' \in Seq(Publication!Work)
        /\ continuation' \in Actors \cup {None} /\ publication' \in Publication!Work \cup {0}
    BY <1>1, <1>2, <1>7, <2>6, PublishedIsOwn
  <2> QED
    BY <1>2, <1>7, <2>4, <2>5, <2>7 DEF TypeInv
<1> QED
  BY <1>1, <1>4, <1>5, <1>6, <1>7 DEF Publication!Settles

LEMMA StartsStep ==
  ASSUME PublicationInv, NEW w \in Publication!Work, Publication!Starts(w) PROVE PublicationInv'
<1> USE DEF PublicationInv
<1>1. PICK a \in Actors : a = work[w].actor /\ a = work[w].owner
  BY DEF Publication!Starts, Publication!In, WorkInv, TypeInv
<1>2. work[w].stage = "granted"
  BY DEF Publication!Starts, Publication!In
<1>3. CASE Publication!LetGo(w) /\ UNCHANGED <<frames, jobs, continuation, publication>>
  <2>1. Keeps(w, a)
    BY <1>1, <1>2 DEF Keeps
  <2>2. /\ LocksInv' /\ work' \in [Publication!Work -> Items] /\ WorkInv'
        /\ gate' \in [Actors -> [locks : Nat, queue : Seq(Publication!Work)]]
        /\ \A v \in Publication!Work : work[v].stage = "resuming" => work'[v] = work[v]
    BY <1>1, <1>3, <2>1, LetsGo
  <2>3. \A b \in Actors : frames'[b] \in Nat /\ frames'[b] >= frames[b]
    BY <1>3 DEF TypeInv
  <2>4. JobsInv' /\ MarkerInv'
    BY <1>3, <2>2, <2>3, Unmoved
  <2> QED
    BY <1>3, <2>2, <2>4 DEF TypeInv
<1>4. ASSUME frames' = [frames EXCEPT ![a] = @ + 1]
      PROVE  /\ frames' \in [Actors -> Nat] /\ Publication!HasCurrent(a)'
             /\ \A b \in Actors : frames'[b] \in Nat /\ frames'[b] >= frames[b]
  BY <1>4 DEF TypeInv, Publication!HasCurrent
<1>5. ASSUME frames' = [frames EXCEPT ![a] = @ + 1], NEW item, Fits(item),
             work' = [work EXCEPT ![w] = item], item.actor \in {a, None},
             item.stage \notin {"queued", "granted"}, ~item.held,
             UNCHANGED <<gate, jobs, continuation, publication>>
      PROVE  PublicationInv'
  <2>1. LocksInv'
    BY <1>1, <1>2, <1>5, EnteringMove
  <2> QED
    BY <1>2, <1>4, <1>5, <2>1, CalmStep DEF TypeInv
<1>6. CASE /\ frames' = [frames EXCEPT ![a] = @ + 1] /\ work[w].kind = "event"
           /\ Publication!Code(w, a, a, jobs) /\ UNCHANGED <<gate, continuation, publication>>
  <2>1. CASE work' = [work EXCEPT ![w] = Publication!NoWork] /\ jobs' = jobs
    BY <1>1, <1>5, <1>6, <2>1, NextItems
  <2>2. CASE /\ \E kind \in {"await", "loop"}, stage \in {"waiting", "settled"} :
                  work' = [work EXCEPT ![w] = [kind |-> kind, stage |-> stage, owner |-> a,
                                               actor |-> a, held |-> FALSE]]
             /\ jobs' = jobs
    <3>1. PICK item : /\ Fits(item) /\ item.actor = a /\ item.stage \in {"waiting", "settled"}
                      /\ ~item.held /\ work' = [work EXCEPT ![w] = item]
      BY <2>2 DEF Fits, Items, WorkKinds, WorkStages
    <3> QED
      BY <1>5, <1>6, <2>2, <3>1
  <2> QED
    BY <1>6, <2>1, <2>2 DEF Publication!Code
<1>7. CASE /\ frames' = [frames EXCEPT ![a] = @ + 1] /\ work[w].held /\ Publication!Retry(w)
           /\ UNCHANGED <<jobs, continuation, publication>>
  <2>1. PICK item : item = [work[w] EXCEPT !.stage = "task", !.held = TRUE]
    OBVIOUS
  <2>2. work' = [work EXCEPT ![w] = item] /\ gate' = [gate EXCEPT ![a].locks = @ + 1]
    BY <1>1, <1>7, <2>1 DEF Publication!Retry, Publication!Retains
  <2>3. Fits(item) /\ item.actor = a /\ item.stage = "task" /\ item.held
    BY <1>1, <2>1, NextItems
  <2>4. LocksInv'
    <3>1. \/ work[w].stage = "settled" /\ Publication!HasCurrent(a) /\ UNCHANGED frames
          \/ work[w].stage = "granted" /\ work[w].held /\ frames' = [frames EXCEPT ![a] = @ + 1]
      BY <1>2, <1>7
    <3> QED
      BY <1>1, <2>2, <2>3, <3>1, KeepingMove
  <2>5. gate' \in [Actors -> [locks : Nat, queue : Seq(Publication!Work)]]
    BY <2>2, RetainedGate
  <2> QED
    BY <1>2, <1>4, <1>7, <2>2, <2>3, <2>4, <2>5, CalmStep
<1>8. CASE /\ frames' = [frames EXCEPT ![a] = @ + 1] /\ Publication!Reenter(w)
           /\ UNCHANGED <<jobs, continuation, publication>>
  <2>1. PICK item : item = [work[w] EXCEPT !.stage = "task", !.held = FALSE]
    OBVIOUS
  <2>2. work' = [work EXCEPT ![w] = item]
    BY <1>8, <2>1 DEF Publication!Reenter
  <2> QED
    BY <1>1, <1>5, <1>8, <2>1, <2>2, NextItems DEF Publication!Reenter
<1>9. CASE /\ frames' = [frames EXCEPT ![a] = @ + 1] /\ ~Publication!Refused(a) /\ Publication!Published(w)
           /\ UNCHANGED gate
  <2>1. PICK item : item = [work[w] EXCEPT !.stage = "resuming", !.held = FALSE]
    OBVIOUS
  <2>2. Fits(item) /\ item.actor = a /\ item.stage = "resuming" /\ ~item.held
    BY <1>1, <2>1, NextItems
  <2>3. work' = [work EXCEPT ![w] = item]
    BY <1>9, <2>1 DEF Publication!Published
  <2>4. work' \in [Publication!Work -> Items] /\ WorkInv'
    BY <2>2, <2>3, Replaced
  <2>5. LocksInv'
    BY <1>1, <1>2, <1>9, <2>2, <2>3, EnteringMove
  <2>6. /\ JobsInv' /\ MarkerInv' /\ jobs' \in Seq(Publication!Work)
        /\ continuation' \in Actors \cup {None} /\ publication' \in Publication!Work \cup {0}
    BY <1>1, <1>2, <1>4, <1>9, PublishedIsOwn
  <2> QED
    BY <1>4, <1>9, <2>4, <2>5, <2>6 DEF TypeInv
<1> QED
  BY <1>1, <1>3, <1>6, <1>7, <1>8, <1>9 DEF Publication!Starts

\* What goes on finds its own actor, and so do the microtasks after it.
LEMMA ResumesStep ==
  ASSUME PublicationInv, Publication!Resumes PROVE PublicationInv'
<1> USE DEF PublicationInv
<1>1. PICK q \in Seq(Publication!Work) : q = jobs /\ q # <<>>
  BY DEF Publication!Resumes, TypeInv
<1>2. /\ Len(q) \in Nat /\ Len(q) >= 1 /\ Head(q) = q[1] /\ Head(q) \in Publication!Work
      /\ Tail(q) \in Seq(Publication!Work) /\ Len(Tail(q)) = Len(q) - 1
      /\ \A i \in 1..Len(Tail(q)) : Tail(q)[i] = q[i + 1] /\ i + 1 \in 1..Len(q)
      /\ \A i \in 1..Len(q) : q[i] \in Publication!Work
  BY <1>1, LenProperties, EmptySeq, HeadTailProperties, ElementOfSeq
<1>3. PICK w \in Publication!Work : w = Head(q) /\ w = q[1] /\ 1 \in 1..Len(q)
  BY <1>2
<1>4. PICK o \in Actors : o = work[w].owner /\ o = work[w].actor
  BY <1>1, <1>3 DEF JobsInv, WorkInv
<1>5. /\ work[w].stage = "resuming" /\ ~work[w].held /\ Publication!HasCurrent(o)
      /\ continuation \in {None, o} /\ (work[w].kind # "await" => continuation = o)
      /\ UNCHANGED <<gate, frames>>
  BY <1>1, <1>3, <1>4 DEF JobsInv, WorkInv, Publication!Resumes
<1>6. /\ IF work[w].kind = "await"
         THEN publication' = (IF publication = w THEN 0 ELSE publication) /\ continuation' = o
         ELSE UNCHANGED <<continuation, publication>>
      /\ Publication!Code(w, o, IF continuation' # None /\ Publication!HasCurrent(continuation') THEN continuation' ELSE None,
              Tail(q))
  BY <1>1, <1>3, <1>4 DEF Publication!Resumes
<1>7. continuation' = o /\ o # None
  BY <1>5, <1>6, PublicationBounds
<1>8. publication' = (IF publication = w THEN 0 ELSE publication)
  <2>1. publication # 0 => work[publication].kind = "await"
    BY DEF MarkerInv
  <2>2. w # 0
    BY WorkIsFinite
  <2> QED
    BY <1>6, <2>1, <2>2
<1>9. Publication!Code(w, o, o, Tail(q))
  BY <1>5, <1>6, <1>7
<1>10. PICK item :
         /\ Fits(item) /\ item.actor \in {o, None} /\ item.stage \notin {"queued", "granted"}
         /\ ~item.held /\ work' = [work EXCEPT ![w] = item]
         /\ \/ jobs' = Tail(q)
            \/ /\ jobs' = Append(Tail(q), w)
               /\ item.stage = "resuming" /\ item.owner = o
  <2>1. CASE work' = [work EXCEPT ![w] = Publication!NoWork] /\ jobs' = Tail(q)
    BY <1>4, <2>1, NextItems
  <2>2. CASE /\ \E kind \in {"await", "loop"}, stage \in {"waiting", "settled"} :
                  work' = [work EXCEPT ![w] = [kind |-> kind, stage |-> stage, owner |-> o,
                                               actor |-> o, held |-> FALSE]]
             /\ jobs' = Tail(q)
    <3>1. PICK item : /\ Fits(item) /\ item.actor = o /\ item.stage \in {"waiting", "settled"}
                      /\ ~item.held /\ work' = [work EXCEPT ![w] = item]
      BY <2>2 DEF Fits, Items, WorkKinds, WorkStages
    <3> QED
      BY <2>2, <3>1
  <2>3. CASE /\ work' = [work EXCEPT ![w] = [kind |-> "then", stage |-> "resuming", owner |-> o,
                                             actor |-> o, held |-> FALSE]]
             /\ jobs' = Append(Tail(q), w)
    <3>1. PICK item : item = [kind |-> "then", stage |-> "resuming", owner |-> o, actor |-> o,
                              held |-> FALSE]
      OBVIOUS
    <3>2. /\ Fits(item) /\ item.actor = o /\ item.owner = o /\ item.stage = "resuming"
          /\ ~item.held
      BY <3>1 DEF Fits, Items, WorkKinds, WorkStages
    <3> QED
      BY <2>3, <3>1, <3>2
  <2> QED
    BY <1>9, <2>1, <2>2, <2>3 DEF Publication!Code
<1>11. /\ work' \in [Publication!Work -> Items] /\ WorkInv' /\ work'[w] = item
       /\ \A v \in Publication!Work : v # w => work'[v] = work[v]
  BY <1>10, Replaced
<1>12. LocksInv'
  <2>1. work[w].stage \notin {"queued", "granted"} /\ UNCHANGED <<gate, frames>>
    BY <1>5
  <2> QED
    BY <1>4, <1>5, <1>10, <2>1, IdleMove
<1>13. PICK n \in Nat : n = Len(Tail(q)) /\ n = Len(q) - 1
  <2>1. Len(Tail(q)) \in Nat /\ Len(Tail(q)) = Len(q) - 1
    BY <1>2, LenProperties
  <2> QED
    BY <2>1
<1>14. /\ jobs' \in Seq(Publication!Work)
       /\ \A i \in 1..n : jobs'[i] = q[i + 1] /\ i \in 1..Len(jobs')
       /\ \A i \in 1..Len(jobs') : i \in 1..n \/ (i = n + 1 /\ jobs'[i] = w /\ item.stage = "resuming"
                                                  /\ item.owner = o)
  <2>1. CASE jobs' = Tail(q)
    BY <1>2, <1>13, <2>1
  <2>2. CASE jobs' = Append(Tail(q), w) /\ item.stage = "resuming" /\ item.owner = o
    <3>1. /\ jobs' \in Seq(Publication!Work) /\ Len(jobs') = n + 1 /\ jobs'[n + 1] = w
          /\ \A i \in 1..n : jobs'[i] = Tail(q)[i]
      BY <1>2, <1>13, <2>2, AppendProperties
    <3> QED
      BY <1>2, <1>13, <2>2, <3>1
  <2> QED
    BY <1>10, <2>1, <2>2
<1>15. /\ \A i \in 1..n : i + 1 \in 1..Len(q) /\ q[i + 1] \in Publication!Work /\ q[i + 1] # w
       /\ \A i \in 1..n : work[q[i + 1]].stage = "resuming" /\ work[q[i + 1]].owner = o
       /\ \A i, j \in 1..n : q[i + 1] = q[j + 1] => i = j
  <2>1. \A i \in 1..n : i + 1 \in 1..Len(q) /\ i + 1 # 1 /\ q[i + 1] \in Publication!Work
    BY <1>2, <1>13
  <2>2. /\ \A i, j \in 1..Len(q) : q[i] = q[j] => i = j
        /\ \A i \in 1..Len(q) : work[q[i]].stage = "resuming" /\ work[q[i]].owner = o
    BY <1>1, <1>3, <1>4 DEF JobsInv
  <2>3. ASSUME NEW i \in 1..n, NEW j \in 1..n, q[i + 1] = q[j + 1] PROVE i = j
    <3>1. i + 1 = j + 1
      BY <2>1, <2>2, <2>3
    <3> QED
      BY <3>1
  <2> QED
    BY <1>3, <2>1, <2>2, <2>3
<1>16. ASSUME NEW i \in 1..Len(jobs')
       PROVE  /\ jobs'[i] \in Publication!Work /\ work'[jobs'[i]].stage = "resuming"
              /\ work'[jobs'[i]].owner = o
  <2>1. CASE i \in 1..n
    BY <1>11, <1>14, <1>15, <2>1
  <2>2. CASE i = n + 1 /\ jobs'[i] = w /\ item.stage = "resuming" /\ item.owner = o
    BY <1>11, <2>2
  <2> QED
    BY <1>14, <2>1, <2>2
<1>17. JobsInv'
  <2>1. ASSUME NEW i \in 1..Len(jobs'), NEW j \in 1..Len(jobs'), jobs'[i] = jobs'[j] PROVE i = j
    BY <1>14, <1>15, <2>1
  <2>2. \A i \in 1..Len(jobs') : Publication!HasCurrent(work[jobs[i]].owner)'
    BY <1>5, <1>16 DEF Publication!HasCurrent
  <2> QED
    BY <1>7, <1>16, <2>1, <2>2 DEF JobsInv
<1>18. MarkerInv'
  <2>1. Publication!HasCurrent(continuation)'
    BY <1>5, <1>7 DEF Publication!HasCurrent
  <2>2. ASSUME publication' # 0
        PROVE  work'[publication'].kind = "await" /\ \E i \in 1..Len(jobs') : jobs'[i] = publication'
    <3>1. publication' = publication /\ publication # w /\ publication # 0
      BY <1>8, <2>2
    <3>2. PICK k \in 1..Len(q) : q[k] = publication
      BY <1>1, <3>1 DEF MarkerInv
    <3>3. k # 1 /\ k - 1 \in 1..n /\ (k - 1) + 1 = k
      BY <1>2, <1>3, <1>13, <3>1, <3>2
    <3>4. jobs'[k - 1] = q[k] /\ k - 1 \in 1..Len(jobs')
      <4>1. PICK i \in 1..n : i = k - 1 /\ i + 1 = k
        BY <3>3
      <4>2. jobs'[i] = q[i + 1] /\ i \in 1..Len(jobs')
        BY <1>14
      <4> QED
        BY <4>1, <4>2
    <3>5. publication \in Publication!Work /\ work'[publication] = work[publication]
      BY <1>2, <1>11, <3>1, <3>2
    <3>6. work[publication].kind = "await"
      BY <3>1 DEF MarkerInv
    <3> QED
      BY <3>1, <3>2, <3>4, <3>5, <3>6
  <2> QED
    BY <1>7, <2>1, <2>2 DEF MarkerInv
<1> QED
  BY <1>5, <1>7, <1>8, <1>11, <1>12, <1>14, <1>17, <1>18 DEF TypeInv

LEMMA CheckpointEndStep ==
  ASSUME PublicationInv, Publication!CheckpointEnd PROVE PublicationInv'
<1> USE DEF PublicationInv
<1>1. /\ jobs = <<>> /\ UNCHANGED jobs /\ continuation' = None /\ publication' = 0
      /\ \A w \in Publication!Work : work[w].stage # "granted"
      /\ frames' = [a \in Actors |-> 0]
      /\ gate' = [a \in Actors |->
                   IF Publication!HasCurrent(a) THEN Publication!Release(gate[a], frames[a]) ELSE gate[a]]
      /\ work' = [w \in Publication!Work |->
                   IF \E a \in Actors : Publication!HasCurrent(a) /\ w \in Publication!Heir(a, frames[a])
                   THEN [work[w] EXCEPT !.stage = "granted"] ELSE work[w]]
  BY DEF Publication!CheckpointEnd, Publication!Drained, Publication!In
<1>2. ASSUME NEW a \in Actors, NEW w \in Publication!Heir(a, frames[a])
      PROVE  w \in Publication!Work /\ work[w].stage = "queued" /\ work[w].actor = a
  <2>1. gate[a].queue \in Seq(Publication!Work) /\ gate[a].queue # <<>> /\ w = Head(gate[a].queue)
    BY <1>2 DEF Publication!Heir, TypeInv
  <2>2. w = gate[a].queue[1] /\ 1 \in 1..Len(gate[a].queue)
    BY <2>1, HeadTailProperties, EmptySeq, LenProperties
  <2> QED
    BY <2>1, <2>2, ElementOfSeq DEF LocksInv, QueueOf
<1>3. ASSUME NEW w \in Publication!Work
      PROVE  /\ work'[w] \in Items /\ work'[w].actor = work[w].actor
             /\ work'[w].owner = work[w].owner /\ work'[w].held = work[w].held
             /\ \/ work'[w] = work[w]
                \/ work[w].stage = "queued" /\ work'[w].stage = "granted"
  <2>1. work[w] \in Items
    BY DEF TypeInv
  <2>2. CASE \E a \in Actors : Publication!HasCurrent(a) /\ w \in Publication!Heir(a, frames[a])
    <3>1. work'[w] = [work[w] EXCEPT !.stage = "granted"] /\ work[w].stage = "queued"
      BY <1>1, <1>2, <2>2
    <3> QED
      BY <2>1, <3>1 DEF Items, WorkStages
  <2>3. CASE ~\E a \in Actors : Publication!HasCurrent(a) /\ w \in Publication!Heir(a, frames[a])
    BY <1>1, <2>1, <2>3
  <2> QED
    BY <2>2, <2>3
<1>4. WorkInv'
  BY <1>3 DEF WorkInv
<1>5. JobsInv' /\ MarkerInv'
  BY <1>1, EmptySeq DEF JobsInv, MarkerInv
<1>6. ASSUME NEW a \in Actors
      PROVE  /\ gate[a].locks \in Nat /\ gate[a].queue \in Seq(Publication!Work) /\ frames[a] \in Nat
             /\ Keepers(a) \in SUBSET Publication!Work /\ Cardinality(Keepers(a)) \in Nat
             /\ gate[a].locks = frames[a] + Cardinality(Keepers(a))
             /\ gate[a] = [locks |-> gate[a].locks, queue |-> gate[a].queue]
             /\ \A v \in Keepers(a) : work[v].held
  <2>1. Keepers(a) \in SUBSET Publication!Work
    BY DEF Keepers
  <2> QED
    BY <1>1, <2>1, WorkIsFinite DEF TypeInv, LocksInv, CountOf, Keepers, Keeps
<1>7. gate' \in [Actors -> [locks : Nat, queue : Seq(Publication!Work)]]
  <2>1. ASSUME NEW a \in Actors
        PROVE  (IF Publication!HasCurrent(a) THEN Publication!Release(gate[a], frames[a]) ELSE gate[a])
                 \in [locks : Nat, queue : Seq(Publication!Work)]
    <3>1. gate[a].queue # <<>> => Tail(gate[a].queue) \in Seq(Publication!Work)
      BY <1>6, HeadTailProperties
    <3>2. gate[a].locks - frames[a] \in Nat
      <4>1. PICK f \in Nat, k \in Nat : f = frames[a] /\ gate[a].locks = f + k
        BY <1>6
      <4> QED
        BY <4>1
    <3> QED
      BY <1>6, <3>1, <3>2 DEF Publication!Release, TypeInv
  <2> QED
    BY <1>1, <2>1
<1>8. ASSUME NEW a \in Actors, Publication!HasCurrent(a)
      PROVE  CountOf(a)' /\ NewOf(a)' /\ QueueOf(a)'
  <2>1. \A v \in Publication!Work : work[v].actor = a =>
          (work'[v] = IF v \in Publication!Heir(a, frames[a]) THEN [work[v] EXCEPT !.stage = "granted"] ELSE work[v])
    BY <1>1, <1>2, <1>8
  <2>2. \A v \in Publication!Work : Keeps(v, a)' <=> v \in Keepers(a) \/ v \in Publication!Heir(a, frames[a])
    <3>1. ASSUME NEW v \in Publication!Work, v \in Publication!Heir(a, frames[a])
          PROVE  Keeps(v, a)'
      <4>1. work'[v] = [work[v] EXCEPT !.stage = "granted"] /\ work[v] \in Items
        BY <1>2, <2>1, <3>1 DEF TypeInv
      <4>2. work'[v].stage = "granted" /\ work'[v].actor = a
        BY <1>2, <1>3, <3>1, <4>1 DEF Items
      <4> QED
        BY <4>2 DEF Keeps
    <3>2. ASSUME NEW v \in Publication!Work, v \notin Publication!Heir(a, frames[a])
          PROVE  Keeps(v, a)' <=> v \in Keepers(a)
      <4>1. CASE work[v].actor = a
        <5>1. work'[v] = work[v]
          BY <2>1, <3>2, <4>1
        <5> QED
          BY <5>1 DEF Keeps, Keepers
      <4>2. CASE work[v].actor # a
        BY <1>3, <4>2 DEF Keeps, Keepers
      <4> QED
        BY <4>1, <4>2
    <3> QED
      BY <3>1, <3>2
  <2>3. \A v \in Keepers(a) : work'[v].held
    BY <1>3, <1>6
  <2>4. gate'[a] = Publication!Release(gate[a], frames[a]) /\ frames'[a] = 0
    BY <1>1, <1>8
  <2>5. gate[a].locks = frames[a] + frames'[a] + Cardinality(Keepers(a)) /\ frames'[a] \in Nat
    <3>1. PICK f \in Nat, k \in Nat :
            f = frames[a] /\ k = Cardinality(Keepers(a)) /\ gate[a].locks = f + k
      BY <1>6
    <3>2. gate[a].locks = f + 0 + k
      BY <3>1
    <3> QED
      BY <2>4, <3>1, <3>2
  <2>6. QueueOf(a) /\ frames[a] \in Nat /\ Keepers(a) \in SUBSET Publication!Work
    BY <1>6 DEF LocksInv
  <2> QED
    BY <2>1, <2>2, <2>3, <2>4, <2>5, <2>6, Released
<1>9. ASSUME NEW a \in Actors, ~Publication!HasCurrent(a)
      PROVE  CountOf(a)' /\ NewOf(a)' /\ QueueOf(a)'
  <2>1. gate'[a] = gate[a] /\ frames'[a] = frames[a]
    BY <1>1, <1>9 DEF Publication!HasCurrent, TypeInv
  <2>2. ASSUME NEW v \in Publication!Work, work[v].actor = a \/ work'[v].actor = a
        PROVE  work'[v] = work[v]
    <3>1. work[v].actor = a
      BY <1>3, <2>2
    <3> QED
      BY <1>1, <1>2, <1>9, <3>1
  <2> QED
    BY <2>1, <2>2, Untouched
<1>10. work' \in [Publication!Work -> Items] /\ frames' \in [Actors -> Nat]
  BY <1>1, <1>3
<1> QED
  BY <1>1, <1>4, <1>5, <1>7, <1>8, <1>9, <1>10 DEF TypeInv, LocksInv

LEMMA InvUnchanged ==
  ASSUME PublicationInv, UNCHANGED <<work, gate, frames, continuation, publication, jobs>>
  PROVE  PublicationInv'
<1> USE DEF PublicationInv
<1>1. TypeInv' /\ WorkInv'
  BY DEF TypeInv, WorkInv
<1>2. JobsInv' /\ MarkerInv'
  BY Unmoved DEF TypeInv
<1>3. ASSUME NEW a \in Actors PROVE CountOf(a)' /\ NewOf(a)' /\ QueueOf(a)'
  BY Untouched
<1> QED
  BY <1>1, <1>2, <1>3 DEF LocksInv

\* Nothing has started.
LEMMA PublicationInit ==
  ASSUME Publication!Init PROVE PublicationInv
<1>1. None \notin Actors
  BY PublicationBounds
<1>2. TypeInv
  BY DEF Publication!Init, TypeInv, Publication!NoWork, Items, WorkKinds, WorkStages
<1>3. WorkInv /\ JobsInv /\ MarkerInv
  BY EmptySeq DEF Publication!Init, Publication!NoWork, WorkInv, JobsInv, MarkerInv
<1>4. ASSUME NEW a \in Actors PROVE CountOf(a) /\ NewOf(a) /\ QueueOf(a)
  <2>1. /\ gate[a].locks = 0 /\ gate[a].queue = <<>> /\ frames[a] = 0
        /\ \A w \in Publication!Work : work[w].actor # a
    BY <1>1 DEF Publication!Init, Publication!NoWork
  <2>2. Keepers(a) = {}
    BY <2>1 DEF Keepers, Keeps
  <2>3. Cardinality(Keepers(a)) = 0
    BY <2>2, FS_EmptySet
  <2> QED
    BY <2>1, <2>3, EmptySeq DEF CountOf, NewOf, QueueOf
<1> QED
  BY <1>2, <1>3, <1>4 DEF PublicationInv, LocksInv

LEMMA PublicationStep ==
  ASSUME PublicationInv, [Publication!Next]_(Publication!vars) PROVE PublicationInv'
<1>1. ASSUME NEW a \in Actors, Publication!Event(a) PROVE PublicationInv'
  BY <1>1, EventStep DEF PublicationInv
<1>2. ASSUME NEW a \in Actors, Publication!Abort(a) PROVE PublicationInv'
  BY <1>2, InvUnchanged DEF Publication!Abort
<1>3. ASSUME NEW w \in Publication!Work, Publication!PromiseSettles(w) PROVE PublicationInv'
  BY <1>3, PromiseSettlesStep DEF PublicationInv
<1>4. ASSUME NEW w \in Publication!Work, Publication!Settles(w) PROVE PublicationInv'
  BY <1>4, SettlesStep
<1>5. ASSUME NEW w \in Publication!Work, Publication!Starts(w) PROVE PublicationInv'
  BY <1>5, StartsStep
<1>6. ASSUME NEW w \in Publication!Work, Publication!Publishes(w) PROVE PublicationInv'
  BY <1>6, PublishesStep DEF PublicationInv
<1>7. CASE UNCHANGED Publication!vars
  BY <1>7, InvUnchanged DEF Publication!vars
<1> QED
  BY <1>1, <1>2, <1>3, <1>4, <1>5, <1>6, <1>7, ResumesStep, CheckpointEndStep DEF Publication!Next

LEMMA PublicationInvariance == Publication!Spec => []PublicationInv
  BY PublicationInit, PublicationStep, PTL DEF Publication!Spec

-----------------------------------------------------------------------------
(***************************************************************************)
(* The properties.                                                         *)
(***************************************************************************)

\* The locks of an actor are those of its slices and of the work that keeps one for a later
\* task, work that captured an actor stays its own, and what the gate keeps waiting is of
\* its actor, once (getInputLock() and the releases of io/io-context.ts).
THEOREM Locking == Publication!Spec => [](TypeInv /\ WorkInv /\ LocksInv)
<1>1. PublicationInv => TypeInv /\ WorkInv /\ LocksInv
  BY DEF PublicationInv
<1> QED
  BY <1>1, PublicationInvariance, PTL

\* Code runs as the actor that it belongs to: what goes on after an await finds its own
\* actor or none, although the marker belongs to the whole realm (reservePublication() and
\* __resumeAwait() of gate.ts).
THEOREM OwnCode == Publication!Spec => []CodeRunsAsItself
<1>1. PublicationInv => CodeRunsAsItself
  <2> SUFFICES ASSUME PublicationInv PROVE CodeRunsAsItself
    OBVIOUS
  <2> USE DEF PublicationInv
  <2>1. Publication!LiveContinuation = continuation
    BY DEF MarkerInv, Publication!LiveContinuation
  <2>2. DOMAIN jobs = 1..Len(jobs)
    BY LenProperties DEF TypeInv
  <2> QED
    BY <2>1, <2>2 DEF CodeRunsAsItself, Publication!CodeRunsAsItself, WorkInv, JobsInv
<1> QED
  BY <1>1, PublicationInvariance, PTL

\* An await that waits for the checkpoint of another actor keeps its own: no event of it is
\* admitted before the await went on (settle() in publishOutcome() of gate.ts).
THEOREM WaitingOut == Publication!Spec => []WaitingOutKeepsTheActor
<1>1. PublicationInv => WaitingOutKeepsTheActor
  <2> SUFFICES ASSUME PublicationInv, NEW u \in Publication!Work, NEW w \in Publication!Work, work[u].stage = "task", work[u].held,
                      work[w].stage = "granted", ~work[w].held, work[u].actor = work[w].actor
               PROVE  FALSE
    BY DEF WaitingOutKeepsTheActor, Publication!WaitingOutKeepsTheActor, Publication!In
  <2> USE DEF PublicationInv
  <2>1. PICK a \in Actors : a = work[w].actor
    BY DEF WorkInv
  <2>2. Keepers(a) = {w}
    BY <2>1, NewIsAlone
  <2>3. u \in Keepers(a)
    BY <2>1 DEF Keepers, Keeps
  <2> QED
    BY <2>2, <2>3
<1> QED
  BY <1>1, PublicationInvariance, PTL

=============================================================================
